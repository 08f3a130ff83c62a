---------------------------- MODULE MCAuditChain ----------------------------
(* Three calls over two organizations whose lock keys collide.              *)
EXTENDS AuditChain

CONSTANTS c1, c2, c3, o1, o2, k1, k2, none

MCCalls == {c1, c2, c3}
MCOrgs == {o1, o2}
MCLockKeys == {k1, k2}
MCLockKey == [o \in MCOrgs |-> k1]
MCSpec == FairSpec

=============================================================================
