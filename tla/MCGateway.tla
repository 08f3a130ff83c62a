------------------------------ MODULE MCGateway ------------------------------
(***************************************************************************)
(* Two tenants, one with an API key and one with a JWT, each with a        *)
(* provider that the other must not reach and that may be disabled under a *)
(* decision for it.                                                        *)
(***************************************************************************)
EXTENDS Gateway

CONSTANTS k1, j2, o1, o2, p1, p2

MCCreds == {k1, j2}
MCKindOf == [c \in MCCreds |-> IF c = k1 THEN "key" ELSE "jwt"]
MCOrgs == {o1, o2}
MCOrgOf == [c \in MCCreds |-> IF c = k1 THEN o1 ELSE o2]
MCProviders == {p1, p2}
MCOwnerOf == [p \in MCProviders |-> IF p = p2 THEN o2 ELSE o1]

=============================================================================
