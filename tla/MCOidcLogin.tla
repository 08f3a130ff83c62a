----------------------------- MODULE MCOidcLogin -----------------------------
(***************************************************************************)
(* Two callbacks over two logins, so that one can carry the other's ID     *)
(* token, and two signing keys, each retired when the other is published.  *)
(* A fetch may last one tick; the throttle and the TTL are longer.         *)
(***************************************************************************)
EXTENDS OidcLogin

CONSTANTS c1, c2, l1, l2, k1, k2

MCCallers == {c1, c2}
MCLogins == {l1, l2}
MCKids == {k1, k2}
MCKeySets == {{k1}, {k2}}

=============================================================================
