----------------------------- MODULE MCSessions -----------------------------
(***************************************************************************)
(* One session and three tokens, two refreshes and a logout at a time and  *)
(* four calls in all: enough for two refreshes of one token, a replay and  *)
(* a logout between them, a refresh with a token that the revocation did   *)
(* not see, and a deadlock of all three.  A ttl of 0 is one shorter than a *)
(* tick.                                                                   *)
(***************************************************************************)
EXTENDS Sessions

CONSTANTS h1, h2, h3
MCCallers == {h1, h2}
MCLeavers == {h3}

=============================================================================
