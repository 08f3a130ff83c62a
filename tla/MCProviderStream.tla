--------------------------- MODULE MCProviderStream ---------------------------
(***************************************************************************)
(* Answers of up to three lines over two texts and two usage reports, so   *)
(* that pieces can be swapped, dropped or repeated and a later report can  *)
(* replace an earlier one.                                                 *)
(***************************************************************************)
EXTENDS ProviderStream

CONSTANTS t1, t2, u1, u2

MCTexts == {t1, t2}
MCUsages == {u1, u2}

=============================================================================
