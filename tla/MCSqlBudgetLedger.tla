-------------------------- MODULE MCSqlBudgetLedger -------------------------
(* Two sessions, so that every pair of operations on one id and on two ids  *)
(* interleaves, and enough operations for a hold to expire, be re-held and  *)
(* be settled late.                                                         *)
EXTENDS SqlBudgetLedger

MCAmounts == {1}
=============================================================================
