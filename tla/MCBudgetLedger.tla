--------------------------- MODULE MCBudgetLedger ---------------------------
(* Two correlation ids, two prices and a limit that three of the cheap or   *)
(* one cheap and one dear request fill: enough for a refusal, a re-hold, an *)
(* expiry, a late settlement and an overrun to happen together.             *)
EXTENDS BudgetLedger

MCAmounts == {1, 2}
=============================================================================
