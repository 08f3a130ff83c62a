-------------------------- MODULE MCCircuitBreaker --------------------------
(* Two providers and two handlers (interchangeable), so that a probe can    *)
(* overlap a call routed before the trip and another probe.                 *)
EXTENDS CircuitBreaker, TLC

CONSTANTS r1, r2

=============================================================================
