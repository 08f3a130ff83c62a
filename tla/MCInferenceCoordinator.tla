----------------------- MODULE MCInferenceCoordinator -----------------------
(* Two requests with the same payload: duplicates of one id on one replica, *)
(* duplicates on two replicas, or two ids on one replica that compete for a *)
(* budget that affords one call.                                            *)
EXTENDS InferenceCoordinator, TLC

CONSTANTS r1, r2, pA, pB, k1

MCAmounts == {1}

Duplicates == [cid |-> (r1 :> 1) @@ (r2 :> 1), replica |-> (r1 :> pA) @@ (r2 :> pA)]
AcrossReplicas == [cid |-> (r1 :> 1) @@ (r2 :> 1), replica |-> (r1 :> pA) @@ (r2 :> pB)]
Competing == [cid |-> (r1 :> 1) @@ (r2 :> 2), replica |-> (r1 :> pA) @@ (r2 :> pA)]

MCPlacements == {Duplicates, AcrossReplicas, Competing}
MCKeyOf == (r1 :> k1) @@ (r2 :> k1)

=============================================================================
