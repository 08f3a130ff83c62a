----------------------- MODULE MCStreamingCoordinator -----------------------
(* Two streams of the same prompt: with one correlation id, or with two     *)
(* that compete for a budget that affords one call.                         *)
EXTENDS StreamingCoordinator, TLC

CONSTANTS s1, s2, k1

MCAmounts == {1}

SharedId == (s1 :> 1) @@ (s2 :> 1)
TwoIds == (s1 :> 1) @@ (s2 :> 2)

MCStreamIds == {SharedId, TwoIds}
MCKeyOf == [s \in Streams |-> k1]

=============================================================================
