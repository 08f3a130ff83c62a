--------------------------- MODULE MCRateLimiter ----------------------------
(* One replica with two handlers, beside Redis.  A token takes three ticks  *)
(* of half a second, so that levels, delays and expiries have fractions to  *)
(* round.                                                                   *)
EXTENDS RateLimiter, TLC

CONSTANTS p1, h1, h2

MCReplicaOf == [h \in Handlers |-> p1]

Interchangeable == Permutations({h1, h2})

=============================================================================
