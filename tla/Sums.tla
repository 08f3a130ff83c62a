-------------------------------- MODULE Sums --------------------------------
(* The sum of a function over 1..n, as a recursive function so that TLC can *)
(* evaluate it and TLAPS can reason about it.                               *)
EXTENDS Integers

SumTo(n, f) == LET upTo[k \in 0..n] == IF k = 0 THEN 0 ELSE upTo[k - 1] + f[k]
               IN  upTo[n]
=============================================================================
