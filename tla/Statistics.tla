----------------------------- MODULE Statistics -----------------------------
(***************************************************************************)
(* The index arithmetic of quantile() (include/benchmark/stats.hpp), which *)
(* interpolates between two neighbours of a sorted vector.  The program    *)
(* asks for quarters only; poi is a multiple of 1/8 then, and is kept      *)
(* eightfold so that all numbers are integers.  Vectors count from 0.      *)
(***************************************************************************)
EXTENDS Integers

\* The quantiles that compute() takes, in quarters.
Quarters == 1..3

\* (1 - q) * -0.5 + q * (n - 0.5), for q = k / 4 and n samples, times 8
Poi(n, k) == 2 * k * n - 4

\* max(int64_t(floor(poi)), 0)
Left(n, k) == IF Poi(n, k) < 0 THEN 0 ELSE Poi(n, k) \div 8

\* Mutant: the upper index is not held back at the end of the vector.
RightUnbounded(n, k) == (Poi(n, k) + 7) \div 8

\* min(int64_t(ceil(poi)), n - 1)
Right(n, k) == IF (Poi(n, k) + 7) \div 8 > n - 1 THEN n - 1 ELSE (Poi(n, k) + 7) \div 8

\* poi - left, the share of the right neighbour, times 8
Weight(n, k) == Poi(n, k) - 8 * Left(n, k)

\* Both indices are inside the vector, and the result lies between the two
\* samples they lead to.
Interpolates(n, k) ==
  /\ Left(n, k) \in 0..(n - 1)
  /\ Right(n, k) \in 0..(n - 1)
  /\ \/ Right(n, k) = Left(n, k)
     \/ Right(n, k) = Left(n, k) + 1 /\ Weight(n, k) \in 0..8

=============================================================================
