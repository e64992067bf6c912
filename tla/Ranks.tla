------------------------------- MODULE Ranks -------------------------------
(***************************************************************************)
(* The elements of a finite set of positions, in order.                    *)
(***************************************************************************)
EXTENDS Integers, FiniteSets

\* How many elements of S lie in front of k.
Rank(S, k) == Cardinality({j \in S : j < k})

Nth(S, n) == CHOOSE k \in S : Rank(S, k) = n - 1
=============================================================================
