---------------------------- MODULE Subsequences ----------------------------
(***************************************************************************)
(* What is left of a slice when a loop keeps some of its elements, in      *)
(* order: SelectSeq, told the positions to keep instead of a test, and     *)
(* without the recursion that puts SelectSeq out of a prover's reach.      *)
(***************************************************************************)
EXTENDS Integers, Sequences, FiniteSets

Rank(D, i) == Cardinality({k \in D : k <= i})

\* The j-th of the positions D.
Nth(D, j) == CHOOSE i \in D : Rank(D, i) = j

Keep(s, D) == [j \in 1..Cardinality(D) |-> s[Nth(D, j)]]
=============================================================================
