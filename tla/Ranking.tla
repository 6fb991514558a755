------------------------------ MODULE Ranking -------------------------------
(***************************************************************************)
(* Sorting, by rank: what a proof can tell of without induction.           *)
(***************************************************************************)
EXTENDS Integers, FiniteSets

\* The members of a finite set in the order R, a set of pairs.
Ranked(S, R) ==
  [k \in 1 .. Cardinality(S) |-> CHOOSE x \in S : Cardinality({y \in S : <<y, x>> \in R}) = k - 1]
=============================================================================
