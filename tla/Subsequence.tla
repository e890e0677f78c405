---------------------------- MODULE Subsequence ----------------------------
(***************************************************************************)
(* What a loop keeps that goes over a slice and appends some of its        *)
(* elements to another.  The places of those are a set; that the places    *)
(* are counted, not the elements folded, is what the proofs can use.       *)
(***************************************************************************)
EXTENDS Integers, FiniteSets

\* The n-th smallest of a set of numbers.
Nth(P, n) == CHOOSE k \in P : Cardinality({j \in P : j <= k}) = n

\* The elements at those places, in their order.
Picked(slice, P) == [n \in 1..Cardinality(P) |-> slice[Nth(P, n)]]
=============================================================================
