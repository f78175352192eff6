------------------------------ MODULE Selecting -----------------------------
(***************************************************************************)
(* What a sequence has at some of its places, in its order: the filters of *)
(* the code, without the recursion of SelectSeq.                           *)
(***************************************************************************)
EXTENDS Naturals, Sequences, FiniteSets

\* The n-th of a set of places, and what a sequence has at these places.
Place(K, n) == CHOOSE k \in K : Cardinality({x \in K : x <= k}) = n
Selected(s, K) == [n \in 1 .. Cardinality(K) |-> s[Place(K, n)]]
=============================================================================
