---------------------------- MODULE MCWorkQueue ----------------------------
(* A small instance of WorkQueue: two jobs, two workers, a lease of one    *)
(* tick and a clock that lets it expire.                                   *)
EXTENDS WorkQueue, TLC

Symmetry == Permutations(Job) \cup Permutations(Worker)
=============================================================================
