------------------------------ MODULE MCGates ------------------------------
(* Instances of Gates: proposals of one or two items, read-only or not.     *)
EXTENDS Gates, TLC

CONSTANTS x, y, look, delete

Proposals == [g \in Gate |-> {[i \in IF g = RunGate THEN {x, y} ELSE {x} |-> look]}]
Edit(i) == [j \in {i} |-> delete]
Says(d, S, e, a) == [decision |-> d, items |-> S, edits |-> e, acks |-> a]
Files ==
  { Says("approve", {x, y}, <<>>, {}), Says("approve", {x}, <<>>, {x}),
    Says("approve", {x}, Edit(x), {x}), Says("approve", {x}, Edit(x), {}),
    Says("reject", {}, <<>>, {}) }
TwoTwoOne == [plan |-> 2, approve |-> 2, run |-> 1]
Symmetry == Permutations(Process)
=============================================================================
