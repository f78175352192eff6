------------------------------ MODULE MCAiFlow ------------------------------
(* Two commands, interleaved or one after the other, on a small budget.     *)
EXTENDS AiFlow, TLC

Symmetry == Permutations(Flows)
=============================================================================
