------------------------------ MODULE MCRunStart ------------------------------
(* Instances of RunStart for the model checker. *)
EXTENDS RunStart, TLC

CONSTANTS p1, p2, p3

Symmetry == Permutations(Starts)
===============================================================================
