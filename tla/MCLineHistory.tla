---------------------------- MODULE MCLineHistory ----------------------------
(* Symmetric memory cells for the model-checked instances of LineHistory. *)
EXTENDS LineHistory, TLC

Symmetric == Permutations(Cell)
=============================================================================
