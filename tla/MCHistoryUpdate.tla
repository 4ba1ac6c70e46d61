--------------------------- MODULE MCHistoryUpdate ---------------------------
(* Symmetric memory cells for the model-checked instance of HistoryUpdate. *)
EXTENDS HistoryUpdate, TLC

Symmetric == Permutations(Cell)
=============================================================================
