------------------------------ MODULE MCEditor ------------------------------
(* Instances of Editor for TLC. *)
EXTENDS Editor, TLC

Symmetry == Permutations(Cmd) \cup Permutations(Load)
=============================================================================
