---------------------------- MODULE MCRepository ----------------------------
(* Instances of Repository for TLC: claimants are alike. *)
EXTENDS Repository, TLC

Symmetry == Permutations(Claimant)
=============================================================================
