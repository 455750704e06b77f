------------------------------ MODULE MCEvents ------------------------------
(* Instances of Events for TLC. *)
EXTENDS Events, TLC

Symmetry == Permutations(Relay) \cup Permutations(Claimant)
=============================================================================
