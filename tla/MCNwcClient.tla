---------------------------- MODULE MCNwcClient -----------------------------
(* Instances of NwcClient for TLC. *)
EXTENDS NwcClient, TLC

Symmetry == Permutations(Lookup) \cup Permutations(Relay)
=============================================================================
