------------------------------ MODULE MCPayout ------------------------------
(* Instances of Payout for TLC. *)
EXTENDS Payout, TLC

Symmetry == Permutations(Attempt) \cup Permutations(Device)
              \cup Permutations(Wallet) \cup Permutations(Relay)
=============================================================================
