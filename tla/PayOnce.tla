------------------------------ MODULE PayOnce -------------------------------
(***************************************************************************)
(* What the payout of one bounty promises its creator: a wallet is asked   *)
(* to pay a hash only while no other payment for the bounty has settled or *)
(* may still settle.  How a device finds that out is Payout's business.    *)
(***************************************************************************)

CONSTANT Attempt     \* the payment hashes

VARIABLE outcome     \* what became of each of them

Init == outcome = [h \in Attempt |-> "none"]

Ask(h) ==
  /\ outcome[h] = "none"
  /\ \A g \in Attempt : outcome[g] \notin {"pending", "settled"}
  /\ outcome' = [outcome EXCEPT ![h] = "pending"]

Decide(h) ==
  /\ outcome[h] = "pending"
  /\ \E o \in {"settled", "failed"} : outcome' = [outcome EXCEPT ![h] = o]

Next == \E h \in Attempt : Ask(h) \/ Decide(h)

Spec == Init /\ [][Next]_outcome
=============================================================================
