------------------------------ MODULE PayCall -------------------------------
(***************************************************************************)
(* What Payout relies on when it asks a wallet to pay one invoice: an      *)
(* answer "paid" comes after the money moved, and after an answer "failed" *)
(* it has not moved and never will.  "unknown" promises nothing.           *)
(***************************************************************************)

CONSTANT None

VARIABLES
  money,    \* what became of the payment
  verdict   \* what payInvoice told its caller

Init == money = "none" /\ verdict = None

\* The wallet starts, ends, or at once declines the payment.
Move ==
  /\ \/ money = "none" /\ money' \in {"pending", "failed"} /\ verdict # "failed"
     \/ money = "pending" /\ money' \in {"settled", "failed"}
  /\ UNCHANGED verdict

Answer ==
  /\ verdict = None
  /\ \/ verdict' = "paid" /\ money = "settled"
     \/ verdict' = "failed" /\ money \in {"none", "failed"}
     \/ verdict' = "unknown"
  /\ UNCHANGED money

Next == Move \/ Answer

Spec == Init /\ [][Next]_<<money, verdict>>
=============================================================================
