----------------------------- MODULE NwcClient ------------------------------
(***************************************************************************)
(* The Nostr Wallet Connect client (src/lightning/nwc-client.ts): one call *)
(* of payInvoice and the lookups of the same payment that follow it or run *)
(* beside it.  Each is one `request`: an event published to every relay of *)
(* the wallet, a subscription for its reply, and timers.  Relays and the   *)
(* wallet are external.                                                    *)
(*                                                                         *)
(* A request is an event of its own and its reply names it, so a reply is  *)
(* never taken for the reply to another request.                           *)
(***************************************************************************)
EXTENDS FiniteSets

CONSTANTS
  Payment,   \* the pay_invoice request
  Lookup,    \* the lookup_invoice requests about its payment hash
  Relay,     \* the relays of the wallet connection
  None,      \* absence of a value
  Features   \* which optional behaviours the instance exercises

\* "late" lets a relay store a request whose acceptance comes too late.
ASSUME FeaturesAssumption == Features \subseteq {"late"}
ASSUME RequestAssumption == Payment \notin Lookup

Request == Lookup \cup {Payment}

VARIABLES
  phase,    \* how far `request` is for each request
  ack,      \* what each relay's publication promise is worth
  settled,  \* whether the request has ended, in its own eyes
  timer,    \* whether the reply timer is armed
  result,   \* what the caller of payInvoice or lookupPayment was told
  posted,   \* the relays that stored the request
  got,      \* the requests the wallet received
  reply,    \* the wallet's reply to each request
  money     \* what became of the payment at the wallet

vars == <<phase, ack, settled, timer, result, posted, got, reply, money>>
client == <<phase, ack, settled, timer, result>>
wallet == <<got, reply, money>>

Outcome == {"paid", "settled", "failed", "pending", "unknown"}
Reply == {"proof", "no proof", "error", "garbled", "null",
          "settled", "failed", "pending", "not found"}

ASSUME NoneAssumption == None \notin Outcome \cup Reply

TypeOK ==
  /\ phase \in [Request -> {"idle", "info", "publishing", "published"}]
  /\ ack \in [Request -> [Relay -> {"waiting", "ok", "failed"}]]
  /\ settled \in [Request -> BOOLEAN] /\ timer \in [Request -> BOOLEAN]
  /\ result \in [Request -> Outcome \cup {None}]
  /\ posted \in [Request -> SUBSET Relay]
  /\ got \in SUBSET Request
  /\ reply \in [Request -> Reply \cup {None}]
  /\ money \in {"none", "pending", "settled", "failed"}

Init ==
  /\ phase = [r \in Request |-> "idle"]
  /\ ack = [r \in Request |-> [y \in Relay |-> "waiting"]]
  /\ settled = [r \in Request |-> FALSE] /\ timer = [r \in Request |-> FALSE]
  /\ result = [r \in Request |-> None]
  /\ posted = [r \in Request |-> {}]
  /\ got = {}
  /\ reply = [r \in Request |-> None]
  /\ money = "none"

-----------------------------------------------------------------------------
(* Errors and answers, as the caller is told of them. *)

\* Variants: a missing reply, or a lookup's error, counts as a failure.
TimeoutIsFailed(error) ==
  IF error \in {"publish error", "wallet error", "reply timeout"} THEN "failed"
                                                                  ELSE "unknown"
ErrorIsFailed(r, body) ==
  IF body \in {"settled", "failed", "pending"} THEN body ELSE "failed"

classifyNwcError(error) ==
  IF error \in {"publish error", "wallet error"} THEN "failed" ELSE "unknown"

\* How a call ends when `request` throws: lookupPayment never says "failed".
Thrown(r, error) == IF r = Payment THEN classifyNwcError(error) ELSE "unknown"

\* Variant: whatever the wallet answers without an error is a payment.
AnyAnswerIsPaid(r, body) ==
  IF body = "error" THEN "failed" ELSE IF r = Payment THEN "paid" ELSE body

\* How a call ends when the reply is decrypted.
Answered(r, body) ==
  CASE r = Payment /\ body = "proof"    -> "paid"
    [] r = Payment /\ body = "no proof" -> "unknown"
    [] r \in Lookup /\ body \in {"settled", "failed", "pending"} -> body
    [] OTHER -> Thrown(r, "wallet error")

-----------------------------------------------------------------------------
(* request. *)

\* An invoice that does not ask for the expected amount goes nowhere.
RejectInvoice ==
  /\ phase[Payment] = "idle" /\ result[Payment] = None
  /\ result' = [result EXCEPT ![Payment] = "failed"]
  /\ UNCHANGED <<phase, ack, settled, timer, posted, wallet>>

Call(r) ==
  /\ phase[r] = "idle" /\ result[r] = None
  /\ phase' = [phase EXCEPT ![r] = "info"]
  /\ UNCHANGED <<ack, settled, timer, result, posted, wallet>>

\* The wallet's info event cannot be read, or the request not encrypted.
InfoFails(r) ==
  /\ phase[r] = "info" /\ result[r] = None
  /\ result' = [result EXCEPT ![r] = Thrown(r, "other")]
  /\ UNCHANGED <<phase, ack, settled, timer, posted, wallet>>

\* Subscribe, then publish to every relay.
Publish(r) ==
  /\ phase[r] = "info" /\ result[r] = None
  /\ phase' = [phase EXCEPT ![r] = "publishing"]
  /\ UNCHANGED <<ack, settled, timer, result, posted, wallet>>

RelayAccepts(r, y) ==
  /\ phase[r] = "publishing"
  /\ ack[r][y] = "waiting" /\ y \in posted[r]
  /\ ack' = [ack EXCEPT ![r][y] = "ok"]
  /\ UNCHANGED <<phase, settled, timer, result, posted, wallet>>

\* A relay refuses, is out of reach, or does not answer within 10 s.
RelayFails(r, y) ==
  /\ phase[r] = "publishing"
  /\ ack[r][y] = "waiting"
  /\ y \in posted[r] => "late" \in Features
  /\ ack' = [ack EXCEPT ![r][y] = "failed"]
  /\ UNCHANGED <<phase, settled, timer, result, posted, wallet>>

AllSettled(r) ==
  /\ phase[r] = "publishing"
  /\ \A y \in Relay : ack[r][y] # "waiting"
  /\ phase' = [phase EXCEPT ![r] = "published"]

\* `finish`: the first to call it ends the request, and the timer with it.
Finish(r) ==
  /\ ~settled[r]
  /\ settled' = [settled EXCEPT ![r] = TRUE]
  /\ timer' = [timer EXCEPT ![r] = FALSE]

\* No relay accepted the request.
PublishFails(r) ==
  /\ AllSettled(r)
  /\ \A y \in Relay : ack[r][y] = "failed"
  /\ \/ Finish(r) /\ result' = [result EXCEPT ![r] = Thrown(r, "publish error")]
     \/ settled[r] /\ UNCHANGED <<settled, timer, result>>
  /\ UNCHANGED <<ack, posted, wallet>>


\* Some relay did: from now on the reply has its time limit.
ArmTimer(r) ==
  /\ AllSettled(r)
  /\ \E y \in Relay : ack[r][y] = "ok"
  /\ timer' = [timer EXCEPT ![r] = ~settled[r]]
  /\ UNCHANGED <<ack, settled, result, posted, wallet>>

\* The reply may overtake the relays' acceptance.  One that reads `null` ends the
\* request, and then throws where its error is looked for: nobody is answered.
OnReply(r) ==
  /\ phase[r] \in {"publishing", "published"}
  /\ reply[r] \notin {None, "garbled"}
  /\ Finish(r)
  /\ \/ reply[r] # "null" /\ result' = [result EXCEPT ![r] = Answered(r, reply[r])]
     \/ reply[r] = "null" /\ UNCHANGED result
  /\ UNCHANGED <<phase, ack, posted, wallet>>

ReplyTimeout(r) ==
  /\ timer[r]
  /\ Finish(r)
  /\ result' = [result EXCEPT ![r] = Thrown(r, "reply timeout")]
  /\ UNCHANGED <<phase, ack, posted, wallet>>

-----------------------------------------------------------------------------
(* Relays and the wallet. *)

RelayStores(r, y) ==
  /\ phase[r] \in {"publishing", "published"}
  /\ y \notin posted[r]
  /\ ack[r][y] = "waiting" \/ "late" \in Features
  /\ posted' = [posted EXCEPT ![r] = @ \cup {y}]
  /\ UNCHANGED <<client, wallet>>

\* A payment starts or is declined when its request comes in.
WalletReceives(r) ==
  /\ posted[r] # {} /\ r \notin got
  /\ got' = got \cup {r}
  /\ IF r = Payment THEN money' \in {"pending", "failed"} ELSE UNCHANGED money
  /\ UNCHANGED <<client, posted, reply>>

WalletDecides ==
  /\ money = "pending"
  /\ money' \in {"settled", "failed"}
  /\ UNCHANGED <<client, posted, got, reply>>

\* A wallet replies in time or late, without the right preimage, with an error
\* to any lookup, with something that does not decrypt, with `null`, or never.
\* It declares a payment failed, or proves it, only if that is so.
WalletReplies(r) ==
  /\ r \in got /\ reply[r] = None
  /\ \E body \in
       IF r = Payment
       THEN {"garbled", "null"} \cup (CASE money = "settled" -> {"proof", "no proof"}
                                        [] money = "failed"  -> {"error", "no proof"}
                                        [] OTHER             -> {"no proof"})
       ELSE {"garbled", "null", "error", "no proof",
             IF money = "none" THEN "not found" ELSE money} :
         reply' = [reply EXCEPT ![r] = body]
  /\ UNCHANGED <<client, posted, got, money>>

-----------------------------------------------------------------------------

Step(r) ==
  \/ InfoFails(r) \/ Publish(r) \/ PublishFails(r) \/ ArmTimer(r) \/ ReplyTimeout(r)
  \/ \E y \in Relay : RelayAccepts(r, y) \/ RelayFails(r, y)

Next ==
  \/ RejectInvoice \/ WalletDecides
  \/ \E r \in Request :
       \/ Call(r) \/ Step(r) \/ OnReply(r)
       \/ WalletReceives(r) \/ WalletReplies(r)
       \/ \E y \in Relay : RelayStores(r, y)

Spec == Init /\ [][Next]_vars

\* The timers of the code run out; relays and the wallet owe nothing.
FairSpec == Spec /\ \A r \in Request : WF_vars(Step(r))

-----------------------------------------------------------------------------
(* Properties. *)

\* "'failed' - the wallet never got the request, or explicitly declined it"
\* (nwc-client.ts 233-242): the money has not moved and is not moving.  The
\* payout releases its hold on this word alone.
FailedMeansUnpaid ==
  result[Payment] = "failed" => money \notin {"pending", "settled"}

\* A lookup's verdict is the truth, though the payment it asks about may still
\* be on its way to the wallet or under way in it: a payment the wallet has
\* not found is not a payment that failed (nwc-client.ts 519-522).
LookupIsTrue ==
  \A r \in Lookup :
    /\ result[r] = "settled" => money = "settled"
    /\ result[r] = "failed" => money = "failed"


\* payInvoice keeps the promise Payout builds on, whatever the lookups do.
Promise == INSTANCE PayCall WITH verdict <- result[Payment]
KeepsPromise == Promise!Spec
=============================================================================
