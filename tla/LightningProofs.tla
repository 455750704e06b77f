-------------------------- MODULE LightningProofs ---------------------------
(***************************************************************************)
(* The two clients of src/lightning.                                       *)
(*                                                                         *)
(* NwcClient, for any number of relays and of lookups: a lookup tells the  *)
(* truth, and as long as no relay stores a request after it was counted as *)
(* not accepting it, a payment reported failed has not moved money and     *)
(* never will, and payInvoice keeps the promise the payout is built on.    *)
(*                                                                         *)
(* LnurlPay, for all addresses there are, all answers of name servers and  *)
(* of servers, and all amounts and caps: the check of an address blocks    *)
(* just the ranges its comments name, no request goes to one of them       *)
(* unless a name moved, and what is kept of an answer is bounded.          *)
(***************************************************************************)
EXTENDS NwcClient, LnurlPay, SequenceTheorems, TLAPS

\* The premise of NwcPublishError, "so the wallet can't have seen it".
Timely == "late" \notin Features

\* What the wallet has seen, some relay stored; what some relay stored was
\* published; replies follow requests, and say what is so.
WalletInv ==
  /\ Payment \notin got => money = "none"
  /\ \A r \in Request :
       /\ r \in got => posted[r] # {}
       /\ posted[r] # {} => phase[r] \in {"publishing", "published"}
       /\ reply[r] # None => r \in got
  /\ reply[Payment] = "proof" => money = "settled"
  /\ reply[Payment] = "error" => money = "failed"
  /\ reply[Payment] \notin {"settled", "failed", "pending", "not found"}
  /\ \A r \in Lookup :
       /\ reply[r] = "settled" => money = "settled"
       /\ reply[r] = "failed" => money = "failed"

\* A request that has not ended has told its caller nothing, and has its reply
\* timer armed once it is published; one that ended without a word was ended by
\* a reply that reads `null`.
CallInv ==
  \A r \in Request :
    /\ settled[r] => phase[r] \in {"publishing", "published"}
    /\ ~settled[r] /\ phase[r] \in {"publishing", "published"} => result[r] = None
    /\ settled[r] /\ result[r] = None => reply[r] = "null"
    /\ timer[r] <=> phase[r] = "published" /\ ~settled[r]

\* No relay that stored a request is counted as having failed.
StoredInTime == \A r \in Request : \A y \in posted[r] : ack[r][y] # "failed"

\* The request was never sent, or was accepted by no relay.
NeverSent ==
  \/ phase[Payment] = "idle"
  \/ phase[Payment] = "published" /\ \A y \in Relay : ack[Payment][y] = "failed"

\* Verdicts against the money: a "failed" payment was declined, or its request
\* went nowhere and never will.
VerdictInv ==
  /\ result[Payment] = "failed" => money = "failed" \/ (money = "none" /\ NeverSent)
  /\ result[Payment] = "paid" => money = "settled"

\* What holds of any relays, and what holds of those that are in time.
TruthInv == TypeOK /\ WalletInv /\ CallInv /\ LookupIsTrue
SafeInv == TruthInv /\ StoredInTime /\ VerdictInv

\* Types.
LEMMA KeepType ==
  ASSUME TypeOK, [Next]_vars
  PROVE  TypeOK'
<1> USE DEF TypeOK, Request, client, wallet, Outcome, Reply
<1>1. ASSUME RejectInvoice PROVE TypeOK'
  BY <1>1 DEF RejectInvoice
<1>2. ASSUME WalletDecides PROVE TypeOK'
  BY <1>2 DEF WalletDecides
<1>3. ASSUME NEW r \in Request, Call(r) PROVE TypeOK'
  BY <1>3 DEF Call
<1>4. ASSUME NEW r \in Request, InfoFails(r) PROVE TypeOK'
  BY <1>4 DEF InfoFails, Thrown, classifyNwcError
<1>5. ASSUME NEW r \in Request, Publish(r) PROVE TypeOK'
  BY <1>5 DEF Publish
<1>6. ASSUME NEW r \in Request, PublishFails(r) PROVE TypeOK'
  BY <1>6 DEF PublishFails, Finish, AllSettled, Thrown, classifyNwcError
<1>7. ASSUME NEW r \in Request, ArmTimer(r) PROVE TypeOK'
  BY <1>7 DEF ArmTimer, AllSettled
<1>8. ASSUME NEW r \in Request, ReplyTimeout(r) PROVE TypeOK'
  BY <1>8 DEF ReplyTimeout, Finish, Thrown, classifyNwcError
<1>9. ASSUME NEW r \in Request, NEW y \in Relay, RelayAccepts(r, y)
      PROVE  TypeOK'
  BY <1>9 DEF RelayAccepts
<1>10. ASSUME NEW r \in Request, NEW y \in Relay, RelayFails(r, y)
      PROVE  TypeOK'
  BY <1>10 DEF RelayFails
<1>11. ASSUME NEW r \in Request, OnReply(r) PROVE TypeOK'
  BY <1>11 DEF OnReply, Finish, Answered, Thrown, classifyNwcError
<1>12. ASSUME NEW r \in Request, WalletReceives(r) PROVE TypeOK'
  BY <1>12 DEF WalletReceives
<1>13. ASSUME NEW r \in Request, WalletReplies(r) PROVE TypeOK'
  BY <1>13 DEF WalletReplies
<1>14. ASSUME NEW r \in Request, NEW y \in Relay, RelayStores(r, y)
      PROVE  TypeOK'
  BY <1>14 DEF RelayStores
<1>15. CASE UNCHANGED vars
  BY <1>15 DEF vars
<1> QED
  BY <1>1, <1>2, <1>3, <1>4, <1>5, <1>6, <1>7, <1>8, <1>9, <1>10, <1>11, <1>12,
     <1>13, <1>14, <1>15
  DEF Next, Step

\* Requests come before replies, and replies say what is so.
LEMMA KeepWallet ==
  ASSUME TypeOK, WalletInv, [Next]_vars
  PROVE  WalletInv'
<1> USE DEF TypeOK, WalletInv, Request, client, wallet
<1>1. ASSUME RejectInvoice PROVE WalletInv'
  BY <1>1 DEF RejectInvoice
<1>2. ASSUME WalletDecides PROVE WalletInv'
  BY <1>2 DEF WalletDecides
<1>3. ASSUME NEW r \in Request, Call(r) PROVE WalletInv'
  BY <1>3 DEF Call
<1>4. ASSUME NEW r \in Request, InfoFails(r) PROVE WalletInv'
  BY <1>4 DEF InfoFails
<1>5. ASSUME NEW r \in Request, Publish(r) PROVE WalletInv'
  BY <1>5 DEF Publish
<1>6. ASSUME NEW r \in Request, PublishFails(r) PROVE WalletInv'
  BY <1>6 DEF PublishFails, Finish, AllSettled
<1>7. ASSUME NEW r \in Request, ArmTimer(r) PROVE WalletInv'
  BY <1>7 DEF ArmTimer, AllSettled
<1>8. ASSUME NEW r \in Request, ReplyTimeout(r) PROVE WalletInv'
  BY <1>8 DEF ReplyTimeout, Finish
<1>9. ASSUME NEW r \in Request, NEW y \in Relay, RelayAccepts(r, y)
      PROVE  WalletInv'
  BY <1>9 DEF RelayAccepts
<1>10. ASSUME NEW r \in Request, NEW y \in Relay, RelayFails(r, y)
      PROVE  WalletInv'
  BY <1>10 DEF RelayFails
<1>11. ASSUME NEW r \in Request, OnReply(r) PROVE WalletInv'
  BY <1>11 DEF OnReply, Finish
<1>12. ASSUME NEW r \in Request, WalletReceives(r) PROVE WalletInv'
  BY <1>12 DEF WalletReceives
<1>13. ASSUME NEW r \in Request, WalletReplies(r) PROVE WalletInv'
  BY <1>13 DEF WalletReplies
<1>14. ASSUME NEW r \in Request, NEW y \in Relay, RelayStores(r, y)
      PROVE  WalletInv'
  BY <1>14 DEF RelayStores
<1>15. CASE UNCHANGED vars
  BY <1>15 DEF vars
<1> QED
  BY <1>1, <1>2, <1>3, <1>4, <1>5, <1>6, <1>7, <1>8, <1>9, <1>10, <1>11, <1>12,
     <1>13, <1>14, <1>15
  DEF Next, Step

\* A reply is always some answer.
LEMMA AnswerIsOutcome ==
  ASSUME NEW r \in Request, NEW body
  PROVE  Answered(r, body) \in Outcome
  BY DEF Answered, Thrown, classifyNwcError, Outcome

\* The timer is armed as the last relay answers, and only the end disarms it.
LEMMA KeepCalls ==
  ASSUME TypeOK, CallInv, [Next]_vars
  PROVE  CallInv'
<1> USE NoneAssumption DEF TypeOK, CallInv, Request, client, wallet, Outcome
<1>1. ASSUME RejectInvoice PROVE CallInv'
  BY <1>1 DEF RejectInvoice
<1>2. ASSUME WalletDecides PROVE CallInv'
  BY <1>2 DEF WalletDecides
<1>3. ASSUME NEW r \in Request, Call(r) PROVE CallInv'
  BY <1>3 DEF Call
<1>4. ASSUME NEW r \in Request, InfoFails(r) PROVE CallInv'
  BY <1>4 DEF InfoFails, Thrown, classifyNwcError
<1>5. ASSUME NEW r \in Request, Publish(r) PROVE CallInv'
  BY <1>5 DEF Publish
<1>6. ASSUME NEW r \in Request, PublishFails(r) PROVE CallInv'
  BY <1>6 DEF PublishFails, Finish, AllSettled, Thrown, classifyNwcError
<1>7. ASSUME NEW r \in Request, ArmTimer(r) PROVE CallInv'
  BY <1>7 DEF ArmTimer, AllSettled
<1>8. ASSUME NEW r \in Request, ReplyTimeout(r) PROVE CallInv'
  BY <1>8 DEF ReplyTimeout, Finish, Thrown, classifyNwcError
<1>9. ASSUME NEW r \in Request, NEW y \in Relay, RelayAccepts(r, y) PROVE CallInv'
  BY <1>9 DEF RelayAccepts
<1>10. ASSUME NEW r \in Request, NEW y \in Relay, RelayFails(r, y) PROVE CallInv'
  BY <1>10 DEF RelayFails
<1>11. ASSUME NEW r \in Request, OnReply(r) PROVE CallInv'
  <2>1. Answered(r, reply[r]) # None
    BY AnswerIsOutcome
  <2> HIDE DEF Outcome
  <2>2. CASE reply[r] # "null"
    BY <1>11, <2>1, <2>2 DEF OnReply, Finish
  <2>3. CASE reply[r] = "null"
    BY <1>11, <2>3 DEF OnReply, Finish
  <2> QED BY <2>2, <2>3
<1>12. ASSUME NEW r \in Request, WalletReceives(r) PROVE CallInv'
  BY <1>12 DEF WalletReceives
<1>13. ASSUME NEW r \in Request, WalletReplies(r) PROVE CallInv'
  <2>1. None # "null"
    BY DEF Reply
  <2>2. PICK body \in Reply : reply' = [reply EXCEPT ![r] = body]
    BY <1>13 DEF WalletReplies, Reply
  <2>3. reply[r] = None /\ UNCHANGED <<phase, settled, timer, result>>
    BY <1>13 DEF WalletReplies
  <2>4. ~(settled[r] /\ result[r] = None)
    BY <2>1, <2>3
  <2>5. \A q \in Request : q # r => reply'[q] = reply[q]
    BY <2>2
  <2> QED BY <2>3, <2>4, <2>5
<1>14. ASSUME NEW r \in Request, NEW y \in Relay, RelayStores(r, y) PROVE CallInv'
  BY <1>14 DEF RelayStores
<1>15. CASE UNCHANGED vars
  BY <1>15 DEF vars
<1> QED
  BY <1>1, <1>2, <1>3, <1>4, <1>5, <1>6, <1>7, <1>8, <1>9, <1>10, <1>11, <1>12,
     <1>13, <1>14, <1>15
  DEF Next, Step

\* A relay stores a request only while it may still accept it.
LEMMA KeepStored ==
  ASSUME TypeOK, Timely, StoredInTime, [Next]_vars
  PROVE  StoredInTime'
<1> USE DEF TypeOK, Timely, StoredInTime, Request, client, wallet
<1>1. ASSUME RejectInvoice PROVE StoredInTime'
  BY <1>1 DEF RejectInvoice
<1>2. ASSUME WalletDecides PROVE StoredInTime'
  BY <1>2 DEF WalletDecides
<1>3. ASSUME NEW r \in Request, Call(r) PROVE StoredInTime'
  BY <1>3 DEF Call
<1>4. ASSUME NEW r \in Request, InfoFails(r) PROVE StoredInTime'
  BY <1>4 DEF InfoFails
<1>5. ASSUME NEW r \in Request, Publish(r) PROVE StoredInTime'
  BY <1>5 DEF Publish
<1>6. ASSUME NEW r \in Request, PublishFails(r) PROVE StoredInTime'
  BY <1>6 DEF PublishFails, Finish, AllSettled
<1>7. ASSUME NEW r \in Request, ArmTimer(r) PROVE StoredInTime'
  BY <1>7 DEF ArmTimer, AllSettled
<1>8. ASSUME NEW r \in Request, ReplyTimeout(r) PROVE StoredInTime'
  BY <1>8 DEF ReplyTimeout, Finish
<1>9. ASSUME NEW r \in Request, NEW y \in Relay, RelayAccepts(r, y)
      PROVE  StoredInTime'
  BY <1>9 DEF RelayAccepts
<1>10. ASSUME NEW r \in Request, NEW y \in Relay, RelayFails(r, y)
      PROVE  StoredInTime'
  BY <1>10 DEF RelayFails
<1>11. ASSUME NEW r \in Request, OnReply(r) PROVE StoredInTime'
  BY <1>11 DEF OnReply, Finish
<1>12. ASSUME NEW r \in Request, WalletReceives(r) PROVE StoredInTime'
  BY <1>12 DEF WalletReceives
<1>13. ASSUME NEW r \in Request, WalletReplies(r) PROVE StoredInTime'
  BY <1>13 DEF WalletReplies
<1>14. ASSUME NEW r \in Request, NEW y \in Relay, RelayStores(r, y)
      PROVE  StoredInTime'
  BY <1>14 DEF RelayStores
<1>15. CASE UNCHANGED vars
  BY <1>15 DEF vars
<1> QED
  BY <1>1, <1>2, <1>3, <1>4, <1>5, <1>6, <1>7, <1>8, <1>9, <1>10, <1>11, <1>12,
     <1>13, <1>14, <1>15
  DEF Next, Step

\* A lookup's verdict is a reply of the wallet, or "unknown".
LEMMA KeepLookup ==
  ASSUME TypeOK, WalletInv, LookupIsTrue, [Next]_vars
  PROVE  LookupIsTrue'
<1> USE DEF TypeOK, WalletInv, LookupIsTrue, Request, client, wallet
<1>1. ASSUME RejectInvoice PROVE LookupIsTrue'
  BY <1>1, RequestAssumption DEF RejectInvoice
<1>2. ASSUME WalletDecides PROVE LookupIsTrue'
  BY <1>2 DEF WalletDecides
<1>3. ASSUME NEW r \in Request, Call(r) PROVE LookupIsTrue'
  BY <1>3 DEF Call
<1>4. ASSUME NEW r \in Request, InfoFails(r) PROVE LookupIsTrue'
  BY <1>4 DEF InfoFails, Thrown, classifyNwcError
<1>5. ASSUME NEW r \in Request, Publish(r) PROVE LookupIsTrue'
  BY <1>5 DEF Publish
<1>6. ASSUME NEW r \in Request, PublishFails(r) PROVE LookupIsTrue'
  <2>1. CASE UNCHANGED result
    BY <1>6, <2>1 DEF PublishFails, AllSettled
  <2>2. CASE r = Payment /\ result' = [result EXCEPT ![r] = "failed"]
    BY <1>6, <2>2, RequestAssumption DEF PublishFails, AllSettled
  <2>3. CASE r \in Lookup /\ result' = [result EXCEPT ![r] = "unknown"]
    BY <1>6, <2>3, RequestAssumption DEF PublishFails, AllSettled
  <2> QED
    BY <1>6, <2>1, <2>2, <2>3, RequestAssumption
    DEF PublishFails, Thrown, classifyNwcError
<1>7. ASSUME NEW r \in Request, ArmTimer(r) PROVE LookupIsTrue'
  BY <1>7 DEF ArmTimer, AllSettled
<1>8. ASSUME NEW r \in Request, ReplyTimeout(r) PROVE LookupIsTrue'
  BY <1>8 DEF ReplyTimeout, Finish, Thrown, classifyNwcError
<1>9. ASSUME NEW r \in Request, NEW y \in Relay, RelayAccepts(r, y)
      PROVE  LookupIsTrue'
  BY <1>9 DEF RelayAccepts
<1>10. ASSUME NEW r \in Request, NEW y \in Relay, RelayFails(r, y)
      PROVE  LookupIsTrue'
  BY <1>10 DEF RelayFails
<1>11. ASSUME NEW r \in Request, OnReply(r) PROVE LookupIsTrue'
  <2>1. CASE r = Payment
    <3>1. CASE reply[r] = "proof"
      <4>1. Answered(r, reply[r]) = "paid"
        BY <2>1, <3>1, RequestAssumption DEF Answered
      <4> QED BY <1>11, <2>1, <3>1, <4>1, RequestAssumption DEF OnReply, Finish
    <3>2. CASE reply[r] = "no proof"
      <4>1. Answered(r, reply[r]) = "unknown"
        BY <2>1, <3>2, RequestAssumption DEF Answered
      <4> QED BY <1>11, <2>1, <4>1, RequestAssumption DEF OnReply, Finish
    <3>3. CASE reply[r] = "error"
      <4>1. Answered(r, reply[r]) = "failed"
        BY <2>1, <3>3, RequestAssumption DEF Answered, Thrown, classifyNwcError
      <4> QED BY <1>11, <2>1, <3>3, <4>1, RequestAssumption DEF OnReply, Finish
    <3>4. CASE reply[r] = "null"
      BY <1>11, <2>1, <3>4, RequestAssumption DEF OnReply, Finish
    <3> QED BY <1>11, <2>1, <3>1, <3>2, <3>3, <3>4 DEF OnReply, Finish, Reply
  <2>2. CASE r \in Lookup
    <3>1. Answered(r, reply[r]) =
            IF reply[r] \in {"settled", "failed", "pending"} THEN reply[r] ELSE "unknown"
      BY <2>2, RequestAssumption DEF Answered, Thrown
    <3> QED BY <1>11, <2>2, <3>1, RequestAssumption DEF OnReply, Finish
  <2> QED BY <2>1, <2>2
<1>12. ASSUME NEW r \in Request, WalletReceives(r) PROVE LookupIsTrue'
  BY <1>12 DEF WalletReceives
<1>13. ASSUME NEW r \in Request, WalletReplies(r) PROVE LookupIsTrue'
  BY <1>13 DEF WalletReplies
<1>14. ASSUME NEW r \in Request, NEW y \in Relay, RelayStores(r, y)
      PROVE  LookupIsTrue'
  BY <1>14 DEF RelayStores
<1>15. CASE UNCHANGED vars
  BY <1>15 DEF vars
<1> QED
  BY <1>1, <1>2, <1>3, <1>4, <1>5, <1>6, <1>7, <1>8, <1>9, <1>10, <1>11, <1>12,
     <1>13, <1>14, <1>15
  DEF Next, Step

\* A payment that no relay accepted in time was stored by none, and not received.
LEMMA RefusedIsUnsent ==
  ASSUME TypeOK, WalletInv, StoredInTime, PublishFails(Payment)
  PROVE  /\ money = "none" /\ money' = money
         /\ phase'[Payment] = "published"
         /\ \A y \in Relay : ack'[Payment][y] = "failed"
<1> USE DEF Request
<1>1. /\ \A y \in Relay : ack[Payment][y] = "failed"
      /\ phase' = [phase EXCEPT ![Payment] = "published"]
      /\ ack' = ack /\ money' = money
  BY DEF PublishFails, AllSettled, wallet
<1>2. posted[Payment] = {}
  BY <1>1 DEF TypeOK, StoredInTime
<1>3. money = "none"
  BY <1>2 DEF WalletInv
<1> QED BY <1>1, <1>3 DEF TypeOK

\* An answer is given on what the wallet or every relay said.
LEMMA KeepVerdict ==
  ASSUME TypeOK, Timely, WalletInv, StoredInTime, VerdictInv, [Next]_vars
  PROVE  VerdictInv'
<1> USE DEF TypeOK, Timely, WalletInv, StoredInTime, VerdictInv, NeverSent, Request,
            client, wallet
<1>1. ASSUME RejectInvoice PROVE VerdictInv'
  BY <1>1, RequestAssumption DEF RejectInvoice
<1>2. ASSUME WalletDecides PROVE VerdictInv'
  BY <1>2 DEF WalletDecides
<1>3. ASSUME NEW r \in Request, Call(r) PROVE VerdictInv'
  BY <1>3 DEF Call
<1>4. ASSUME NEW r \in Request, InfoFails(r) PROVE VerdictInv'
  BY <1>4 DEF InfoFails, Thrown, classifyNwcError
<1>5. ASSUME NEW r \in Request, Publish(r) PROVE VerdictInv'
  BY <1>5 DEF Publish
<1>6. ASSUME NEW r \in Request, PublishFails(r) PROVE VerdictInv'
  <2>1. CASE UNCHANGED result
    BY <1>6, <2>1 DEF PublishFails, AllSettled
  <2>2. CASE r = Payment /\ result' = [result EXCEPT ![r] = "failed"]
    BY <1>6, <2>2, RefusedIsUnsent
  <2>3. CASE r \in Lookup /\ result' = [result EXCEPT ![r] = "unknown"]
    BY <1>6, <2>3, RequestAssumption DEF PublishFails, AllSettled
  <2> QED
    BY <1>6, <2>1, <2>2, <2>3, RequestAssumption
    DEF PublishFails, Thrown, classifyNwcError
<1>7. ASSUME NEW r \in Request, ArmTimer(r) PROVE VerdictInv'
  BY <1>7 DEF ArmTimer, AllSettled
<1>8. ASSUME NEW r \in Request, ReplyTimeout(r) PROVE VerdictInv'
  BY <1>8 DEF ReplyTimeout, Finish, Thrown, classifyNwcError
<1>9. ASSUME NEW r \in Request, NEW y \in Relay, RelayAccepts(r, y)
      PROVE  VerdictInv'
  BY <1>9 DEF RelayAccepts
<1>10. ASSUME NEW r \in Request, NEW y \in Relay, RelayFails(r, y)
      PROVE  VerdictInv'
  BY <1>10 DEF RelayFails
<1>11. ASSUME NEW r \in Request, OnReply(r) PROVE VerdictInv'
  <2>1. CASE r = Payment
    <3>1. CASE reply[r] = "proof"
      <4>1. Answered(r, reply[r]) = "paid"
        BY <2>1, <3>1, RequestAssumption DEF Answered
      <4> QED BY <1>11, <2>1, <3>1, <4>1, RequestAssumption DEF OnReply, Finish
    <3>2. CASE reply[r] = "no proof"
      <4>1. Answered(r, reply[r]) = "unknown"
        BY <2>1, <3>2, RequestAssumption DEF Answered
      <4> QED BY <1>11, <2>1, <4>1, RequestAssumption DEF OnReply, Finish
    <3>3. CASE reply[r] = "error"
      <4>1. Answered(r, reply[r]) = "failed"
        BY <2>1, <3>3, RequestAssumption DEF Answered, Thrown, classifyNwcError
      <4> QED BY <1>11, <2>1, <3>3, <4>1, RequestAssumption DEF OnReply, Finish
    <3>4. CASE reply[r] = "null"
      BY <1>11, <2>1, <3>4, RequestAssumption DEF OnReply, Finish
    <3> QED BY <1>11, <2>1, <3>1, <3>2, <3>3, <3>4 DEF OnReply, Finish, Reply
  <2>2. CASE r \in Lookup
    <3>1. Answered(r, reply[r]) =
            IF reply[r] \in {"settled", "failed", "pending"} THEN reply[r] ELSE "unknown"
      BY <2>2, RequestAssumption DEF Answered, Thrown
    <3> QED BY <1>11, <2>2, <3>1, RequestAssumption DEF OnReply, Finish
  <2> QED BY <2>1, <2>2
<1>12. ASSUME NEW r \in Request, WalletReceives(r) PROVE VerdictInv'
  <2>1. CASE r = Payment
    <3>1. PICK y \in posted[Payment] : ack[Payment][y] # "failed"
      BY <1>12, <2>1 DEF WalletReceives
    <3>2. ~NeverSent
      BY <1>12, <2>1, <3>1 DEF WalletReceives
    <3> QED BY <1>12, <2>1, <3>2 DEF WalletReceives
  <2>2. CASE r # Payment
    BY <1>12, <2>2 DEF WalletReceives
  <2> QED BY <2>1, <2>2
<1>13. ASSUME NEW r \in Request, WalletReplies(r) PROVE VerdictInv'
  BY <1>13 DEF WalletReplies
<1>14. ASSUME NEW r \in Request, NEW y \in Relay, RelayStores(r, y)
      PROVE  VerdictInv'
  BY <1>14 DEF RelayStores
<1>15. CASE UNCHANGED vars
  BY <1>15 DEF vars
<1> QED
  BY <1>1, <1>2, <1>3, <1>4, <1>5, <1>6, <1>7, <1>8, <1>9, <1>10, <1>11, <1>12,
     <1>13, <1>14, <1>15
  DEF Next, Step

-----------------------------------------------------------------------------
(* The theorems. *)

\* The inductive invariant of any client, whatever its relays do.
THEOREM TruthCorrect == Spec => []TruthInv
<1>1. Init => TruthInv
  <2> SUFFICES ASSUME Init PROVE TruthInv
    OBVIOUS
  <2> USE DEF Init, Request
  <2>1. TypeOK
    BY DEF TypeOK
  <2>2. WalletInv
    BY NoneAssumption DEF WalletInv, Reply
  <2>3. LookupIsTrue
    BY NoneAssumption DEF LookupIsTrue, Outcome
  <2>4. CallInv
    BY DEF CallInv
  <2> QED BY <2>1, <2>2, <2>3, <2>4 DEF TruthInv
<1>2. TruthInv /\ [Next]_vars => TruthInv'
  BY KeepType, KeepWallet, KeepCalls, KeepLookup DEF TruthInv
<1> QED BY <1>1, <1>2, PTL DEF Spec

\* Every variable keeps its type.
THEOREM TypesHold == Spec => []TypeOK
<1>1. TruthInv => TypeOK
  BY DEF TruthInv
<1> QED BY <1>1, TruthCorrect, PTL

\* A lookup that names an end of the payment names the true one, even while
\* the request to pay is still on its way, and whatever relays accept late.
THEOREM LookupsAreTrue == Spec => []LookupIsTrue
<1>1. TruthInv => LookupIsTrue
  BY DEF TruthInv
<1> QED BY <1>1, TruthCorrect, PTL

\* The inductive invariant of a client whose relays are in time.
THEOREM SafeCorrect == Timely => (Spec => []SafeInv)
<1> SUFFICES ASSUME Timely PROVE Spec => []SafeInv
  OBVIOUS
<1>1. Init => StoredInTime /\ VerdictInv
  BY NoneAssumption DEF Init, Request, StoredInTime, VerdictInv, Outcome
<1>2. SafeInv /\ [Next]_vars => StoredInTime' /\ VerdictInv'
  BY KeepStored, KeepVerdict DEF SafeInv, TruthInv
<1> QED BY <1>1, <1>2, TruthCorrect, PTL DEF Spec, SafeInv

\* "failed" is said only of a payment that has not moved money and never will
\* (nwc-client.ts 233-242).
THEOREM FailedIsUnpaid == Timely => (Spec => []FailedMeansUnpaid)
<1>1. SafeInv => FailedMeansUnpaid
  BY DEF SafeInv, VerdictInv, FailedMeansUnpaid
<1> QED BY <1>1, SafeCorrect, PTL

\* A step of the client, a relay or the wallet is a step of PayCall or none.
LEMMA StepPromise ==
  ASSUME SafeInv, Timely, [Next]_vars
  PROVE  [Promise!Next]_<<money, result[Payment]>>
<1> DEFINE Refines == [Promise!Next]_<<money, result[Payment]>>
<1> USE DEF Request, client, wallet, SafeInv, TruthInv, TypeOK, WalletInv, CallInv,
            StoredInTime, VerdictInv, NeverSent, Promise!Next, Promise!Move, Promise!Answer
<1>1. ASSUME RejectInvoice PROVE Refines
  BY <1>1 DEF RejectInvoice
<1>2. ASSUME WalletDecides PROVE Refines
  BY <1>2 DEF WalletDecides
<1>3. ASSUME NEW r \in Request, Call(r) PROVE Refines
  BY <1>3 DEF Call
<1>4. ASSUME NEW r \in Request, InfoFails(r) PROVE Refines
  BY <1>4 DEF InfoFails, Thrown, classifyNwcError
<1>5. ASSUME NEW r \in Request, Publish(r) PROVE Refines
  BY <1>5 DEF Publish
<1>6. ASSUME NEW r \in Request, PublishFails(r) PROVE Refines
  <2>1. CASE UNCHANGED result
    BY <1>6, <2>1 DEF PublishFails
  <2>2. CASE ~settled[r] /\ result' = [result EXCEPT ![r] = Thrown(r, "publish error")]
    <3>1. CASE r = Payment
      <4>1. money = "none" /\ money' = money
        BY <1>6, <3>1, RefusedIsUnsent
      <4>2. result[Payment] = None /\ result'[Payment] = "failed"
        BY <1>6, <2>2, <3>1 DEF PublishFails, AllSettled, Thrown, classifyNwcError
      <4> QED BY <4>1, <4>2
    <3>2. CASE r # Payment
      BY <1>6, <2>2, <3>2 DEF PublishFails
    <3> QED BY <3>1, <3>2
  <2> QED BY <1>6, <2>1, <2>2 DEF PublishFails, Finish
<1>7. ASSUME NEW r \in Request, ArmTimer(r) PROVE Refines
  BY <1>7 DEF ArmTimer, AllSettled
<1>8. ASSUME NEW r \in Request, ReplyTimeout(r) PROVE Refines
  BY <1>8 DEF ReplyTimeout, Finish, Thrown, classifyNwcError
<1>9. ASSUME NEW r \in Request, NEW y \in Relay, RelayAccepts(r, y) PROVE Refines
  BY <1>9 DEF RelayAccepts
<1>10. ASSUME NEW r \in Request, NEW y \in Relay, RelayFails(r, y) PROVE Refines
  BY <1>10 DEF RelayFails
<1>11. ASSUME NEW r \in Request, OnReply(r) PROVE Refines
  <2>1. CASE UNCHANGED result
    BY <1>11, <2>1 DEF OnReply
  <2>2. CASE r # Payment
    BY <1>11, <2>2 DEF OnReply
  <2>3. CASE /\ r = Payment /\ ~settled[r] /\ reply[r] # "null"
             /\ result' = [result EXCEPT ![r] = Answered(r, reply[r])]
    BY <1>11, <2>3 DEF OnReply, Answered, Thrown, classifyNwcError, Reply
  <2> QED BY <1>11, <2>1, <2>2, <2>3 DEF OnReply, Finish
<1>12. ASSUME NEW r \in Request, WalletReceives(r) PROVE Refines
  <2>1. CASE r = Payment
    <3>1. PICK y \in posted[Payment] : ack[Payment][y] # "failed"
      BY <1>12, <2>1 DEF WalletReceives
    <3>2. ~NeverSent
      BY <1>12, <2>1, <3>1 DEF WalletReceives
    <3> QED BY <1>12, <2>1, <3>2 DEF WalletReceives
  <2>2. CASE r # Payment
    BY <1>12, <2>2 DEF WalletReceives
  <2> QED BY <2>1, <2>2
<1>13. ASSUME NEW r \in Request, WalletReplies(r) PROVE Refines
  BY <1>13 DEF WalletReplies
<1>14. ASSUME NEW r \in Request, NEW y \in Relay, RelayStores(r, y) PROVE Refines
  BY <1>14 DEF RelayStores
<1>15. CASE UNCHANGED vars
  BY <1>15 DEF vars
<1> QED
  BY <1>1, <1>2, <1>3, <1>4, <1>5, <1>6, <1>7, <1>8, <1>9, <1>10, <1>11, <1>12,
     <1>13, <1>14, <1>15
  DEF Next, Step

\* payInvoice implements PayCall: the payout may treat its answer as final.
THEOREM ImplementsPayCall == Timely => (Spec => KeepsPromise)
<1> SUFFICES ASSUME Timely PROVE Spec => KeepsPromise
  OBVIOUS
<1>1. Init => Promise!Init
  BY DEF Init, Promise!Init, Request
<1>2. SafeInv /\ [Next]_vars => [Promise!Next]_<<money, result[Payment]>>
  BY StepPromise
<1> QED BY <1>1, <1>2, SafeCorrect, PTL DEF Spec, KeepsPromise, Promise!Spec

\* A call that waits for its reply has its reply timer armed: no state is reached
\* in which nothing will ever end a call, but that after a reply of `null`.
NoCallHangs ==
  \A r \in Request :
    phase[r] = "published" /\ result[r] = None
      => timer[r] \/ (settled[r] /\ reply[r] = "null")

\* No step answers a call a second time.
LEMMA KeepAnswer ==
  ASSUME TypeOK, CallInv, [Next]_vars, NEW c \in Request, result[c] # None
  PROVE  result'[c] = result[c]
<1> USE DEF TypeOK, CallInv, Request, client, wallet
<1>1. ASSUME RejectInvoice PROVE result'[c] = result[c]
  BY <1>1, NoneAssumption DEF RejectInvoice
<1>2. ASSUME WalletDecides PROVE result'[c] = result[c]
  BY <1>2, NoneAssumption DEF WalletDecides
<1>3. ASSUME NEW r \in Request, Call(r) PROVE result'[c] = result[c]
  BY <1>3, NoneAssumption DEF Call
<1>4. ASSUME NEW r \in Request, InfoFails(r) PROVE result'[c] = result[c]
  BY <1>4, NoneAssumption DEF InfoFails, Thrown, classifyNwcError
<1>5. ASSUME NEW r \in Request, Publish(r) PROVE result'[c] = result[c]
  BY <1>5, NoneAssumption DEF Publish
<1>6. ASSUME NEW r \in Request, PublishFails(r) PROVE result'[c] = result[c]
  BY <1>6, NoneAssumption DEF PublishFails, Finish, AllSettled, Thrown, classifyNwcError
<1>7. ASSUME NEW r \in Request, ArmTimer(r) PROVE result'[c] = result[c]
  BY <1>7, NoneAssumption DEF ArmTimer, AllSettled
<1>8. ASSUME NEW r \in Request, ReplyTimeout(r) PROVE result'[c] = result[c]
  BY <1>8, NoneAssumption DEF ReplyTimeout, Finish, Thrown, classifyNwcError
<1>9. ASSUME NEW r \in Request, NEW y \in Relay, RelayAccepts(r, y) PROVE result'[c] = result[c]
  BY <1>9, NoneAssumption DEF RelayAccepts
<1>10. ASSUME NEW r \in Request, NEW y \in Relay, RelayFails(r, y) PROVE result'[c] = result[c]
  BY <1>10, NoneAssumption DEF RelayFails
<1>11. ASSUME NEW r \in Request, OnReply(r) PROVE result'[c] = result[c]
  BY <1>11, AnswerIsOutcome, NoneAssumption DEF OnReply, Finish
<1>12. ASSUME NEW r \in Request, WalletReceives(r) PROVE result'[c] = result[c]
  BY <1>12, NoneAssumption DEF WalletReceives
<1>13. ASSUME NEW r \in Request, WalletReplies(r) PROVE result'[c] = result[c]
  BY <1>13, NoneAssumption DEF WalletReplies
<1>14. ASSUME NEW r \in Request, NEW y \in Relay, RelayStores(r, y) PROVE result'[c] = result[c]
  BY <1>14, NoneAssumption DEF RelayStores
<1>15. CASE UNCHANGED vars
  BY <1>15 DEF vars
<1> QED
  BY <1>1, <1>2, <1>3, <1>4, <1>5, <1>6, <1>7, <1>8, <1>9, <1>10, <1>11, <1>12,
     <1>13, <1>14, <1>15
  DEF Next, Step

\* Whether the reply comes before the relays' acceptance, after it, never, or
\* when no relay accepted, no call is left waiting without a timer, unless the
\* reply read `null` (nwc-client.ts 365-434).
THEOREM NoCallIsLeft == Spec => []NoCallHangs
<1>1. TruthInv => NoCallHangs
  BY DEF TruthInv, CallInv, NoCallHangs
<1> QED BY <1>1, TruthCorrect, PTL

\* What a caller was told stays what it was told: a reply, a timer and a failed
\* publication that race settle a call once.
AnswersAreFinal ==
  [][\A r \in Request : result[r] # None => result'[r] = result[r]]_vars

\* Once settled, a call is not settled again (nwc-client.ts 365-434).
THEOREM AnswersStay == Spec => AnswersAreFinal
<1>1. TruthInv /\ [Next]_vars
        => [\A r \in Request : result[r] # None => result'[r] = result[r]]_vars
  BY KeepAnswer DEF TruthInv
<1> QED BY <1>1, TruthCorrect, PTL DEF Spec, AnswersAreFinal

-----------------------------------------------------------------------------
(* LnurlPay: prefixes of addresses. *)

\* The divisors of the ranges there are.
LEMMA Shifts ==
  /\ \A bits \in Int : bits >= 8 => Shift(bits, 8) = 1
  /\ \A bits \in Int : bits <= 0 => Shift(bits, 8) = 256
  /\ Shift(4, 8) = 16 /\ Shift(2, 8) = 64
  /\ \A bits \in Int : bits >= 16 => Shift(bits, 16) = 1
  /\ \A bits \in Int : bits <= 0 => Shift(bits, 16) = 65536
  /\ Shift(7, 16) = 512 /\ Shift(10, 16) = 64 /\ Shift(8, 16) = 256
<1>1. 2 ^ (8 - 4) = 16 /\ 2 ^ (8 - 2) = 64 /\ 2 ^ 8 = 256 /\ 2 ^ 16 = 65536
      /\ 2 ^ (16 - 7) = 512 /\ 2 ^ (16 - 10) = 64 /\ 2 ^ (16 - 8) = 256
  OBVIOUS
<1> QED BY <1>1 DEF Shift

\* A prefix of an IPv4 address.
Within4(a, x, y, bits) == InPrefix(a, <<<<x, y>>, bits>>, 8)

\* Its two octets are compared one by one.
LEMMA Prefix4 ==
  ASSUME NEW a, Len(a) = 2, NEW x \in Nat, NEW y \in Nat, NEW bits \in Int
  PROVE  Within4(a, x, y, bits) <=>
           /\ a[1] \div Shift(bits, 8) = x \div Shift(bits, 8)
           /\ a[2] \div Shift(bits - 8, 8) = y \div Shift(bits - 8, 8)
<1>1. DEFINE at(i) == a[i] \div Shift(bits - 8 * (i - 1), 8)
                    = <<x, y>>[i] \div Shift(bits - 8 * (i - 1), 8)
<1>2. Within4(a, x, y, bits) <=> \A i \in 1 .. 2 : at(i)
  BY DEF Within4, InPrefix
<1>3. bits - 8 * (1 - 1) = bits /\ bits - 8 * (2 - 1) = bits - 8
  OBVIOUS
<1>4. at(1) <=> a[1] \div Shift(bits, 8) = x \div Shift(bits, 8)
  BY <1>3
<1>5. at(2) <=> a[2] \div Shift(bits - 8, 8) = y \div Shift(bits - 8, 8)
  BY <1>3
<1> HIDE DEF at
<1>6. (\A i \in 1 .. 2 : at(i)) <=> at(1) /\ at(2)
  OBVIOUS
<1> QED BY <1>2, <1>4, <1>5, <1>6

\* The IPv4 ranges, each as what its two quotients are.
LEMMA Ranges4Are ==
  ASSUME NEW a, Len(a) = 2, a[1] \in Nat, a[2] \in Nat
  PROVE  NonPublic4(a) <=>
           \/ /\ a[1] \in {0, 10, 127}
              /\ a[2] \div 256 = 0
           \/ <<a[1], a[2]>> \in {<<169, 254>>, <<192, 168>>}
           \/ a[1] = 172 /\ a[2] \div 16 = 1
           \/ a[1] = 100 /\ a[2] \div 64 = 1
           \/ a[1] \div 16 \in {14, 15} /\ a[2] \div 256 = 0
<1>1. \A x, y \in Nat : Within4(a, x, y, 8) <=> a[1] = x /\ a[2] \div 256 = y \div 256
  BY Prefix4, Shifts
<1>2. \A x, y \in Nat : Within4(a, x, y, 16) <=> a[1] = x /\ a[2] = y
  BY Prefix4, Shifts
<1>3. \A x, y \in Nat : Within4(a, x, y, 12) <=> a[1] = x /\ a[2] \div 16 = y \div 16
  BY Prefix4, Shifts
<1>4. \A x, y \in Nat : Within4(a, x, y, 10) <=> a[1] = x /\ a[2] \div 64 = y \div 64
  BY Prefix4, Shifts
<1>5. \A x, y \in Nat : Within4(a, x, y, 4) <=> a[1] \div 16 = x \div 16 /\ a[2] \div 256 = y \div 256
  BY Prefix4, Shifts
<1>6. NonPublic4(a) <=>
         \/ Within4(a, 0, 0, 8) \/ Within4(a, 10, 0, 8)
         \/ Within4(a, 127, 0, 8) \/ Within4(a, 169, 254, 16)
         \/ Within4(a, 172, 16, 12) \/ Within4(a, 192, 168, 16)
         \/ Within4(a, 100, 64, 10) \/ Within4(a, 224, 0, 4)
         \/ Within4(a, 240, 0, 4)
  BY DEF Within4, NonPublic4, Ranges4
<1> QED BY <1>1, <1>2, <1>3, <1>4, <1>5, <1>6

\* isBlockedIPv4 blocks those ranges and, of octets, nothing else.
LEMMA Blocks4 ==
  ASSUME NEW a, Len(a) = 2, a[1] \in Nat, a[2] \in Nat
  PROVE  /\ NonPublic4(a) => IsBlockedIPv4(a[1], a[2])
         /\ a[1] <= 255 /\ a[2] <= 255 /\ IsBlockedIPv4(a[1], a[2]) => NonPublic4(a)
  BY Ranges4Are DEF IsBlockedIPv4

-----------------------------------------------------------------------------
\* The eight numbers of an IPv6 address, those of 16 bits, and its prefixes.
Groups(h) == Len(h) = 8 /\ \A i \in 1 .. 8 : h[i] \in Nat
Small(h) == \A i \in 1 .. 8 : h[i] <= 65535
Within(h, x, bits) == InPrefix(h, <<x, bits>>, 16)

\* A prefix of whole groups is their value, and one that ends within the first
\* group is that of a quotient.
LEMMA WholeGroups ==
  ASSUME NEW h, Groups(h), NEW x, Groups(x), Small(x), NEW bits \in {16, 48, 96, 128}
  PROVE  /\ Within(h, x, bits) => \A i \in 1 .. bits \div 16 : h[i] = x[i]
         /\ Small(h) /\ (\A i \in 1 .. bits \div 16 : h[i] = x[i])
              => Within(h, x, bits)
<1> DEFINE shift(i) == Shift(bits - 16 * (i - 1), 16)
<1>1. \A i \in 1 .. bits \div 16 : shift(i) = 1
  <2> TAKE i \in 1 .. bits \div 16
  <2>1. bits - 16 * (i - 1) >= 16
    OBVIOUS
  <2> QED BY <2>1, Shifts
<1>2. \A i \in bits \div 16 + 1 .. 8 : shift(i) = 65536
  <2> TAKE i \in bits \div 16 + 1 .. 8
  <2>1. bits - 16 * (i - 1) <= 0
    OBVIOUS
  <2> QED BY <2>1, Shifts
<1>3. Within(h, x, bits) <=>
        \A i \in 1 .. 8 : h[i] \div shift(i) = x[i] \div shift(i)
  BY DEF Within, InPrefix, Groups
<1> HIDE DEF shift
<1> QED BY <1>1, <1>2, <1>3 DEF Groups, Small

LEMMA PartOfGroup ==
  ASSUME NEW h, Groups(h), NEW x, Groups(x), Small(x), NEW bits \in {7, 8, 10}
  PROVE  /\ Within(h, x, bits)
              => h[1] \div Shift(bits, 16) = x[1] \div Shift(bits, 16)
         /\ Small(h)
            /\ h[1] \div Shift(bits, 16) = x[1] \div Shift(bits, 16)
              => Within(h, x, bits)
<1> DEFINE part(i) == Shift(bits - 16 * (i - 1), 16)
<1>1. part(1) = Shift(bits, 16) /\ Shift(bits, 16) \in {512, 64, 256}
  BY Shifts
<1>2. \A i \in 2 .. 8 : part(i) = 65536
  <2> TAKE i \in 2 .. 8
  <2>1. bits - 16 * (i - 1) <= 0
    OBVIOUS
  <2> QED BY <2>1, Shifts
<1>3. Within(h, x, bits) <=>
        \A i \in 1 .. 8 : h[i] \div part(i) = x[i] \div part(i)
  BY DEF Within, InPrefix, Groups
<1> HIDE DEF part
<1> QED BY <1>1, <1>2, <1>3 DEF Groups, Small

\* The IPv6 ranges, each as what its groups or its first quotient are.
LEMMA Ranges6Are ==
  ASSUME NEW h, Groups(h)
  PROVE  LET outside ==
               \/ Zero(h, 1, 7) /\ h[8] \in {0, 1}
               \/ h[1] = 100 /\ h[2] = 65435 /\ h[3] = 1
               \/ h[1] \div 512 = 126 \/ h[1] \div 64 \in {1018, 1019} \/ h[1] \div 256 = 255
             inside == \E r \in Ranges6 : InPrefix(h, r, 16)
         IN  (inside => outside) /\ (outside /\ Small(h) => inside)
<1> DEFINE zero == <<0, 0, 0, 0, 0, 0, 0, 0>>
           one == <<0, 0, 0, 0, 0, 0, 0, 1>>
           local == <<100, 65435, 1, 0, 0, 0, 0, 0>>
           fc == <<64512, 0, 0, 0, 0, 0, 0, 0>>
           fe8 == <<65152, 0, 0, 0, 0, 0, 0, 0>>
           fec == <<65216, 0, 0, 0, 0, 0, 0, 0>>
           ff == <<65280, 0, 0, 0, 0, 0, 0, 0>>
<1>0. /\ Groups(zero) /\ Small(zero) /\ Groups(one) /\ Small(one)
      /\ Groups(local) /\ Small(local) /\ Groups(fc) /\ Small(fc)
      /\ Groups(fe8) /\ Small(fe8) /\ Groups(fec) /\ Small(fec)
      /\ Groups(ff) /\ Small(ff)
  BY DEF Groups, Small
<1>1. (\E r \in Ranges6 : InPrefix(h, r, 16)) <=>
        \/ Within(h, zero, 128) \/ Within(h, one, 128) \/ Within(h, local, 48) \/ Within(h, fc, 7)
        \/ Within(h, fe8, 10) \/ Within(h, fec, 10) \/ Within(h, ff, 8)
  <2>1. Ranges6 = {<<zero, 128>>, <<one, 128>>, <<local, 48>>, <<fc, 7>>,
                         <<fe8, 10>>, <<fec, 10>>, <<ff, 8>>}
    BY DEF Ranges6
  <2> HIDE DEF zero, one, local, fc, fe8, fec, ff
  <2> QED BY <2>1 DEF Within
<1>2. /\ \A i \in 1 .. 8 : zero[i] = 0
      /\ one[8] = 1 /\ \A i \in 1 .. 7 : one[i] = 0
      /\ local[1] = 100 /\ local[2] = 65435 /\ local[3] = 1
      /\ fc[1] \div 512 = 126 /\ fe8[1] \div 64 = 1018
      /\ fec[1] \div 64 = 1019 /\ ff[1] \div 256 = 255
  OBVIOUS
<1> HIDE DEF zero, one, local, fc, fe8, fec, ff
<1>3. /\ Within(h, zero, 128) => Zero(h, 1, 7) /\ h[8] = 0
      /\ Small(h) /\ Zero(h, 1, 7) /\ h[8] = 0 => Within(h, zero, 128)
  <2>1. /\ Within(h, zero, 128) => \A i \in 1 .. 8 : h[i] = zero[i]
        /\ Small(h) /\ (\A i \in 1 .. 8 : h[i] = zero[i]) => Within(h, zero, 128)
    BY <1>0, WholeGroups
  <2> QED BY <1>2, <2>1 DEF Zero
<1>4. /\ Within(h, one, 128) => Zero(h, 1, 7) /\ h[8] = 1
      /\ Small(h) /\ Zero(h, 1, 7) /\ h[8] = 1 => Within(h, one, 128)
  <2>1. /\ Within(h, one, 128) => \A i \in 1 .. 8 : h[i] = one[i]
        /\ Small(h) /\ (\A i \in 1 .. 8 : h[i] = one[i]) => Within(h, one, 128)
    BY <1>0, WholeGroups
  <2> QED BY <1>2, <2>1 DEF Zero
<1>5. /\ Within(h, local, 48) => h[1] = 100 /\ h[2] = 65435 /\ h[3] = 1
      /\ Small(h) /\ h[1] = 100 /\ h[2] = 65435 /\ h[3] = 1 => Within(h, local, 48)
  <2>1. /\ Within(h, local, 48) => \A i \in 1 .. 3 : h[i] = local[i]
        /\ Small(h) /\ (\A i \in 1 .. 3 : h[i] = local[i]) => Within(h, local, 48)
    BY <1>0, WholeGroups
  <2> QED BY <1>2, <2>1
<1>6. /\ Within(h, fc, 7) => h[1] \div 512 = 126
      /\ Small(h) /\ h[1] \div 512 = 126 => Within(h, fc, 7)
  BY <1>0, <1>2, PartOfGroup, Shifts
<1>7. /\ Within(h, fe8, 10) => h[1] \div 64 = 1018
      /\ Small(h) /\ h[1] \div 64 = 1018 => Within(h, fe8, 10)
  BY <1>0, <1>2, PartOfGroup, Shifts
<1>8. /\ Within(h, fec, 10) => h[1] \div 64 = 1019
      /\ Small(h) /\ h[1] \div 64 = 1019 => Within(h, fec, 10)
  BY <1>0, <1>2, PartOfGroup, Shifts
<1>9. /\ Within(h, ff, 8) => h[1] \div 256 = 255
      /\ Small(h) /\ h[1] \div 256 = 255 => Within(h, ff, 8)
  BY <1>0, <1>2, PartOfGroup, Shifts
<1> QED BY <1>1, <1>3, <1>4, <1>5, <1>6, <1>7, <1>8, <1>9

\* Embedded finds the IPv4 address where the carrying prefixes end.
LEMMA CarriersAre ==
  ASSUME NEW h, Groups(h)
  PROVE  LET carried(i) == NonPublic4(<<h[i] \div 256, h[i] % 256>>)
             inside == \E r \in Carriers :
                         /\ InPrefix(h, r, 16)
                         /\ LET at == r[2] \div 16 + 1
                            IN  NonPublic4(<<h[at] \div 256, h[at] % 256>>)
             outside == Embedded(h) # 0 /\ carried(Embedded(h))
         IN  (inside => outside) /\ (outside /\ Small(h) => inside)
<1> DEFINE carried(i) == NonPublic4(<<h[i] \div 256, h[i] % 256>>)
           mapped == <<0, 0, 0, 0, 0, 65535, 0, 0>>
           translated == <<0, 0, 0, 0, 65535, 0, 0, 0>>
           compatible == <<0, 0, 0, 0, 0, 0, 0, 0>>
           nat64 == <<100, 65435, 0, 0, 0, 0, 0, 0>>
           sixTo4 == <<8194, 0, 0, 0, 0, 0, 0, 0>>
<1>0. /\ Groups(mapped) /\ Small(mapped) /\ Groups(translated) /\ Small(translated)
      /\ Groups(compatible) /\ Small(compatible) /\ Groups(nat64) /\ Small(nat64)
      /\ Groups(sixTo4) /\ Small(sixTo4)
  BY DEF Groups, Small
<1>1. (\E r \in Carriers :
         /\ InPrefix(h, r, 16)
         /\ LET at == r[2] \div 16 + 1
            IN  NonPublic4(<<h[at] \div 256, h[at] % 256>>)) <=>
        \/ carried(7) /\ \/ Within(h, mapped, 96) \/ Within(h, translated, 96)
                         \/ Within(h, compatible, 96) \/ Within(h, nat64, 96)
        \/ carried(2) /\ Within(h, sixTo4, 16)
  <2>1. Carriers = {<<mapped, 96>>, <<translated, 96>>, <<compatible, 96>>,
                          <<nat64, 96>>, <<sixTo4, 16>>}
    BY DEF Carriers
  <2>2. 96 \div 16 + 1 = 7 /\ 16 \div 16 + 1 = 2
    OBVIOUS
  <2> HIDE DEF mapped, translated, compatible, nat64, sixTo4
  <2> QED BY <2>1, <2>2 DEF Within
<1>2. /\ mapped[6] = 65535 /\ \A i \in 1 .. 5 : mapped[i] = 0
      /\ translated[5] = 65535 /\ \A i \in {1, 2, 3, 4, 6} : translated[i] = 0
      /\ \A i \in 1 .. 6 : compatible[i] = 0
      /\ nat64[1] = 100 /\ nat64[2] = 65435 /\ \A i \in 3 .. 6 : nat64[i] = 0
      /\ sixTo4[1] = 8194
  OBVIOUS
<1> HIDE DEF mapped, translated, compatible, nat64, sixTo4, carried
<1>3. \A x \in {mapped, translated, compatible, nat64} :
        /\ Within(h, x, 96) => \A i \in 1 .. 6 : h[i] = x[i]
        /\ Small(h) /\ (\A i \in 1 .. 6 : h[i] = x[i]) => Within(h, x, 96)
  BY <1>0, WholeGroups
<1>4. /\ Within(h, sixTo4, 16) => h[1] = 8194
      /\ Small(h) /\ h[1] = 8194 => Within(h, sixTo4, 16)
  <2>1. /\ Within(h, sixTo4, 16) => \A i \in 1 .. 1 : h[i] = sixTo4[i]
        /\ Small(h) /\ (\A i \in 1 .. 1 : h[i] = sixTo4[i]) => Within(h, sixTo4, 16)
    BY <1>0, WholeGroups
  <2> QED BY <1>2, <2>1
<1>5. /\ Embedded(h) = 7 <=>
           \/ \A i \in 1 .. 6 : h[i] = mapped[i]
           \/ \A i \in 1 .. 6 : h[i] = translated[i]
           \/ \A i \in 1 .. 6 : h[i] = compatible[i]
           \/ \A i \in 1 .. 6 : h[i] = nat64[i]
      /\ Embedded(h) = 2 <=> h[1] = 8194
      /\ Embedded(h) \in {0, 2, 7}
  BY <1>2 DEF Embedded, Zero
<1>6. /\ Within(h, mapped, 96) => \A i \in 1 .. 6 : h[i] = mapped[i]
      /\ Small(h) /\ (\A i \in 1 .. 6 : h[i] = mapped[i]) => Within(h, mapped, 96)
      /\ Within(h, translated, 96) => \A i \in 1 .. 6 : h[i] = translated[i]
      /\ Small(h) /\ (\A i \in 1 .. 6 : h[i] = translated[i]) => Within(h, translated, 96)
      /\ Within(h, compatible, 96) => \A i \in 1 .. 6 : h[i] = compatible[i]
      /\ Small(h) /\ (\A i \in 1 .. 6 : h[i] = compatible[i]) => Within(h, compatible, 96)
      /\ Within(h, nat64, 96) => \A i \in 1 .. 6 : h[i] = nat64[i]
      /\ Small(h) /\ (\A i \in 1 .. 6 : h[i] = nat64[i]) => Within(h, nat64, 96)
  BY <1>3
<1> DEFINE found == \/ carried(7) /\ \/ Within(h, mapped, 96) \/ Within(h, translated, 96)
                                     \/ Within(h, compatible, 96) \/ Within(h, nat64, 96)
                    \/ carried(2) /\ Within(h, sixTo4, 16)
           outside == Embedded(h) # 0 /\ carried(Embedded(h))
<1>7. (found => outside) /\ (outside /\ Small(h) => found)
  BY <1>4, <1>5, <1>6
<1> HIDE DEF found
<1> USE DEF carried
<1> QED BY <1>1, <1>7 DEF found

-----------------------------------------------------------------------------
(* The check of an address. *)
\* Two numbers of an IPv4 address or the eight of an IPv6 address, and those that
\* are octets and 16-bit groups.
IsAddress(a) == (Len(a) = 2 /\ a[1] \in Nat /\ a[2] \in Nat) \/ Groups(a)
Fits(a) == \A i \in 1 .. Len(a) : a[i] <= IF Len(a) = 2 THEN 255 ELSE 65535

\* The tests of isBlockedAddress, by shifts, masks and comparisons, come to the
\* ranges of its comments: every address of a range is blocked, and every
\* address that is blocked is in a range (ssrf.ts 40-104).
THEOREM CheckIsExact ==
  ASSUME NEW a, IsAddress(a)
  PROVE  /\ NonPublic(a) => IsBlockedAddress(a)
         /\ IsBlockedAddress(a) /\ Fits(a) => NonPublic(a)
<1>1. CASE Len(a) = 2
  <2>1. a[1] \in Nat /\ a[2] \in Nat
    BY <1>1 DEF IsAddress, Groups
  <2>2. Fits(a) => a[1] <= 255 /\ a[2] <= 255
    BY <1>1 DEF Fits
  <2> QED BY <1>1, <2>1, <2>2, Blocks4 DEF NonPublic, IsBlockedAddress
<1>2. CASE Groups(a)
  <2> DEFINE inside == \E r \in Ranges6 : InPrefix(a, r, 16)
             range == \/ Zero(a, 1, 7) /\ a[8] \in {0, 1}
                      \/ a[1] = 100 /\ a[2] = 65435 /\ a[3] = 1
                      \/ a[1] \div 512 = 126 \/ a[1] \div 64 \in {1018, 1019}
                      \/ a[1] \div 256 = 255
             carrier == \E r \in Carriers :
                          /\ InPrefix(a, r, 16)
                          /\ LET at == r[2] \div 16 + 1
                             IN  NonPublic4(<<a[at] \div 256, a[at] % 256>>)
             at == Embedded(a)
             carried == at # 0 /\ NonPublic4(<<a[at] \div 256, a[at] % 256>>)
  <2>1. (inside => range) /\ (range /\ Small(a) => inside)
    BY <1>2, Ranges6Are
  <2>2. (carrier => carried) /\ (carried /\ Small(a) => carrier)
    BY <1>2, CarriersAre
  <2>3. NonPublic(a) <=> inside \/ carrier
    BY <1>2 DEF NonPublic, Groups
  <2>4. at \in {0, 2, 7}
    BY DEF Embedded
  <2>5. at # 0 => 
          /\ NonPublic4(<<a[at] \div 256, a[at] % 256>>)
               => IsBlockedIPv4(a[at] \div 256, a[at] % 256)
          /\ Small(a) /\ IsBlockedIPv4(a[at] \div 256, a[at] % 256)
               => NonPublic4(<<a[at] \div 256, a[at] % 256>>)
    <3> SUFFICES ASSUME at # 0 PROVE <2>5!2
      OBVIOUS
    <3> DEFINE b == a[at] \div 256
               c == a[at] % 256
    <3>1. a[at] \in Nat
      BY <1>2, <2>4 DEF Groups
    <3>2. b \in Nat /\ c \in Nat /\ c <= 255 /\ (Small(a) => b <= 255)
      BY <3>1, <2>4 DEF Small
    <3> HIDE DEF b, c
    <3>3. /\ Len(<<b, c>>) = 2 /\ <<b, c>>[1] = b /\ <<b, c>>[2] = c
      OBVIOUS
    <3>4. /\ NonPublic4(<<b, c>>) => IsBlockedIPv4(b, c)
          /\ b <= 255 /\ c <= 255 /\ IsBlockedIPv4(b, c) => NonPublic4(<<b, c>>)
      BY <3>2, <3>3, Blocks4
    <3> QED BY <3>2, <3>4 DEF b, c
  <2>6. Zero(a, 1, 7) /\ a[8] \in {0, 1} <=> Zero(a, 1, 8) \/ (Zero(a, 1, 7) /\ a[8] = 1)
    BY DEF Zero
  <2>7. at # 0 => ~(a[1] = 100 /\ a[2] = 65435 /\ a[3] = 1) /\ a[1] \in {0, 100, 8194}
    BY DEF Embedded, Zero
  <2>8. IsBlockedIPv6(a) <=> 
          \/ range
          \/ at # 0 /\ IsBlockedIPv4(a[at] \div 256, a[at] % 256)
    BY <2>6, <2>7 DEF IsBlockedIPv6
  <2>9. IsBlockedAddress(a) <=> IsBlockedIPv6(a)
    BY <1>2 DEF IsBlockedAddress, Groups
  <2>10. Fits(a) => Small(a)
    BY <1>2 DEF Groups, Small, Fits
  <2> HIDE DEF inside, range, carrier, at
  <2> QED BY <1>2, <2>1, <2>2, <2>3, <2>5, <2>8, <2>9, <2>10
<1> QED BY <1>1, <1>2 DEF IsAddress

\* Those are the addresses LnurlPay is about.
LEMMA AddressesAre == \A a \in Address : IsAddress(a)
<1> TAKE a \in Address
<1>1. a \in Seq(Nat) /\ Len(a) \in {2, 8}
  BY AddressAssumption
<1>2. \A i \in 1 .. Len(a) : a[i] \in Nat
  BY <1>1, ElementOfSeq
<1> QED BY <1>1, <1>2 DEF IsAddress, Groups

-----------------------------------------------------------------------------
(* LnurlPay: its steps. *)

\* What the checks have let through is public, and a URL with an address for
\* its host leads to that address.
PeerInv ==
  /\ \A a \in checked : ~IsBlockedAddress(a)
  /\ stage \in {"start", "check"} => peer = <<>>
  /\ url.literal => peer = <<>> \/ peer \in checked

LnurlInv == LnurlTypeOK /\ AnswersAreBounded /\ PeerInv

\* The three ways a piece of an answer is taken.
LEMMA ChunkCases ==
  ASSUME LnurlTypeOK, NEW n, ReadChunk(n)
  PROVE  /\ stage = "body"
         /\ hop' = hop /\ url' = url /\ checked' = checked /\ peer' = peer
         /\ mode' = mode /\ limits' = limits /\ invoice' = invoice
         /\ \/ mode = "json" /\ Fail /\ read' = read
            \/ mode = "text" /\ Fail /\ read' = Cap.text
            \/ /\ mode = "json" /\ ~(read + n > Cap.json) /\ read' = read + n
               /\ stage' = stage /\ open' = open
            \/ /\ mode = "text" /\ ~(n >= Cap.text - read) /\ read' = read + n
               /\ stage' = stage /\ open' = open
<1>1. /\ stage = "body"
      /\ hop' = hop /\ url' = url /\ checked' = checked /\ peer' = peer
      /\ mode' = mode /\ limits' = limits /\ invoice' = invoice
  BY DEF ReadChunk, request
<1>2. CASE mode = "json"
  BY <1>1, <1>2 DEF ReadChunk
<1>3. CASE mode = "text"
  BY <1>1, <1>3 DEF ReadChunk
<1> QED BY <1>2, <1>3 DEF LnurlTypeOK

\* Types.
LEMMA KeepLnurlType ==
  ASSUME LnurlTypeOK, [LnurlNext]_lnurlVars
  PROVE  LnurlTypeOK'
<1> USE AmountAssumption, CapAssumption DEF LnurlTypeOK, Url, Fail, request, answer
<1>1. ASSUME NEW u \in Url, Start(u) PROVE LnurlTypeOK'
  BY <1>1 DEF Start
<1>2. ASSUME NEW addresses \in Answers \cup {{a} : a \in Address} \cup {{}},
             Check(addresses)
      PROVE  LnurlTypeOK'
  BY <1>2 DEF Check
<1>3. ASSUME NEW a \in Address, NEW how \in {"json", "text"}, NEW body \in BOOLEAN,
             Respond(a, how, body)
      PROVE  LnurlTypeOK'
  BY <1>3 DEF Respond
<1>4. ASSUME NEW n \in Chunk, ReadChunk(n) PROVE LnurlTypeOK'
  <2>0. n \in Nat /\ read \in Nat /\ Cap.text \in Nat
    BY CapAssumption
  <2>1. read' \in {read, Cap.text, read + n}
    BY <1>4, ChunkCases
  <2>2. /\ \/ stage' = "failed" /\ open' = FALSE
           \/ stage' = stage /\ open' = open
        /\ hop' = hop /\ url' = url /\ checked' = checked /\ peer' = peer
        /\ mode' = mode /\ limits' = limits /\ invoice' = invoice
    BY <1>4, ChunkCases
  <2>3. read' \in Nat
    BY <2>0, <2>1
  <2>4. stage' \in {"failed", stage} /\ open' \in BOOLEAN
    BY <2>2
  <2> QED BY <2>2, <2>3, <2>4
<1>5. ASSUME NEW min \in Offers, NEW max \in Offers, NEW callback \in Url,
             PayRequest(min, max, callback)
      PROVE  LnurlTypeOK'
  BY <1>5 DEF PayRequest
<1>6. ASSUME NEW amount \in Offers, Invoice(amount) PROVE LnurlTypeOK'
  BY <1>6 DEF Invoice
<1>7. CASE NoResponse
  BY <1>7 DEF NoResponse
<1>8. CASE EndOfBody
  BY <1>8 DEF EndOfBody
<1>9. CASE NoInvoice
  BY <1>9 DEF NoInvoice
<1>10. CASE UNCHANGED lnurlVars
  BY <1>10 DEF lnurlVars
<1> QED BY <1>1, <1>2, <1>3, <1>4, <1>5, <1>6, <1>7, <1>8, <1>9, <1>10 DEF LnurlNext

\* A stream is let go of before its answer is used or given up.
LEMMA KeepBounded ==
  ASSUME LnurlTypeOK, AnswersAreBounded, [LnurlNext]_lnurlVars
  PROVE  AnswersAreBounded'
<1> USE CapAssumption DEF LnurlTypeOK, AnswersAreBounded, Fail, request, answer
<1>1. ASSUME NEW u \in Url, Start(u) PROVE AnswersAreBounded'
  BY <1>1 DEF Start
<1>2. ASSUME NEW addresses, Check(addresses) PROVE AnswersAreBounded'
  BY <1>2 DEF Check
<1>3. ASSUME NEW a \in Address, NEW how \in {"json", "text"}, NEW body \in BOOLEAN,
             Respond(a, how, body)
      PROVE  AnswersAreBounded'
  BY <1>3 DEF Respond
<1>4. ASSUME NEW n \in Chunk, ReadChunk(n) PROVE AnswersAreBounded'
  <2>1. /\ n \in Nat /\ Cap.json \in Nat /\ Cap.text \in Nat
        /\ Cap["json"] = Cap.json /\ Cap["text"] = Cap.text
    BY CapAssumption
  <2>2. mode' = mode /\ stage = "body" /\ (open' => stage' = "body")
    BY <1>4, ChunkCases
  <2>3. CASE mode = "json"
    <3>1. read' = read \/ (~(read + n > Cap.json) /\ read' = read + n)
      BY <1>4, <2>3, ChunkCases
    <3> QED BY <2>1, <2>2, <2>3, <3>1
  <2>4. CASE mode = "text"
    <3>1. read' = Cap.text \/ (~(n >= Cap.text - read) /\ read' = read + n)
      BY <1>4, <2>4, ChunkCases
    <3> QED BY <2>1, <2>2, <2>4, <3>1
  <2> QED BY <2>3, <2>4
<1>5. ASSUME NEW min, NEW max, NEW callback, PayRequest(min, max, callback)
      PROVE  AnswersAreBounded'
  BY <1>5 DEF PayRequest
<1>6. ASSUME NEW amount, Invoice(amount) PROVE AnswersAreBounded'
  BY <1>6 DEF Invoice
<1>7. CASE NoResponse
  BY <1>7 DEF NoResponse
<1>8. CASE EndOfBody
  BY <1>8 DEF EndOfBody
<1>9. CASE NoInvoice
  BY <1>9 DEF NoInvoice
<1>10. CASE UNCHANGED lnurlVars
  BY <1>10 DEF lnurlVars
<1> QED BY <1>1, <1>2, <1>3, <1>4, <1>5, <1>6, <1>7, <1>8, <1>9, <1>10 DEF LnurlNext

\* Only Check fills `checked`, and the next URL starts without a peer.
LEMMA KeepPeer ==
  ASSUME LnurlTypeOK, PeerInv, [LnurlNext]_lnurlVars
  PROVE  PeerInv'
<1> USE DEF PeerInv, Fail, request, answer
<1>1. ASSUME NEW u \in Url, Start(u) PROVE PeerInv'
  BY <1>1 DEF Start
<1>2. ASSUME NEW addresses, Check(addresses) PROVE PeerInv'
  BY <1>2 DEF Check, AllPublic
<1>3. ASSUME NEW a, NEW how, NEW body \in BOOLEAN, Respond(a, how, body)
      PROVE  PeerInv'
  BY <1>3 DEF Respond
<1>4. ASSUME NEW n \in Chunk, ReadChunk(n) PROVE PeerInv'
  <2>1. stage' \in {"failed", "body"}
    BY <1>4, ChunkCases
  <2>2. url' = url /\ checked' = checked /\ peer' = peer
    BY <1>4, ChunkCases
  <2> QED BY <2>1, <2>2
<1>5. ASSUME NEW min, NEW max, NEW callback, PayRequest(min, max, callback)
      PROVE  PeerInv'
  BY <1>5 DEF PayRequest
<1>6. ASSUME NEW amount, Invoice(amount) PROVE PeerInv'
  BY <1>6 DEF Invoice
<1>7. CASE NoResponse
  BY <1>7 DEF NoResponse
<1>8. CASE EndOfBody
  BY <1>8 DEF EndOfBody
<1>9. CASE NoInvoice
  BY <1>9 DEF NoInvoice
<1>10. CASE UNCHANGED lnurlVars
  BY <1>10 DEF lnurlVars
<1> QED BY <1>1, <1>2, <1>3, <1>4, <1>5, <1>6, <1>7, <1>8, <1>9, <1>10 DEF LnurlNext

-----------------------------------------------------------------------------
(* LnurlPay: the theorems.                                                 *)

\* The inductive invariant of a call for an invoice.
THEOREM LnurlCorrect == LnurlSpec => []LnurlInv
<1>1. LnurlInit => LnurlInv
  <2> SUFFICES ASSUME LnurlInit PROVE LnurlInv
    OBVIOUS
  <2> USE DEF LnurlInit
  <2>1. LnurlTypeOK
    BY DEF LnurlTypeOK, Url
  <2>2. AnswersAreBounded
    BY CapAssumption DEF AnswersAreBounded
  <2>3. PeerInv
    BY DEF PeerInv
  <2> QED BY <2>1, <2>2, <2>3 DEF LnurlInv
<1>2. LnurlInv /\ [LnurlNext]_lnurlVars => LnurlInv'
  BY KeepLnurlType, KeepBounded, KeepPeer DEF LnurlInv
<1> QED BY <1>1, <1>2, PTL DEF LnurlSpec

\* Every variable of the call keeps its type.
THEOREM LnurlTypesHold == LnurlSpec => []LnurlTypeOK
<1>1. LnurlInv => LnurlTypeOK
  BY DEF LnurlInv
<1> QED BY <1>1, LnurlCorrect, PTL

\* Whatever pieces an answer comes in, no more than its cap is kept, and no
\* stream outlives its request (ssrf.ts 183-232).
THEOREM AnswersStayBounded == LnurlSpec => []AnswersAreBounded
<1>1. LnurlInv => AnswersAreBounded
  BY DEF LnurlInv
<1> QED BY <1>1, LnurlCorrect, PTL

\* A request goes to an address in one of the ranges only when a name leads
\* there that led elsewhere when it was checked (ssrf.ts 14-19, 33-39).
THEOREM RequestsStayPublic == LnurlSpec => []NonPublicOnlyIfMoved
<1>1. LnurlInv => NonPublicOnlyIfMoved
  <2> SUFFICES ASSUME LnurlInv, peer # <<>>, peer \in checked, NonPublic(peer)
               PROVE  FALSE
    BY DEF NonPublicOnlyIfMoved
  <2>1. IsAddress(peer)
    BY AddressesAre DEF LnurlInv, LnurlTypeOK
  <2> QED BY <2>1, CheckIsExact DEF LnurlInv, PeerInv
<1> QED BY <1>1, LnurlCorrect, PTL

\* A URL that names an address itself never leads into one of the ranges.
LiteralIsPublic == url.literal /\ peer # <<>> => ~NonPublic(peer)

\* Nothing can move there: whichever server names it, a URL with an address for
\* its host is asked only if the address is public (ssrf.ts 161-182).
THEOREM LiteralsArePublic == LnurlSpec => []LiteralIsPublic
<1>1. LnurlInv => LiteralIsPublic
  <2> SUFFICES ASSUME LnurlInv, url.literal, peer # <<>>, NonPublic(peer)
               PROVE  FALSE
    BY DEF LiteralIsPublic
  <2>1. IsAddress(peer)
    BY AddressesAre DEF LnurlInv, LnurlTypeOK
  <2> QED BY <2>1, CheckIsExact DEF LnurlInv, PeerInv
<1> QED BY <1>1, LnurlCorrect, PTL
=============================================================================
