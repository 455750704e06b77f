---------------------------- MODULE OutboxProofs ----------------------------
(***************************************************************************)
(* What holds of the outbox for every set of events, every limit and every *)
(* number of interrupted flushes:                                          *)
(*                                                                         *)
(*   TypesHold        types; the queue never exceeds Limit                 *)
(*   LossesAreAtRisk  LostOnlyAtRisk                                       *)
(*                                                                         *)
(* A flush works on a copy and replaces the queue when it is through.  The *)
(* invariant says what the copy is worth until then (FlushInv), and that   *)
(* an event is queued by the one call that handed it over (QueuedInv).     *)
(***************************************************************************)
EXTENDS Outbox, SequenceTheorems, TLAPS

\* What is queued has been handed over.
QueuedInv ==
  \A e \in ToSet(outbox) \cup ToSet(todo) \cup ToSet(remaining) : call[e] = "returned"

\* While a flush runs, what is queued is in its hands, on a relay or at risk.
FlushInv ==
  Flushing =>
    /\ Len(todo) + Len(remaining) <= Limit
    /\ ToSet(outbox) \subseteq ToSet(todo) \cup ToSet(remaining) \cup onRelay \cup risked

\* The elements of a sequence.
LEMMA ToSetIs == ASSUME NEW S, NEW s \in Seq(S)
  PROVE  ToSet(s) = {s[i] : i \in 1..Len(s)} /\ ToSet(s) \subseteq S
BY DEF ToSet

\* The empty sequence has none.
LEMMA EmptySet == ToSet(<<>>) = {}
BY DEF ToSet

\* A sequence is its head and its tail.
LEMMA HeadTail == ASSUME NEW S, NEW s \in Seq(S), s # <<>>
  PROVE /\ Head(s) \in S /\ Tail(s) \in Seq(S) /\ Len(Tail(s)) = Len(s) - 1 /\ Len(s) > 0
        /\ ToSet(s) = {Head(s)} \cup ToSet(Tail(s))
<1>1. /\ Head(s) = s[1] /\ Tail(s) \in Seq(S) /\ Len(s) \in Nat /\ Len(s) > 0
      /\ Len(Tail(s)) = Len(s) - 1 /\ \A i \in 1..Len(Tail(s)) : Tail(s)[i] = s[i + 1]
  BY HeadTailProperties, LenProperties, EmptySeq
<1>2. ASSUME NEW i \in 1..Len(s) PROVE s[i] \in {Head(s)} \cup ToSet(Tail(s))
  <2>1. CASE i = 1
    BY <1>1, <2>1
  <2>2. CASE i # 1
    <3>1. i - 1 \in 1..Len(Tail(s)) /\ Tail(s)[i - 1] = s[(i - 1) + 1]
      BY <1>1, <2>2
    <3>2. Tail(s)[i - 1] = s[i]
      BY <3>1
    <3>3. ToSet(Tail(s)) = {Tail(s)[j] : j \in 1..Len(Tail(s))}
      BY <1>1, ToSetIs
    <3> QED
      BY <3>1, <3>2, <3>3
  <2> QED
    BY <2>1, <2>2
<1>3. ASSUME NEW i \in 1..Len(Tail(s)) PROVE Tail(s)[i] \in ToSet(s)
  <2>1. i + 1 \in 1..Len(s)
    BY <1>1
  <2> QED
    BY <1>1, <2>1 DEF ToSet
<1>4. Head(s) \in ToSet(s) /\ Head(s) \in S
  BY <1>1 DEF ToSet
<1> QED
  BY <1>1, <1>2, <1>3, <1>4 DEF ToSet

\* Append adds one element.
LEMMA Appended == ASSUME NEW S, NEW s \in Seq(S), NEW e \in S
  PROVE /\ Append(s, e) \in Seq(S) /\ Len(Append(s, e)) = Len(s) + 1
        /\ ToSet(Append(s, e)) = ToSet(s) \cup {e}
<1>1. /\ Append(s, e) \in Seq(S) /\ Len(Append(s, e)) = Len(s) + 1 /\ Len(s) \in Nat
      /\ \A i \in 1..Len(s) : Append(s, e)[i] = s[i]
      /\ Append(s, e)[Len(s) + 1] = e
  BY AppendProperties, LenProperties
<1>2. ASSUME NEW i \in 1..Len(Append(s, e)) PROVE Append(s, e)[i] \in ToSet(s) \cup {e}
  <2>1. CASE i = Len(s) + 1
    BY <1>1, <2>1
  <2>2. CASE i # Len(s) + 1
    BY <1>1, <2>2 DEF ToSet
  <2> QED
    BY <2>1, <2>2
<1>3. ASSUME NEW i \in 1..Len(s) PROVE s[i] \in ToSet(Append(s, e))
  <2>1. i \in 1..Len(Append(s, e))
    BY <1>1
  <2> QED
    BY <1>1, <2>1 DEF ToSet
<1>4. e \in ToSet(Append(s, e))
  BY <1>1 DEF ToSet
<1> QED
  BY <1>1, <1>2, <1>3, <1>4 DEF ToSet

\* Newest keeps the limit, and adds nothing.
LEMMA NewestIs == ASSUME NEW q \in Seq(Event)
  PROVE /\ Newest(q) \in Seq(Event) /\ Len(Newest(q)) <= Limit
        /\ ToSet(Newest(q)) \subseteq ToSet(q)
<1> DEFINE m == IF Len(q) > Limit THEN Len(q) - Limit + 1 ELSE 1
<1>1. Len(q) \in Nat /\ Limit \in Nat \ {0}
  BY BoundsAssumption, LenProperties
<1>2. m \in 1..Len(q) + 1 /\ Len(q) - m + 1 <= Limit
  BY <1>1
<1> HIDE DEF m
<1>3. /\ SubSeq(q, m, Len(q)) \in Seq(Event)
      /\ Len(SubSeq(q, m, Len(q))) = IF m <= Len(q) THEN Len(q) - m + 1 ELSE 0
      /\ \A i \in 1..Len(q) - m + 1 : SubSeq(q, m, Len(q))[i] = q[m + i - 1]
  BY <1>1, <1>2, SubSeqProperties
<1>4. ASSUME NEW i \in 1..Len(SubSeq(q, m, Len(q)))
      PROVE  SubSeq(q, m, Len(q))[i] \in ToSet(q)
  <2>1. m + i - 1 \in 1..Len(q) /\ SubSeq(q, m, Len(q))[i] = q[m + i - 1]
    BY <1>1, <1>2, <1>3
  <2> QED
    BY <2>1 DEF ToSet
<1>5. Newest(q) = SubSeq(q, m, Len(q))
  BY DEF Newest, m
<1>6. Len(SubSeq(q, m, Len(q))) <= Limit
  BY <1>1, <1>2, <1>3
<1> QED
  BY <1>3, <1>4, <1>5, <1>6 DEF ToSet

\* The filter leaves a queue without the event as it is.
LEMMA WithoutIs == ASSUME NEW q, NEW e, e \notin ToSet(q) PROVE Without(q, e) = q
BY DEF Without

-----------------------------------------------------------------------------

\* What is queued are events.
LEMMA QueuedEvents ==
  ASSUME TypeOK
  PROVE  ToSet(outbox) \cup ToSet(todo) \cup ToSet(remaining) \subseteq Event
BY ToSetIs DEF TypeOK

\* A flush tries the head of its copy, and leaves a queue within the limit.
LEMMA GoesOn ==
  ASSUME TypeOK, FlushInv, Flushing, FlushGoesOn, remaining' \in Seq(Event),
         Len(remaining') <= Len(remaining) + 1
  PROVE  /\ Head(todo) \in Event
         /\ ToSet(todo) = {Head(todo)} \cup ToSet(todo')
         /\ todo' \in Seq(Event) /\ outbox' \in Seq(Event) /\ Len(outbox') <= Limit
         /\ Len(todo') + Len(remaining') <= Limit
<1>1. /\ todo \in Seq(Event) /\ todo # <<>> /\ outbox \in Seq(Event) /\ Len(outbox) <= Limit
      /\ todo' = Tail(todo) /\ outbox' = IF todo' = <<>> THEN remaining' ELSE outbox
      /\ Len(todo) + Len(remaining) <= Limit
  BY DEF TypeOK, FlushInv, Flushing, FlushGoesOn
<1>2. /\ Head(todo) \in Event /\ todo' \in Seq(Event) /\ Len(todo') = Len(todo) - 1
      /\ ToSet(todo) = {Head(todo)} \cup ToSet(todo')
  BY <1>1, HeadTail
<1>3. /\ Len(todo) \in Nat /\ Len(remaining) \in Nat /\ Len(remaining') \in Nat
      /\ Len(todo') \in Nat /\ Limit \in Nat
  BY <1>1, <1>2, BoundsAssumption, LenProperties DEF TypeOK
<1> QED
  BY <1>1, <1>2, <1>3

\* The invariant.
Inv == TypeOK /\ QueuedInv /\ FlushInv /\ LostOnlyAtRisk

\* Both steps of a flush preserve the invariant.
LEMMA FlushStep ==
  ASSUME Inv, Flushing, FlushGoesOn,
         \/ remaining' = remaining /\ onRelay' = onRelay \cup {Head(todo)}
         \/ remaining' = Append(remaining, Head(todo))
            /\ onRelay' \in {onRelay, onRelay \cup {Head(todo)}}
  PROVE  Inv'
<1> USE DEF Inv
<1>0. todo # <<>> /\ todo \in Seq(Event) /\ remaining \in Seq(Event) /\ Len(remaining) \in Nat
  BY LenProperties DEF Flushing, TypeOK
<1>1. Head(todo) \in Event /\ Head(todo) \in ToSet(todo)
  BY <1>0, HeadTail
<1>2. /\ remaining' \in Seq(Event) /\ Len(remaining') <= Len(remaining) + 1
      /\ ToSet(remaining) \subseteq ToSet(remaining')
      /\ ToSet(remaining') \subseteq ToSet(remaining) \cup {Head(todo)}
      /\ Head(todo) \in ToSet(remaining') \cup onRelay'
      /\ onRelay \subseteq onRelay' /\ onRelay' \subseteq Event
  <2>1. LET r == Append(remaining, Head(todo)) IN
        r \in Seq(Event) /\ Len(r) = Len(remaining) + 1 /\ ToSet(r) = ToSet(remaining) \cup {Head(todo)}
    BY <1>0, <1>1, Appended
  <2>2. onRelay \subseteq Event
    BY DEF TypeOK
  <2>3. CASE remaining' = remaining /\ onRelay' = onRelay \cup {Head(todo)}
    BY <1>0, <1>1, <2>2, <2>3
  <2>4. CASE /\ remaining' = Append(remaining, Head(todo))
             /\ onRelay' \in {onRelay, onRelay \cup {Head(todo)}}
    <3>1. /\ remaining' \in Seq(Event) /\ Len(remaining') = Len(remaining) + 1
          /\ ToSet(remaining') = ToSet(remaining) \cup {Head(todo)}
      BY <2>1, <2>4
    <3>2. Len(remaining') <= Len(remaining) + 1
      BY <1>0, <3>1
    <3> QED
      BY <1>1, <2>2, <2>4, <3>1, <3>2
  <2> QED
    BY <2>3, <2>4
<1>3. /\ ToSet(todo) = {Head(todo)} \cup ToSet(todo')
      /\ todo' \in Seq(Event) /\ outbox' \in Seq(Event) /\ Len(outbox') <= Limit
      /\ Len(todo') + Len(remaining') <= Limit
  BY <1>2, GoesOn
<1>4. /\ UNCHANGED <<call, flushed, crashes, risked>>
      /\ outbox' = IF todo' = <<>> THEN remaining' ELSE outbox
  BY DEF FlushGoesOn
<1>5. TypeOK'
  BY <1>2, <1>3, <1>4 DEF TypeOK
<1>6. QueuedInv'
  BY <1>1, <1>2, <1>3, <1>4 DEF QueuedInv
<1>7. ToSet(outbox) \subseteq ToSet(todo') \cup ToSet(remaining') \cup onRelay' \cup risked
  BY <1>2, <1>3 DEF FlushInv
<1>8. FlushInv'
  BY <1>3, <1>4, <1>7 DEF FlushInv, Flushing
<1>9. LostOnlyAtRisk'
  <2>1. ToSet(outbox) \subseteq ToSet(outbox') \cup onRelay' \cup risked
    <3>1. CASE todo' = <<>>
      BY <1>4, <1>7, <3>1, EmptySet
    <3>2. CASE todo' # <<>>
      BY <1>4, <3>2
    <3> QED
      BY <3>1, <3>2
  <2> QED
    BY <1>2, <1>4, <2>1 DEF LostOnlyAtRisk, Safe
<1> QED
  BY <1>5, <1>6, <1>8, <1>9

\* The first window satisfies the invariant,
LEMMA InitHolds == Init => Inv
<1> SUFFICES ASSUME Init PROVE Inv
  OBVIOUS
<1>1. /\ <<>> \in Seq(Event) /\ Len(<<>>) = 0
  BY EmptySeq
<1>2. TypeOK
  <2>1. /\ call \in [Event -> {"new", "publishing", "returned", "gone"}]
        /\ onRelay = {} /\ risked = {} /\ flushed = FALSE /\ crashes = 0
        /\ outbox = <<>> /\ todo = <<>> /\ remaining = <<>>
    BY DEF Init
  <2>2. 0 \in 0..MaxCrashes /\ 0 <= Limit
    BY BoundsAssumption
  <2> QED
    BY <1>1, <2>1, <2>2 DEF TypeOK
<1>3. QueuedInv
  BY EmptySet DEF Init, QueuedInv
<1>4. FlushInv /\ LostOnlyAtRisk
  BY DEF Init, FlushInv, Flushing, LostOnlyAtRisk
<1> QED
  BY <1>2, <1>3, <1>4 DEF Inv

\* and every step preserves it.
LEMMA NextHolds == Inv /\ [Next]_vars => Inv'
<1> SUFFICES ASSUME Inv, [Next]_vars PROVE Inv'
  OBVIOUS
<1> USE BoundsAssumption DEF Inv, flush
<1>1. ASSUME NEW e \in Event, PublishEventually(e) PROVE Inv'
  <2>1. call' = [call EXCEPT ![e] = "publishing"] /\ call[e] = "new"
        /\ UNCHANGED <<onRelay, outbox, flush, risked>>
    BY <1>1 DEF PublishEventually
  <2>2. TypeOK'
    BY <2>1 DEF TypeOK
  <2>3. \A f \in Event : call'[f] = "returned" <=> call[f] = "returned"
    BY <2>1 DEF TypeOK
  <2>4. LostOnlyAtRisk'
    BY <2>1, <2>3 DEF LostOnlyAtRisk, Safe
  <2>5. QueuedInv' /\ FlushInv'
    BY <2>1, <2>3, QueuedEvents DEF QueuedInv, FlushInv, Flushing
  <2> QED
    BY <2>2, <2>4, <2>5
<1>2. ASSUME NEW e \in Event, Accepted(e) PROVE Inv'
  <2>1. call' = [call EXCEPT ![e] = "returned"] /\ onRelay' = onRelay \cup {e}
        /\ UNCHANGED <<outbox, flush, risked>>
    BY <1>2 DEF Accepted
  <2>2. TypeOK'
    BY <2>1 DEF TypeOK
  <2>3. \A f \in Event : call'[f] = "returned" <=> call[f] = "returned" \/ f = e
    BY <2>1 DEF TypeOK
  <2>4. LostOnlyAtRisk'
    BY <2>1, <2>3 DEF LostOnlyAtRisk, Safe
  <2>5. QueuedInv' /\ FlushInv'
    BY <2>1, <2>3, QueuedEvents DEF QueuedInv, FlushInv, Flushing
  <2> QED
    BY <2>2, <2>4, <2>5
<1>3. ASSUME NEW e \in Event, Rejected(e) PROVE Inv'
  <2> DEFINE queue == Append(Without(outbox, e), e)
  <2>1. /\ call[e] = "publishing" /\ call' = [call EXCEPT ![e] = "returned"]
        /\ onRelay' \in {onRelay, onRelay \cup {e}} /\ outbox' = Newest(queue)
        /\ risked' = risked \cup (IF Flushing THEN {e} ELSE {}) \cup (ToSet(queue) \ ToSet(outbox'))
        /\ UNCHANGED flush
    BY <1>3 DEF Rejected
  <2>2. e \notin ToSet(outbox)
    BY <2>1 DEF QueuedInv
  <2>3. queue = Append(outbox, e)
    BY <2>2, WithoutIs
  <2>4. queue \in Seq(Event) /\ ToSet(queue) = ToSet(outbox) \cup {e}
    BY <2>3, Appended DEF TypeOK
  <2> HIDE DEF queue
  <2>5. /\ outbox' \in Seq(Event) /\ Len(outbox') <= Limit
        /\ ToSet(outbox') \subseteq ToSet(outbox) \cup {e}
    BY <2>1, <2>4, NewestIs
  <2>6. /\ risked \subseteq risked' /\ risked' \subseteq Event
        /\ ToSet(outbox) \cup {e} \subseteq ToSet(outbox') \cup risked'
        /\ Flushing => e \in risked'
    <3>1. ToSet(outbox) \subseteq Event
      BY ToSetIs DEF TypeOK
    <3> QED
      BY <2>1, <2>4, <3>1 DEF TypeOK
  <2>7. TypeOK'
    BY <2>1, <2>5, <2>6 DEF TypeOK
  <2>8. \A f \in Event : call'[f] = "returned" <=> call[f] = "returned" \/ f = e
    BY <2>1 DEF TypeOK
  <2>9. LostOnlyAtRisk'
    BY <2>1, <2>6, <2>8 DEF LostOnlyAtRisk, Safe
  <2>10. QueuedInv'
    BY <2>1, <2>5, <2>8, QueuedEvents DEF QueuedInv
  <2>11. FlushInv'
    BY <2>1, <2>5, <2>6 DEF FlushInv, Flushing
  <2> QED
    BY <2>7, <2>9, <2>10, <2>11
<1>4. CASE FlushStarts
  <2>1. /\ flushed' = TRUE /\ todo' = outbox /\ remaining' = <<>>
        /\ UNCHANGED <<call, onRelay, outbox, crashes, risked>>
    BY <1>4 DEF FlushStarts
  <2>2. <<>> \in Seq(Event) /\ Len(<<>>) = 0 /\ Len(outbox) \in Nat
    BY EmptySeq, LenProperties DEF TypeOK
  <2>3. TypeOK'
    BY <2>1, <2>2 DEF TypeOK
  <2>4. QueuedInv' /\ LostOnlyAtRisk'
    BY <2>1, EmptySet DEF QueuedInv, LostOnlyAtRisk, Safe
  <2>5. FlushInv'
    BY <2>1, <2>2 DEF FlushInv, TypeOK
  <2> QED
    BY <2>3, <2>4, <2>5
<1>5. CASE FlushAccepted
  BY <1>5, FlushStep DEF FlushAccepted
<1>6. CASE FlushRejected
  BY <1>6, FlushStep DEF FlushRejected
<1>7. CASE Reload
  <2>1. /\ call' = [e \in Event |-> IF call[e] = "publishing" THEN "gone" ELSE call[e]]
        /\ todo' = <<>> /\ remaining' = <<>> /\ flushed' = FALSE
        /\ UNCHANGED <<onRelay, outbox, risked>>
    BY <1>7 DEF Reload
  <2>2. crashes' \in 0..MaxCrashes
    BY <1>7 DEF Reload, TypeOK
  <2>3. <<>> \in Seq(Event)
    BY EmptySeq
  <2>4. TypeOK'
    BY <2>1, <2>2, <2>3 DEF TypeOK
  <2>5. \A f \in Event : call'[f] = "returned" <=> call[f] = "returned"
    BY <2>1
  <2>6. QueuedInv'
    BY <2>1, <2>5, QueuedEvents, EmptySet DEF QueuedInv
  <2>7. LostOnlyAtRisk' /\ FlushInv'
    BY <2>1, <2>5 DEF LostOnlyAtRisk, Safe, FlushInv, Flushing
  <2> QED
    BY <2>4, <2>6, <2>7
<1>8. CASE UNCHANGED vars
  BY <1>8 DEF vars, TypeOK, QueuedInv, FlushInv, Flushing, LostOnlyAtRisk, Safe
<1> QED
  BY <1>1, <1>2, <1>3, <1>4, <1>5, <1>6, <1>7, <1>8 DEF Next

\* All variables keep their types; the persisted queue stays within OUTBOX_LIMIT
\* (relay-client.ts 174).
THEOREM TypesHold == Spec => []TypeOK
BY InitHolds, NextHolds, PTL DEF Spec, Inv

\* An event handed over is on a relay or queued, unless a flush was under way when
\* it was queued or OUTBOX_LIMIT younger ones were (relay-client.ts 113-192).
THEOREM LossesAreAtRisk == Spec => []LostOnlyAtRisk
BY InitHolds, NextHolds, PTL DEF Spec, Inv

=============================================================================
