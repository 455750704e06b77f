------------------------------- MODULE Outbox -------------------------------
(***************************************************************************)
(* Delivery of signed events that "must eventually reach the network"      *)
(* (src/nostr/relay-client.ts, publishEventually and the outbox) on one    *)
(* device: events that no relay accepts are kept in the editor's           *)
(* persistent store and tried again once after every start of a window.    *)
(*                                                                         *)
(* An action runs from one answer of the relays to the next wait; the      *)
(* store's `update` takes effect at once and survives a reload.            *)
(***************************************************************************)
EXTENDS Naturals, SequencesExt

CONSTANTS
  Event,      \* the signed events
  Limit,      \* OUTBOX_LIMIT
  MaxCrashes  \* bound on the reloads that interrupt a flush

ASSUME BoundsAssumption == Limit \in Nat \ {0} /\ MaxCrashes \in Nat

VARIABLES
  call,      \* how far publishEventually is for each event
  onRelay,   \* the events some relay stored
  outbox,    \* the persisted queue, oldest first
  todo,      \* what the running flush still has to try
  remaining, \* what it tried in vain
  flushed,   \* whether this window has started its flush
  crashes,   \* how many flushes were interrupted
  risked     \* events queued during a flush or pushed out by Limit

vars == <<call, onRelay, outbox, todo, remaining, flushed, crashes, risked>>
flush == <<todo, remaining, flushed, crashes>>

TypeOK ==
  /\ call \in [Event -> {"new", "publishing", "returned", "gone"}]
  /\ onRelay \in SUBSET Event
  /\ outbox \in Seq(Event) /\ Len(outbox) <= Limit
  /\ todo \in Seq(Event) /\ remaining \in Seq(Event)
  /\ flushed \in BOOLEAN
  /\ crashes \in 0..MaxCrashes
  /\ risked \in SUBSET Event

Init ==
  /\ call = [e \in Event |-> "new"]
  /\ onRelay = {}
  /\ outbox = <<>> /\ todo = <<>> /\ remaining = <<>>
  /\ flushed = FALSE
  /\ crashes = 0
  /\ risked = {}

Flushing == todo # <<>>

\* The filter by event id has nothing to do for an event that is not queued.
Without(q, e) == IF e \in ToSet(q) THEN SelectSeq(q, LAMBDA f : f # e) ELSE q

\* Variant: the queue grows without a limit.
Unlimited(q) == q

\* slice(-OUTBOX_LIMIT)
Newest(q) == SubSeq(q, IF Len(q) > Limit THEN Len(q) - Limit + 1 ELSE 1, Len(q))

-----------------------------------------------------------------------------
(* publishEventually. *)

PublishEventually(e) ==
  /\ call[e] = "new"
  /\ call' = [call EXCEPT ![e] = "publishing"]
  /\ UNCHANGED <<onRelay, outbox, flush, risked>>

Accepted(e) ==
  /\ call[e] = "publishing"
  /\ call' = [call EXCEPT ![e] = "returned"]
  /\ onRelay' = onRelay \cup {e}
  /\ UNCHANGED <<outbox, flush, risked>>

\* No acceptance in time, though a relay may have stored the event: enqueue.
Rejected(e) ==
  LET queue == Append(Without(outbox, e), e) IN
  /\ call[e] = "publishing"
  /\ call' = [call EXCEPT ![e] = "returned"]
  /\ onRelay' \in {onRelay, onRelay \cup {e}}
  /\ outbox' = Newest(queue)
  /\ risked' = risked \cup (IF Flushing THEN {e} ELSE {})
                     \cup (ToSet(queue) \ ToSet(outbox'))
  /\ UNCHANGED flush

-----------------------------------------------------------------------------
(* flushOutbox: a copy of the queue is tried, then what is left written. *)

\* Variant: the queue is emptied when the flush begins.
FlushStartsEmpty ==
  /\ ~flushed /\ outbox # <<>>
  /\ todo' = outbox
  /\ outbox' = <<>>
  /\ remaining' = <<>>
  /\ flushed' = TRUE
  /\ UNCHANGED <<call, onRelay, crashes, risked>>

FlushStarts ==
  /\ ~flushed
  /\ flushed' = TRUE
  /\ todo' = outbox
  /\ remaining' = <<>>
  /\ UNCHANGED <<call, onRelay, outbox, crashes, risked>>

FlushGoesOn ==
  /\ todo' = Tail(todo)
  /\ outbox' = IF todo' = <<>> THEN remaining' ELSE outbox
  /\ UNCHANGED <<call, flushed, crashes, risked>>

FlushAccepted ==
  /\ Flushing
  /\ onRelay' = onRelay \cup {Head(todo)}
  /\ UNCHANGED remaining
  /\ FlushGoesOn

\* Variant: an event that a flush could not deliver is given up.
FlushGivesUp ==
  /\ Flushing
  /\ onRelay' \in {onRelay, onRelay \cup {Head(todo)}}
  /\ UNCHANGED remaining
  /\ FlushGoesOn

FlushRejected ==
  /\ Flushing
  /\ onRelay' \in {onRelay, onRelay \cup {Head(todo)}}
  /\ remaining' = Append(remaining, Head(todo))
  /\ FlushGoesOn

-----------------------------------------------------------------------------

\* A window reloads: what was running is gone, the store is not.
Reload ==
  /\ Flushing => crashes < MaxCrashes
  /\ crashes' = IF Flushing THEN crashes + 1 ELSE crashes
  /\ call' = [e \in Event |-> IF call[e] = "publishing" THEN "gone" ELSE call[e]]
  /\ todo' = <<>> /\ remaining' = <<>>
  /\ flushed' = FALSE
  /\ UNCHANGED <<onRelay, outbox, risked>>

Next ==
  \/ \E e \in Event : PublishEventually(e) \/ Accepted(e) \/ Rejected(e)
  \/ FlushStarts \/ FlushAccepted \/ FlushRejected
  \/ Reload

Spec == Init /\ [][Next]_vars

\* Every window starts its flush and sees it through.  That windows are opened
\* again and again, and that an event tried again and again is accepted at
\* some time, is up to the user and the relays.
FairSpec ==
  /\ Spec
  /\ WF_vars(FlushStarts) /\ WF_vars(FlushAccepted \/ FlushRejected)
  /\ WF_vars(Reload)
  /\ \A e \in Event : SF_vars(FlushAccepted /\ e = Head(todo))

-----------------------------------------------------------------------------
(* Properties. *)

\* The event is on some relay, or still queued.
Safe(e) == e \in onRelay \cup ToSet(outbox)

\* An event handed over is lost only in two ways: a flush was under way when
\* it was queued, or 200 younger ones were queued after it.  In particular a
\* reload in the middle of a flush loses nothing.
LostOnlyAtRisk ==
  \A e \in Event : call[e] = "returned" => Safe(e) \/ e \in risked

\* "events whose consequences already happened (a payout receipt) and must
\* eventually reach the network" (relay-client.ts 113-117): every event handed
\* over, and not at risk, arrives.
EventuallyPublished ==
  \A e \in Event : call[e] = "returned" ~> e \in onRelay \cup risked
=============================================================================
