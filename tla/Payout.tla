------------------------------- MODULE Payout -------------------------------
(***************************************************************************)
(* The payout state machine of a bounty's creator                          *)
(* (src/lightning/payout.ts), run on every machine of that creator, with   *)
(* the parts of src/bounty/bounty-store.ts that publish versions of the    *)
(* bounty and the parts of the relays and of the Lightning wallet it is    *)
(* built on.                                                               *)
(*                                                                         *)
(* One creator and one bounty are enough: the journal is keyed by the      *)
(* bounty's coordinate, and every version of a bounty is signed by its     *)
(* creator.  An Attempt is one call of approveAndPay, sweepJournal or      *)
(* deactivateBounty.  A call of approveAndPay requests at most one         *)
(* invoice, so the attempt itself stands for that invoice's payment hash.  *)
(*                                                                         *)
(* JavaScript runs a handler without interruption up to its next `await`;  *)
(* an action is one such stretch, from the answer awaited to the next      *)
(* call that waits.                                                        *)
(***************************************************************************)
EXTENDS Integers, FiniteSets

CONSTANTS
  Device,       \* the creator's machines, each with its own globalState
  Attempt,      \* the calls made, and the payment hashes they mint
  Wallet,       \* wallets that can be connected (their NWC pubkeys)
  Relay,        \* the bounty relays
  None,         \* absence of a value
  MaxInFlight,  \* how many attempts may be running at once
  MaxRank,      \* bound on the versions ever signed
  Features      \* which optional behaviours the instance exercises

\* "sweep", "prune" and "remove" are the operations of those names; "skew"
\* lets the devices' clocks disagree, and "mistake" lets the creator answer
\* the question about a held payout wrongly.
ASSUME FeaturesAssumption ==
  Features \subseteq {"sweep", "prune", "remove", "skew", "mistake"}
ASSUME BoundsAssumption == MaxInFlight \in Nat /\ MaxRank \in Nat
ASSUME NoneAssumption ==
  None \notin Device \cup Attempt \cup Wallet \cup Relay

VARIABLES
  relay,      \* the version of the bounty each relay keeps
  versions,   \* every version some relay stored or some outbox queued
  outbox,     \* signed versions each device still has to send
  journal,    \* each device's journal entry for the bounty
  connected,  \* the wallet connected on each device
  pc,         \* where each attempt stands
  dev,        \* the device an attempt runs on
  seen,       \* the bounty an attempt works from (`fresh`, `locked`)
  entry,      \* the journal entry an attempt is settling
  payer,      \* the wallet an attempt minted its invoice for
  outcome,    \* what really happened to each payment hash
  vouched     \* hashes the creator declared paid

vars == <<relay, versions, outbox, journal, connected, pc, dev, seen, entry,
          payer, outcome, vouched>>
network == <<relay, versions, outbox>>
locals == <<pc, dev, seen, entry>>
money == <<payer, outcome, vouched>>

Status == {"open", "approving", "paid", "cancelled"}
Hash == Attempt \cup {None}

\* A version of the bounty event.  Rank is its place in the order of NIP-01
\* (created_at, then event id); word marks a resolution "creator-confirmed".
Version == [rank : Nat, status : Status, hash : Hash, word : BOOLEAN]

JournalEntry == [hash : Hash, wallet : Wallet \cup {None},
                 state : {"locking", "approving", "paid"}]

\* The absence of a journal entry is not one.
ASSUME NoEntryAssumption == None \notin JournalEntry

PC == {"idle", "reconcile", "sweep", "sweepReconcile", "prepare", "lock",
       "locked", "settle", "pay", "asked", "receipt", "reopen", "unlock",
       "verdict", "vouch", "disown", "cancel", "done"}

TypeOK ==
  /\ relay \in [Relay -> Version]
  /\ versions \in SUBSET Version
  /\ outbox \in [Device -> SUBSET Version]
  /\ journal \in [Device -> JournalEntry \cup {None}]
  /\ connected \in [Device -> Wallet \cup {None}]
  /\ pc \in [Attempt -> PC]
  /\ dev \in [Attempt -> Device \cup {None}]
  /\ seen \in [Attempt -> Version \cup {None}]
  /\ entry \in [Attempt -> JournalEntry \cup {None}]
  /\ payer \in [Attempt -> Wallet \cup {None}]
  /\ outcome \in [Attempt -> {"none", "pending", "settled", "failed"}]
  /\ vouched \in SUBSET Hash

FirstVersion == [rank |-> 0, status |-> "open", hash |-> None, word |-> FALSE]

Init ==
  /\ relay = [r \in Relay |-> FirstVersion]
  /\ versions = {FirstVersion}
  /\ outbox = [d \in Device |-> {}]
  /\ journal = [d \in Device |-> None]
  /\ connected \in [Device -> Wallet]
  /\ pc = [a \in Attempt |-> "idle"]
  /\ dev = [a \in Attempt |-> None]
  /\ seen = [a \in Attempt |-> None]
  /\ entry = [a \in Attempt |-> None]
  /\ payer = [a \in Attempt |-> None]
  /\ outcome = [a \in Attempt |-> "none"]
  /\ vouched = {}

-----------------------------------------------------------------------------
(***************************************************************************)
(* Relays.  A query is answered by some of the relays and the answers are  *)
(* merged to the newest version among them: since any non-empty set of     *)
(* relays may answer, the result is the version of any one of them.        *)
(***************************************************************************)

Readable == {relay[r] : r \in Relay}

\* created_at of a new version: later than the version it replaces, and the
\* present time otherwise.  Clocks that agree make it the newest of all.
Stamp(base) ==
  {n \in 1..MaxRank :
     /\ n > base
     /\ IF "skew" \in Features THEN \A v \in versions : v.rank # n
                               ELSE n = Cardinality(versions)}

StoreAt(S, v) ==
  [r \in Relay |-> IF r \in S /\ relay[r].rank < v.rank THEN v ELSE relay[r]]

\* v reaches at least one relay.  publish resolves when one of them says so
\* in time, and rejects when none does.
Stored(v) ==
  /\ \E S \in SUBSET Relay : S # {} /\ relay' = StoreAt(S, v)
  /\ versions' = versions \cup {v}
  /\ UNCHANGED outbox

\* publish rejects with nothing stored, or the signer refuses.
NotPublished == UNCHANGED network

\* publishEventually queues what publish rejected.
Queued(d, v) ==
  /\ \E S \in SUBSET Relay : relay' = StoreAt(S, v)
  /\ versions' = versions \cup {v}
  /\ outbox' = [outbox EXCEPT ![d] = @ \cup {v}]

NewVersion(base, status, hash, word) ==
  {[rank |-> n, status |-> status, hash |-> hash, word |-> word] : n \in Stamp(base)}

-----------------------------------------------------------------------------
(* Attempts. *)

Running == {a \in Attempt : pc[a] \notin {"idle", "done"}}

Start(a, d) ==
  /\ pc[a] = "idle"
  /\ Cardinality(Running) < MaxInFlight
  /\ dev' = [dev EXCEPT ![a] = d]

Goto(a, label) == pc' = [pc EXCEPT ![a] = label]

\* The call returns.  An attempt that minted an invoice is spent; any other
\* one can stand for a later call.
Finish(a) ==
  /\ Goto(a, IF payer[a] = None THEN "idle" ELSE "done")
  /\ dev' = [dev EXCEPT ![a] = IF payer[a] = None THEN None ELSE @]
  /\ seen' = [seen EXCEPT ![a] = None]
  /\ entry' = [entry EXCEPT ![a] = None]

Held(d) == journal[d] # None /\ journal[d].state # "paid"
Put(d, e) == journal' = [journal EXCEPT ![d] = e]
Remove(d) == Put(d, None)

-----------------------------------------------------------------------------
(***************************************************************************)
(* approveAndPay, steps 1 and 2: the bounty is read from the relays and an *)
(* earlier attempt is settled first.  A bounty that cannot be read, is     *)
(* paid or is cancelled ends the call and changes nothing.                 *)
(***************************************************************************)

Reads(a, d, v) ==
  /\ v \in Readable
  /\ v.status \in {"open", "approving"}
  /\ seen' = [seen EXCEPT ![a] = v]

\* Variant: the network's status is not looked at before paying.
ApproveBlind(a, d) == \E v \in Readable :
  /\ Start(a, d)
  /\ v.status \in {"open", "approving", "paid"}
  /\ seen' = [seen EXCEPT ![a] = v]
  /\ journal[d] = None
  /\ Goto(a, "prepare")
  /\ UNCHANGED <<network, journal, connected, entry, money>>

ApproveOpen(a, d) == \E v \in Readable :
  /\ Start(a, d) /\ Reads(a, d, v)
  /\ v.status = "open" /\ journal[d] = None
  /\ Goto(a, "prepare")
  /\ UNCHANGED <<network, journal, connected, entry, money>>

\* A payout of which this machine has no record: only the creator can say.
HeldElsewhere(v, e) ==
  e # None => v.status = "approving" /\ v.hash # e.hash

ApproveHeldElsewhere(a, d) == \E v \in Readable :
  /\ Start(a, d) /\ Reads(a, d, v)
  /\ v.status = "approving" \/ journal[d] # None
  /\ HeldElsewhere(v, journal[d])
  /\ Goto(a, "verdict")
  /\ UNCHANGED <<network, journal, connected, entry, money>>

\* Variant: a `paid` entry ends the call without sending its receipt again.
ApproveHeldHereSilently(a, d) == \E v \in Readable :
  LET e == journal[d] IN
  /\ Start(a, d) /\ Reads(a, d, v)
  /\ e # None /\ ~HeldElsewhere(v, e)
  /\ e.state = "approving"
  /\ Goto(a, "reconcile")
  /\ entry' = [entry EXCEPT ![a] = e]
  /\ UNCHANGED <<network, journal, connected, money>>

ApproveHeldHere(a, d) == \E v \in Readable :
  LET e == journal[d] IN
  /\ Start(a, d) /\ Reads(a, d, v)
  /\ e # None /\ ~HeldElsewhere(v, e)
  /\ e.state \in {"approving", "paid"}
  /\ Goto(a, IF e.state = "paid" THEN "receipt" ELSE "reconcile")
  /\ entry' = [entry EXCEPT ![a] = e]
  /\ UNCHANGED <<network, journal, connected, money>>

\* Variant: an `approving` entry is taken for a stale lock as well.
ApproveDropsHold(a, d) == \E v \in Readable :
  LET e == journal[d] IN
  /\ Start(a, d)
  /\ v.status \in {"open", "approving"}
  /\ e # None /\ ~HeldElsewhere(v, e)
  /\ e.state \in {"locking", "approving"}
  /\ Remove(d)
  /\ seen' = [seen EXCEPT ![a] = [v EXCEPT !.status = "open", !.hash = None]]
  /\ Goto(a, "prepare")
  /\ UNCHANGED <<network, connected, entry, money>>

\* A `locking` entry is dropped: its wallet was never asked.
ApproveDropsLock(a, d) == \E v \in Readable :
  LET e == journal[d] IN
  /\ Start(a, d)
  /\ v.status \in {"open", "approving"}
  /\ e # None /\ ~HeldElsewhere(v, e)
  /\ e.state = "locking"
  /\ Remove(d)
  /\ seen' = [seen EXCEPT ![a] = [v EXCEPT !.status = "open", !.hash = None]]
  /\ Goto(a, "prepare")
  /\ UNCHANGED <<network, connected, entry, money>>

-----------------------------------------------------------------------------
(***************************************************************************)
(* reconcile: ask the wallet of the attempt what became of its hash.       *)
(***************************************************************************)

\* Variants: a payment not known to be settled counts as failed; a pending
\* one counts as settled; a failed one is not told from an unknown one.
NotSettledIsFailed(w, h) == {IF outcome[h] = "settled" THEN "settled" ELSE "failed"}
PendingIsSettled(w, h) ==
  {"unknown"} \cup (IF outcome[h] = "pending" THEN {"settled"} ELSE {outcome[h]})
FailedIsUnknown(w, h) == {"unknown"} \cup ({outcome[h]} \cap {"settled"})

\* lookup_invoice.  The wallet that was asked knows a decided payment, and
\* may always fail to answer; another wallet may well answer "failed".
LookupAnswers(w, h) ==
  {"unknown"} \cup
    (IF payer[h] = w THEN {outcome[h]} \cap {"settled", "failed"} ELSE {"failed"})

AsksOwnWallet(a) ==
  /\ pc[a] \in {"reconcile", "sweepReconcile"}
  /\ connected[dev[a]] = entry[a].wallet

ReconcileSettled(a) ==
  /\ AsksOwnWallet(a)
  /\ "settled" \in LookupAnswers(connected[dev[a]], entry[a].hash)
  /\ Put(dev[a], [entry[a] EXCEPT !.state = "paid"])
  /\ Goto(a, "receipt")
  /\ UNCHANGED <<network, connected, dev, seen, entry, money>>

\* release: the hold is dropped, and taken off the network if it is there.
ReconcileFailed(a) ==
  /\ AsksOwnWallet(a)
  /\ "failed" \in LookupAnswers(connected[dev[a]], entry[a].hash)
  /\ Remove(dev[a])
  /\ UNCHANGED <<network, connected, money>>
  /\ \/ /\ seen[a].status = "approving"
        /\ Goto(a, IF pc[a] = "reconcile" THEN "reopen" ELSE "unlock")
        /\ UNCHANGED <<dev, seen, entry>>
     \/ /\ seen[a].status # "approving"
        /\ pc[a] = "reconcile"
        /\ Goto(a, "prepare")
        /\ UNCHANGED <<dev, seen, entry>>
     \/ /\ seen[a].status # "approving"
        /\ pc[a] = "sweepReconcile"
        /\ Finish(a)

\* No wallet connected, or a lookup that is pending or not answered.
ReconcileUnknown(a) ==
  /\ pc[a] \in {"reconcile", "sweepReconcile"}
  /\ connected[dev[a]] \in {None, entry[a].wallet}
  /\ Finish(a)
  /\ UNCHANGED <<network, journal, connected, money>>

\* Another wallet is connected: it knows nothing of this hash.  The sweep
\* leaves the entry alone, an approval asks the creator.
ReconcileForeignWallet(a) ==
  /\ pc[a] \in {"reconcile", "sweepReconcile"}
  /\ connected[dev[a]] \notin {None, entry[a].wallet}
  /\ \/ /\ pc[a] = "reconcile"
        /\ Goto(a, "verdict")
        /\ UNCHANGED <<dev, seen, entry>>
     \/ /\ pc[a] = "sweepReconcile"
        /\ Finish(a)
  /\ UNCHANGED <<network, journal, connected, money>>

\* release inside an approval: the `open` version goes out, or is queued, or
\* is not signed; the approval then carries on from an open bounty.
Reopen(a) ==
  /\ pc[a] = "reopen"
  /\ Goto(a, "prepare")
  /\ \/ \E v \in NewVersion(seen[a].rank, "open", None, FALSE) :
          /\ Stored(v) \/ Queued(dev[a], v)
          /\ seen' = [seen EXCEPT ![a] = v]
     \/ /\ NotPublished
        /\ seen' = [seen EXCEPT ![a].status = "open", ![a].hash = None]
  /\ entry' = [entry EXCEPT ![a] = None]
  /\ UNCHANGED <<journal, connected, dev, money>>

-----------------------------------------------------------------------------
(***************************************************************************)
(* approveAndPay, steps 3 to 5: the claim is checked, an invoice minted,   *)
(* and the lock taken, first in the journal and then on the network.       *)
(***************************************************************************)

\* The claim changed, no wallet is connected, or no invoice was obtained.
PrepareFails(a) ==
  /\ pc[a] = "prepare"
  /\ Finish(a)
  /\ UNCHANGED <<network, journal, connected, money>>

\* Variant: the entry's hash and wallet are swapped.
LockSwapped(a) ==
  LET w == connected[dev[a]] IN
  /\ pc[a] = "prepare"
  /\ w # None
  /\ payer' = [payer EXCEPT ![a] = w]
  /\ Put(dev[a], [hash |-> w, wallet |-> a, state |-> "locking"])
  /\ Goto(a, "lock")
  /\ UNCHANGED <<network, connected, dev, seen, entry, outcome, vouched>>

Lock(a) ==
  LET w == connected[dev[a]] IN
  /\ pc[a] = "prepare"
  /\ w # None
  /\ payer' = [payer EXCEPT ![a] = w]
  /\ Put(dev[a], [hash |-> a, wallet |-> w, state |-> "locking"])
  /\ Goto(a, "lock")
  /\ UNCHANGED <<network, connected, dev, seen, entry, outcome, vouched>>

PublishLock(a) ==
  /\ pc[a] = "lock"
  /\ \E v \in NewVersion(seen[a].rank, "approving", a, FALSE) :
       /\ Stored(v)
       /\ seen' = [seen EXCEPT ![a] = v]
  /\ Goto(a, "locked")
  /\ UNCHANGED <<journal, connected, dev, entry, money>>

\* Variant: the lock's publication is only attempted, as a receipt's is.
PublishLockFailsUnnoticed(a) ==
  /\ pc[a] = "lock"
  /\ NotPublished
  /\ Goto(a, "locked")
  /\ UNCHANGED <<journal, connected, dev, seen, entry, money>>

\* The publication rejected: nothing will be paid and the entry is dropped.
PublishLockFails(a) ==
  /\ pc[a] = "lock"
  /\ \/ NotPublished
     \/ \E v \in NewVersion(seen[a].rank, "approving", a, FALSE) : Stored(v)
  /\ Remove(dev[a])
  /\ Finish(a)
  /\ UNCHANGED <<connected, money>>

\* Variant: the entry is left `locking` once the lock is public.
MarkApprovingForgotten(a) ==
  /\ pc[a] = "locked"
  /\ Goto(a, "settle")
  /\ UNCHANGED <<network, journal, connected, dev, seen, entry, money>>

MarkApproving(a) ==
  /\ pc[a] = "locked"
  /\ Put(dev[a], [hash |-> a, wallet |-> payer[a], state |-> "approving"])
  /\ Goto(a, "settle")
  /\ UNCHANGED <<network, connected, dev, seen, entry, money>>

-----------------------------------------------------------------------------
(***************************************************************************)
(* Step 6: after the settle time, did another device race us?              *)
(***************************************************************************)

StandDown(a) ==
  /\ pc[a] = "settle"
  /\ \E v \in Readable : v.hash \notin {None, a}
  /\ Remove(dev[a])
  /\ Finish(a)
  /\ UNCHANGED <<network, connected, money>>

\* Nothing contradicts the lock, or no relay answered.
HoldsLock(a) ==
  /\ pc[a] = "settle"
  /\ Goto(a, "pay")
  /\ UNCHANGED <<network, journal, connected, dev, seen, entry, money>>

-----------------------------------------------------------------------------
(***************************************************************************)
(* Step 7: pay.  The wallet's side of it is external.  A "failed" verdict  *)
(* is taken to mean that no money moved or will move.                      *)
(***************************************************************************)

AskWallet(a) ==
  /\ pc[a] = "pay"
  /\ outcome' = [outcome EXCEPT ![a] = "pending"]
  /\ Goto(a, "asked")
  /\ UNCHANGED <<network, journal, connected, dev, seen, entry, payer, vouched>>

WalletDecides(a) ==
  /\ outcome[a] = "pending"
  /\ \E o \in {"settled", "failed"} : outcome' = [outcome EXCEPT ![a] = o]
  /\ UNCHANGED <<network, journal, connected, locals, payer, vouched>>

PaySucceeds(a) ==
  /\ pc[a] = "asked" /\ outcome[a] = "settled"
  /\ LET e == [hash |-> a, wallet |-> payer[a], state |-> "paid"] IN
       /\ Put(dev[a], e)
       /\ entry' = [entry EXCEPT ![a] = e]
  /\ Goto(a, "receipt")
  /\ UNCHANGED <<network, connected, dev, seen, money>>

\* The wallet refused, or the request provably never reached it.
PayFails(a) ==
  /\ \/ pc[a] = "asked" /\ outcome[a] = "failed"
     \/ pc[a] = "pay"
  /\ Remove(dev[a])
  /\ Goto(a, "unlock")
  /\ UNCHANGED <<network, connected, dev, seen, entry, money>>

\* Variant: a missing answer is taken for a refusal and the entry is dropped.
PayUnknownDropsHold(a) ==
  /\ pc[a] \in {"pay", "asked"}
  /\ Remove(dev[a])
  /\ Finish(a)
  /\ UNCHANGED <<network, connected, money>>

\* No answer in time: the request may or may not have reached the wallet.
PayUnknown(a) ==
  /\ pc[a] \in {"pay", "asked"}
  /\ Finish(a)
  /\ UNCHANGED <<network, journal, connected, money>>

\* finalizePaid, after the journal: the receipt goes out, or is queued, or
\* is never signed.
Receipt(a) ==
  /\ pc[a] = "receipt"
  /\ \/ \E v \in NewVersion(seen[a].rank, "paid", entry[a].hash, FALSE) :
          Stored(v) \/ Queued(dev[a], v)
     \/ NotPublished
  /\ Finish(a)
  /\ UNCHANGED <<journal, connected, money>>

\* release after a failed payment, or in the sweep.
Unlock(a) ==
  /\ pc[a] = "unlock"
  /\ \/ \E v \in NewVersion(seen[a].rank, "open", None, FALSE) :
          Stored(v) \/ Queued(dev[a], v)
     \/ NotPublished
  /\ Finish(a)
  /\ UNCHANGED <<journal, connected, money>>

-----------------------------------------------------------------------------
(***************************************************************************)
(* resolveHeldPayout: the creator's own verdict on a held payout.  When no *)
(* relay answers, the bounty is the one in the editor's listing, which may *)
(* be of any age.                                                          *)
(***************************************************************************)

Dismiss(a) ==
  /\ pc[a] = "verdict"
  /\ Finish(a)
  /\ UNCHANGED <<network, journal, connected, money>>

VerdictIsTrue(answer) ==
  \/ "mistake" \in Features
  \/ answer = "paid" /\ \E h \in Attempt : outcome[h] = "settled"
  \/ answer = "not-paid" /\ \A h \in Attempt : outcome[h] \notin {"pending", "settled"}

SayPaid(a) == \E v \in versions :
  LET e == journal[dev[a]]
      record == IF e = None THEN [hash |-> v.hash, wallet |-> None, state |-> "paid"]
                            ELSE [e EXCEPT !.state = "paid"]
  IN /\ pc[a] = "verdict" /\ VerdictIsTrue("paid")
     /\ Put(dev[a], record)
     /\ vouched' = vouched \cup {record.hash}
     /\ seen' = [seen EXCEPT ![a] = v]
     /\ entry' = [entry EXCEPT ![a] = record]
     /\ Goto(a, "vouch")
     /\ UNCHANGED <<network, connected, dev, payer, outcome>>

SayNotPaid(a) == \E v \in versions :
  /\ pc[a] = "verdict" /\ VerdictIsTrue("not-paid")
  /\ Remove(dev[a])
  /\ seen' = [seen EXCEPT ![a] = v]
  /\ Goto(a, "disown")
  /\ UNCHANGED <<network, connected, dev, entry, money>>

PublishVerdict(a) ==
  /\ pc[a] \in {"vouch", "disown"}
  /\ \/ \E v \in IF pc[a] = "vouch"
                 THEN NewVersion(seen[a].rank, "paid", entry[a].hash, TRUE)
                 ELSE NewVersion(seen[a].rank, "open", None, FALSE) :
          Stored(v)
     \/ NotPublished
  /\ Finish(a)
  /\ UNCHANGED <<journal, connected, money>>

-----------------------------------------------------------------------------
(***************************************************************************)
(* sweepJournal, run when a window activates.  `paid` entries are pruned   *)
(* when old and otherwise skipped; the bounty is read before any other     *)
(* entry is reconciled, whatever its status.                               *)
(***************************************************************************)

Sweep(a, d) ==
  /\ "sweep" \in Features
  /\ Start(a, d)
  /\ Held(d)
  /\ entry' = [entry EXCEPT ![a] = journal[d]]
  /\ Goto(a, "sweep")
  /\ UNCHANGED <<network, journal, connected, seen, money>>

SweepDropsLock(a) ==
  /\ pc[a] = "sweep" /\ entry[a].state = "locking"
  /\ Remove(dev[a])
  /\ Finish(a)
  /\ UNCHANGED <<network, connected, money>>

SweepReconciles(a) == \E v \in Readable :
  /\ pc[a] = "sweep" /\ entry[a].state = "approving"
  /\ seen' = [seen EXCEPT ![a] = v]
  /\ Goto(a, "sweepReconcile")
  /\ UNCHANGED <<network, journal, connected, dev, entry, money>>

SweepFindsNothing(a) ==
  /\ pc[a] = "sweep"
  /\ Finish(a)
  /\ UNCHANGED <<network, journal, connected, money>>

Prune(d) ==
  /\ "prune" \in Features
  /\ journal[d] # None /\ journal[d].state = "paid"
  /\ Remove(d)
  /\ UNCHANGED <<network, connected, locals, money>>

-----------------------------------------------------------------------------
(***************************************************************************)
(* deactivateBounty: refused while this machine holds a payout; the status *)
(* is the listing's, of any age.                                           *)
(***************************************************************************)

Deactivate(a, d) == \E v \in versions :
  /\ "remove" \in Features
  /\ Start(a, d)
  /\ ~Held(d)
  /\ v.status \in {"open", "approving"}
  /\ seen' = [seen EXCEPT ![a] = v]
  /\ Goto(a, "cancel")
  /\ UNCHANGED <<network, journal, connected, entry, money>>

Cancel(a) ==
  /\ pc[a] = "cancel"
  /\ \/ \E v \in NewVersion(seen[a].rank, "cancelled", None, FALSE) : Stored(v)
     \/ NotPublished
  /\ Finish(a)
  /\ UNCHANGED <<journal, connected, money>>

-----------------------------------------------------------------------------
(* The rest of housekeeping, the wallet commands, and reloads. *)

FlushOutbox(d) == \E v \in outbox[d] :
  /\ \E S \in SUBSET Relay : S # {} /\ relay' = StoreAt(S, v)
  /\ outbox' = [outbox EXCEPT ![d] = @ \ {v}]
  /\ UNCHANGED <<versions, journal, connected, locals, money>>

\* The creator's own events, as read, are sent to every relay again.
Rebroadcast == \E v \in Readable, S \in SUBSET Relay :
  /\ relay' = StoreAt(S, v)
  /\ relay' # relay
  /\ UNCHANGED <<versions, outbox, journal, connected, locals, money>>

ConnectWallet(d, w) ==
  /\ connected[d] # w
  /\ connected' = [connected EXCEPT ![d] = w]
  /\ UNCHANGED <<network, journal, locals, money>>

\* The window reloads or the machine stops: running calls are gone; journal,
\* outbox and the connected wallet persist.
Crash(d) ==
  LET Lost == {a \in Running : dev[a] = d}
      Spent(a) == payer[a] # None
  IN /\ Lost # {}
     /\ pc' = [a \in Attempt |-> IF a \notin Lost THEN pc[a]
                                 ELSE IF Spent(a) THEN "done" ELSE "idle"]
     /\ dev' = [a \in Attempt |-> IF a \in Lost /\ ~Spent(a) THEN None ELSE dev[a]]
     /\ seen' = [a \in Attempt |-> IF a \in Lost THEN None ELSE seen[a]]
     /\ entry' = [a \in Attempt |-> IF a \in Lost THEN None ELSE entry[a]]
     /\ UNCHANGED <<network, journal, connected, money>>

ApproveStarts(a, d) ==
  \/ ApproveOpen(a, d) \/ ApproveHeldElsewhere(a, d)
  \/ ApproveHeldHere(a, d) \/ ApproveDropsLock(a, d)

Step(a) ==
  \/ ReconcileSettled(a) \/ ReconcileFailed(a) \/ ReconcileUnknown(a)
  \/ ReconcileForeignWallet(a) \/ Reopen(a)
  \/ PrepareFails(a) \/ Lock(a) \/ PublishLock(a) \/ PublishLockFails(a)
  \/ MarkApproving(a) \/ StandDown(a) \/ HoldsLock(a)
  \/ AskWallet(a) \/ PaySucceeds(a) \/ PayFails(a) \/ PayUnknown(a)
  \/ Receipt(a) \/ Unlock(a)
  \/ Dismiss(a) \/ SayPaid(a) \/ SayNotPaid(a) \/ PublishVerdict(a)
  \/ SweepDropsLock(a) \/ SweepReconciles(a) \/ SweepFindsNothing(a)
  \/ Cancel(a)

Next ==
  \/ \E a \in Attempt, d \in Device :
       ApproveStarts(a, d) \/ Sweep(a, d) \/ Deactivate(a, d)
  \/ \E a \in Attempt : Step(a) \/ WalletDecides(a)
  \/ \E d \in Device : FlushOutbox(d) \/ Prune(d) \/ Crash(d)
  \/ \E d \in Device, w \in Wallet \cup {None} : ConnectWallet(d, w)
  \/ Rebroadcast

Spec == Init /\ [][Next]_vars

\* Fairness: a call that waits is ended by an answer or by a timeout, and a
\* wallet decides what it was asked.  It is the environment, not the code,
\* that brings the rest: the creator re-checks a held payout again and again,
\* and a wallet or a relay asked again and again answers at some time.
ReceiptStored(a) == Receipt(a) /\ \E r \in Relay : relay'[r].status = "paid"

FairSpec ==
  /\ Spec
  /\ \A a \in Attempt :
       /\ WF_vars(Step(a)) /\ WF_vars(WalletDecides(a))
       /\ SF_vars(ReconcileSettled(a)) /\ SF_vars(ReconcileFailed(a))
       /\ SF_vars(ReceiptStored(a))
  /\ \A d \in Device : SF_vars(\E a \in Attempt : ApproveHeldHere(a, d))

-----------------------------------------------------------------------------
(***************************************************************************)
(* Properties.                                                             *)
(***************************************************************************)

\* A hash whose payment has moved money or still may.
Live(h) == outcome[h] \in {"pending", "settled"}

\* "Make `pay this claim` happen at most once" (payout.ts 11-12): however
\* attempts end, crash or are repeated, two of them never both settle.
AtMostOnePayment ==
  \A g, h \in Attempt : outcome[g] = "settled" /\ outcome[h] = "settled" => g = h

\* The journal is written ahead (payout.ts 14-17): as long as a payment has
\* moved money or may, its device's journal holds that very attempt, so that
\* a crash, a reload or a second click finds it.
JournalCoversPayment ==
  \A h \in Attempt : Live(h) =>
    /\ journal[dev[h]] # None
    /\ journal[dev[h]].hash = h
    /\ journal[dev[h]].state # "locking"

\* The journal has moved on since the call read it: the entry the call is
\* settling was written again or removed, or the entry it goes by is not its own.
Overtaken(a) ==
  LET e == journal[dev[a]] IN
    \/ pc[a] \in {"reconcile", "sweep", "sweepReconcile"} /\ e # entry[a]
    \/ pc[a] = "prepare" /\ e # None
    \/ pc[a] \in {"lock", "locked", "settle", "pay", "asked"} /\ (e = None \/ e.hash # a)

\* The journal of d stops naming a payment that has moved money, or may.
LosesHold(d) ==
  /\ Held(d) /\ Live(journal[d].hash)
  /\ journal'[d] = None \/ journal'[d].hash # journal[d].hash

\* An entry held for such a payment leaves the journal only in a call that the
\* journal has overtaken, for removals and writes go by the coordinate (payout.ts
\* 161, 230, 332, 337, 345, 352), or at the creator's word.  A `locking` entry
\* that is still in the journal was never paid.  The one a sweep read before it
\* waited may be a hold by now, and is dropped all the same (444, 452, 161).
HoldIsKept ==
  [][\A d \in Device : LosesHold(d) =>
       \E a \in Attempt :
         /\ dev[a] = d /\ pc'[a] # pc[a]
         /\ Overtaken(a) \/ pc[a] = "verdict"]_journal

\* A wallet is asked only under a lock the network has seen (payout.ts
\* 18-20): some relay stored an `approving` version naming the hash.
AskedUnderLock ==
  \A h \in Attempt : outcome[h] # "none" =>
    \E v \in versions : v.status = "approving" /\ v.hash = h

\* Receipts are true: a `paid` version, on a relay or queued, names a hash
\* that settled or that the creator declared paid.
ReceiptsAreTrue ==
  \A v \in versions : v.status = "paid" =>
    \/ v.hash \in vouched
    \/ v.hash # None /\ outcome[v.hash] = "settled"

\* Once a relay shows the bounty paid, no step of any device makes it show
\* anything else, such as a bounty that can be paid again.
PaidIsFinal ==
  [][\A r \in Relay : relay[r].status = "paid" => relay'[r].status = "paid"]_relay

Holds(d, h, state) ==
  journal[d] # None /\ journal[d].hash = h /\ journal[d].state = state

\* The instance has no attempt, or no version, left to carry on with.
BoundReached ==
  \/ \A a \in Attempt : pc[a] = "done"
  \/ Cardinality(versions) > MaxRank

\* A payment that reached its wallet does not stay held: re-checks with that
\* wallet find out what became of it (payout.ts 21-23).  One that a reload has
\* kept from the wallet does: asked about a hash it has never seen, the wallet
\* cannot say that it failed.
AskedHoldSettles ==
  \A d \in Device, h \in Attempt :
    Holds(d, h, "approving") /\ outcome[h] # "none"
      ~> \/ ~Holds(d, h, "approving")
         \/ connected[d] # payer[h]
         \/ BoundReached

\* A payment that succeeded becomes public: its receipt may be lost to a
\* reload or a signer, but a re-check finds the `paid` entry and sends it,
\* unless the creator removed the bounty in between.
ReceiptComesOut ==
  \A d \in Device, h \in Attempt :
    Holds(d, h, "paid")
      ~> (\E r \in Relay : relay[r].status \in {"paid", "cancelled"}) \/ BoundReached

\* What the payout promises, whatever it does to keep the promise.
Promise == INSTANCE PayOnce
PaysOnce == Promise!Spec
=============================================================================
