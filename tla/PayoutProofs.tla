---------------------------- MODULE PayoutProofs ----------------------------
(***************************************************************************)
(* What holds of the payout for any number of devices, attempts, wallets   *)
(* and relays, any number of attempts in flight, and any clocks: its type  *)
(* invariant, that a wallet is asked only under a public lock, that        *)
(* receipts are true, and that the journal loses the entry of a payment    *)
(* only to a call it has overtaken.  Then what holds of attempts that      *)
(* follow each other on their device: the journal covers every payment,    *)
(* and no device makes two.  Then, of attempts that follow each other      *)
(* everywhere: there is at most one payment, the payout implements         *)
(* PayOnce, and a bounty that is shown paid stays paid.                    *)
(***************************************************************************)
EXTENDS Payout, FiniteSetTheorems, TLAPS

\* Where an attempt carries a journal entry, and a bounty, with it; wherever
\* it stands, it runs on a device.
CarriesEntry == {"reconcile", "sweep", "sweepReconcile", "receipt", "vouch"}
CarriesBounty == {"reconcile", "sweepReconcile", "reopen"}

Carried ==
  \A a \in Attempt :
    /\ pc[a] # "idle" => dev[a] \in Device
    /\ pc[a] \in CarriesEntry => entry[a] \in JournalEntry
    /\ pc[a] \in CarriesBounty => seen[a] \in Version

TypeInv == TypeOK /\ Carried

-----------------------------------------------------------------------------
(* The operators the actions are built from. *)

\* A version signed from a well-formed status and hash is well-formed.
LEMMA NewVersionType ==
  ASSUME NEW base, NEW status \in Status, NEW hash \in Hash, NEW word \in BOOLEAN,
         NEW v \in NewVersion(base, status, hash, word)
  PROVE  v \in Version /\ v.status = status /\ v.hash = hash /\ v.word = word
BY BoundsAssumption DEF NewVersion, Stamp, Version

\* Publishing, queueing or dropping a version keeps the network well-formed.
LEMMA NetworkType ==
  ASSUME TypeOK, NEW v \in Version, NEW d,
         Stored(v) \/ Queued(d, v) \/ NotPublished
  PROVE  /\ relay' \in [Relay -> Version]
         /\ versions' \in SUBSET Version
         /\ outbox' \in [Device -> SUBSET Version]
<1>1. \A S \in SUBSET Relay : StoreAt(S, v) \in [Relay -> Version]
  BY DEF StoreAt, TypeOK
<1>2. CASE Stored(v)  BY <1>1, <1>2 DEF Stored, TypeOK
<1>3. CASE Queued(d, v)  BY <1>1, <1>3 DEF Queued, TypeOK
<1>4. CASE NotPublished  BY <1>4 DEF NotPublished, network, TypeOK
<1> QED BY <1>2, <1>3, <1>4

\* The same of a version that is signed for the occasion.
LEMMA PublishType ==
  ASSUME TypeOK, NEW d, NEW base, NEW status \in Status, NEW hash \in Hash,
         NEW word \in BOOLEAN,
         \/ NotPublished
         \/ \E v \in NewVersion(base, status, hash, word) : Stored(v) \/ Queued(d, v)
  PROVE  /\ relay' \in [Relay -> Version]
         /\ versions' \in SUBSET Version
         /\ outbox' \in [Device -> SUBSET Version]
<1>1. CASE NotPublished  BY <1>1 DEF NotPublished, network, TypeOK
<1>2. CASE \E v \in NewVersion(base, status, hash, word) : Stored(v) \/ Queued(d, v)
  <2>1. PICK v \in NewVersion(base, status, hash, word) : Stored(v) \/ Queued(d, v)
    BY <1>2
  <2>2. v \in Version  BY <2>1, NewVersionType
  <2> QED BY <2>1, <2>2, NetworkType
<1> QED BY <1>1, <1>2

\* Ending a call keeps the attempts' locals well-formed.
LEMMA FinishType ==
  ASSUME TypeInv, NEW a \in Attempt, pc[a] # "idle", Finish(a)
  PROVE  /\ pc' \in [Attempt -> PC]
         /\ dev' \in [Attempt -> Device \cup {None}]
         /\ seen' \in [Attempt -> Version \cup {None}]
         /\ entry' \in [Attempt -> JournalEntry \cup {None}]
         /\ Carried'
<1>1. /\ pc' \in [Attempt -> PC]
      /\ dev' \in [Attempt -> Device \cup {None}]
      /\ seen' \in [Attempt -> Version \cup {None}]
      /\ entry' \in [Attempt -> JournalEntry \cup {None}]
  BY DEF Finish, Goto, TypeInv, TypeOK, PC
<1>2. Carried'
  <2> SUFFICES ASSUME NEW b \in Attempt
               PROVE  /\ pc'[b] # "idle" => dev'[b] \in Device
                      /\ pc'[b] \in CarriesEntry => entry'[b] \in JournalEntry
                      /\ pc'[b] \in CarriesBounty => seen'[b] \in Version
    BY DEF Carried
  <2>1. CASE b = a
    BY <2>1 DEF Finish, Goto, TypeInv, TypeOK, Carried, CarriesEntry, CarriesBounty
  <2>2. CASE b # a
    BY <2>2 DEF Finish, Goto, TypeInv, TypeOK, Carried
  <2> QED BY <2>1, <2>2
<1> QED BY <1>1, <1>2

\* Writing a well-formed entry, or none, keeps the journals well-formed.
LEMMA PutType ==
  ASSUME TypeOK, NEW d, NEW e \in JournalEntry \cup {None}, Put(d, e)
  PROVE  journal' \in [Device -> JournalEntry \cup {None}]
BY DEF Put, TypeOK
-----------------------------------------------------------------------------
(* The type invariant. *)

\* Every step of an attempt keeps the type invariant.
LEMMA StepType ==
  ASSUME TypeInv, NEW a \in Attempt, Step(a)
  PROVE  TypeInv'
<1> USE DEF TypeInv, TypeOK, Carried, CarriesEntry, CarriesBounty, network,
            locals, money, Goto, PC
<1>1. CASE ReconcileSettled(a)
  BY <1>1, PutType DEF ReconcileSettled, JournalEntry, AsksOwnWallet
<1>2. CASE ReconcileFailed(a)
  <2>1. CASE Finish(a)
    BY <1>2, <2>1, FinishType, PutType DEF ReconcileFailed, Remove, AsksOwnWallet
  <2>2. CASE ~Finish(a)
    BY <1>2, <2>2, PutType DEF ReconcileFailed, Remove, AsksOwnWallet
  <2> QED BY <2>1, <2>2
<1>3. CASE ReconcileUnknown(a)
  BY <1>3, FinishType DEF ReconcileUnknown
<1>4. CASE ReconcileForeignWallet(a)
  BY <1>4, FinishType DEF ReconcileForeignWallet
<1>5. CASE Reopen(a)
  <2>1. seen[a] \in Version
    BY <1>5 DEF Reopen
  <2>2. CASE NotPublished /\ seen' = [seen EXCEPT ![a].status = "open", ![a].hash = None]
    BY <1>5, <2>1, <2>2, NetworkType DEF Reopen, Version, Status, Hash, NotPublished
  <2>3. CASE \E v \in NewVersion(seen[a].rank, "open", None, FALSE) :
               (Stored(v) \/ Queued(dev[a], v)) /\ seen' = [seen EXCEPT ![a] = v]
    <3>1. PICK v \in NewVersion(seen[a].rank, "open", None, FALSE) :
               (Stored(v) \/ Queued(dev[a], v)) /\ seen' = [seen EXCEPT ![a] = v]
      BY <2>3
    <3>2. v \in Version  BY <3>1, NewVersionType DEF Status, Hash
    <3>3. /\ relay' \in [Relay -> Version]
          /\ versions' \in SUBSET Version
          /\ outbox' \in [Device -> SUBSET Version]
      BY <3>1, <3>2, NetworkType
    <3> QED BY <1>5, <3>1, <3>2, <3>3 DEF Reopen
  <2> QED BY <1>5, <2>2, <2>3 DEF Reopen
<1>6. CASE PrepareFails(a)
  BY <1>6, FinishType DEF PrepareFails
<1>7. CASE Lock(a)
  BY <1>7, PutType DEF Lock, Hash, JournalEntry
<1>8. CASE PublishLock(a)
  <2>1. PICK v \in NewVersion(seen[a].rank, "approving", a, FALSE) :
               Stored(v) /\ seen' = [seen EXCEPT ![a] = v]
    BY <1>8 DEF PublishLock
  <2>2. v \in Version  BY <2>1, NewVersionType DEF Status, Hash
  <2>3. /\ relay' \in [Relay -> Version]
        /\ versions' \in SUBSET Version
        /\ outbox' \in [Device -> SUBSET Version]
    BY <2>1, <2>2, NetworkType
  <2> QED BY <1>8, <2>1, <2>2, <2>3 DEF PublishLock
<1>9. CASE PublishLockFails(a)
  <2>1. \/ NotPublished
        \/ \E v \in NewVersion(seen[a].rank, "approving", a, FALSE) :
              Stored(v) \/ Queued(dev[a], v)
    BY <1>9 DEF PublishLockFails
  <2>2. /\ relay' \in [Relay -> Version]
        /\ versions' \in SUBSET Version
        /\ outbox' \in [Device -> SUBSET Version]
    BY <1>9, <2>1, PublishType DEF PublishLockFails, Status, Hash
  <2> QED BY <1>9, <2>2, FinishType, PutType DEF PublishLockFails, Remove
<1>10. CASE MarkApproving(a)
  BY <1>10, PutType DEF MarkApproving, Hash, JournalEntry
<1>11. CASE StandDown(a)
  BY <1>11, FinishType, PutType DEF StandDown, Remove
<1>12. CASE HoldsLock(a)
  BY <1>12 DEF HoldsLock
<1>13. CASE AskWallet(a)
  BY <1>13 DEF AskWallet
<1>14. CASE PaySucceeds(a)
  BY <1>14, PutType DEF PaySucceeds, Hash, JournalEntry
<1>15. CASE PayFails(a)
  BY <1>15, PutType DEF PayFails, Remove
<1>16. CASE PayUnknown(a)
  BY <1>16, FinishType DEF PayUnknown
<1>17. CASE Receipt(a)
  <2>1. \/ NotPublished
        \/ \E v \in NewVersion(seen[a].rank, "paid", entry[a].hash, FALSE) :
              Stored(v) \/ Queued(dev[a], v)
    BY <1>17 DEF Receipt
  <2>2. /\ relay' \in [Relay -> Version]
        /\ versions' \in SUBSET Version
        /\ outbox' \in [Device -> SUBSET Version]
    BY <1>17, <2>1, PublishType DEF Receipt, Status, Hash, JournalEntry
  <2> QED BY <1>17, <2>2, FinishType DEF Receipt
<1>18. CASE Unlock(a)
  <2>1. \/ NotPublished
        \/ \E v \in NewVersion(seen[a].rank, "open", None, FALSE) :
              Stored(v) \/ Queued(dev[a], v)
    BY <1>18 DEF Unlock
  <2>2. /\ relay' \in [Relay -> Version]
        /\ versions' \in SUBSET Version
        /\ outbox' \in [Device -> SUBSET Version]
    BY <1>18, <2>1, PublishType DEF Unlock, Status, Hash
  <2> QED BY <1>18, <2>2, FinishType DEF Unlock
<1>19. CASE Dismiss(a)
  BY <1>19, FinishType DEF Dismiss
<1>20. CASE SayPaid(a)
  BY <1>20, PutType DEF SayPaid, JournalEntry, Version
<1>21. CASE SayNotPaid(a)
  BY <1>21, PutType DEF SayNotPaid, Remove
<1>22. CASE PublishVerdict(a)
  <2>1. entry[a].hash \in Hash \/ pc[a] = "disown"
    BY <1>22 DEF PublishVerdict, JournalEntry
  <2>2. /\ relay' \in [Relay -> Version]
        /\ versions' \in SUBSET Version
        /\ outbox' \in [Device -> SUBSET Version]
    <3>1. CASE pc[a] = "vouch"
      <4>1. \/ NotPublished
            \/ \E v \in NewVersion(seen[a].rank, "paid", entry[a].hash, TRUE) :
                  Stored(v) \/ Queued(dev[a], v)
        BY <1>22, <3>1 DEF PublishVerdict
      <4> QED BY <2>1, <3>1, <4>1, PublishType DEF Status
    <3>2. CASE pc[a] = "disown"
      <4>1. \/ NotPublished
            \/ \E v \in NewVersion(seen[a].rank, "open", None, FALSE) :
                  Stored(v) \/ Queued(dev[a], v)
        BY <1>22, <3>2 DEF PublishVerdict
      <4> QED BY <4>1, PublishType DEF Status, Hash
    <3> QED BY <1>22, <3>1, <3>2 DEF PublishVerdict
  <2> QED BY <1>22, <2>2, FinishType DEF PublishVerdict
<1>23. CASE SweepDropsLock(a)
  BY <1>23, FinishType, PutType DEF SweepDropsLock, Remove
<1>24. CASE SweepReconciles(a)
  BY <1>24 DEF SweepReconciles, Readable
<1>25. CASE SweepFindsNothing(a)
  BY <1>25, FinishType DEF SweepFindsNothing
<1>26. CASE Cancel(a)
  <2>1. \/ NotPublished
        \/ \E v \in NewVersion(seen[a].rank, "cancelled", None, FALSE) :
              Stored(v) \/ Queued(dev[a], v)
    BY <1>26 DEF Cancel
  <2>2. /\ relay' \in [Relay -> Version]
        /\ versions' \in SUBSET Version
        /\ outbox' \in [Device -> SUBSET Version]
    BY <1>26, <2>1, PublishType DEF Cancel, Status, Hash
  <2> QED BY <1>26, <2>2, FinishType DEF Cancel
<1> QED
  BY <1>1, <1>2, <1>3, <1>4, <1>5, <1>6, <1>7, <1>8, <1>9, <1>10, <1>11, <1>12,
     <1>13, <1>14, <1>15, <1>16, <1>17, <1>18, <1>19, <1>20, <1>21, <1>22,
     <1>23, <1>24, <1>25, <1>26
  DEF Step

\* So does the start of one.
LEMMA StartType ==
  ASSUME TypeInv, NEW a \in Attempt, NEW d \in Device,
         ApproveStarts(a, d) \/ Sweep(a, d) \/ Deactivate(a, d)
  PROVE  TypeInv'
<1> USE DEF TypeInv, TypeOK, Carried, CarriesEntry, CarriesBounty, network,
            money, Goto, PC, Start
<1>1. CASE ApproveOpen(a, d)
  BY <1>1 DEF ApproveOpen, Reads, Readable
<1>2. CASE ApproveHeldElsewhere(a, d)
  BY <1>2 DEF ApproveHeldElsewhere, Reads, Readable
<1>3. CASE ApproveHeldHere(a, d)
  BY <1>3 DEF ApproveHeldHere, Reads, Readable
<1>4. CASE ApproveDropsLock(a, d)
  <2>1. PICK v \in Readable :
          /\ Start(a, d) /\ Remove(d) /\ Goto(a, "prepare")
          /\ seen' = [seen EXCEPT ![a] = [v EXCEPT !.status = "open", !.hash = None]]
          /\ UNCHANGED <<network, connected, entry, money>>
    BY <1>4 DEF ApproveDropsLock
  <2>2. v \in Version  BY <2>1 DEF Readable
  <2>3. [v EXCEPT !.status = "open", !.hash = None] \in Version
    BY <2>2 DEF Version, Status, Hash
  <2> QED BY <2>1, <2>3, PutType DEF Remove
<1>5. CASE Sweep(a, d)
  BY <1>5 DEF Sweep, Held
<1>6. CASE Deactivate(a, d)
  BY <1>6 DEF Deactivate
<1> QED BY <1>1, <1>2, <1>3, <1>4, <1>5, <1>6 DEF ApproveStarts

\* And so does every step of wallets, relays, housekeeping and reloads.
LEMMA EnvironmentType ==
  ASSUME TypeInv,
         \/ \E a \in Attempt : WalletDecides(a)
         \/ \E d \in Device : FlushOutbox(d) \/ Prune(d) \/ Crash(d)
         \/ \E d \in Device, w \in Wallet \cup {None} : ConnectWallet(d, w)
         \/ Rebroadcast
  PROVE  TypeInv'
<1> USE DEF TypeInv, TypeOK, Carried, CarriesEntry, CarriesBounty, network,
            locals, money
<1>1. ASSUME NEW a \in Attempt, WalletDecides(a) PROVE TypeInv'
  BY <1>1 DEF WalletDecides
<1>2. ASSUME NEW d \in Device, FlushOutbox(d) PROVE TypeInv'
  BY <1>2 DEF FlushOutbox, StoreAt
<1>3. ASSUME NEW d \in Device, Prune(d) PROVE TypeInv'
  BY <1>3, PutType DEF Prune, Remove
<1>4. ASSUME NEW d \in Device, Crash(d) PROVE TypeInv'
  BY <1>4 DEF Crash, Running, PC
<1>5. ASSUME NEW d \in Device, NEW w \in Wallet \cup {None}, ConnectWallet(d, w)
      PROVE  TypeInv'
  BY <1>5 DEF ConnectWallet
<1>6. ASSUME Rebroadcast PROVE TypeInv'
  BY <1>6 DEF Rebroadcast, StoreAt, Readable
<1> QED BY <1>1, <1>2, <1>3, <1>4, <1>5, <1>6

\* Every step whatsoever keeps the type invariant.
LEMMA NextType == TypeInv /\ [Next]_vars => TypeInv'
<1> SUFFICES ASSUME TypeInv, [Next]_vars PROVE TypeInv'
  OBVIOUS
<1>1. ASSUME NEW a \in Attempt, NEW d \in Device,
             ApproveStarts(a, d) \/ Sweep(a, d) \/ Deactivate(a, d)
      PROVE  TypeInv'
  BY <1>1, StartType
<1>2. ASSUME NEW a \in Attempt, Step(a) PROVE TypeInv'
  BY <1>2, StepType
<1>3. CASE UNCHANGED vars
  BY <1>3 DEF vars, TypeInv, TypeOK, Carried
<1> QED BY <1>1, <1>2, <1>3, EnvironmentType DEF Next

\* The payout's state stays well-typed, and an attempt that settles a journal
\* entry, or works from a bounty, has one.
THEOREM TypeCorrect == Spec => []TypeInv
<1>1. Init => TypeInv
  BY DEF Init, FirstVersion, TypeInv, TypeOK, Carried, CarriesEntry, CarriesBounty,
         Version, Status, Hash, PC
<1> QED BY <1>1, NextType, PTL DEF Spec

\* The type invariant of the runs, as TLC checks it.
THEOREM TypesHold == Spec => []TypeOK
<1>1. TypeInv => TypeOK  BY DEF TypeInv
<1> QED BY <1>1, TypeCorrect, PTL
-----------------------------------------------------------------------------
(* Which attempts have not asked a wallet. *)

\* Up to the call of the wallet (payInvoice), an attempt's own hash is unasked; it
\* has minted its invoice when it takes the lock, and was never asked before.
BeforeAsk ==
  {"idle", "reconcile", "sweep", "sweepReconcile", "prepare", "lock", "locked",
   "settle", "pay", "reopen", "verdict", "vouch", "disown", "cancel"}

Unasked ==
  \A a \in Attempt :
    /\ pc[a] \in BeforeAsk => outcome[a] = "none"
    /\ payer[a] = None => outcome[a] = "none"
    /\ pc[a] \in {"lock", "locked", "settle", "pay", "asked"} => payer[a] # None

\* A `locking` entry belongs to an attempt of this device that still stands
\* at the lock, or that a reload ended there.
LockingUnasked ==
  \A d \in Device :
    journal[d] # None /\ journal[d].state = "locking" =>
      LET h == journal[d].hash IN
        /\ h \in Attempt /\ dev[h] = d
        /\ payer[h] # None /\ outcome[h] = "none"
        /\ pc[h] \in {"lock", "locked", "done"}

\* Once past the lock, or asked, an attempt's hash has been announced.
Announced ==
  \A a \in Attempt :
    pc[a] \in {"locked", "settle", "pay", "asked"} \/ outcome[a] # "none" =>
      \E v \in versions : v.status = "approving" /\ v.hash = a

Confirmed(h) == h \in vouched \/ (h \in Attempt /\ outcome[h] = "settled")

EntryIsTrue(e) ==
  IF e.state = "paid" THEN Confirmed(e.hash) ELSE e.hash \in Attempt

\* Everything a receipt is made from is true: the versions there are, the
\* journals, and the entries carried by attempts.
TrueRecords ==
  /\ \A v \in versions : v.status = "paid" => Confirmed(v.hash)
  /\ \A d \in Device : journal[d] # None => EntryIsTrue(journal[d])
  /\ \A a \in Attempt :
       /\ pc[a] \in {"reconcile", "sweep", "sweepReconcile"} => EntryIsTrue(entry[a])
       /\ pc[a] \in {"receipt", "vouch"} => Confirmed(entry[a].hash)

IInv == Unasked /\ LockingUnasked /\ Announced /\ TrueRecords
-----------------------------------------------------------------------------
(* One lemma per conjunct of IInv, one step per action. *)

\* An attempt asks its wallet once, after it has minted its invoice, and a
\* wallet decides only what it was asked.
LEMMA KeepUnasked ==
  ASSUME TypeInv, Unasked, [Next]_vars
  PROVE  Unasked'
<1> USE DEF TypeInv, TypeOK, Carried, Unasked, BeforeAsk, Goto, locals,
            money, PC
<1>1. ASSUME NEW a \in Attempt, ReconcileSettled(a) PROVE Unasked'
  BY <1>1 DEF ReconcileSettled
<1>2. ASSUME NEW a \in Attempt, ReconcileFailed(a) PROVE Unasked'
  BY <1>2 DEF ReconcileFailed, Finish
<1>3. ASSUME NEW a \in Attempt, ReconcileUnknown(a) PROVE Unasked'
  BY <1>3 DEF ReconcileUnknown, Finish
<1>4. ASSUME NEW a \in Attempt, ReconcileForeignWallet(a) PROVE Unasked'
  BY <1>4 DEF ReconcileForeignWallet, Finish
<1>5. ASSUME NEW a \in Attempt, Reopen(a) PROVE Unasked'
  BY <1>5 DEF Reopen
<1>6. ASSUME NEW a \in Attempt, PrepareFails(a) PROVE Unasked'
  BY <1>6 DEF PrepareFails, Finish
<1>7. ASSUME NEW a \in Attempt, Lock(a) PROVE Unasked'
  BY <1>7 DEF Lock
<1>8. ASSUME NEW a \in Attempt, PublishLock(a) PROVE Unasked'
  BY <1>8 DEF PublishLock
<1>9. ASSUME NEW a \in Attempt, PublishLockFails(a) PROVE Unasked'
  BY <1>9 DEF PublishLockFails, Finish
<1>10. ASSUME NEW a \in Attempt, MarkApproving(a) PROVE Unasked'
  BY <1>10 DEF MarkApproving
<1>11. ASSUME NEW a \in Attempt, StandDown(a) PROVE Unasked'
  BY <1>11 DEF StandDown, Finish
<1>12. ASSUME NEW a \in Attempt, HoldsLock(a) PROVE Unasked'
  BY <1>12 DEF HoldsLock
<1>13. ASSUME NEW a \in Attempt, AskWallet(a) PROVE Unasked'
  BY <1>13 DEF AskWallet
<1>14. ASSUME NEW a \in Attempt, PaySucceeds(a) PROVE Unasked'
  BY <1>14 DEF PaySucceeds
<1>15. ASSUME NEW a \in Attempt, PayFails(a) PROVE Unasked'
  BY <1>15 DEF PayFails
<1>16. ASSUME NEW a \in Attempt, PayUnknown(a) PROVE Unasked'
  BY <1>16 DEF PayUnknown, Finish
<1>17. ASSUME NEW a \in Attempt, Receipt(a) PROVE Unasked'
  BY <1>17 DEF Receipt, Finish
<1>18. ASSUME NEW a \in Attempt, Unlock(a) PROVE Unasked'
  BY <1>18 DEF Unlock, Finish
<1>19. ASSUME NEW a \in Attempt, Dismiss(a) PROVE Unasked'
  BY <1>19 DEF Dismiss, Finish
<1>20. ASSUME NEW a \in Attempt, SayPaid(a) PROVE Unasked'
  BY <1>20 DEF SayPaid
<1>21. ASSUME NEW a \in Attempt, SayNotPaid(a) PROVE Unasked'
  BY <1>21 DEF SayNotPaid
<1>22. ASSUME NEW a \in Attempt, PublishVerdict(a) PROVE Unasked'
  BY <1>22 DEF PublishVerdict, Finish
<1>23. ASSUME NEW a \in Attempt, SweepDropsLock(a) PROVE Unasked'
  BY <1>23 DEF SweepDropsLock, Finish
<1>24. ASSUME NEW a \in Attempt, SweepReconciles(a) PROVE Unasked'
  BY <1>24 DEF SweepReconciles
<1>25. ASSUME NEW a \in Attempt, SweepFindsNothing(a) PROVE Unasked'
  BY <1>25 DEF SweepFindsNothing, Finish
<1>26. ASSUME NEW a \in Attempt, Cancel(a) PROVE Unasked'
  BY <1>26 DEF Cancel, Finish
<1>27. ASSUME NEW a \in Attempt, NEW d \in Device, ApproveOpen(a, d)
      PROVE  Unasked'
  BY <1>27 DEF ApproveOpen, Start, Reads
<1>28. ASSUME NEW a \in Attempt, NEW d \in Device, ApproveHeldElsewhere(a, d)
      PROVE  Unasked'
  BY <1>28 DEF ApproveHeldElsewhere, Start, Reads
<1>29. ASSUME NEW a \in Attempt, NEW d \in Device, ApproveHeldHere(a, d)
      PROVE  Unasked'
  BY <1>29 DEF ApproveHeldHere, Start, Reads
<1>30. ASSUME NEW a \in Attempt, NEW d \in Device, ApproveDropsLock(a, d)
      PROVE  Unasked'
  BY <1>30 DEF ApproveDropsLock, Start
<1>31. ASSUME NEW a \in Attempt, NEW d \in Device, Sweep(a, d)
      PROVE  Unasked'
  BY <1>31 DEF Sweep, Start
<1>32. ASSUME NEW a \in Attempt, NEW d \in Device, Deactivate(a, d)
      PROVE  Unasked'
  BY <1>32 DEF Deactivate, Start
<1>33. ASSUME NEW d \in Device, FlushOutbox(d) PROVE Unasked'
  BY <1>33 DEF FlushOutbox
<1>34. ASSUME NEW d \in Device, Prune(d) PROVE Unasked'
  BY <1>34 DEF Prune
<1>35. ASSUME NEW d \in Device, Crash(d) PROVE Unasked'
  BY <1>35 DEF Crash, Running
<1>36. ASSUME NEW d \in Device, NEW w \in Wallet \cup {None}, ConnectWallet(d, w)
      PROVE  Unasked'
  BY <1>36 DEF ConnectWallet
<1>37. ASSUME Rebroadcast PROVE Unasked'
  BY <1>37 DEF Rebroadcast
<1>38. ASSUME NEW a \in Attempt, WalletDecides(a) PROVE Unasked'
  BY <1>38 DEF WalletDecides
<1>39. CASE UNCHANGED vars
  BY <1>39 DEF vars
<1> QED
  BY <1>1, <1>2, <1>3, <1>4, <1>5, <1>6, <1>7, <1>8, <1>9, <1>10, <1>11,
     <1>12, <1>13, <1>14, <1>15, <1>16, <1>17, <1>18, <1>19, <1>20, <1>21,
     <1>22, <1>23, <1>24, <1>25, <1>26, <1>27, <1>28, <1>29, <1>30, <1>31,
     <1>32, <1>33, <1>34, <1>35, <1>36, <1>37, <1>38, <1>39
  DEF Next, Step, ApproveStarts

\* A lock that is dropped, replaced or marked leaves no other `locking` entry
\* with its hash behind: only its own device ever writes one.
LEMMA KeepLockingUnasked ==
  ASSUME TypeInv, Unasked, LockingUnasked, [Next]_vars
  PROVE  LockingUnasked'
<1> USE DEF TypeInv, TypeOK, Carried, Unasked, LockingUnasked, BeforeAsk,
            Goto, locals, money, Put, Remove, JournalEntry, PC
<1>1. ASSUME NEW a \in Attempt, ReconcileSettled(a) PROVE LockingUnasked'
  BY <1>1 DEF ReconcileSettled
<1>2. ASSUME NEW a \in Attempt, ReconcileFailed(a) PROVE LockingUnasked'
  BY <1>2 DEF ReconcileFailed, Finish
<1>3. ASSUME NEW a \in Attempt, ReconcileUnknown(a) PROVE LockingUnasked'
  BY <1>3 DEF ReconcileUnknown, Finish
<1>4. ASSUME NEW a \in Attempt, ReconcileForeignWallet(a) PROVE LockingUnasked'
  BY <1>4 DEF ReconcileForeignWallet, Finish
<1>5. ASSUME NEW a \in Attempt, Reopen(a) PROVE LockingUnasked'
  BY <1>5 DEF Reopen
<1>6. ASSUME NEW a \in Attempt, PrepareFails(a) PROVE LockingUnasked'
  BY <1>6 DEF PrepareFails, Finish
<1>7. ASSUME NEW a \in Attempt, Lock(a) PROVE LockingUnasked'
  BY <1>7 DEF Lock
<1>8. ASSUME NEW a \in Attempt, PublishLock(a) PROVE LockingUnasked'
  BY <1>8 DEF PublishLock
<1>9. ASSUME NEW a \in Attempt, PublishLockFails(a) PROVE LockingUnasked'
  BY <1>9 DEF PublishLockFails, Finish
<1>10. ASSUME NEW a \in Attempt, MarkApproving(a) PROVE LockingUnasked'
  BY <1>10 DEF MarkApproving
<1>11. ASSUME NEW a \in Attempt, StandDown(a) PROVE LockingUnasked'
  BY <1>11 DEF StandDown, Finish
<1>12. ASSUME NEW a \in Attempt, HoldsLock(a) PROVE LockingUnasked'
  BY <1>12 DEF HoldsLock
<1>13. ASSUME NEW a \in Attempt, AskWallet(a) PROVE LockingUnasked'
  BY <1>13 DEF AskWallet
<1>14. ASSUME NEW a \in Attempt, PaySucceeds(a) PROVE LockingUnasked'
  BY <1>14 DEF PaySucceeds
<1>15. ASSUME NEW a \in Attempt, PayFails(a) PROVE LockingUnasked'
  BY <1>15 DEF PayFails
<1>16. ASSUME NEW a \in Attempt, PayUnknown(a) PROVE LockingUnasked'
  BY <1>16 DEF PayUnknown, Finish
<1>17. ASSUME NEW a \in Attempt, Receipt(a) PROVE LockingUnasked'
  BY <1>17 DEF Receipt, Finish
<1>18. ASSUME NEW a \in Attempt, Unlock(a) PROVE LockingUnasked'
  BY <1>18 DEF Unlock, Finish
<1>19. ASSUME NEW a \in Attempt, Dismiss(a) PROVE LockingUnasked'
  BY <1>19 DEF Dismiss, Finish
<1>20. ASSUME NEW a \in Attempt, SayPaid(a) PROVE LockingUnasked'
  BY <1>20 DEF SayPaid
<1>21. ASSUME NEW a \in Attempt, SayNotPaid(a) PROVE LockingUnasked'
  BY <1>21 DEF SayNotPaid
<1>22. ASSUME NEW a \in Attempt, PublishVerdict(a) PROVE LockingUnasked'
  BY <1>22 DEF PublishVerdict, Finish
<1>23. ASSUME NEW a \in Attempt, SweepDropsLock(a) PROVE LockingUnasked'
  BY <1>23 DEF SweepDropsLock, Finish
<1>24. ASSUME NEW a \in Attempt, SweepReconciles(a) PROVE LockingUnasked'
  BY <1>24 DEF SweepReconciles
<1>25. ASSUME NEW a \in Attempt, SweepFindsNothing(a) PROVE LockingUnasked'
  BY <1>25 DEF SweepFindsNothing, Finish
<1>26. ASSUME NEW a \in Attempt, Cancel(a) PROVE LockingUnasked'
  BY <1>26 DEF Cancel, Finish
<1>27. ASSUME NEW a \in Attempt, NEW d \in Device, ApproveOpen(a, d)
      PROVE  LockingUnasked'
  BY <1>27 DEF ApproveOpen, Start, Reads
<1>28. ASSUME NEW a \in Attempt, NEW d \in Device, ApproveHeldElsewhere(a, d)
      PROVE  LockingUnasked'
  BY <1>28 DEF ApproveHeldElsewhere, Start, Reads
<1>29. ASSUME NEW a \in Attempt, NEW d \in Device, ApproveHeldHere(a, d)
      PROVE  LockingUnasked'
  BY <1>29 DEF ApproveHeldHere, Start, Reads
<1>30. ASSUME NEW a \in Attempt, NEW d \in Device, ApproveDropsLock(a, d)
      PROVE  LockingUnasked'
  BY <1>30 DEF ApproveDropsLock, Start
<1>31. ASSUME NEW a \in Attempt, NEW d \in Device, Sweep(a, d)
      PROVE  LockingUnasked'
  BY <1>31 DEF Sweep, Start
<1>32. ASSUME NEW a \in Attempt, NEW d \in Device, Deactivate(a, d)
      PROVE  LockingUnasked'
  BY <1>32 DEF Deactivate, Start
<1>33. ASSUME NEW d \in Device, FlushOutbox(d) PROVE LockingUnasked'
  BY <1>33 DEF FlushOutbox
<1>34. ASSUME NEW d \in Device, Prune(d) PROVE LockingUnasked'
  BY <1>34 DEF Prune
<1>35. ASSUME NEW d \in Device, Crash(d) PROVE LockingUnasked'
  BY <1>35 DEF Crash, Running
<1>36. ASSUME NEW d \in Device, NEW w \in Wallet \cup {None}, ConnectWallet(d, w)
      PROVE  LockingUnasked'
  BY <1>36 DEF ConnectWallet
<1>37. ASSUME Rebroadcast PROVE LockingUnasked'
  BY <1>37 DEF Rebroadcast
<1>38. ASSUME NEW a \in Attempt, WalletDecides(a) PROVE LockingUnasked'
  BY <1>38 DEF WalletDecides
<1>39. CASE UNCHANGED vars
  BY <1>39 DEF vars
<1> QED
  BY <1>1, <1>2, <1>3, <1>4, <1>5, <1>6, <1>7, <1>8, <1>9, <1>10, <1>11,
     <1>12, <1>13, <1>14, <1>15, <1>16, <1>17, <1>18, <1>19, <1>20, <1>21,
     <1>22, <1>23, <1>24, <1>25, <1>26, <1>27, <1>28, <1>29, <1>30, <1>31,
     <1>32, <1>33, <1>34, <1>35, <1>36, <1>37, <1>38, <1>39
  DEF Next, Step, ApproveStarts

\* The wallet is reached through `locked`, and no version is ever unsaid.
LEMMA KeepAnnounced ==
  ASSUME TypeInv, Unasked, Announced, [Next]_vars
  PROVE  Announced'
<1> USE DEF TypeInv, Unasked, BeforeAsk, TypeOK, Announced, Goto, locals,
            money, network, Stored, Queued, NotPublished, NewVersion, PC
<1>1. ASSUME NEW a \in Attempt, ReconcileSettled(a) PROVE Announced'
  BY <1>1 DEF ReconcileSettled
<1>2. ASSUME NEW a \in Attempt, ReconcileFailed(a) PROVE Announced'
  BY <1>2 DEF ReconcileFailed, Finish
<1>3. ASSUME NEW a \in Attempt, ReconcileUnknown(a) PROVE Announced'
  BY <1>3 DEF ReconcileUnknown, Finish
<1>4. ASSUME NEW a \in Attempt, ReconcileForeignWallet(a) PROVE Announced'
  BY <1>4 DEF ReconcileForeignWallet, Finish
<1>5. ASSUME NEW a \in Attempt, Reopen(a) PROVE Announced'
  BY <1>5 DEF Reopen
<1>6. ASSUME NEW a \in Attempt, PrepareFails(a) PROVE Announced'
  BY <1>6 DEF PrepareFails, Finish
<1>7. ASSUME NEW a \in Attempt, Lock(a) PROVE Announced'
  BY <1>7 DEF Lock
<1>8. ASSUME NEW a \in Attempt, PublishLock(a) PROVE Announced'
  BY <1>8 DEF PublishLock
<1>9. ASSUME NEW a \in Attempt, PublishLockFails(a) PROVE Announced'
  BY <1>9 DEF PublishLockFails, Finish
<1>10. ASSUME NEW a \in Attempt, MarkApproving(a) PROVE Announced'
  BY <1>10 DEF MarkApproving
<1>11. ASSUME NEW a \in Attempt, StandDown(a) PROVE Announced'
  BY <1>11 DEF StandDown, Finish
<1>12. ASSUME NEW a \in Attempt, HoldsLock(a) PROVE Announced'
  BY <1>12 DEF HoldsLock
<1>13. ASSUME NEW a \in Attempt, AskWallet(a) PROVE Announced'
  BY <1>13 DEF AskWallet
<1>14. ASSUME NEW a \in Attempt, PaySucceeds(a) PROVE Announced'
  BY <1>14 DEF PaySucceeds
<1>15. ASSUME NEW a \in Attempt, PayFails(a) PROVE Announced'
  BY <1>15 DEF PayFails
<1>16. ASSUME NEW a \in Attempt, PayUnknown(a) PROVE Announced'
  BY <1>16 DEF PayUnknown, Finish
<1>17. ASSUME NEW a \in Attempt, Receipt(a) PROVE Announced'
  BY <1>17 DEF Receipt, Finish
<1>18. ASSUME NEW a \in Attempt, Unlock(a) PROVE Announced'
  BY <1>18 DEF Unlock, Finish
<1>19. ASSUME NEW a \in Attempt, Dismiss(a) PROVE Announced'
  BY <1>19 DEF Dismiss, Finish
<1>20. ASSUME NEW a \in Attempt, SayPaid(a) PROVE Announced'
  BY <1>20 DEF SayPaid
<1>21. ASSUME NEW a \in Attempt, SayNotPaid(a) PROVE Announced'
  BY <1>21 DEF SayNotPaid
<1>22. ASSUME NEW a \in Attempt, PublishVerdict(a) PROVE Announced'
  BY <1>22 DEF PublishVerdict, Finish
<1>23. ASSUME NEW a \in Attempt, SweepDropsLock(a) PROVE Announced'
  BY <1>23 DEF SweepDropsLock, Finish
<1>24. ASSUME NEW a \in Attempt, SweepReconciles(a) PROVE Announced'
  BY <1>24 DEF SweepReconciles
<1>25. ASSUME NEW a \in Attempt, SweepFindsNothing(a) PROVE Announced'
  BY <1>25 DEF SweepFindsNothing, Finish
<1>26. ASSUME NEW a \in Attempt, Cancel(a) PROVE Announced'
  BY <1>26 DEF Cancel, Finish
<1>27. ASSUME NEW a \in Attempt, NEW d \in Device, ApproveOpen(a, d)
      PROVE  Announced'
  BY <1>27 DEF ApproveOpen, Start, Reads
<1>28. ASSUME NEW a \in Attempt, NEW d \in Device, ApproveHeldElsewhere(a, d)
      PROVE  Announced'
  BY <1>28 DEF ApproveHeldElsewhere, Start, Reads
<1>29. ASSUME NEW a \in Attempt, NEW d \in Device, ApproveHeldHere(a, d)
      PROVE  Announced'
  BY <1>29 DEF ApproveHeldHere, Start, Reads
<1>30. ASSUME NEW a \in Attempt, NEW d \in Device, ApproveDropsLock(a, d)
      PROVE  Announced'
  BY <1>30 DEF ApproveDropsLock, Start
<1>31. ASSUME NEW a \in Attempt, NEW d \in Device, Sweep(a, d)
      PROVE  Announced'
  BY <1>31 DEF Sweep, Start
<1>32. ASSUME NEW a \in Attempt, NEW d \in Device, Deactivate(a, d)
      PROVE  Announced'
  BY <1>32 DEF Deactivate, Start
<1>33. ASSUME NEW d \in Device, FlushOutbox(d) PROVE Announced'
  BY <1>33 DEF FlushOutbox
<1>34. ASSUME NEW d \in Device, Prune(d) PROVE Announced'
  BY <1>34 DEF Prune
<1>35. ASSUME NEW d \in Device, Crash(d) PROVE Announced'
  BY <1>35 DEF Crash, Running
<1>36. ASSUME NEW d \in Device, NEW w \in Wallet \cup {None}, ConnectWallet(d, w)
      PROVE  Announced'
  BY <1>36 DEF ConnectWallet
<1>37. ASSUME Rebroadcast PROVE Announced'
  BY <1>37 DEF Rebroadcast
<1>38. ASSUME NEW a \in Attempt, WalletDecides(a) PROVE Announced'
  BY <1>38 DEF WalletDecides
<1>39. CASE UNCHANGED vars
  BY <1>39 DEF vars
<1> QED
  BY <1>1, <1>2, <1>3, <1>4, <1>5, <1>6, <1>7, <1>8, <1>9, <1>10, <1>11,
     <1>12, <1>13, <1>14, <1>15, <1>16, <1>17, <1>18, <1>19, <1>20, <1>21,
     <1>22, <1>23, <1>24, <1>25, <1>26, <1>27, <1>28, <1>29, <1>30, <1>31,
     <1>32, <1>33, <1>34, <1>35, <1>36, <1>37, <1>38, <1>39
  DEF Next, Step, ApproveStarts

\* A `paid` entry is written when the wallet says so, or the creator does, and
\* every receipt is made from a `paid` entry.
LEMMA KeepTrueRecords ==
  ASSUME TypeInv, Unasked, TrueRecords, [Next]_vars
  PROVE  TrueRecords'
<1> USE DEF TypeInv, TypeOK, Carried, CarriesEntry, BeforeAsk, Unasked,
            TrueRecords, EntryIsTrue, Confirmed, Goto, locals, money,
            network, Stored, Queued, NotPublished, NewVersion, Put, Remove,
            JournalEntry, Hash, Version, PC
<1>1. ASSUME NEW a \in Attempt, ReconcileSettled(a) PROVE TrueRecords'
  BY <1>1 DEF ReconcileSettled, AsksOwnWallet, LookupAnswers
<1>2. ASSUME NEW a \in Attempt, ReconcileFailed(a) PROVE TrueRecords'
  BY <1>2 DEF ReconcileFailed, Finish, AsksOwnWallet, LookupAnswers
<1>3. ASSUME NEW a \in Attempt, ReconcileUnknown(a) PROVE TrueRecords'
  BY <1>3 DEF ReconcileUnknown, Finish
<1>4. ASSUME NEW a \in Attempt, ReconcileForeignWallet(a) PROVE TrueRecords'
  BY <1>4 DEF ReconcileForeignWallet, Finish
<1>5. ASSUME NEW a \in Attempt, Reopen(a) PROVE TrueRecords'
  BY <1>5 DEF Reopen
<1>6. ASSUME NEW a \in Attempt, PrepareFails(a) PROVE TrueRecords'
  BY <1>6 DEF PrepareFails, Finish
<1>7. ASSUME NEW a \in Attempt, Lock(a) PROVE TrueRecords'
  BY <1>7 DEF Lock
<1>8. ASSUME NEW a \in Attempt, PublishLock(a) PROVE TrueRecords'
  BY <1>8 DEF PublishLock
<1>9. ASSUME NEW a \in Attempt, PublishLockFails(a) PROVE TrueRecords'
  BY <1>9 DEF PublishLockFails, Finish
<1>10. ASSUME NEW a \in Attempt, MarkApproving(a) PROVE TrueRecords'
  BY <1>10 DEF MarkApproving
<1>11. ASSUME NEW a \in Attempt, StandDown(a) PROVE TrueRecords'
  BY <1>11 DEF StandDown, Finish
<1>12. ASSUME NEW a \in Attempt, HoldsLock(a) PROVE TrueRecords'
  BY <1>12 DEF HoldsLock
<1>13. ASSUME NEW a \in Attempt, AskWallet(a) PROVE TrueRecords'
  BY <1>13 DEF AskWallet
<1>14. ASSUME NEW a \in Attempt, PaySucceeds(a) PROVE TrueRecords'
  BY <1>14 DEF PaySucceeds
<1>15. ASSUME NEW a \in Attempt, PayFails(a) PROVE TrueRecords'
  BY <1>15 DEF PayFails
<1>16. ASSUME NEW a \in Attempt, PayUnknown(a) PROVE TrueRecords'
  BY <1>16 DEF PayUnknown, Finish
<1>17. ASSUME NEW a \in Attempt, Receipt(a) PROVE TrueRecords'
  BY <1>17 DEF Receipt, Finish
<1>18. ASSUME NEW a \in Attempt, Unlock(a) PROVE TrueRecords'
  BY <1>18 DEF Unlock, Finish
<1>19. ASSUME NEW a \in Attempt, Dismiss(a) PROVE TrueRecords'
  BY <1>19 DEF Dismiss, Finish
<1>20. ASSUME NEW a \in Attempt, SayPaid(a) PROVE TrueRecords'
  BY <1>20 DEF SayPaid
<1>21. ASSUME NEW a \in Attempt, SayNotPaid(a) PROVE TrueRecords'
  BY <1>21 DEF SayNotPaid
<1>22. ASSUME NEW a \in Attempt, PublishVerdict(a) PROVE TrueRecords'
  BY <1>22 DEF PublishVerdict, Finish
<1>23. ASSUME NEW a \in Attempt, SweepDropsLock(a) PROVE TrueRecords'
  BY <1>23 DEF SweepDropsLock, Finish
<1>24. ASSUME NEW a \in Attempt, SweepReconciles(a) PROVE TrueRecords'
  BY <1>24 DEF SweepReconciles
<1>25. ASSUME NEW a \in Attempt, SweepFindsNothing(a) PROVE TrueRecords'
  BY <1>25 DEF SweepFindsNothing, Finish
<1>26. ASSUME NEW a \in Attempt, Cancel(a) PROVE TrueRecords'
  BY <1>26 DEF Cancel, Finish
<1>27. ASSUME NEW a \in Attempt, NEW d \in Device, ApproveOpen(a, d)
      PROVE  TrueRecords'
  BY <1>27 DEF ApproveOpen, Start, Reads
<1>28. ASSUME NEW a \in Attempt, NEW d \in Device, ApproveHeldElsewhere(a, d)
      PROVE  TrueRecords'
  BY <1>28 DEF ApproveHeldElsewhere, Start, Reads
<1>29. ASSUME NEW a \in Attempt, NEW d \in Device, ApproveHeldHere(a, d)
      PROVE  TrueRecords'
  BY <1>29 DEF ApproveHeldHere, Start, Reads
<1>30. ASSUME NEW a \in Attempt, NEW d \in Device, ApproveDropsLock(a, d)
      PROVE  TrueRecords'
  BY <1>30 DEF ApproveDropsLock, Start
<1>31. ASSUME NEW a \in Attempt, NEW d \in Device, Sweep(a, d)
      PROVE  TrueRecords'
  BY <1>31 DEF Sweep, Start, Held
<1>32. ASSUME NEW a \in Attempt, NEW d \in Device, Deactivate(a, d)
      PROVE  TrueRecords'
  BY <1>32 DEF Deactivate, Start, Held
<1>33. ASSUME NEW d \in Device, FlushOutbox(d) PROVE TrueRecords'
  BY <1>33 DEF FlushOutbox
<1>34. ASSUME NEW d \in Device, Prune(d) PROVE TrueRecords'
  BY <1>34 DEF Prune
<1>35. ASSUME NEW d \in Device, Crash(d) PROVE TrueRecords'
  BY <1>35 DEF Crash, Running
<1>36. ASSUME NEW d \in Device, NEW w \in Wallet \cup {None}, ConnectWallet(d, w)
      PROVE  TrueRecords'
  BY <1>36 DEF ConnectWallet
<1>37. ASSUME Rebroadcast PROVE TrueRecords'
  BY <1>37 DEF Rebroadcast
<1>38. ASSUME NEW a \in Attempt, WalletDecides(a) PROVE TrueRecords'
  BY <1>38 DEF WalletDecides
<1>39. CASE UNCHANGED vars
  BY <1>39 DEF vars
<1> QED
  BY <1>1, <1>2, <1>3, <1>4, <1>5, <1>6, <1>7, <1>8, <1>9, <1>10, <1>11,
     <1>12, <1>13, <1>14, <1>15, <1>16, <1>17, <1>18, <1>19, <1>20, <1>21,
     <1>22, <1>23, <1>24, <1>25, <1>26, <1>27, <1>28, <1>29, <1>30, <1>31,
     <1>32, <1>33, <1>34, <1>35, <1>36, <1>37, <1>38, <1>39
  DEF Next, Step, ApproveStarts

-----------------------------------------------------------------------------
(* The theorems. *)

SafeInv == TypeInv /\ IInv

\* The initial states satisfy the invariant.
LEMMA InitSafe == Init => SafeInv
  BY DEF Init, FirstVersion, SafeInv, TypeInv, TypeOK, Carried, CarriesEntry,
         CarriesBounty, Version, Status, Hash, PC, IInv, Unasked, LockingUnasked,
         Announced, TrueRecords

\* Every step preserves it.
LEMMA NextSafe == SafeInv /\ [Next]_vars => SafeInv'
  BY NextType, KeepUnasked, KeepLockingUnasked, KeepAnnounced, KeepTrueRecords
  DEF SafeInv, IInv

\* The inductive invariant, from the lemmas above.
THEOREM SafeCorrect == Spec => []SafeInv
  BY InitSafe, NextSafe, PTL DEF Spec

\* No wallet is asked to pay a hash no relay has ever stored a lock for
\* (payout.ts 18-20), however the publication of the lock went.
THEOREM LocksComeFirst == Spec => []AskedUnderLock
<1>1. SafeInv => AskedUnderLock
  BY DEF SafeInv, IInv, Announced, AskedUnderLock
<1> QED BY <1>1, SafeCorrect, PTL

\* Every receipt that any relay stored or any outbox holds is for a payment
\* that settled, or one the creator vouched for.
THEOREM ReceiptsHold == Spec => []ReceiptsAreTrue
<1>1. SafeInv => ReceiptsAreTrue
  BY NoneAssumption DEF SafeInv, IInv, TrueRecords, Confirmed, ReceiptsAreTrue
<1> QED BY <1>1, SafeCorrect, PTL

-----------------------------------------------------------------------------
(***************************************************************************)
(* Attempts that follow each other on their device, with reloads at every  *)
(* step.  The run payout_double shows the need for it.  Devices may still  *)
(* run attempts at the same moment; MaxInFlight = 1 is the case where they *)
(* take turns too.                                                         *)
(***************************************************************************)

OnePerDevice == \A a, b \in Running : dev[a] = dev[b] => a = b

OneRuns == \A a, b \in Running : a = b

\* An attempt that has yet to mint its invoice has no wallet.
BeforeLock ==
  {"idle", "reconcile", "sweep", "sweepReconcile", "prepare", "reopen",
   "verdict", "vouch", "disown", "cancel"}

Minted == \A a \in Attempt : pc[a] \in BeforeLock => payer[a] = None

\* A payout that is held names the wallet its invoice was minted for.
OwnWallet ==
  \A d \in Device :
    journal[d] # None /\ journal[d].state # "paid" =>
      /\ journal[d].hash \in Attempt
      /\ journal[d].wallet = payer[journal[d].hash]
      /\ journal[d].wallet # None

\* The entry being settled is still the one in the journal: nothing replaced it
\* while the relays or the wallet were being asked.
Settling ==
  \A a \in Attempt :
    pc[a] \in {"reconcile", "sweep", "sweepReconcile"} =>
      /\ entry[a] = journal[dev[a]]
      /\ IF pc[a] = "sweep" THEN entry[a].state # "paid"
                            ELSE entry[a].state = "approving"

Turns == Minted /\ OwnWallet /\ Settling

TurnsInv == SafeInv /\ Turns

\* With one attempt allowed, an attempt starts only when none runs.
LEMMA NobodyRuns ==
  ASSUME MaxInFlight = 1, OneRuns, Cardinality(Running) < MaxInFlight
  PROVE  Running = {}
<1> SUFFICES ASSUME NEW a \in Running PROVE FALSE
  OBVIOUS
<1>1. Running = {a}  BY DEF OneRuns
<1>2. Cardinality(Running) = 1  BY <1>1, FS_Singleton
<1> QED BY <1>2

\* A call starts when none runs, and goes on until it ends.
LEMMA KeepOneRuns ==
  ASSUME MaxInFlight = 1, TypeInv, OneRuns, [Next]_vars
  PROVE  OneRuns'
<1> USE DEF TypeInv, TypeOK, Running, Goto, locals, PC
<1>1. ASSUME NEW a \in Attempt, NEW d \in Device, Start(a, d)
      PROVE  \A b \in Attempt : pc[b] \in {"idle", "done"}
  BY <1>1, NobodyRuns DEF Start
<1>2. ASSUME NEW a \in Attempt, NEW d \in Device,
             ApproveStarts(a, d) \/ Sweep(a, d) \/ Deactivate(a, d)
      PROVE  OneRuns'
  <2>1. Start(a, d) /\ \E label : Goto(a, label)
    BY <1>2 DEF ApproveStarts, ApproveOpen, ApproveHeldElsewhere, ApproveHeldHere,
            ApproveDropsLock, Sweep, Deactivate
  <2> QED BY <1>1, <2>1 DEF OneRuns
<1>3. ASSUME NEW a \in Attempt, Step(a)
      PROVE  a \in Running /\ \E label : Goto(a, label)
  BY <1>3
  DEF Step, ReconcileSettled, ReconcileFailed, ReconcileUnknown,
      ReconcileForeignWallet, Reopen, PrepareFails, Lock, PublishLock,
      PublishLockFails, MarkApproving, StandDown, HoldsLock, AskWallet, PaySucceeds,
      PayFails, PayUnknown, Receipt, Unlock, Dismiss, SayPaid, SayNotPaid,
      PublishVerdict, SweepDropsLock, SweepReconciles, SweepFindsNothing, Cancel,
      Finish, AsksOwnWallet
<1>4. ASSUME NEW a \in Attempt, Step(a) PROVE OneRuns'
  BY <1>3, <1>4 DEF OneRuns
<1>5. ASSUME NEW a \in Attempt, WalletDecides(a) PROVE OneRuns'
  BY <1>5 DEF WalletDecides, OneRuns
<1>6. ASSUME NEW d \in Device, FlushOutbox(d) \/ Prune(d) PROVE OneRuns'
  BY <1>6 DEF FlushOutbox, Prune, OneRuns
<1>7. ASSUME NEW d \in Device, Crash(d) PROVE OneRuns'
  BY <1>7 DEF Crash, OneRuns
<1>8. ASSUME NEW d \in Device, NEW w \in Wallet \cup {None}, ConnectWallet(d, w)
      PROVE  OneRuns'
  BY <1>8 DEF ConnectWallet, OneRuns
<1>9. CASE Rebroadcast \/ UNCHANGED vars
  BY <1>9 DEF Rebroadcast, vars, OneRuns
<1> QED BY <1>2, <1>4, <1>5, <1>6, <1>7, <1>8, <1>9 DEF Next

\* The wallet is fixed when the lock is taken, and only then.
LEMMA KeepMinted ==
  ASSUME TypeInv, Unasked, Minted, [Next]_vars
  PROVE  Minted'
<1> USE DEF TypeInv, TypeOK, Unasked, Minted, BeforeLock, Goto, locals, money,
            PC
<1>1. ASSUME NEW a \in Attempt, ReconcileSettled(a) PROVE Minted'
  BY <1>1 DEF ReconcileSettled, AsksOwnWallet, LookupAnswers
<1>2. ASSUME NEW a \in Attempt, ReconcileFailed(a) PROVE Minted'
  BY <1>2 DEF ReconcileFailed, AsksOwnWallet, LookupAnswers, Finish
<1>3. ASSUME NEW a \in Attempt, ReconcileUnknown(a) PROVE Minted'
  BY <1>3 DEF ReconcileUnknown, Finish
<1>4. ASSUME NEW a \in Attempt, ReconcileForeignWallet(a) PROVE Minted'
  BY <1>4 DEF ReconcileForeignWallet, Finish
<1>5. ASSUME NEW a \in Attempt, Reopen(a) PROVE Minted'
  BY <1>5 DEF Reopen
<1>6. ASSUME NEW a \in Attempt, PrepareFails(a) PROVE Minted'
  BY <1>6 DEF PrepareFails, Finish
<1>7. ASSUME NEW a \in Attempt, Lock(a) PROVE Minted'
  BY <1>7 DEF Lock
<1>8. ASSUME NEW a \in Attempt, PublishLock(a) PROVE Minted'
  BY <1>8 DEF PublishLock
<1>9. ASSUME NEW a \in Attempt, PublishLockFails(a) PROVE Minted'
  BY <1>9 DEF PublishLockFails, Finish
<1>10. ASSUME NEW a \in Attempt, MarkApproving(a) PROVE Minted'
  BY <1>10 DEF MarkApproving
<1>11. ASSUME NEW a \in Attempt, StandDown(a) PROVE Minted'
  BY <1>11 DEF StandDown, Finish
<1>12. ASSUME NEW a \in Attempt, HoldsLock(a) PROVE Minted'
  BY <1>12 DEF HoldsLock
<1>13. ASSUME NEW a \in Attempt, AskWallet(a) PROVE Minted'
  BY <1>13 DEF AskWallet
<1>14. ASSUME NEW a \in Attempt, PaySucceeds(a) PROVE Minted'
  BY <1>14 DEF PaySucceeds
<1>15. ASSUME NEW a \in Attempt, PayFails(a) PROVE Minted'
  BY <1>15 DEF PayFails
<1>16. ASSUME NEW a \in Attempt, PayUnknown(a) PROVE Minted'
  BY <1>16 DEF PayUnknown, Finish
<1>17. ASSUME NEW a \in Attempt, Receipt(a) PROVE Minted'
  BY <1>17 DEF Receipt, Finish
<1>18. ASSUME NEW a \in Attempt, Unlock(a) PROVE Minted'
  BY <1>18 DEF Unlock, Finish
<1>19. ASSUME NEW a \in Attempt, Dismiss(a) PROVE Minted'
  BY <1>19 DEF Dismiss, Finish
<1>20. ASSUME NEW a \in Attempt, SayPaid(a) PROVE Minted'
  BY <1>20 DEF SayPaid
<1>21. ASSUME NEW a \in Attempt, SayNotPaid(a) PROVE Minted'
  BY <1>21 DEF SayNotPaid
<1>22. ASSUME NEW a \in Attempt, PublishVerdict(a) PROVE Minted'
  BY <1>22 DEF PublishVerdict, Finish
<1>23. ASSUME NEW a \in Attempt, SweepDropsLock(a) PROVE Minted'
  BY <1>23 DEF SweepDropsLock, Finish
<1>24. ASSUME NEW a \in Attempt, SweepReconciles(a) PROVE Minted'
  BY <1>24 DEF SweepReconciles
<1>25. ASSUME NEW a \in Attempt, SweepFindsNothing(a) PROVE Minted'
  BY <1>25 DEF SweepFindsNothing, Finish
<1>26. ASSUME NEW a \in Attempt, Cancel(a) PROVE Minted'
  BY <1>26 DEF Cancel, Finish
<1>27. ASSUME NEW a \in Attempt, NEW d \in Device, ApproveOpen(a, d)
      PROVE  Minted'
  BY <1>27 DEF ApproveOpen, Start, Reads
<1>28. ASSUME NEW a \in Attempt, NEW d \in Device, ApproveHeldElsewhere(a, d)
      PROVE  Minted'
  BY <1>28 DEF ApproveHeldElsewhere, Start, Reads
<1>29. ASSUME NEW a \in Attempt, NEW d \in Device, ApproveHeldHere(a, d)
      PROVE  Minted'
  BY <1>29 DEF ApproveHeldHere, Start, Reads, HeldElsewhere
<1>30. ASSUME NEW a \in Attempt, NEW d \in Device, ApproveDropsLock(a, d)
      PROVE  Minted'
  BY <1>30 DEF ApproveDropsLock, Start, HeldElsewhere
<1>31. ASSUME NEW a \in Attempt, NEW d \in Device, Sweep(a, d) PROVE Minted'
  BY <1>31 DEF Sweep, Start, Held
<1>32. ASSUME NEW a \in Attempt, NEW d \in Device, Deactivate(a, d)
      PROVE  Minted'
  BY <1>32 DEF Deactivate, Start, Held
<1>33. ASSUME NEW d \in Device, FlushOutbox(d) PROVE Minted'
  BY <1>33 DEF FlushOutbox
<1>34. ASSUME NEW d \in Device, Prune(d) PROVE Minted'
  BY <1>34 DEF Prune
<1>35. ASSUME NEW d \in Device, Crash(d) PROVE Minted'
  BY <1>35 DEF Crash, Running
<1>36. ASSUME NEW d \in Device, NEW w \in Wallet \cup {None}, ConnectWallet(d, w)
      PROVE  Minted'
  BY <1>36 DEF ConnectWallet
<1>37. ASSUME Rebroadcast PROVE Minted'
  BY <1>37 DEF Rebroadcast
<1>38. ASSUME NEW a \in Attempt, WalletDecides(a) PROVE Minted'
  BY <1>38 DEF WalletDecides
<1>39. CASE UNCHANGED vars
  BY <1>39 DEF vars
<1> QED
  BY <1>1, <1>2, <1>3, <1>4, <1>5, <1>6, <1>7, <1>8, <1>9, <1>10, <1>11,
     <1>12, <1>13, <1>14, <1>15, <1>16, <1>17, <1>18, <1>19, <1>20, <1>21,
     <1>22, <1>23, <1>24, <1>25, <1>26, <1>27, <1>28, <1>29, <1>30, <1>31,
     <1>32, <1>33, <1>34, <1>35, <1>36, <1>37, <1>38, <1>39
  DEF Next, Step, ApproveStarts

\* Only the attempt that minted the invoice writes an entry that is held.
LEMMA KeepOwnWallet ==
  ASSUME TypeInv, Unasked, Minted, OwnWallet, [Next]_vars
  PROVE  OwnWallet'
<1> USE NoneAssumption DEF TypeInv, TypeOK, Carried, CarriesEntry, Unasked,
            Minted, BeforeLock, OwnWallet, Goto, locals, money, Put,
            Remove, JournalEntry, PC
<1>1. ASSUME NEW a \in Attempt, ReconcileSettled(a) PROVE OwnWallet'
  BY <1>1 DEF ReconcileSettled, AsksOwnWallet, LookupAnswers
<1>2. ASSUME NEW a \in Attempt, ReconcileFailed(a) PROVE OwnWallet'
  BY <1>2 DEF ReconcileFailed, AsksOwnWallet, LookupAnswers, Finish
<1>3. ASSUME NEW a \in Attempt, ReconcileUnknown(a) PROVE OwnWallet'
  BY <1>3 DEF ReconcileUnknown, Finish
<1>4. ASSUME NEW a \in Attempt, ReconcileForeignWallet(a) PROVE OwnWallet'
  BY <1>4 DEF ReconcileForeignWallet, Finish
<1>5. ASSUME NEW a \in Attempt, Reopen(a) PROVE OwnWallet'
  BY <1>5 DEF Reopen
<1>6. ASSUME NEW a \in Attempt, PrepareFails(a) PROVE OwnWallet'
  BY <1>6 DEF PrepareFails, Finish
<1>7. ASSUME NEW a \in Attempt, Lock(a) PROVE OwnWallet'
  BY <1>7 DEF Lock
<1>8. ASSUME NEW a \in Attempt, PublishLock(a) PROVE OwnWallet'
  BY <1>8 DEF PublishLock
<1>9. ASSUME NEW a \in Attempt, PublishLockFails(a) PROVE OwnWallet'
  BY <1>9 DEF PublishLockFails, Finish
<1>10. ASSUME NEW a \in Attempt, MarkApproving(a) PROVE OwnWallet'
  BY <1>10 DEF MarkApproving
<1>11. ASSUME NEW a \in Attempt, StandDown(a) PROVE OwnWallet'
  BY <1>11 DEF StandDown, Finish
<1>12. ASSUME NEW a \in Attempt, HoldsLock(a) PROVE OwnWallet'
  BY <1>12 DEF HoldsLock
<1>13. ASSUME NEW a \in Attempt, AskWallet(a) PROVE OwnWallet'
  BY <1>13 DEF AskWallet
<1>14. ASSUME NEW a \in Attempt, PaySucceeds(a) PROVE OwnWallet'
  BY <1>14 DEF PaySucceeds
<1>15. ASSUME NEW a \in Attempt, PayFails(a) PROVE OwnWallet'
  BY <1>15 DEF PayFails
<1>16. ASSUME NEW a \in Attempt, PayUnknown(a) PROVE OwnWallet'
  BY <1>16 DEF PayUnknown, Finish
<1>17. ASSUME NEW a \in Attempt, Receipt(a) PROVE OwnWallet'
  BY <1>17 DEF Receipt, Finish
<1>18. ASSUME NEW a \in Attempt, Unlock(a) PROVE OwnWallet'
  BY <1>18 DEF Unlock, Finish
<1>19. ASSUME NEW a \in Attempt, Dismiss(a) PROVE OwnWallet'
  BY <1>19 DEF Dismiss, Finish
<1>20. ASSUME NEW a \in Attempt, SayPaid(a) PROVE OwnWallet'
  BY <1>20 DEF SayPaid
<1>21. ASSUME NEW a \in Attempt, SayNotPaid(a) PROVE OwnWallet'
  BY <1>21 DEF SayNotPaid
<1>22. ASSUME NEW a \in Attempt, PublishVerdict(a) PROVE OwnWallet'
  BY <1>22 DEF PublishVerdict, Finish
<1>23. ASSUME NEW a \in Attempt, SweepDropsLock(a) PROVE OwnWallet'
  BY <1>23 DEF SweepDropsLock, Finish
<1>24. ASSUME NEW a \in Attempt, SweepReconciles(a) PROVE OwnWallet'
  BY <1>24 DEF SweepReconciles
<1>25. ASSUME NEW a \in Attempt, SweepFindsNothing(a) PROVE OwnWallet'
  BY <1>25 DEF SweepFindsNothing, Finish
<1>26. ASSUME NEW a \in Attempt, Cancel(a) PROVE OwnWallet'
  BY <1>26 DEF Cancel, Finish
<1>27. ASSUME NEW a \in Attempt, NEW d \in Device, ApproveOpen(a, d)
      PROVE  OwnWallet'
  BY <1>27 DEF ApproveOpen, Start, Reads
<1>28. ASSUME NEW a \in Attempt, NEW d \in Device, ApproveHeldElsewhere(a, d)
      PROVE  OwnWallet'
  BY <1>28 DEF ApproveHeldElsewhere, Start, Reads
<1>29. ASSUME NEW a \in Attempt, NEW d \in Device, ApproveHeldHere(a, d)
      PROVE  OwnWallet'
  BY <1>29 DEF ApproveHeldHere, Start, Reads, HeldElsewhere
<1>30. ASSUME NEW a \in Attempt, NEW d \in Device, ApproveDropsLock(a, d)
      PROVE  OwnWallet'
  BY <1>30 DEF ApproveDropsLock, Start, HeldElsewhere
<1>31. ASSUME NEW a \in Attempt, NEW d \in Device, Sweep(a, d)
      PROVE  OwnWallet'
  BY <1>31 DEF Sweep, Start, Held
<1>32. ASSUME NEW a \in Attempt, NEW d \in Device, Deactivate(a, d)
      PROVE  OwnWallet'
  BY <1>32 DEF Deactivate, Start, Held
<1>33. ASSUME NEW d \in Device, FlushOutbox(d) PROVE OwnWallet'
  BY <1>33 DEF FlushOutbox
<1>34. ASSUME NEW d \in Device, Prune(d) PROVE OwnWallet'
  BY <1>34 DEF Prune
<1>35. ASSUME NEW d \in Device, Crash(d) PROVE OwnWallet'
  BY <1>35 DEF Crash, Running
<1>36. ASSUME NEW d \in Device, NEW w \in Wallet \cup {None}, ConnectWallet(d, w)
      PROVE  OwnWallet'
  BY <1>36 DEF ConnectWallet
<1>37. ASSUME Rebroadcast PROVE OwnWallet'
  BY <1>37 DEF Rebroadcast
<1>38. ASSUME NEW a \in Attempt, WalletDecides(a) PROVE OwnWallet'
  BY <1>38 DEF WalletDecides
<1>39. CASE UNCHANGED vars
  BY <1>39 DEF vars
<1> QED
  BY <1>1, <1>2, <1>3, <1>4, <1>5, <1>6, <1>7, <1>8, <1>9, <1>10, <1>11,
     <1>12, <1>13, <1>14, <1>15, <1>16, <1>17, <1>18, <1>19, <1>20, <1>21,
     <1>22, <1>23, <1>24, <1>25, <1>26, <1>27, <1>28, <1>29, <1>30, <1>31,
     <1>32, <1>33, <1>34, <1>35, <1>36, <1>37, <1>38, <1>39
  DEF Next, Step, ApproveStarts

\* What a call does to a live payment's entry that it was not overtaken by: it
\* leaves it there, under the same hash.
LEMMA HoldStays ==
  ASSUME SafeInv, OwnWallet, [Next]_vars, NEW d \in Device, LosesHold(d)
  PROVE  \E a \in Attempt :
           /\ dev[a] = d /\ pc'[a] # pc[a]
           /\ Overtaken(a) \/ pc[a] = "verdict"
<1> DEFINE Excused(a) == /\ dev[a] = d /\ pc'[a] # pc[a]
                         /\ Overtaken(a) \/ pc[a] = "verdict"
<1> DEFINE h == journal[d].hash
<1> USE DEF SafeInv, TypeInv, TypeOK, PC
<1>0. /\ journal[d] \in JournalEntry /\ h \in Attempt
      /\ journal[d].state # "paid" /\ outcome[h] \in {"pending", "settled"}
      /\ journal[d].wallet = payer[h]
      /\ journal'[d] = None \/ journal'[d].hash # h
  BY DEF LosesHold, Held, Live, OwnWallet
<1>1. journal'[d] # journal[d]
  BY <1>0, NoEntryAssumption
<1>2. journal[d].state # "locking"
  BY <1>0 DEF IInv, LockingUnasked, LosesHold, Held
<1>3. ASSUME NEW a \in Attempt, ReconcileSettled(a) PROVE Excused(a)
  <2>1. /\ dev[a] = d /\ pc[a] \in {"reconcile", "sweepReconcile"} /\ pc'[a] # pc[a]
        /\ journal'[d] = [entry[a] EXCEPT !.state = "paid"]
    BY <1>1, <1>3 DEF ReconcileSettled, AsksOwnWallet, Put, Goto
  <2>2. entry[a] \in JournalEntry
    BY <2>1 DEF Carried, CarriesEntry
  <2>3. journal'[d] # None /\ journal'[d].hash = entry[a].hash
    BY <2>1, <2>2, NoEntryAssumption DEF JournalEntry
  <2>4. journal[d] # entry[a]
    BY <1>0, <2>3
  <2> QED BY <2>1, <2>4 DEF Overtaken
<1>4. ASSUME NEW a \in Attempt, ReconcileFailed(a) PROVE Excused(a)
  <2>1. dev[a] = d /\ pc[a] \in {"reconcile", "sweepReconcile"} /\ pc'[a] # pc[a]
    BY <1>1, <1>4 DEF ReconcileFailed, AsksOwnWallet, Remove, Put, Goto, Finish
  <2>2. journal[d] # entry[a]
    <3> SUFFICES ASSUME journal[d] = entry[a] PROVE FALSE
      OBVIOUS
    <3>1. "failed" \in {"unknown"} \cup ({outcome[h]} \cap {"settled", "failed"})
      BY <1>0, <1>4, <2>1 DEF ReconcileFailed, AsksOwnWallet, LookupAnswers
    <3> QED BY <1>0, <3>1
  <2> QED BY <2>1, <2>2 DEF Overtaken
<1>5. ASSUME NEW a \in Attempt, Lock(a) PROVE Excused(a)
  BY <1>1, <1>5 DEF Lock, Put, Goto, Overtaken, LosesHold, Held
<1>6. ASSUME NEW a \in Attempt, PublishLockFails(a) \/ StandDown(a) PROVE Excused(a)
  <2>1. /\ dev[a] = d /\ pc[a] \in {"lock", "settle"} /\ pc'[a] # pc[a]
    BY <1>1, <1>6 DEF PublishLockFails, StandDown, Remove, Put, Goto, Finish
  <2>2. outcome[a] = "none"
    BY <2>1 DEF IInv, Unasked, BeforeAsk
  <2> QED BY <1>0, <2>1, <2>2 DEF Overtaken
<1>7. ASSUME NEW a \in Attempt, MarkApproving(a) \/ PaySucceeds(a) PROVE Excused(a)
  <2>1. /\ dev[a] = d /\ pc[a] \in {"locked", "asked"} /\ pc'[a] # pc[a]
        /\ \E s \in {"approving", "paid"} :
             journal'[d] = [hash |-> a, wallet |-> payer[a], state |-> s]
    BY <1>1, <1>7 DEF MarkApproving, PaySucceeds, Put, Goto
  <2>2. payer[a] \in Wallet
    BY <2>1 DEF IInv, Unasked
  <2>3. journal'[d] # None /\ journal'[d].hash = a
    BY <2>1, <2>2, NoEntryAssumption DEF JournalEntry, Hash
  <2> QED BY <1>0, <2>1, <2>3 DEF Overtaken
<1>8. ASSUME NEW a \in Attempt, PayFails(a) PROVE Excused(a)
  <2>1. /\ dev[a] = d /\ pc[a] \in {"pay", "asked"} /\ pc'[a] # pc[a]
    BY <1>1, <1>8 DEF PayFails, Remove, Put, Goto
  <2>2. outcome[a] \in {"none", "failed"}
    BY <1>8 DEF PayFails, IInv, Unasked, BeforeAsk
  <2> QED BY <1>0, <2>1, <2>2 DEF Overtaken
<1>9. ASSUME NEW a \in Attempt, SayPaid(a) \/ SayNotPaid(a) PROVE Excused(a)
  BY <1>1, <1>9 DEF SayPaid, SayNotPaid, Remove, Put, Goto
<1>10. ASSUME NEW a \in Attempt, SweepDropsLock(a) PROVE Excused(a)
  BY <1>1, <1>2, <1>10 DEF SweepDropsLock, Remove, Put, Goto, Finish, Overtaken
<1>11. ASSUME NEW a \in Attempt, NEW e \in Device, ApproveDropsLock(a, e) PROVE FALSE
  BY <1>1, <1>2, <1>11 DEF ApproveDropsLock, Remove, Put
<1>12. ASSUME NEW e \in Device, Prune(e) PROVE FALSE
  BY <1>0, <1>1, <1>12 DEF Prune, Remove, Put
<1>13. UNCHANGED journal => FALSE
  BY <1>1
<1> HIDE DEF h
<1> QED
  BY <1>3, <1>4, <1>5, <1>6, <1>7, <1>8, <1>9, <1>10, <1>11, <1>12, <1>13
  DEF Next, Step, ApproveStarts, ApproveOpen, ApproveHeldElsewhere, ApproveHeldHere,
      Sweep, Deactivate, ReconcileUnknown, ReconcileForeignWallet, Reopen,
      PrepareFails, PublishLock, HoldsLock, AskWallet, PayUnknown, Receipt, Unlock,
      Dismiss, PublishVerdict, SweepReconciles, SweepFindsNothing, Cancel,
      WalletDecides, FlushOutbox, Crash, ConnectWallet, Rebroadcast, vars

\* However many windows, sweeps and reloads: the entry of a payment that moved
\* money, or may, is lost only to a call that acts on an entry the journal no
\* longer holds, or to the creator's word.
THEOREM HoldsAreKept == Spec => HoldIsKept
<1> DEFINE Own == SafeInv /\ Minted /\ OwnWallet
<1>1. Init => Own
  BY InitSafe DEF Init, Minted, OwnWallet
<1>2. Own /\ [Next]_vars => Own'
  BY NextSafe, KeepMinted, KeepOwnWallet DEF SafeInv, IInv
<1>3. Own /\ [Next]_vars =>
        [\A d \in Device : LosesHold(d) =>
           \E a \in Attempt :
             /\ dev[a] = d /\ pc'[a] # pc[a]
             /\ Overtaken(a) \/ pc[a] = "verdict"]_journal
  BY HoldStays
<1> HIDE DEF Own
<1> QED BY <1>1, <1>2, <1>3, PTL DEF Spec, HoldIsKept

\* While an entry is being settled no other attempt of the device writes its journal.
LEMMA KeepSettling ==
  ASSUME OnePerDevice, OnePerDevice', TypeInv, Settling, [Next]_vars
  PROVE  Settling'
<1> USE NoneAssumption DEF TypeInv, TypeOK, Carried, CarriesEntry, OnePerDevice,
            Running, Settling, Goto, locals, money, Put, Remove, JournalEntry,
            PC
<1>1. ASSUME NEW a \in Attempt, ReconcileSettled(a) PROVE Settling'
  BY <1>1 DEF ReconcileSettled, AsksOwnWallet, LookupAnswers
<1>2. ASSUME NEW a \in Attempt, ReconcileFailed(a) PROVE Settling'
  BY <1>2 DEF ReconcileFailed, AsksOwnWallet, LookupAnswers, Finish
<1>3. ASSUME NEW a \in Attempt, ReconcileUnknown(a) PROVE Settling'
  BY <1>3 DEF ReconcileUnknown, Finish
<1>4. ASSUME NEW a \in Attempt, ReconcileForeignWallet(a) PROVE Settling'
  BY <1>4 DEF ReconcileForeignWallet, Finish
<1>5. ASSUME NEW a \in Attempt, Reopen(a) PROVE Settling'
  BY <1>5 DEF Reopen
<1>6. ASSUME NEW a \in Attempt, PrepareFails(a) PROVE Settling'
  BY <1>6 DEF PrepareFails, Finish
<1>7. ASSUME NEW a \in Attempt, Lock(a) PROVE Settling'
  BY <1>7 DEF Lock
<1>8. ASSUME NEW a \in Attempt, PublishLock(a) PROVE Settling'
  BY <1>8 DEF PublishLock
<1>9. ASSUME NEW a \in Attempt, PublishLockFails(a) PROVE Settling'
  BY <1>9 DEF PublishLockFails, Finish
<1>10. ASSUME NEW a \in Attempt, MarkApproving(a) PROVE Settling'
  BY <1>10 DEF MarkApproving
<1>11. ASSUME NEW a \in Attempt, StandDown(a) PROVE Settling'
  BY <1>11 DEF StandDown, Finish
<1>12. ASSUME NEW a \in Attempt, HoldsLock(a) PROVE Settling'
  BY <1>12 DEF HoldsLock
<1>13. ASSUME NEW a \in Attempt, AskWallet(a) PROVE Settling'
  BY <1>13 DEF AskWallet
<1>14. ASSUME NEW a \in Attempt, PaySucceeds(a) PROVE Settling'
  BY <1>14 DEF PaySucceeds
<1>15. ASSUME NEW a \in Attempt, PayFails(a) PROVE Settling'
  BY <1>15 DEF PayFails
<1>16. ASSUME NEW a \in Attempt, PayUnknown(a) PROVE Settling'
  BY <1>16 DEF PayUnknown, Finish
<1>17. ASSUME NEW a \in Attempt, Receipt(a) PROVE Settling'
  BY <1>17 DEF Receipt, Finish
<1>18. ASSUME NEW a \in Attempt, Unlock(a) PROVE Settling'
  BY <1>18 DEF Unlock, Finish
<1>19. ASSUME NEW a \in Attempt, Dismiss(a) PROVE Settling'
  BY <1>19 DEF Dismiss, Finish
<1>20. ASSUME NEW a \in Attempt, SayPaid(a) PROVE Settling'
  BY <1>20 DEF SayPaid
<1>21. ASSUME NEW a \in Attempt, SayNotPaid(a) PROVE Settling'
  BY <1>21 DEF SayNotPaid
<1>22. ASSUME NEW a \in Attempt, PublishVerdict(a) PROVE Settling'
  BY <1>22 DEF PublishVerdict, Finish
<1>23. ASSUME NEW a \in Attempt, SweepDropsLock(a) PROVE Settling'
  BY <1>23 DEF SweepDropsLock, Finish
<1>24. ASSUME NEW a \in Attempt, SweepReconciles(a) PROVE Settling'
  BY <1>24 DEF SweepReconciles
<1>25. ASSUME NEW a \in Attempt, SweepFindsNothing(a) PROVE Settling'
  BY <1>25 DEF SweepFindsNothing, Finish
<1>26. ASSUME NEW a \in Attempt, Cancel(a) PROVE Settling'
  BY <1>26 DEF Cancel, Finish
<1>27. ASSUME NEW a \in Attempt, NEW d \in Device, ApproveOpen(a, d)
      PROVE  Settling'
  BY <1>27 DEF ApproveOpen, Start, Reads
<1>28. ASSUME NEW a \in Attempt, NEW d \in Device, ApproveHeldElsewhere(a, d)
      PROVE  Settling'
  BY <1>28 DEF ApproveHeldElsewhere, Start, Reads
<1>29. ASSUME NEW a \in Attempt, NEW d \in Device, ApproveHeldHere(a, d)
      PROVE  Settling'
  BY <1>29 DEF ApproveHeldHere, Start, Reads, HeldElsewhere
<1>30. ASSUME NEW a \in Attempt, NEW d \in Device, ApproveDropsLock(a, d)
      PROVE  Settling'
  <2>1. Start(a, d) /\ Remove(d) /\ Goto(a, "prepare") /\ UNCHANGED entry
    BY <1>30 DEF ApproveDropsLock
  <2> QED BY <2>1 DEF Start
<1>31. ASSUME NEW a \in Attempt, NEW d \in Device, Sweep(a, d) PROVE Settling'
  BY <1>31 DEF Sweep, Start, Held
<1>32. ASSUME NEW a \in Attempt, NEW d \in Device, Deactivate(a, d)
      PROVE  Settling'
  BY <1>32 DEF Deactivate, Start, Held
<1>33. ASSUME NEW d \in Device, FlushOutbox(d) PROVE Settling'
  BY <1>33 DEF FlushOutbox
<1>34. ASSUME NEW d \in Device, Prune(d) PROVE Settling'
  BY <1>34 DEF Prune
<1>35. ASSUME NEW d \in Device, Crash(d) PROVE Settling'
  BY <1>35 DEF Crash
<1>36. ASSUME NEW d \in Device, NEW w \in Wallet \cup {None}, ConnectWallet(d, w)
      PROVE  Settling'
  BY <1>36 DEF ConnectWallet
<1>37. ASSUME Rebroadcast PROVE Settling'
  BY <1>37 DEF Rebroadcast
<1>38. ASSUME NEW a \in Attempt, WalletDecides(a) PROVE Settling'
  BY <1>38 DEF WalletDecides
<1>39. CASE UNCHANGED vars
  BY <1>39 DEF vars
<1> QED
  BY <1>1, <1>2, <1>3, <1>4, <1>5, <1>6, <1>7, <1>8, <1>9, <1>10, <1>11,
     <1>12, <1>13, <1>14, <1>15, <1>16, <1>17, <1>18, <1>19, <1>20, <1>21,
     <1>22, <1>23, <1>24, <1>25, <1>26, <1>27, <1>28, <1>29, <1>30, <1>31,
     <1>32, <1>33, <1>34, <1>35, <1>36, <1>37, <1>38, <1>39
  DEF Next, Step, ApproveStarts

\* The inductive invariant of attempts that follow each other on their device.
THEOREM TurnsAreTaken == Spec /\ []OnePerDevice => []TurnsInv
<1>1. Init => TurnsInv
  BY InitSafe DEF Init, TurnsInv, Turns, Running, Minted, OwnWallet, Settling
<1>2. TurnsInv /\ OnePerDevice /\ OnePerDevice' /\ [Next]_vars => TurnsInv'
  BY NextSafe, KeepMinted, KeepOwnWallet, KeepSettling
  DEF TurnsInv, SafeInv, IInv, Turns
<1> QED BY <1>1, <1>2, PTL DEF Spec

\* With one attempt in flight at a time, the attempts of all devices follow each
\* other.
THEOREM TurnsOfAll ==
  ASSUME MaxInFlight = 1
  PROVE  Spec => []OneRuns /\ []OnePerDevice
<1>1. Init => OneRuns
  BY DEF Init, OneRuns, Running
<1>2. OneRuns => OnePerDevice
  BY DEF OneRuns, OnePerDevice
<1>3. SafeInv /\ OneRuns /\ [Next]_vars => OneRuns'
  BY KeepOneRuns DEF SafeInv
<1> QED BY <1>1, <1>2, <1>3, SafeCorrect, PTL DEF Spec

-----------------------------------------------------------------------------
(***************************************************************************)
(* The journal covers every payment.  Pruning is left out, for it forgets  *)
(* payments that were made, and so is a creator who errs.                  *)
(***************************************************************************)

\* No payment of this device has moved money or may.
Clear(d) == \A h \in Attempt : dev[h] = d => ~Live(h)

\* An attempt past the look at its device's journal found nothing held there.
ClearAhead ==
  \A a \in Attempt :
    pc[a] \in {"prepare", "reopen", "lock", "locked", "settle", "pay"} => Clear(dev[a])

\* From the mark on until the answer, the journal holds this very attempt.
Marked ==
  \A a \in Attempt :
    pc[a] \in {"settle", "pay", "asked"} =>
      journal[dev[a]] = [hash |-> a, wallet |-> payer[a], state |-> "approving"]

Covered == JournalCoversPayment /\ ClearAhead /\ Marked

CoverInv == TurnsInv /\ Covered

\* A hash that was asked is an attempt's that has run on some device.
LEMMA LiveHasDevice ==
  ASSUME TypeInv, Unasked, NEW h \in Attempt, Live(h)
  PROVE  dev[h] \in Device /\ pc[h] \notin BeforeAsk /\ payer[h] # None
  BY DEF TypeInv, TypeOK, Carried, Unasked, BeforeAsk, Live, PC

\* An entry is dropped only when its payment has failed or the creator truly
\* says so, and replaced only where nothing is owed; the rest leaves it alone.
LEMMA KeepCovered ==
  ASSUME "prune" \notin Features, "mistake" \notin Features,
         OnePerDevice, OnePerDevice', CoverInv, [Next]_vars
  PROVE  Covered'
<1> USE NoneAssumption, NoEntryAssumption DEF SafeInv, TypeInv, TypeOK,
            Carried, CarriesEntry, IInv, Unasked, BeforeAsk, Turns, Minted,
            BeforeLock, OwnWallet, Settling, OnePerDevice, Running, ClearAhead,
            Marked, JournalCoversPayment, Clear, Live, Goto, locals, money,
            Put, Remove, JournalEntry, PC, TurnsInv, CoverInv, Covered
<1>1. ASSUME NEW a \in Attempt, ReconcileSettled(a) PROVE Covered'
  BY <1>1 DEF ReconcileSettled, AsksOwnWallet, LookupAnswers
<1>2. ASSUME NEW a \in Attempt, ReconcileFailed(a) PROVE Covered'
  BY <1>2 DEF ReconcileFailed, AsksOwnWallet, LookupAnswers, Finish
<1>3. ASSUME NEW a \in Attempt, ReconcileUnknown(a) PROVE Covered'
  BY <1>3 DEF ReconcileUnknown, Finish
<1>4. ASSUME NEW a \in Attempt, ReconcileForeignWallet(a) PROVE Covered'
  BY <1>4 DEF ReconcileForeignWallet, Finish
<1>5. ASSUME NEW a \in Attempt, Reopen(a) PROVE Covered'
  <2>1. JournalCoversPayment'
    BY <1>5 DEF Reopen
  <2>2. ClearAhead'
    BY <1>5 DEF Reopen
  <2>3. Marked'
    BY <1>5 DEF Reopen
  <2> QED BY <2>1, <2>2, <2>3
<1>6. ASSUME NEW a \in Attempt, PrepareFails(a) PROVE Covered'
  BY <1>6 DEF PrepareFails, Finish
<1>7. ASSUME NEW a \in Attempt, Lock(a) PROVE Covered'
  <2>1. JournalCoversPayment'
    BY <1>7 DEF Lock
  <2>2. ClearAhead'
    BY <1>7 DEF Lock
  <2>3. Marked'
    BY <1>7 DEF Lock
  <2> QED BY <2>1, <2>2, <2>3
<1>8. ASSUME NEW a \in Attempt, PublishLock(a) PROVE Covered'
  BY <1>8 DEF PublishLock
<1>9. ASSUME NEW a \in Attempt, PublishLockFails(a) PROVE Covered'
  <2>1. JournalCoversPayment'
    BY <1>9 DEF PublishLockFails, Finish
  <2>2. ClearAhead'
    BY <1>9 DEF PublishLockFails, Finish
  <2>3. Marked'
    BY <1>9 DEF PublishLockFails, Finish
  <2> QED BY <2>1, <2>2, <2>3
<1>10. ASSUME NEW a \in Attempt, MarkApproving(a) PROVE Covered'
  BY <1>10 DEF MarkApproving
<1>11. ASSUME NEW a \in Attempt, StandDown(a) PROVE Covered'
  <2>1. JournalCoversPayment'
    BY <1>11 DEF StandDown, Finish
  <2>2. ClearAhead'
    BY <1>11 DEF StandDown, Finish
  <2>3. Marked'
    BY <1>11 DEF StandDown, Finish
  <2> QED BY <2>1, <2>2, <2>3
<1>12. ASSUME NEW a \in Attempt, HoldsLock(a) PROVE Covered'
  BY <1>12 DEF HoldsLock
<1>13. ASSUME NEW a \in Attempt, AskWallet(a) PROVE Covered'
  <2>1. JournalCoversPayment'
    <3> SUFFICES ASSUME NEW h \in Attempt, Live(h)'
                 PROVE  journal'[dev'[h]] # None /\ journal'[dev'[h]].hash = h
                        /\ journal'[dev'[h]].state # "locking"
      BY DEF JournalCoversPayment
    <3>1. CASE h = a
      <4>1. UNCHANGED <<journal, dev>> /\ pc[a] = "pay" /\ dev[a] \in Device
        BY <1>13 DEF AskWallet
      <4>2. journal[dev[a]] = [hash |-> a, wallet |-> payer[a], state |-> "approving"]
        BY <4>1
      <4>3. journal[dev[a]] # None
        BY <4>2, NoEntryAssumption DEF Hash
      <4> QED BY <3>1, <4>1, <4>2, <4>3
    <3>2. CASE h # a
      <4>1. Live(h) /\ dev[h] \in Device
        BY <1>13, <3>2, LiveHasDevice DEF AskWallet, Live
      <4> QED BY <1>13, <3>2, <4>1 DEF AskWallet
    <3> QED BY <3>1, <3>2
  <2>2. ClearAhead'
    BY <1>13 DEF AskWallet
  <2>3. Marked'
    BY <1>13 DEF AskWallet
  <2> QED BY <2>1, <2>2, <2>3
<1>14. ASSUME NEW a \in Attempt, PaySucceeds(a) PROVE Covered'
  <2>1. JournalCoversPayment'
    <3> SUFFICES ASSUME NEW h \in Attempt, Live(h)'
                 PROVE  journal'[dev'[h]] # None /\ journal'[dev'[h]].hash = h
                        /\ journal'[dev'[h]].state # "locking"
      BY DEF JournalCoversPayment
    <3>1. CASE h = a
      BY <1>14, <3>1, LiveHasDevice DEF PaySucceeds
    <3>2. CASE h # a
      <4>1. Live(h) /\ dev[h] \in Device
        BY <1>14, <3>2, LiveHasDevice DEF PaySucceeds, Live
      <4> QED BY <1>14, <3>2, <4>1 DEF PaySucceeds
    <3> QED BY <3>1, <3>2
  <2>2. ClearAhead'
    BY <1>14 DEF PaySucceeds
  <2>3. Marked'
    BY <1>14 DEF PaySucceeds
  <2> QED BY <2>1, <2>2, <2>3
<1>15. ASSUME NEW a \in Attempt, PayFails(a) PROVE Covered'
  <2>1. JournalCoversPayment'
    <3> SUFFICES ASSUME NEW h \in Attempt, Live(h)'
                 PROVE  journal'[dev'[h]] # None /\ journal'[dev'[h]].hash = h
                        /\ journal'[dev'[h]].state # "locking"
      BY DEF JournalCoversPayment
    <3>1. CASE h = a
      BY <1>15, <3>1, LiveHasDevice DEF PayFails
    <3>2. CASE h # a
      <4>1. Live(h) /\ dev[h] \in Device
        BY <1>15, <3>2, LiveHasDevice DEF PayFails, Live
      <4>2. pc[a] \in {"pay", "asked"} /\ Remove(dev[a]) /\ UNCHANGED dev
        BY <1>15 DEF PayFails
      <4>3. journal[dev[a]].hash = a
        <5>1. journal[dev[a]] = [hash |-> a, wallet |-> payer[a], state |-> "approving"]
          BY <4>2
        <5> HIDE DEF Marked, JournalCoversPayment, TypeInv, TypeOK, Carried
        <5> QED BY <5>1
      <4>5. journal[dev[h]].hash = h
        BY <4>1 DEF JournalCoversPayment
      <4>4. dev[h] # dev[a]
        BY <3>2, <4>3, <4>5
      <4> QED BY <4>1, <4>2, <4>4
    <3> QED BY <3>1, <3>2
  <2>2. ClearAhead'
    BY <1>15 DEF PayFails
  <2>3. Marked'
    BY <1>15 DEF PayFails
  <2> QED BY <2>1, <2>2, <2>3
<1>16. ASSUME NEW a \in Attempt, PayUnknown(a) PROVE Covered'
  BY <1>16 DEF PayUnknown, Finish
<1>17. ASSUME NEW a \in Attempt, Receipt(a) PROVE Covered'
  BY <1>17 DEF Receipt, Finish
<1>18. ASSUME NEW a \in Attempt, Unlock(a) PROVE Covered'
  BY <1>18 DEF Unlock, Finish
<1>19. ASSUME NEW a \in Attempt, Dismiss(a) PROVE Covered'
  BY <1>19 DEF Dismiss, Finish
<1>20. ASSUME NEW a \in Attempt, SayPaid(a) PROVE Covered'
  <2>1. JournalCoversPayment'
    <3> SUFFICES ASSUME NEW h \in Attempt, Live(h)'
                 PROVE  journal'[dev'[h]] # None /\ journal'[dev'[h]].hash = h
                        /\ journal'[dev'[h]].state # "locking"
      BY DEF JournalCoversPayment
    <3>1. CASE h = a
      BY <1>20, <3>1, LiveHasDevice DEF SayPaid
    <3>2. CASE h # a
      <4>1. Live(h) /\ dev[h] \in Device
        BY <1>20, <3>2, LiveHasDevice DEF SayPaid, Live
      <4> QED BY <1>20, <3>2, <4>1 DEF SayPaid
    <3> QED BY <3>1, <3>2
  <2>2. ClearAhead'
    BY <1>20 DEF SayPaid
  <2>3. Marked'
    BY <1>20 DEF SayPaid
  <2> QED BY <2>1, <2>2, <2>3
<1>21. ASSUME NEW a \in Attempt, SayNotPaid(a) PROVE Covered'
  BY <1>21 DEF SayNotPaid, VerdictIsTrue
<1>22. ASSUME NEW a \in Attempt, PublishVerdict(a) PROVE Covered'
  BY <1>22 DEF PublishVerdict, Finish
<1>23. ASSUME NEW a \in Attempt, SweepDropsLock(a) PROVE Covered'
  BY <1>23 DEF SweepDropsLock, Finish
<1>24. ASSUME NEW a \in Attempt, SweepReconciles(a) PROVE Covered'
  BY <1>24 DEF SweepReconciles
<1>25. ASSUME NEW a \in Attempt, SweepFindsNothing(a) PROVE Covered'
  BY <1>25 DEF SweepFindsNothing, Finish
<1>26. ASSUME NEW a \in Attempt, Cancel(a) PROVE Covered'
  BY <1>26 DEF Cancel, Finish
<1>27. ASSUME NEW a \in Attempt, NEW d \in Device, ApproveOpen(a, d) PROVE Covered'
  BY <1>27 DEF ApproveOpen, Start, Reads
<1>28. ASSUME NEW a \in Attempt, NEW d \in Device, ApproveHeldElsewhere(a, d) PROVE Covered'
  BY <1>28 DEF ApproveHeldElsewhere, Start, Reads
<1>29. ASSUME NEW a \in Attempt, NEW d \in Device, ApproveHeldHere(a, d) PROVE Covered'
  BY <1>29 DEF ApproveHeldHere, Start, Reads, HeldElsewhere
<1>30. ASSUME NEW a \in Attempt, NEW d \in Device, ApproveDropsLock(a, d) PROVE Covered'
  BY <1>30 DEF ApproveDropsLock, Start, HeldElsewhere
<1>31. ASSUME NEW a \in Attempt, NEW d \in Device, Sweep(a, d) PROVE Covered'
  BY <1>31 DEF Sweep, Start, Held
<1>32. ASSUME NEW a \in Attempt, NEW d \in Device, Deactivate(a, d) PROVE Covered'
  BY <1>32 DEF Deactivate, Start, Held
<1>33. ASSUME NEW d \in Device, FlushOutbox(d) PROVE Covered'
  BY <1>33 DEF FlushOutbox
<1>34. ASSUME NEW d \in Device, Prune(d) PROVE Covered'
  BY <1>34 DEF Prune
<1>35. ASSUME NEW d \in Device, Crash(d) PROVE Covered'
  BY <1>35 DEF Crash
<1>36. ASSUME NEW d \in Device, NEW w \in Wallet \cup {None}, ConnectWallet(d, w)
      PROVE  Covered'
  BY <1>36 DEF ConnectWallet
<1>37. ASSUME Rebroadcast PROVE Covered'
  BY <1>37 DEF Rebroadcast
<1>38. ASSUME NEW a \in Attempt, WalletDecides(a) PROVE Covered'
  BY <1>38 DEF WalletDecides
<1>39. CASE UNCHANGED vars
  BY <1>39 DEF vars
<1> QED
  BY <1>1, <1>2, <1>3, <1>4, <1>5, <1>6, <1>7, <1>8, <1>9, <1>10, <1>11,
     <1>12, <1>13, <1>14, <1>15, <1>16, <1>17, <1>18, <1>19, <1>20, <1>21,
     <1>22, <1>23, <1>24, <1>25, <1>26, <1>27, <1>28, <1>29, <1>30, <1>31,
     <1>32, <1>33, <1>34, <1>35, <1>36, <1>37, <1>38, <1>39
  DEF Next, Step, ApproveStarts

\* The inductive invariant of the journal.
THEOREM CoverCorrect ==
  ASSUME "prune" \notin Features, "mistake" \notin Features
  PROVE  Spec /\ []OnePerDevice => []CoverInv
<1>1. Init => Covered
  BY DEF Init, Covered, JournalCoversPayment, ClearAhead, Clear, Marked, Live
<1>2. CoverInv /\ OnePerDevice /\ OnePerDevice' /\ [Next]_vars => Covered'
  BY KeepCovered
<1> QED BY <1>1, <1>2, TurnsAreTaken, PTL DEF Spec, CoverInv

\* The journal is written ahead (payout.ts 14-17): with devices that work at the
\* same moment, relays that disagree, crashes, sweeps, removals and any clocks,
\* a payment that was made or may be made is in the journal of the device that
\* asked for it, if the attempts of each device follow each other.
THEOREM JournalHoldsPerDevice ==
  ASSUME "prune" \notin Features, "mistake" \notin Features
  PROVE  Spec /\ []OnePerDevice => []JournalCoversPayment
<1>1. CoverInv => JournalCoversPayment
  BY DEF CoverInv, Covered
<1> QED BY <1>1, CoverCorrect, PTL

\* The same when the attempts of all devices take turns.
THEOREM JournalHolds ==
  ASSUME MaxInFlight = 1, "prune" \notin Features, "mistake" \notin Features
  PROVE  Spec => []JournalCoversPayment
BY JournalHoldsPerDevice, TurnsOfAll, PTL

\* However the devices race, none of them is the source of two payments: of the
\* payments one device asked for at most one has settled or may still settle.
OneLivePerDevice ==
  \A g, h \in Attempt : Live(g) /\ Live(h) /\ dev[g] = dev[h] => g = h

THEOREM NoDevicePaysTwice ==
  ASSUME "prune" \notin Features, "mistake" \notin Features
  PROVE  Spec /\ []OnePerDevice => []OneLivePerDevice
<1>1. CoverInv => OneLivePerDevice
  BY LiveHasDevice
  DEF CoverInv, TurnsInv, SafeInv, IInv, Covered, JournalCoversPayment, OneLivePerDevice
<1> QED BY <1>1, CoverCorrect, PTL

-----------------------------------------------------------------------------
(***************************************************************************)
(* At most one payment, and the refinement of PayOnce.  On one device it   *)
(* is the journal that stands between two payments.                        *)
(***************************************************************************)

Quiet == \A h \in Attempt : ~Live(h)
OneLive == \A g, h \in Attempt : Live(g) /\ Live(h) => g = h

\* A wallet is about to be asked only when no other payment may be under way.
AskedQuietly == \A a \in Attempt : pc[a] = "pay" => Quiet

\* The payout starts where PayOnce starts.
LEMMA PromiseInit == Init => Promise!Init
  BY DEF Init, Promise!Init

\* Asking and deciding are PayOnce's two steps, and every other one stutters.
LEMMA PromiseStep ==
  ASSUME TypeInv, Unasked, AskedQuietly, [Next]_vars
  PROVE  [Promise!Next]_outcome
<1>1. ASSUME NEW a \in Attempt, AskWallet(a) PROVE Promise!Ask(a)
  BY <1>1 DEF AskWallet, AskedQuietly, Quiet, Live, Unasked, BeforeAsk, Promise!Ask
<1>2. ASSUME NEW a \in Attempt, WalletDecides(a) PROVE Promise!Decide(a)
  BY <1>2 DEF WalletDecides, Promise!Decide
<1>3. ASSUME NEW a \in Attempt, Step(a), ~AskWallet(a) PROVE UNCHANGED outcome
  BY <1>3
  DEF Step, money, ReconcileSettled, ReconcileFailed, ReconcileUnknown,
      ReconcileForeignWallet, Reopen, PrepareFails, Lock, PublishLock, PublishLockFails,
      MarkApproving, StandDown, HoldsLock, PaySucceeds, PayFails, PayUnknown, Receipt,
      Unlock, Dismiss, SayPaid, SayNotPaid, PublishVerdict, SweepDropsLock,
      SweepReconciles, SweepFindsNothing, Cancel
<1>4. ASSUME NEW a \in Attempt, NEW d \in Device,
             ApproveStarts(a, d) \/ Sweep(a, d) \/ Deactivate(a, d)
      PROVE  UNCHANGED outcome
  BY <1>4 DEF ApproveStarts, money, ApproveOpen, ApproveHeldElsewhere, ApproveHeldHere,
              ApproveDropsLock, Sweep, Deactivate
<1>5. ASSUME NEW d \in Device,
             \/ FlushOutbox(d) \/ Prune(d) \/ Crash(d)
             \/ \E w \in Wallet \cup {None} : ConnectWallet(d, w)
      PROVE  UNCHANGED outcome
  BY <1>5 DEF money, FlushOutbox, Prune, Crash, ConnectWallet
<1>6. CASE Rebroadcast \/ UNCHANGED vars
  BY <1>6 DEF Rebroadcast, money, vars
<1> QED BY <1>1, <1>2, <1>3, <1>4, <1>5, <1>6 DEF Next, Promise!Next

OneDevice == \A d, e \in Device : d = e

\* One device has one entry, which can cover one payment.
LEMMA OneDeviceIsQuiet ==
  ASSUME OneDevice, CoverInv
  PROVE  AskedQuietly /\ OneLive
<1>1. \A h \in Attempt : Live(h) => dev[h] \in Device
  BY LiveHasDevice DEF CoverInv, TurnsInv, SafeInv, IInv
<1>2. \A a \in Attempt : pc[a] = "pay" => dev[a] \in Device
  BY DEF CoverInv, TurnsInv, SafeInv, TypeInv, Carried
<1>3. AskedQuietly
  BY <1>1, <1>2 DEF CoverInv, Covered, ClearAhead, Clear, AskedQuietly, Quiet, OneDevice
<1>4. OneLive
  BY <1>1 DEF CoverInv, Covered, JournalCoversPayment, OneLive, OneDevice
<1> QED BY <1>3, <1>4

\* "Make `pay this claim` happen at most once" (payout.ts 11-12), on one device:
\* with relays that disagree, any clocks, sweeps and removals, a wallet is asked
\* only while no other payment has settled or may still settle.
THEOREM OneDevicePaysOnce ==
  ASSUME OneDevice, MaxInFlight = 1, "prune" \notin Features, "mistake" \notin Features
  PROVE  Spec => PaysOnce /\ []AtMostOnePayment
<1>1. CoverInv /\ [Next]_vars => [Promise!Next]_outcome
  BY OneDeviceIsQuiet, PromiseStep DEF CoverInv, TurnsInv, SafeInv, IInv
<1>2. CoverInv => AtMostOnePayment
  BY OneDeviceIsQuiet DEF OneLive, Live, AtMostOnePayment
<1> QED BY <1>1, <1>2, PromiseInit, CoverCorrect, TurnsOfAll, PTL DEF Spec, PaysOnce, Promise!Spec

-----------------------------------------------------------------------------
(***************************************************************************)
(* Several devices.  They have separate journals, and it is the lock on    *)
(* the network that stands between two payments: once a payment may be     *)
(* made, no relay shows, nor can any outbox make it show, a version that   *)
(* another device would pay under.  With one relay, whose order of         *)
(* versions is that of the signatures, this is so; two relays can answer   *)
(* differently, and a sweep can reopen over another machine's payout.      *)
(***************************************************************************)

OneRelay == \A r, s \in Relay : r = s

\* A version under which nobody starts a payment other than h.
Blocks(v, h) ==
  v.status \in {"paid", "cancelled"} \/ (v.status = "approving" /\ v.hash = h)

\* What the relays show, and whatever can still take its place, blocks.
Blocked(h) ==
  \A r \in Relay : \A v \in versions : v.rank >= relay[r].rank => Blocks(v, h)

\* Ranks are given out in the order of the signatures.
Ordered ==
  /\ IsFiniteSet(versions)
  /\ \A v \in versions : v.rank < Cardinality(versions)
  /\ \A r \in Relay : relay[r] \in versions
  /\ \A d \in Device : outbox[d] \subseteq versions

\* The network blocks for every payment under way, and for every attempt whose
\* lock is public.
LiveShown == \A h \in Attempt : Live(h) => Blocked(h)
LockShown == \A a \in Attempt : pc[a] \in {"locked", "settle", "pay"} => Blocked(a)

\* An attempt that has found the bounty free to pay, or to reopen, is right.
QuietAhead ==
  \A a \in Attempt :
    pc[a] \in {"prepare", "reopen", "lock", "locked", "settle", "pay",
               "unlock", "disown"} => Quiet

\* The payment that may be under way is the one an attempt asks about.
OwnLive ==
  \A a, h \in Attempt : Live(h) =>
    /\ pc[a] = "asked" => h = a
    /\ pc[a] = "reconcile" => h = entry[a].hash
    /\ pc[a] \notin {"sweep", "sweepReconcile"}

Alone == OneLive /\ QuietAhead /\ OwnLive

ShowInv == OneRuns /\ TurnsInv /\ Ordered /\ LiveShown /\ LockShown /\ Alone

\* A version signed now, and what becomes of it.
Newest(v) == v \in Version /\ v.rank = Cardinality(versions)
Publishes(d, v) == Stored(v) \/ Queued(d, v)
Signed(s) == {v \in Version : v.status = s}
StaysBlocked == \A h : Blocked(h) => Blocked(h)'

\* With clocks that agree a version is signed as the newest of all.
LEMMA NewestRank ==
  ASSUME TypeOK, "skew" \notin Features, NEW b, NEW s \in Status,
         NEW h \in Hash, NEW w \in BOOLEAN,
         NEW v \in NewVersion(b, s, h, w)
  PROVE  Newest(v)
  BY BoundsAssumption DEF NewVersion, Stamp, Newest, Version

\* A publication adds one version.
LEMMA PublishTop ==
  ASSUME TypeOK, Ordered, NEW d, NEW v, Newest(v), Publishes(d, v)
  PROVE  /\ versions' = versions \cup {v} /\ IsFiniteSet(versions')
         /\ Cardinality(versions) \in Nat
         /\ Cardinality(versions') = Cardinality(versions) + 1
<1>1. versions' = versions \cup {v}
  BY DEF Publishes, Stored, Queued
<1>2. Cardinality(versions) \in Nat
  BY FS_CardinalityType DEF Ordered
<1>3. v \notin versions
  BY <1>2 DEF Ordered, Newest
<1> QED BY <1>1, <1>2, <1>3, FS_AddElement DEF Ordered

\* A relay keeps what it has or takes the new version.
LEMMA PublishRelays ==
  ASSUME TypeOK, NEW d, NEW v, Publishes(d, v), NEW r \in Relay
  PROVE  relay'[r] \in {relay[r], v}
<1>6. PICK S \in SUBSET Relay : relay' = StoreAt(S, v)
  BY DEF Stored, Queued, Publishes
<1> QED  BY <1>6 DEF StoreAt

\* The new version has the highest rank.
LEMMA PublishOrdered ==
  ASSUME TypeOK, Ordered, NEW d, NEW v, Newest(v), Publishes(d, v)
  PROVE  Ordered'
<1>2. /\ versions' = versions \cup {v} /\ IsFiniteSet(versions')
      /\ Cardinality(versions) \in Nat
      /\ Cardinality(versions') = Cardinality(versions) + 1
  BY PublishTop
<1>7. \A r \in Relay : relay'[r] \in {relay[r], v}
  BY PublishRelays
<1>8. \A w \in versions' : w.rank < Cardinality(versions')
  <2> SUFFICES ASSUME NEW w \in versions' PROVE w.rank < Cardinality(versions')
    OBVIOUS
  <2>1. CASE w = v  BY <2>1, <1>2 DEF Newest
  <2>2. CASE w \in versions
    <3>1. w.rank \in Nat  BY <2>2 DEF TypeOK, Version
    <3> QED BY <2>2, <3>1, <1>2 DEF Ordered
  <2> QED BY <2>1, <2>2, <1>2
<1>9. \A e \in Device : outbox'[e] \subseteq outbox[e] \cup {v}
  BY DEF Stored, Queued, TypeOK, Publishes
<1> QED
  BY <1>2, <1>7, <1>8, <1>9 DEF Ordered

\* So it is with whatever an attempt signs.
LEMMA NewOrdered ==
  ASSUME TypeOK, Ordered, "skew" \notin Features, NEW d, NEW b, NEW s \in
         Status,
         NEW h \in Hash, NEW w \in BOOLEAN,
         \/ NotPublished
         \/ \E v \in NewVersion(b, s, h, w) : Stored(v) \/ Queued(d, v)
  PROVE  Ordered'
<1>1. CASE NotPublished  BY <1>1 DEF NotPublished, network, Ordered
<1>2. CASE \E v \in NewVersion(b, s, h, w) : Stored(v) \/ Queued(d, v)
  <2>1. PICK v \in NewVersion(b, s, h, w) : Stored(v) \/ Queued(d, v)
    BY <1>2
  <2>2. Newest(v) /\ Publishes(d, v)
    BY <2>1, NewestRank DEF Publishes
  <2> QED BY <2>2, PublishOrdered
<1> QED BY <1>1, <1>2

\* Every step keeps the ranks in order.
LEMMA KeepOrdered ==
  ASSUME TypeInv, Ordered, "skew" \notin Features, [Next]_vars
  PROVE  Ordered'
<1>1. CASE UNCHANGED network
  BY <1>1 DEF network, Ordered
<1>2. ASSUME NEW a \in Attempt, Step(a), ~UNCHANGED network
      PROVE  Ordered'
  <2>1. CASE Reopen(a)
    <3>1. \/ NotPublished
          \/ \E v \in NewVersion(seen[a].rank, "open", None, FALSE) :
                Stored(v) \/ Queued(dev[a], v)
      BY <2>1 DEF Reopen
    <3> QED BY <3>1, NewOrdered DEF Status, Hash, TypeInv
  <2>2. CASE PublishLock(a)
    <3>1. \/ NotPublished
          \/ \E v \in NewVersion(seen[a].rank, "approving", a, FALSE) :
                Stored(v) \/ Queued(dev[a], v)
      BY <2>2 DEF PublishLock
    <3> QED BY <3>1, NewOrdered DEF Status, Hash, TypeInv
  <2>3. CASE PublishLockFails(a)
    <3>1. \/ NotPublished
          \/ \E v \in NewVersion(seen[a].rank, "approving", a, FALSE) :
                Stored(v) \/ Queued(dev[a], v)
      BY <2>3 DEF PublishLockFails
    <3> QED BY <3>1, NewOrdered DEF Status, Hash, TypeInv
  <2>4. CASE Receipt(a)
    <3>1. \/ NotPublished
          \/ \E v \in NewVersion(seen[a].rank, "paid", entry[a].hash, FALSE) :
                Stored(v) \/ Queued(dev[a], v)
      BY <2>4 DEF Receipt
    <3>2. entry[a].hash \in Hash
      BY <2>4 DEF Receipt, TypeInv, Carried, CarriesEntry, JournalEntry
    <3> QED BY <3>1, <3>2, NewOrdered DEF Status, TypeInv
  <2>5. CASE Unlock(a)
    <3>1. \/ NotPublished
          \/ \E v \in NewVersion(seen[a].rank, "open", None, FALSE) :
                Stored(v) \/ Queued(dev[a], v)
      BY <2>5 DEF Unlock
    <3> QED BY <3>1, NewOrdered DEF Status, Hash, TypeInv
  <2>6. CASE PublishVerdict(a) /\ pc[a] = "vouch"
    <3>1. \/ NotPublished
          \/ \E v \in NewVersion(seen[a].rank, "paid", entry[a].hash, TRUE) :
                Stored(v) \/ Queued(dev[a], v)
      BY <2>6 DEF PublishVerdict
    <3>2. entry[a].hash \in Hash
      BY <2>6 DEF TypeInv, Carried, CarriesEntry, JournalEntry
    <3> QED BY <3>1, <3>2, NewOrdered DEF Status, TypeInv
  <2>7. CASE PublishVerdict(a) /\ pc[a] = "disown"
    <3>1. \/ NotPublished
          \/ \E v \in NewVersion(seen[a].rank, "open", None, FALSE) :
                Stored(v) \/ Queued(dev[a], v)
      BY <2>7 DEF PublishVerdict
    <3> QED BY <3>1, NewOrdered DEF Status, Hash, TypeInv
  <2>8. CASE Cancel(a)
    <3>1. \/ NotPublished
          \/ \E v \in NewVersion(seen[a].rank, "cancelled", None, FALSE) :
                Stored(v) \/ Queued(dev[a], v)
      BY <2>8 DEF Cancel
    <3> QED BY <3>1, NewOrdered DEF Status, Hash, TypeInv
  <2> QED
    BY <1>2, <2>1, <2>2, <2>3, <2>4, <2>5, <2>6, <2>7, <2>8
    DEF Step, ReconcileSettled, ReconcileFailed, ReconcileUnknown, ReconcileForeignWallet,
        PrepareFails, Lock, MarkApproving, StandDown, HoldsLock, AskWallet, PaySucceeds,
        PayFails, PayUnknown, PublishVerdict, Dismiss, SayPaid, SayNotPaid, SweepDropsLock,
        SweepReconciles, SweepFindsNothing
<1>4. ASSUME NEW d \in Device, FlushOutbox(d) PROVE Ordered'
  BY <1>4 DEF FlushOutbox, StoreAt, Ordered, TypeInv, TypeOK
<1>5. CASE Rebroadcast
  BY <1>5 DEF Rebroadcast, Readable, StoreAt, Ordered, TypeInv, TypeOK
<1> QED
  BY <1>1, <1>2, <1>4, <1>5
  DEF Next, vars, network, ApproveStarts, ApproveOpen, ApproveHeldElsewhere,
      ApproveHeldHere, ApproveDropsLock, Sweep, Deactivate, WalletDecides, Prune,
      Crash, ConnectWallet

\* Where nothing is published nothing changes.
LEMMA StillBlocked == UNCHANGED network => StaysBlocked
BY DEF network, Blocked, Blocks, StaysBlocked

\* A new version that blocks h keeps h blocked.
LEMMA PublishBlocked ==
  ASSUME TypeOK, Ordered, NEW d, NEW v, Newest(v), Publishes(d, v),
         NEW h, Blocked(h), Blocks(v, h)
  PROVE  Blocked(h)'
<1> SUFFICES ASSUME NEW r \in Relay, NEW w \in versions', w.rank >= relay'[r].rank
             PROVE  Blocks(w, h)
  BY DEF Blocked, Blocks
<1>1. /\ versions' = versions \cup {v}
      /\ Cardinality(versions) \in Nat
      /\ relay'[r] \in {relay[r], v}
  BY PublishTop, PublishRelays
<1>2. CASE w = v  BY <1>2
<1>3. CASE w # v
  <2>1. w \in versions /\ w.rank \in Nat /\ w.rank < Cardinality(versions)
    BY <1>1, <1>3 DEF Ordered, TypeOK, Version
  <2>3. relay'[r] = relay[r]
    BY <1>1, <2>1 DEF Newest
  <2> QED BY <2>1, <2>3 DEF Blocked
<1> QED BY <1>2, <1>3

\* Receipts, verdicts of "paid" and removals block every hash.
LEMMA NewBlocked ==
  ASSUME TypeOK, Ordered, "skew" \notin Features, NEW d, NEW b, NEW s \in
         {"paid", "cancelled"},
         NEW h \in Hash, NEW w \in BOOLEAN,
         \/ NotPublished
         \/ \E v \in NewVersion(b, s, h, w) : Stored(v) \/ Queued(d, v)
  PROVE  StaysBlocked
<1>1. CASE NotPublished  BY <1>1, StillBlocked DEF NotPublished
<1>2. CASE \E v \in NewVersion(b, s, h, w) : Stored(v) \/ Queued(d, v)
  <2>1. PICK v \in NewVersion(b, s, h, w) : Stored(v) \/ Queued(d, v)
    BY <1>2
  <2>2. Newest(v) /\ Publishes(d, v) /\ v.status = s
    BY <2>1, NewestRank, NewVersionType DEF Publishes, Status
  <2>3. ASSUME NEW g, Blocked(g) PROVE Blocked(g)'
    BY <2>2, <2>3, PublishBlocked DEF Blocks
  <2> QED BY <2>3 DEF StaysBlocked
<1> QED BY <1>1, <1>2

\* A lock that the only relay stored blocks its hash: every version before
\* it is older.
LEMMA LockBlocked ==
  ASSUME TypeOK, Ordered, \A r, s \in Relay : r = s, NEW v, Newest(v),
         Stored(v),
         NEW h, Blocks(v, h)
  PROVE  Blocked(h)'
<1> SUFFICES ASSUME NEW r \in Relay, NEW w \in versions', w.rank >= relay'[r].rank
             PROVE  Blocks(w, h)
  BY DEF Blocked, Blocks
<1>1. versions' = versions \cup {v} /\ Cardinality(versions) \in Nat
  BY PublishTop DEF Publishes
<1>2. PICK T \in SUBSET Relay : T # {} /\ relay' = StoreAt(T, v)
  BY DEF Stored
<1>3. relay[r].rank < v.rank
  BY DEF Ordered, Newest
<1>4. relay'[r] = v
  BY <1>2, <1>3 DEF StoreAt
<1>5. CASE w \in versions
  <2>1. w.rank \in Nat /\ w.rank < Cardinality(versions)
    BY <1>5 DEF Ordered, TypeOK, Version
  <2> QED BY <2>1, <1>1, <1>4 DEF Newest
<1> QED BY <1>5, <1>1

\* Sending again what was signed before cannot unblock.
LEMMA SpreadBlocked ==
  ASSUME TypeOK, NEW S, NEW v \in Version, relay' = StoreAt(S, v), UNCHANGED
         versions, NEW h, Blocked(h)
  PROVE  Blocked(h)'
<1> SUFFICES ASSUME NEW r \in Relay, NEW w \in versions, w.rank >= relay'[r].rank
             PROVE  Blocks(w, h)
  BY DEF Blocked, Blocks
<1>1. relay'[r].rank >= relay[r].rank /\ relay'[r].rank \in Nat /\ relay[r].rank \in Nat
  BY DEF StoreAt, TypeOK, Version
<1>2. w.rank \in Nat
  BY DEF TypeOK, Version
<1>3. w.rank >= relay[r].rank
  BY <1>1, <1>2
<1> QED BY <1>3 DEF Blocked

\* Whoever reads the bounty sees the payment that may be under way.
LEMMA ReadBlocks ==
  ASSUME TypeOK, Ordered, LiveShown, NEW h \in Attempt, Live(h), NEW v \in
         Readable
  PROVE  Blocks(v, h)
<1>1. PICK r \in Relay : v = relay[r]  BY DEF Readable
<1>2. v \in versions /\ v.rank \in Nat  BY <1>1 DEF Ordered, TypeOK, Version
<1>3. v.rank >= relay[r].rank  BY <1>1, <1>2
<1> QED BY <1>2, <1>3 DEF LiveShown, Blocked

\* A lookup that answers "failed" at the wallet that was asked is true.
LEMMA FailedIsFailed ==
  ASSUME SafeInv, Turns, NEW a \in Attempt, ReconcileFailed(a)
  PROVE  entry[a].hash \in Attempt /\ outcome[entry[a].hash] = "failed"
<1>1. /\ dev[a] \in Device /\ entry[a] = journal[dev[a]]
      /\ entry[a].state = "approving" /\ entry[a] \in JournalEntry
      /\ connected[dev[a]] = entry[a].wallet
      /\ "failed" \in LookupAnswers(connected[dev[a]], entry[a].hash)
  BY DEF ReconcileFailed, AsksOwnWallet, SafeInv, TypeInv, Carried, CarriesEntry,
         Turns, Settling
<1>2. entry[a].hash \in Attempt /\ entry[a].wallet = payer[entry[a].hash]
  BY <1>1, NoEntryAssumption DEF Turns, OwnWallet
<1> QED BY <1>1, <1>2 DEF LookupAnswers

\* No attempt goes on to pay, or to reopen, over a payment under way.
LEMMA KeepAlone ==
  ASSUME MaxInFlight = 1, OneRuns, "sweep" \notin Features, "mistake" \notin Features,
         SafeInv, Turns, Ordered, LiveShown, Alone, [Next]_vars
  PROVE  Alone'
<1> USE DEF SafeInv, TypeInv, TypeOK, Carried, CarriesEntry, IInv, Unasked,
            BeforeAsk, Turns, Minted, BeforeLock, OneRuns, Running, Alone,
            OneLive, QuietAhead, OwnLive, Quiet, Live, Goto, locals, money, PC
<1>1. ASSUME NEW a \in Attempt, ReconcileSettled(a) PROVE Alone'
  BY <1>1, NoneAssumption DEF ReconcileSettled, AsksOwnWallet, LookupAnswers
<1>2. ASSUME NEW a \in Attempt, ReconcileFailed(a) PROVE Alone'
  <2>1. entry[a].hash \in Attempt /\ outcome[entry[a].hash] = "failed"
    BY <1>2, FailedIsFailed
  <2>2. pc[a] \in {"reconcile", "sweepReconcile"}
    BY <1>2 DEF ReconcileFailed, AsksOwnWallet
  <2>3. Quiet
    BY <2>1, <2>2
  <2> QED BY <1>2, <2>3 DEF ReconcileFailed, Finish
<1>3. ASSUME NEW a \in Attempt, ReconcileUnknown(a) PROVE Alone'
  BY <1>3, NoneAssumption DEF ReconcileUnknown, Finish
<1>4. ASSUME NEW a \in Attempt, ReconcileForeignWallet(a) PROVE Alone'
  BY <1>4, NoneAssumption DEF ReconcileForeignWallet, Finish
<1>5. ASSUME NEW a \in Attempt, Reopen(a) PROVE Alone'
  BY <1>5, NoneAssumption DEF Reopen
<1>6. ASSUME NEW a \in Attempt, PrepareFails(a) PROVE Alone'
  BY <1>6, NoneAssumption DEF PrepareFails, Finish
<1>7. ASSUME NEW a \in Attempt, Lock(a) PROVE Alone'
  BY <1>7, NoneAssumption DEF Lock
<1>8. ASSUME NEW a \in Attempt, PublishLock(a) PROVE Alone'
  BY <1>8, NoneAssumption DEF PublishLock
<1>9. ASSUME NEW a \in Attempt, PublishLockFails(a) PROVE Alone'
  BY <1>9, NoneAssumption DEF PublishLockFails, Finish
<1>10. ASSUME NEW a \in Attempt, MarkApproving(a) PROVE Alone'
  BY <1>10, NoneAssumption DEF MarkApproving
<1>11. ASSUME NEW a \in Attempt, StandDown(a) PROVE Alone'
  BY <1>11, NoneAssumption DEF StandDown, Finish
<1>12. ASSUME NEW a \in Attempt, HoldsLock(a) PROVE Alone'
  BY <1>12, NoneAssumption DEF HoldsLock
<1>13. ASSUME NEW a \in Attempt, AskWallet(a) PROVE Alone'
  BY <1>13, NoneAssumption DEF AskWallet
<1>14. ASSUME NEW a \in Attempt, PaySucceeds(a) PROVE Alone'
  BY <1>14, NoneAssumption DEF PaySucceeds
<1>15. ASSUME NEW a \in Attempt, PayFails(a) PROVE Alone'
  BY <1>15, NoneAssumption DEF PayFails
<1>16. ASSUME NEW a \in Attempt, PayUnknown(a) PROVE Alone'
  BY <1>16, NoneAssumption DEF PayUnknown, Finish
<1>17. ASSUME NEW a \in Attempt, Receipt(a) PROVE Alone'
  BY <1>17, NoneAssumption DEF Receipt, Finish
<1>18. ASSUME NEW a \in Attempt, Unlock(a) PROVE Alone'
  BY <1>18, NoneAssumption DEF Unlock, Finish
<1>19. ASSUME NEW a \in Attempt, Dismiss(a) PROVE Alone'
  BY <1>19, NoneAssumption DEF Dismiss, Finish
<1>20. ASSUME NEW a \in Attempt, SayPaid(a) PROVE Alone'
  BY <1>20, NoneAssumption DEF SayPaid
<1>21. ASSUME NEW a \in Attempt, SayNotPaid(a) PROVE Alone'
  BY <1>21, NoneAssumption DEF SayNotPaid, VerdictIsTrue
<1>22. ASSUME NEW a \in Attempt, PublishVerdict(a) PROVE Alone'
  BY <1>22, NoneAssumption DEF PublishVerdict, Finish
<1>23. ASSUME NEW a \in Attempt, SweepDropsLock(a) PROVE Alone'
  BY <1>23, NoneAssumption DEF SweepDropsLock, Finish
<1>24. ASSUME NEW a \in Attempt, SweepReconciles(a) PROVE Alone'
  BY <1>24, NoneAssumption DEF SweepReconciles
<1>25. ASSUME NEW a \in Attempt, SweepFindsNothing(a) PROVE Alone'
  BY <1>25, NoneAssumption DEF SweepFindsNothing, Finish
<1>26. ASSUME NEW a \in Attempt, Cancel(a) PROVE Alone'
  BY <1>26, NoneAssumption DEF Cancel, Finish
<1>27. ASSUME NEW a \in Attempt, NEW d \in Device, ApproveOpen(a, d)
      PROVE  Alone'
  <2>1. PICK v \in Readable : Start(a, d) /\ v.status = "open"
    BY <1>27 DEF ApproveOpen
  <2>2. Quiet
    BY <2>1, ReadBlocks DEF Blocks
  <2> QED BY <1>27, <2>2 DEF ApproveOpen, Start
<1>28. ASSUME NEW a \in Attempt, NEW d \in Device, ApproveHeldElsewhere(a, d)
      PROVE  Alone'
  BY <1>28, NoneAssumption DEF ApproveHeldElsewhere, Start, Reads
<1>29. ASSUME NEW a \in Attempt, NEW d \in Device, ApproveHeldHere(a, d)
      PROVE  Alone'
  <2>1. PICK v \in Readable :
          /\ v.status \in {"open", "approving"}
          /\ journal[d] # None /\ ~HeldElsewhere(v, journal[d])
          /\ Start(a, d) /\ entry' = [entry EXCEPT ![a] = journal[d]]
          /\ \E label \in {"receipt", "reconcile"} : Goto(a, label)
          /\ UNCHANGED outcome
    BY <1>29 DEF ApproveHeldHere, Reads
  <2>2. \A h \in Attempt : Live(h) => h = journal[d].hash
    BY <2>1, ReadBlocks DEF Blocks, HeldElsewhere
  <2> QED BY <2>1, <2>2 DEF Start
<1>30. ASSUME NEW a \in Attempt, NEW d \in Device, ApproveDropsLock(a, d)
      PROVE  Alone'
  <2>1. PICK v \in Readable :
          /\ v.status \in {"open", "approving"} /\ Start(a, d)
          /\ journal[d] # None /\ ~HeldElsewhere(v, journal[d])
          /\ journal[d].state = "locking"
    BY <1>30 DEF ApproveDropsLock
  <2>2. \A h \in Attempt : Live(h) => h = journal[d].hash
    BY <2>1, ReadBlocks DEF Blocks, HeldElsewhere
  <2>3. Quiet
    BY <2>1, <2>2 DEF LockingUnasked
  <2> QED BY <1>30, <2>3 DEF ApproveDropsLock, Start
<1>31. ASSUME NEW a \in Attempt, NEW d \in Device, Sweep(a, d) PROVE Alone'
  BY <1>31, NoneAssumption DEF Sweep, Start, Held
<1>32. ASSUME NEW a \in Attempt, NEW d \in Device, Deactivate(a, d)
      PROVE  Alone'
  BY <1>32, NoneAssumption DEF Deactivate, Start, Held
<1>33. ASSUME NEW d \in Device, FlushOutbox(d) PROVE Alone'
  BY <1>33, NoneAssumption DEF FlushOutbox
<1>34. ASSUME NEW d \in Device, Prune(d) PROVE Alone'
  BY <1>34, NoneAssumption DEF Prune
<1>35. ASSUME NEW d \in Device, Crash(d) PROVE Alone'
  BY <1>35, NoneAssumption DEF Crash
<1>36. ASSUME NEW d \in Device, NEW w \in Wallet \cup {None}, ConnectWallet(d, w)
      PROVE  Alone'
  BY <1>36, NoneAssumption DEF ConnectWallet
<1>37. ASSUME Rebroadcast PROVE Alone'
  BY <1>37, NoneAssumption DEF Rebroadcast
<1>38. ASSUME NEW a \in Attempt, WalletDecides(a) PROVE Alone'
  BY <1>38, NoneAssumption DEF WalletDecides
<1>39. CASE UNCHANGED vars
  BY <1>39 DEF vars
<1> QED
  BY <1>1, <1>2, <1>3, <1>4, <1>5, <1>6, <1>7, <1>8, <1>9, <1>10, <1>11,
     <1>12, <1>13, <1>14, <1>15, <1>16, <1>17, <1>18, <1>19, <1>20, <1>21,
     <1>22, <1>23, <1>24, <1>25, <1>26, <1>27, <1>28, <1>29, <1>30, <1>31,
     <1>32, <1>33, <1>34, <1>35, <1>36, <1>37, <1>38, <1>39
  DEF Next, Step, ApproveStarts

\* A lock is public before its wallet is asked, and nothing that is published
\* or sent again while the wallet may pay takes its place.
LEMMA KeepShown ==
  ASSUME MaxInFlight = 1, OneRuns, "skew" \notin Features, "sweep" \notin Features,
         \A r, s \in Relay : r = s,
         SafeInv, Turns, Ordered, LiveShown, LockShown, Alone, [Next]_vars
  PROVE  LiveShown' /\ LockShown'
<1> USE DEF SafeInv, TypeInv, TypeOK, Carried, CarriesEntry, Turns, OneRuns,
            Running, Alone, QuietAhead, Quiet, LiveShown, LockShown,
            StaysBlocked, Live, Goto, locals, money, PC
<1> HIDE DEF Alone
<1>1. ASSUME NEW a \in Attempt, ReconcileSettled(a)
      PROVE  LiveShown' /\ LockShown'
  BY <1>1, NoneAssumption, StillBlocked DEF ReconcileSettled, AsksOwnWallet, LookupAnswers
<1>2. ASSUME NEW a \in Attempt, ReconcileFailed(a)
      PROVE  LiveShown' /\ LockShown'
  BY <1>2, NoneAssumption, StillBlocked
  DEF ReconcileFailed, AsksOwnWallet, LookupAnswers, Finish
<1>3. ASSUME NEW a \in Attempt, ReconcileUnknown(a)
      PROVE  LiveShown' /\ LockShown'
  BY <1>3, NoneAssumption, StillBlocked DEF ReconcileUnknown, Finish
<1>4. ASSUME NEW a \in Attempt, ReconcileForeignWallet(a)
      PROVE  LiveShown' /\ LockShown'
  BY <1>4, NoneAssumption, StillBlocked DEF ReconcileForeignWallet, Finish
<1>5. ASSUME NEW a \in Attempt, Reopen(a) PROVE LiveShown' /\ LockShown'
  <2>1. Quiet /\ UNCHANGED outcome
    BY <1>5 DEF Reopen, Alone
  <2>2. \A b \in Attempt : pc'[b] \notin {"locked", "settle", "pay"}
    BY <1>5 DEF Reopen
  <2> QED BY <2>1, <2>2
<1>6. ASSUME NEW a \in Attempt, PrepareFails(a) PROVE LiveShown' /\ LockShown'
  BY <1>6, NoneAssumption, StillBlocked DEF PrepareFails, Finish
<1>7. ASSUME NEW a \in Attempt, Lock(a) PROVE LiveShown' /\ LockShown'
  BY <1>7, NoneAssumption, StillBlocked DEF Lock
<1>8. ASSUME NEW a \in Attempt, PublishLock(a) PROVE LiveShown' /\ LockShown'
  <2>1. Quiet /\ UNCHANGED outcome
    BY <1>8 DEF PublishLock, Alone
  <2>2. \A b \in Attempt : pc'[b] \in {"locked", "settle", "pay"} => b = a
    BY <1>8 DEF PublishLock, Alone
  <2>3. PICK v \in NewVersion(seen[a].rank, "approving", a, FALSE) : Stored(v)
    BY <1>8 DEF PublishLock, Alone
  <2>4. Newest(v) /\ v.status = "approving" /\ v.hash = a
    <3>1. Newest(v)
      BY <2>3, NewestRank DEF Status, Hash
    <3>2. v.status = "approving" /\ v.hash = a
      BY <2>3 DEF NewVersion
    <3> QED BY <3>1, <3>2
  <2>5. Blocked(a)'
    BY <2>3, <2>4, LockBlocked DEF Blocks
  <2> QED BY <2>1, <2>2, <2>5
<1>9. ASSUME NEW a \in Attempt, PublishLockFails(a)
      PROVE  LiveShown' /\ LockShown'
  <2>1. Quiet /\ UNCHANGED outcome
    BY <1>9 DEF PublishLockFails, Alone
  <2>2. \A b \in Attempt : pc'[b] \notin {"locked", "settle", "pay"}
    BY <1>9 DEF PublishLockFails, Finish
  <2> QED BY <2>1, <2>2
<1>10. ASSUME NEW a \in Attempt, MarkApproving(a)
      PROVE  LiveShown' /\ LockShown'
  BY <1>10, NoneAssumption, StillBlocked DEF MarkApproving
<1>11. ASSUME NEW a \in Attempt, StandDown(a) PROVE LiveShown' /\ LockShown'
  BY <1>11, NoneAssumption, StillBlocked DEF StandDown, Finish
<1>12. ASSUME NEW a \in Attempt, HoldsLock(a) PROVE LiveShown' /\ LockShown'
  BY <1>12, NoneAssumption, StillBlocked DEF HoldsLock
<1>13. ASSUME NEW a \in Attempt, AskWallet(a) PROVE LiveShown' /\ LockShown'
  BY <1>13, NoneAssumption, StillBlocked DEF AskWallet
<1>14. ASSUME NEW a \in Attempt, PaySucceeds(a) PROVE LiveShown' /\ LockShown'
  BY <1>14, NoneAssumption, StillBlocked DEF PaySucceeds
<1>15. ASSUME NEW a \in Attempt, PayFails(a) PROVE LiveShown' /\ LockShown'
  BY <1>15, NoneAssumption, StillBlocked DEF PayFails
<1>16. ASSUME NEW a \in Attempt, PayUnknown(a) PROVE LiveShown' /\ LockShown'
  BY <1>16, NoneAssumption, StillBlocked DEF PayUnknown, Finish
<1>17. ASSUME NEW a \in Attempt, Receipt(a) PROVE LiveShown' /\ LockShown'
  <2>1. entry[a].hash \in Hash
    BY <1>17 DEF Receipt, JournalEntry
  <2>2. StaysBlocked
    <3>1. \/ NotPublished
          \/ \E v \in NewVersion(seen[a].rank, "paid", entry[a].hash, FALSE) :
                Stored(v) \/ Queued(dev[a], v)
      BY <1>17 DEF Receipt
    <3> QED BY <2>1, <3>1, NewBlocked
  <2>3. UNCHANGED outcome /\ \A b \in Attempt : pc'[b] \notin {"locked", "settle", "pay"}
    BY <1>17 DEF Receipt, Finish
  <2> QED BY <2>2, <2>3
<1>18. ASSUME NEW a \in Attempt, Unlock(a) PROVE LiveShown' /\ LockShown'
  <2>1. Quiet /\ UNCHANGED outcome
    BY <1>18 DEF Unlock, Alone
  <2>2. \A b \in Attempt : pc'[b] \notin {"locked", "settle", "pay"}
    BY <1>18 DEF Unlock, Finish
  <2> QED BY <2>1, <2>2
<1>19. ASSUME NEW a \in Attempt, Dismiss(a) PROVE LiveShown' /\ LockShown'
  BY <1>19, NoneAssumption, StillBlocked DEF Dismiss, Finish
<1>20. ASSUME NEW a \in Attempt, SayPaid(a) PROVE LiveShown' /\ LockShown'
  BY <1>20, NoneAssumption, StillBlocked DEF SayPaid
<1>21. ASSUME NEW a \in Attempt, SayNotPaid(a) PROVE LiveShown' /\ LockShown'
  BY <1>21, NoneAssumption, StillBlocked DEF SayNotPaid, VerdictIsTrue
<1>22. ASSUME NEW a \in Attempt, PublishVerdict(a)
      PROVE  LiveShown' /\ LockShown'
  <2>1. CASE pc[a] = "disown"
    <3>1. Quiet /\ UNCHANGED outcome
      BY <1>22, <2>1 DEF PublishVerdict, Alone
    <3>2. \A b \in Attempt : pc'[b] \notin {"locked", "settle", "pay"}
      BY <1>22 DEF PublishVerdict, Finish
    <3> QED BY <3>1, <3>2
  <2>2. CASE pc[a] = "vouch"
    <3>1. entry[a].hash \in Hash
      BY <2>2 DEF JournalEntry
    <3>2. StaysBlocked
      <4>1. \/ NotPublished
            \/ \E v \in NewVersion(seen[a].rank, "paid", entry[a].hash, TRUE) :
                  Stored(v) \/ Queued(dev[a], v)
        BY <1>22, <2>2 DEF PublishVerdict
      <4> QED BY <3>1, <4>1, NewBlocked
    <3>3. UNCHANGED outcome /\ \A b \in Attempt : pc'[b] \notin {"locked", "settle", "pay"}
      BY <1>22 DEF PublishVerdict, Finish
    <3> QED BY <3>2, <3>3
  <2> QED BY <1>22, <2>1, <2>2 DEF PublishVerdict
<1>23. ASSUME NEW a \in Attempt, SweepDropsLock(a)
      PROVE  LiveShown' /\ LockShown'
  BY <1>23, NoneAssumption, StillBlocked DEF SweepDropsLock, Finish
<1>24. ASSUME NEW a \in Attempt, SweepReconciles(a)
      PROVE  LiveShown' /\ LockShown'
  BY <1>24, NoneAssumption, StillBlocked DEF SweepReconciles
<1>25. ASSUME NEW a \in Attempt, SweepFindsNothing(a)
      PROVE  LiveShown' /\ LockShown'
  BY <1>25, NoneAssumption, StillBlocked DEF SweepFindsNothing, Finish
<1>26. ASSUME NEW a \in Attempt, Cancel(a) PROVE LiveShown' /\ LockShown'
  <2>2. StaysBlocked
    <3>1. \/ NotPublished
          \/ \E v \in NewVersion(seen[a].rank, "cancelled", None, FALSE) :
                Stored(v) \/ Queued(dev[a], v)
      BY <1>26 DEF Cancel
    <3> QED BY <3>1, NewBlocked DEF Hash
  <2>3. UNCHANGED outcome /\ \A b \in Attempt : pc'[b] \notin {"locked", "settle", "pay"}
    BY <1>26 DEF Cancel, Finish
  <2> QED BY <2>2, <2>3
<1>27. ASSUME NEW a \in Attempt, NEW d \in Device, ApproveOpen(a, d)
      PROVE  LiveShown' /\ LockShown'
  BY <1>27, NoneAssumption, StillBlocked DEF ApproveOpen, Start, Reads
<1>28. ASSUME NEW a \in Attempt, NEW d \in Device, ApproveHeldElsewhere(a, d)
      PROVE  LiveShown' /\ LockShown'
  BY <1>28, NoneAssumption, StillBlocked DEF ApproveHeldElsewhere, Start, Reads
<1>29. ASSUME NEW a \in Attempt, NEW d \in Device, ApproveHeldHere(a, d)
      PROVE  LiveShown' /\ LockShown'
  BY <1>29, NoneAssumption, StillBlocked DEF ApproveHeldHere, Start, Reads, HeldElsewhere
<1>30. ASSUME NEW a \in Attempt, NEW d \in Device, ApproveDropsLock(a, d)
      PROVE  LiveShown' /\ LockShown'
  BY <1>30, NoneAssumption, StillBlocked DEF ApproveDropsLock, Start, HeldElsewhere
<1>31. ASSUME NEW a \in Attempt, NEW d \in Device, Sweep(a, d)
      PROVE  LiveShown' /\ LockShown'
  BY <1>31, NoneAssumption, StillBlocked DEF Sweep, Start, Held
<1>32. ASSUME NEW a \in Attempt, NEW d \in Device, Deactivate(a, d)
      PROVE  LiveShown' /\ LockShown'
  BY <1>32, NoneAssumption, StillBlocked DEF Deactivate, Start, Held
<1>33. ASSUME NEW d \in Device, FlushOutbox(d) PROVE LiveShown' /\ LockShown'
  <2>1. PICK v \in outbox[d], S \in SUBSET Relay : relay' = StoreAt(S, v)
    BY <1>33 DEF FlushOutbox
  <2>2. v \in Version /\ UNCHANGED <<versions, locals, outcome>>
    BY <1>33, <2>1 DEF FlushOutbox
  <2>3. StaysBlocked
    BY <2>1, <2>2, SpreadBlocked
  <2> QED BY <2>2, <2>3
<1>34. ASSUME NEW d \in Device, Prune(d) PROVE LiveShown' /\ LockShown'
  BY <1>34, NoneAssumption, StillBlocked DEF Prune
<1>35. ASSUME NEW d \in Device, Crash(d) PROVE LiveShown' /\ LockShown'
  BY <1>35, NoneAssumption, StillBlocked DEF Crash
<1>36. ASSUME NEW d \in Device, NEW w \in Wallet \cup {None}, ConnectWallet(d, w)
      PROVE  LiveShown' /\ LockShown'
  BY <1>36, NoneAssumption, StillBlocked DEF ConnectWallet
<1>37. ASSUME Rebroadcast PROVE LiveShown' /\ LockShown'
  <2>1. PICK v \in Readable, S \in SUBSET Relay : relay' = StoreAt(S, v)
    BY <1>37 DEF Rebroadcast
  <2>2. v \in Version /\ UNCHANGED <<versions, locals, outcome>>
    BY <1>37, <2>1 DEF Rebroadcast, Readable
  <2>3. StaysBlocked
    BY <2>1, <2>2, SpreadBlocked
  <2> QED BY <2>2, <2>3
<1>38. ASSUME NEW a \in Attempt, WalletDecides(a)
      PROVE  LiveShown' /\ LockShown'
  BY <1>38, NoneAssumption, StillBlocked DEF WalletDecides
<1>39. CASE UNCHANGED vars
  BY <1>39, StillBlocked DEF vars, network
<1> QED
  BY <1>1, <1>2, <1>3, <1>4, <1>5, <1>6, <1>7, <1>8, <1>9, <1>10, <1>11,
     <1>12, <1>13, <1>14, <1>15, <1>16, <1>17, <1>18, <1>19, <1>20, <1>21,
     <1>22, <1>23, <1>24, <1>25, <1>26, <1>27, <1>28, <1>29, <1>30, <1>31,
     <1>32, <1>33, <1>34, <1>35, <1>36, <1>37, <1>38, <1>39
  DEF Next, Step, ApproveStarts

\* The inductive invariant of several devices.
THEOREM ShowCorrect ==
  ASSUME OneRelay, MaxInFlight = 1, "skew" \notin Features, "sweep" \notin Features,
         "mistake" \notin Features
  PROVE  Spec => []ShowInv
<1>1. Init => Ordered /\ LiveShown /\ LockShown /\ Alone
  <2> SUFFICES ASSUME Init PROVE Ordered /\ LiveShown /\ LockShown /\ Alone
    OBVIOUS
  <2>1. IsFiniteSet(versions) /\ Cardinality(versions) = 1
    BY FS_Singleton DEF Init
  <2>2. Ordered
    BY <2>1 DEF Init, FirstVersion, Ordered
  <2>3. LiveShown /\ LockShown /\ Alone
    BY DEF Init, LiveShown, LockShown, Alone, OneLive, QuietAhead, OwnLive, Live
  <2> QED BY <2>2, <2>3
<1>2. ShowInv /\ [Next]_vars => Ordered' /\ LiveShown' /\ LockShown' /\ Alone'
  BY KeepOrdered, KeepShown, KeepAlone DEF OneRelay, ShowInv, TurnsInv, SafeInv
<1> QED BY <1>1, <1>2, TurnsOfAll, TurnsAreTaken, PTL DEF Spec, ShowInv

\* At most one payment, and the refinement of PayOnce, for any number of devices
\* that take turns at one relay, with outboxes, prunes and removals.
THEOREM OneRelayPaysOnce ==
  ASSUME OneRelay, MaxInFlight = 1, "skew" \notin Features, "sweep" \notin Features,
         "mistake" \notin Features
  PROVE  Spec => PaysOnce /\ []AtMostOnePayment
<1>1. ShowInv /\ [Next]_vars => [Promise!Next]_outcome
  <2>1. ShowInv => AskedQuietly
    BY DEF ShowInv, Alone, QuietAhead, AskedQuietly
  <2> QED BY <2>1, PromiseStep DEF ShowInv, TurnsInv, SafeInv, IInv
<1>2. ShowInv => AtMostOnePayment
  BY DEF ShowInv, Alone, OneLive, Live, AtMostOnePayment
<1> QED BY <1>1, <1>2, PromiseInit, ShowCorrect, PTL DEF Spec, PaysOnce, Promise!Spec

-----------------------------------------------------------------------------
(* Paid is final. *)

\* Without removals there is no `cancelled` version to come, outboxes hold
\* reopenings and receipts, and a creator who says "paid" is right.
Standing ==
  /\ \A d \in Device : outbox[d] \subseteq Signed("open") \cup Signed("paid")
  /\ \A a \in Attempt : pc[a] # "cancel"
  /\ vouched # {} => \E h \in Attempt : outcome[h] = "settled"

FinalInv == ShowInv /\ Standing

\* What a publication can add to an outbox.
LEMMA NewQueued ==
  ASSUME TypeOK, NEW d \in Device, NEW b, NEW s \in Status,
         NEW h \in Hash, NEW w \in BOOLEAN,
         \/ NotPublished
         \/ \E v \in NewVersion(b, s, h, w) : Stored(v) \/ Queued(d, v)
  PROVE  \A e \in Device : outbox'[e] \subseteq outbox[e] \cup Signed(s)
<1>1. CASE UNCHANGED outbox
  BY <1>1
<1>2. ASSUME NEW u \in NewVersion(b, s, h, w), Queued(d, u)
      PROVE \A e \in Device : outbox'[e] \subseteq outbox[e] \cup Signed(s)
  <2>1. u \in Signed(s)
    BY <1>2, NewVersionType DEF Signed
  <2> QED BY <1>2, <2>1 DEF Queued, TypeOK
<1> QED BY <1>1, <1>2 DEF NotPublished, network, Stored

\* And to a relay.
LEMMA NewOnRelay ==
  ASSUME TypeOK, NEW d, NEW b, NEW s \in Status, NEW h \in Hash, NEW w \in
         BOOLEAN,
         \/ NotPublished
         \/ \E v \in NewVersion(b, s, h, w) : Stored(v) \/ Queued(d, v)
  PROVE  \A r \in Relay : relay'[r] \in {relay[r]} \cup Signed(s)
<1>1. CASE NotPublished
  BY <1>1 DEF NotPublished, network
<1>2. ASSUME NEW v \in NewVersion(b, s, h, w), Stored(v) \/ Queued(d, v)
      PROVE  \A r \in Relay : relay'[r] \in {relay[r]} \cup Signed(s)
  <2>1. v \in Signed(s)
    BY <1>2, NewVersionType DEF Signed
  <2>2. \A r \in Relay : relay'[r] \in {relay[r], v}
    BY <1>2, PublishRelays DEF Publishes
  <2> QED BY <2>1, <2>2
<1> QED BY <1>1, <1>2

\* Only reopenings and receipts are queued.
LEMMA KeepStanding ==
  ASSUME "remove" \notin Features, "mistake" \notin Features, SafeInv,
         Standing, [Next]_vars
  PROVE  Standing'
<1> USE DEF SafeInv, TypeInv, TypeOK, Carried, CarriesEntry, IInv, Unasked,
            BeforeAsk, Standing, Goto, locals, money, network, PC
<1>1. ASSUME NEW a \in Attempt, ReconcileSettled(a) PROVE Standing'
  BY <1>1 DEF ReconcileSettled, AsksOwnWallet, LookupAnswers
<1>2. ASSUME NEW a \in Attempt, ReconcileFailed(a) PROVE Standing'
  BY <1>2 DEF ReconcileFailed, AsksOwnWallet, LookupAnswers, Finish
<1>3. ASSUME NEW a \in Attempt, ReconcileUnknown(a) PROVE Standing'
  BY <1>3 DEF ReconcileUnknown, Finish
<1>4. ASSUME NEW a \in Attempt, ReconcileForeignWallet(a) PROVE Standing'
  BY <1>4 DEF ReconcileForeignWallet, Finish
<1>5. ASSUME NEW a \in Attempt, Reopen(a) PROVE Standing'
  <2>1. \/ NotPublished
        \/ \E v \in NewVersion(seen[a].rank, "open", None, FALSE) :
              Stored(v) \/ Queued(dev[a], v)
    BY <1>5 DEF Reopen
  <2>2. dev[a] \in Device
    BY <1>5 DEF Reopen
  <2>3. \A d \in Device : outbox'[d] \subseteq outbox[d] \cup Signed("open")
    <3>1. TypeOK /\ "open" \in Status /\ None \in Hash
      BY <1>5 DEF Reopen, Status, Hash, JournalEntry
    <3> HIDE DEF TypeOK, SafeInv, Carried
    <3> QED BY <2>1, <2>2, <3>1, NewQueued
  <2> QED BY <1>5, <2>3 DEF Signed, Reopen
<1>6. ASSUME NEW a \in Attempt, PrepareFails(a) PROVE Standing'
  BY <1>6 DEF PrepareFails, Finish
<1>7. ASSUME NEW a \in Attempt, Lock(a) PROVE Standing'
  BY <1>7 DEF Lock
<1>8. ASSUME NEW a \in Attempt, PublishLock(a) PROVE Standing'
  BY <1>8 DEF PublishLock, Stored
<1>9. ASSUME NEW a \in Attempt, PublishLockFails(a) PROVE Standing'
  BY <1>9 DEF PublishLockFails, Finish, NotPublished, Stored
<1>10. ASSUME NEW a \in Attempt, MarkApproving(a) PROVE Standing'
  BY <1>10 DEF MarkApproving
<1>11. ASSUME NEW a \in Attempt, StandDown(a) PROVE Standing'
  BY <1>11 DEF StandDown, Finish
<1>12. ASSUME NEW a \in Attempt, HoldsLock(a) PROVE Standing'
  BY <1>12 DEF HoldsLock
<1>13. ASSUME NEW a \in Attempt, AskWallet(a) PROVE Standing'
  BY <1>13 DEF AskWallet
<1>14. ASSUME NEW a \in Attempt, PaySucceeds(a) PROVE Standing'
  BY <1>14 DEF PaySucceeds
<1>15. ASSUME NEW a \in Attempt, PayFails(a) PROVE Standing'
  BY <1>15 DEF PayFails
<1>16. ASSUME NEW a \in Attempt, PayUnknown(a) PROVE Standing'
  BY <1>16 DEF PayUnknown, Finish
<1>17. ASSUME NEW a \in Attempt, Receipt(a) PROVE Standing'
  <2>1. \/ NotPublished
        \/ \E v \in NewVersion(seen[a].rank, "paid", entry[a].hash, FALSE) :
              Stored(v) \/ Queued(dev[a], v)
    BY <1>17 DEF Receipt
  <2>2. dev[a] \in Device
    BY <1>17 DEF Receipt
  <2>3. \A d \in Device : outbox'[d] \subseteq outbox[d] \cup Signed("paid")
    <3>1. TypeOK /\ "paid" \in Status /\ entry[a].hash \in Hash
      BY <1>17 DEF Receipt, Status, Hash, JournalEntry
    <3> HIDE DEF TypeOK, SafeInv, Carried
    <3> QED BY <2>1, <2>2, <3>1, NewQueued
  <2> QED BY <1>17, <2>3 DEF Signed, Receipt, Finish
<1>18. ASSUME NEW a \in Attempt, Unlock(a) PROVE Standing'
  <2>1. \/ NotPublished
        \/ \E v \in NewVersion(seen[a].rank, "open", None, FALSE) :
              Stored(v) \/ Queued(dev[a], v)
    BY <1>18 DEF Unlock
  <2>2. dev[a] \in Device
    BY <1>18 DEF Unlock
  <2>3. \A d \in Device : outbox'[d] \subseteq outbox[d] \cup Signed("open")
    <3>1. TypeOK /\ "open" \in Status /\ None \in Hash
      BY <1>18 DEF Unlock, Status, Hash, JournalEntry
    <3> HIDE DEF TypeOK, SafeInv, Carried
    <3> QED BY <2>1, <2>2, <3>1, NewQueued
  <2> QED BY <1>18, <2>3 DEF Signed, Unlock, Finish
<1>19. ASSUME NEW a \in Attempt, Dismiss(a) PROVE Standing'
  BY <1>19 DEF Dismiss, Finish
<1>20. ASSUME NEW a \in Attempt, SayPaid(a) PROVE Standing'
  BY <1>20 DEF SayPaid, VerdictIsTrue
<1>21. ASSUME NEW a \in Attempt, SayNotPaid(a) PROVE Standing'
  BY <1>21 DEF SayNotPaid
<1>22. ASSUME NEW a \in Attempt, PublishVerdict(a) PROVE Standing'
  BY <1>22 DEF PublishVerdict, Finish, NotPublished, Stored
<1>23. ASSUME NEW a \in Attempt, SweepDropsLock(a) PROVE Standing'
  BY <1>23 DEF SweepDropsLock, Finish
<1>24. ASSUME NEW a \in Attempt, SweepReconciles(a) PROVE Standing'
  BY <1>24 DEF SweepReconciles
<1>25. ASSUME NEW a \in Attempt, SweepFindsNothing(a) PROVE Standing'
  BY <1>25 DEF SweepFindsNothing, Finish
<1>26. ASSUME NEW a \in Attempt, Cancel(a) PROVE Standing'
  BY <1>26 DEF Cancel, Finish, NotPublished, Stored
<1>27. ASSUME NEW a \in Attempt, NEW d \in Device, ApproveOpen(a, d)
      PROVE  Standing'
  BY <1>27 DEF ApproveOpen, Start, Reads
<1>28. ASSUME NEW a \in Attempt, NEW d \in Device, ApproveHeldElsewhere(a, d)
      PROVE  Standing'
  BY <1>28 DEF ApproveHeldElsewhere, Start, Reads
<1>29. ASSUME NEW a \in Attempt, NEW d \in Device, ApproveHeldHere(a, d)
      PROVE  Standing'
  BY <1>29 DEF ApproveHeldHere, Start, Reads, HeldElsewhere
<1>30. ASSUME NEW a \in Attempt, NEW d \in Device, ApproveDropsLock(a, d)
      PROVE  Standing'
  BY <1>30 DEF ApproveDropsLock, Start, HeldElsewhere
<1>31. ASSUME NEW a \in Attempt, NEW d \in Device, Sweep(a, d) PROVE Standing'
  BY <1>31 DEF Sweep, Start, Held
<1>32. ASSUME NEW a \in Attempt, NEW d \in Device, Deactivate(a, d)
      PROVE  Standing'
  BY <1>32 DEF Deactivate, Start, Held
<1>33. ASSUME NEW d \in Device, FlushOutbox(d) PROVE Standing'
  BY <1>33 DEF FlushOutbox
<1>34. ASSUME NEW d \in Device, Prune(d) PROVE Standing'
  BY <1>34 DEF Prune
<1>35. ASSUME NEW d \in Device, Crash(d) PROVE Standing'
  BY <1>35 DEF Crash
<1>36. ASSUME NEW d \in Device, NEW w \in Wallet \cup {None}, ConnectWallet(d, w)
      PROVE  Standing'
  BY <1>36 DEF ConnectWallet
<1>37. ASSUME Rebroadcast PROVE Standing'
  BY <1>37 DEF Rebroadcast
<1>38. ASSUME NEW a \in Attempt, WalletDecides(a) PROVE Standing'
  BY <1>38 DEF WalletDecides
<1>39. CASE UNCHANGED vars
  BY <1>39 DEF vars
<1> QED
  BY <1>1, <1>2, <1>3, <1>4, <1>5, <1>6, <1>7, <1>8, <1>9, <1>10, <1>11,
     <1>12, <1>13, <1>14, <1>15, <1>16, <1>17, <1>18, <1>19, <1>20, <1>21,
     <1>22, <1>23, <1>24, <1>25, <1>26, <1>27, <1>28, <1>29, <1>30, <1>31,
     <1>32, <1>33, <1>34, <1>35, <1>36, <1>37, <1>38, <1>39
  DEF Next, Step, ApproveStarts

\* Once the bounty is shown paid some payment has settled, and then whatever an
\* attempt publishes, or an outbox still has for the relay, says so too.
LEMMA PaidStays ==
  ASSUME OneRelay, FinalInv, [Next]_vars, NEW r \in Relay, relay[r].status = "paid"
  PROVE  relay'[r].status = "paid"
<1> USE DEF FinalInv, ShowInv, TurnsInv, SafeInv, TypeInv
<1>1. PICK h \in Attempt : Live(h)
  <2>1. Confirmed(relay[r].hash)
    BY DEF Ordered, IInv, TrueRecords
  <2> QED BY <2>1 DEF Confirmed, Standing, Live
<1>2. ~Quiet
  BY <1>1 DEF Quiet
<1>3. CASE UNCHANGED relay
  BY <1>3
<1>4. ASSUME NEW a \in Attempt, Step(a), relay' # relay
      PROVE  relay'[r].status = "paid"
  <2>1. pc[a] \notin {"reopen", "lock", "unlock", "disown", "cancel"}
    BY <1>2 DEF Alone, QuietAhead, Standing
  <2>2. Receipt(a) \/ (PublishVerdict(a) /\ pc[a] = "vouch")
    BY <1>4, <2>1
    DEF Step, ReconcileSettled, ReconcileFailed, ReconcileUnknown, ReconcileForeignWallet,
        Reopen, PrepareFails, Lock, PublishLock, PublishLockFails, MarkApproving, StandDown,
        HoldsLock, AskWallet, PaySucceeds, PayFails, PayUnknown, Unlock, PublishVerdict,
        Dismiss, SayPaid, SayNotPaid, SweepDropsLock, SweepReconciles, SweepFindsNothing,
        Cancel, network
  <2>3. PICK w \in BOOLEAN :
          \/ NotPublished
          \/ \E v \in NewVersion(seen[a].rank, "paid", entry[a].hash, w) :
                Stored(v) \/ Queued(dev[a], v)
    BY <2>2 DEF Receipt, PublishVerdict
  <2>4. entry[a].hash \in Hash
    BY <2>2 DEF Receipt, Carried, CarriesEntry, JournalEntry
  <2>5. relay'[r] \in {relay[r]} \cup Signed("paid")
    BY <2>3, <2>4, NewOnRelay DEF Status
  <2> QED BY <2>5 DEF Signed
<1>5. ASSUME NEW d \in Device, FlushOutbox(d) PROVE relay'[r].status = "paid"
  <2>1. PICK v \in outbox[d], S \in SUBSET Relay : relay' = StoreAt(S, v)
    BY <1>5 DEF FlushOutbox
  <2>2. v \in versions /\ v \in Version /\ v.status \in {"open", "paid"}
    BY DEF Ordered, TypeOK, Standing, Signed
  <2>3. CASE relay[r].rank < v.rank
    <3>1. v.rank >= relay[r].rank
      BY <2>2, <2>3 DEF TypeOK, Version
    <3>2. Blocks(v, h)
      BY <1>1, <2>2, <3>1 DEF LiveShown, Blocked
    <3> QED BY <2>1, <2>2, <3>2 DEF Blocks, StoreAt
  <2>4. CASE ~(relay[r].rank < v.rank)
    BY <2>1, <2>4 DEF StoreAt
  <2> QED BY <2>3, <2>4
<1>6. CASE Rebroadcast
  BY <1>6 DEF Rebroadcast, Readable, StoreAt, OneRelay
<1> QED
  BY <1>3, <1>4, <1>5, <1>6
  DEF Next, vars, network, ApproveStarts, ApproveOpen, ApproveHeldElsewhere,
      ApproveHeldHere, ApproveDropsLock, Sweep, Deactivate, WalletDecides, Prune,
      Crash, ConnectWallet

\* Once a relay shows the bounty paid, no step of any device makes it show
\* anything else: neither a late reopening from an outbox nor a verdict does.
THEOREM PaidStaysPaid ==
  ASSUME OneRelay, MaxInFlight = 1, "skew" \notin Features, "sweep" \notin Features,
         "mistake" \notin Features, "remove" \notin Features
  PROVE  Spec => PaidIsFinal
<1>1. Init => Standing
  BY DEF Init, Standing
<1>2. FinalInv /\ [Next]_vars => Standing'
  BY KeepStanding DEF FinalInv, ShowInv, TurnsInv
<1>3. FinalInv /\ [Next]_vars
        => [\A r \in Relay : relay[r].status = "paid" => relay'[r].status = "paid"]_relay
  BY PaidStays
<1> QED BY <1>1, <1>2, <1>3, ShowCorrect, PTL DEF Spec, FinalInv, PaidIsFinal
=============================================================================
