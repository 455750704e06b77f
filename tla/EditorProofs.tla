---------------------------- MODULE EditorProofs ----------------------------
(***************************************************************************)
(* What holds of the editor for every set of bounties, claimants, commands *)
(* and loads, and every number of moves:                                   *)
(*                                                                         *)
(*   TypesHold                types                                        *)
(*   NothingUnpaidIsApproved  ApprovedMeansPaid                            *)
(*   GuardsAreDropped         GuardNeverLeaks                              *)
(*   QuietIsFresh             QuietMapIsFresh                              *)
(*                                                                         *)
(* None of the last three is inductive.  An approved claim may be in an    *)
(* entry a command holds, outside the map, and a command carries to its    *)
(* end what the payout's result was worth (PaidInv).  The map may be wrong *)
(* while something is under way that sets it right, and so may an answer   *)
(* nobody has applied yet (FreshInv).                                      *)
(*                                                                         *)
(* A step is described by what it does to each part of the state (NetStep, *)
(* CmdStep, GuardStep, ClaimStep, ViewStep), and CommandStep says that     *)
(* these together keep the invariant.                                      *)
(***************************************************************************)
EXTENDS Editor, FiniteSetTheorems, TLAPS

\* The stages of an approval at which its bounty is guarded.
Guarded == {"pay", "paying", "ask", "show"}
\* The stages at which a command holds an entry of the map.
Holding ==
  {"pick", "confirm", "claim", "claimed", "remove", "cancel", "removed"} \cup Guarded

\* What a command has in hand at each stage.
StageOf(k) ==
  /\ cmd[k].at \in Holding => cmd[k].obj # None
  /\ cmd[k].at \in {"confirm", "claimed"} \cup Guarded => cmd[k].claim # None
  /\ cmd[k].at = "add" => cmd[k].obj = None
  /\ cmd[k].at = "added" => cmd[k].id \in Own

StageInv == \A k \in Cmd : StageOf(k)

\* No claim of an entry is shown as approved.
NoneApproved(claims) == \A c \in claims : c.status # "approved"

\* Whatever says "approved" or "paid", on the relays, in any entry of the heap or
\* in a command that is about to show its result, is true.  An answer of the
\* relays is about active bounties and approves nothing.
PaidInv ==
  /\ \A b \in Bounty : net[b].status = "paid" => b \in paid
  /\ \A s \in Slot :
       info[s] # None => NoneApproved(info[s].claims) \/ info[s].id \in paid
  /\ \A l \in Load : load[l].found # None => NoneApproved(load[l].found.claims)
  /\ \A k \in Cmd :
       /\ cmd[k].claim # None => cmd[k].claim.status # "approved"
       /\ cmd[k].at = "show" /\ cmd[k].result \notin {"unknown", "disowned"}
            => cmd[k].id \in paid

\* `entry` is what the map should show (the map itself is right when Fresh).
Right(entry) ==
  IF entry = None THEN \A b \in Bounty : ~Active(b)
  ELSE /\ entry = toBountyInfo(entry.id) /\ Active(entry.id)
       /\ \A b \in Bounty :
            Active(b) => /\ b \in Own => entry.id \in Own
                         /\ b \in Trusted => entry.id \notin Stranger

\* Something has yet to be delivered, or a load will still ask the relays.
UnderWay == news \/ timer \/ \E l \in Load : load[l].phase = "asking"

\* A whole answer no newer one has overtaken is right or will be overtaken; the map
\* is right, or astray, or something is on its way that sets it.
FreshInv ==
  /\ \A l \in Load : load[l].phase = "answered" /\ ~load[l].behind
       => Right(load[l].found) \/ UnderWay
  /\ \/ Fresh \/ astray \/ UnderWay
     \/ \E l \in Load : load[l].phase = "answered"

\* TypeOK in parts: the relays and the journal,
NetTypes ==
  /\ net \in [Bounty -> OnRelays] /\ paid \in SUBSET Bounty
  /\ hold \in [Bounty -> Claimant \cup {None}] /\ news \in BOOLEAN

\* the heap and the map,
ViewTypes ==
  /\ info \in [Slot -> Info \cup {None}] /\ listing \in Slot \cup {None}
  /\ astray \in BOOLEAN
  /\ listing # None => info[listing] # None
  /\ \A k \in Cmd : cmd[k].obj # None =>
       info[cmd[k].obj] # None /\ info[cmd[k].obj].id = cmd[k].id

\* the loads,
LoadTypes == load \in [Load -> Answer] /\ timer \in BOOLEAN /\ polling \in BOOLEAN

\* the commands.
CmdTypes == cmd \in [Cmd -> Command] /\ inFlight \in SUBSET Bounty

Types == NetTypes /\ ViewTypes /\ LoadTypes /\ CmdTypes

\* The inductive invariant.
Inv == Types /\ StageInv /\ GuardNeverLeaks /\ PaidInv /\ FreshInv

-----------------------------------------------------------------------------

\* The parts make up TypeOK.
LEMMA TypesAre == TypeOK <=> Types /\ moves \in 0..MaxMoves
BY DEF TypeOK, Types, NetTypes, ViewTypes, LoadTypes, CmdTypes

\* None is no bounty, claimant, slot, entry or claim.
LEMMA NoneIs ==
  /\ None \notin Bounty /\ None \notin Claimant /\ None \notin Slot
  /\ None \notin Info /\ None \notin ClaimInfo
<1>1. Slot \subseteq Nat
  <2>1. Cardinality(Cmd) \in Nat
    BY BoundsAssumption, FS_CardinalityType
  <2> QED
    BY <2>1 DEF Slot
<1> QED
  BY <1>1, NoneAssumption, NoEntryAssumption

\* The fields of a command have their types.
LEMMA Fields ==
  ASSUME Types, NEW k \in Cmd
  PROVE  /\ cmd[k] \in Command
         /\ cmd[k].at \in Stage /\ cmd[k].obj \in Slot \cup {None}
         /\ cmd[k].id \in Bounty \cup {None} /\ cmd[k].claim \in ClaimInfo \cup {None}
         /\ cmd[k].result \in Result
BY DEF Types, CmdTypes, Command

\* What giving a command another stage changes,
LEMMA CmdAt ==
  ASSUME Types, NEW k \in Cmd, NEW a \in Stage, cmd' = [cmd EXCEPT ![k].at = a]
  PROVE  /\ cmd' \in [Cmd -> Command] /\ \A j \in Cmd \ {k} : cmd'[j] = cmd[j]
         /\ cmd'[k].at = a /\ cmd'[k].obj = cmd[k].obj /\ cmd'[k].id = cmd[k].id
         /\ cmd'[k].claim = cmd[k].claim /\ cmd'[k].result = cmd[k].result
<1> DEFINE c == [cmd[k] EXCEPT !.at = a]
<1>1. /\ c \in Command /\ c.at = a /\ c.obj = cmd[k].obj /\ c.id = cmd[k].id
      /\ c.claim = cmd[k].claim /\ c.result = cmd[k].result
  BY Fields DEF Command
<1>2. cmd' = [cmd EXCEPT ![k] = c] /\ cmd \in [Cmd -> Command]
  BY DEF Types, CmdTypes
<1> HIDE DEF c
<1> QED
  BY <1>1, <1>2

\* ... a stage and a claim,
LEMMA CmdClaim ==
  ASSUME Types, NEW k \in Cmd, NEW a \in Stage, NEW d \in ClaimInfo,
         cmd' = [cmd EXCEPT ![k].at = a, ![k].claim = d]
  PROVE  /\ cmd' \in [Cmd -> Command] /\ \A j \in Cmd \ {k} : cmd'[j] = cmd[j]
         /\ cmd'[k].at = a /\ cmd'[k].obj = cmd[k].obj /\ cmd'[k].id = cmd[k].id
         /\ cmd'[k].claim = d /\ cmd'[k].result = cmd[k].result
<1> DEFINE c == [cmd[k] EXCEPT !.at = a, !.claim = d]
<1>1. /\ c \in Command /\ c.at = a /\ c.obj = cmd[k].obj /\ c.id = cmd[k].id
      /\ c.claim = d /\ c.result = cmd[k].result
  BY Fields DEF Command
<1>2. cmd' = [cmd EXCEPT ![k] = c] /\ cmd \in [Cmd -> Command]
  BY DEF Types, CmdTypes
<1> HIDE DEF c
<1> QED
  BY <1>1, <1>2

\* ... a stage and a bounty,
LEMMA CmdId ==
  ASSUME Types, NEW k \in Cmd, NEW a \in Stage, NEW b \in Bounty,
         cmd' = [cmd EXCEPT ![k].at = a, ![k].id = b]
  PROVE  /\ cmd' \in [Cmd -> Command] /\ \A j \in Cmd \ {k} : cmd'[j] = cmd[j]
         /\ cmd'[k].at = a /\ cmd'[k].obj = cmd[k].obj /\ cmd'[k].id = b
         /\ cmd'[k].claim = cmd[k].claim /\ cmd'[k].result = cmd[k].result
<1> DEFINE c == [cmd[k] EXCEPT !.at = a, !.id = b]
<1>1. /\ c \in Command /\ c.at = a /\ c.obj = cmd[k].obj /\ c.id = b
      /\ c.claim = cmd[k].claim /\ c.result = cmd[k].result
  BY Fields DEF Command
<1>2. cmd' = [cmd EXCEPT ![k] = c] /\ cmd \in [Cmd -> Command]
  BY DEF Types, CmdTypes
<1> HIDE DEF c
<1> QED
  BY <1>1, <1>2

\* ... and ending it.
LEMMA CmdIdle ==
  ASSUME Types, NEW k \in Cmd, cmd' = [cmd EXCEPT ![k] = Idle]
  PROVE  /\ cmd' \in [Cmd -> Command] /\ \A j \in Cmd \ {k} : cmd'[j] = cmd[j]
         /\ cmd'[k].at = "idle" /\ cmd'[k].obj = None /\ cmd'[k].claim = None
<1>1. Idle \in Command /\ Idle.at = "idle" /\ Idle.obj = None /\ Idle.claim = None
  BY DEF Idle, Command, Stage, Result
<1> QED
  BY <1>1 DEF Types, CmdTypes

\* Collecting garbage keeps the entries that the map or a command refers to.
LEMMA HeapIs ==
  ASSUME NEW objects \in [Slot -> Info \cup {None}], NEW l \in Slot \cup {None}, NEW c
  PROVE  /\ Heap(objects, l, c) \in [Slot -> Info \cup {None}]
         /\ \A s \in Slot : Heap(objects, l, c)[s] \in {objects[s], None}
         /\ l # None => Heap(objects, l, c)[l] = objects[l]
         /\ \A j \in Cmd : c[j].obj \in Slot =>
              Heap(objects, l, c)[c[j].obj] = objects[c[j].obj]
BY DEF Heap

\* There is a slot for a new object: there is one slot more than commands.
LEMMA UnusedIs ==
  ASSUME Types
  PROVE  Unused \in Slot /\ \A k \in Cmd : cmd[k].obj # Unused
<1> DEFINE f == [k \in Cmd |-> cmd[k].obj]
           taken == {f[k] : k \in Cmd}
<1>1. IsFiniteSet(Cmd) /\ Cardinality(Cmd) \in Nat
  BY BoundsAssumption, FS_CardinalityType
<1>2. IsFiniteSet(taken) /\ Cardinality(taken) <= Cardinality(Cmd)
  <2>1. f \in Surjection(Cmd, taken)
    BY DEF Surjection
  <2> HIDE DEF f, taken
  <2> QED
    BY <1>1, <2>1, FS_Surjection
<1>3. IsFiniteSet(Slot) /\ Cardinality(Slot) = Cardinality(Cmd) + 1
  BY <1>1, FS_Interval DEF Slot
<1>4. ~(Slot \subseteq taken)
  <2> HIDE DEF taken
  <2>1. Cardinality(taken) \in Nat
    BY <1>2, FS_CardinalityType
  <2> QED
    BY <1>1, <1>2, <1>3, <2>1, FS_Subset
<1>5. \E s \in Slot : \A k \in Cmd : cmd[k].obj # s
  BY <1>4
<1> QED
  BY <1>5 DEF Unused

-----------------------------------------------------------------------------

\* The relays and the journal change as they should: a bounty is closed as paid
\* only with its payment, and every new version reaches the subscription.
NetStep ==
  /\ NetTypes'
  /\ \A b \in Bounty : net'[b].status = "paid" => b \in paid'
  /\ paid \subseteq paid'
  /\ news' \/ (net' = net /\ news' = news)

\* Only command k changes.
CmdStep(k) == cmd' \in [Cmd -> Command] /\ \A j \in Cmd \ {k} : cmd'[j] = cmd[j]

\* What is guarded after the step is guarded by k, or was by another command.
GuardStep(k) ==
  /\ inFlight' \in SUBSET Bounty
  /\ \A b \in inFlight' :
       \/ cmd'[k].at \in Guarded /\ cmd'[k].id = b
       \/ b \in inFlight /\ ~(cmd[k].at \in Guarded /\ cmd[k].id = b)

\* k claims nothing approved, and shows as paid only what was.
ClaimStep(k) ==
  /\ cmd'[k].claim # None => cmd'[k].claim.status # "approved"
  /\ cmd'[k].at = "show" /\ cmd'[k].result \notin {"unknown", "disowned"}
       => cmd'[k].id \in paid'

\* The entries of a heap that show an approved claim are of paid bounties.
EntriesAre(objects) ==
  \A s \in Slot :
    objects[s] # None => NoneApproved(objects[s].claims) \/ objects[s].id \in paid'

\* The heap and the map after the step.
ViewStep == ViewTypes' /\ EntriesAre(info')

\* The map shows the same entry as before.
SameEntry ==
  /\ listing' = listing /\ astray' = astray
  /\ listing # None => info'[listing] = info[listing]

\* What a listing shows depends on the relays alone,
LEMMA ActiveSame ==
  ASSUME net' = net, NEW b
  PROVE  /\ Active(b)' <=> Active(b)
         /\ toBountyInfo(b)' = toBountyInfo(b)
BY DEF Active, toBountyInfo, Shown, Closed, claimStatusFor

\* ... and so does what is right.
LEMMA RightSame ==
  ASSUME net' = net, NEW e
  PROVE  Right(e)' <=> Right(e)
BY ActiveSame DEF Right

\* A step that starts and ends no load keeps FreshInv when it publishes, sets the
\* map itself, or leaves both alone.
LEMMA FreshKept ==
  ASSUME Inv, Types', NetStep, UNCHANGED loading, astray' \/ SameEntry
  PROVE  FreshInv'
<1>1. CASE news'
  BY <1>1 DEF FreshInv, UnderWay
<1>2. CASE net' = net /\ news' = news
  <2>1. UnderWay' <=> UnderWay
    BY <1>2 DEF UnderWay, loading
  <2>2. \A l \in Load : Right(load[l].found)' <=> Right(load[l].found)
    BY <1>2 DEF loading, Right, Active, toBountyInfo, Shown, Closed, claimStatusFor
  <2>3. SameEntry => (Fresh' <=> Fresh)
    BY <1>2, ActiveSame DEF SameEntry, Fresh
  <2> QED
    BY <2>1, <2>2, <2>3 DEF FreshInv, Inv, loading, SameEntry
<1> QED
  BY <1>1, <1>2 DEF NetStep

\* A step of k keeps the guards of the others and drops or keeps its own.
LEMMA GuardKept ==
  ASSUME Inv, NEW k \in Cmd, CmdStep(k), GuardStep(k)
  PROVE  GuardNeverLeaks'
BY DEF Inv, GuardNeverLeaks, CmdStep, GuardStep, Guarded

\* A step of k keeps PaidInv.
LEMMA PaidKept ==
  ASSUME Inv, NEW k \in Cmd, NetStep, CmdStep(k), ClaimStep(k), ViewStep, load' = load
  PROVE  PaidInv'
<1>1. \A b \in Bounty : net'[b].status = "paid" => b \in paid'
  BY DEF NetStep
<1>2. \A s \in Slot :
        info'[s] # None => NoneApproved(info'[s].claims) \/ info'[s].id \in paid'
  BY DEF ViewStep, EntriesAre
<1>3. \A l \in Load : load'[l].found # None => NoneApproved(load'[l].found.claims)
  BY DEF Inv, PaidInv
<1>4. ASSUME NEW j \in Cmd
      PROVE  /\ cmd'[j].claim # None => cmd'[j].claim.status # "approved"
             /\ cmd'[j].at = "show" /\ cmd'[j].result \notin {"unknown", "disowned"}
                  => cmd'[j].id \in paid'
  <2>1. CASE j = k
    BY <2>1 DEF ClaimStep
  <2>2. CASE j # k
    BY <2>2 DEF CmdStep, Inv, PaidInv, NetStep
  <2> QED
    BY <2>1, <2>2
<1> QED
  BY <1>1, <1>2, <1>3, <1>4 DEF PaidInv, NoneApproved

\* A step of a command, described part by part, keeps the invariant.
LEMMA CommandStep ==
  ASSUME Inv, NEW k \in Cmd, NetStep, CmdStep(k), StageOf(k)', GuardStep(k), ClaimStep(k),
         ViewStep, UNCHANGED loading, astray' \/ SameEntry
  PROVE  Inv'
<1>1. Types'
  BY DEF Inv, Types, NetStep, CmdStep, GuardStep, ViewStep, CmdTypes, LoadTypes, loading
<1>2. StageInv'
  BY DEF Inv, StageInv, CmdStep, StageOf
<1> QED
  BY <1>1, <1>2, FreshKept, GuardKept, PaidKept DEF Inv, loading

\* A step that leaves the heap and the map alone.
LEMMA ViewSame ==
  ASSUME Inv, NEW k \in Cmd, NetStep, CmdStep(k), UNCHANGED view,
         cmd'[k].obj # None =>
           info[cmd'[k].obj] # None /\ info[cmd'[k].obj].id = cmd'[k].id
  PROVE  ViewStep /\ SameEntry
<1>1. ViewTypes'
  BY DEF Inv, Types, ViewTypes, CmdStep, view
<1>2. EntriesAre(info')
  BY DEF Inv, PaidInv, EntriesAre, NetStep, view
<1> QED
  BY <1>1, <1>2 DEF ViewStep, SameEntry, view

\* A step that sets the map to l and leaves `objects` in the heap.
LEMMA ViewHeap ==
  ASSUME NEW objects \in [Slot -> Info \cup {None}], EntriesAre(objects),
         NEW l \in Slot \cup {None}, l # None => objects[l] # None,
         listing' = l, info' = Heap(objects, l, cmd'), astray' \in BOOLEAN,
         cmd' \in [Cmd -> Command],
         \A j \in Cmd : cmd'[j].obj # None =>
           objects[cmd'[j].obj] # None /\ objects[cmd'[j].obj].id = cmd'[j].id
  PROVE  ViewStep
<1>1. /\ info' \in [Slot -> Info \cup {None}]
      /\ \A s \in Slot : info'[s] \in {objects[s], None}
      /\ l # None => info'[l] = objects[l]
      /\ \A j \in Cmd : cmd'[j].obj \in Slot => info'[cmd'[j].obj] = objects[cmd'[j].obj]
  BY HeapIs
<1>2. \A j \in Cmd : cmd'[j].obj # None => cmd'[j].obj \in Slot
  BY DEF Command
<1>3. ViewTypes'
  BY <1>1, <1>2 DEF ViewTypes
<1>4. EntriesAre(info')
  BY <1>1 DEF EntriesAre
<1> QED
  BY <1>3, <1>4 DEF ViewStep

\* Nothing happens on the relays or in the journal.
LEMMA NetSame ==
  ASSUME Inv, UNCHANGED network
  PROVE  NetStep
BY DEF Inv, Types, NetTypes, PaidInv, NetStep, network

\* The version there is, if it is listed.
LEMMA LatestIs ==
  ASSUME NEW b, net[b].payee \in Claimant \cup {None}
  PROVE  Latest(b) \in SUBSET ActiveVersion
BY DEF Latest, Active, ActiveVersion

\* A new version of a bounty is published.
LEMMA Published ==
  ASSUME Inv, NEW b \in Bounty, NEW status \in BountyStatus,
         NEW payee \in Claimant \cup {None}, Publish(b, status, payee),
         paid' \in SUBSET Bounty, paid \subseteq paid',
         hold' \in [Bounty -> Claimant \cup {None}], status = "paid" => b \in paid'
  PROVE  NetStep
<1> DEFINE past == net[b].past \cup Latest(b)
           n == [net[b] EXCEPT !.status = status, !.payee = payee, !.late = {},
                               !.past = past]
<1>1. net \in [Bounty -> OnRelays]
  BY DEF Inv, Types, NetTypes
<1>3. net' = [net EXCEPT ![b] = n] /\ news' = TRUE
  BY <1>1 DEF Publish
<1>6. past \in SUBSET ActiveVersion
  <2>1. net[b].past \in SUBSET ActiveVersion /\ net[b].payee \in Claimant \cup {None}
    BY <1>1 DEF OnRelays
  <2> QED
    BY <2>1, LatestIs
<1> HIDE DEF past
<1>2. n \in OnRelays /\ n.status = status
  BY <1>1, <1>6 DEF OnRelays
<1>4. \A a \in Bounty : net[a].status = "paid" => a \in paid'
  BY DEF Inv, PaidInv
<1> HIDE DEF n
<1>5. /\ net' \in [Bounty -> OnRelays] /\ net'[b] = n
      /\ \A a \in Bounty \ {b} : net'[a] = net[a]
  BY <1>1, <1>2, <1>3
<1> QED
  BY <1>2, <1>3, <1>4, <1>5 DEF NetStep, NetTypes

\* A new version of a claim is published.
LEMMA Filed ==
  ASSUME Inv, NEW b \in Bounty, NEW c \in Claimant, File(b, c), UNCHANGED <<paid, hold>>
  PROVE  NetStep /\ net[b].ver[c] + 1 \in 1..MaxEdit
<1> DEFINE late == IF Closed(b) THEN net[b].late \cup {c} ELSE net[b].late
           ver == [net[b].ver EXCEPT ![c] = net[b].ver[c] + 1]
           n == [net[b] EXCEPT !.ver = ver, !.late = late]
<1>1. net \in [Bounty -> OnRelays] /\ paid \in SUBSET Bounty
      /\ hold \in [Bounty -> Claimant \cup {None}]
  BY DEF Inv, Types, NetTypes
<1>2. net[b].ver \in [Claimant -> 0..MaxEdit] /\ net[b].late \in SUBSET Claimant
  BY <1>1 DEF OnRelays
<1>3. net[b].ver[c] + 1 \in 1..MaxEdit
  BY <1>2, BoundsAssumption DEF File
<1>4. ver \in [Claimant -> 0..MaxEdit] /\ late \in SUBSET Claimant
  BY <1>2, <1>3
<1>5. net' = [net EXCEPT ![b] = n] /\ news' = TRUE
  BY <1>1 DEF File, Closed
<1> HIDE DEF late, ver
<1>6. n \in OnRelays /\ n.status = net[b].status
  BY <1>1, <1>4 DEF OnRelays
<1> HIDE DEF n
<1>7. /\ net' \in [Bounty -> OnRelays] /\ net'[b] = n
      /\ \A a \in Bounty \ {b} : net'[a] = net[a]
  BY <1>1, <1>5, <1>6
<1>8. \A a \in Bounty : net[a].status = "paid" => a \in paid
  BY DEF Inv, PaidInv
<1> QED
  BY <1>1, <1>3, <1>5, <1>6, <1>7, <1>8 DEF NetStep, NetTypes

\* What a listing shows is an entry, and approves no claim on an active bounty.
LEMMA ListingOf ==
  ASSUME Types, NEW b \in Bounty
  PROVE  /\ toBountyInfo(b) \in Info /\ toBountyInfo(b).id = b
         /\ toBountyInfo(b).claims \subseteq ClaimInfo
         /\ Active(b) => NoneApproved(toBountyInfo(b).claims)
<1> DEFINE claims == {[who |-> c, ver |-> net[b].ver[c],
                       status |-> claimStatusFor(net[b], c)] : c \in Shown(b)}
<1>1. net[b] \in OnRelays
  BY DEF Types, NetTypes
<1>2. net[b].status \in BountyStatus /\ net[b].ver \in [Claimant -> 0..MaxEdit]
  BY <1>1 DEF OnRelays
<1>3. ASSUME NEW c \in Shown(b)
      PROVE  /\ c \in Claimant /\ net[b].ver[c] \in 1..MaxEdit
             /\ claimStatusFor(net[b], c) \in {"pending", "approving", "approved"}
             /\ Active(b) => claimStatusFor(net[b], c) # "approved"
  BY <1>2, BoundsAssumption DEF Shown, claimStatusFor, Active
<1>4. claims \subseteq ClaimInfo /\ (Active(b) => \A c \in claims : c.status # "approved")
  BY <1>3 DEF ClaimInfo
<1>5. toBountyInfo(b) = [id |-> b, status |-> net[b].status, claims |-> claims]
  BY DEF toBountyInfo
<1> HIDE DEF claims
<1> QED
  BY <1>2, <1>4, <1>5 DEF Info, NoneApproved

\* So is what some relays show of it, of which no claim is approved.
LEMMA PartOf ==
  ASSUME Types, NEW b \in Bounty, NEW e \in Parts(b)
  PROVE  e \in Info /\ NoneApproved(e.claims)
<1>1. net[b] \in OnRelays
  BY DEF Types, NetTypes
<1>2. PICK v \in net[b].past \cup Latest(b), seen \in [Claimant -> 0..MaxEdit] :
        e = [id |-> b, status |-> v.status,
             claims |-> {[who |-> c, ver |-> seen[c], status |-> claimStatusFor(v, c)] :
                           c \in {d \in Claimant : seen[d] > 0}}]
  BY DEF Parts
<1> DEFINE claims == {[who |-> c, ver |-> seen[c], status |-> claimStatusFor(v, c)] :
                        c \in {d \in Claimant : seen[d] > 0}}
<1>3. v \in ActiveVersion
  <2>1. net[b].past \in SUBSET ActiveVersion /\ net[b].payee \in Claimant \cup {None}
    BY <1>1 DEF OnRelays
  <2> QED
    BY <1>2, <2>1, LatestIs
<1>4. v.status \in {"open", "approving"}
  BY <1>3 DEF ActiveVersion
<1>5. ASSUME NEW c \in Claimant, seen[c] > 0
      PROVE  seen[c] \in 1..MaxEdit /\ claimStatusFor(v, c) \in {"pending", "approving"}
  BY <1>4, <1>5, BoundsAssumption DEF claimStatusFor
<1>6. claims \subseteq ClaimInfo /\ \A c \in claims : c.status # "approved"
  BY <1>5 DEF ClaimInfo
<1>7. e = [id |-> b, status |-> v.status, claims |-> claims]
  BY <1>2
<1> HIDE DEF claims
<1> QED
  BY <1>4, <1>6, <1>7 DEF Info, BountyStatus, NoneApproved

\* What a command at work has in its hands.
LEMMA InHand ==
  ASSUME Inv, NEW k \in Cmd
  PROVE  /\ cmd[k].obj # None =>
              cmd[k].obj \in Slot /\ Entry(k) \in Info /\ Entry(k).id = cmd[k].id
              /\ cmd[k].id \in Bounty
         /\ cmd[k].at \in Holding => cmd[k].obj # None
         /\ cmd[k].at \in {"confirm", "claimed"} \cup Guarded =>
              cmd[k].claim \in ClaimInfo /\ cmd[k].claim.who \in Claimant
         /\ cmd[k].claim # None => cmd[k].claim.status # "approved"
<1>1. cmd[k].obj \in Slot \cup {None} /\ cmd[k].claim \in ClaimInfo \cup {None}
  BY Fields DEF Inv
<1>2. cmd[k].obj # None => info[cmd[k].obj] \in Info /\ info[cmd[k].obj].id = cmd[k].id
  BY <1>1 DEF Inv, Types, ViewTypes
<1>3. cmd[k].obj # None => cmd[k].id \in Bounty
  BY <1>2 DEF Info
<1>4. StageOf(k)
  BY DEF Inv, StageInv
<1>5. \A c \in ClaimInfo : c.who \in Claimant
  BY DEF ClaimInfo
<1>6. cmd[k].claim # None => cmd[k].claim.status # "approved"
  BY DEF Inv, PaidInv
<1> QED
  BY <1>1, <1>2, <1>3, <1>4, <1>5, <1>6 DEF StageOf, Entry

\* A step within the command: its stage is `a` now, its entry as before.
LEMMA Goes ==
  ASSUME Inv, NEW k \in Cmd, NEW a \in Stage, NetStep, CmdStep(k),
         UNCHANGED <<view, loading>>,
         cmd'[k].at = a, cmd'[k].obj = cmd[k].obj, cmd'[k].id = cmd[k].id,
         StageOf(k)', ClaimStep(k), GuardStep(k)
  PROVE  Inv'
<1>1. cmd'[k].obj # None =>
        info[cmd'[k].obj] # None /\ info[cmd'[k].obj].id = cmd'[k].id
  BY InHand, NoneIs DEF Entry
<1> QED
  BY <1>1, ViewSame, CommandStep DEF loading

\* A command that ends without touching the map.
LEMMA EndsHolds ==
  ASSUME Inv, NEW k \in Cmd, NetStep, End(k), UNCHANGED loading,
         \/ inFlight' = inFlight \ {cmd[k].id}
         \/ inFlight' = inFlight /\ cmd[k].at \notin Guarded
  PROVE  Inv'
<1>1. /\ cmd' \in [Cmd -> Command] /\ \A j \in Cmd \ {k} : cmd'[j] = cmd[j]
      /\ cmd'[k].at = "idle" /\ cmd'[k].obj = None /\ cmd'[k].claim = None
  BY CmdIdle DEF End, Inv
<1>2. CmdStep(k) /\ StageOf(k)' /\ ClaimStep(k)
  BY <1>1 DEF CmdStep, StageOf, Holding, Guarded, ClaimStep
<1>3. GuardStep(k)
  BY <1>1 DEF Inv, Types, CmdTypes, GuardStep, Guarded
<1>4. EntriesAre(info)
  BY DEF Inv, PaidInv, EntriesAre, NetStep
<1>5. /\ info \in [Slot -> Info \cup {None}] /\ listing \in Slot \cup {None}
      /\ listing # None => info[listing] # None /\ astray \in BOOLEAN
      /\ \A j \in Cmd : cmd[j].obj # None =>
           info[cmd[j].obj] # None /\ info[cmd[j].obj].id = cmd[j].id
  BY DEF Inv, Types, ViewTypes
<1>6. \A j \in Cmd : cmd'[j].obj # None =>
           info[cmd'[j].obj] # None /\ info[cmd'[j].obj].id = cmd'[j].id
  BY <1>1, <1>5
<1>7. listing' = listing /\ info' = Heap(info, listing, cmd') /\ astray' = astray
  BY DEF End
<1>8. astray' \in BOOLEAN
  BY <1>7 DEF Inv, Types, ViewTypes
<1>9. ViewStep
  BY <1>1, <1>4, <1>5, <1>6, <1>7, <1>8, ViewHeap
<1>10. SameEntry
  BY <1>5, <1>7, HeapIs DEF SameEntry
<1> QED
  BY <1>2, <1>3, <1>9, <1>10, CommandStep

\* A command that puts its entry back, changed.
LEMMA Shows ==
  ASSUME Inv, NEW k \in Cmd, NEW entry \in Info, NetStep, cmd[k].obj # None,
         entry.id = cmd[k].id, NoneApproved(entry.claims) \/ entry.id \in paid',
         Show(k, entry), UNCHANGED loading,
         \/ inFlight' = inFlight \ {cmd[k].id}
         \/ inFlight' = inFlight /\ cmd[k].at \notin Guarded
  PROVE  Inv'
<1>1. /\ cmd' \in [Cmd -> Command] /\ \A j \in Cmd \ {k} : cmd'[j] = cmd[j]
      /\ cmd'[k].at = "idle" /\ cmd'[k].obj = None /\ cmd'[k].claim = None
  BY CmdIdle DEF Show, Inv
<1>2. CmdStep(k) /\ StageOf(k)' /\ ClaimStep(k)
  BY <1>1 DEF CmdStep, StageOf, Holding, Guarded, ClaimStep
<1>3. GuardStep(k)
  BY <1>1 DEF Inv, Types, CmdTypes, GuardStep, Guarded
<1> DEFINE o == cmd[k].obj
           objects == [info EXCEPT ![o] = entry]
<1>4. o \in Slot /\ Entry(k).id = cmd[k].id
  BY InHand
<1>5. /\ info \in [Slot -> Info \cup {None}]
      /\ \A j \in Cmd : cmd[j].obj # None =>
           info[cmd[j].obj] # None /\ info[cmd[j].obj].id = cmd[j].id
  BY DEF Inv, Types, ViewTypes
<1>6. /\ objects \in [Slot -> Info \cup {None}] /\ objects[o] = entry
      /\ \A s \in Slot \ {o} : objects[s] = info[s]
  BY <1>4, <1>5
<1>7. listing' = o /\ info' = Heap(objects, o, cmd') /\ astray' = TRUE
  BY DEF Show
<1>8. EntriesAre(info)
  BY DEF Inv, PaidInv, EntriesAre, NetStep
<1> HIDE DEF objects
<1>9. EntriesAre(objects)
  BY <1>6, <1>8 DEF EntriesAre
<1>10. entry # None
  BY NoneIs
<1>11. ASSUME NEW j \in Cmd, cmd'[j].obj # None
       PROVE  objects[cmd'[j].obj] # None /\ objects[cmd'[j].obj].id = cmd'[j].id
  <2>1. j # k /\ cmd'[j] = cmd[j]
    BY <1>1, <1>11
  <2>2. cmd[j].obj \in Slot
    BY <2>1, <1>11, InHand
  <2>3. CASE cmd[j].obj = o
    BY <2>1, <2>3, <1>4, <1>5, <1>6, <1>10, <1>11
  <2>4. CASE cmd[j].obj # o
    BY <2>1, <2>2, <2>4, <1>5, <1>6, <1>11
  <2> QED
    BY <2>3, <2>4
<1> HIDE DEF o
<1>12. ViewStep
  BY <1>1, <1>4, <1>6, <1>7, <1>9, <1>10, <1>11, ViewHeap
<1> QED
  BY <1>2, <1>3, <1>7, <1>12, CommandStep

\* A command that takes the entry of the map.
LEMMA Takes ==
  ASSUME Inv, NEW k \in Cmd, NEW a \in {"pick", "claim", "remove"}, Take(k, a),
         UNCHANGED <<network, view, loading, inFlight>>
  PROVE  Inv'
<1>1. /\ listing \in Slot /\ info[listing] \in Info /\ info[listing] # None
      /\ info[listing].id \in Bounty
  BY NoneIs DEF Inv, Types, ViewTypes, Take, Info
<1> DEFINE c == [Idle EXCEPT !.at = a, !.obj = listing, !.id = info[listing].id]
<1>2. /\ c \in Command /\ c.at = a /\ c.obj = listing /\ c.id = info[listing].id
      /\ c.claim = None /\ c.result = "none"
  BY <1>1 DEF Idle, Command, Stage, Result
<1>3. cmd' = [cmd EXCEPT ![k] = c] /\ cmd[k] = Idle /\ cmd \in [Cmd -> Command]
  BY DEF Take, Inv, Types, CmdTypes
<1> HIDE DEF c
<1>4. cmd'[k] = c /\ CmdStep(k)
  BY <1>2, <1>3 DEF CmdStep
<1>5. cmd[k].at = "idle"
  BY <1>3 DEF Idle
<1>6. listing # None
  BY DEF Take
<1>7. StageOf(k)' /\ ClaimStep(k)
  BY <1>2, <1>4, <1>6 DEF StageOf, ClaimStep, Guarded
<1>8. GuardStep(k)
  BY <1>5 DEF GuardStep, Guarded, Inv, Types, CmdTypes
<1>9. NetStep /\ ViewStep /\ SameEntry
  BY <1>1, <1>2, <1>4, NetSame, ViewSame
<1> QED
  BY <1>4, <1>7, <1>8, <1>9, CommandStep

-----------------------------------------------------------------------------

\* A bounty may be guarded where it was, or when this command guards it.
LEMMA GuardStays ==
  ASSUME Inv, NEW k \in Cmd, inFlight' = inFlight,
         \/ cmd[k].at \notin Guarded
         \/ cmd'[k].at \in Guarded /\ cmd'[k].id = cmd[k].id
  PROVE  GuardStep(k)
BY DEF GuardStep, Inv, Types, CmdTypes

\* The approve command: the creator picks a claim,
LEMMA PicksHolds ==
  ASSUME Inv, NEW k \in Cmd, Picks(k)
  PROVE  Inv'
<1>1. /\ cmd[k].at = "pick" /\ cmd[k].obj # None /\ cmd[k].id \in Bounty /\ Entry(k) \in Info
  BY InHand DEF Picks, Holding
<1>2. PICK claims \in {toBountyInfo(cmd[k].id).claims, Entry(k).claims} :
        \E c \in claims :
          /\ c.status # "approved"
          /\ cmd' = [cmd EXCEPT ![k].at = "confirm", ![k].claim = c]
  BY DEF Picks
<1>3. claims \subseteq ClaimInfo
  BY <1>1, <1>2, ListingOf DEF Inv, Info
<1>4. PICK c \in ClaimInfo : /\ c.status # "approved"
                             /\ cmd' = [cmd EXCEPT ![k].at = "confirm", ![k].claim = c]
  BY <1>2, <1>3
<1>5. "confirm" \in Stage
  BY DEF Stage
<1>6. /\ cmd' \in [Cmd -> Command] /\ \A j \in Cmd \ {k} : cmd'[j] = cmd[j]
      /\ cmd'[k].at = "confirm" /\ cmd'[k].obj = cmd[k].obj /\ cmd'[k].id = cmd[k].id
      /\ cmd'[k].claim = c /\ cmd'[k].result = cmd[k].result
  BY <1>4, <1>5, CmdClaim DEF Inv
<1>7. CmdStep(k) /\ StageOf(k)' /\ ClaimStep(k)
  BY <1>1, <1>4, <1>6, NoneIs DEF CmdStep, StageOf, ClaimStep
<1>8. GuardStep(k) /\ NetStep
  BY <1>1, NetSame, GuardStays DEF Picks, Guarded
<1> QED
  BY <1>5, <1>6, <1>7, <1>8, Goes DEF Picks

\* A step from one stage to the next that changes nothing else of the command.
LEMMA GoesAt ==
  ASSUME Inv, NEW k \in Cmd, NEW a \in Stage \ {"add", "added", "show"},
         cmd' = [cmd EXCEPT ![k].at = a], UNCHANGED <<view, loading>>, NetStep,
         a \in Holding => cmd[k].at \in Holding,
         a \in {"confirm", "claimed"} \cup Guarded =>
           cmd[k].at \in {"confirm", "claimed"} \cup Guarded,
         GuardStep(k)
  PROVE  Inv'
<1>1. /\ cmd' \in [Cmd -> Command] /\ \A j \in Cmd \ {k} : cmd'[j] = cmd[j]
      /\ cmd'[k].at = a /\ cmd'[k].obj = cmd[k].obj /\ cmd'[k].id = cmd[k].id
      /\ cmd'[k].claim = cmd[k].claim /\ cmd'[k].result = cmd[k].result
  BY CmdAt DEF Inv
<1>2. StageOf(k)'
  BY <1>1, InHand, NoneIs DEF StageOf
<1>3. CmdStep(k) /\ ClaimStep(k)
  BY <1>1, InHand DEF CmdStep, ClaimStep
<1> QED
  BY <1>1, <1>2, <1>3, Goes

\* A payout's result, to be shown next.
LEMMA GoesToShow ==
  ASSUME Inv, NEW k \in Cmd, NEW r \in Result, Returns(k, r), UNCHANGED loading, NetStep,
         cmd[k].at \in Guarded, r \notin {"unknown", "disowned"} => cmd[k].id \in paid'
  PROVE  Inv'
<1>0. "show" \in Stage /\ "show" \in Guarded /\ "show" \in Holding
  BY DEF Stage, Guarded, Holding
<1>1. /\ cmd' \in [Cmd -> Command] /\ \A j \in Cmd \ {k} : cmd'[j] = cmd[j]
      /\ cmd'[k].at = "show" /\ cmd'[k].obj = cmd[k].obj /\ cmd'[k].id = cmd[k].id
      /\ cmd'[k].claim = cmd[k].claim /\ cmd'[k].result = r
  <2>1. cmd' = [cmd EXCEPT ![k].at = "show", ![k].result = r]
    BY DEF Returns
  <2> DEFINE c == [cmd[k] EXCEPT !.at = "show", !.result = r]
  <2>2. /\ c \in Command /\ c.at = "show" /\ c.obj = cmd[k].obj /\ c.id = cmd[k].id
        /\ c.claim = cmd[k].claim /\ c.result = r
    BY <1>0, Fields DEF Command, Inv
  <2>3. cmd' = [cmd EXCEPT ![k] = c] /\ cmd \in [Cmd -> Command]
    BY <2>1 DEF Inv, Types, CmdTypes
  <2> HIDE DEF c
  <2> QED
    BY <2>2, <2>3
<1>2. StageOf(k)'
  BY <1>1, InHand, NoneIs DEF StageOf, Holding
<1>3. CmdStep(k) /\ ClaimStep(k)
  BY <1>1, InHand DEF CmdStep, ClaimStep
<1>4. GuardStep(k)
  BY <1>0, <1>1, GuardStays DEF Returns
<1> QED
  BY <1>0, <1>1, <1>2, <1>3, <1>4, Goes DEF Returns

\* The bounty of a command that pays, and what the relays and the journal say.
LEMMA AtPayout ==
  ASSUME Inv, NEW k \in Cmd, cmd[k].at \in Guarded
  PROVE  /\ cmd[k].id \in Bounty /\ cmd[k].at \in Holding
         /\ cmd[k].claim.who \in Claimant
         /\ hold \in [Bounty -> Claimant \cup {None}] /\ paid \in SUBSET Bounty
         /\ net[cmd[k].id].payee \in Claimant \cup {None}
         /\ [hold EXCEPT ![cmd[k].id] = None] \in [Bounty -> Claimant \cup {None}]
<1>1. /\ cmd[k].id \in Bounty /\ cmd[k].at \in Holding /\ cmd[k].claim.who \in Claimant
  BY InHand DEF Holding
<1>2. /\ hold \in [Bounty -> Claimant \cup {None}] /\ paid \in SUBSET Bounty
      /\ net \in [Bounty -> OnRelays]
  BY DEF Inv, Types, NetTypes
<1> QED
  BY <1>1, <1>2 DEF OnRelays

\* ... the payout up to its request to the wallet,
LEMMA PayoutHolds ==
  ASSUME Inv, NEW k \in Cmd, cmd[k].at = "pay",
         \/ PayoutRefused(k) \/ PayoutAlreadyPaid(k) \/ PayoutStarts(k)
         \/ PayoutSettles(k) \/ PayoutReleased(k) \/ PayoutNeedsWord(k)
  PROVE  Inv'
<1> DEFINE b == cmd[k].id
<1> USE DEF Guarded
<1>0. /\ b \in Bounty /\ cmd[k].at \in Holding /\ cmd[k].claim.who \in Claimant
      /\ hold \in [Bounty -> Claimant \cup {None}] /\ paid \in SUBSET Bounty
      /\ net[b].payee \in Claimant \cup {None}
      /\ [hold EXCEPT ![b] = None] \in [Bounty -> Claimant \cup {None}]
  BY AtPayout
<1>1. CASE PayoutRefused(k)
  BY <1>1, NetSame, EndsHolds DEF PayoutRefused, Fails
<1>2. CASE PayoutAlreadyPaid(k)
  <2>1. NetStep /\ b \in paid' /\ "already" \in Result
    BY <1>0, <1>2, NetSame DEF PayoutAlreadyPaid, Inv, PaidInv, network, Result
  <2> QED
    BY <1>2, <2>1, GoesToShow DEF PayoutAlreadyPaid
<1>3. CASE PayoutStarts(k)
  <2>1. /\ Publish(b, "approving", cmd[k].claim.who)
        /\ hold' = [hold EXCEPT ![b] = cmd[k].claim.who]
        /\ Go(k, "paying") /\ UNCHANGED <<paid, loading, inFlight>>
    BY <1>3 DEF PayoutStarts
  <2>2. hold' \in [Bounty -> Claimant \cup {None}]
    BY <1>0, <2>1
  <2>3. NetStep
    BY <1>0, <2>1, <2>2, Published DEF BountyStatus
  <2>4. "paying" \in Stage \ {"add", "added", "show"} /\ "paying" \in Guarded
    BY DEF Stage
  <2>5. cmd' = [cmd EXCEPT ![k].at = "paying"] /\ UNCHANGED view
    BY <2>1 DEF Go
  <2>6. GuardStep(k)
    BY <2>1, <2>4, <2>5, CmdAt, GuardStays DEF Inv
  <2> QED
    BY <1>0, <2>1, <2>3, <2>4, <2>5, <2>6, GoesAt
<1>4. CASE PayoutSettles(k)
  <2>1. Publish(b, "paid", hold[b]) /\ hold' = [hold EXCEPT ![b] = None] /\ paid' = paid \cup {b}
        /\ Returns(k, "already") /\ UNCHANGED loading
    BY <1>4 DEF PayoutSettles
  <2>2. NetStep
    BY <1>0, <2>1, Published DEF BountyStatus
  <2> QED
    BY <2>1, <2>2, GoesToShow DEF Result
<1>5. CASE PayoutReleased(k)
  <2>1. Publish(b, "open", None) /\ hold' = [hold EXCEPT ![b] = None] /\ paid' = paid
        /\ Fails(k) /\ UNCHANGED loading
    BY <1>5 DEF PayoutReleased
  <2>2. NetStep
    BY <1>0, <2>1, Published DEF BountyStatus
  <2> QED
    BY <2>1, <2>2, EndsHolds DEF Fails
<1>6. CASE PayoutNeedsWord(k)
  <2>1. cmd' = [cmd EXCEPT ![k].at = "ask"] /\ UNCHANGED <<network, loading, inFlight, view>>
    BY <1>6 DEF PayoutNeedsWord, Go
  <2>2. "ask" \in Stage \ {"add", "added", "show"} /\ "ask" \in Guarded
    BY DEF Stage
  <2>3. GuardStep(k)
    BY <2>1, <2>2, CmdAt, GuardStays DEF Inv
  <2> QED
    BY <1>0, <2>1, <2>2, <2>3, NetSame, GoesAt
<1> QED
  BY <1>1, <1>2, <1>3, <1>4, <1>5, <1>6

\* ... its outcome, or the creator's word,
LEMMA OutcomeHolds ==
  ASSUME Inv, NEW k \in Cmd, cmd[k].at \in {"paying", "ask"},
         \/ PayoutPaid(k) \/ PayoutFails(k) \/ PayoutUnknown(k)
         \/ AskDismissed(k) \/ AskAnswered(k)
  PROVE  Inv'
<1> DEFINE b == cmd[k].id
<1> USE DEF Guarded
<1>0. /\ b \in Bounty /\ cmd[k].at \in Holding /\ cmd[k].claim.who \in Claimant
      /\ hold \in [Bounty -> Claimant \cup {None}] /\ paid \in SUBSET Bounty
      /\ net[b].payee \in Claimant \cup {None}
      /\ [hold EXCEPT ![b] = None] \in [Bounty -> Claimant \cup {None}]
  BY AtPayout
<1>1. CASE PayoutPaid(k)
  <2>1. Publish(b, "paid", cmd[k].claim.who) /\ hold' = [hold EXCEPT ![b] = None]
        /\ paid' = paid \cup {b} /\ Returns(k, "paid") /\ UNCHANGED loading
    BY <1>1 DEF PayoutPaid
  <2>2. NetStep
    BY <1>0, <2>1, Published DEF BountyStatus
  <2> QED
    BY <2>1, <2>2, GoesToShow DEF Result
<1>2. CASE PayoutFails(k)
  <2>1. Publish(b, "open", None) /\ hold' = [hold EXCEPT ![b] = None] /\ paid' = paid
        /\ Fails(k) /\ UNCHANGED loading
    BY <1>2 DEF PayoutFails
  <2>2. NetStep
    BY <1>0, <2>1, Published DEF BountyStatus
  <2> QED
    BY <2>1, <2>2, EndsHolds DEF Fails
<1>3. CASE PayoutUnknown(k)
  BY <1>3, NetSame, GoesToShow DEF PayoutUnknown, Result
<1>4. CASE AskDismissed(k)
  BY <1>4, NetSame, EndsHolds DEF AskDismissed, Fails
<1>5. CASE AskAnswered(k)
  <2> DEFINE payee == IF hold[b] # None THEN hold[b] ELSE net[b].payee
  <2>1. payee \in Claimant \cup {None}
    BY <1>0
  <2>2. hold' = [hold EXCEPT ![b] = None] /\ UNCHANGED loading
    BY <1>5 DEF AskAnswered
  <2>3. CASE Publish(b, "paid", payee) /\ paid' = paid \cup {b} /\ Returns(k, "vouched")
    <3>1. NetStep
      BY <1>0, <2>1, <2>2, <2>3, Published DEF BountyStatus
    <3> QED
      BY <2>2, <2>3, <3>1, GoesToShow DEF Result
  <2>4. CASE Publish(b, "open", None) /\ paid' = paid /\ Returns(k, "disowned")
    <3>1. NetStep
      BY <1>0, <2>2, <2>4, Published DEF BountyStatus
    <3> QED
      BY <2>2, <2>4, <3>1, GoesToShow DEF Result
  <2> QED
    BY <1>5, <2>3, <2>4 DEF AskAnswered
<1> QED
  BY <1>1, <1>2, <1>3, <1>4, <1>5

\* ... and its result in the map.
LEMMA ApproveShowsHolds ==
  ASSUME Inv, NEW k \in Cmd, ApproveShows(k)
  PROVE  Inv'
<1> DEFINE r == cmd[k].result
           st == CASE r = "unknown"  -> "approving"
                   [] r = "disowned" -> "pending"
                   [] OTHER          -> "approved"
           status == IF r = "paid" THEN "paid" ELSE Entry(k).status
           claims == Chosen(k, st)
           entry == [Entry(k) EXCEPT !.claims = claims, !.status = status]
<1>1. cmd[k].at = "show" /\ Show(k, entry) /\ inFlight' = inFlight \ {cmd[k].id}
      /\ UNCHANGED <<network, loading>>
  BY DEF ApproveShows
<1>2. /\ cmd[k].obj # None /\ cmd[k].obj \in Slot /\ Entry(k) \in Info
      /\ Entry(k).id = cmd[k].id /\ cmd[k].claim \in ClaimInfo
  BY <1>1, InHand DEF Holding, Guarded
<1>3. st \in {"approving", "pending", "approved"}
  OBVIOUS
<1>4. st = "approved" => cmd[k].id \in paid
  BY <1>1 DEF Inv, PaidInv
<1> HIDE DEF st
<1> DEFINE c == [cmd[k].claim EXCEPT !.status = st]
<1>5. c \in ClaimInfo /\ c.status = st
  BY <1>2, <1>3 DEF ClaimInfo
<1>6. NoneApproved(Entry(k).claims) \/ Entry(k).id \in paid
  BY <1>2, NoneIs DEF Inv, PaidInv, Entry
<1>7. claims \subseteq Entry(k).claims \cup {c}
  BY DEF Chosen
<1>8. Entry(k).claims \subseteq ClaimInfo /\ Entry(k).status \in BountyStatus
  BY <1>2 DEF Info
<1>9. claims \in SUBSET ClaimInfo /\ status \in BountyStatus
  BY <1>5, <1>7, <1>8 DEF BountyStatus
<1>10. NoneApproved(claims) \/ cmd[k].id \in paid
  BY <1>2, <1>4, <1>5, <1>6, <1>7 DEF NoneApproved
<1> HIDE DEF claims, status
<1>11. entry \in Info /\ entry.id = cmd[k].id /\ entry.claims = claims
  BY <1>2, <1>9 DEF Info
<1> HIDE DEF entry
<1>12. NetStep /\ paid' = paid
  BY <1>1, NetSame DEF network
<1>13. NoneApproved(entry.claims) \/ entry.id \in paid'
  BY <1>10, <1>11, <1>12
<1> QED
  BY <1>1, <1>2, <1>11, <1>12, <1>13, Shows

\* Every step of the approve command.
LEMMA ApproveHolds ==
  ASSUME Inv, NEW k \in Cmd, Approve(k)
  PROVE  Inv'
<1>1. CASE Confirms(k)
  <2>1. /\ cmd[k].at = "confirm" /\ inFlight' = inFlight \cup {cmd[k].id}
        /\ cmd' = [cmd EXCEPT ![k].at = "pay"] /\ UNCHANGED <<view, network, loading>>
    BY <1>1 DEF Confirms, Go
  <2>2. "pay" \in Stage \ {"add", "added", "show"} /\ "pay" \in Guarded
    BY DEF Stage, Guarded
  <2>3. cmd[k].id \in Bounty /\ cmd[k].at \in Holding
    BY <2>1, InHand DEF Holding
  <2>4. GuardStep(k)
    BY <2>1, <2>2, <2>3, CmdAt DEF GuardStep, Inv, Types, CmdTypes, Guarded
  <2> QED
    BY <2>1, <2>2, <2>3, <2>4, NetSame, GoesAt
<1>2. CASE \/ PayoutRefused(k) \/ PayoutAlreadyPaid(k) \/ PayoutStarts(k)
           \/ PayoutSettles(k) \/ PayoutReleased(k) \/ PayoutNeedsWord(k)
  <2>1. cmd[k].at = "pay"
    BY <1>2 DEF PayoutRefused, PayoutAlreadyPaid, PayoutStarts, PayoutSettles,
                PayoutReleased, PayoutNeedsWord
  <2> QED
    BY <1>2, <2>1, PayoutHolds
<1>3. CASE \/ PayoutPaid(k) \/ PayoutFails(k) \/ PayoutUnknown(k)
           \/ AskDismissed(k) \/ AskAnswered(k)
  <2>1. cmd[k].at \in {"paying", "ask"}
    BY <1>3 DEF PayoutPaid, PayoutFails, PayoutUnknown, AskDismissed, AskAnswered
  <2> QED
    BY <1>3, <2>1, OutcomeHolds
<1> QED
  BY <1>1, <1>2, <1>3, PicksHolds, ApproveShowsHolds DEF Approve

\* The claim command.
LEMMA ClaimHolds ==
  ASSUME Inv, NEW k \in Cmd, ClaimPublishes(k) \/ ClaimShows(k)
  PROVE  Inv'
<1>1. CASE ClaimPublishes(k)
  <2> DEFINE b == cmd[k].id
             c == [who |-> Me, ver |-> net[b].ver[Me] + 1, status |-> "pending"]
  <2>1. /\ cmd[k].at = "claim" /\ File(b, Me)
        /\ cmd' = [cmd EXCEPT ![k].at = "claimed", ![k].claim = c]
        /\ UNCHANGED <<paid, hold, view, loading, inFlight>>
    BY <1>1 DEF ClaimPublishes
  <2>2. cmd[k].obj # None /\ b \in Bounty
    BY <2>1, InHand DEF Holding
  <2>3. NetStep /\ net[b].ver[Me] + 1 \in 1..MaxEdit
    BY <2>1, <2>2, MeAssumption, Filed
  <2>4. c \in ClaimInfo /\ c.status # "approved"
    BY <2>3, MeAssumption DEF ClaimInfo
  <2> HIDE DEF c
  <2>5. "claimed" \in Stage
    BY DEF Stage
  <2>6. /\ cmd' \in [Cmd -> Command] /\ \A j \in Cmd \ {k} : cmd'[j] = cmd[j]
        /\ cmd'[k].at = "claimed" /\ cmd'[k].obj = cmd[k].obj /\ cmd'[k].id = cmd[k].id
        /\ cmd'[k].claim = c /\ cmd'[k].result = cmd[k].result
    BY <2>1, <2>4, <2>5, CmdClaim DEF Inv
  <2>7. CmdStep(k) /\ StageOf(k)' /\ ClaimStep(k)
    BY <2>2, <2>4, <2>6, NoneIs DEF CmdStep, StageOf, ClaimStep
  <2>8. GuardStep(k)
    BY <2>1, GuardStays DEF Guarded
  <2> QED
    BY <2>1, <2>3, <2>5, <2>6, <2>7, <2>8, Goes
<1>2. CASE ClaimShows(k)
  <2> DEFINE claims == {d \in Entry(k).claims : d.who # Me} \cup {cmd[k].claim}
             entry == [Entry(k) EXCEPT !.claims = claims]
  <2>1. /\ cmd[k].at = "claimed" /\ Show(k, entry) /\ UNCHANGED <<network, loading, inFlight>>
    BY <1>2 DEF ClaimShows
  <2>2. /\ cmd[k].obj # None /\ cmd[k].obj \in Slot /\ Entry(k) \in Info
        /\ Entry(k).id = cmd[k].id /\ cmd[k].claim \in ClaimInfo
        /\ cmd[k].claim.status # "approved"
    BY <2>1, InHand, NoneIs DEF Holding
  <2>3. NoneApproved(Entry(k).claims) \/ Entry(k).id \in paid
    BY <2>2, NoneIs DEF Inv, PaidInv, Entry
  <2>4. claims \in SUBSET ClaimInfo /\ (NoneApproved(claims) \/ cmd[k].id \in paid)
    BY <2>2, <2>3 DEF Info, NoneApproved
  <2> HIDE DEF claims
  <2>5. entry \in Info /\ entry.id = cmd[k].id /\ entry.claims = claims
    BY <2>2, <2>4 DEF Info
  <2> HIDE DEF entry
  <2>6. NetStep /\ paid' = paid
    BY <2>1, NetSame DEF network
  <2>7. NoneApproved(entry.claims) \/ entry.id \in paid'
    BY <2>4, <2>5, <2>6
  <2> QED
    BY <2>1, <2>2, <2>5, <2>6, <2>7, Shows DEF Guarded
<1> QED
  BY <1>1, <1>2

\* The remove command.
LEMMA RemoveHolds ==
  ASSUME Inv, NEW k \in Cmd, RemoveConfirmed(k) \/ RemovePublishes(k) \/ RemoveShows(k)
  PROVE  Inv'
<1>1. CASE RemoveConfirmed(k)
  <2>1. PICK a \in {"removed", "cancel"} :
          /\ cmd[k].at = "remove" /\ cmd' = [cmd EXCEPT ![k].at = a]
          /\ UNCHANGED <<view, network, loading, inFlight>>
    BY <1>1 DEF RemoveConfirmed, Go
  <2>2. a \in Stage \ {"add", "added", "show"} /\ cmd[k].at \in Holding /\ cmd[k].at \notin Guarded
        /\ a \notin {"confirm", "claimed"} \cup Guarded
    BY <2>1 DEF Stage, Holding, Guarded
  <2> QED
    BY <2>1, <2>2, NetSame, GuardStays, GoesAt
<1>2. CASE RemovePublishes(k)
  <2>1. /\ cmd[k].at = "cancel" /\ Publish(cmd[k].id, "cancelled", None)
        /\ cmd' = [cmd EXCEPT ![k].at = "removed"]
        /\ UNCHANGED <<paid, hold, view, loading, inFlight>>
    BY <1>2 DEF RemovePublishes, Go
  <2>2. /\ "removed" \in Stage \ {"add", "added", "show"} /\ cmd[k].at \in Holding
        /\ cmd[k].at \notin Guarded /\ "removed" \notin {"confirm", "claimed"} \cup Guarded
    BY <2>1 DEF Stage, Holding, Guarded
  <2>3. cmd[k].id \in Bounty
    BY <2>2, InHand
  <2>4. NetStep
    BY <2>1, <2>3, Published DEF BountyStatus, Inv, Types, NetTypes
  <2> QED
    BY <2>1, <2>2, <2>4, GuardStays, GoesAt
<1>3. CASE RemoveShows(k)
  <2>1. /\ cmd[k].at = "removed" /\ listing' = None /\ cmd' = [cmd EXCEPT ![k] = Idle]
        /\ info' = Heap(info, None, cmd') /\ astray' = TRUE
        /\ UNCHANGED <<network, loading, inFlight>>
    BY <1>3 DEF RemoveShows
  <2>2. /\ cmd' \in [Cmd -> Command] /\ \A j \in Cmd \ {k} : cmd'[j] = cmd[j]
        /\ cmd'[k].at = "idle" /\ cmd'[k].obj = None /\ cmd'[k].claim = None
    BY <2>1, CmdIdle DEF Inv
  <2>3. CmdStep(k) /\ StageOf(k)' /\ ClaimStep(k)
    BY <2>2 DEF CmdStep, StageOf, Holding, Guarded, ClaimStep
  <2>4. GuardStep(k) /\ NetStep
    BY <2>1, GuardStays, NetSame DEF Guarded
  <2>5. EntriesAre(info)
    BY <2>4 DEF Inv, PaidInv, EntriesAre, NetStep
  <2>6. /\ info \in [Slot -> Info \cup {None}]
        /\ \A j \in Cmd : cmd[j].obj # None =>
             info[cmd[j].obj] # None /\ info[cmd[j].obj].id = cmd[j].id
    BY DEF Inv, Types, ViewTypes
  <2>7. \A j \in Cmd : cmd'[j].obj # None =>
             info[cmd'[j].obj] # None /\ info[cmd'[j].obj].id = cmd'[j].id
    BY <2>2, <2>6
  <2>8. ViewStep
    BY <2>1, <2>2, <2>5, <2>6, <2>7, ViewHeap
  <2> QED
    BY <2>1, <2>3, <2>4, <2>8, CommandStep
<1> QED
  BY <1>1, <1>2, <1>3

\* The add command.
LEMMA AddHolds ==
  ASSUME Inv, NEW k \in Cmd, AddPublishes(k) \/ AddShows(k)
  PROVE  Inv'
<1>1. CASE AddPublishes(k)
  <2>1. PICK b \in Own : /\ Publish(b, "open", None)
                         /\ cmd' = [cmd EXCEPT ![k].at = "added", ![k].id = b]
    BY <1>1 DEF AddPublishes
  <2>2. cmd[k].at = "add" /\ UNCHANGED <<paid, hold, view, loading, inFlight>>
    BY <1>1 DEF AddPublishes
  <2>3. b \in Bounty /\ "added" \in Stage
    BY DEF Bounty, Stage
  <2>4. cmd[k].obj = None
    BY <2>2 DEF Inv, StageInv, StageOf
  <2>5. /\ cmd' \in [Cmd -> Command] /\ \A j \in Cmd \ {k} : cmd'[j] = cmd[j]
        /\ cmd'[k].at = "added" /\ cmd'[k].obj = cmd[k].obj /\ cmd'[k].id = b
        /\ cmd'[k].claim = cmd[k].claim /\ cmd'[k].result = cmd[k].result
    BY <2>1, <2>3, CmdId DEF Inv
  <2>6. NetStep
    BY <2>1, <2>2, <2>3, Published DEF BountyStatus, Inv, Types, NetTypes
  <2>7. CmdStep(k) /\ StageOf(k)'
    BY <2>5 DEF CmdStep, StageOf, Holding, Guarded
  <2>8. ClaimStep(k)
    BY <2>5, InHand DEF ClaimStep
  <2>9. GuardStep(k)
    BY <2>2, GuardStays DEF Guarded
  <2>10. ViewStep /\ SameEntry
    BY <2>2, <2>4, <2>5, <2>6, <2>7, ViewSame
  <2> QED
    BY <2>2, <2>6, <2>7, <2>8, <2>9, <2>10, CommandStep
<1>2. CASE AddShows(k)
  <2> DEFINE entry == [id |-> cmd[k].id, status |-> "open", claims |-> {}]
             u == Unused
             objects == [info EXCEPT ![u] = entry]
  <2>1. /\ cmd[k].at = "added" /\ listing' = u /\ cmd' = [cmd EXCEPT ![k] = Idle]
        /\ info' = Heap(objects, u, cmd') /\ astray' = TRUE
        /\ UNCHANGED <<network, loading, inFlight>>
    BY <1>2 DEF AddShows
  <2>2. u \in Slot /\ \A j \in Cmd : cmd[j].obj # u
    BY UnusedIs DEF Inv
  <2>3. cmd[k].id \in Bounty
    BY <2>1 DEF Inv, StageInv, StageOf, Bounty
  <2>4. entry \in Info /\ entry.claims = {} /\ entry # None
    BY <2>3, NoneIs DEF Info, BountyStatus
  <2> HIDE DEF entry, u
  <2>5. /\ cmd' \in [Cmd -> Command] /\ \A j \in Cmd \ {k} : cmd'[j] = cmd[j]
        /\ cmd'[k].at = "idle" /\ cmd'[k].obj = None /\ cmd'[k].claim = None
    BY <2>1, CmdIdle DEF Inv
  <2>6. CmdStep(k) /\ StageOf(k)' /\ ClaimStep(k)
    BY <2>5 DEF CmdStep, StageOf, Holding, Guarded, ClaimStep
  <2>7. GuardStep(k) /\ NetStep
    BY <2>1, GuardStays, NetSame DEF Guarded
  <2>8. EntriesAre(info)
    BY <2>7 DEF Inv, PaidInv, EntriesAre, NetStep
  <2>9. /\ info \in [Slot -> Info \cup {None}]
        /\ \A j \in Cmd : cmd[j].obj # None =>
             cmd[j].obj \in Slot /\ info[cmd[j].obj] # None /\ info[cmd[j].obj].id = cmd[j].id
    BY InHand DEF Inv, Types, ViewTypes
  <2>10. /\ objects \in [Slot -> Info \cup {None}] /\ objects[u] = entry
         /\ \A s \in Slot \ {u} : objects[s] = info[s]
    BY <2>2, <2>4, <2>9
  <2> HIDE DEF objects
  <2>11. EntriesAre(objects)
    BY <2>4, <2>8, <2>10 DEF EntriesAre, NoneApproved
  <2>12. \A j \in Cmd : cmd'[j].obj # None =>
             objects[cmd'[j].obj] # None /\ objects[cmd'[j].obj].id = cmd'[j].id
    BY <2>2, <2>5, <2>9, <2>10
  <2>13. ViewStep
    BY <2>1, <2>2, <2>4, <2>5, <2>10, <2>11, <2>12, ViewHeap
  <2> QED
    BY <2>1, <2>6, <2>7, <2>13, CommandStep
<1> QED
  BY <1>1, <1>2

\* Every step of the other commands.
LEMMA OtherCommandHolds ==
  ASSUME Inv, NEW k \in Cmd, OtherCommand(k)
  PROVE  Inv'
<1>1. CASE GiveUp(k)
  <2>1. cmd[k].at \notin Guarded /\ End(k) /\ UNCHANGED <<network, loading, inFlight>>
    BY <1>1 DEF GiveUp, Guarded
  <2> QED
    BY <2>1, NetSame, EndsHolds
<1> QED
  BY <1>1, ClaimHolds, RemoveHolds, AddHolds DEF OtherCommand

\* A command is given.
LEMMA GivenHolds ==
  ASSUME Inv, NEW k \in Cmd, Given(k)
  PROVE  Inv'
<1>1. CASE ApproveStarts(k)
  BY <1>1, Takes DEF ApproveStarts
<1>2. CASE ClaimStarts(k)
  BY <1>2, Takes DEF ClaimStarts
<1>3. CASE RemoveStarts(k)
  BY <1>3, Takes DEF RemoveStarts
<1>4. CASE AddStarts(k)
  <2>1. cmd[k] = Idle /\ cmd' = [cmd EXCEPT ![k].at = "add"]
        /\ UNCHANGED <<view, network, loading, inFlight>>
    BY <1>4 DEF AddStarts, Go
  <2>2. cmd[k].at = "idle" /\ cmd[k].obj = None /\ "add" \in Stage
    BY <2>1 DEF Idle, Stage
  <2>3. /\ cmd' \in [Cmd -> Command] /\ \A j \in Cmd \ {k} : cmd'[j] = cmd[j]
        /\ cmd'[k].at = "add" /\ cmd'[k].obj = cmd[k].obj /\ cmd'[k].id = cmd[k].id
        /\ cmd'[k].claim = cmd[k].claim /\ cmd'[k].result = cmd[k].result
    BY <2>1, <2>2, CmdAt DEF Inv
  <2>4. CmdStep(k) /\ StageOf(k)'
    BY <2>2, <2>3 DEF CmdStep, StageOf, Holding, Guarded
  <2>5. ClaimStep(k)
    BY <2>3, InHand DEF ClaimStep
  <2>6. GuardStep(k) /\ NetStep
    BY <2>1, <2>2, GuardStays, NetSame DEF Guarded
  <2> QED
    BY <2>1, <2>2, <2>3, <2>4, <2>5, <2>6, Goes
<1> QED
  BY <1>1, <1>2, <1>3, <1>4 DEF Given

-----------------------------------------------------------------------------

\* Someone else publishes.
LEMMA ElsewhereHolds ==
  ASSUME Inv, Elsewhere
  PROVE  Inv'
<1>1. NetStep /\ UNCHANGED <<view, loading, cmd, inFlight>>
  <2>1. PICK b \in Bounty : ChangedElsewhere(b) \/ \E c \in Claimant : FiledElsewhere(b, c)
    BY DEF Elsewhere
  <2>2. /\ hold \in [Bounty -> Claimant \cup {None}] /\ paid \in SUBSET Bounty
        /\ net[b].payee \in Claimant \cup {None}
    BY DEF Inv, Types, NetTypes, OnRelays
  <2>3. CASE \E c \in Claimant : FiledElsewhere(b, c)
    BY <2>3, Filed DEF FiledElsewhere
  <2>4. CASE ChangedElsewhere(b)
    <3>1. hold' = hold /\ UNCHANGED <<view, loading, cmd, inFlight>>
      BY <2>4 DEF ChangedElsewhere
    <3>2. \/ (Publish(b, "open", None) \/ Publish(b, "cancelled", None)) /\ paid' = paid
          \/ paid' = paid /\ \E c \in Claimant : Publish(b, "approving", c)
          \/ Publish(b, "paid", net[b].payee) /\ paid' = paid \cup {b}
      BY <2>4 DEF ChangedElsewhere
    <3>3. \/ \E status \in {"open", "cancelled", "approving"}, payee \in Claimant \cup {None} :
               Publish(b, status, payee) /\ paid' = paid
          \/ Publish(b, "paid", net[b].payee) /\ paid' = paid \cup {b}
      BY <3>2
    <3> QED
      BY <2>2, <3>1, <3>3, Published DEF BountyStatus
  <2> QED
    BY <2>1, <2>3, <2>4
<1>2. Types'
  <2>1. ViewTypes'
    BY <1>1 DEF Inv, Types, ViewTypes, view
  <2> QED
    BY <1>1, <2>1 DEF Inv, Types, LoadTypes, CmdTypes, NetStep, loading
<1>3. StageInv' /\ GuardNeverLeaks'
  BY <1>1 DEF Inv, StageInv, StageOf, GuardNeverLeaks
<1>4. PaidInv'
  BY <1>1 DEF Inv, PaidInv, NetStep, view, loading
<1>5. FreshInv'
  BY <1>1, <1>2, FreshKept DEF SameEntry, view
<1> QED
  BY <1>2, <1>3, <1>4, <1>5 DEF Inv

\* What a load's step leaves alone.
LEMMA LoadFrame ==
  ASSUME Inv, UNCHANGED <<net, paid, hold, cmd, inFlight>>, news' \in BOOLEAN, LoadTypes',
         ViewTypes', EntriesAre(info'), FreshInv',
         \A l \in Load : load'[l].found # None => NoneApproved(load'[l].found.claims)
  PROVE  Inv'
<1>1. Types'
  BY DEF Inv, Types, NetTypes, CmdTypes
<1>2. StageInv' /\ GuardNeverLeaks'
  BY DEF Inv, StageInv, StageOf, GuardNeverLeaks
<1>3. PaidInv'
  BY DEF Inv, PaidInv, EntriesAre, NoneApproved
<1> QED
  BY <1>1, <1>2, <1>3 DEF Inv

\* A load that asks has found nothing yet,
LEMMA AskingIs == Asking \in Answer /\ Asking.phase = "asking" /\ Asking.found = None
BY DEF Asking, NoLoad, Answer

\* ... and one that does not run has found nothing.
LEMMA NoLoadIs == NoLoad \in Answer /\ NoLoad.phase = "idle" /\ NoLoad.found = None
BY DEF NoLoad, Answer

\* The steps that arm the timer, start a load or end the wait for the test items.
LEMMA StartHolds ==
  ASSUME Inv, UNCHANGED <<net, paid, hold, view, cmd, inFlight>>,
         \/ DeliverNews \/ StopPolling \/ \E l \in Load : TimerFires(l) \/ TestsAppear(l)
  PROVE  Inv'
<1>1. ViewTypes' /\ EntriesAre(info')
  BY DEF Inv, Types, ViewTypes, PaidInv, EntriesAre, view
<1>2. /\ load \in [Load -> Answer] /\ timer \in BOOLEAN /\ polling \in BOOLEAN
      /\ news \in BOOLEAN
      /\ \A l \in Load : load[l].found # None => NoneApproved(load[l].found.claims)
  BY DEF Inv, Types, LoadTypes, NetTypes, PaidInv
<1>3. CASE DeliverNews
  <2>1. LoadTypes' /\ news' \in BOOLEAN /\ load' = load
    BY <1>2, <1>3 DEF DeliverNews, LoadTypes
  <2>2. FreshInv'
    BY <1>3 DEF DeliverNews, FreshInv, UnderWay
  <2> QED
    BY <1>1, <1>2, <2>1, <2>2, LoadFrame
<1>4. CASE StopPolling
  <2>1. LoadTypes' /\ news' = news /\ load' = load /\ UNCHANGED timer
    BY <1>2, <1>4 DEF StopPolling, LoadTypes, network
  <2>2. FreshInv'
    <3>1. UnderWay' <=> UnderWay
      BY <2>1 DEF UnderWay
    <3>2. \A l \in Load : Right(load[l].found)' <=> Right(load[l].found)
      BY <2>1 DEF Right, Active, toBountyInfo, Shown, Closed, claimStatusFor
    <3>3. Fresh' <=> Fresh
      BY ActiveSame DEF Fresh, view
    <3> QED
      BY <2>1, <3>1, <3>2, <3>3 DEF FreshInv, Inv, view
  <2> QED
    BY <1>1, <1>2, <2>1, <2>2, LoadFrame
<1>5. ASSUME NEW l \in Load, TimerFires(l) \/ TestsAppear(l)
      PROVE  Inv'
  <2>1. load' = [load EXCEPT ![l] = Asking] /\ timer' \in BOOLEAN /\ polling' \in BOOLEAN
        /\ news' = news
    BY <1>2, <1>5 DEF TimerFires, TestsAppear, Start, network
  <2>2. LoadTypes' /\ load'[l].phase = "asking"
        /\ \A m \in Load : load'[m] = load[m] \/ load'[m].found = None
    BY <1>2, <2>1, AskingIs DEF LoadTypes
  <2>3. FreshInv'
    BY <2>2 DEF FreshInv, UnderWay
  <2> QED
    BY <1>1, <1>2, <2>1, <2>2, <2>3, LoadFrame
<1> QED
  BY <1>3, <1>4, <1>5

\* The best active bounty, or that there is none, is the right answer.
LEMMA RankedIsRight ==
  ASSUME Types
  PROVE  /\ Ranked = {} => Right(None)
         /\ \A b \in Ranked : Right(toBountyInfo(b)) /\ b \in Bounty /\ Active(b)
<1>1. ASSUME NEW b \in Bounty, Active(b), Ranked = {}
      PROVE  FALSE
  <2>1. \A c \in Bounty : rank(c) \in {0, 1, 2}
    BY DEF rank
  <2>2. \A c \in Bounty : Active(c) => \E d \in Bounty : Active(d) /\ rank(d) < rank(c)
    BY <1>1, <2>1 DEF Ranked
  <2> QED
    BY <1>1, <2>1, <2>2
<1>2. ASSUME NEW b \in Ranked
      PROVE  Right(toBountyInfo(b)) /\ b \in Bounty /\ Active(b)
  <2>1. b \in Bounty /\ Active(b) /\ \A c \in Bounty : Active(c) => rank(b) <= rank(c)
    BY DEF Ranked
  <2>2. toBountyInfo(b).id = b /\ toBountyInfo(b) # None
    BY <2>1, ListingOf, NoneIs
  <2>3. ASSUME NEW c \in Bounty, Active(c)
        PROVE  (c \in Own => b \in Own) /\ (c \in Trusted => b \notin Stranger)
    BY <2>1, <2>3, DisjointAssumption DEF rank, Bounty
  <2> QED
    BY <2>1, <2>2, <2>3 DEF Right
<1> QED
  BY <1>1, <1>2 DEF Right

\* A load is answered, and every other answer is behind: what it found is right, or
\* it is behind itself.
LEMMA AnswerHolds ==
  ASSUME Inv, NEW l \in Load, NEW found \in Info \cup {None}, NEW part \in BOOLEAN,
         found # None => NoneApproved(found.claims), part \/ Right(found),
         Ends(l, [phase |-> "answered", found |-> found, behind |-> part]),
         UNCHANGED <<network, view, timer, polling, cmd, inFlight>>
  PROVE  Inv'
<1> DEFINE answer == [phase |-> "answered", found |-> found, behind |-> part]
<1>3. /\ answer \in Answer /\ answer.phase = "answered" /\ answer.behind = part
      /\ answer.found = found
  BY DEF Answer
<1> HIDE DEF answer
<1>4. load' = [m \in Load |-> IF m = l THEN answer
                 ELSE [load[m] EXCEPT !.behind = @ \/ load[m].phase = "answered"]]
  BY DEF Ends, answer
<1>5. load \in [Load -> Answer]
  BY DEF Inv, Types, LoadTypes
<1>6. UNCHANGED <<net, paid, hold, news, view, timer, polling, cmd, inFlight>>
  BY DEF network
<1>7. ASSUME NEW m \in Load \ {l}
      PROVE  /\ load'[m] \in Answer /\ load'[m].phase = load[m].phase
             /\ load'[m].found = load[m].found
             /\ load[m].phase = "answered" => load'[m].behind
  <2>1. load[m] \in Answer
    BY <1>5
  <2> DEFINE o == load[m].behind \/ load[m].phase = "answered"
             a == [load[m] EXCEPT !.behind = o]
  <2>2. o \in BOOLEAN
    OBVIOUS
  <2> HIDE DEF o
  <2>3. /\ a \in Answer /\ a.phase = load[m].phase /\ a.found = load[m].found /\ a.behind = o
    BY <2>1, <2>2 DEF Answer
  <2>4. load'[m] = a
    BY <1>4, <1>5 DEF o
  <2> HIDE DEF a
  <2> QED
    BY <2>3, <2>4 DEF o
<1>8. load'[l] = answer
  BY <1>4
<1>9. load' \in [Load -> Answer]
  BY <1>3, <1>4, <1>7, <1>8
<1>10. LoadTypes' /\ news' \in BOOLEAN
  BY <1>6, <1>9 DEF Inv, Types, LoadTypes, NetTypes
<1>11. ViewTypes' /\ EntriesAre(info')
  BY <1>6 DEF Inv, Types, ViewTypes, PaidInv, EntriesAre, view
<1>12. part \/ Right(load[l].found)'
  <2>1. part \/ Right(found)'
    BY <1>6, RightSame
  <2>2. load'[l].found = found
    BY <1>3, <1>8
  <2>3. CASE part
    BY <2>3
  <2>4. CASE ~part /\ found = None
    BY <2>1, <2>2, <2>4 DEF Right, Active
  <2>5. CASE ~part /\ found # None
    <3>1. found.id = load'[l].found.id
      BY <2>2
    <3>2. toBountyInfo(found.id)' = toBountyInfo(load[l].found.id)'
      BY <3>1 DEF toBountyInfo, Shown, Closed, claimStatusFor
    <3>3. Right(found)'
      BY <2>1, <2>5
    <3> QED
      BY <2>2, <2>5, <3>1, <3>2, <3>3 DEF Right, Active
  <2> QED
    BY <2>3, <2>4, <2>5
<1>13. FreshInv'
  BY <1>3, <1>7, <1>8, <1>12 DEF FreshInv
<1>14. \A m \in Load : load'[m].found # None => NoneApproved(load'[m].found.claims)
  BY <1>3, <1>7, <1>8 DEF Inv, PaidInv
<1> QED
  BY <1>6, <1>10, <1>11, <1>13, <1>14, LoadFrame

\* ... as all relays have answered,
LEMMA AnswersHolds ==
  ASSUME Inv, NEW l \in Load, LoadAnswers(l)
  PROVE  Inv'
<1>1. PICK found \in IF Ranked = {} THEN {None} ELSE {toBountyInfo(b) : b \in Ranked} :
        Ends(l, [phase |-> "answered", found |-> found, behind |-> FALSE])
  BY DEF LoadAnswers
<1>2. /\ found \in Info \cup {None} /\ Right(found)
      /\ found # None => NoneApproved(found.claims)
  BY <1>1, RankedIsRight, ListingOf DEF Inv
<1> QED
  BY <1>1, <1>2, AnswerHolds DEF LoadAnswers

\* ... or as only some have.
LEMMA AnswersPartlyHolds ==
  ASSUME Inv, NEW l \in Load, LoadAnswersPartly(l)
  PROVE  Inv'
<1>1. PICK found \in {None} \cup UNION {Parts(b) : b \in Bounty} :
        Ends(l, [phase |-> "answered", found |-> found, behind |-> TRUE])
  BY DEF LoadAnswersPartly
<1>2. /\ found \in Info \cup {None}
      /\ found # None => NoneApproved(found.claims)
  BY <1>1, PartOf DEF Inv
<1> QED
  BY <1>1, <1>2, AnswerHolds DEF LoadAnswersPartly

\* A load fails.
LEMMA FailsHolds ==
  ASSUME Inv, NEW l \in Load, LoadFails(l)
  PROVE  Inv'
<1>1. load' = [m \in Load |-> IF m = l THEN NoLoad
                 ELSE [load[m] EXCEPT !.behind = @ \/ load[m].phase = "answered"]]
  BY DEF LoadFails, Ends
<1>2. load \in [Load -> Answer]
  BY DEF Inv, Types, LoadTypes
<1>3. /\ UNCHANGED <<net, paid, hold, news, info, listing, timer, polling, cmd, inFlight>>
      /\ astray' = TRUE
  BY DEF LoadFails, network
<1>4. ASSUME NEW m \in Load \ {l}
      PROVE  /\ load'[m] \in Answer /\ load'[m].phase = load[m].phase
             /\ load'[m].found = load[m].found
             /\ load[m].phase = "answered" => load'[m].behind
  <2>1. load[m] \in Answer
    BY <1>2
  <2> DEFINE o == load[m].behind \/ load[m].phase = "answered"
             a == [load[m] EXCEPT !.behind = o]
  <2>2. o \in BOOLEAN
    OBVIOUS
  <2> HIDE DEF o
  <2>3. /\ a \in Answer /\ a.phase = load[m].phase /\ a.found = load[m].found /\ a.behind = o
    BY <2>1, <2>2 DEF Answer
  <2>4. load'[m] = a
    BY <1>1, <1>2 DEF o
  <2> HIDE DEF a
  <2> QED
    BY <2>3, <2>4 DEF o
<1>5. load'[l] = NoLoad
  BY <1>1
<1>6. load' \in [Load -> Answer]
  BY <1>1, <1>4, <1>5, NoLoadIs
<1>7. LoadTypes' /\ news' \in BOOLEAN
  BY <1>3, <1>6 DEF Inv, Types, LoadTypes, NetTypes
<1>8. ViewTypes' /\ EntriesAre(info')
  BY <1>3 DEF Inv, Types, ViewTypes, PaidInv, EntriesAre
<1>9. FreshInv'
  BY <1>3, <1>4, <1>5, NoLoadIs DEF FreshInv
<1>10. \A m \in Load : load'[m].found # None => NoneApproved(load'[m].found.claims)
  BY <1>4, <1>5, NoLoadIs DEF Inv, PaidInv
<1> QED
  BY <1>3, <1>7, <1>8, <1>9, <1>10, LoadFrame

\* The map is fresh when the entry it shows is right.
LEMMA RightNext ==
  ASSUME NEW e, e = (IF listing' = None THEN None ELSE info'[listing']),
         listing' # None => e # None, Right(e)'
  PROVE  Fresh'
<1>1. CASE listing' = None
  BY <1>1 DEF Right, Fresh, Active
<1>2. CASE listing' # None
  BY <1>2 DEF Right, Fresh, Active, toBountyInfo, Shown, Closed, claimStatusFor
<1> QED
  BY <1>1, <1>2

\* A load sets the map to what it found.
LEMMA AppliesHolds ==
  ASSUME Inv, NEW l \in Load, LoadApplies(l)
  PROVE  Inv'
<1> DEFINE found == load[l].found
           u == Unused
           objects == [info EXCEPT ![u] = found]
<1>1. /\ load[l].phase = "answered" /\ load' = [load EXCEPT ![l] = NoLoad]
      /\ listing' = IF found = None THEN None ELSE u
      /\ info' = Heap(objects, listing', cmd)
      /\ astray' = load[l].behind
      /\ UNCHANGED <<net, paid, hold, news, timer, polling, cmd, inFlight>>
  BY DEF LoadApplies, network
<1>2. load \in [Load -> Answer]
  BY DEF Inv, Types, LoadTypes
<1>3. found \in Info \cup {None} /\ load[l].behind \in BOOLEAN
  BY <1>2 DEF Answer
<1>4. found # None => NoneApproved(found.claims)
  BY DEF Inv, PaidInv
<1>5. u \in Slot /\ \A j \in Cmd : cmd[j].obj # u
  BY UnusedIs DEF Inv
<1>6. /\ info \in [Slot -> Info \cup {None}] /\ cmd \in [Cmd -> Command]
      /\ \A j \in Cmd : cmd[j].obj # None =>
           cmd[j].obj \in Slot /\ info[cmd[j].obj] # None /\ info[cmd[j].obj].id = cmd[j].id
  BY InHand DEF Inv, Types, ViewTypes, CmdTypes
<1>7. EntriesAre(info)
  BY <1>1 DEF Inv, PaidInv, EntriesAre
<1> HIDE DEF found, u
<1>8. /\ objects \in [Slot -> Info \cup {None}] /\ objects[u] = found
      /\ \A s \in Slot \ {u} : objects[s] = info[s]
  BY <1>3, <1>5, <1>6
<1> HIDE DEF objects
<1>9. EntriesAre(objects)
  BY <1>4, <1>7, <1>8 DEF EntriesAre
<1>10. \A j \in Cmd : cmd'[j].obj # None =>
         objects[cmd'[j].obj] # None /\ objects[cmd'[j].obj].id = cmd'[j].id
  BY <1>1, <1>5, <1>6, <1>8
<1>11. listing' \in Slot \cup {None} /\ (listing' # None => listing' = u /\ found # None)
  BY <1>1, <1>5
<1>12. ViewStep
  <2>1. listing' # None => objects[listing'] # None
    BY <1>8, <1>11
  <2>2. cmd' \in [Cmd -> Command] /\ info' = Heap(objects, listing', cmd') /\ astray' \in BOOLEAN
    BY <1>1, <1>3, <1>6
  <2> QED
    BY <1>8, <1>9, <1>10, <1>11, <2>1, <2>2, ViewHeap
<1>13. LoadTypes' /\ news' \in BOOLEAN
  BY <1>1, <1>2, NoLoadIs DEF Inv, Types, LoadTypes, NetTypes
<1>14. load'[l] = NoLoad /\ \A m \in Load \ {l} : load'[m] = load[m]
  BY <1>1, <1>2
<1>15. \A m \in Load : load'[m].found # None => NoneApproved(load'[m].found.claims)
  BY <1>14, NoLoadIs DEF Inv, PaidInv
<1>16. UnderWay' <=> UnderWay
  BY <1>1, <1>14, NoLoadIs DEF UnderWay
<1>17. (IF listing' = None THEN None ELSE info'[listing']) = found
  <2>1. listing' # None => info'[listing'] = objects[listing']
    BY <1>1, <1>8, <1>11, HeapIs
  <2> QED
    BY <1>1, <1>5, <1>8, <2>1, NoneIs
<1>18. FreshInv'
  <2>1. ASSUME NEW m \in Load, load'[m].phase = "answered", ~load'[m].behind
        PROVE  Right(load[m].found)' \/ UnderWay'
    <3>1. m # l /\ load'[m] = load[m]
      BY <1>14, <2>1, NoLoadIs
    <3>2. Right(load[m].found) \/ UnderWay
      BY <2>1, <3>1 DEF Inv, FreshInv
    <3>3. PICK e : e = load[m].found
      OBVIOUS
    <3>4. Right(load[m].found) => Right(load[m].found)'
      <4>1. Right(e) <=> Right(e)'
        BY <1>1, RightSame
      <4>2. ASSUME Right(load[m].found)
            PROVE  Right(e)'
        BY <3>3, <4>1, <4>2
      <4>3. load'[m].found = e
        BY <3>1, <3>3
      <4>4. Right(e)' => Right(load[m].found)'
        BY <4>3 DEF Right, Active, toBountyInfo, Shown, Closed, claimStatusFor
      <4> QED
        BY <4>2, <4>4
    <3> QED
      BY <1>16, <3>2, <3>4
  <2>2. Fresh' \/ astray' \/ UnderWay'
    <3>1. ~load[l].behind => Right(found) \/ UnderWay
      BY <1>1 DEF Inv, FreshInv, found
    <3>2. Right(found) => Fresh'
      <4>1. PICK e : e = found
        OBVIOUS
      <4>2. Right(e) <=> Right(e)'
        BY <1>1, RightSame
      <4>3. Right(e)' => Fresh'
        BY <1>11, <1>17, <4>1, RightNext
      <4> QED
        BY <4>1, <4>2, <4>3
    <3> QED
      BY <1>1, <1>16, <3>1, <3>2
  <2> QED
    BY <2>1, <2>2 DEF FreshInv
<1> QED
  BY <1>1, <1>12, <1>13, <1>15, <1>18, LoadFrame DEF ViewStep

\* Every step of the loads.
LEMMA LoadsHold ==
  ASSUME Inv, Loads
  PROVE  Inv'
<1>1. CASE \/ DeliverNews \/ StopPolling \/ \E l \in Load : TimerFires(l) \/ TestsAppear(l)
  <2>1. UNCHANGED <<net, paid, hold, view, cmd, inFlight>>
    BY <1>1 DEF DeliverNews, StopPolling, TimerFires, TestsAppear, network
  <2> QED
    BY <1>1, <2>1, StartHolds
<1> QED
  BY <1>1, AnswersHolds, FailsHolds, AppliesHolds DEF Loads

\* A window opens with the invariant: nothing is paid, nothing shown, a load asks.
LEMMA InitHolds == Init => Inv
<1> SUFFICES ASSUME Init
             PROVE  Inv
  OBVIOUS
<1>1. PICK c \in Claimant \ {Me} :
        LET claimed == [Opened EXCEPT !.ver[c] = 1] IN
        net \in [Bounty -> {Absent, Opened, claimed,
                            [claimed EXCEPT !.status = "approving", !.payee = c,
                               !.past = {[status |-> "open", payee |-> None]}]}]
  BY DEF Init
<1> DEFINE claimed == [Opened EXCEPT !.ver[c] = 1]
           held == [claimed EXCEPT !.status = "approving", !.payee = c,
                      !.past = {[status |-> "open", payee |-> None]}]
           none == [a \in Claimant |-> 0]
           one == [none EXCEPT ![c] = 1]
<1>2. none \in [Claimant -> 0..MaxEdit] /\ one \in [Claimant -> 0..MaxEdit]
  BY BoundsAssumption
<1>3. /\ Absent = [status |-> "absent", payee |-> None, ver |-> none, late |-> {},
                   past |-> {}]
      /\ Opened = [status |-> "open", payee |-> None, ver |-> none, late |-> {},
                   past |-> {}]
      /\ claimed = [status |-> "open", payee |-> None, ver |-> one, late |-> {},
                   past |-> {}]
  <2>1. Absent = [status |-> "absent", payee |-> None, ver |-> none, late |-> {},
                   past |-> {}]
    BY DEF Absent
  <2> HIDE DEF none
  <2>2. Opened = [status |-> "open", payee |-> None, ver |-> none, late |-> {},
                   past |-> {}]
    BY <2>1 DEF Opened
  <2>3. claimed = [Opened EXCEPT !.ver = one]
    BY <2>2
  <2> HIDE DEF one, claimed
  <2> QED
    BY <2>1, <2>2, <2>3
<1> HIDE DEF none, one, claimed
<1>4. net \in [Bounty -> OnRelays] /\ \A b \in Bounty : net[b].status # "paid"
  <2>1. /\ Absent \in OnRelays /\ Opened \in OnRelays /\ claimed \in OnRelays
        /\ Absent.status # "paid" /\ Opened.status # "paid" /\ claimed.status # "paid"
    BY <1>2, <1>3 DEF OnRelays, BountyStatus
  <2>2. held \in OnRelays /\ held.status # "paid"
    <3> DEFINE past == {[status |-> "open", payee |-> None]}
    <3>1. past \in SUBSET ActiveVersion
      BY DEF ActiveVersion
    <3> HIDE DEF past
    <3>2. /\ [claimed EXCEPT !.status = "approving", !.payee = c, !.past = past] \in OnRelays
          /\ [claimed EXCEPT !.status = "approving", !.payee = c, !.past = past].status # "paid"
      BY <2>1, <3>1 DEF OnRelays, BountyStatus
    <3> QED
      BY <3>2 DEF past
  <2>3. net \in [Bounty -> {Absent, Opened, claimed, held}]
    BY <1>1 DEF claimed
  <2> HIDE DEF held
  <2> QED
    BY <2>1, <2>2, <2>3
<1>5. PICK l \in Load : load = [[m \in Load |-> NoLoad] EXCEPT ![l] = Asking]
  BY DEF Init
<1>6. load \in [Load -> Answer] /\ load[l].phase = "asking"
      /\ \A m \in Load : load[m].found = None /\ load[m].phase # "answered"
  BY <1>5, AskingIs, NoLoadIs
<1>7. Idle \in Command /\ Idle.at = "idle" /\ Idle.obj = None /\ Idle.claim = None
  BY DEF Idle, Command, Stage, Result
<1>8. /\ paid = {} /\ hold \in [Bounty -> Claimant \cup {None}] /\ inFlight = {}
      /\ info = [s \in Slot |-> None] /\ listing = None /\ astray = FALSE
      /\ timer = FALSE /\ news = FALSE /\ polling = TRUE /\ cmd = [k \in Cmd |-> Idle]
  BY DEF Init
<1>9. \A k \in Cmd : cmd[k] = Idle
  BY <1>8
<1>10. Types
  BY <1>4, <1>6, <1>7, <1>8, <1>9
  DEF Types, NetTypes, ViewTypes, LoadTypes, CmdTypes
<1>11. StageInv /\ GuardNeverLeaks
  BY <1>7, <1>8, <1>9 DEF StageInv, StageOf, Holding, Guarded, GuardNeverLeaks
<1>12. PaidInv
  BY <1>4, <1>6, <1>7, <1>8, <1>9 DEF PaidInv
<1>13. FreshInv
  BY <1>6 DEF FreshInv, UnderWay
<1> QED
  BY <1>10, <1>11, <1>12, <1>13 DEF Inv

\* Every step keeps it.
LEMMA NextHolds == Inv /\ [Next]_vars => Inv'
<1> SUFFICES ASSUME Inv, [Next]_vars
             PROVE  Inv'
  OBVIOUS
<1>1. CASE Next
  BY <1>1, LoadsHold, ApproveHolds, OtherCommandHolds, ElsewhereHolds, GivenHolds,
     AnswersPartlyHolds
  DEF Next, Runs, Moves
<1>2. CASE UNCHANGED vars
  <2>1. Types'
    BY <1>2 DEF vars, Inv, Types, NetTypes, ViewTypes, LoadTypes, CmdTypes
  <2>2. StageInv' /\ GuardNeverLeaks' /\ PaidInv'
    BY <1>2 DEF vars, Inv, StageInv, StageOf, GuardNeverLeaks, PaidInv
  <2>3. NetStep /\ SameEntry /\ UNCHANGED loading
    BY <1>2, NetSame DEF vars, network, SameEntry, loading
  <2> QED
    BY <2>1, <2>2, <2>3, FreshKept DEF Inv
<1> QED
  BY <1>1, <1>2

\* The inductive invariant holds in every state of the editor.
THEOREM Correct == Spec => []Inv
<1> QED
  BY InitHolds, NextHolds, PTL DEF Spec

\* The count of moves stays within its bound.
MovesInv == moves \in 0..MaxMoves

\* Every variable has its type; the map and the commands refer to entries that
\* exist, and a command's entry is of its bounty.
THEOREM TypesHold == Spec => []TypeOK
<1>1. Init => MovesInv
  BY BoundsAssumption DEF Init, MovesInv
<1>2. MovesInv /\ [Next]_vars => MovesInv'
  BY BoundsAssumption DEF Next, Runs, Moves, vars, MovesInv
<1>3. Inv /\ MovesInv => TypeOK
  BY TypesAre DEF Inv, MovesInv
<1> QED
  BY <1>1, <1>2, <1>3, Correct, PTL DEF Spec

\* A lens says "Claim Approved - Payout Sent" only on a bounty that was paid
\* (approve-claim.ts 356-461: what is shown depends on the payout's result).
THEOREM NothingUnpaidIsApproved == Spec => []ApprovedMeansPaid
<1>1. Inv => ApprovedMeansPaid
  <2> SUFFICES ASSUME Inv, listing # None, Aggregate(info[listing].claims) = "approved"
               PROVE  info[listing].id \in paid
    BY DEF ApprovedMeansPaid
  <2>1. listing \in Slot /\ info[listing] # None
    BY DEF Inv, Types, ViewTypes
  <2>2. ~NoneApproved(info[listing].claims)
    BY DEF Aggregate, NoneApproved
  <2> QED
    BY <2>1, <2>2 DEF Inv, PaidInv
<1> QED
  BY <1>1, Correct, PTL

\* A bounty is guarded only while an approval of it is under way
\* (approve-claim.ts 332 and 459-460: the guard is dropped in `finally`).
THEOREM GuardsAreDropped == Spec => []GuardNeverLeaks
<1>1. Inv => GuardNeverLeaks
  BY DEF Inv
<1> QED
  BY <1>1, Correct, PTL

\* When nothing is under way the map shows what the relays hold, or was last set by
\* a failed load, an answer of some relays only or one that was overtaken, or a
\* command (extension.ts 118-119).
THEOREM QuietIsFresh == Spec => []QuietMapIsFresh
<1>1. Inv => QuietMapIsFresh
  BY NoLoadIs DEF Inv, FreshInv, UnderWay, QuietMapIsFresh
<1> QED
  BY <1>1, Correct, PTL

=============================================================================
