------------------------------- MODULE Editor -------------------------------
(***************************************************************************)
(* One editor window of one user: the map of bounties its code lenses      *)
(* read (src/extension.ts), the background loads and live updates that     *)
(* replace it, and the approve, claim, remove and add commands that work   *)
(* on its entries and put them back (src/bounty/commands/).                *)
(*                                                                         *)
(* The entries are JavaScript objects: a command changes the one it took   *)
(* out of the map, which after a reload may no longer be the one in it.    *)
(* `info` is that heap.  All bounties are on one test, so the map is one   *)
(* entry, `listing`.  How versions of events are ordered is the subject of *)
(* Events, and how a payout runs of Payout: here a payout is its result.   *)
(***************************************************************************)
EXTENDS Naturals, FiniteSets

CONSTANTS
  Own,       \* bounties this user creates
  Trusted,   \* bounties of the creators this user trusts
  Stranger,  \* everyone else's
  Claimant,  \* who files claims
  Me,        \* this user, as a claimant
  Cmd,       \* bound on the commands running at once
  Load,      \* bound on the loads running at once
  None,      \* absence of a value
  MaxEdit,   \* bound on the versions of a claim
  MaxMoves   \* bound on the commands given, changes elsewhere and partial answers

Bounty == Own \cup Trusted \cup Stranger

ASSUME MeAssumption == Me \in Claimant
ASSUME NoneAssumption == None \notin Bounty \cup Claimant \cup Nat
ASSUME DisjointAssumption ==
  Own \cap Trusted = {} /\ (Own \cup Trusted) \cap Stranger = {}
ASSUME BoundsAssumption ==
  MaxEdit \in Nat \ {0} /\ MaxMoves \in Nat /\ IsFiniteSet(Cmd)

VARIABLES
  net,      \* what the relays hold of each bounty and its claims
  paid,     \* bounties whose payment was made, or vouched for by the creator
  hold,     \* whom this machine's journal holds a payout for
  info,     \* the heap of listing entries
  listing,  \* the entry in the map
  load,     \* the background loads
  timer,    \* the debounced reload is due
  news,     \* an event the subscription has not delivered yet
  polling,  \* the wait for the test items is still on
  cmd,      \* the commands
  inFlight, \* bounties the approve command guards
  astray,   \* the map was last set from something else than the newest whole answer
  moves     \* how many there were

vars == <<net, paid, hold, info, listing, load, timer, news, polling, cmd,
          inFlight, astray, moves>>
network == <<net, paid, hold, news>>
view == <<info, listing, astray>>
loading == <<load, timer, polling>>

Slot == 1..(Cardinality(Cmd) + 1)
ClaimInfo == [who : Claimant, ver : 1..MaxEdit,
              status : {"pending", "approving", "approved"}]
BountyStatus == {"absent", "open", "approving", "paid", "cancelled"}
Info == [id : Bounty, status : BountyStatus, claims : SUBSET ClaimInfo]

\* None is not mistaken for an entry of a listing or a claim.
ASSUME NoEntryAssumption == None \notin Info \cup ClaimInfo

\* A version in which a bounty is listed.
ActiveVersion == [status : {"open", "approving"}, payee : Claimant \cup {None}]

\* `late` are the claims filed since the bounty was closed; `past` the versions
\* since replaced, which a relay that missed the replacement still shows.
OnRelays == [status : BountyStatus, payee : Claimant \cup {None},
             ver : [Claimant -> 0..MaxEdit], late : SUBSET Claimant,
             past : SUBSET ActiveVersion]

Stage == {"idle", "pick", "confirm", "pay", "paying", "ask", "show", "claim",
          "claimed", "remove", "cancel", "removed", "add", "added"}
Result == {"none", "paid", "already", "unknown", "vouched", "disowned"}
Command == [at : Stage, obj : Slot \cup {None}, id : Bounty \cup {None},
            claim : ClaimInfo \cup {None}, result : Result]
Idle == [at |-> "idle", obj |-> None, id |-> None, claim |-> None,
         result |-> "none"]

Answer == [phase : {"idle", "asking", "answered"}, found : Info \cup {None},
           behind : BOOLEAN]
NoLoad == [phase |-> "idle", found |-> None, behind |-> FALSE]
Asking == [NoLoad EXCEPT !.phase = "asking"]

TypeOK ==
  /\ net \in [Bounty -> OnRelays]
  /\ paid \in SUBSET Bounty
  /\ hold \in [Bounty -> Claimant \cup {None}]
  /\ info \in [Slot -> Info \cup {None}]
  /\ listing \in Slot \cup {None}
  /\ load \in [Load -> Answer]
  /\ timer \in BOOLEAN /\ news \in BOOLEAN /\ polling \in BOOLEAN
  /\ cmd \in [Cmd -> Command]
  /\ inFlight \in SUBSET Bounty
  /\ astray \in BOOLEAN
  /\ moves \in 0..MaxMoves
  /\ listing # None => info[listing] # None
  /\ \A k \in Cmd : cmd[k].obj # None =>
       info[cmd[k].obj] # None /\ info[cmd[k].obj].id = cmd[k].id

Absent == [status |-> "absent", payee |-> None,
           ver |-> [c \in Claimant |-> 0], late |-> {}, past |-> {}]
Opened == [Absent EXCEPT !.status = "open"]

\* A window opens on whatever the relays hold: no bounty, an open one, perhaps
\* claimed by someone, or a payout left over from an earlier window.
\* activate() starts the first load.
Init ==
  /\ \E c \in Claimant \ {Me} :
       LET claimed == [Opened EXCEPT !.ver[c] = 1] IN
       net \in [Bounty -> {Absent, Opened, claimed,
                         [claimed EXCEPT !.status = "approving", !.payee = c,
                                         !.past = {[status |-> "open", payee |-> None]}]}]
  /\ \A b \in Bounty \ Own : net[b].status # "approving"
  /\ paid = {}
  /\ hold \in [Bounty -> Claimant \cup {None}]
  /\ \A b \in Bounty :
       hold[b] # None => b \in Own /\ net[b].payee = hold[b]
  /\ info = [s \in Slot |-> None] /\ listing = None
  /\ \E l \in Load : load = [[m \in Load |-> NoLoad] EXCEPT ![l] = Asking]
  /\ timer = FALSE /\ news = FALSE /\ polling = TRUE
  /\ cmd = [k \in Cmd |-> Idle]
  /\ inFlight = {}
  /\ astray = FALSE
  /\ moves = 0

-----------------------------------------------------------------------------
(* What the relays hold, as a listing shows it. *)

Closed(b) == net[b].status \in {"paid", "cancelled"}
Active(b) == net[b].status \in {"open", "approving"}

Latest(b) ==
  IF Active(b) THEN {[status |-> net[b].status, payee |-> net[b].payee]} ELSE {}

\* The status of c's claim under the version v of its bounty.
claimStatusFor(v, c) ==
  IF v.payee # c THEN "pending"
  ELSE CASE v.status = "paid"      -> "approved"
         [] v.status = "approving" -> "approving"
         [] OTHER                  -> "pending"

Shown(b) ==
  {c \in Claimant : net[b].ver[c] > 0 /\
     (Closed(b) => c \notin net[b].late \/ c = net[b].payee)}

toBountyInfo(b) ==
  [id |-> b, status |-> net[b].status,
   claims |-> {[who |-> c, ver |-> net[b].ver[c],
                status |-> claimStatusFor(net[b], c)] : c \in Shown(b)}]

\* What some of the relays make of b: a version that may have been replaced, and
\* such claims, in such versions, as they have.
Parts(b) ==
  {[id |-> b, status |-> v.status,
    claims |-> {[who |-> c, ver |-> seen[c],
                 status |-> claimStatusFor(v, c)] : c \in {d \in Claimant : seen[d] > 0}}] :
     v \in net[b].past \cup Latest(b),
     seen \in {f \in [Claimant -> 0..MaxEdit] : \A c \in Claimant : f[c] <= net[b].ver[c]}}

rank(b) == IF b \in Own THEN 0 ELSE IF b \in Trusted THEN 1 ELSE 2

\* Variant: the newest bounty comes first, whoever created it.
Unranked == {b \in Bounty : Active(b)}

\* attachTestItems keeps the first of the ranked active bounties; between
\* bounties of one rank that is the newest, which may be any of them.
Ranked ==
  {b \in Bounty : Active(b) /\ \A c \in Bounty : Active(c) => rank(b) <= rank(c)}

\* aggregateClaimStatus
Aggregate(claims) ==
  LET statuses == {c.status : c \in claims} IN
  IF "approved" \in statuses THEN "approved"
  ELSE IF "approving" \in statuses THEN "approving"
  ELSE IF "pending" \in statuses THEN "pending" ELSE "none"

\* A new version of b: its event reaches every subscription.
Publish(b, status, payee) ==
  /\ net' = [net EXCEPT ![b].status = status, ![b].payee = payee, ![b].late = {},
                        ![b].past = @ \cup Latest(b)]
  /\ news' = TRUE

File(b, c) ==
  /\ net[b].ver[c] < MaxEdit
  /\ net' = [net EXCEPT ![b].ver[c] = @ + 1,
                        ![b].late = IF Closed(b) THEN @ \cup {c} ELSE @]
  /\ news' = TRUE

\* Entries nobody refers to any more are garbage.
Heap(objects, l, c) ==
  [s \in Slot |-> IF s = l \/ \E k \in Cmd : c[k].obj = s
                    THEN objects[s] ELSE None]

\* Variant: a load changes the entry in the map instead of making a new one.
InPlace ==
  IF listing # None THEN listing ELSE CHOOSE s \in Slot : \A k \in Cmd : cmd[k].obj # s

\* A slot no command refers to, for a new object.
Unused == CHOOSE s \in Slot : \A k \in Cmd : cmd[k].obj # s

-----------------------------------------------------------------------------
(* Loads and live updates (extension.ts). *)

\* The subscription's callback arms the debounced reload.
DeliverNews ==
  /\ news
  /\ news' = FALSE
  /\ timer' = TRUE
  /\ UNCHANGED <<net, paid, hold, view, load, polling, cmd, inFlight>>

Start(l) == load[l].phase = "idle" /\ load' = [load EXCEPT ![l] = Asking]

TimerFires(l) ==
  /\ timer
  /\ timer' = FALSE
  /\ Start(l)
  /\ UNCHANGED <<network, view, polling, cmd, inFlight>>

\* Test items have appeared (checkTestItemsInterval).
TestsAppear(l) ==
  /\ polling
  /\ polling' = FALSE
  /\ Start(l)
  /\ UNCHANGED <<network, view, timer, cmd, inFlight>>

\* No test item for 30 seconds (stopPollingTimeout).
StopPolling ==
  /\ polling
  /\ polling' = FALSE
  /\ UNCHANGED <<network, view, load, timer, cmd, inFlight>>

\* The query of l has ended with `answer`: what other loads still have to apply
\* is behind, having missed what this query was made for.
Ends(l, answer) ==
  load' = [m \in Load |->
             IF m = l THEN answer
             ELSE [load[m] EXCEPT !.behind = @ \/ load[m].phase = "answered"]]

\* fetchBounties and rankBounties: the active bounties, the best one first.  All
\* relays have answered.
LoadAnswers(l) ==
  /\ load[l].phase = "asking"
  /\ \E found \in IF Ranked = {} THEN {None}
                                 ELSE {toBountyInfo(b) : b \in Ranked} :
       Ends(l, [phase |-> "answered", found |-> found, behind |-> FALSE])
  /\ UNCHANGED <<network, view, timer, polling, cmd, inFlight>>

\* Only some relays answer within the time limit, or none; or the repository has
\* no identity.  What arrived is the answer, and may be empty.
LoadAnswersPartly(l) ==
  /\ load[l].phase = "asking"
  /\ \E found \in {None} \cup UNION {Parts(b) : b \in Bounty} :
       Ends(l, [phase |-> "answered", found |-> found, behind |-> TRUE])
  /\ UNCHANGED <<network, view, timer, polling, cmd, inFlight>>

\* The load throws, as when the secret store cannot be read: the map stays as it
\* is.
LoadFails(l) ==
  /\ load[l].phase = "asking"
  /\ Ends(l, NoLoad)
  /\ astray' = TRUE
  /\ UNCHANGED <<network, info, listing, timer, polling, cmd, inFlight>>

\* Variant: what was found is added to the map, and nothing taken out.
LoadMerges(l) ==
  /\ load[l].phase = "answered"
  /\ load' = [load EXCEPT ![l] = NoLoad]
  /\ listing' = IF load[l].found = None THEN listing ELSE Unused
  /\ info' = IF load[l].found = None THEN info
             ELSE Heap([info EXCEPT ![Unused] = load[l].found], listing', cmd)
  /\ astray' = load[l].behind
  /\ UNCHANGED <<network, timer, polling, cmd, inFlight>>

\* "Replace, don't merge": bounties.clear(), then attachTestItems.
LoadApplies(l) ==
  /\ load[l].phase = "answered"
  /\ load' = [load EXCEPT ![l] = NoLoad]
  /\ listing' = IF load[l].found = None THEN None ELSE Unused
  /\ info' = Heap([info EXCEPT ![Unused] = load[l].found], listing', cmd)
  /\ astray' = load[l].behind
  /\ UNCHANGED <<network, timer, polling, cmd, inFlight>>

-----------------------------------------------------------------------------
(* Everyone else: other users, and other machines of this one. *)

FiledElsewhere(b, c) ==
  /\ net[b].status # "absent"
  /\ File(b, c)
  /\ UNCHANGED <<paid, hold, view, loading, cmd, inFlight>>

\* The creator of b, on a machine other than this one, creates it, removes it,
\* or takes, settles or releases a payout of that machine.
ChangedElsewhere(b) ==
  /\ hold[b] = None
  /\ \/ net[b].status = "absent" /\ Publish(b, "open", None) /\ paid' = paid
     \/ net[b].status = "open" /\ Publish(b, "cancelled", None) /\ paid' = paid
     \/ /\ net[b].status = "open" /\ paid' = paid
        /\ \E c \in Claimant : net[b].ver[c] > 0 /\ Publish(b, "approving", c)
     \/ /\ net[b].status = "approving"
        /\ Publish(b, "paid", net[b].payee)
        /\ paid' = paid \cup {b}
     \/ net[b].status = "approving" /\ Publish(b, "open", None) /\ paid' = paid
  /\ UNCHANGED <<hold, view, loading, cmd, inFlight>>

-----------------------------------------------------------------------------
(* The commands.  `Show` is the end of one: bounties.set(test.id, bounty). *)

Entry(k) == info[cmd[k].obj]

\* Ends command k without touching the map.
End(k) ==
  /\ cmd' = [cmd EXCEPT ![k] = Idle]
  /\ info' = Heap(info, listing, cmd')
  /\ UNCHANGED <<listing, astray>>

Go(k, stage) ==
  cmd' = [cmd EXCEPT ![k].at = stage] /\ UNCHANGED view

Take(k, stage) ==
  /\ cmd[k] = Idle /\ listing # None
  /\ cmd' = [cmd EXCEPT ![k] = [Idle EXCEPT !.at = stage, !.obj = listing,
                                            !.id = info[listing].id]]

\* The entry k holds, changed, goes (back) into the map.
Show(k, entry) ==
  /\ listing' = cmd[k].obj
  /\ cmd' = [cmd EXCEPT ![k] = Idle]
  /\ info' = Heap([info EXCEPT ![cmd[k].obj] = entry], listing', cmd')
  /\ astray' = TRUE

\* A dialog dismissed, or a signer, relay or wallet that fails: the command
\* has told the user and ends.
GiveUp(k) ==
  /\ cmd[k].at \in {"pick", "confirm", "claim", "remove", "cancel", "add"}
  /\ End(k)
  /\ UNCHANGED <<network, loading, inFlight>>

\* The approve command, up to its first await: only the creator, and not while
\* an approval of this bounty is running.
ApproveStarts(k) ==
  /\ Take(k, "pick")
  /\ info[listing].id \in Own \ inFlight
  /\ UNCHANGED <<network, view, loading, inFlight>>

\* getPendingClaims, from the relays or else from the entry; the creator picks.
Picks(k) ==
  /\ cmd[k].at = "pick"
  /\ \E claims \in {toBountyInfo(cmd[k].id).claims, Entry(k).claims} :
       \E c \in claims :
         /\ c.status # "approved"
         /\ cmd' = [cmd EXCEPT ![k].at = "confirm", ![k].claim = c]
  /\ UNCHANGED <<network, view, loading, inFlight>>

Confirms(k) ==
  /\ cmd[k].at = "confirm"
  /\ inFlight' = inFlight \cup {cmd[k].id}
  /\ Go(k, "pay")
  /\ UNCHANGED <<network, loading>>

\* Variant: the guard is kept when the command returns early.
FailsGuarded(k) ==
  /\ End(k)
  /\ UNCHANGED inFlight

\* A result that only needs a message; the guard is dropped (finally).
Fails(k) ==
  /\ End(k)
  /\ inFlight' = inFlight \ {cmd[k].id}

Returns(k, result) ==
  /\ cmd' = [cmd EXCEPT ![k].at = "show", ![k].result = result]
  /\ UNCHANGED <<view, inFlight>>

Paying(b) == \E k \in Cmd : cmd[k].at = "paying" /\ cmd[k].id = b

-----------------------------------------------------------------------------
(* approveClaim: what approveAndPay does, one step up to its request to the *)
(* wallet and one for the answer.                                           *)

Current(k) ==
  LET b == cmd[k].id  c == cmd[k].claim IN
  c.who \in Shown(b) /\ c.ver = net[b].ver[c.who]

\* An error, a claim that changed after the review, a payout still settling.
PayoutRefused(k) ==
  /\ cmd[k].at = "pay"
  /\ Fails(k)
  /\ UNCHANGED <<network, loading>>

PayoutAlreadyPaid(k) ==
  /\ cmd[k].at = "pay" /\ net[cmd[k].id].status = "paid"
  /\ Returns(k, "already")
  /\ UNCHANGED <<network, loading>>

\* The lock is published and the wallet asked: a first attempt, or another one
\* after the wallet said that the payout held for this bounty failed.
PayoutStarts(k) ==
  LET b == cmd[k].id  who == cmd[k].claim.who IN
  /\ cmd[k].at = "pay" /\ Current(k) /\ ~Paying(b)
  /\ \/ net[b].status = "open" /\ hold[b] = None
     \/ net[b].status = "approving" /\ hold[b] # None
  /\ Publish(b, "approving", who)
  /\ hold' = [hold EXCEPT ![b] = who]
  /\ Go(k, "paying")
  /\ UNCHANGED <<paid, loading, inFlight>>

\* The payout held on this machine went through, says its wallet.
PayoutSettles(k) ==
  LET b == cmd[k].id IN
  /\ cmd[k].at = "pay" /\ ~Paying(b)
  /\ net[b].status = "approving" /\ hold[b] # None
  /\ Publish(b, "paid", hold[b])
  /\ hold' = [hold EXCEPT ![b] = None]
  /\ paid' = paid \cup {b}
  /\ Returns(k, "already")
  /\ UNCHANGED loading

\* The payout held failed, but the claim reviewed is no longer current.
PayoutReleased(k) ==
  LET b == cmd[k].id IN
  /\ cmd[k].at = "pay" /\ ~Paying(b) /\ ~Current(k)
  /\ net[b].status = "approving" /\ hold[b] # None
  /\ Publish(b, "open", None)
  /\ hold' = [hold EXCEPT ![b] = None]
  /\ Fails(k)
  /\ UNCHANGED <<paid, loading>>

\* Held by another machine, or by a wallet that is no longer connected.
PayoutNeedsWord(k) ==
  /\ cmd[k].at = "pay" /\ net[cmd[k].id].status = "approving"
  /\ Go(k, "ask")
  /\ UNCHANGED <<network, loading, inFlight>>

PayoutPaid(k) ==
  LET b == cmd[k].id IN
  /\ cmd[k].at = "paying"
  /\ Publish(b, "paid", cmd[k].claim.who)
  /\ hold' = [hold EXCEPT ![b] = None]
  /\ paid' = paid \cup {b}
  /\ Returns(k, "paid")
  /\ UNCHANGED loading

PayoutFails(k) ==
  LET b == cmd[k].id IN
  /\ cmd[k].at = "paying"
  /\ Publish(b, "open", None)
  /\ hold' = [hold EXCEPT ![b] = None]
  /\ Fails(k)
  /\ UNCHANGED <<paid, loading>>

PayoutUnknown(k) ==
  /\ cmd[k].at = "paying"
  /\ Returns(k, "unknown")
  /\ UNCHANGED <<network, loading>>

\* The question about a payout nothing can be asked about: dismissed, or
\* resolveHeldClaim fails.
AskDismissed(k) ==
  /\ cmd[k].at = "ask"
  /\ Fails(k)
  /\ UNCHANGED <<network, loading>>

\* "It was paid", or "It was NOT paid" - which the creator does not say of a
\* payment that was made.
AskAnswered(k) ==
  LET b == cmd[k].id IN
  /\ cmd[k].at = "ask"
  /\ hold' = [hold EXCEPT ![b] = None]
  /\ \/ /\ Publish(b, "paid", IF hold[b] # None THEN hold[b] ELSE net[b].payee)
        /\ paid' = paid \cup {b}
        /\ Returns(k, "vouched")
     \/ /\ b \notin paid
        /\ Publish(b, "open", None)
        /\ paid' = paid
        /\ Returns(k, "disowned")
  /\ UNCHANGED loading

\* setChosenClaimStatus
Chosen(k, status) ==
  LET c == cmd[k].claim
      Same(d) == d.who = c.who /\ d.ver = c.ver
  IN {d \in Entry(k).claims : ~Same(d)} \cup {[c EXCEPT !.status = status]}

\* Variant: every result but a failure is shown as a payment.
ApproveShowsPaid(k) ==
  /\ cmd[k].at = "show"
  /\ Show(k, [Entry(k) EXCEPT !.claims = Chosen(k, "approved")])
  /\ inFlight' = inFlight \ {cmd[k].id}
  /\ UNCHANGED <<network, loading>>

ApproveShows(k) ==
  LET result == cmd[k].result
      claims == Chosen(k, CASE result = "unknown"  -> "approving"
                            [] result = "disowned" -> "pending"
                            [] OTHER               -> "approved")
      status == IF result = "paid" THEN "paid" ELSE Entry(k).status
  IN
  /\ cmd[k].at = "show"
  /\ Show(k, [Entry(k) EXCEPT !.claims = claims, !.status = status])
  /\ inFlight' = inFlight \ {cmd[k].id}
  /\ UNCHANGED <<network, loading>>

-----------------------------------------------------------------------------
(* The claim, remove and add commands. *)

ClaimStarts(k) ==
  /\ Take(k, "claim")
  /\ info[listing].status = "open"
  /\ UNCHANGED <<network, view, loading, inFlight>>

ClaimPublishes(k) ==
  LET b == cmd[k].id IN
  /\ cmd[k].at = "claim"
  /\ File(b, Me)
  /\ cmd' = [cmd EXCEPT ![k].at = "claimed",
                        ![k].claim = [who |-> Me, ver |-> net[b].ver[Me] + 1,
                                      status |-> "pending"]]
  /\ UNCHANGED <<paid, hold, view, loading, inFlight>>

ClaimShows(k) ==
  LET others == {d \in Entry(k).claims : d.who # Me} IN
  /\ cmd[k].at = "claimed"
  /\ Show(k, [Entry(k) EXCEPT !.claims = others \cup {cmd[k].claim}])
  /\ UNCHANGED <<network, loading, inFlight>>

RemoveStarts(k) ==
  /\ Take(k, "remove")
  /\ info[listing].id \in Own
  /\ Aggregate(info[listing].claims) # "approving"
  /\ UNCHANGED <<network, view, loading, inFlight>>

\* deactivateBounty: refused while the journal holds a payout; nothing to
\* publish when the entry is closed already.
RemoveConfirmed(k) ==
  /\ cmd[k].at = "remove"
  /\ hold[cmd[k].id] = None
  /\ Go(k, IF Entry(k).status \in {"paid", "cancelled"} THEN "removed"
                                                        ELSE "cancel")
  /\ UNCHANGED <<network, loading, inFlight>>

RemovePublishes(k) ==
  /\ cmd[k].at = "cancel"
  /\ Publish(cmd[k].id, "cancelled", None)
  /\ Go(k, "removed")
  /\ UNCHANGED <<paid, hold, loading, inFlight>>

\* bounties.delete(test.id), whatever is there by now.
RemoveShows(k) ==
  /\ cmd[k].at = "removed"
  /\ listing' = None
  /\ cmd' = [cmd EXCEPT ![k] = Idle]
  /\ info' = Heap(info, listing', cmd')
  /\ astray' = TRUE
  /\ UNCHANGED <<network, loading, inFlight>>

AddStarts(k) ==
  /\ cmd[k] = Idle /\ listing = None
  /\ Go(k, "add")
  /\ UNCHANGED <<network, loading, inFlight>>

AddPublishes(k) ==
  /\ cmd[k].at = "add"
  /\ \E b \in Own :
       /\ net[b].status = "absent"
       /\ Publish(b, "open", None)
       /\ cmd' = [cmd EXCEPT ![k].at = "added", ![k].id = b]
  /\ UNCHANGED <<paid, hold, view, loading, inFlight>>

AddShows(k) ==
  /\ cmd[k].at = "added"
  /\ listing' = Unused
  /\ cmd' = [cmd EXCEPT ![k] = Idle]
  /\ info' = Heap([info EXCEPT ![Unused] =
               [id |-> cmd[k].id, status |-> "open", claims |-> {}]],
               listing', cmd')
  /\ astray' = TRUE
  /\ UNCHANGED <<network, loading, inFlight>>

-----------------------------------------------------------------------------

Loads ==
  \/ DeliverNews \/ StopPolling
  \/ \E l \in Load : \/ TimerFires(l) \/ TestsAppear(l)
                     \/ LoadAnswers(l) \/ LoadFails(l) \/ LoadApplies(l)

Elsewhere ==
  \E b \in Bounty : ChangedElsewhere(b) \/ \E c \in Claimant : FiledElsewhere(b, c)

Given(k) == ApproveStarts(k) \/ ClaimStarts(k) \/ RemoveStarts(k) \/ AddStarts(k)

Approve(k) ==
  \/ Picks(k) \/ Confirms(k)
  \/ PayoutRefused(k) \/ PayoutAlreadyPaid(k) \/ PayoutStarts(k)
  \/ PayoutSettles(k) \/ PayoutReleased(k) \/ PayoutNeedsWord(k)
  \/ PayoutPaid(k) \/ PayoutFails(k) \/ PayoutUnknown(k)
  \/ AskDismissed(k) \/ AskAnswered(k) \/ ApproveShows(k)

OtherCommand(k) ==
  \/ ClaimPublishes(k) \/ ClaimShows(k)
  \/ RemoveConfirmed(k) \/ RemovePublishes(k) \/ RemoveShows(k)
  \/ AddPublishes(k) \/ AddShows(k)
  \/ GiveUp(k)

\* What runs by itself, or answers; and what someone does, or fails to.
Runs(A) == A /\ UNCHANGED moves
Moves == moves < MaxMoves /\ moves' = moves + 1

Next ==
  \/ Runs(Loads \/ \E k \in Cmd : Approve(k) \/ OtherCommand(k))
  \/ Moves /\ \/ Elsewhere
               \/ \E k \in Cmd : Given(k)
               \/ \E l \in Load : LoadAnswersPartly(l)

Spec == Init /\ [][Next]_vars

-----------------------------------------------------------------------------
(* Properties. *)

\* A lens says "Claim Approved - Payout Sent" only on a bounty that was paid,
\* whichever object the map holds and however old it is.
ApprovedMeansPaid ==
  listing # None /\ Aggregate(info[listing].claims) = "approved"
    => info[listing].id \in paid

\* Whatever becomes of an approval, it does not leave its bounty guarded: then
\* "This claim is already being approved" would be all the creator ever saw.
GuardNeverLeaks ==
  \A b \in inFlight : \E k \in Cmd :
    cmd[k].id = b /\ cmd[k].at \in {"pay", "paying", "ask", "show"}

\* The map shows an active bounty of the best rank there is, as the relays
\* have it, and nothing when there is none.
Fresh ==
  IF listing = None THEN \A b \in Bounty : ~Active(b)
  ELSE LET i == info[listing] IN
       /\ i = toBountyInfo(i.id) /\ Active(i.id)
       /\ \A b \in Bounty :
            Active(b) => /\ b \in Own => i.id \in Own
                         /\ b \in Trusted => i.id \notin Stranger

\* When every event has been delivered and every load it caused has ended, the
\* map is right, or the last thing to set it was a failed load, an answer to
\* which not all relays contributed or which a newer one had overtaken, or a
\* command that put its entry back ("a bounty that was cancelled or paid
\* elsewhere must disappear here too", extension.ts 118-119).
QuietMapIsFresh ==
  ~news /\ ~timer /\ (\A l \in Load : load[l] = NoLoad) => Fresh \/ astray
=============================================================================
