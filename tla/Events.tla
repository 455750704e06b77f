------------------------------- MODULE Events -------------------------------
(***************************************************************************)
(* One bounty as signed events on relays (src/bounty/bounty-events.ts):    *)
(* how versions are stamped and ordered, how a reader turns the events its *)
(* relays answer with into a listing, and which actions the code lenses    *)
(* offer on it (src/bounty/bounty-code-lens.ts).                           *)
(*                                                                         *)
(* Events reach the relays in any order, late, several times or never (a   *)
(* relay that is down, the outbox, a rebroadcast at the next start).  Each *)
(* relay keeps the newest version per coordinate, and a reader merges what *)
(* some of the relays keep.                                                *)
(***************************************************************************)
EXTENDS Integers, FiniteSets

CONSTANTS
  Creator,   \* who signs the bounty
  Claimant,  \* who signs claims; the creator may be one of them
  Relay,     \* the bounty relays
  None,      \* absence of a value
  MaxTime,   \* bound on the clocks, which need not agree nor go forward
  MaxEvents  \* bound on the events ever signed

ASSUME BoundsAssumption == MaxTime \in Nat /\ MaxEvents \in Nat \ {0}
ASSUME NoneAssumption == None \notin Claimant

VARIABLES
  sent,     \* every event signed
  received, \* the events that ever reached each relay
  kept,     \* the events each relay still has
  cached,   \* the version in the cache of the creator's BountyStore
  held,     \* the version a command of the creator works from
  stamp     \* the second on the version at the creator's signer

vars == <<sent, received, kept, cached, held, stamp>>

Id == 1..MaxEvents

\* kind 37400 and kind 37401.  `good` events pass the checks of
\* parseBountyEvent and parseClaimEvent.
BountyEvent ==
  [kind : {"bounty"}, author : {Creator}, at : Nat, id : Id, good : BOOLEAN,
   status : {"open", "approving", "paid", "cancelled"},
   payee : Claimant \cup {None}]
ClaimEvent ==
  [kind : {"claim"}, author : Claimant, at : Nat, id : Id, good : BOOLEAN,
   status : {"pending", "withdrawn"}]
Event == BountyEvent \cup ClaimEvent

TypeOK ==
  /\ sent \in SUBSET Event
  /\ received \in [Relay -> SUBSET sent]
  /\ kept \in [Relay -> SUBSET sent]
  /\ cached \in BountyEvent /\ held \in BountyEvent
  /\ stamp \in Nat \cup {-1}

-----------------------------------------------------------------------------
(* Versions. *)

\* Variant: a version may carry the same second as the one it replaces.
stampAgain(previous, now) ==
  IF previous # -1 /\ previous > now THEN previous + 1 ELSE now

\* No previous version is -1.
nextCreatedAt(previous, now) ==
  IF previous # -1 /\ previous >= now THEN previous + 1 ELSE now

coordinate(e) == <<e.kind, e.author>>

\* Variant: of two events of one second, the highest id wins.
highestId(a, b) == IF a.at # b.at THEN a.at > b.at ELSE a.id > b.id

\* Newest first, then lowest id.
isNewerVersion(a, b) == IF a.at # b.at THEN a.at > b.at ELSE a.id < b.id

latestVersions(events) ==
  {e \in events : \A f \in events :
     f # e /\ coordinate(f) = coordinate(e) => isNewerVersion(e, f)}

\* What a relay has after e arrives: the rule of NIP-01.
Keeps(old, e) ==
  LET rivals == {f \in old : coordinate(f) = coordinate(e)}
      Wins(f) == IF e.at # f.at THEN e.at > f.at ELSE e.id < f.id
  IN IF \A f \in rivals : Wins(f) THEN (old \ rivals) \cup {e} ELSE old

-----------------------------------------------------------------------------
(* The listing. *)

claimStatusFor(bounty, claim) ==
  IF bounty.payee # claim.author THEN "pending"
  ELSE CASE bounty.status = "paid"      -> "approved"
         [] bounty.status = "approving" -> "approving"
         [] OTHER                       -> "pending"

\* Withdrawn claims are dropped, and claims filed after the bounty closed
\* unless it was paid to them.
relevant(bounty, claims) ==
  {c \in claims :
     /\ c.status = "pending"
     /\ \/ bounty.status \notin {"paid", "cancelled"}
        \/ c.at <= bounty.at
        \/ c.author = bounty.payee}

toBountyInfo(bounty, claims) ==
  [status |-> bounty.status, version |-> bounty.id,
   active |-> bounty.status \in {"open", "approving"},
   claims |-> {[id |-> c.id, who |-> c.author, at |-> c.at,
                status |-> claimStatusFor(bounty, c)] :
               c \in relevant(bounty, claims)}]

\* No bounty, or one.  The newest versions are picked before they are checked.
assembleBounties(events) ==
  LET parsed == {e \in latestVersions(events) : e.good}
      claims == {e \in parsed : e.kind = "claim"}
  IN {toBountyInfo(b, claims) : b \in {e \in parsed : e.kind = "bounty"}}

\* Variant: the newest claim stands for all of them.
newestClaimStatus(claims) ==
  IF claims = {} THEN "none"
  ELSE (CHOOSE c \in claims : \A d \in claims : d.at <= c.at).status

aggregateClaimStatus(claims) ==
  LET statuses == {c.status : c \in claims} IN
  IF "approved" \in statuses THEN "approved"
  ELSE IF "approving" \in statuses THEN "approving"
  ELSE IF "pending" \in statuses THEN "pending" ELSE "none"

\* The commands the lenses of one bounty offer to its creator or to others
\* (provideCodeLenses).  "recheck" is sattest.approveClaim on a held payout.
lenses(info, isCreator) ==
  LET status == aggregateClaimStatus(info.claims)
      main == IF ~info.active THEN {}
              ELSE [pending |-> {"approve"}, approving |-> {"recheck"},
                    approved |-> {"paid"},
                    none |-> IF info.status = "open" THEN {"claim"} ELSE {}][status]
  IN IF isCreator THEN main \cup (IF main # {} THEN {"remove"} ELSE {})
     ELSE main \cap {"claim"}

-----------------------------------------------------------------------------

Unused == Id \ {e.id : e \in sent}

\* At time 0 every relay has the first version of the bounty, and a claim.
Init ==
  \E first \in [kind : {"bounty"}, author : {Creator}, at : {0}, id : Id,
                good : {TRUE}, status : {"open"}, payee : {None}],
     claim \in [kind : {"claim"}, author : Claimant, at : {0}, id : Id,
                good : {TRUE}, status : {"pending"}] :
    /\ claim.id # first.id
    /\ sent = {first, claim}
    /\ received = [r \in Relay |-> sent]
    /\ kept = received
    /\ cached = first /\ held = first
    /\ stamp = -1

\* An event arrives at a relay: from its author, from an outbox, or again.
Deliver(r, e) ==
  /\ e \in sent
  /\ received' = [received EXCEPT ![r] = @ \cup {e}]
  /\ kept' = [kept EXCEPT ![r] = Keeps(@, e)]
  /\ UNCHANGED <<sent, cached, held, stamp>>

Answered(R) == UNION {kept[r] : r \in R}

\* Variant: whatever was answered is taken for the bounty.
AnyVersion(events) == {e \in latestVersions(events) : e.good}

Bounties(events) ==
  {e \in latestVersions(events) : e.kind = "bounty" /\ e.good}

\* The creator's store reads the bounty from the relays that answer, whatever
\* it had read before: `assemble` caches it, and a command may go on with it or
\* with the entry it already has.
Fetch(R) ==
  \E b \in Bounties(Answered(R)) :
    /\ cached' = b
    /\ held' \in {held, b}
    /\ UNCHANGED <<sent, received, kept, stamp>>

\* publishVersion up to its signature: the stamp comes from the cached version
\* and the one in hand.
StampVersion(now) ==
  LET known == IF cached.at > held.at THEN cached.at ELSE held.at IN
  /\ stamp = -1
  /\ stamp' = nextCreatedAt(known, now)
  /\ UNCHANGED <<sent, received, kept, cached, held>>

\* publishVersion from its signature on.  When no relay answers in time it
\* rejects, and the cache stays as it is; the command may go on with the entry
\* it has.
PublishVersion(status, payee) ==
  \E id \in Unused :
    LET e == [kind |-> "bounty", author |-> Creator, id |-> id, good |-> TRUE,
              at |-> stamp, status |-> status, payee |-> payee] IN
    /\ stamp # -1
    /\ stamp' = -1
    /\ sent' = sent \cup {e}
    /\ cached' \in {cached, e} /\ held' \in {held, e}
    /\ UNCHANGED <<received, kept>>

\* `approving` names a claimant whose claim was read from some relay.
ChangeStatus(status) ==
  \E payee \in Claimant \cup {None} :
    /\ (payee # None) <=> (status \in {"approving", "paid"})
    /\ payee # None =>
         \/ held.payee = payee
         \/ \E r \in Relay : \E c \in kept[r] : c.kind = "claim" /\ c.author = payee
    /\ PublishVersion(status, payee)

\* The signer refuses, or does not answer.
NotSigned ==
  /\ stamp # -1
  /\ stamp' = -1
  /\ UNCHANGED <<sent, received, kept, cached, held>>

\* claimBounty: the claimant's earlier versions as the relays in R answer;
\* none when the query fails.
ClaimBounty(c, R, now) ==
  LET previous == {e.at : e \in {f \in Answered(R) :
                                   f.kind = "claim" /\ f.author = c}}
      newest == IF previous = {} THEN {-1}
                ELSE {t \in previous : \A u \in previous : u <= t}
  IN
  \E id \in Unused : \E last \in newest :
    /\ sent' = sent \cup {[kind |-> "claim", author |-> c, id |-> id,
                           good |-> TRUE, status |-> "pending",
                           at |-> nextCreatedAt(last, now)]}
    /\ UNCHANGED <<received, kept, cached, held, stamp>>

\* A claim of another client: withdrawn, or without enough proof of work.
OtherClient(c, now) ==
  \E id \in Unused, status \in {"pending", "withdrawn"} :
    /\ sent' = sent \cup {[kind |-> "claim", author |-> c, id |-> id,
                           good |-> status = "withdrawn", status |-> status,
                           at |-> now]}
    /\ UNCHANGED <<received, kept, cached, held, stamp>>

Next ==
  \/ \E r \in Relay : \E e \in sent : Deliver(r, e)
  \/ \E R \in SUBSET Relay : Fetch(R)
  \/ \E now \in 0..MaxTime : StampVersion(now)
  \/ \E status \in {"open", "approving", "paid", "cancelled"} : ChangeStatus(status)
  \/ NotSigned
  \/ \E c \in Claimant, now \in 0..MaxTime :
       \/ \E R \in SUBSET Relay : ClaimBounty(c, R, now)
       \/ OtherClient(c, now)

Spec == Init /\ [][Next]_vars

-----------------------------------------------------------------------------
(* Properties. *)

\* Keeping only the newest versions loses nothing: whichever relays a reader
\* hears, in whatever order and however often events arrived there, it sees
\* what it would see if they had kept everything.
NewestIsEnough ==
  \A R \in SUBSET Relay :
    assembleBounties(Answered(R)) =
      assembleBounties(UNION {received[r] : r \in R})

\* "Never go backwards" (nextCreatedAt): a status change is newer than every
\* version its author knew of when it was stamped, also when the clock went back
\* or the relays answered with something older meanwhile.
ChangeReplaces ==
  [][stamp = -1 /\ stamp' # -1 => stamp' > cached.at /\ stamp' > held.at]_vars

\* While the claim being paid is in view, the creator is never offered to
\* approve one, nor anyone to file one, whatever else was filed since.
NoSecondOffer ==
  \A R \in SUBSET Relay : \A info \in assembleBounties(Answered(R)) :
    (\E c \in info.claims : c.status = "approving")
      => /\ lenses(info, TRUE) = {"recheck", "remove"}
         /\ lenses(info, FALSE) = {}
=============================================================================
