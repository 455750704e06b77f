---------------------------- MODULE EventsProofs ----------------------------
(***************************************************************************)
(* Proofs about Events: the order of versions is a strict total order on   *)
(* signed events, so a relay that keeps only the newest version of each    *)
(* coordinate hides nothing from a reader; a reader that asks again is     *)
(* shown nothing older; and no reader is offered a second approval while   *)
(* the claim being paid is in view.                                        *)
(***************************************************************************)
EXTENDS Events, TLAPS

(***************************************************************************)
(* The order of versions.                                                  *)
(***************************************************************************)

\* isNewerVersion is asymmetric, transitive, and total on events whose ids
\* differ: what makes "the newest version" of bounty-events.ts meaningful.
THEOREM VersionsAreOrdered ==
  ASSUME NEW a \in Event, NEW b \in Event, NEW c \in Event
  PROVE  /\ ~(isNewerVersion(a, b) /\ isNewerVersion(b, a))
         /\ isNewerVersion(a, b) /\ isNewerVersion(b, c) => isNewerVersion(a, c)
         /\ a.id # b.id => isNewerVersion(a, b) \/ isNewerVersion(b, a)
  <1>1. a.at \in Nat /\ b.at \in Nat /\ c.at \in Nat
        /\ a.id \in Int /\ b.id \in Int /\ c.id \in Int
    BY BoundsAssumption DEF Event, BountyEvent, ClaimEvent, Id
  <1>2. QED
    BY <1>1 DEF isNewerVersion

-----------------------------------------------------------------------------
(***************************************************************************)
(* The inductive invariant.                                                *)
(***************************************************************************)

\* An event id is signed once.
IdsDiffer == \A e, f \in sent : e.id = f.id => e = f

\* Of everything that reached a relay, it still has the newest of each
\* coordinate.
NewestIsKept ==
  \A r \in Relay :
    /\ kept[r] \subseteq received[r]
    /\ \A e \in received[r] : \E k \in kept[r] :
         coordinate(k) = coordinate(e) /\ (k = e \/ isNewerVersion(k, e))

Inv == TypeOK /\ IdsDiffer /\ NewestIsKept

LEMMA InvInit == Init => Inv
  <1> SUFFICES ASSUME Init PROVE Inv
    OBVIOUS
  <1>1. PICK first \in [kind : {"bounty"}, author : {Creator}, at : {0}, id : Id,
                        good : {TRUE}, status : {"open"}, payee : {None}],
             claim \in [kind : {"claim"}, author : Claimant, at : {0}, id : Id,
                        good : {TRUE}, status : {"pending"}] :
          /\ claim.id # first.id
          /\ sent = {first, claim}
          /\ received = [r \in Relay |-> sent]
          /\ kept = received
          /\ cached = first /\ held = first /\ stamp = -1
    BY DEF Init
  <1>2. first \in BountyEvent
    BY <1>1, 0 \in Nat DEF BountyEvent
  <1>2a. claim \in ClaimEvent
    BY <1>1, 0 \in Nat DEF ClaimEvent
  <1>3. TypeOK
    BY <1>1, <1>2, <1>2a DEF TypeOK, Event
  <1>4. IdsDiffer
    BY <1>1 DEF IdsDiffer
  <1>5. NewestIsKept
    BY <1>1 DEF NewestIsKept
  <1> QED
    BY <1>3, <1>4, <1>5 DEF Inv

\* An event signed under a fresh id keeps what is known of the others.
LEMMA SignedStep ==
  ASSUME Inv, NEW e \in Event, e.id \in Unused,
         sent' = sent \cup {e}, UNCHANGED <<received, kept>>,
         cached' \in BountyEvent, held' \in BountyEvent, stamp' \in Nat \cup {-1}
  PROVE  Inv'
  <1>1. TypeOK'
    BY DEF Inv, TypeOK
  <1>2. IdsDiffer'
    BY DEF Inv, IdsDiffer, Unused
  <1>3. NewestIsKept'
    BY DEF Inv, NewestIsKept
  <1> QED
    BY <1>1, <1>2, <1>3 DEF Inv

\* nextCreatedAt returns a second later than the one it is given.
LEMMA StampIsLater ==
  ASSUME NEW previous \in Nat, NEW now \in Nat
  PROVE  /\ nextCreatedAt(previous, now) \in Nat
         /\ nextCreatedAt(previous, now) > previous
  BY DEF nextCreatedAt

\* A delivered event is kept unless the relay has a newer one already, and it
\* replaces only older ones.
LEMMA DeliverStep ==
  ASSUME Inv, NEW r \in Relay, NEW e \in sent, Deliver(r, e)
  PROVE  Inv'
  <1> USE DEF Inv
  <1>1. /\ received' = [received EXCEPT ![r] = @ \cup {e}]
        /\ kept' = [kept EXCEPT ![r] = Keeps(@, e)]
        /\ UNCHANGED <<sent, cached, held, stamp>>
    BY DEF Deliver
  <1>2. Keeps(kept[r], e) \subseteq kept[r] \cup {e}
    BY DEF Keeps
  <1>3. TypeOK'
    BY <1>1, <1>2 DEF TypeOK
  <1>4. IdsDiffer'
    BY <1>1 DEF IdsDiffer
  <1>5. ASSUME NEW f \in received[r] \cup {e}
        PROVE  \E k \in Keeps(kept[r], e) :
                 coordinate(k) = coordinate(f) /\ (k = f \/ isNewerVersion(k, f))
    <2> DEFINE rivals == {g \in kept[r] : coordinate(g) = coordinate(e)}
    <2>1. kept[r] \subseteq Event /\ e \in Event /\ f \in Event
          /\ kept[r] \subseteq sent /\ f \in sent
      BY DEF TypeOK
    <2>2. CASE \A g \in rivals : isNewerVersion(e, g)
      <3>1. Keeps(kept[r], e) = (kept[r] \ rivals) \cup {e}
        BY <2>2 DEF Keeps, isNewerVersion
      <3>2. CASE coordinate(f) = coordinate(e)
        <4>1. CASE f = e
          BY <3>1, <4>1
        <4>2. CASE f # e
          <5>1. PICK k \in kept[r] : coordinate(k) = coordinate(f)
                                     /\ (k = f \/ isNewerVersion(k, f))
            BY <4>2 DEF NewestIsKept
          <5>2. isNewerVersion(e, k)
            BY <5>1, <3>2, <2>2
          <5>3. isNewerVersion(e, f)
            BY <5>1, <5>2, <2>1, VersionsAreOrdered
          <5> QED
            BY <5>3, <3>1, <3>2
        <4> QED
          BY <4>1, <4>2
      <3>3. CASE coordinate(f) # coordinate(e)
        <4>1. f \in received[r]
          BY <3>3
        <4>2. PICK k \in kept[r] : coordinate(k) = coordinate(f)
                                   /\ (k = f \/ isNewerVersion(k, f))
          BY <4>1 DEF NewestIsKept
        <4>3. k \in Keeps(kept[r], e)
          BY <4>2, <3>1, <3>3
        <4> QED
          BY <4>2, <4>3
      <3> QED
        BY <3>2, <3>3
    <2>3. CASE \E g \in rivals : ~isNewerVersion(e, g)
      <3>1. Keeps(kept[r], e) = kept[r]
        BY <2>3 DEF Keeps, isNewerVersion
      <3>2. CASE f \in received[r]
        BY <3>1, <3>2 DEF NewestIsKept
      <3>3. CASE f = e
        <4>1. PICK g \in rivals : ~isNewerVersion(e, g)
          BY <2>3
        <4>2. g = e \/ isNewerVersion(g, e)
          BY <4>1, <2>1, VersionsAreOrdered DEF IdsDiffer
        <4> QED
          BY <4>1, <4>2, <3>1, <3>3
      <3> QED
        BY <3>2, <3>3
    <2> QED
      BY <2>2, <2>3
  <1>6. NewestIsKept'
    <2> SUFFICES ASSUME NEW s \in Relay
                 PROVE  /\ kept'[s] \subseteq received'[s]
                        /\ \A f \in received'[s] : \E k \in kept'[s] :
                             coordinate(k) = coordinate(f)
                             /\ (k = f \/ isNewerVersion(k, f))
      BY DEF NewestIsKept
    <2>1. CASE s = r
      <3>1. received'[s] = received[r] \cup {e} /\ kept'[s] = Keeps(kept[r], e)
        BY <1>1, <2>1 DEF TypeOK
      <3> QED
        BY <3>1, <1>2, <1>5 DEF NewestIsKept
    <2>2. CASE s # r
      <3>1. received'[s] = received[s] /\ kept'[s] = kept[s]
        BY <1>1, <2>2 DEF TypeOK
      <3> QED
        BY <3>1 DEF NewestIsKept
    <2> QED
      BY <2>1, <2>2
  <1> QED
    BY <1>3, <1>4, <1>6

-----------------------------------------------------------------------------
(* One lemma per kind of step that signs or reads. *)

LEMMA FetchStep ==
  ASSUME Inv, NEW R \in SUBSET Relay, Fetch(R)
  PROVE  Inv'
  <1>1. PICK b \in Bounties(Answered(R)) :
          cached' = b /\ held' \in {held, b} /\ UNCHANGED <<sent, received, kept, stamp>>
    BY DEF Fetch
  <1>2. b \in sent /\ b.kind = "bounty"
    BY DEF Bounties, latestVersions, Answered, Inv, TypeOK
  <1>3. b \in BountyEvent
    BY <1>2 DEF Inv, TypeOK, Event, BountyEvent, ClaimEvent
  <1>4. TypeOK'
    BY <1>1, <1>3 DEF Inv, TypeOK
  <1>5. IdsDiffer' /\ NewestIsKept'
    BY <1>1 DEF Inv, IdsDiffer, NewestIsKept
  <1> QED
    BY <1>4, <1>5 DEF Inv

\* The stamp is later than both versions its author knew.
LEMMA StampStep ==
  ASSUME Inv, NEW now \in 0..MaxTime, StampVersion(now)
  PROVE  Inv' /\ stamp' > cached.at /\ stamp' > held.at
  <1> DEFINE known == IF cached.at > held.at THEN cached.at ELSE held.at
  <1>1. cached \in BountyEvent /\ held \in BountyEvent
    BY DEF Inv, TypeOK
  <1>2. cached.at \in Nat /\ held.at \in Nat
    BY <1>1 DEF BountyEvent
  <1>3. known \in Nat /\ known >= cached.at /\ known >= held.at
    BY <1>2
  <1>4. now \in Nat
    BY BoundsAssumption
  <1>5. stamp' = nextCreatedAt(known, now) /\ UNCHANGED <<sent, received, kept, cached, held>>
    BY DEF StampVersion
  <1> HIDE DEF known
  <1>6. stamp' \in Nat /\ stamp' > known
    BY <1>3, <1>4, <1>5, StampIsLater
  <1>7. TypeOK'
    BY <1>5, <1>6 DEF Inv, TypeOK
  <1>8. IdsDiffer' /\ NewestIsKept'
    BY <1>5 DEF Inv, IdsDiffer, NewestIsKept
  <1> QED
    BY <1>2, <1>3, <1>6, <1>7, <1>8 DEF Inv

LEMMA ChangeStep ==
  ASSUME Inv, NEW status \in {"open", "approving", "paid", "cancelled"},
         ChangeStatus(status)
  PROVE  Inv' /\ stamp' = -1
  <1>1. PICK payee \in Claimant \cup {None} : PublishVersion(status, payee)
    BY DEF ChangeStatus
  <1> DEFINE version(id) == [kind |-> "bounty", author |-> Creator, id |-> id,
                             good |-> TRUE, at |-> stamp, status |-> status,
                             payee |-> payee]
  <1>2. PICK id \in Unused :
          /\ stamp # -1 /\ stamp' = -1
          /\ sent' = sent \cup {version(id)}
          /\ cached' \in {cached, version(id)} /\ held' \in {held, version(id)}
          /\ UNCHANGED <<received, kept>>
    BY <1>1 DEF PublishVersion
  <1>3. stamp \in Nat
    BY <1>2 DEF Inv, TypeOK
  <1> DEFINE e == version(id)
  <1>4. e \in BountyEvent /\ e.id \in Unused
    BY <1>3 DEF BountyEvent, Unused
  <1>5. sent' = sent \cup {e} /\ cached' \in {cached, e} /\ held' \in {held, e}
    BY <1>2
  <1> HIDE DEF e
  <1>6. cached' \in BountyEvent /\ held' \in BountyEvent
    BY <1>4, <1>5 DEF Inv, TypeOK
  <1>7. e \in Event
    BY <1>4 DEF Event
  <1>8. Inv'
    BY <1>2, <1>4, <1>5, <1>6, <1>7, SignedStep
  <1> QED
    BY <1>2, <1>8

LEMMA NotSignedStep ==
  ASSUME Inv, NotSigned
  PROVE  Inv' /\ stamp' = -1
  BY DEF NotSigned, Inv, TypeOK, IdsDiffer, NewestIsKept

LEMMA ClaimStep ==
  ASSUME Inv, NEW c \in Claimant, NEW R \in SUBSET Relay, NEW now \in 0..MaxTime,
         ClaimBounty(c, R, now)
  PROVE  Inv'
  <1> DEFINE previous == {e.at : e \in {f \in Answered(R) :
                                          f.kind = "claim" /\ f.author = c}}
             claim(id, at) == [kind |-> "claim", author |-> c, id |-> id,
                               good |-> TRUE, status |-> "pending", at |-> at]
  <1>1. previous \subseteq Nat
    <2>1. Answered(R) \subseteq Event
      BY DEF Answered, Inv, TypeOK
    <2>2. \A e \in Event : e.at \in Nat
      BY DEF Event, BountyEvent, ClaimEvent
    <2> QED
      BY <2>1, <2>2
  <1>2. PICK id \in Unused, last \in previous \cup {-1} :
          /\ sent' = sent \cup {claim(id, nextCreatedAt(last, now))}
          /\ UNCHANGED <<received, kept, cached, held, stamp>>
    BY DEF ClaimBounty
  <1>3. nextCreatedAt(last, now) \in Nat
    <2> now \in Nat
      BY BoundsAssumption
    <2> last \in Nat \cup {-1}
      BY <1>1
    <2> QED
      BY DEF nextCreatedAt
  <1> DEFINE e == claim(id, nextCreatedAt(last, now))
  <1>4. e \in ClaimEvent /\ e.id \in Unused /\ e.kind = "claim"
    BY <1>3 DEF ClaimEvent, Unused
  <1>5. sent' = sent \cup {e}
    BY <1>2
  <1> HIDE DEF e
  <1>6. cached' \in BountyEvent /\ held' \in BountyEvent /\ stamp' \in Nat \cup {-1}
    BY <1>2 DEF Inv, TypeOK
  <1>7. e \in Event
    BY <1>4 DEF Event
  <1> QED
    BY <1>2, <1>4, <1>5, <1>6, <1>7, SignedStep

LEMMA OtherClientStep ==
  ASSUME Inv, NEW c \in Claimant, NEW now \in 0..MaxTime, OtherClient(c, now)
  PROVE  Inv'
  <1> DEFINE claim(id, status) ==
               [kind |-> "claim", author |-> c, id |-> id,
                good |-> status = "withdrawn", status |-> status, at |-> now]
  <1>1. PICK id \in Unused, status \in {"pending", "withdrawn"} :
          /\ sent' = sent \cup {claim(id, status)}
          /\ UNCHANGED <<received, kept, cached, held, stamp>>
    BY DEF OtherClient
  <1>2. now \in Nat
    BY BoundsAssumption
  <1> DEFINE e == claim(id, status)
  <1>3. (status = "withdrawn") \in BOOLEAN
    BY Zenon
  <1>4. e \in ClaimEvent /\ e.id \in Unused /\ e.kind = "claim"
    BY <1>2, <1>3 DEF ClaimEvent, Unused
  <1>5. sent' = sent \cup {e}
    BY <1>1
  <1> HIDE DEF e
  <1>6. cached' \in BountyEvent /\ held' \in BountyEvent /\ stamp' \in Nat \cup {-1}
    BY <1>1 DEF Inv, TypeOK
  <1>7. e \in Event
    BY <1>4 DEF Event
  <1> QED
    BY <1>1, <1>4, <1>5, <1>6, <1>7, SignedStep

LEMMA InvNext ==
  ASSUME Inv, [Next]_vars
  PROVE  Inv'
  <1>1. ASSUME NEW r \in Relay, NEW e \in sent, Deliver(r, e)  PROVE Inv'
    BY <1>1, DeliverStep
  <1>2. ASSUME NEW R \in SUBSET Relay, Fetch(R)  PROVE Inv'
    BY <1>2, FetchStep
  <1>3. ASSUME NEW now \in 0..MaxTime, StampVersion(now)  PROVE Inv'
    BY <1>3, StampStep
  <1>3a. ASSUME NEW status \in {"open", "approving", "paid", "cancelled"},
                ChangeStatus(status)
         PROVE  Inv'
    BY <1>3a, ChangeStep
  <1>3b. CASE NotSigned
    BY <1>3b, NotSignedStep
  <1>4. ASSUME NEW c \in Claimant, NEW now \in 0..MaxTime, NEW R \in SUBSET Relay,
               ClaimBounty(c, R, now)
        PROVE  Inv'
    BY <1>4, ClaimStep
  <1>5. ASSUME NEW c \in Claimant, NEW now \in 0..MaxTime, OtherClient(c, now)
        PROVE  Inv'
    BY <1>5, OtherClientStep
  <1>6. CASE UNCHANGED vars
    BY <1>6 DEF vars, Inv, TypeOK, IdsDiffer, NewestIsKept
  <1> QED
    BY <1>1, <1>2, <1>3, <1>3a, <1>3b, <1>4, <1>5, <1>6 DEF Next

\* The newest version of each coordinate survives on every relay, and a signed
\* event is never signed again under its id.
THEOREM SafeCorrect == Spec => []Inv
  <1>1. Init => Inv
    BY InvInit
  <1>2. Inv /\ [Next]_vars => Inv'
    BY InvNext
  <1> QED
    BY <1>1, <1>2, PTL DEF Spec

-----------------------------------------------------------------------------
(***************************************************************************)
(* What follows from the invariant.                                        *)
(***************************************************************************)

\* Every value in the state has its type.
THEOREM TypesHold == Spec => []TypeOK
  <1>1. Inv => TypeOK
    BY DEF Inv
  <1> QED
    BY <1>1, SafeCorrect, PTL

\* The newest versions of what the relays keep are those of all they received.
LEMMA SameNewest ==
  ASSUME Inv, NEW R \in SUBSET Relay
  PROVE  latestVersions(Answered(R)) = latestVersions(UNION {received[r] : r \in R})
  <1> DEFINE K == Answered(R)
             A == UNION {received[r] : r \in R}
  <1>1. K \subseteq A /\ A \subseteq sent /\ A \subseteq Event
    BY DEF Answered, Inv, TypeOK, NewestIsKept
  <1>2. \A e \in A : \E k \in K :
          coordinate(k) = coordinate(e) /\ (k = e \/ isNewerVersion(k, e))
    BY DEF Answered, Inv, NewestIsKept
  <1>3. ASSUME NEW e \in latestVersions(A)  PROVE e \in latestVersions(K)
    <2>1. e \in A /\ \A f \in A :
            f # e /\ coordinate(f) = coordinate(e) => isNewerVersion(e, f)
      BY DEF latestVersions
    <2>2. PICK k \in K :
            coordinate(k) = coordinate(e) /\ (k = e \/ isNewerVersion(k, e))
      BY <1>2, <2>1
    <2>3. k = e
      <3>1. k \in Event /\ e \in Event /\ k \in A
        BY <1>1, <2>1
      <3> HIDE DEF A, K
      <3> QED
        BY <2>1, <2>2, <3>1, VersionsAreOrdered
    <2> HIDE DEF A, K
    <2> QED
      BY <1>1, <2>1, <2>2, <2>3 DEF latestVersions
  <1>4. ASSUME NEW e \in latestVersions(K)  PROVE e \in latestVersions(A)
    <2> HIDE DEF A, K
    <2>1. e \in K /\ \A f \in K :
            f # e /\ coordinate(f) = coordinate(e) => isNewerVersion(e, f)
      BY DEF latestVersions
    <2>2. ASSUME NEW f \in A, f # e, coordinate(f) = coordinate(e)
          PROVE  isNewerVersion(e, f)
      <3>1. PICK k \in K :
              coordinate(k) = coordinate(f) /\ (k = f \/ isNewerVersion(k, f))
        BY <1>2
      <3>2. CASE k = e
        BY <2>2, <3>1, <3>2
      <3>3. CASE k # e
        <4>1. isNewerVersion(e, k)
          BY <2>1, <2>2, <3>1, <3>3
        <4>2. k \in Event /\ e \in Event /\ f \in Event
          BY <1>1, <2>1
        <4> QED
          BY <3>1, <4>1, <4>2, VersionsAreOrdered
      <3> QED
        BY <3>2, <3>3
    <2> QED
      BY <1>1, <2>1, <2>2 DEF latestVersions
  <1> HIDE DEF A, K
  <1>5. latestVersions(K) = latestVersions(A)
    <2>1. latestVersions(K) \subseteq latestVersions(A)
      BY <1>4
    <2>2. latestVersions(A) \subseteq latestVersions(K)
      BY <1>3
    <2> QED
      BY <2>1, <2>2
  <1> QED
    BY <1>5 DEF A, K

\* A reader sees what it would see if no relay had ever dropped a version.
THEOREM NothingIsHidden == Spec => []NewestIsEnough
  <1>1. ASSUME Inv  PROVE NewestIsEnough
    <2> SUFFICES ASSUME NEW R \in SUBSET Relay
                 PROVE  assembleBounties(Answered(R)) =
                          assembleBounties(UNION {received[r] : r \in R})
      BY DEF NewestIsEnough
    <2>1. latestVersions(Answered(R)) =
            latestVersions(UNION {received[r] : r \in R})
      BY <1>1, SameNewest
    <2> QED
      BY <2>1 DEF assembleBounties
  <1> QED
    BY <1>1, SafeCorrect, PTL

\* What reached a relay has reached it.
LEMMA ReceivedGrows ==
  ASSUME Inv, [Next]_vars, NEW r \in Relay
  PROVE  received[r] \subseteq received'[r]
  <1>1. ASSUME NEW s \in Relay, NEW e \in sent, Deliver(s, e)
        PROVE  received[r] \subseteq received'[r]
    BY <1>1 DEF Deliver, Inv, TypeOK
  <1>2. CASE UNCHANGED received
    BY <1>2
  <1> QED
    BY <1>1, <1>2
    DEF Next, vars, Fetch, StampVersion, ChangeStatus, PublishVersion, NotSigned,
        ClaimBounty, OtherClient

\* A reader that asks the same relays again, or more of them, is never shown an
\* older version of anything than one of them had before, whatever reached them
\* meanwhile and in whatever order (latestVersions, isNewerVersion).
ReadersNeverGoBack ==
  [][\A R \in SUBSET Relay :
       \A e \in Answered(R), f \in latestVersions(Answered(R)') :
         coordinate(f) = coordinate(e) => f = e \/ isNewerVersion(f, e)]_kept

\* A reader that asks again is shown nothing older than before: every relay still
\* has a version that is as new, and the newest answer beats it.
THEOREM ReadersGoOn == Spec => ReadersNeverGoBack
  <1> DEFINE A == \A R \in SUBSET Relay :
       \A e \in Answered(R), f \in latestVersions(Answered(R)') :
         coordinate(f) = coordinate(e) => f = e \/ isNewerVersion(f, e)
  <1>1. ASSUME Inv, Inv', [Next]_vars  PROVE A
    <2> SUFFICES ASSUME NEW R \in SUBSET Relay,
                        NEW e \in Answered(R), NEW f \in latestVersions(Answered(R)'),
                        coordinate(f) = coordinate(e)
                 PROVE  f = e \/ isNewerVersion(f, e)
      OBVIOUS
    <2>1. PICK r \in R : e \in kept[r]
      BY DEF Answered
    <2>2. e \in received'[r]
      BY <1>1, <2>1, ReceivedGrows DEF Inv, NewestIsKept
    <2>3. PICK k \in kept'[r] :
            coordinate(k) = coordinate(e) /\ (k = e \/ isNewerVersion(k, e))
      BY <1>1, <2>2 DEF Inv, NewestIsKept
    <2>4. k \in Answered(R)' /\ f \in Answered(R)'
      BY <2>3 DEF latestVersions, Answered
    <2>5. f = k \/ isNewerVersion(f, k)
      BY <2>3, <2>4 DEF latestVersions
    <2>6. e \in Event /\ k \in Event /\ f \in Event
      <3>1. Answered(R)' \subseteq Event /\ kept[r] \subseteq Event
        BY <1>1 DEF Answered, Inv, TypeOK
      <3> QED
        BY <2>1, <2>4, <3>1
    <2> QED
      BY <2>3, <2>5, <2>6, VersionsAreOrdered
  <1> HIDE DEF A
  <1>2. Spec => [][A]_kept
    <2>1. Inv /\ Inv' /\ [Next]_vars => [A]_kept
      BY <1>1
    <2> QED
      BY <2>1, SafeCorrect, PTL DEF Spec
  <1> QED
    BY <1>2 DEF A, ReadersNeverGoBack

\* A status change is stamped later than the version its author had cached and
\* the one it worked from.
THEOREM ChangesReplace == Spec => ChangeReplaces
  <1> DEFINE A == stamp = -1 /\ stamp' # -1 => stamp' > cached.at /\ stamp' > held.at
  <1>1. ASSUME Inv, [Next]_vars  PROVE [A]_vars
    <2>1. ASSUME NEW now \in 0..MaxTime, StampVersion(now)  PROVE A
      BY <1>1, <2>1, StampStep
    <2>2. ASSUME NEW status \in {"open", "approving", "paid", "cancelled"},
                 ChangeStatus(status)
          PROVE  A
      BY <1>1, <2>2, ChangeStep
    <2>3. CASE NotSigned
      BY <1>1, <2>3, NotSignedStep
    <2>4. ASSUME UNCHANGED stamp  PROVE A
      BY <2>4
    <2> HIDE DEF A
    <2> QED
      BY <1>1, <2>1, <2>2, <2>3, <2>4
         DEF Next, Deliver, Fetch, ClaimBounty, OtherClient
  <1> HIDE DEF A
  <1>2. Spec => [][A]_vars
    BY <1>1, SafeCorrect, PTL DEF Spec
  <1> QED
    BY <1>2 DEF A, ChangeReplaces

\* While the claim being paid is in view, no second approval and no new claim is
\* offered.
THEOREM NoSecondApproval == Spec => []NoSecondOffer
  <1>1. ASSUME NEW b, NEW claims, NEW info, info = toBountyInfo(b, claims),
               NEW paying \in info.claims, paying.status = "approving"
        PROVE  /\ lenses(info, TRUE) = {"recheck", "remove"}
               /\ lenses(info, FALSE) = {}
    <2>1. info.claims = {[id |-> c.id, who |-> c.author, at |-> c.at,
                          status |-> claimStatusFor(b, c)] : c \in relevant(b, claims)}
          /\ info.active = (b.status \in {"open", "approving"})
      BY <1>1 DEF toBountyInfo
    <2>2. PICK p \in relevant(b, claims) : claimStatusFor(b, p) = "approving"
      BY <1>1, <2>1
    <2>3. b.status = "approving"
      BY <2>2 DEF claimStatusFor
    <2>4. \A c \in relevant(b, claims) : claimStatusFor(b, c) # "approved"
      BY <2>3 DEF claimStatusFor
    <2>5. \A c \in info.claims : c.status # "approved"
      <3> TAKE c \in info.claims
      <3>1. PICK d \in relevant(b, claims) :
              c = [id |-> d.id, who |-> d.author, at |-> d.at,
                   status |-> claimStatusFor(b, d)]
        BY <2>1
      <3> QED
        BY <3>1, <2>4
    <2>6. aggregateClaimStatus(info.claims) = "approving"
      <3> DEFINE statuses == {c.status : c \in info.claims}
      <3>1. "approving" \in statuses /\ "approved" \notin statuses
        BY <1>1, <2>5
      <3> QED
        BY <3>1 DEF aggregateClaimStatus, statuses
    <2>7. info.active
      BY <2>1, <2>3
    <2> QED
      BY <2>6, <2>7 DEF lenses
  <1>2. NoSecondOffer
    <2> SUFFICES ASSUME NEW R \in SUBSET Relay,
                        NEW info \in assembleBounties(Answered(R)),
                        NEW paying \in info.claims, paying.status = "approving"
                 PROVE  /\ lenses(info, TRUE) = {"recheck", "remove"}
                        /\ lenses(info, FALSE) = {}
      BY DEF NoSecondOffer
    <2>1. \E b, claims : info = toBountyInfo(b, claims)
      BY DEF assembleBounties
    <2> QED
      BY <1>1, <2>1
  <1> QED
    BY <1>2, PTL
=============================================================================
