---------------------------- MODULE SignerProofs ----------------------------
(***************************************************************************)
(* What holds of pairings and of the identity they store for every number  *)
(* of accounts, of pairings and of calls:                                  *)
(*                                                                         *)
(*   TypesHold         types, and what the locals of a pairing hold        *)
(*   RepairsAreShared  OneRepairForAll                                     *)
(*   OneWriter         what a pairing that nothing disturbed may rely on   *)
(*   IdentityFits      IdentityIsWhole                                     *)
(*   LensesFollow      LensKnowsIdentity                                   *)
(*                                                                         *)
(* IdentityIsWhole speaks of the moments between pairings; a pairing gets  *)
(* there in four writes.  The invariant follows one that runs alone from   *)
(* write to write (AloneOf), says that without an overlap every pairing    *)
(* that runs does so alone (WholeOf), and that what is stored fits         *)
(* together until the first write of the next one (WholeInv).              *)
(***************************************************************************)
EXTENDS Signer, TLAPS

\* What may open a pairing is looked into everywhere.
USE DEF Opener

\* The four secrets fit together, as IdentityIsWhole has them.
Whole ==
  /\ pointer = pubkey
  /\ pointer # None => <<secret, pointer>> \in session
  /\ handle \in {None, pubkey}

\* A pairing has begun to write the new identity.
Writing == {"identity", "pubkey", "handle"}

\* What a pairing knows at each of its steps; the account that scanned its panel
\* has a session with its client key.
LocalsOf(p) ==
  /\ pc[p] \notin Running => own[p].by = None /\ own[p].scanned = None /\ ~own[p].alone
  /\ pc[p] \in Running => own[p].by \in Opener
  /\ pc[p] \in Running \ {"dial"} => own[p].client \in Key
  /\ pc[p] \in {"dial", "generated"} => own[p].scanned = None
  /\ pc[p] \in Writing => own[p].scanned \in Account
  /\ own[p].scanned # None => <<own[p].client, own[p].scanned>> \in session

\* ... of all of them.
LocalsInv == \A p \in Pairing : LocalsOf(p)

\* A re-pairing runs if and only if it is the shared one.
RepairInv ==
  /\ repair # None => pc[repair] \in Running /\ own[repair].by = "repair"
  /\ \A p \in Pairing : own[p].by = "repair" => repair = p

\* What a pairing that nothing disturbed has written is still there.
AloneOf(p) ==
  own[p].alone =>
    /\ \A q \in Pairing : pc[q] \in Running => q = p
    /\ refresh = None
    /\ pc[p] = "generated" => secret = None
    /\ pc[p] \in Writing \cup {"scan"} => secret = own[p].client
    /\ pc[p] \in Writing => pointer = own[p].scanned
    /\ pc[p] = "pubkey" /\ own[p].same => pubkey = own[p].scanned
    /\ pc[p] = "handle" => pubkey = own[p].scanned /\ author = own[p].by

\* ... of all of them.
AloneInv == \A p \in Pairing : AloneOf(p)

\* Without an overlap a pairing that runs does so alone, and the handle is its
\* predecessor's or nobody's until it is written.
WholeOf(p) ==
  /\ pc[p] \in Running => own[p].alone
  /\ pc[p] = "identity" => handle \in {None, pubkey}
  /\ pc[p] \in {"pubkey", "handle"} /\ own[p].same => handle \in {None, own[p].scanned}

\* Without an overlap what is stored fits together, but for the pairing that
\* is writing; the profile looked up is the stored identity's.
WholeInv ==
  ~broken =>
    /\ \A p \in Pairing : WholeOf(p)
    /\ refresh # None => refresh = pubkey
    /\ (\A p \in Pairing : pc[p] \notin Writing) => Whole

\* A step of one pairing leaves the others alone.
Frame(p) ==
  \A q \in Pairing \ {p} :
    /\ pc'[q] = pc[q]
    /\ own'[q].by = own[q].by /\ own'[q].client = own[q].client
    /\ own'[q].scanned = own[q].scanned /\ own'[q].same = own[q].same
    /\ own'[q].alone => own[q].alone

\* The types of a pairing's locals.
LEMMA Fields ==
  ASSUME TypeOK, NEW p \in Pairing
  PROVE  /\ pc[p] \in {"idle", "push", "done"} \cup Running
         /\ own[p].by \in Opener \cup {None}
         /\ own[p].client \in Key \cup {None}
         /\ own[p].scanned \in Account \cup {None}
         /\ own[p].named \in BOOLEAN /\ own[p].same \in BOOLEAN /\ own[p].alone \in BOOLEAN
BY DEF TypeOK, Locals

\* LocalsInv follows from what it says of the pairing that steps.
LEMMA LocalsStep ==
  ASSUME LocalsInv, NEW p \in Pairing, Frame(p), session \subseteq session', LocalsOf(p)'
  PROVE  LocalsInv'
<1>1. ASSUME NEW q \in Pairing \ {p}
      PROVE  LocalsOf(q)'
  <2>1. LocalsOf(q)
    BY DEF LocalsInv
  <2>2. /\ pc'[q] = pc[q]
        /\ own'[q].by = own[q].by /\ own'[q].client = own[q].client
        /\ own'[q].scanned = own[q].scanned
        /\ own'[q].alone => own[q].alone
    BY DEF Frame
  <2> QED
    BY <2>1, <2>2 DEF LocalsOf
<1> QED
  BY <1>1 DEF LocalsInv

\* AloneInv too: while one pairing runs, no other is alone.
LEMMA AloneStep ==
  ASSUME AloneInv, NEW p \in Pairing, pc[p] \in Running, Frame(p), AloneOf(p)'
  PROVE  AloneInv'
<1>1. ASSUME NEW q \in Pairing \ {p}
      PROVE  AloneOf(q)'
  <2>1. ~own[q].alone
    BY DEF AloneInv, AloneOf
  <2>2. ~own'[q].alone
    BY <2>1 DEF Frame
  <2> QED
    BY <2>2 DEF AloneOf
<1> QED
  BY <1>1 DEF AloneInv

\* Without an overlap, a pairing that runs is the only one, and no refresh runs.
LEMMA OnlyOne ==
  ASSUME AloneInv, WholeInv, ~broken, NEW p \in Pairing, pc[p] \in Running
  PROVE  /\ own[p].alone /\ refresh = None
         /\ \A q \in Pairing \ {p} : pc[q] \notin Running
<1>1. own[p].alone
  BY DEF WholeInv, WholeOf
<1> QED
  BY <1>1 DEF AloneInv, AloneOf

\* WholeInv follows from what it says of the pairing that steps.
LEMMA WholeStep ==
  ASSUME AloneInv, WholeInv, ~broken, NEW p \in Pairing, pc[p] \in Running,
         Frame(p), WholeOf(p)', refresh' = None, pc'[p] \notin Writing => Whole'
  PROVE  WholeInv'
<1>1. ASSUME NEW q \in Pairing \ {p}
      PROVE  WholeOf(q)'
  <2>1. pc'[q] \notin Running
    BY OnlyOne DEF Frame
  <2> QED
    BY <2>1 DEF WholeOf, Running
<1>2. \A q \in Pairing : WholeOf(q)'
  BY <1>1
<1> QED
  BY <1>2 DEF WholeInv

\* What StartPairing does to the locals.
LEMMA Starts ==
  ASSUME TypeOK, NEW p \in Pairing, NEW why \in Opener, StartPairing(p, why)
  PROVE  /\ pc' = [pc EXCEPT ![p] = "dial"]
         /\ own' \in [Pairing -> Locals]
         /\ own'[p].by = why /\ own'[p].client = None /\ own'[p].scanned = None
         /\ own'[p].alone => RunningPairings = {} /\ refresh = None
         /\ ~own'[p].alone => broken'
         /\ Frame(p)
         /\ \A q \in Pairing \ {p} : ~own'[q].alone
         /\ broken' \in BOOLEAN
         /\ ~broken' => ~broken /\ RunningPairings = {} /\ refresh = None
<1> DEFINE overlap == RunningPairings # {} \/ refresh # None
<1>1. /\ pc' = [pc EXCEPT ![p] = "dial"]
      /\ broken' = (broken \/ overlap)
      /\ own' = [q \in Pairing |->
                   IF q = p THEN [Blank EXCEPT !.by = why, !.alone = ~overlap]
                            ELSE [own[q] EXCEPT !.alone = FALSE]]
  BY DEF StartPairing
<1>2. /\ own'[p] = [Blank EXCEPT !.by = why, !.alone = ~overlap]
      /\ \A q \in Pairing \ {p} : own'[q] = [own[q] EXCEPT !.alone = FALSE]
  BY <1>1
<1>3. overlap \in BOOLEAN
  OBVIOUS
<1>4. /\ own'[p] \in Locals
      /\ own'[p].by = why /\ own'[p].client = None /\ own'[p].scanned = None
      /\ own'[p].alone = ~overlap
  <2> HIDE DEF overlap
  <2> QED
    BY <1>2, <1>3 DEF Locals, Blank
<1>5. ASSUME NEW q \in Pairing \ {p}
      PROVE  /\ own'[q] \in Locals
             /\ own'[q].by = own[q].by /\ own'[q].client = own[q].client
             /\ own'[q].scanned = own[q].scanned /\ own'[q].same = own[q].same
             /\ own'[q].alone = FALSE
  <2>1. own[q] \in Locals /\ own'[q] = [own[q] EXCEPT !.alone = FALSE]
    BY <1>2 DEF TypeOK
  <2>2. /\ own'[q] \in Locals
        /\ own'[q].by = own[q].by /\ own'[q].client = own[q].client
        /\ own'[q].scanned = own[q].scanned /\ own'[q].same = own[q].same
        /\ own'[q].alone = FALSE
    BY <2>1 DEF Locals
  <2> QED
    BY <2>1, <2>2
<1>6. own' \in [Pairing -> Locals]
  BY <1>1, <1>4, <1>5
<1> QED
  BY <1>1, <1>4, <1>5, <1>6 DEF TypeOK, Frame

\* A panel that opens has been told nothing.
LEMMA StartsLocals ==
  ASSUME TypeOK, NEW p \in Pairing, NEW why \in Opener, StartPairing(p, why)
  PROVE  LocalsOf(p)' /\ Frame(p)
<1>1. pc' = [pc EXCEPT ![p] = "dial"]
  BY Starts
<1>2. pc'[p] = "dial"
  BY <1>1 DEF TypeOK
<1>3. own'[p].by \in Opener /\ own'[p].scanned = None /\ Frame(p)
  BY Starts
<1> QED
  BY <1>2, <1>3 DEF LocalsOf, Running, Writing

\* Recover starts a re-pairing, or leaves all pairings as they are.
LEMMA Recovers ==
  ASSUME TypeOK, NEW r \in Request, Recover(r)
  PROVE  /\ UNCHANGED <<stored, session, ok, lens, refresh, author>>
         /\ at' \in [Request -> Busy \cup {"idle", "over"}]
         /\ tries' \in [Request -> {1, 2}]
         /\ used' \in [Request -> (Key \cup {None}) \X (Account \cup {None})]
         /\ joined' \in [Request -> Pairing \cup {None}]
         /\ \/ \E p \in Pairing :
                 /\ pc[p] = "idle" /\ repair = None /\ repair' = p
                 /\ joined' = [joined EXCEPT ![r] = p]
                 /\ StartPairing(p, "repair")
            \/ /\ UNCHANGED <<pc, own, repair, broken>>
               /\ joined' \in {[joined EXCEPT ![r] = None], [joined EXCEPT ![r] = repair]}
<1> USE DEF TypeOK, Busy, Key
<1>1. CASE tries[r] = 1 /\ Reauth(r)
               /\ at' = [at EXCEPT ![r] = "repair"]
               /\ used' = [used EXCEPT ![r] = <<None, None>>]
               /\ UNCHANGED tries
  BY <1>1 DEF Recover, Reauth, First, Idle
<1>2. CASE Ends(r)
  BY <1>2 DEF Recover, Ends
<1> QED
  BY <1>1, <1>2 DEF Recover

\* What EndPairing does: the locals are gone, the others' stay.
LEMMA Ended ==
  ASSUME TypeOK, NEW p \in Pairing, NEW how \in BOOLEAN, EndPairing(p, how)
  PROVE  /\ pc' \in [Pairing -> {"idle", "push", "done"} \cup Running]
         /\ pc'[p] \in {"push", "done"}
         /\ ok' \in [Pairing -> BOOLEAN]
         /\ repair' = IF repair = p THEN None ELSE repair
         /\ own' \in [Pairing -> Locals]
         /\ own'[p].by = None /\ own'[p].scanned = None /\ ~own'[p].alone
         /\ Frame(p)
<1>1. Blank \in Locals /\ Blank.by = None /\ Blank.scanned = None /\ ~Blank.alone
  BY DEF Blank, Locals
<1> QED
  BY <1>1 DEF EndPairing, TypeOK, Frame

\* What loading the client key does to the locals.
LEMMA Loads ==
  ASSUME TypeOK, NEW p \in Pairing, LoadClientSecret(p)
  PROVE  /\ own' \in [Pairing -> Locals]
         /\ own'[p].by = own[p].by /\ own'[p].alone = own[p].alone
         /\ own'[p].scanned = own[p].scanned
         /\ own'[p].client = IF secret = None THEN p ELSE secret
         /\ Frame(p)
<1> DEFINE c == IF secret = None THEN p ELSE secret
           l == [own[p] EXCEPT !.client = c]
<1>1. own[p] \in Locals /\ c \in Key \cup {None}
  BY DEF TypeOK, Key
<1>2. own' = [own EXCEPT ![p] = l]
  BY DEF LoadClientSecret
<1> HIDE DEF c
<1>3. /\ l \in Locals
      /\ l.by = own[p].by /\ l.alone = own[p].alone /\ l.scanned = own[p].scanned
      /\ l.client = c
  BY <1>1 DEF Locals
<1> HIDE DEF l
<1>4. own' \in [Pairing -> Locals] /\ own'[p] = l /\ \A q \in Pairing \ {p} : own'[q] = own[q]
  BY <1>2, <1>3 DEF TypeOK
<1>5. Frame(p)
  BY <1>4 DEF LoadClientSecret, TypeOK, Frame
<1> QED
  BY <1>3, <1>4, <1>5 DEF c

\* What reading the previous identity does to the locals.
LEMMA Reads ==
  ASSUME TypeOK, NEW p \in Pairing, ReadIdentity(p)
  PROVE  /\ own' \in [Pairing -> Locals]
         /\ own'[p].by = own[p].by /\ own'[p].alone = own[p].alone
         /\ own'[p].scanned = own[p].scanned /\ own'[p].client = own[p].client
         /\ own'[p].same = (pubkey = own[p].scanned)
         /\ Frame(p)
<1>1. PICK name \in FetchProfileHandle(own[p].scanned) :
        own' = [own EXCEPT ![p].named = (name # None), ![p].same = (pubkey = own[p].scanned)]
  BY DEF ReadIdentity
<1> DEFINE n == name # None
           m == pubkey = own[p].scanned
           l == [own[p] EXCEPT !.named = n, !.same = m]
<1>2. own[p] \in Locals /\ n \in BOOLEAN /\ m \in BOOLEAN
  BY DEF TypeOK
<1>3. own' = [own EXCEPT ![p] = l]
  BY <1>1, <1>2 DEF TypeOK
<1> HIDE DEF n, m
<1>4. /\ l \in Locals
      /\ l.by = own[p].by /\ l.alone = own[p].alone
      /\ l.scanned = own[p].scanned /\ l.client = own[p].client /\ l.same = m
  BY <1>2 DEF Locals
<1> HIDE DEF l
<1>5. own' \in [Pairing -> Locals] /\ own'[p] = l /\ \A q \in Pairing \ {p} : own'[q] = own[q]
  BY <1>3, <1>4 DEF TypeOK
<1>6. Frame(p)
  BY <1>5 DEF ReadIdentity, TypeOK, Frame
<1> QED
  BY <1>4, <1>5, <1>6 DEF m

\* What the scan of the panel does to the locals.
LEMMA Scans ==
  ASSUME TypeOK, NEW p \in Pairing, NEW a \in Account, UserScans(p, a)
  PROVE  /\ own' \in [Pairing -> Locals]
         /\ own'[p].by = own[p].by /\ own'[p].alone = own[p].alone
         /\ own'[p].scanned = a /\ own'[p].client = own[p].client
         /\ Frame(p)
<1> DEFINE l == [own[p] EXCEPT !.scanned = a]
<1>1. own[p] \in Locals
  BY DEF TypeOK
<1>2. own' = [own EXCEPT ![p] = l]
  BY DEF UserScans
<1>3. /\ l \in Locals
      /\ l.by = own[p].by /\ l.alone = own[p].alone
      /\ l.scanned = a /\ l.client = own[p].client
  BY <1>1 DEF Locals
<1> HIDE DEF l
<1>4. own' \in [Pairing -> Locals] /\ own'[p] = l /\ \A q \in Pairing \ {p} : own'[q] = own[q]
  BY <1>2, <1>3 DEF TypeOK
<1>5. Frame(p)
  BY <1>4 DEF UserScans, TypeOK, Frame
<1> QED
  BY <1>3, <1>4, <1>5

\* After a reload no pairing runs.
LEMMA Reloads ==
  ASSUME Reload
  PROVE  /\ own' \in [Pairing -> Locals]
         /\ \A q \in Pairing : own'[q].by = None /\ own'[q].scanned = None /\ ~own'[q].alone
<1>1. Blank \in Locals /\ Blank.by = None /\ Blank.scanned = None /\ ~Blank.alone
  BY DEF Blank, Locals
<1> QED
  BY <1>1 DEF Reload

\* Every step preserves the types.
LEMMA NextTypes ==
  TypeOK /\ LocalsInv /\ [Next]_vars => TypeOK'
<1> SUFFICES ASSUME TypeOK, LocalsInv, [Next]_vars
             PROVE  TypeOK'
  OBVIOUS
<1> USE DistinctAssumption DEF TypeOK, stored, pairings, calls, rest, Key, Running, Busy
<1>1. CASE RefreshEnds
  BY <1>1 DEF RefreshEnds, FetchProfileHandle
<1>2. CASE Reload
  BY <1>2, Reloads DEF Reload, StaleHandle
<1>3. ASSUME NEW p \in Pairing, NEW why \in {"command", "bounty"}, OpenPanel(p, why)
      PROVE  TypeOK'
  <2>1. p \in Pairing /\ StartPairing(p, why)
    BY <1>3 DEF OpenPanel
  <2> QED
    BY <2>1, <1>3, Starts DEF OpenPanel
<1>4. ASSUME NEW p \in Pairing, DialFails(p)
      PROVE  TypeOK'
  BY <1>4, Ended DEF DialFails
<1>5. ASSUME NEW p \in Pairing, LoadClientSecret(p)
      PROVE  TypeOK'
  BY <1>5, Loads DEF LoadClientSecret
<1>6. ASSUME NEW p \in Pairing, StoreClientSecret(p)
      PROVE  TypeOK'
  <2>1. own[p].client \in Key
    BY <1>6 DEF StoreClientSecret, LocalsInv, LocalsOf
  <2> QED
    BY <2>1, <1>6 DEF StoreClientSecret
<1>7. ASSUME NEW p \in Pairing, HandshakeFails(p)
      PROVE  TypeOK'
  BY <1>7, Ended DEF HandshakeFails
<1>8. ASSUME NEW p \in Pairing, StorePointer(p)
      PROVE  TypeOK'
  BY <1>8, Fields DEF StorePointer
<1>9. ASSUME NEW p \in Pairing, IdentityFails(p)
      PROVE  TypeOK'
  BY <1>9, Ended DEF IdentityFails
<1>10. ASSUME NEW p \in Pairing, ReadIdentity(p)
      PROVE  TypeOK'
  BY <1>10, Reads DEF ReadIdentity
<1>11. ASSUME NEW p \in Pairing, StorePubkey(p)
      PROVE  TypeOK'
  <2>1. own[p].scanned \in Account /\ own[p].by \in Opener
    BY <1>11 DEF StorePubkey, LocalsInv, LocalsOf, Writing
  <2> QED
    BY <2>1, <1>11 DEF StorePubkey
<1>12. ASSUME NEW p \in Pairing, StoreHandle(p)
      PROVE  TypeOK'
  <2>1. EndPairing(p, TRUE) /\ handle' = HandleToStore(p)
    BY <1>12 DEF StoreHandle
  <2>2. handle' \in Account \cup {None}
    BY <2>1, Fields DEF HandleToStore
  <2>3. broken' \in BOOLEAN
    BY <1>12 DEF StoreHandle
  <2>4. UNCHANGED <<secret, pointer, pubkey, session, calls, lens, refresh, author>>
    BY <1>12 DEF StoreHandle
  <2>5. /\ pc' \in [Pairing -> {"idle", "push", "done"} \cup Running]
        /\ own' \in [Pairing -> Locals]
        /\ ok' \in [Pairing -> BOOLEAN] /\ repair' \in Pairing \cup {None}
    BY <2>1, Ended
  <2> QED
    BY <2>2, <2>3, <2>4, <2>5
<1>13. ASSUME NEW p \in Pairing, PushLens(p)
      PROVE  TypeOK'
  BY <1>13 DEF PushLens
<1>14. ASSUME NEW p \in Pairing, NEW a \in Account, UserScans(p, a)
      PROVE  TypeOK'
  <2>1. own[p].client \in Key
    BY <1>14 DEF UserScans, LocalsInv, LocalsOf
  <2>2. session' \subseteq Key \X Account
    BY <2>1, <1>14 DEF UserScans
  <2> QED
    BY <2>2, <1>14, Scans DEF UserScans
<1>15. ASSUME NEW r \in Request, Call(r)
      PROVE  TypeOK'
  BY <1>15 DEF Call, Attempt
<1>16. ASSUME NEW r \in Request, Recover(r)
      PROVE  TypeOK'
  <2>1. /\ UNCHANGED <<stored, session, ok, lens, refresh, author>>
        /\ at' \in [Request -> Busy \cup {"idle", "over"}]
        /\ tries' \in [Request -> {1, 2}]
        /\ used' \in [Request -> (Key \cup {None}) \X (Account \cup {None})]
        /\ joined' \in [Request -> Pairing \cup {None}]
    BY <1>16, Recovers
  <2>2. CASE UNCHANGED <<pc, own, repair, broken>>
    BY <2>1, <2>2
  <2>3. ASSUME NEW p \in Pairing, repair' = p, StartPairing(p, "repair")
        PROVE  TypeOK'
    BY <2>1, <2>3, Starts
  <2> QED
    BY <1>16, <2>2, <2>3, Recovers
<1>17. ASSUME NEW r \in Request, Resume(r)
      PROVE  TypeOK'
  BY <1>17 DEF Resume, Attempt, RunningPairings
<1>18. ASSUME NEW r \in Request, SignerAnswers(r)
      PROVE  TypeOK'
  BY <1>18 DEF SignerAnswers, Ends
<1>19. ASSUME NEW r \in Request, Cancel(r)
      PROVE  TypeOK'
  BY <1>19 DEF Cancel, Ends
<1>20. CASE UNCHANGED vars
  BY <1>20 DEF vars
<1> QED
  BY <1>1, <1>2, <1>3, <1>4, <1>5, <1>6, <1>7, <1>8, <1>9, <1>10,
     <1>11, <1>12, <1>13, <1>14, <1>15, <1>16, <1>17, <1>18, <1>19, <1>20
     DEF Next, ConnectNostr, AddBountyConnects, PairingStep, CallStep, NotPaired, SignerTimeout

\* Every step preserves what the pairings know.
LEMMA NextLocals ==
  TypeOK /\ LocalsInv /\ [Next]_vars => LocalsInv'
<1> SUFFICES ASSUME TypeOK, LocalsInv, [Next]_vars
             PROVE  LocalsInv'
  OBVIOUS
<1> USE DistinctAssumption DEF LocalsInv, stored, pairings, calls, rest
<1>1. CASE RefreshEnds
  BY <1>1 DEF RefreshEnds, LocalsOf
<1>2. CASE Reload
  BY <1>2, Reloads DEF Reload, LocalsOf, TypeOK, Running, Writing
<1>3. ASSUME NEW p \in Pairing, NEW why \in {"command", "bounty"}, OpenPanel(p, why)
      PROVE  LocalsInv'
  <2>1. StartPairing(p, why) /\ UNCHANGED session
    BY <1>3 DEF OpenPanel
  <2>2. LocalsOf(p)' /\ Frame(p)
    BY <2>1, StartsLocals
  <2> QED
    BY <2>1, <2>2, LocalsStep
<1>4. ASSUME NEW p \in Pairing, DialFails(p)
      PROVE  LocalsInv'
  <2>1. Frame(p) /\ session' = session /\ pc'[p] \in {"push", "done"}
    BY <1>4, Ended DEF DialFails
  <2>2. own'[p].by = None /\ own'[p].scanned = None /\ ~own'[p].alone
    BY <1>4, Ended DEF DialFails
  <2>3. LocalsOf(p)'
    BY <2>1, <2>2 DEF LocalsOf, Running, Writing
  <2> QED
    BY <2>1, <2>3, LocalsStep
<1>5. ASSUME NEW p \in Pairing, LoadClientSecret(p)
      PROVE  LocalsInv'
  <2>1. Frame(p) /\ session' = session /\ pc[p] = "dial" /\ pc'[p] \in {"generated", "scan"}
    BY <1>5, Loads DEF LoadClientSecret, TypeOK
  <2>2. own'[p].by = own[p].by /\ own'[p].scanned = own[p].scanned /\ own'[p].client \in Key
    BY <1>5, Loads DEF TypeOK, Key
  <2>3. own[p].by \in Opener /\ own[p].scanned = None
    BY <2>1 DEF LocalsOf, Running
  <2>4. LocalsOf(p)'
    BY <2>1, <2>2, <2>3 DEF LocalsOf, Running, Writing
  <2> QED
    BY <2>1, <2>4, LocalsStep
<1>6. ASSUME NEW p \in Pairing, StoreClientSecret(p)
      PROVE  LocalsInv'
  <2>1. Frame(p) /\ session \subseteq session'
    BY <1>6, Fields DEF StoreClientSecret, TypeOK, Frame
  <2>2. LocalsOf(p)'
    BY <1>6, Fields
       DEF StoreClientSecret, TypeOK, Frame, LocalsOf, Running, Writing, Key
  <2> QED
    BY <2>1, <2>2, LocalsStep
<1>7. ASSUME NEW p \in Pairing, HandshakeFails(p)
      PROVE  LocalsInv'
  <2>1. Frame(p) /\ session' = session /\ pc'[p] \in {"push", "done"}
    BY <1>7, Ended DEF HandshakeFails
  <2>2. own'[p].by = None /\ own'[p].scanned = None /\ ~own'[p].alone
    BY <1>7, Ended DEF HandshakeFails
  <2>3. LocalsOf(p)'
    BY <2>1, <2>2 DEF LocalsOf, Running, Writing
  <2> QED
    BY <2>1, <2>3, LocalsStep
<1>8. ASSUME NEW p \in Pairing, StorePointer(p)
      PROVE  LocalsInv'
  <2>1. Frame(p) /\ session \subseteq session'
    BY <1>8, Fields DEF StorePointer, TypeOK, Frame
  <2>2. LocalsOf(p)'
    BY <1>8, Fields DEF StorePointer, TypeOK, Frame, LocalsOf, Running, Writing, Key
  <2> QED
    BY <2>1, <2>2, LocalsStep
<1>9. ASSUME NEW p \in Pairing, IdentityFails(p)
      PROVE  LocalsInv'
  <2>1. Frame(p) /\ session' = session /\ pc'[p] \in {"push", "done"}
    BY <1>9, Ended DEF IdentityFails
  <2>2. own'[p].by = None /\ own'[p].scanned = None /\ ~own'[p].alone
    BY <1>9, Ended DEF IdentityFails
  <2>3. LocalsOf(p)'
    BY <2>1, <2>2 DEF LocalsOf, Running, Writing
  <2> QED
    BY <2>1, <2>3, LocalsStep
<1>10. ASSUME NEW p \in Pairing, ReadIdentity(p)
      PROVE  LocalsInv'
  <2>1. Frame(p) /\ session \subseteq session'
    BY <1>10, Reads DEF ReadIdentity, TypeOK
  <2>2. LocalsOf(p)'
    BY <1>10, Reads DEF ReadIdentity, TypeOK, LocalsOf, Running, Writing, Key
  <2> QED
    BY <2>1, <2>2, LocalsStep
<1>11. ASSUME NEW p \in Pairing, StorePubkey(p)
      PROVE  LocalsInv'
  <2>1. Frame(p) /\ session \subseteq session'
    BY <1>11, Fields DEF StorePubkey, TypeOK, Frame
  <2>2. LocalsOf(p)'
    BY <1>11, Fields DEF StorePubkey, TypeOK, Frame, LocalsOf, Running, Writing, Key
  <2> QED
    BY <2>1, <2>2, LocalsStep
<1>12. ASSUME NEW p \in Pairing, StoreHandle(p)
      PROVE  LocalsInv'
  <2>1. Frame(p) /\ session' = session /\ pc'[p] \in {"push", "done"}
    BY <1>12, Ended DEF StoreHandle
  <2>2. own'[p].by = None /\ own'[p].scanned = None /\ ~own'[p].alone
    BY <1>12, Ended DEF StoreHandle
  <2>3. LocalsOf(p)'
    BY <2>1, <2>2 DEF LocalsOf, Running, Writing
  <2> QED
    BY <2>1, <2>3, LocalsStep
<1>13. ASSUME NEW p \in Pairing, PushLens(p)
      PROVE  LocalsInv'
  <2>1. Frame(p) /\ session \subseteq session'
    BY <1>13, Fields DEF PushLens, TypeOK, Frame
  <2>2. LocalsOf(p)'
    BY <1>13, Fields DEF PushLens, TypeOK, Frame, LocalsOf, Running, Writing, Key
  <2> QED
    BY <2>1, <2>2, LocalsStep
<1>14. ASSUME NEW p \in Pairing, NEW a \in Account, UserScans(p, a)
      PROVE  LocalsInv'
  <2>1. /\ Frame(p) /\ pc[p] = "scan" /\ pc' = pc
        /\ session' = session \cup {<<own[p].client, a>>}
    BY <1>14, Scans DEF UserScans
  <2>2. own'[p].by = own[p].by /\ own'[p].scanned = a /\ own'[p].client = own[p].client
    BY <1>14, Scans
  <2>3. own[p].by \in Opener /\ own[p].client \in Key
    BY <2>1 DEF LocalsOf, Running
  <2>4. LocalsOf(p)'
    BY <2>1, <2>2, <2>3 DEF LocalsOf, Running, Writing
  <2> QED
    BY <2>1, <2>4, LocalsStep
<1>15. ASSUME NEW r \in Request, Call(r)
      PROVE  LocalsInv'
  BY <1>15 DEF Call, LocalsOf
<1>16. ASSUME NEW r \in Request, Recover(r)
      PROVE  LocalsInv'
  <2>1. UNCHANGED session
    BY <1>16, Recovers
  <2>2. CASE UNCHANGED <<pc, own>>
    BY <2>1, <2>2 DEF LocalsOf
  <2>3. ASSUME NEW p \in Pairing, StartPairing(p, "repair")
        PROVE  LocalsInv'
    <3>1. LocalsOf(p)' /\ Frame(p)
      BY <2>3, StartsLocals
    <3> QED
      BY <2>1, <3>1, LocalsStep
  <2> QED
    BY <1>16, <2>2, <2>3, Recovers
<1>17. ASSUME NEW r \in Request, Resume(r)
      PROVE  LocalsInv'
  BY <1>17 DEF Resume, LocalsOf
<1>18. ASSUME NEW r \in Request, SignerAnswers(r)
      PROVE  LocalsInv'
  BY <1>18 DEF SignerAnswers, Ends, LocalsOf
<1>19. ASSUME NEW r \in Request, Cancel(r)
      PROVE  LocalsInv'
  BY <1>19 DEF Cancel, Ends, LocalsOf
<1>20. CASE UNCHANGED vars
  BY <1>20 DEF vars, LocalsOf
<1> QED
  BY <1>1, <1>2, <1>3, <1>4, <1>5, <1>6, <1>7, <1>8, <1>9, <1>10,
     <1>11, <1>12, <1>13, <1>14, <1>15, <1>16, <1>17, <1>18, <1>19, <1>20
     DEF Next, ConnectNostr, AddBountyConnects, PairingStep, CallStep, NotPaired, SignerTimeout

\* RepairInv is kept by a pairing that goes on,
LEMMA RepairStep ==
  ASSUME TypeOK, RepairInv, NEW p \in Pairing, Frame(p), own'[p].by = own[p].by,
         pc'[p] \in Running, UNCHANGED repair
  PROVE  RepairInv'
<1>1. CASE repair = p
  BY <1>1 DEF RepairInv, Frame
<1>2. CASE repair # p
  <2>1. repair # None => repair \in Pairing \ {p}
    BY <1>2 DEF TypeOK
  <2>2. repair' # None => pc'[repair'] \in Running /\ own'[repair'].by = "repair"
    BY <2>1 DEF RepairInv, Frame
  <2>3. ASSUME NEW q \in Pairing, own'[q].by = "repair"
        PROVE  repair' = q
    <3>1. own[q].by = "repair"
      BY <2>3 DEF Frame
    <3> QED
      BY <3>1 DEF RepairInv
  <2> QED
    BY <2>2, <2>3 DEF RepairInv
<1> QED
  BY <1>1, <1>2

\* and by one that ends.
LEMMA RepairEnd ==
  ASSUME TypeOK, RepairInv, NEW p \in Pairing, Frame(p), own'[p].by = None,
         repair' = IF repair = p THEN None ELSE repair
  PROVE  RepairInv'
<1>1. CASE repair = p
  BY <1>1, DistinctAssumption DEF RepairInv, Frame
<1>2. CASE repair # p
  <2>1. repair # None => repair \in Pairing \ {p}
    BY <1>2 DEF TypeOK
  <2>2. repair' # None => pc'[repair'] \in Running /\ own'[repair'].by = "repair"
    BY <1>2, <2>1 DEF RepairInv, Frame
  <2>3. ASSUME NEW q \in Pairing, own'[q].by = "repair"
        PROVE  repair' = q
    <3>1. q # p
      BY <2>3, DistinctAssumption
    <3>2. own[q].by = "repair"
      BY <2>3, <3>1 DEF Frame
    <3> QED
      BY <1>2, <3>2 DEF RepairInv
  <2> QED
    BY <2>2, <2>3 DEF RepairInv
<1> QED
  BY <1>1, <1>2

\* Every step preserves that the re-pairing that runs is the shared one.
LEMMA NextRepair ==
  TypeOK /\ RepairInv /\ [Next]_vars => RepairInv'
<1> SUFFICES ASSUME TypeOK, RepairInv, [Next]_vars
             PROVE  RepairInv'
  OBVIOUS
<1> USE DistinctAssumption DEF RepairInv, stored, pairings, calls, rest
<1>1. CASE RefreshEnds
  BY <1>1 DEF RefreshEnds
<1>2. CASE Reload
  <2>1. repair' = None /\ \A q \in Pairing : own'[q].by = None
    BY <1>2, Reloads DEF Reload
  <2>2. None # "repair"
    BY DistinctAssumption
  <2> QED
    BY <2>1, <2>2
<1>3. ASSUME NEW p \in Pairing, NEW why \in {"command", "bounty"}, OpenPanel(p, why)
      PROVE  RepairInv'
  <2>1. StartPairing(p, why) /\ UNCHANGED repair /\ pc[p] = "idle"
    BY <1>3 DEF OpenPanel, First, Idle
  <2>2. Frame(p) /\ own'[p].by = why
    BY <2>1, Starts
  <2>3. pc[p] \notin Running
    BY <2>1 DEF Running
  <2>4. repair # p
    BY <2>3, DistinctAssumption DEF RepairInv
  <2>5. repair # None => repair \in Pairing \ {p}
    BY <2>4 DEF TypeOK
  <2> QED
    BY <2>1, <2>2, <2>5 DEF Frame
<1>4. ASSUME NEW p \in Pairing, DialFails(p)
      PROVE  RepairInv'
  <2>1. /\ Frame(p) /\ own'[p].by = None
        /\ repair' = IF repair = p THEN None ELSE repair
    BY <1>4, Ended DEF DialFails
  <2> QED
    BY <2>1, RepairEnd
<1>5. ASSUME NEW p \in Pairing, LoadClientSecret(p)
      PROVE  RepairInv'
  <2>1. Frame(p) /\ own'[p].by = own[p].by /\ pc'[p] \in Running /\ UNCHANGED repair
    BY <1>5, Loads DEF LoadClientSecret, TypeOK, Running
  <2> QED
    BY <2>1, RepairStep
<1>6. ASSUME NEW p \in Pairing, StoreClientSecret(p)
      PROVE  RepairInv'
  <2>1. Frame(p) /\ own'[p].by = own[p].by /\ pc'[p] \in Running /\ UNCHANGED repair
    BY <1>6, Fields DEF StoreClientSecret, TypeOK, Frame, Running
  <2> QED
    BY <2>1, RepairStep
<1>7. ASSUME NEW p \in Pairing, HandshakeFails(p)
      PROVE  RepairInv'
  <2>1. /\ Frame(p) /\ own'[p].by = None
        /\ repair' = IF repair = p THEN None ELSE repair
    BY <1>7, Ended DEF HandshakeFails
  <2> QED
    BY <2>1, RepairEnd
<1>8. ASSUME NEW p \in Pairing, StorePointer(p)
      PROVE  RepairInv'
  <2>1. Frame(p) /\ own'[p].by = own[p].by /\ pc'[p] \in Running /\ UNCHANGED repair
    BY <1>8, Fields DEF StorePointer, TypeOK, Frame, Running
  <2> QED
    BY <2>1, RepairStep
<1>9. ASSUME NEW p \in Pairing, IdentityFails(p)
      PROVE  RepairInv'
  <2>1. /\ Frame(p) /\ own'[p].by = None
        /\ repair' = IF repair = p THEN None ELSE repair
    BY <1>9, Ended DEF IdentityFails
  <2> QED
    BY <2>1, RepairEnd
<1>10. ASSUME NEW p \in Pairing, ReadIdentity(p)
      PROVE  RepairInv'
  <2>1. Frame(p) /\ own'[p].by = own[p].by /\ pc'[p] \in Running /\ UNCHANGED repair
    BY <1>10, Reads DEF ReadIdentity, TypeOK, Running
  <2> QED
    BY <2>1, RepairStep
<1>11. ASSUME NEW p \in Pairing, StorePubkey(p)
      PROVE  RepairInv'
  <2>1. Frame(p) /\ own'[p].by = own[p].by /\ pc'[p] \in Running /\ UNCHANGED repair
    BY <1>11, Fields DEF StorePubkey, TypeOK, Frame, Running
  <2> QED
    BY <2>1, RepairStep
<1>12. ASSUME NEW p \in Pairing, StoreHandle(p)
      PROVE  RepairInv'
  <2>1. /\ Frame(p) /\ own'[p].by = None
        /\ repair' = IF repair = p THEN None ELSE repair
    BY <1>12, Ended DEF StoreHandle
  <2> QED
    BY <2>1, RepairEnd
<1>13. ASSUME NEW p \in Pairing, PushLens(p)
      PROVE  RepairInv'
  <2>1. Frame(p) /\ own' = own /\ pc[p] \notin Running /\ UNCHANGED repair
    BY <1>13 DEF PushLens, TypeOK, Frame, Running
  <2> QED
    BY <2>1 DEF Frame, TypeOK
<1>14. ASSUME NEW p \in Pairing, NEW a \in Account, UserScans(p, a)
      PROVE  RepairInv'
  <2>1. Frame(p) /\ own'[p].by = own[p].by /\ pc'[p] \in Running /\ UNCHANGED repair
    BY <1>14, Scans DEF UserScans, TypeOK, Running
  <2> QED
    BY <2>1, RepairStep
<1>15. ASSUME NEW r \in Request, Call(r)
      PROVE  RepairInv'
  BY <1>15 DEF Call
<1>16. ASSUME NEW r \in Request, Recover(r)
      PROVE  RepairInv'
  <2>1. CASE UNCHANGED <<pc, own, repair>>
    BY <2>1
  <2>2. ASSUME NEW p \in Pairing, pc[p] = "idle", repair = None, repair' = p, StartPairing(p, "repair")
        PROVE  RepairInv'
    <3>1. Frame(p) /\ own'[p].by = "repair" /\ pc'[p] = "dial"
      BY <2>2, Starts DEF TypeOK
    <3> QED
      BY <2>2, <3>1 DEF Frame, Running
  <2> QED
    BY <1>16, <2>1, <2>2, Recovers
<1>17. ASSUME NEW r \in Request, Resume(r)
      PROVE  RepairInv'
  BY <1>17 DEF Resume
<1>18. ASSUME NEW r \in Request, SignerAnswers(r)
      PROVE  RepairInv'
  BY <1>18 DEF SignerAnswers, Ends
<1>19. ASSUME NEW r \in Request, Cancel(r)
      PROVE  RepairInv'
  BY <1>19 DEF Cancel, Ends
<1>20. CASE UNCHANGED vars
  BY <1>20 DEF vars
<1> QED
  BY <1>1, <1>2, <1>3, <1>4, <1>5, <1>6, <1>7, <1>8, <1>9, <1>10,
     <1>11, <1>12, <1>13, <1>14, <1>15, <1>16, <1>17, <1>18, <1>19, <1>20
     DEF Next, ConnectNostr, AddBountyConnects, PairingStep, CallStep, NotPaired, SignerTimeout

\* A panel that opens disturbs all others.
LEMMA StartsAlone ==
  ASSUME TypeOK, NEW p \in Pairing, NEW why \in Opener, StartPairing(p, why),
         UNCHANGED refresh
  PROVE  AloneInv'
<1>1. /\ pc'[p] = "dial" /\ Frame(p) /\ \A q \in Pairing \ {p} : ~own'[q].alone
      /\ own'[p].alone => RunningPairings = {} /\ refresh = None
  BY Starts DEF TypeOK
<1>2. ASSUME NEW q \in Pairing \ {p} PROVE AloneOf(q)'
  BY <1>1 DEF AloneOf
<1>3. AloneOf(p)'
  BY <1>1 DEF AloneOf, Frame, RunningPairings, Writing
<1> QED
  BY <1>2, <1>3 DEF AloneInv

\* Every step preserves what an undisturbed pairing has written.
LEMMA NextAlone ==
  TypeOK /\ LocalsInv /\ AloneInv /\ [Next]_vars => AloneInv'
<1> SUFFICES ASSUME TypeOK, LocalsInv, AloneInv, [Next]_vars
             PROVE  AloneInv'
  OBVIOUS
<1> USE DistinctAssumption DEF stored, pairings, calls, rest
<1>1. CASE RefreshEnds
  BY <1>1 DEF RefreshEnds, AloneInv, AloneOf
<1>2. CASE Reload
  BY <1>2, Reloads DEF AloneInv, AloneOf
<1>3. ASSUME NEW p \in Pairing, NEW why \in {"command", "bounty"}, OpenPanel(p, why)
      PROVE  AloneInv'
  <2>1. StartPairing(p, why) /\ UNCHANGED refresh
    BY <1>3 DEF OpenPanel
  <2> QED
    BY <2>1, StartsAlone
<1>4. ASSUME NEW p \in Pairing, DialFails(p)
      PROVE  AloneInv'
  <2>1. Frame(p) /\ pc[p] \in Running /\ ~own'[p].alone
    BY <1>4, Ended DEF DialFails, Running
  <2>2. AloneOf(p)'
    BY <2>1 DEF AloneOf
  <2> QED
    BY <2>1, <2>2, AloneStep
<1>5. ASSUME NEW p \in Pairing, LoadClientSecret(p)
      PROVE  AloneInv'
  <2>1. Frame(p) /\ pc[p] \in Running
    BY <1>5, Loads DEF LoadClientSecret, TypeOK, Running
  <2>2. AloneOf(p) /\ LocalsOf(p)
    BY DEF AloneInv, LocalsInv
  <2>3. AloneOf(p)'
    BY <2>1, <2>2, <1>5, Loads
       DEF LoadClientSecret, TypeOK, AloneOf, Running, Writing, Frame
  <2> QED
    BY <2>1, <2>3, AloneStep
<1>6. ASSUME NEW p \in Pairing, StoreClientSecret(p)
      PROVE  AloneInv'
  <2>1. Frame(p) /\ pc[p] \in Running
    BY <1>6, Fields DEF StoreClientSecret, TypeOK, Frame, Running
  <2>2. AloneOf(p) /\ LocalsOf(p)
    BY DEF AloneInv, LocalsInv
  <2>3. AloneOf(p)'
    BY <2>1, <2>2, <1>6, Fields
       DEF StoreClientSecret, TypeOK, Frame, AloneOf, Running, Writing, LocalsOf
  <2> QED
    BY <2>1, <2>3, AloneStep
<1>7. ASSUME NEW p \in Pairing, HandshakeFails(p)
      PROVE  AloneInv'
  <2>1. Frame(p) /\ pc[p] \in Running /\ ~own'[p].alone
    BY <1>7, Ended DEF HandshakeFails, Running
  <2>2. AloneOf(p)'
    BY <2>1 DEF AloneOf
  <2> QED
    BY <2>1, <2>2, AloneStep
<1>8. ASSUME NEW p \in Pairing, StorePointer(p)
      PROVE  AloneInv'
  <2>1. Frame(p) /\ pc[p] \in Running
    BY <1>8, Fields DEF StorePointer, TypeOK, Frame, Running
  <2>2. AloneOf(p) /\ LocalsOf(p)
    BY DEF AloneInv, LocalsInv
  <2>3. AloneOf(p)'
    BY <2>1, <2>2, <1>8, Fields
       DEF StorePointer, TypeOK, Frame, AloneOf, Running, Writing, LocalsOf
  <2> QED
    BY <2>1, <2>3, AloneStep
<1>9. ASSUME NEW p \in Pairing, IdentityFails(p)
      PROVE  AloneInv'
  <2>1. Frame(p) /\ pc[p] \in Running /\ ~own'[p].alone
    BY <1>9, Ended DEF IdentityFails, Running
  <2>2. AloneOf(p)'
    BY <2>1 DEF AloneOf
  <2> QED
    BY <2>1, <2>2, AloneStep
<1>10. ASSUME NEW p \in Pairing, ReadIdentity(p)
      PROVE  AloneInv'
  <2>1. /\ Frame(p) /\ pc[p] = "identity" /\ pc'[p] = "pubkey"
        /\ UNCHANGED <<secret, pointer, pubkey, refresh>>
    BY <1>10, Reads DEF ReadIdentity, TypeOK
  <2>2. /\ own'[p].alone = own[p].alone /\ own'[p].client = own[p].client
        /\ own'[p].scanned = own[p].scanned
        /\ own'[p].same => pubkey = own[p].scanned
    BY <1>10, Reads
  <2>3. AloneOf(p)
    BY DEF AloneInv
  <2>4. AloneOf(p)'
    BY <2>1, <2>2, <2>3 DEF AloneOf, Frame, Writing
  <2> QED
    BY <2>1, <2>4, AloneStep DEF Running
<1>11. ASSUME NEW p \in Pairing, StorePubkey(p)
      PROVE  AloneInv'
  <2>1. Frame(p) /\ pc[p] \in Running
    BY <1>11, Fields DEF StorePubkey, TypeOK, Frame, Running
  <2>2. AloneOf(p) /\ LocalsOf(p)
    BY DEF AloneInv, LocalsInv
  <2>3. AloneOf(p)'
    BY <2>1, <2>2, <1>11, Fields
       DEF StorePubkey, TypeOK, Frame, AloneOf, Running, Writing, LocalsOf
  <2> QED
    BY <2>1, <2>3, AloneStep
<1>12. ASSUME NEW p \in Pairing, StoreHandle(p)
      PROVE  AloneInv'
  <2>1. Frame(p) /\ pc[p] \in Running /\ ~own'[p].alone
    BY <1>12, Ended DEF StoreHandle, Running
  <2>2. AloneOf(p)'
    BY <2>1 DEF AloneOf
  <2> QED
    BY <2>1, <2>2, AloneStep
<1>13. ASSUME NEW p \in Pairing, PushLens(p)
      PROVE  AloneInv'
  <2>1. /\ UNCHANGED <<secret, pointer, pubkey, own, refresh, author>>
        /\ pc[p] = "push" /\ pc' = [pc EXCEPT ![p] = "done"]
    BY <1>13 DEF PushLens
  <2>2. ASSUME NEW q \in Pairing PROVE AloneOf(q)'
    BY <2>1 DEF AloneInv, AloneOf, TypeOK, Running, Writing
  <2> QED
    BY <2>2 DEF AloneInv
<1>14. ASSUME NEW p \in Pairing, NEW a \in Account, UserScans(p, a)
      PROVE  AloneInv'
  <2>1. Frame(p) /\ pc[p] \in Running
    BY <1>14, Scans DEF UserScans, TypeOK, Running
  <2>2. AloneOf(p) /\ LocalsOf(p)
    BY DEF AloneInv, LocalsInv
  <2>3. AloneOf(p)'
    BY <2>1, <2>2, <1>14, Scans
       DEF UserScans, TypeOK, AloneOf, Running, Writing, Frame, LocalsOf
  <2> QED
    BY <2>1, <2>3, AloneStep
<1>15. ASSUME NEW r \in Request, Call(r)
      PROVE  AloneInv'
  BY <1>15 DEF Call, AloneInv, AloneOf
<1>16. ASSUME NEW r \in Request, Recover(r)
      PROVE  AloneInv'
  <2>1. UNCHANGED <<stored, lens, refresh, author>>
    BY <1>16, Recovers
  <2>2. CASE UNCHANGED <<pc, own>>
    BY <2>1, <2>2 DEF AloneInv, AloneOf
  <2>3. ASSUME NEW p \in Pairing, StartPairing(p, "repair")
        PROVE  AloneInv'
    BY <2>1, <2>3, StartsAlone
  <2> QED
    BY <1>16, <2>2, <2>3, Recovers
<1>17. ASSUME NEW r \in Request, Resume(r)
      PROVE  AloneInv'
  BY <1>17 DEF Resume, AloneInv, AloneOf
<1>18. ASSUME NEW r \in Request, SignerAnswers(r)
      PROVE  AloneInv'
  BY <1>18 DEF SignerAnswers, Ends, AloneInv, AloneOf
<1>19. ASSUME NEW r \in Request, Cancel(r)
      PROVE  AloneInv'
  BY <1>19 DEF Cancel, Ends, AloneInv, AloneOf
<1>20. CASE UNCHANGED vars
  BY <1>20 DEF vars, AloneInv, AloneOf
<1> QED
  BY <1>1, <1>2, <1>3, <1>4, <1>5, <1>6, <1>7, <1>8, <1>9, <1>10,
     <1>11, <1>12, <1>13, <1>14, <1>15, <1>16, <1>17, <1>18, <1>19, <1>20
     DEF Next, ConnectNostr, AddBountyConnects, PairingStep, CallStep, NotPaired, SignerTimeout

\* No session is without a client key.
LEMMA NoSession ==
  ASSUME TypeOK, NEW a
  PROVE  <<None, a>> \notin session
BY DistinctAssumption DEF TypeOK, Key

\* A panel that opens while nothing runs finds an identity that fits together.
LEMMA StartsWhole ==
  ASSUME TypeOK, WholeInv, NEW p \in Pairing, NEW why \in Opener, StartPairing(p, why),
         UNCHANGED <<stored, session, refresh>>
  PROVE  WholeInv'
<1> SUFFICES ASSUME ~broken' PROVE WholeInv'
  BY DEF WholeInv
<1>1. /\ pc'[p] = "dial" /\ own'[p].alone /\ Frame(p)
      /\ ~broken /\ RunningPairings = {} /\ refresh = None
  BY Starts DEF TypeOK
<1>2. \A q \in Pairing : pc[q] \notin Running
  BY <1>1 DEF RunningPairings
<1>3. \A q \in Pairing : pc'[q] \notin Writing /\ pc[q] \notin Writing
  BY <1>1, <1>2 DEF Frame, Running, Writing
<1>4. ASSUME NEW q \in Pairing PROVE WholeOf(q)'
  BY <1>1, <1>2 DEF WholeOf, Frame, Running
<1> QED
  BY <1>1, <1>3, <1>4 DEF WholeInv, Whole, stored

\* Every step preserves that the identity fits together.
LEMMA NextWhole ==
  TypeOK /\ LocalsInv /\ AloneInv /\ WholeInv /\ [Next]_vars => WholeInv'
<1> SUFFICES ASSUME TypeOK, LocalsInv, AloneInv, WholeInv, [Next]_vars
             PROVE  WholeInv'
  OBVIOUS
<1> USE DistinctAssumption DEF stored, pairings, calls, rest
<1>1. CASE RefreshEnds
  <2> SUFFICES ASSUME ~broken' PROVE WholeInv'
    BY DEF WholeInv
  <2>1. /\ ~broken /\ refresh # None /\ refresh' = None
        /\ UNCHANGED <<secret, pointer, pubkey, session, pc, own>>
        /\ handle' \in {handle, pubkey}
    BY <1>1 DEF RefreshEnds, WholeInv, FetchProfileHandle
  <2>2. ASSUME NEW q \in Pairing PROVE pc[q] \notin Running
    BY <2>1 DEF WholeInv, WholeOf, AloneInv, AloneOf
  <2>3. \A q \in Pairing : WholeOf(q)' /\ pc[q] \notin Writing
    BY <2>1, <2>2 DEF WholeOf, Running, Writing
  <2> QED
    BY <2>1, <2>3 DEF WholeInv, Whole
<1>2. CASE Reload
  <2> SUFFICES ASSUME ~broken' PROVE WholeInv'
    BY DEF WholeInv
  <2>1. /\ ~broken /\ refresh' \in {pubkey', None} /\ UNCHANGED <<stored, session>>
        /\ \A q \in Pairing : pc[q] \notin Writing /\ pc'[q] \in {"idle", "done"}
    BY <1>2 DEF Reload, TypeOK, Writing, StaleHandle
  <2>2. \A q \in Pairing : WholeOf(q)'
    BY <2>1 DEF WholeOf, Running
  <2> QED
    BY <2>1, <2>2 DEF WholeInv, Whole
<1>3. ASSUME NEW p \in Pairing, NEW why \in {"command", "bounty"}, OpenPanel(p, why)
      PROVE  WholeInv'
  <2>1. StartPairing(p, why) /\ UNCHANGED <<stored, session, refresh>>
    BY <1>3 DEF OpenPanel
  <2> QED
    BY <2>1, StartsWhole
<1>4. ASSUME NEW p \in Pairing, DialFails(p)
      PROVE  WholeInv'
  <2> SUFFICES ASSUME ~broken' PROVE WholeInv'
    BY DEF WholeInv
  <2>1. /\ Frame(p) /\ pc'[p] \in {"push", "done"}
        /\ UNCHANGED <<stored, session, refresh, broken>>
        /\ pc[p] \in Running /\ pc[p] \notin Writing
    BY <1>4, Ended DEF DialFails, Running, Writing
  <2>2. refresh = None /\ \A q \in Pairing \ {p} : pc[q] \notin Running
    BY <2>1, OnlyOne
  <2>3. WholeOf(p)'
    BY <2>1 DEF WholeOf, Running
  <2>4. \A q \in Pairing : pc[q] \notin Writing
    BY <2>1, <2>2 DEF Running, Writing
  <2>5. Whole'
    BY <2>1, <2>4 DEF WholeInv, Whole
  <2> QED
    BY <2>1, <2>2, <2>3, <2>5, WholeStep
<1>5. ASSUME NEW p \in Pairing, LoadClientSecret(p)
      PROVE  WholeInv'
  <2> SUFFICES ASSUME ~broken' PROVE WholeInv'
    BY DEF WholeInv
  <2>1. Frame(p) /\ pc[p] \in Running /\ ~broken /\ UNCHANGED refresh
    BY <1>5, Loads DEF LoadClientSecret, TypeOK, Running
  <2>2. WholeOf(p) /\ AloneOf(p) /\ LocalsOf(p)
    BY <2>1 DEF WholeInv, AloneInv, LocalsInv
  <2>3. own[p].alone /\ refresh = None /\ \A q \in Pairing \ {p} : pc[q] \notin Running
    BY <2>1, OnlyOne
  <2>4. pc[p] \notin Writing => Whole
    BY <2>1, <2>3 DEF WholeInv, Running, Writing
  <2>5. WholeOf(p)'
    BY <2>1, <2>2, <2>3, <2>4, <1>5, Loads
       DEF LoadClientSecret, TypeOK, WholeOf, AloneOf, Whole, Running, Writing
  <2>6. pc'[p] \notin Writing => Whole'
    BY <2>1, <2>2, <2>3, <2>4, <1>5, Loads
       DEF LoadClientSecret, TypeOK, WholeOf, AloneOf, Whole, Running, Writing
  <2> QED
    BY <2>1, <2>3, <2>5, <2>6, WholeStep
<1>6. ASSUME NEW p \in Pairing, StoreClientSecret(p)
      PROVE  WholeInv'
  <2> SUFFICES ASSUME ~broken' PROVE WholeInv'
    BY DEF WholeInv
  <2>1. /\ pc[p] = "generated" /\ pc' = [pc EXCEPT ![p] = "scan"]
        /\ UNCHANGED <<pointer, pubkey, handle, session, own, refresh, broken>>
    BY <1>6 DEF StoreClientSecret
  <2>2. Frame(p) /\ pc'[p] = "scan"
    BY <2>1 DEF Frame, TypeOK
  <2>3. /\ own[p].alone /\ refresh = None /\ secret = None
        /\ \A q \in Pairing \ {p} : pc[q] \notin Running
    BY <2>1, OnlyOne DEF Running, AloneInv, AloneOf
  <2>4. Whole
    BY <2>1, <2>3 DEF WholeInv, Running, Writing
  <2>5. pointer = None
    BY <2>3, <2>4, NoSession DEF Whole
  <2>6. Whole'
    BY <2>1, <2>4, <2>5 DEF Whole
  <2>7. WholeOf(p)'
    BY <2>1, <2>2, <2>3 DEF WholeOf
  <2> QED
    BY <2>1, <2>2, <2>3, <2>6, <2>7, WholeStep DEF Running
<1>7. ASSUME NEW p \in Pairing, HandshakeFails(p)
      PROVE  WholeInv'
  <2> SUFFICES ASSUME ~broken' PROVE WholeInv'
    BY DEF WholeInv
  <2>1. /\ Frame(p) /\ pc'[p] \in {"push", "done"}
        /\ UNCHANGED <<stored, session, refresh, broken>>
        /\ pc[p] \in Running /\ pc[p] \notin Writing
    BY <1>7, Ended DEF HandshakeFails, Running, Writing
  <2>2. refresh = None /\ \A q \in Pairing \ {p} : pc[q] \notin Running
    BY <2>1, OnlyOne
  <2>3. WholeOf(p)'
    BY <2>1 DEF WholeOf, Running
  <2>4. \A q \in Pairing : pc[q] \notin Writing
    BY <2>1, <2>2 DEF Running, Writing
  <2>5. Whole'
    BY <2>1, <2>4 DEF WholeInv, Whole
  <2> QED
    BY <2>1, <2>2, <2>3, <2>5, WholeStep
<1>8. ASSUME NEW p \in Pairing, StorePointer(p)
      PROVE  WholeInv'
  <2> SUFFICES ASSUME ~broken' PROVE WholeInv'
    BY DEF WholeInv
  <2>1. Frame(p) /\ pc[p] \in Running /\ ~broken /\ UNCHANGED refresh
    BY <1>8, Fields DEF StorePointer, TypeOK, Frame, Running
  <2>2. WholeOf(p) /\ AloneOf(p) /\ LocalsOf(p)
    BY <2>1 DEF WholeInv, AloneInv, LocalsInv
  <2>3. own[p].alone /\ refresh = None /\ \A q \in Pairing \ {p} : pc[q] \notin Running
    BY <2>1, OnlyOne
  <2>4. pc[p] \notin Writing => Whole
    BY <2>1, <2>3 DEF WholeInv, Running, Writing
  <2>5. WholeOf(p)'
    BY <2>1, <2>2, <2>3, <2>4, <1>8, Fields
       DEF StorePointer, TypeOK, Frame, WholeOf, AloneOf, Whole, Running, Writing
  <2>6. pc'[p] \notin Writing => Whole'
    BY <2>1, <2>2, <2>3, <2>4, <1>8, Fields
       DEF StorePointer, TypeOK, Frame, WholeOf, AloneOf, Whole, Running, Writing
  <2> QED
    BY <2>1, <2>3, <2>5, <2>6, WholeStep
<1>9. ASSUME NEW p \in Pairing, IdentityFails(p)
      PROVE  WholeInv'
  BY <1>9 DEF IdentityFails, WholeInv
<1>10. ASSUME NEW p \in Pairing, ReadIdentity(p)
      PROVE  WholeInv'
  <2> SUFFICES ASSUME ~broken' PROVE WholeInv'
    BY DEF WholeInv
  <2>1. Frame(p) /\ pc[p] \in Running /\ ~broken /\ UNCHANGED refresh
    BY <1>10, Reads DEF ReadIdentity, TypeOK, Running
  <2>2. WholeOf(p) /\ AloneOf(p) /\ LocalsOf(p)
    BY <2>1 DEF WholeInv, AloneInv, LocalsInv
  <2>3. own[p].alone /\ refresh = None /\ \A q \in Pairing \ {p} : pc[q] \notin Running
    BY <2>1, OnlyOne
  <2>4. pc[p] \notin Writing => Whole
    BY <2>1, <2>3 DEF WholeInv, Running, Writing
  <2>5. WholeOf(p)'
    BY <2>1, <2>2, <2>3, <2>4, <1>10, Reads
       DEF ReadIdentity, TypeOK, WholeOf, AloneOf, Whole, Running, Writing
  <2>6. pc'[p] \notin Writing => Whole'
    BY <2>1, <2>2, <2>3, <2>4, <1>10, Reads
       DEF ReadIdentity, TypeOK, WholeOf, AloneOf, Whole, Running, Writing
  <2> QED
    BY <2>1, <2>3, <2>5, <2>6, WholeStep
<1>11. ASSUME NEW p \in Pairing, StorePubkey(p)
      PROVE  WholeInv'
  <2> SUFFICES ASSUME ~broken' PROVE WholeInv'
    BY DEF WholeInv
  <2>1. Frame(p) /\ pc[p] \in Running /\ ~broken /\ UNCHANGED refresh
    BY <1>11, Fields DEF StorePubkey, TypeOK, Frame, Running
  <2>2. WholeOf(p) /\ AloneOf(p) /\ LocalsOf(p)
    BY <2>1 DEF WholeInv, AloneInv, LocalsInv
  <2>3. own[p].alone /\ refresh = None /\ \A q \in Pairing \ {p} : pc[q] \notin Running
    BY <2>1, OnlyOne
  <2>4. pc[p] \notin Writing => Whole
    BY <2>1, <2>3 DEF WholeInv, Running, Writing
  <2>5. WholeOf(p)'
    BY <2>1, <2>2, <2>3, <2>4, <1>11, Fields
       DEF StorePubkey, TypeOK, Frame, WholeOf, AloneOf, Whole, Running, Writing
  <2>6. pc'[p] \notin Writing => Whole'
    BY <2>1, <2>2, <2>3, <2>4, <1>11, Fields
       DEF StorePubkey, TypeOK, Frame, WholeOf, AloneOf, Whole, Running, Writing
  <2> QED
    BY <2>1, <2>3, <2>5, <2>6, WholeStep
<1>12. ASSUME NEW p \in Pairing, StoreHandle(p)
      PROVE  WholeInv'
  <2> SUFFICES ASSUME ~broken' PROVE WholeInv'
    BY DEF WholeInv
  <2>1. Frame(p) /\ pc[p] = "handle" /\ pc'[p] \in {"push", "done"} /\ handle' = HandleToStore(p)
    BY <1>12, Ended DEF StoreHandle
  <2>2. UNCHANGED <<secret, pointer, pubkey, session, refresh>>
    BY <1>12 DEF StoreHandle
  <2>3. own[p].alone /\ (~broken \/ own[p].named \/ ~own[p].same)
    BY <1>12, <2>1 DEF StoreHandle, WholeInv, WholeOf, Running
  <2>4. /\ refresh = None /\ \A q \in Pairing \ {p} : pc[q] \notin Running
        /\ secret = own[p].client /\ pointer = own[p].scanned /\ pubkey = own[p].scanned
    BY <2>1, <2>3 DEF AloneInv, AloneOf, Writing
  <2>5. own[p].scanned \in Account /\ <<own[p].client, own[p].scanned>> \in session
    BY <2>1, DistinctAssumption DEF LocalsInv, LocalsOf, Writing
  <2>6. handle' \in {None, own[p].scanned}
    BY <2>1, <2>3 DEF HandleToStore, WholeInv, WholeOf
  <2>7. Whole'
    BY <2>2, <2>4, <2>5, <2>6 DEF Whole
  <2>8. \A q \in Pairing : pc'[q] \notin Running
    BY <2>1, <2>4 DEF Frame, Running
  <2>9. \A q \in Pairing : WholeOf(q)'
    BY <2>8 DEF WholeOf, Running
  <2> QED
    BY <2>2, <2>4, <2>7, <2>9 DEF WholeInv
<1>13. ASSUME NEW p \in Pairing, PushLens(p)
      PROVE  WholeInv'
  <2>1. /\ UNCHANGED <<stored, session, own, refresh, broken>>
        /\ pc[p] = "push" /\ pc' = [pc EXCEPT ![p] = "done"]
    BY <1>13 DEF PushLens
  <2>2. ~broken => \A q \in Pairing : WholeOf(q)'
    BY <2>1 DEF WholeInv, WholeOf, TypeOK, Running
  <2>3. \A q \in Pairing : pc'[q] \in Writing <=> pc[q] \in Writing
    BY <2>1 DEF TypeOK, Writing
  <2> QED
    BY <2>1, <2>2, <2>3 DEF WholeInv, Whole
<1>14. ASSUME NEW p \in Pairing, NEW a \in Account, UserScans(p, a)
      PROVE  WholeInv'
  <2> SUFFICES ASSUME ~broken' PROVE WholeInv'
    BY DEF WholeInv
  <2>1. Frame(p) /\ pc[p] \in Running /\ ~broken /\ UNCHANGED refresh
    BY <1>14, Scans DEF UserScans, TypeOK, Running
  <2>2. WholeOf(p) /\ AloneOf(p) /\ LocalsOf(p)
    BY <2>1 DEF WholeInv, AloneInv, LocalsInv
  <2>3. own[p].alone /\ refresh = None /\ \A q \in Pairing \ {p} : pc[q] \notin Running
    BY <2>1, OnlyOne
  <2>4. pc[p] \notin Writing => Whole
    BY <2>1, <2>3 DEF WholeInv, Running, Writing
  <2>5. WholeOf(p)'
    BY <2>1, <2>2, <2>3, <2>4, <1>14, Scans
       DEF UserScans, TypeOK, WholeOf, AloneOf, Whole, Running, Writing
  <2>6. pc'[p] \notin Writing => Whole'
    BY <2>1, <2>2, <2>3, <2>4, <1>14, Scans
       DEF UserScans, TypeOK, WholeOf, AloneOf, Whole, Running, Writing
  <2> QED
    BY <2>1, <2>3, <2>5, <2>6, WholeStep
<1>15. ASSUME NEW r \in Request, Call(r)
      PROVE  WholeInv'
  BY <1>15 DEF Call, WholeInv, WholeOf, Whole
<1>16. ASSUME NEW r \in Request, Recover(r)
      PROVE  WholeInv'
  <2>1. UNCHANGED <<stored, session, refresh>>
    BY <1>16, Recovers
  <2>2. CASE UNCHANGED <<pc, own, repair, broken>>
    BY <2>1, <2>2 DEF WholeInv, WholeOf, Whole
  <2>3. ASSUME NEW p \in Pairing, StartPairing(p, "repair")
        PROVE  WholeInv'
    BY <2>1, <2>3, StartsWhole
  <2> QED
    BY <1>16, <2>2, <2>3, Recovers
<1>17. ASSUME NEW r \in Request, Resume(r)
      PROVE  WholeInv'
  BY <1>17 DEF Resume, WholeInv, WholeOf, Whole
<1>18. ASSUME NEW r \in Request, SignerAnswers(r)
      PROVE  WholeInv'
  BY <1>18 DEF SignerAnswers, Ends, WholeInv, WholeOf, Whole
<1>19. ASSUME NEW r \in Request, Cancel(r)
      PROVE  WholeInv'
  BY <1>19 DEF Cancel, Ends, WholeInv, WholeOf, Whole
<1>20. CASE UNCHANGED vars
  BY <1>20 DEF vars, WholeInv, WholeOf, Whole
<1> QED
  BY <1>1, <1>2, <1>3, <1>4, <1>5, <1>6, <1>7, <1>8, <1>9, <1>10,
     <1>11, <1>12, <1>13, <1>14, <1>15, <1>16, <1>17, <1>18, <1>19, <1>20
     DEF Next, ConnectNostr, AddBountyConnects, PairingStep, CallStep, NotPaired, SignerTimeout

\* A step of a pairing that stores no pubkey keeps LensKnowsIdentity.
LEMMA Shown ==
  ASSUME LensKnowsIdentity, NEW p \in Pairing, Frame(p),
         \/ own[p].by # "command" /\ pc[p] # "push"
         \/ own'[p].by = "command"
         \/ pc'[p] = "push",
         UNCHANGED <<lens, pubkey, author>>, broken => broken'
  PROVE  LensKnowsIdentity'
<1>1. CASE \E q \in Pairing : own[q].by = "command" \/ pc[q] = "push"
  <2>1. PICK q \in Pairing : own[q].by = "command" \/ pc[q] = "push"
    BY <1>1
  <2>2. CASE q = p
    BY <2>1, <2>2 DEF LensKnowsIdentity
  <2>3. CASE q # p
    <3>1. own'[q].by = "command" \/ pc'[q] = "push"
      BY <2>1, <2>3 DEF Frame
    <3> QED
      BY <3>1 DEF LensKnowsIdentity
  <2> QED
    BY <2>2, <2>3
<1>2. CASE lens = pubkey \/ broken \/ author \in {"repair", "bounty"}
  BY <1>2 DEF LensKnowsIdentity
<1> QED
  BY <1>1, <1>2 DEF LensKnowsIdentity

\* Every step preserves that the lenses know the identity.
LEMMA NextLens ==
  TypeOK /\ LocalsInv /\ AloneInv /\ LensKnowsIdentity /\ [Next]_vars => LensKnowsIdentity'
<1> SUFFICES ASSUME TypeOK, LocalsInv, AloneInv, LensKnowsIdentity, [Next]_vars
             PROVE  LensKnowsIdentity'
  OBVIOUS
<1> USE DistinctAssumption DEF stored, pairings, calls, rest
<1>1. CASE RefreshEnds
  BY <1>1 DEF RefreshEnds, LensKnowsIdentity
<1>2. CASE Reload
  BY <1>2 DEF Reload, LensKnowsIdentity
<1>3. ASSUME NEW p \in Pairing, NEW why \in {"command", "bounty"}, OpenPanel(p, why)
      PROVE  LensKnowsIdentity'
  <2>1. /\ StartPairing(p, why) /\ pc[p] = "idle"
        /\ UNCHANGED <<lens, pubkey, author>>
    BY <1>3 DEF OpenPanel, First, Idle
  <2>2. Frame(p) /\ (broken => broken')
    BY <2>1, Starts
  <2>3. own[p].by # "command"
    BY <2>1, DistinctAssumption DEF LocalsInv, LocalsOf, Running
  <2> QED
    BY <2>1, <2>2, <2>3, Shown
<1>4. ASSUME NEW p \in Pairing, DialFails(p)
      PROVE  LensKnowsIdentity'
  <2>1. Frame(p) /\ pc[p] # "push" /\ UNCHANGED <<lens, pubkey, author, broken>>
    BY <1>4, Ended DEF DialFails
  <2>2. own[p].by = "command" => pc'[p] = "push"
    BY <1>4 DEF DialFails, EndPairing, TypeOK
  <2> QED
    BY <2>1, <2>2, Shown
<1>5. ASSUME NEW p \in Pairing, LoadClientSecret(p)
      PROVE  LensKnowsIdentity'
  <2>1. /\ Frame(p) /\ own'[p].by = own[p].by /\ pc[p] # "push"
        /\ UNCHANGED <<lens, pubkey, author, broken>>
    BY <1>5, Loads DEF LoadClientSecret, TypeOK
  <2> QED
    BY <2>1, Shown
<1>6. ASSUME NEW p \in Pairing, StoreClientSecret(p)
      PROVE  LensKnowsIdentity'
  <2>1. /\ Frame(p) /\ own'[p].by = own[p].by /\ pc[p] # "push"
        /\ UNCHANGED <<lens, pubkey, author, broken>>
    BY <1>6, Fields DEF StoreClientSecret, TypeOK, Frame
  <2> QED
    BY <2>1, Shown
<1>7. ASSUME NEW p \in Pairing, HandshakeFails(p)
      PROVE  LensKnowsIdentity'
  <2>1. Frame(p) /\ pc[p] # "push" /\ UNCHANGED <<lens, pubkey, author, broken>>
    BY <1>7, Ended DEF HandshakeFails
  <2>2. own[p].by = "command" => pc'[p] = "push"
    BY <1>7 DEF HandshakeFails, EndPairing, TypeOK
  <2> QED
    BY <2>1, <2>2, Shown
<1>8. ASSUME NEW p \in Pairing, StorePointer(p)
      PROVE  LensKnowsIdentity'
  <2>1. /\ Frame(p) /\ own'[p].by = own[p].by /\ pc[p] # "push"
        /\ UNCHANGED <<lens, pubkey, author, broken>>
    BY <1>8, Fields DEF StorePointer, TypeOK, Frame
  <2> QED
    BY <2>1, Shown
<1>9. ASSUME NEW p \in Pairing, IdentityFails(p)
      PROVE  LensKnowsIdentity'
  BY <1>9 DEF IdentityFails, LensKnowsIdentity
<1>10. ASSUME NEW p \in Pairing, ReadIdentity(p)
      PROVE  LensKnowsIdentity'
  <2>1. /\ Frame(p) /\ own'[p].by = own[p].by /\ pc[p] # "push"
        /\ UNCHANGED <<lens, pubkey, author, broken>>
    BY <1>10, Reads DEF ReadIdentity, TypeOK
  <2> QED
    BY <2>1, Shown
<1>11. ASSUME NEW p \in Pairing, StorePubkey(p)
      PROVE  LensKnowsIdentity'
  <2>1. /\ own[p].by \in Opener
        /\ author' = own[p].by /\ own' = own
    BY <1>11 DEF StorePubkey, LocalsInv, LocalsOf, Running
  <2> QED
    BY <2>1 DEF LensKnowsIdentity
<1>12. ASSUME NEW p \in Pairing, StoreHandle(p)
      PROVE  LensKnowsIdentity'
  <2>1. /\ Frame(p) /\ pc[p] = "handle"
        /\ UNCHANGED <<lens, pubkey, author>>
    BY <1>12, Ended DEF StoreHandle
  <2>2. own[p].by = "command" => pc'[p] = "push"
    BY <1>12 DEF StoreHandle, EndPairing, TypeOK
  <2>3. CASE broken => broken'
    BY <2>1, <2>2, <2>3, Shown
  <2>4. CASE own[p].alone
    <3>1. author = own[p].by /\ own[p].by \in Opener
      BY <2>1, <2>4 DEF AloneInv, AloneOf, LocalsInv, LocalsOf, Running
    <3> QED
      BY <2>1, <2>2, <3>1 DEF LensKnowsIdentity
  <2> QED
    BY <1>12, <2>3, <2>4 DEF StoreHandle
<1>13. ASSUME NEW p \in Pairing, PushLens(p)
      PROVE  LensKnowsIdentity'
  BY <1>13 DEF PushLens, LensKnowsIdentity
<1>14. ASSUME NEW p \in Pairing, NEW a \in Account, UserScans(p, a)
      PROVE  LensKnowsIdentity'
  <2>1. /\ Frame(p) /\ own'[p].by = own[p].by /\ pc[p] # "push"
        /\ UNCHANGED <<lens, pubkey, author, broken>>
    BY <1>14, Scans DEF UserScans, TypeOK
  <2> QED
    BY <2>1, Shown
<1>15. ASSUME NEW r \in Request, Call(r)
      PROVE  LensKnowsIdentity'
  BY <1>15 DEF Call, LensKnowsIdentity
<1>16. ASSUME NEW r \in Request, Recover(r)
      PROVE  LensKnowsIdentity'
  <2>1. UNCHANGED <<lens, pubkey, author>>
    BY <1>16, Recovers
  <2>2. CASE UNCHANGED <<pc, own, repair, broken>>
    BY <2>1, <2>2 DEF LensKnowsIdentity
  <2>3. ASSUME NEW p \in Pairing, pc[p] = "idle", StartPairing(p, "repair")
        PROVE  LensKnowsIdentity'
    <3>1. Frame(p) /\ (broken => broken')
      BY <2>3, Starts
    <3>2. own[p].by # "command"
      BY <2>3, DistinctAssumption DEF LocalsInv, LocalsOf, Running
    <3> QED
      BY <2>1, <2>3, <3>1, <3>2, Shown
  <2> QED
    BY <1>16, <2>2, <2>3, Recovers
<1>17. ASSUME NEW r \in Request, Resume(r)
      PROVE  LensKnowsIdentity'
  BY <1>17 DEF Resume, LensKnowsIdentity
<1>18. ASSUME NEW r \in Request, SignerAnswers(r)
      PROVE  LensKnowsIdentity'
  BY <1>18 DEF SignerAnswers, Ends, LensKnowsIdentity
<1>19. ASSUME NEW r \in Request, Cancel(r)
      PROVE  LensKnowsIdentity'
  BY <1>19 DEF Cancel, Ends, LensKnowsIdentity
<1>20. CASE UNCHANGED vars
  BY <1>20 DEF vars, LensKnowsIdentity
<1> QED
  BY <1>1, <1>2, <1>3, <1>4, <1>5, <1>6, <1>7, <1>8, <1>9, <1>10,
     <1>11, <1>12, <1>13, <1>14, <1>15, <1>16, <1>17, <1>18, <1>19, <1>20
     DEF Next, ConnectNostr, AddBountyConnects, PairingStep, CallStep, NotPaired, SignerTimeout

\* A call begins to wait for a pairing that runs.
Joins ==
  \A r \in Request : joined'[r] \notin {joined[r], None} => joined'[r] \in RunningPairings'

\* Every step does so: a shared re-pairing runs, and a new one has just begun.
LEMMA NextJoins ==
  TypeOK /\ RepairInv /\ [Next]_vars => Joins
<1> SUFFICES ASSUME TypeOK, RepairInv, [Next]_vars
             PROVE  Joins
  OBVIOUS
<1> USE DistinctAssumption DEF stored, pairings, calls, rest, Joins
<1>1. CASE RefreshEnds
  BY <1>1 DEF RefreshEnds
<1>2. CASE Reload
  BY <1>2 DEF Reload
<1>3. ASSUME NEW p \in Pairing, NEW why \in {"command", "bounty"}, OpenPanel(p, why)
      PROVE  Joins
  BY <1>3 DEF OpenPanel
<1>4. ASSUME NEW p \in Pairing, DialFails(p)
      PROVE  Joins
  BY <1>4 DEF DialFails
<1>5. ASSUME NEW p \in Pairing, LoadClientSecret(p)
      PROVE  Joins
  BY <1>5 DEF LoadClientSecret
<1>6. ASSUME NEW p \in Pairing, StoreClientSecret(p)
      PROVE  Joins
  BY <1>6 DEF StoreClientSecret
<1>7. ASSUME NEW p \in Pairing, HandshakeFails(p)
      PROVE  Joins
  BY <1>7 DEF HandshakeFails
<1>8. ASSUME NEW p \in Pairing, StorePointer(p)
      PROVE  Joins
  BY <1>8 DEF StorePointer
<1>9. ASSUME NEW p \in Pairing, IdentityFails(p)
      PROVE  Joins
  BY <1>9 DEF IdentityFails
<1>10. ASSUME NEW p \in Pairing, ReadIdentity(p)
      PROVE  Joins
  BY <1>10 DEF ReadIdentity
<1>11. ASSUME NEW p \in Pairing, StorePubkey(p)
      PROVE  Joins
  BY <1>11 DEF StorePubkey
<1>12. ASSUME NEW p \in Pairing, StoreHandle(p)
      PROVE  Joins
  BY <1>12 DEF StoreHandle
<1>13. ASSUME NEW p \in Pairing, PushLens(p)
      PROVE  Joins
  BY <1>13 DEF PushLens
<1>14. ASSUME NEW p \in Pairing, NEW a \in Account, UserScans(p, a)
      PROVE  Joins
  BY <1>14 DEF UserScans
<1>15. ASSUME NEW r \in Request, Call(r)
      PROVE  Joins
  BY <1>15 DEF Call
<1>16. ASSUME NEW r \in Request, Recover(r)
      PROVE  Joins
  <2>1. ASSUME NEW s \in Request, joined'[s] \notin {joined[s], None}
        PROVE  joined'[s] \in Pairing /\ pc'[joined'[s]] \in Running
    <3>1. CASE UNCHANGED pc /\ joined' \in {[joined EXCEPT ![r] = None], [joined EXCEPT ![r] = repair]}
      <4>1. joined'[s] = repair /\ repair # None
        BY <2>1, <3>1 DEF TypeOK
      <4> QED
        BY <4>1, <3>1 DEF RepairInv, TypeOK
    <3>2. ASSUME NEW p \in Pairing, joined' = [joined EXCEPT ![r] = p], StartPairing(p, "repair")
          PROVE  joined'[s] \in Pairing /\ pc'[joined'[s]] \in Running
      <4>1. joined'[s] = p
        BY <2>1, <3>2 DEF TypeOK
      <4>2. pc' = [pc EXCEPT ![p] = "dial"]
        BY <3>2, Starts
      <4>3. pc'[p] = "dial"
        BY <4>2 DEF TypeOK
      <4> QED
        BY <4>1, <4>3 DEF Running
    <3> QED
      BY <1>16, <3>1, <3>2, Recovers
  <2> QED
    BY <2>1 DEF Joins, RunningPairings
<1>17. ASSUME NEW r \in Request, Resume(r)
      PROVE  Joins
  BY <1>17 DEF Resume, TypeOK
<1>18. ASSUME NEW r \in Request, SignerAnswers(r)
      PROVE  Joins
  BY <1>18 DEF SignerAnswers, Ends, TypeOK
<1>19. ASSUME NEW r \in Request, Cancel(r)
      PROVE  Joins
  BY <1>19 DEF Cancel, Ends, TypeOK
<1>20. CASE UNCHANGED vars
  BY <1>20 DEF vars
<1> QED
  BY <1>1, <1>2, <1>3, <1>4, <1>5, <1>6, <1>7, <1>8, <1>9, <1>10,
     <1>11, <1>12, <1>13, <1>14, <1>15, <1>16, <1>17, <1>18, <1>19, <1>20
     DEF Next, ConnectNostr, AddBountyConnects, PairingStep, CallStep, NotPaired, SignerTimeout

-----------------------------------------------------------------------------

\* A window that is opened satisfies all of it.
LEMMA InitHolds ==
  Init => TypeOK /\ LocalsInv /\ RepairInv /\ AloneInv /\ WholeInv /\ LensKnowsIdentity
<1> SUFFICES ASSUME Init
             PROVE  TypeOK /\ LocalsInv /\ RepairInv /\ AloneInv /\ WholeInv /\ LensKnowsIdentity
  OBVIOUS
<1>1. PICK a \in Stored \cup {None} :
        /\ pointer = a /\ pubkey = a /\ lens = a
        /\ secret = IF a = None THEN None ELSE Old
        /\ handle \in {None, a}
        /\ session = IF a = None THEN {} ELSE {<<Old, a>>}
  BY DEF Init
<1>2. /\ Blank \in Locals /\ Blank.by = None /\ Blank.scanned = None /\ ~Blank.alone
      /\ None # "repair"
  BY DistinctAssumption DEF Blank, Locals
<1>3. /\ a \in Account \cup {None}
      /\ \A p \in Pairing : pc[p] = "idle" /\ own[p] = Blank
      /\ repair = None /\ refresh \in {pubkey, None}
  BY <1>1, DistinctAssumption DEF Init, StaleHandle
<1>4. TypeOK
  <2>1. /\ secret \in Key \cup {None}
        /\ {pointer, pubkey, handle, lens, refresh} \subseteq Account \cup {None}
        /\ session \subseteq Key \X Account
    BY <1>1, <1>3 DEF Key
  <2> QED
    BY <1>2, <2>1 DEF Init, TypeOK
<1>5. LocalsInv
  BY <1>2, <1>3 DEF LocalsInv, LocalsOf, Running, Writing
<1>6. RepairInv /\ AloneInv
  BY <1>2, <1>3 DEF RepairInv, AloneInv, AloneOf
<1>7. WholeInv
  <2>1. Whole
    BY <1>1 DEF Whole
  <2> QED
    BY <1>3, <2>1 DEF WholeInv, WholeOf, Running
<1>8. LensKnowsIdentity
  BY <1>1 DEF LensKnowsIdentity
<1> QED
  BY <1>4, <1>5, <1>6, <1>7, <1>8

\* All variables keep their types, and a pairing writes only what it has been
\* told (nostr.api.ts 209-427).
THEOREM TypesHold == Spec => [](TypeOK /\ LocalsInv)
BY InitHolds, NextTypes, NextLocals, PTL DEF Spec

\* At most one re-pairing runs, and calls wait only for one that runs
\* (user-signer.ts 28-29: inFlightReauth is set as one begins and cleared as it
\* ends).
THEOREM RepairsAreShared == Spec => []RepairInv /\ OneRepairForAll
<1>1. TypeOK /\ RepairInv /\ RepairInv' /\ [Next]_vars =>
        [/\ \A p, q \in RunningPairings' :
              own'[p].by = "repair" /\ own'[q].by = "repair" => p = q
         /\ \A r \in Request :
              joined'[r] \notin {joined[r], None} => joined'[r] \in RunningPairings']_vars
  BY NextJoins DEF Joins, RepairInv, RunningPairings
<1> QED
  BY <1>1, InitHolds, TypesHold, NextRepair, PTL DEF Spec, OneRepairForAll

\* What a pairing that nothing overlapped has stored is still stored when it
\* takes its next step.
THEOREM OneWriter == Spec => []AloneInv
BY InitHolds, TypesHold, NextAlone, PTL DEF Spec

\* When no pairing is at work the stored pointer, pubkey, client key and handle
\* belong to one identity, unless two writers overlapped or one broke off half-way
\* (nostr.api.ts 209, 369, 418, 425-427).
THEOREM IdentityFits == Spec => []IdentityIsWhole
<1>1. WholeInv => IdentityIsWhole
  BY DEF WholeInv, IdentityIsWhole, Whole, RunningPairings, Running, Writing
<1> QED
  BY <1>1, InitHolds, TypesHold, OneWriter, NextWhole, PTL DEF Spec

\* The code lenses show the actions of the stored identity, except after a
\* re-pairing and while the command is at work (extension.ts 111-113).
THEOREM LensesFollow == Spec => []LensKnowsIdentity
BY InitHolds, TypesHold, OneWriter, NextLens, PTL DEF Spec

=============================================================================
