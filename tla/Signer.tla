------------------------------- MODULE Signer -------------------------------
(***************************************************************************)
(* The user's identity on one machine: pairing with a remote signer        *)
(* (src/api/nostr.api.ts, nostr-signer.ts), the four secrets a pairing     *)
(* writes one after the other (src/state.ts), and the calls that sign or   *)
(* decrypt with what is stored, re-pairing once when no answer comes       *)
(* (src/api/user-signer.ts).                                               *)
(*                                                                         *)
(* A pairing shows one panel.  Its connect secret is its own, so only a    *)
(* scan of this panel answers it.  Each action runs from one await to the  *)
(* next; the two reads of one function that follow each other directly are *)
(* one step where nothing is decided in between.                           *)
(***************************************************************************)
EXTENDS Naturals

CONSTANTS
  Account,   \* the keys the user holds in signer apps
  Stored,    \* those the window may be opened with
  Pairing,   \* runs of connectNostr, numbered as they begin
  Request,   \* calls of signUserEvent and decryptForUser, likewise
  Old,       \* the client key of an earlier session
  None       \* absence of a value

\* What opens a pairing: the command, a first bounty, or a call that got no answer.
Opener == {"command", "bounty", "repair"}

ASSUME DistinctAssumption ==
  /\ Pairing \subseteq Nat /\ Request \subseteq Nat /\ Old \notin Pairing
  /\ Stored \subseteq Account
  /\ None \notin Account \cup Pairing \cup {Old}
  /\ None \notin Opener

VARIABLES
  secret, pointer, pubkey, handle,  \* what the secret store holds; a stored pubkey
                                    \* rendering counts as no handle
  lens,      \* the pubkey the code lenses were given
  session,   \* the <<client key, account>> pairs a signer app has accepted
  pc,        \* where each pairing is
  own,       \* its locals, see Locals
  ok,        \* whether a re-pairing ended well, for the calls that wait for it
  repair,    \* the pairing that waiting calls share (inFlightReauth)
  at,        \* where each call is
  tries,     \* 2 once it has been repeated
  used,      \* the client key and the account it reads from the store
  joined,    \* the pairing it waited for
  refresh,   \* the account refreshNostrHandleIfStale looks up
  author,    \* what made the stored identity
  broken     \* two writers have overlapped, or one broke off half-way

stored == <<secret, pointer, pubkey, handle>>
pairings == <<pc, own, ok, repair>>
calls == <<at, tries, used, joined>>
rest == <<lens, refresh, author, broken>>
vars == <<stored, session, pairings, calls, rest>>

Key == Pairing \cup {Old}
Running == {"dial", "generated", "scan", "identity", "pubkey", "handle"}
Busy == {"waiting", "unpaired", "repair"}

\* What opened it.  Then the client key and the account that scanned the panel;
\* whether the account's profile gave a name, and whether it was stored before;
\* whether nothing else wrote the identity meanwhile.
Locals == [by: Opener \cup {None}, client: Key \cup {None}, scanned: Account \cup {None},
           named: BOOLEAN, same: BOOLEAN, alone: BOOLEAN]
Blank == [by |-> None, client |-> None, scanned |-> None,
          named |-> FALSE, same |-> FALSE, alone |-> FALSE]

TypeOK ==
  /\ secret \in Key \cup {None}
  /\ {pointer, pubkey, handle, lens, refresh} \subseteq Account \cup {None}
  /\ session \subseteq Key \X Account
  /\ pc \in [Pairing -> {"idle", "push", "done"} \cup Running]
  /\ own \in [Pairing -> Locals]
  /\ ok \in [Pairing -> BOOLEAN]
  /\ repair \in Pairing \cup {None}
  /\ at \in [Request -> Busy \cup {"idle", "over"}]
  /\ tries \in [Request -> {1, 2}]
  /\ used \in [Request -> (Key \cup {None}) \X (Account \cup {None})]
  /\ joined \in [Request -> Pairing \cup {None}]
  /\ author \in Opener \cup {"activation"}
  /\ broken \in BOOLEAN

\* refreshNostrHandleIfStale, when a window is opened: the account whose name it
\* looks for, if the stored identity has none.
StaleHandle == IF handle = None THEN pubkey ELSE None

\* A window is opened, paired or not.  A signer owes no answer, so that the user
\* may end a session in the signer app needs no step of its own.
Init ==
  /\ \E a \in Stored \cup {None} :
       /\ pointer = a /\ pubkey = a /\ lens = a
       /\ secret = IF a = None THEN None ELSE Old
       /\ handle \in {None, a}
       /\ session = IF a = None THEN {} ELSE {<<Old, a>>}
  /\ pc = [p \in Pairing |-> "idle"]
  /\ own = [p \in Pairing |-> Blank]
  /\ ok = [p \in Pairing |-> FALSE]
  /\ repair = None
  /\ at = [r \in Request |-> "idle"]
  /\ tries = [r \in Request |-> 1]
  /\ used = [r \in Request |-> <<None, None>>]
  /\ joined = [r \in Request |-> None]
  /\ refresh = StaleHandle
  /\ author = "activation"
  /\ broken = FALSE

-----------------------------------------------------------------------------
(* Pairing: connectNostr and resolveNostrInfoFromBunkerSigner. *)

RunningPairings == {p \in Pairing : pc[p] \in Running}
Idle == {p \in Pairing : pc[p] = "idle"}
First(S) == {n \in S : \A m \in S : n <= m}

\* A panel opens.  `broken` and `alone` record that another writer is at work.
StartPairing(p, why) ==
  LET overlap == RunningPairings # {} \/ refresh # None IN
    /\ pc' = [pc EXCEPT ![p] = "dial"]
    /\ own' = [q \in Pairing |->
                 IF q = p THEN [Blank EXCEPT !.by = why, !.alone = ~overlap]
                          ELSE [own[q] EXCEPT !.alone = FALSE]]
    /\ broken' = (broken \/ overlap)

\* Variant: the shared promise is kept once it is settled.
EndKeepsPromise(p, how) ==
  /\ pc' = [pc EXCEPT ![p] = IF own[p].by = "command" THEN "push" ELSE "done"]
  /\ own' = [own EXCEPT ![p] = Blank]
  /\ ok' = [ok EXCEPT ![p] = how /\ own[p].by = "repair"]
  /\ UNCHANGED repair

\* connectNostr returns.  The command then goes on to the lens provider, and
\* the calls that share a re-pairing are free to start another.
EndPairing(p, how) ==
  /\ pc' = [pc EXCEPT ![p] = IF own[p].by = "command" THEN "push" ELSE "done"]
  /\ own' = [own EXCEPT ![p] = Blank]
  /\ ok' = [ok EXCEPT ![p] = how /\ own[p].by = "repair"]
  /\ repair' = IF repair = p THEN None ELSE repair

OpenPanel(p, why) ==
  /\ p \in First(Idle)
  /\ StartPairing(p, why)
  /\ UNCHANGED <<stored, session, ok, repair, calls, lens, refresh, author>>

ConnectNostr(p) == OpenPanel(p, "command")

\* Adding a bounty with no identity stored pairs first, and then goes on without
\* a word to the lens provider.
AddBountyConnects(p) == pubkey = None /\ OpenPanel(p, "bounty")

\* No configured relay is in reach.
DialFails(p) ==
  /\ pc[p] = "dial"
  /\ EndPairing(p, FALSE)
  /\ UNCHANGED <<stored, session, calls, rest>>

\* The client key of earlier sessions is used again, or a new one made.
LoadClientSecret(p) ==
  /\ pc[p] = "dial"
  /\ own' = [own EXCEPT ![p].client = IF secret = None THEN p ELSE secret]
  /\ pc' = [pc EXCEPT ![p] = IF secret = None THEN "generated" ELSE "scan"]
  /\ UNCHANGED <<stored, session, ok, repair, calls, rest>>

\* Variant: the new client key is used for this session only.
ForgetClientSecret(p) ==
  /\ pc[p] = "generated"
  /\ pc' = [pc EXCEPT ![p] = "scan"]
  /\ UNCHANGED <<stored, session, own, ok, repair, calls, rest>>

StoreClientSecret(p) ==
  /\ pc[p] = "generated"
  /\ secret' = own[p].client
  /\ pc' = [pc EXCEPT ![p] = "scan"]
  /\ UNCHANGED <<pointer, pubkey, handle, session, own, ok, repair, calls, rest>>

\* waitForSignerHandshake ends without an answer that echoes the secret: nobody
\* scans in time, the answer is lost or of the old kind, the relays close.
HandshakeFails(p) ==
  /\ pc[p] = "scan"
  /\ EndPairing(p, FALSE)
  /\ UNCHANGED <<stored, session, calls, rest>>

\* Variant: the pointer names the client instead of the signer.
StoreClientKey(p) ==
  /\ pc[p] = "scan" /\ own[p].scanned # None
  /\ pointer' = own[p].client
  /\ pc' = [pc EXCEPT ![p] = "identity"]
  /\ UNCHANGED <<secret, pubkey, handle, session, own, ok, repair, calls, rest>>

\* The signer's answer arrives: its pointer is stored, then its key asked for.
StorePointer(p) ==
  /\ pc[p] = "scan" /\ own[p].scanned # None
  /\ pointer' = own[p].scanned
  /\ pc' = [pc EXCEPT ![p] = "identity"]
  /\ UNCHANGED <<secret, pubkey, handle, session, own, ok, repair, calls, rest>>

\* The signer refuses, or does not answer within a minute: the pointer stays.
IdentityFails(p) ==
  /\ pc[p] = "identity"
  /\ EndPairing(p, FALSE)
  /\ broken' = TRUE
  /\ UNCHANGED <<stored, session, calls, lens, refresh, author>>

\* The name in the profile of an account, when a relay has one in time.  The
\* account stands for its name.
FetchProfileHandle(a) == {a, None}

\* The signer tells its key; the profile is found or not; then the previous
\* identity is read.  Nothing shared is touched before that.
ReadIdentity(p) ==
  /\ pc[p] = "identity" /\ <<own[p].client, own[p].scanned>> \in session
  /\ \E name \in FetchProfileHandle(own[p].scanned) :
       own' = [own EXCEPT ![p].named = (name # None), ![p].same = (pubkey = own[p].scanned)]
  /\ pc' = [pc EXCEPT ![p] = "pubkey"]
  /\ UNCHANGED <<stored, session, ok, repair, calls, rest>>

StorePubkey(p) ==
  /\ pc[p] = "pubkey"
  /\ pubkey' = own[p].scanned
  /\ author' = own[p].by
  /\ pc' = [pc EXCEPT ![p] = "handle"]
  /\ UNCHANGED <<secret, pointer, handle, session, own, ok, repair, calls,
                 lens, refresh, broken>>

\* Variant: a profile that is not found changes nothing.
OnlyNames(p) == IF own[p].named THEN own[p].scanned ELSE handle

\* The handle to store: a name, or nothing in place of another identity's.
HandleToStore(p) ==
  IF own[p].named THEN own[p].scanned ELSE IF own[p].same THEN handle ELSE None

StoreHandle(p) ==
  /\ pc[p] = "handle"
  /\ handle' = HandleToStore(p)
  /\ EndPairing(p, TRUE)
  /\ broken' = (broken /\ ~(own[p].alone /\ (own[p].named \/ ~own[p].same)))
  /\ UNCHANGED <<secret, pointer, pubkey, session, calls, lens, refresh, author>>

\* Variant: lenses that have an identity are not told of another.
PushLensOnce(p) ==
  /\ pc[p] = "push"
  /\ lens' = IF lens = None THEN pubkey ELSE lens
  /\ pc' = [pc EXCEPT ![p] = "done"]
  /\ UNCHANGED <<stored, session, own, ok, repair, calls, refresh, author, broken>>

\* The command tells the code lenses what is stored, however the pairing went.
PushLens(p) ==
  /\ pc[p] = "push"
  /\ lens' = pubkey
  /\ pc' = [pc EXCEPT ![p] = "done"]
  /\ UNCHANGED <<stored, session, own, ok, repair, calls, refresh, author, broken>>

PairingStep(p) ==
  \/ DialFails(p) \/ LoadClientSecret(p) \/ StoreClientSecret(p)
  \/ HandshakeFails(p) \/ StorePointer(p)
  \/ IdentityFails(p) \/ ReadIdentity(p)
  \/ StorePubkey(p) \/ StoreHandle(p) \/ PushLens(p)

-----------------------------------------------------------------------------
(* Calls that need the signer: withRecovery and withStoredSigner. *)

\* withStoredSigner reads the client key and the pointer; a pairing stores them
\* in this order, so that nothing is lost by reading them together.
Attempt(r) ==
  IF secret # None /\ pointer # None
    THEN /\ used' = [used EXCEPT ![r] = <<secret, pointer>>]
         /\ at' = [at EXCEPT ![r] = "waiting"]
    ELSE /\ used' = [used EXCEPT ![r] = <<None, None>>]
         /\ at' = [at EXCEPT ![r] = "unpaired"]

Call(r) ==
  /\ r \in First({q \in Request : at[q] = "idle"})
  /\ Attempt(r)
  /\ UNCHANGED <<stored, session, pairings, tries, joined, rest>>

\* Variant: every call opens a panel of its own.
OwnRepair(r) ==
  \E p \in First(Idle) :
    /\ StartPairing(p, "repair")
    /\ repair' = p
    /\ joined' = [joined EXCEPT ![r] = p]

\* reauth: calls that fail meanwhile wait for one re-pairing.
Reauth(r) ==
  \/ /\ repair # None
     /\ joined' = [joined EXCEPT ![r] = repair]
     /\ UNCHANGED <<pc, own, repair, broken>>
  \/ /\ repair = None
     /\ \E p \in First(Idle) :
          /\ StartPairing(p, "repair")
          /\ repair' = p
          /\ joined' = [joined EXCEPT ![r] = p]

Ends(r) ==
  /\ at' = [at EXCEPT ![r] = "over"]
  /\ used' = [used EXCEPT ![r] = <<None, None>>]
  /\ joined' = [joined EXCEPT ![r] = None]
  /\ tries' = [tries EXCEPT ![r] = 1]
  /\ UNCHANGED <<pc, own, repair, broken>>

\* Nothing is stored, or no answer came: the first time a re-pairing is tried
\* (with the bound on Pairing reached, its panel finds no relay), the second
\* time the call ends.  No caller turns interactiveReauth off.
Recover(r) ==
  /\ \/ /\ tries[r] = 1 /\ Reauth(r)
        /\ at' = [at EXCEPT ![r] = "repair"]
        /\ used' = [used EXCEPT ![r] = <<None, None>>]
        /\ UNCHANGED tries
     \/ /\ tries[r] = 1 /\ repair = None /\ Idle = {} /\ Ends(r)
     \/ /\ tries[r] = 2 /\ Ends(r)
  /\ UNCHANGED <<stored, session, ok, lens, refresh, author>>

NotPaired(r) ==
  /\ at[r] = "unpaired"
  /\ Recover(r)

\* Variant: only the first request has a time limit.
TimeoutOnce(r) ==
  /\ at[r] = "waiting" /\ tries[r] = 1
  /\ Recover(r)

\* SIGNER_WRITE_TIMEOUT_MS have passed.
SignerTimeout(r) ==
  /\ at[r] = "waiting"
  /\ Recover(r)

\* The signer answers calls of a client it has a session with, or refuses them.
SignerAnswers(r) ==
  /\ at[r] = "waiting" /\ used[r] \in session
  /\ Ends(r)
  /\ UNCHANGED <<stored, session, ok, lens, refresh, author>>

\* The user cancels from the progress notice.
Cancel(r) ==
  /\ at[r] = "waiting"
  /\ Ends(r)
  /\ UNCHANGED <<stored, session, ok, lens, refresh, author>>

\* The re-pairing waited for has ended: repeat, or pass the first error on.
Resume(r) ==
  /\ at[r] = "repair" /\ joined[r] \notin RunningPairings
  /\ IF ok[joined[r]]
       THEN Attempt(r) /\ tries' = [tries EXCEPT ![r] = 2]
       ELSE at' = [at EXCEPT ![r] = "over"] /\ UNCHANGED <<used, tries>>
  /\ joined' = [joined EXCEPT ![r] = None]
  /\ UNCHANGED <<stored, session, pairings, rest>>

CallStep(r) ==
  NotPaired(r) \/ SignerTimeout(r) \/ Resume(r)

-----------------------------------------------------------------------------
(* The end of refreshNostrHandleIfStale, the signer apps, and reloads. *)

\* The name of the account it started with is stored, if there is one.
RefreshEnds ==
  /\ refresh # None
  /\ \E name \in FetchProfileHandle(refresh) :
       handle' = IF name = None THEN handle ELSE name
  /\ refresh' = None
  /\ UNCHANGED <<secret, pointer, pubkey, session, pairings, calls, lens, author, broken>>

\* One account scans the panel of a pairing.
UserScans(p, a) ==
  /\ pc[p] = "scan" /\ own[p].scanned = None
  /\ own' = [own EXCEPT ![p].scanned = a]
  /\ session' = session \cup {<<own[p].client, a>>}
  /\ UNCHANGED <<stored, pc, ok, repair, calls, rest>>

\* The window is reloaded: panels and calls are gone, the lenses start from
\* what is stored, and the handle is looked for again.
Reload ==
  /\ pc' = [p \in Pairing |-> IF pc[p] = "idle" THEN "idle" ELSE "done"]
  /\ own' = [p \in Pairing |-> Blank]
  /\ at' = [r \in Request |-> IF at[r] \in Busy THEN "over" ELSE at[r]]
  /\ used' = [r \in Request |-> <<None, None>>]
  /\ joined' = [r \in Request |-> None]
  /\ tries' = [r \in Request |-> 1]
  /\ repair' = None /\ refresh' = StaleHandle
  /\ lens' = pubkey /\ author' = "activation"
  /\ broken' = (broken \/ \E p \in Pairing : pc[p] \in {"identity", "pubkey", "handle"})
  /\ ok' = [p \in Pairing |-> FALSE]
  /\ UNCHANGED <<stored, session>>

-----------------------------------------------------------------------------

Next ==
  \/ RefreshEnds \/ Reload
  \/ \E p \in Pairing :
       \/ ConnectNostr(p) \/ AddBountyConnects(p) \/ PairingStep(p)
       \/ \E a \in Account : UserScans(p, a)
  \/ \E r \in Request :
       Call(r) \/ CallStep(r) \/ SignerAnswers(r) \/ Cancel(r)

Spec == Init /\ [][Next]_vars

\* Every await of the code has a time limit; users and signers owe nothing.
FairSpec ==
  /\ Spec
  /\ \A p \in Pairing : WF_vars(PairingStep(p))
  /\ \A r \in Request : WF_vars(CallStep(r))

-----------------------------------------------------------------------------
(* Properties. *)

\* The four secrets that make up an identity are written one at a time
\* (nostr.api.ts 209, 369, 418, 425-427).  When no pairing is at work they fit
\* together: the signer the pointer names holds the stored pubkey, it has
\* known the stored client key, and the handle is no other identity's - unless
\* two writers overlapped or one broke off half-way.
IdentityIsWhole ==
  ~broken /\ RunningPairings = {} =>
    /\ pointer = pubkey
    /\ pointer # None => <<secret, pointer>> \in session
    /\ handle \in {None, pubkey}

\* Calls that fail together share one panel (user-signer.ts 28-29), and none
\* waits for a re-pairing that was over before the call failed: its outcome
\* would say nothing about the session the call is repeated with.
OneRepairForAll ==
  [][/\ \A p, q \in RunningPairings' : own'[p].by = "repair" /\ own'[q].by = "repair" => p = q
     /\ \A r \in Request :
          joined'[r] \notin {joined[r], None} => joined'[r] \in RunningPairings']_vars

\* The lenses show a creator's actions to the identity they were given
\* (extension.ts 111-113).  It is the stored one, except while the command is at
\* work, and after a re-pairing or the pairing of a first bounty stored it: nobody
\* tells them of those.
LensKnowsIdentity ==
  \/ lens = pubkey \/ broken \/ author \in {"repair", "bounty"}
  \/ \E p \in Pairing : own[p].by = "command" \/ pc[p] = "push"

\* No call waits for ever: for a signer that is gone, a panel nobody scans, or
\* a re-pairing another call has opened.
EveryCallEnds ==
  \A r \in Request : []<>(at[r] \notin Busy)
=============================================================================
