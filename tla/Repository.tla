----------------------------- MODULE Repository -----------------------------
(***************************************************************************)
(* What the extension takes from git: the identity that scopes and         *)
(* encrypts bounties (src/git/repo-identity.ts), the trailer that binds a  *)
(* commit to a claim (src/git/claim-trailer.ts and the commands that add   *)
(* it), and the evidence a creator sees before paying                      *)
(* (src/bounty/commands/approve-claim.ts).                                 *)
(*                                                                         *)
(* Git is external: clones of one project, each pushing a branch of its    *)
(* own.  What is pushed stands for one remote or several, so that a fetch  *)
(* may fail with a part of it.  Commits are numbered as they are made;     *)
(* the order of the numbers stands for the order of the object ids.  One   *)
(* bounty is enough, since a trailer names the bounty and the claimant.    *)
(***************************************************************************)
EXTENDS Naturals, Sequences, FiniteSets

CONSTANTS
  Clone,
  Creator,     \* the clone of the bounty's creator
  Claimant,    \* who has claimed the bounty
  Detailed,    \* MAX_DETAILED_COMMITS
  None,
  MaxCommits   \* bound: commits ever made

ASSUME CreatorAssumption == Creator \in Clone
ASSUME DetailedAssumption == Detailed \in Nat \ {0}
ASSUME BoundAssumption == MaxCommits \in Nat
ASSUME NoneAssumption == None \notin Nat \cup Clone

VARIABLES
  commits,    \* [parents, past, tags]: past is the commit and its ancestors,
              \* tags the claimants its trailers name
  head,       \* the commit checked out, None before the first
  tracked,    \* what each clone knows of the branches of all of them
  remote,     \* what each clone has pushed
  shallow,    \* the commit below which a shallow clone is cut off
  lookup,     \* what getRepoIdentity has found: a root, None before
  stage,      \* readRepoIdentity: "none" at work, "asked", and once a commit
              \* is found "full" or "unchecked" (git did not say if shallow)
  cut,        \* the root was read in a shallow clone that went unchecked
  rootsThen,  \* the roots of the history when it was read
  step,       \* approveClaim: "idle", "ask" (to fetch first?) or "pick"
  evidence,   \* what it shows of each claimant
  since,      \* what has happened to the creator's clone since then
  part        \* bound: a behaviour has lookups, or approvals; the two share
              \* nothing but git, and neither changes what the other reads
              \* in a way that Fetch does not

git == <<commits, head, tracked, remote, shallow>>
identity == <<lookup, stage, cut, rootsThen>>
approval == <<step, evidence, since>>
vars == <<git, identity, approval, part>>

Commit == 1 .. Len(commits)
Evidence == {"in-history", "elsewhere", "absent", "unknown"}
ASSUME EvidenceAssumption == None \notin Evidence

\* HEAD has lost commits; commits have come, or a trailer; the fetch of the
\* approval itself has failed halfway; anything else; git was not able to say
\* whether a commit is in the history.
Event == {"lost", "gained", "halfway", "changed", "unsure"}

TypeOK ==
  /\ commits \in Seq([parents: SUBSET Commit, past: SUBSET Commit, tags: SUBSET Claimant])
  /\ Len(commits) <= MaxCommits
  /\ head \in [Clone -> Commit \cup {None}]
  /\ tracked \in [Clone -> [Clone -> Commit \cup {None}]]
  /\ remote \in [Clone -> Commit \cup {None}]
  /\ shallow \in [Clone -> Commit \cup {None}]
  /\ lookup \in [Clone -> Commit \cup {None}]
  /\ stage \in [Clone -> {"none", "asked", "full", "unchecked"}]
  /\ cut \in [Clone -> BOOLEAN]
  /\ rootsThen \in [Clone -> SUBSET Commit]
  /\ step \in {"idle", "ask", "pick"}
  /\ evidence \in [Claimant -> Evidence \cup {None}]
  /\ since \subseteq Event
  /\ part \in {"lookups", "approvals"}

Init ==
  /\ commits = <<>>
  /\ head = [m \in Clone |-> None]
  /\ tracked = [m \in Clone |-> [n \in Clone |-> None]]
  /\ remote = [m \in Clone |-> None]
  /\ shallow = [m \in Clone |-> None]
  /\ lookup = [m \in Clone |-> None]
  /\ stage = [m \in Clone |-> "none"]
  /\ cut = [m \in Clone |-> FALSE]
  /\ rootsThen = [m \in Clone |-> {}]
  /\ step = "idle"
  /\ evidence = [k \in Claimant |-> None]
  /\ since = {}
  /\ part \in {"lookups", "approvals"}

-----------------------------------------------------------------------------
(* What git knows. *)

Past(c) == IF c = None THEN {} ELSE commits[c].past
Tags(c) == IF c = None THEN {} ELSE commits[c].tags
Parents(c) == IF c = None THEN {} ELSE commits[c].parents

\* A shallow clone is cut off below one commit,
SeenParents(m, c) == IF c = shallow[m] THEN {} ELSE Parents(c)

\* so that git finds there, from a tip, the least set of commits that has the tip
\* and the parents of all in it.
Visible(m, c) ==
  {x \in Past(c) : \A S \in SUBSET Past(c) :
     c \in S /\ (\A d \in S : SeenParents(m, d) \subseteq S) => x \in S}

History(m, tips) == UNION {Visible(m, c) : c \in tips}

Roots(m, S) == {c \in S : SeenParents(m, c) = {}}
TrueRoots(m) == {c \in Past(head[m]) : Parents(c) = {}}
Tips(m, known) == {head[m]} \cup {known[n] : n \in Clone}

\* A new commit becomes the head of a clone.
NewHead(m, parents, tags) ==
  LET n == Len(commits) + 1 IN
    /\ Len(commits) < MaxCommits
    /\ commits' = Append(commits, [parents |-> parents, tags |-> tags,
                                   past |-> (UNION {Past(p) : p \in parents}) \cup {n}])
    /\ head' = [head EXCEPT ![m] = n]
    /\ UNCHANGED <<tracked, remote, shallow>>

\* Notes what makes the evidence the creator is looking at out of date.
Outdates(m, what) ==
  /\ since' = IF m = Creator /\ step # "idle" THEN since \cup what ELSE since
  /\ UNCHANGED <<identity, step, evidence, part>>

-----------------------------------------------------------------------------
(* Users at work in a terminal. *)

MakeCommit(m) == NewHead(m, {head[m]} \ {None}, {}) /\ Outdates(m, {"changed"})

\* Another branch, or none of its commits, is in the history.
Foreign(m, c) == c # None /\ c \notin Past(head[m])

Merge(m, c) ==
  /\ Foreign(m, c) /\ head[m] \notin Past(c) \cup {None}
  /\ NewHead(m, {head[m], c}, {})
  /\ Outdates(m, {"changed"})

\* The trailer survives a squash or a cherry-pick unless it is edited away.
Squash(m, c) ==
  /\ Foreign(m, c) /\ head[m] # None
  /\ \E tags \in {Tags(c), {}} : NewHead(m, {head[m]}, tags)
  /\ Outdates(m, {"changed"})

\* A fast-forward, a reset, another branch.
Move(m, c) ==
  /\ c \notin {None, head[m]}
  /\ head' = [head EXCEPT ![m] = c]
  /\ UNCHANGED <<commits, tracked, remote, shallow>>
  /\ Outdates(m, IF head[m] \in Visible(m, c) \cup {None} THEN {"changed"}
                  ELSE {"changed", "lost"})

Push(m) ==
  /\ head[m] \notin {None, remote[m]}
  /\ remote' = [remote EXCEPT ![m] = head[m]]
  /\ tracked' = [tracked EXCEPT ![m][m] = head[m]]
  /\ UNCHANGED <<commits, head, shallow>>
  /\ Outdates(m, {"changed"})

Fetch(m) ==
  /\ tracked[m] # remote
  /\ tracked' = [tracked EXCEPT ![m] = remote]
  /\ UNCHANGED <<commits, head, remote, shallow>>
  /\ Outdates(m, {"changed", "gained"})

\* git clone --depth 1, and git fetch --unshallow
CloneShallow(m, c) ==
  /\ head[m] = None /\ c # None
  /\ head' = [head EXCEPT ![m] = c]
  /\ shallow' = [shallow EXCEPT ![m] = c]
  /\ UNCHANGED <<commits, tracked, remote>>
  /\ Outdates(m, {"changed", "gained"})

Unshallow(m) ==
  /\ shallow[m] # None
  /\ shallow' = [shallow EXCEPT ![m] = None]
  /\ UNCHANGED <<commits, head, tracked, remote>>
  /\ Outdates(m, {"changed", "gained"})

TerminalStep(m) ==
  \/ MakeCommit(m) \/ Push(m) \/ Fetch(m) \/ Unshallow(m)
  \/ \E n \in Clone : \/ Merge(m, tracked[m][n]) \/ Squash(m, tracked[m][n])
                      \/ Move(m, tracked[m][n]) \/ CloneShallow(m, remote[n])

-----------------------------------------------------------------------------
(* getRepoIdentity. *)

\* Callers share one lookup; one that has succeeded lasts for the session.
Ask(m) ==
  /\ lookup[m] = None /\ stage[m] = "none" /\ part = "lookups"
  /\ stage' = [stage EXCEPT ![m] = "asked"]
  /\ UNCHANGED <<git, lookup, cut, rootsThen, approval, part>>

\* No commit yet, a shallow clone, or git fails: the next caller tries again.
LookupFails(m) ==
  /\ stage[m] # "none"
  /\ stage' = [stage EXCEPT ![m] = "none"]
  /\ UNCHANGED <<git, lookup, cut, rootsThen, approval, part>>

\* Variant: a shallow clone counts as a full one.
ShallowCounts(m) ==
  /\ stage[m] = "asked" /\ head[m] # None
  /\ stage' = [stage EXCEPT ![m] = "full"]
  /\ UNCHANGED <<git, lookup, cut, rootsThen, approval, part>>

\* There is a commit and git says that the clone is full.  If it fails to say, in
\* whatever way, the clone is taken for a full one.
CheckHistory(m) ==
  /\ stage[m] = "asked" /\ head[m] # None
  /\ \/ shallow[m] = None /\ stage' = [stage EXCEPT ![m] = "full"]
     \/ stage' = [stage EXCEPT ![m] = "unchecked"]
  /\ UNCHANGED <<git, lookup, cut, rootsThen, approval, part>>

\* Variant: a history with several roots has no identity.
PickOnlyRoot(roots) == IF Cardinality(roots) > 1 THEN 0 ELSE CHOOSE c \in roots : TRUE

PickRootCommit(roots) == CHOOSE c \in roots : \A d \in roots : c <= d

ReadRoots(m) ==
  /\ stage[m] \in {"full", "unchecked"}
  /\ stage' = [stage EXCEPT ![m] = "none"]
  /\ lookup' = [lookup EXCEPT ![m] = PickRootCommit(Roots(m, History(m, {head[m]})))]
  /\ cut' = [cut EXCEPT ![m] = (stage[m] = "unchecked" /\ shallow[m] # None)]
  /\ rootsThen' = [rootsThen EXCEPT ![m] = TrueRoots(m)]
  /\ UNCHANGED <<git, approval, part>>

-----------------------------------------------------------------------------
(* Trailers and evidence. *)

\* The latest commit is amended, unless it names the claimant already.  (The
\* boundary of a shallow clone is left out: git would cut it off its parents.)
Tag(m, k) ==
  /\ head[m] # None /\ k \notin Tags(head[m])
  /\ head[m] # shallow[m]
  /\ NewHead(m, Parents(head[m]), Tags(head[m]) \cup {k})
  /\ Outdates(m, {"changed", "lost", "gained"})

\* git log --all --grep, with what is known of the branches
Rows(k, known) ==
  {c \in History(Creator, Tips(Creator, known)) : k \in Tags(c)}

\* Only the newest are looked at.
Newest(S) == {c \in S : Cardinality({d \in S : d > c}) < Detailed}

VerifyClaimTrailer(k, known) ==
  IF Rows(k, known) = {} THEN "absent"
  ELSE IF Newest(Rows(k, known)) \cap History(Creator, {head[Creator]}) # {}
    THEN "in-history"
    ELSE "elsewhere"

\* For the claims a window has found.  Git may fail, which is "unknown"; or only
\* the question whether a commit is in the history fails, which is a "no"
\* (isInHistory).
Score(claims, known) ==
  \E failing \in SUBSET claims, unsure \in SUBSET claims :
    /\ evidence' = [k \in Claimant |->
         IF k \notin claims THEN None
         ELSE IF k \in failing THEN "unknown"
         ELSE IF k \in unsure /\ VerifyClaimTrailer(k, known) = "in-history" THEN "elsewhere"
         ELSE VerifyClaimTrailer(k, known)]
    /\ since' = {e \in {"unsure"} : \E k \in unsure : evidence'[k] = "elsewhere"}

\* With several claims and no trace of any, the creator is asked whether to
\* fetch first, if there is a remote.
StartApproval ==
  /\ step = "idle" /\ part = "approvals"
  /\ \E claims \in (SUBSET Claimant) \ {{}} :
       /\ Score(claims, tracked[Creator])
       /\ \/ step' = "pick"
          \/ /\ Cardinality(claims) > 1 /\ \A k \in claims : evidence'[k] = "absent"
             /\ step' = "ask"
  /\ UNCHANGED <<git, identity, part>>

\* Variant: what was found before the fetch is shown.
RefetchOnly ==
  /\ step = "ask"
  /\ tracked' = [tracked EXCEPT ![Creator] = remote]
  /\ step' = "pick" /\ since' = {}
  /\ UNCHANGED <<commits, head, remote, shallow, identity, evidence, part>>

Refetch ==
  /\ step = "ask"
  /\ tracked' = [tracked EXCEPT ![Creator] = remote]
  /\ Score({k \in Claimant : evidence[k] # None}, remote)
  /\ step' = "pick"
  /\ UNCHANGED <<commits, head, remote, shallow, identity, part>>

\* The creator continues without, or the fetch fails, when some branches may have
\* come already: nobody looks again.
PickUnfetched ==
  /\ step = "ask"
  /\ step' = "pick"
  /\ \E got \in SUBSET Clone :
       tracked' = [tracked EXCEPT ![Creator] =
                     [n \in Clone |-> IF n \in got THEN remote[n] ELSE @[n]]]
  /\ since' = IF tracked' = tracked THEN since ELSE since \cup {"halfway"}
  /\ UNCHANGED <<commits, head, remote, shallow, identity, evidence, part>>

\* A claim is chosen, or the question dismissed.
Decide ==
  /\ step # "idle"
  /\ step' = "idle"
  /\ evidence' = [k \in Claimant |-> None]
  /\ since' = {}
  /\ UNCHANGED <<git, identity, part>>

-----------------------------------------------------------------------------

Next ==
  \/ \E m \in Clone :
       \/ TerminalStep(m)
       \/ Ask(m) \/ LookupFails(m) \/ CheckHistory(m) \/ ReadRoots(m)
       \/ \E k \in Claimant : Tag(m, k)
  \/ StartApproval \/ Refetch \/ PickUnfetched \/ Decide

Spec == Init /\ [][Next]_vars

-----------------------------------------------------------------------------
(* Properties. *)

\* "Every clone and every fork shares it" (repo-identity.ts 14-15): windows
\* whose histories have the same roots are in the same scope, whenever each of
\* them looked - as long as no root has come or gone since, by a merge of another
\* project or an amended first commit, and neither took a shallow clone for a
\* full one because git failed to say (171-173).
OneScope ==
  \A m, n \in Clone :
    /\ None \notin {lookup[m], lookup[n]} /\ ~cut[m] /\ ~cut[n]
    /\ TrueRoots(m) = rootsThen[m] /\ TrueRoots(n) = rootsThen[n]
    /\ TrueRoots(m) = TrueRoots(n)
    => lookup[m] = lookup[n]

\* What the creator goes by when choosing whom to pay is true while they
\* choose (claim-trailer.ts 94-109), whatever they and the claimants commit,
\* merge, squash and push meanwhile.  A commit found in the branch stays in it
\* until HEAD loses commits.  One found elsewhere only is in no such place while
\* the creator's clone stays as it is, unless git gave up on a question or there
\* are too many commits to look at.  If none is found, none turns up before the
\* creator fetches, deepens the clone or writes a trailer there, or the fetch of
\* the approval itself fails halfway.
EvidenceHolds ==
  \A k \in Claimant :
    LET rows == Rows(k, tracked[Creator])
        mine == rows \cap History(Creator, {head[Creator]}) IN
      /\ evidence[k] = "in-history" /\ "lost" \notin since => mine # {}
      /\ evidence[k] = "elsewhere" /\ {"changed", "unsure"} \cap since = {} =>
           rows # {} /\ (mine = {} \/ Cardinality(rows) > Detailed)
      /\ evidence[k] = "absent" /\ {"gained", "halfway"} \cap since = {} => rows = {}
=============================================================================
