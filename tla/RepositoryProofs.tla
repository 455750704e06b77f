-------------------------- MODULE RepositoryProofs --------------------------
(***************************************************************************)
(* What holds of the identity of a repository and of the evidence for a    *)
(* claim, for every number of clones, claimants and commits, wherever the  *)
(* users commit, merge, push and fetch meanwhile:                          *)
(*                                                                         *)
(*   TypesHold       types                                                 *)
(*   ScopesAgree     OneScope, where git said whether a clone is shallow   *)
(*   EvidenceIsTrue  EvidenceHolds, with its exceptions                    *)
(*                                                                         *)
(* That a root can be picked at all, and that a branch that moves on keeps *)
(* what it had, rests on how histories are made (HistoryInv): a commit's   *)
(* past contains the past of whatever is in it, and nothing newer.  What a *)
(* shallow clone is cut off from may hide part of it: VisibleWhole says    *)
(* that a full clone sees all of it, NewHeadSees that a new head sees what *)
(* its parents saw.                                                        *)
(***************************************************************************)
EXTENDS Repository, FiniteSetTheorems, SequenceTheorems, WellFoundedInduction, TLAPS

\* One commit of a history of n.
Recorded(n) == [parents : SUBSET (1..n), past : SUBSET (1..n), tags : SUBSET Claimant]

\* TypeOK in parts: git,
GitTypes ==
  /\ commits \in Seq(Recorded(Len(commits))) /\ Len(commits) <= MaxCommits
  /\ head \in [Clone -> Commit \cup {None}]
  /\ tracked \in [Clone -> [Clone -> Commit \cup {None}]]
  /\ remote \in [Clone -> Commit \cup {None}]
  /\ shallow \in [Clone -> Commit \cup {None}]

\* the lookups,
IdentityTypes ==
  /\ lookup \in [Clone -> Commit \cup {None}]
  /\ stage \in [Clone -> {"none", "asked", "full", "unchecked"}]
  /\ cut \in [Clone -> BOOLEAN]
  /\ rootsThen \in [Clone -> SUBSET Commit]

\* and the approval.
ApprovalTypes ==
  /\ step \in {"idle", "ask", "pick"}
  /\ evidence \in [Claimant -> Evidence \cup {None}]
  /\ since \subseteq Event
  /\ part \in {"lookups", "approvals"}

\* A commit's parents are older; its past has it and its parents, the past of
\* each of them, and nothing else.
HistoryInv ==
  \A c \in Commit :
    /\ c \in commits[c].past
    /\ \A p \in commits[c].parents : p < c /\ p \in commits[c].past
    /\ \A d \in commits[c].past :
         /\ d <= c /\ commits[d].past \subseteq commits[c].past
         /\ d # c => \E e \in commits[c].past : d \in commits[e].parents

\* A lookup that has found a full clone reads one, and has read the first root of
\* the history unless it took a shallow clone for a full one.
LookupInv ==
  \A m \in Clone :
    /\ stage[m] \in {"full", "unchecked"} => head[m] # None
    /\ stage[m] = "full" => shallow[m] = None
    /\ lookup[m] # None /\ ~cut[m] => lookup[m] = PickRootCommit(rootsThen[m])

\* Nothing is shown outside an approval, and whether to fetch is asked only if
\* nothing was found.
ShownInv ==
  /\ step = "idle" => \A k \in Claimant : evidence[k] = None
  /\ step = "ask" => \A k \in Claimant : evidence[k] \in {"absent", None}

\* The inductive invariant.
Inv ==
  GitTypes /\ IdentityTypes /\ ApprovalTypes /\ HistoryInv /\ LookupInv /\ ShownInv
    /\ EvidenceHolds

-----------------------------------------------------------------------------

\* The parts make up TypeOK.
LEMMA TypesAre == TypeOK <=> GitTypes /\ IdentityTypes /\ ApprovalTypes
BY DEF TypeOK, GitTypes, IdentityTypes, ApprovalTypes, Recorded, Commit

\* A commit is a number, and what is recorded of it is about commits.
LEMMA CommitIs ==
  ASSUME GitTypes
  PROVE  /\ Len(commits) \in Nat /\ Commit \subseteq Nat \ {0}
         /\ None \notin Commit
         /\ \A c \in Commit : /\ commits[c].parents \subseteq Commit
                              /\ commits[c].past \subseteq Commit
                              /\ commits[c].tags \subseteq Claimant
<1>1. commits \in Seq(Recorded(Len(commits)))
  BY DEF GitTypes
<1>2. Len(commits) \in Nat
  BY <1>1, LenProperties
<1>3. \A c \in Commit : commits[c] \in Recorded(Len(commits))
  BY <1>1, ElementOfSeq DEF Commit
<1> QED
  BY <1>2, <1>3, NoneAssumption DEF Commit, Recorded

\* What git says of a commit or of none.
LEMMA Known ==
  ASSUME GitTypes, NEW c \in Commit \cup {None}
  PROVE  /\ Past(c) \subseteq Commit /\ Parents(c) \subseteq Commit /\ Tags(c) \subseteq Claimant
         /\ c # None => Past(c) = commits[c].past /\ Parents(c) = commits[c].parents
                        /\ Tags(c) = commits[c].tags
BY CommitIs DEF Past, Parents, Tags

\* A set of numbers has a least one.
LEMMA Least ==
  ASSUME NEW S, S \subseteq Nat, S # {}
  PROVE  \E r \in S : \A d \in S : r <= d
<1> DEFINE R == {ss \in Nat \X Nat : ss[1] < ss[2]}
<1>1. IsWellFoundedOn(R, Nat)
  BY NatLessThanWellFounded DEF OpToRel
<1> HIDE DEF R
<1>2. PICK r \in S : \A d \in S : <<d, r>> \notin R
  BY <1>1, WFMin
<1>3. \A d \in S : ~(d < r)
  BY <1>2 DEF R
<1> QED
  BY <1>2, <1>3

\* What git finds from a commit has it, is within its past and has the parents it
\* shows of all that is in it; and it is the least such set.
VisibleFacts ==
  \A m \in Clone, c \in Commit :
    /\ c \in Visible(m, c) /\ Visible(m, c) \subseteq Past(c) /\ Past(c) \subseteq Commit
    /\ \A x \in Visible(m, c) : SeenParents(m, x) \subseteq Visible(m, c)
    /\ \A S : c \in S /\ (\A d \in S \cap Commit : SeenParents(m, d) \subseteq S)
                => Visible(m, c) \subseteq S

LEMMA VisibleIs == GitTypes /\ HistoryInv => VisibleFacts
<1> SUFFICES ASSUME GitTypes, HistoryInv, NEW m \in Clone, NEW c \in Commit
             PROVE  /\ c \in Visible(m, c) /\ Visible(m, c) \subseteq Past(c)
                    /\ Past(c) \subseteq Commit
                    /\ \A x \in Visible(m, c) : SeenParents(m, x) \subseteq Visible(m, c)
                    /\ \A S : c \in S /\ (\A d \in S \cap Commit : SeenParents(m, d) \subseteq S)
                                => Visible(m, c) \subseteq S
  BY DEF VisibleFacts
<1>1. Past(c) \subseteq Commit /\ Past(c) = commits[c].past /\ c \in Past(c)
  BY Known, CommitIs DEF HistoryInv
<1>2. ASSUME NEW d \in Past(c) PROVE SeenParents(m, d) \subseteq Past(c)
  <2>1. d \in Commit /\ Parents(d) = commits[d].parents /\ commits[d].past \subseteq Past(c)
    BY <1>1, Known, CommitIs DEF HistoryInv
  <2>2. commits[d].parents \subseteq commits[d].past
    BY <2>1 DEF HistoryInv
  <2> QED
    BY <2>1, <2>2 DEF SeenParents
<1>3. Visible(m, c) \subseteq Past(c)
  BY DEF Visible
<1>4. c \in Visible(m, c)
  BY <1>1 DEF Visible
<1>5. ASSUME NEW x \in Visible(m, c), NEW y \in SeenParents(m, x)
      PROVE  y \in Visible(m, c)
  <2>1. x \in Past(c) /\ y \in Past(c)
    BY <1>2, <1>3, <1>5
  <2>2. ASSUME NEW S \in SUBSET Past(c), c \in S, \A d \in S : SeenParents(m, d) \subseteq S
        PROVE  y \in S
    <3>1. x \in S
      BY <1>5, <2>2 DEF Visible
    <3> QED
      BY <1>5, <2>2, <3>1
  <2> QED
    BY <2>1, <2>2 DEF Visible
<1>6. ASSUME NEW S, c \in S, \A d \in S \cap Commit : SeenParents(m, d) \subseteq S
      PROVE  Visible(m, c) \subseteq S
  <2> DEFINE T == S \cap Past(c)
  <2>1. T \in SUBSET Past(c) /\ c \in T
    BY <1>1, <1>6
  <2>2. \A d \in T : SeenParents(m, d) \subseteq T
    BY <1>1, <1>2, <1>6
  <2>3. Visible(m, c) \subseteq T
    <3> HIDE DEF T
    <3> QED
      BY <2>1, <2>2 DEF Visible
  <2> QED
    BY <2>3
<1> QED
  BY <1>1, <1>3, <1>4, <1>5, <1>6

\* The same of the next state.
LEMMA VisibleIsNext == GitTypes' /\ HistoryInv' => VisibleFacts'
BY VisibleIs, PTL

\* What git finds from a commit it can see, it finds from where it saw it.
Nests ==
  \A m \in Clone, c \in Commit :
    \A d \in Visible(m, c) : Visible(m, d) \subseteq Visible(m, c)

LEMMA VisibleNests == VisibleFacts => Nests
<1> SUFFICES ASSUME VisibleFacts, NEW m \in Clone, NEW c \in Commit, NEW d \in Visible(m, c)
             PROVE  Visible(m, d) \subseteq Visible(m, c)
  BY DEF Nests
<1>1. PICK V : V = Visible(m, c)
  OBVIOUS
<1>2. d \in Commit /\ d \in V /\ \A x \in V : SeenParents(m, x) \subseteq V
  BY <1>1 DEF VisibleFacts
<1>3. \A S : d \in S /\ (\A x \in S \cap Commit : SeenParents(m, x) \subseteq S)
               => Visible(m, d) \subseteq S
  BY <1>2 DEF VisibleFacts
<1> QED
  BY <1>1, <1>2, <1>3

\* The same of the next state.
LEMMA VisibleNestsNext == VisibleFacts' => Nests'
BY VisibleNests, PTL

\* In a full clone git finds all of a commit's past: if it did not, the newest
\* commit it missed would be the parent of one it found.
LEMMA VisibleWhole ==
  ASSUME GitTypes, HistoryInv, NEW m \in Clone, NEW c \in Commit, shallow[m] = None
  PROVE  Visible(m, c) = Past(c)
<1> DEFINE missing == Past(c) \ Visible(m, c)
           n == Len(commits)
<1>1. /\ VisibleFacts /\ Past(c) = commits[c].past /\ Past(c) \subseteq Commit
      /\ Visible(m, c) \subseteq Past(c) /\ c \in Visible(m, c)
  BY VisibleIs, Known, CommitIs DEF VisibleFacts
<1>2. Commit = 1..n /\ n \in Nat
  BY CommitIs DEF Commit
<1>3. SUFFICES ASSUME missing # {} PROVE FALSE
  BY <1>1
<1>4. PICK x \in missing : \A y \in missing : y <= x
  <2> DEFINE Ages == {n - y : y \in missing}
  <2>1. Ages \subseteq Nat /\ Ages # {}
    BY <1>1, <1>2, <1>3
  <2> HIDE DEF Ages
  <2>2. PICK a \in Ages : \A b \in Ages : a <= b
    BY <2>1, Least
  <2> USE DEF Ages
  <2>3. PICK x \in missing : a = n - x
    BY <2>2
  <2>4. ASSUME NEW y \in missing PROVE y <= x
    <3>1. a <= n - y
      BY <2>2
    <3>2. x \in Nat /\ y \in Nat
      BY <1>1, <1>2
    <3> QED
      BY <1>2, <2>3, <3>1, <3>2
  <2> QED
    BY <2>3, <2>4
<1>5. x # c /\ x \in commits[c].past
  BY <1>1
<1>6. PICK e \in commits[c].past : x \in commits[e].parents
  BY <1>5 DEF HistoryInv
<1>7. e \in Commit /\ x < e /\ e \in Nat /\ x \in Nat
  BY <1>1, <1>2, <1>6 DEF HistoryInv
<1>8. e \in Visible(m, c)
  BY <1>1, <1>4, <1>6, <1>7
<1>9. x \in SeenParents(m, e)
  BY <1>6, <1>7, CommitIs, Known DEF SeenParents
<1> QED
  BY <1>1, <1>8, <1>9 DEF VisibleFacts

\* There is a root in what git finds, and the first one is a commit.
LEMMA RootIs ==
  ASSUME GitTypes, HistoryInv, NEW m \in Clone, NEW h \in Commit
  PROVE  PickRootCommit(Roots(m, Visible(m, h))) \in Commit
<1> DEFINE V == Visible(m, h)
<1>1. /\ V \subseteq Commit /\ h \in V /\ Commit \subseteq Nat
      /\ \A x \in V : SeenParents(m, x) \subseteq V
  BY VisibleIs, CommitIs DEF VisibleFacts
<1> HIDE DEF V
<1>2. PICK r \in V : \A d \in V : r <= d
  <2>1. V \subseteq Nat /\ V # {}
    BY <1>1
  <2> QED
    BY <2>1, Least
<1>3. SeenParents(m, r) = {}
  <2>1. r \in Commit /\ r \in Nat
    BY <1>1
  <2>2. \A p \in Parents(r) : p < r
    BY <2>1, Known, CommitIs DEF HistoryInv
  <2>3. \A p \in SeenParents(m, r) : p < r /\ p \in V
    BY <1>1, <2>2 DEF SeenParents
  <2>4. \A p \in SeenParents(m, r) : p \in Nat /\ r <= p
    BY <1>1, <1>2, <2>3
  <2> QED
    BY <2>1, <2>3, <2>4
<1>4. r \in Roots(m, V) /\ \A d \in Roots(m, V) : r <= d
  BY <1>2, <1>3 DEF Roots
<1>5. PickRootCommit(Roots(m, V)) \in Roots(m, V)
  BY <1>4 DEF PickRootCommit
<1>6. PickRootCommit(Roots(m, V)) \in Commit
  BY <1>1, <1>5 DEF Roots
<1> QED
  BY <1>6 DEF V

-----------------------------------------------------------------------------

\* No commit is lost or changed.
Keeps == Commit \subseteq Commit' /\ \A c \in Commit : commits'[c] = commits[c]

\* What git says of the commits there were is what it says of them afterwards.
LEMMA PastKept ==
  ASSUME GitTypes, Keeps, NEW c \in Commit \cup {None}
  PROVE  Past(c)' = Past(c) /\ Tags(c)' = Tags(c) /\ Parents(c)' = Parents(c)
BY CommitIs DEF Keeps, Past, Tags, Parents

\* The record of a new commit, and what it does to the rest of git.
LEMMA NewHeadIs ==
  ASSUME GitTypes, HistoryInv, NEW m \in Clone, NEW parents \in SUBSET Commit,
         NEW tags \in SUBSET Claimant, NewHead(m, parents, tags)
  PROVE  /\ GitTypes' /\ HistoryInv' /\ Keeps
         /\ head' = [head EXCEPT ![m] = Len(commits) + 1]
         /\ Len(commits) + 1 \in Commit' /\ Len(commits) + 1 \notin Commit
         /\ commits'[Len(commits) + 1].parents = parents
         /\ commits'[Len(commits) + 1].tags = tags
         /\ UNCHANGED <<tracked, remote, shallow>>
<1> DEFINE n == Len(commits) + 1
           past == (UNION {Past(p) : p \in parents}) \cup {n}
           r == [parents |-> parents, tags |-> tags, past |-> past]
<1>1. /\ commits' = Append(commits, r) /\ Len(commits) < MaxCommits
      /\ head' = [head EXCEPT ![m] = n] /\ UNCHANGED <<tracked, remote, shallow>>
  BY DEF NewHead
<1>2. /\ Len(commits) \in Nat /\ Commit = 1..Len(commits) /\ n \in Nat
      /\ commits \in Seq(Recorded(Len(commits)))
  BY CommitIs DEF Commit, GitTypes
<1>3. \A p \in parents : Past(p) = commits[p].past /\ Past(p) \subseteq Commit /\ p \in Past(p)
                         /\ \A d \in Past(p) :
                              /\ commits[d].past \subseteq Past(p)
                              /\ d # p => \E e \in Past(p) : d \in commits[e].parents
  BY Known, CommitIs DEF HistoryInv
<1>0. \A x : x \in past <=> x = n \/ \E p \in parents : x \in Past(p)
  <2> DEFINE older == UNION {Past(p) : p \in parents}
  <2>1. \A x : x \in older <=> \E p \in parents : x \in Past(p)
    BY ONLY Zenon
  <2>2. past = older \cup {n}
    OBVIOUS
  <2> HIDE DEF older, past, n
  <2> QED
    BY <2>1, <2>2
<1>4. past \subseteq 1..n /\ parents \subseteq 1..n
  <2> HIDE DEF past
  <2>1. \A p \in parents : Past(p) \subseteq 1..n
    BY <1>2, <1>3
  <2>2. n \in 1..n /\ parents \subseteq 1..n
    BY <1>2
  <2> QED
    BY <1>0, <2>1, <2>2
<1>5. r \in Recorded(n)
  BY <1>4 DEF Recorded
<1>6. Recorded(Len(commits)) \subseteq Recorded(n)
  BY <1>2 DEF Recorded
<1>7. commits \in Seq(Recorded(n))
  BY <1>2, <1>6, SeqMonotonic
<1>8. r.past = past /\ r.parents = parents /\ r.tags = tags
  OBVIOUS
<1> HIDE DEF past, r
<1>9. /\ commits' \in Seq(Recorded(n)) /\ Len(commits') = n /\ commits'[n] = r
      /\ \A c \in 1..Len(commits) : commits'[c] = commits[c]
  BY <1>1, <1>5, <1>7, AppendProperties
<1>10. Commit' = 1..n /\ Commit \subseteq Commit' /\ n \in Commit' /\ n \notin Commit
  BY <1>2, <1>9 DEF Commit
<1>11. Keeps
  BY <1>2, <1>9, <1>10 DEF Keeps
<1>12. GitTypes'
  <2>1. Len(commits') <= MaxCommits
    BY <1>1, <1>2, <1>9, BoundAssumption
  <2>2. /\ head \in [Clone -> Commit \cup {None}] /\ remote \in [Clone -> Commit \cup {None}]
        /\ tracked \in [Clone -> [Clone -> Commit \cup {None}]]
        /\ shallow \in [Clone -> Commit \cup {None}]
    BY DEF GitTypes
  <2>3. head' \in [Clone -> Commit' \cup {None}]
    BY <1>1, <1>10, <2>2
  <2>4. /\ remote' \in [Clone -> Commit' \cup {None}]
        /\ shallow' \in [Clone -> Commit' \cup {None}]
    BY <1>1, <1>10, <2>2
  <2>5. tracked' \in [Clone -> [Clone -> Commit' \cup {None}]]
    <3>1. [Clone -> Commit \cup {None}] \subseteq [Clone -> Commit' \cup {None}]
      BY <1>10
    <3> QED
      BY <1>1, <2>2, <3>1
  <2>6. commits' \in Seq(Recorded(Len(commits')))
    BY <1>9
  <2> QED
    BY <2>1, <2>3, <2>4, <2>5, <2>6 DEF GitTypes
<1>13. commits'[n].past = past /\ commits'[n].parents = parents /\ commits'[n].tags = tags
  BY <1>8, <1>9
<1>14. ASSUME NEW c \in Commit'
       PROVE  /\ c \in commits'[c].past
              /\ \A p \in commits'[c].parents : p < c /\ p \in commits'[c].past
              /\ \A d \in commits'[c].past :
                   /\ d <= c /\ commits'[d].past \subseteq commits'[c].past
                   /\ d # c => \E e \in commits'[c].past : d \in commits'[e].parents
  <2>1. CASE c \in Commit
    <3>1. commits'[c] = commits[c] /\ commits[c].past \subseteq Commit
      BY <2>1, <1>11, CommitIs DEF Keeps
    <3>2. \A d \in commits[c].past : commits'[d] = commits[d]
      BY <3>1, <1>11 DEF Keeps
    <3> QED
      BY <2>1, <3>1, <3>2 DEF HistoryInv
  <2>2. CASE c = n
    <3>1. n \in past /\ \A p \in parents : p < n /\ p \in past
      BY <1>0, <1>2, <1>3
    <3>2. ASSUME NEW d \in past
          PROVE  /\ d <= n /\ commits'[d].past \subseteq past
                 /\ d # n => \E e \in past : d \in commits'[e].parents
      <4>1. CASE d = n
        BY <4>1, <1>2, <1>13
      <4>2. CASE d # n
        <5>1. PICK p \in parents : d \in Past(p)
          BY <3>2, <4>2, <1>0
        <5>2. d \in Commit /\ commits[d].past \subseteq Past(p)
          BY <5>1, <1>3
        <5>3. commits'[d] = commits[d] /\ d <= n
          BY <5>2, <1>2, <1>11 DEF Keeps
        <5>4. Past(p) \subseteq past
          BY <5>1, <1>0
        <5>5. CASE d = p
          <6>1. n \in past /\ d \in commits'[n].parents
            BY <3>1, <5>5, <1>13
          <6> QED
            BY <5>2, <5>3, <5>4, <6>1
        <5>6. CASE d # p
          <6>1. PICK e \in Past(p) : d \in commits[e].parents
            BY <5>1, <5>6, <1>3
          <6>2. e \in Commit
            BY <6>1, <1>3
          <6>3. e \in past /\ commits'[e] = commits[e]
            BY <6>1, <6>2, <5>4, <1>11 DEF Keeps
          <6> QED
            BY <5>2, <5>3, <5>4, <6>1, <6>3
        <5> QED
          BY <5>5, <5>6
      <4> QED
        BY <4>1, <4>2
    <3> QED
      BY <2>2, <1>13, <3>1, <3>2
  <2> QED
    BY <2>1, <2>2, <1>2, <1>10
<1>15. HistoryInv'
  BY <1>14 DEF HistoryInv
<1> QED
  BY <1>1, <1>10, <1>11, <1>12, <1>13, <1>15

-----------------------------------------------------------------------------

\* What of git the creator's approval reads of their clone.
SeesTheSame ==
  head'[Creator] = head[Creator] /\ tracked'[Creator] = tracked[Creator]
    /\ shallow'[Creator] = shallow[Creator]

\* The creator's history, and what the branches known to them add to it.
HeadHistory == History(Creator, {head[Creator]})
Seen == History(Creator, Tips(Creator, tracked[Creator]))

\* No claimant is named in what they see who was not named there before.
NothingNew == \A c \in Seen' : \A k \in Tags(c)' : \E d \in Seen : k \in Tags(d)

\* A clone keeps having commits, and a full one with commits stays full.
StaysFull ==
  \A x \in Clone :
    head[x] # None => head'[x] # None /\ (shallow[x] = None => shallow'[x] = None)

\* A step of git in the clone m: types and histories stay, and nobody else's clone
\* changes.
GitStep(m) ==
  GitTypes' /\ HistoryInv' /\ Keeps /\ StaysFull /\ (m # Creator => SeesTheSame)

\* What it notes of the creator's clone: that it has changed, and whether its branch
\* has lost commits or trailers have come.
Noted(what) ==
  /\ "changed" \in what
  /\ "lost" \in what \/ HeadHistory \subseteq HeadHistory'
  /\ "gained" \in what \/ NothingNew

\* What git finds from a commit does not change while the clone is not deepened.
LEMMA VisibleKept ==
  ASSUME GitTypes, Keeps, NEW m \in Clone, shallow'[m] = shallow[m],
         NEW c \in Commit \cup {None}
  PROVE  /\ Visible(m, c)' = Visible(m, c)
         /\ \A d \in Commit : SeenParents(m, d)' = SeenParents(m, d)
<1>1. PICK P : P = Past(c)
  OBVIOUS
<1>2. P \subseteq Commit /\ Past(c)' = P
  BY <1>1, Known, PastKept
<1>3. ASSUME NEW d \in Commit PROVE SeenParents(m, d)' = SeenParents(m, d)
  BY PastKept DEF SeenParents
<1>4. Visible(m, c) = {x \in P : \A S \in SUBSET P :
         c \in S /\ (\A d \in S : SeenParents(m, d) \subseteq S) => x \in S}
  BY <1>1 DEF Visible
<1>5. Visible(m, c)' = {x \in P : \A S \in SUBSET P :
         c \in S /\ (\A d \in S : SeenParents(m, d)' \subseteq S) => x \in S}
  BY <1>2 DEF Visible
<1>6. ASSUME NEW S \in SUBSET P
      PROVE  (\A d \in S : SeenParents(m, d)' \subseteq S)
               <=> (\A d \in S : SeenParents(m, d) \subseteq S)
  BY <1>2, <1>3
<1>7. Visible(m, c)' = Visible(m, c)
  BY <1>4, <1>5, <1>6
<1> QED
  BY <1>3, <1>7

\* What a history of some tips is made of.
LEMMA HistoryIs ==
  ASSUME GitTypes, NEW m \in Clone, NEW tips \in SUBSET (Commit \cup {None})
  PROVE  /\ History(m, tips) \subseteq Commit
         /\ \A x : x \in History(m, tips) <=> \E c \in tips : x \in Visible(m, c)
<1>1. \A x : x \in History(m, tips) <=> \E c \in tips : x \in Visible(m, c)
  BY Zenon DEF History
<1>2. \A c \in tips : Visible(m, c) \subseteq Past(c) /\ Past(c) \subseteq Commit
  BY Known DEF Visible
<1> QED
  BY <1>1, <1>2

\* The tips the creator knows are commits.
LEMMA TipsAre ==
  ASSUME GitTypes, NEW known \in [Clone -> Commit \cup {None}]
  PROVE  /\ Tips(Creator, known) \in SUBSET (Commit \cup {None})
         /\ head[Creator] \in Tips(Creator, known) /\ head[Creator] \in Commit \cup {None}
BY CreatorAssumption DEF GitTypes, Tips

\* What the creator sees of a commit, and of what is in the branch.
LEMMA SeenIs ==
  ASSUME GitTypes
  PROVE  /\ Tips(Creator, tracked[Creator]) \in SUBSET (Commit \cup {None})
         /\ HeadHistory = Visible(Creator, head[Creator]) /\ HeadHistory \subseteq Commit
         /\ Seen \subseteq Commit
         /\ \A x : x \in Seen <=>
              \E c \in Tips(Creator, tracked[Creator]) : x \in Visible(Creator, c)
<1>1. tracked[Creator] \in [Clone -> Commit \cup {None}]
  BY CreatorAssumption DEF GitTypes
<1>2. /\ Tips(Creator, tracked[Creator]) \in SUBSET (Commit \cup {None})
      /\ {head[Creator]} \in SUBSET (Commit \cup {None})
  BY <1>1, TipsAre
<1>3. /\ HeadHistory \subseteq Commit
      /\ \A x : x \in HeadHistory <=> \E c \in {head[Creator]} : x \in Visible(Creator, c)
  BY <1>2, CreatorAssumption, HistoryIs DEF HeadHistory
<1>4. HeadHistory = Visible(Creator, head[Creator])
  BY <1>3
<1>5. /\ Seen \subseteq Commit
      /\ \A x : x \in Seen <=>
           \E c \in Tips(Creator, tracked[Creator]) : x \in Visible(Creator, c)
  BY <1>2, CreatorAssumption, HistoryIs DEF Seen
<1> QED
  BY <1>2, <1>3, <1>4, <1>5

\* The creator's own history is part of what they see.
LEMMA HeadIsSeen ==
  ASSUME GitTypes, NEW known \in [Clone -> Commit \cup {None}]
  PROVE  /\ HeadHistory \subseteq History(Creator, Tips(Creator, known))
         /\ HeadHistory \subseteq Commit
         /\ History(Creator, Tips(Creator, known)) \subseteq Commit
<1>1. /\ Tips(Creator, known) \in SUBSET (Commit \cup {None})
      /\ head[Creator] \in Tips(Creator, known)
  BY TipsAre
<1>2. HeadHistory = Visible(Creator, head[Creator]) /\ HeadHistory \subseteq Commit
  BY SeenIs
<1> QED
  BY <1>1, <1>2, CreatorAssumption, HistoryIs

\* What the creator sees in the next state.
LEMMA SeenIsNext ==
  GitTypes' =>
    /\ HeadHistory' = Visible(Creator, head[Creator])'
    /\ \A x : x \in Seen' <=>
         \E c \in Tips(Creator, tracked[Creator])' : x \in Visible(Creator, c)'
<1> DEFINE Is == /\ HeadHistory = Visible(Creator, head[Creator])
                 /\ \A x : x \in Seen <=>
                      \E c \in Tips(Creator, tracked[Creator]) : x \in Visible(Creator, c)
<1>1. GitTypes => Is
  BY SeenIs
<1> HIDE DEF Is
<1>2. GitTypes' => Is'
  BY <1>1, PTL
<1> USE DEF Is
<1> QED
  BY <1>2

\* What a step in another clone leaves of what the creator sees.
LEMMA SeenKept ==
  ASSUME GitTypes, GitTypes', Keeps, SeesTheSame
  PROVE  /\ HeadHistory' = HeadHistory /\ Seen' = Seen
         /\ \A k : Rows(k, tracked[Creator])' = Rows(k, tracked[Creator])
<1> DEFINE tips == Tips(Creator, tracked[Creator])
<1>1. tips \in SUBSET (Commit \cup {None}) /\ head[Creator] \in Commit \cup {None}
  BY SeenIs, CreatorAssumption DEF GitTypes
<1>2. tips' = tips /\ head'[Creator] = head[Creator]
  BY DEF SeesTheSame, Tips
<1>3. \A c \in Commit \cup {None} : Visible(Creator, c)' = Visible(Creator, c)
  BY CreatorAssumption, VisibleKept DEF SeesTheSame
<1>4. HeadHistory' = HeadHistory
  <2>1. PICK h \in Commit \cup {None} : h = head[Creator]
    BY <1>1
  <2>2. Visible(Creator, head[Creator])' = Visible(Creator, h)'
    BY <1>2, <2>1 DEF Visible, Past
  <2> QED
    BY <1>3, <2>1, <2>2, SeenIs, SeenIsNext
<1> HIDE DEF tips
<1>5. Seen' = Seen
  <2>1. /\ \A x : x \in Seen <=> \E c \in tips : x \in Visible(Creator, c)
        /\ \A x : x \in Seen' <=> \E c \in tips' : x \in Visible(Creator, c)'
    BY SeenIs, SeenIsNext DEF tips
  <2>2. PICK T : T = tips
    OBVIOUS
  <2>3. \A c \in T : Visible(Creator, c)' = Visible(Creator, c)
    BY <1>1, <1>3, <2>2
  <2>4. \A x : x \in Seen' <=> x \in Seen
    BY <1>2, <2>1, <2>2, <2>3
  <2> QED
    BY <2>4
<1>6. ASSUME NEW k
      PROVE  Rows(k, tracked[Creator])' = Rows(k, tracked[Creator])
  <2>1. Rows(k, tracked[Creator]) = {c \in Seen : k \in Tags(c)}
    BY DEF Rows, Seen
  <2>2. Rows(k, tracked[Creator])' = {c \in Seen' : k \in Tags(c)'}
    BY DEF Rows, Seen
  <2>3. \A c \in Seen : Tags(c)' = Tags(c)
    BY SeenIs, PastKept
  <2> QED
    BY <1>5, <2>1, <2>2, <2>3
<1> QED
  BY <1>4, <1>5, <1>6

-----------------------------------------------------------------------------

\* What was found of a claim is in the creator's branch if it is found there.
LEMMA MineIs ==
  ASSUME GitTypes, NEW known \in [Clone -> Commit \cup {None}], NEW k
  PROVE  Rows(k, known) \cap HeadHistory = {c \in HeadHistory : k \in Tags(c)}
BY HeadIsSeen DEF Rows

\* EvidenceHolds, with what the creator sees.
EvidenceInv ==
  \A k \in Claimant :
    LET rows == {c \in Seen : k \in Tags(c)}
        mine == {c \in HeadHistory : k \in Tags(c)} IN
      /\ evidence[k] = "in-history" /\ "lost" \notin since => mine # {}
      /\ evidence[k] = "elsewhere" /\ {"changed", "unsure"} \cap since = {} =>
           rows # {} /\ (mine = {} \/ Cardinality(rows) > Detailed)
      /\ evidence[k] = "absent" /\ {"gained", "halfway"} \cap since = {} => rows = {}

\* It is the same: the creator's own branch is part of what they see.
LEMMA EvidenceIs == GitTypes => (EvidenceHolds <=> EvidenceInv)
<1> SUFFICES ASSUME GitTypes
             PROVE  EvidenceHolds <=> EvidenceInv
  OBVIOUS
<1>1. tracked[Creator] \in [Clone -> Commit \cup {None}]
  BY CreatorAssumption DEF GitTypes
<1>2. \A k : Rows(k, tracked[Creator]) = {c \in Seen : k \in Tags(c)}
  BY DEF Rows, Seen
<1>3. \A k : Rows(k, tracked[Creator]) \cap HeadHistory = {c \in HeadHistory : k \in Tags(c)}
  BY <1>1, MineIs
<1> QED
  BY <1>2, <1>3 DEF EvidenceHolds, EvidenceInv, HeadHistory

\* The same of the next state.
LEMMA EvidenceIsNext == GitTypes' => (EvidenceHolds' <=> EvidenceInv')
BY EvidenceIs, PTL

\* What is shown of the claims survives what the clones do: the creator's own
\* steps are noted.
LEMMA EvidenceKept ==
  ASSUME Inv, NEW m \in Clone, NEW what, GitStep(m), Outdates(m, what),
         m = Creator => Noted(what)
  PROVE  EvidenceHolds'
<1>1. /\ evidence' = evidence /\ step' = step
      /\ since' = IF m = Creator /\ step # "idle" THEN since \cup what ELSE since
  BY DEF Outdates
<1>2. GitTypes /\ GitTypes' /\ Keeps /\ EvidenceInv
  BY EvidenceIs DEF GitStep, Inv
<1>3. CASE step = "idle"
  <2>1. \A k \in Claimant : evidence'[k] = None
    BY <1>1, <1>3 DEF Inv, ShownInv
  <2> QED
    BY <2>1, EvidenceAssumption DEF EvidenceHolds, Evidence
<1>4. CASE m # Creator
  <2>1. /\ HeadHistory' = HeadHistory
        /\ \A k : Rows(k, tracked[Creator])' = Rows(k, tracked[Creator])
    BY <1>2, <1>4, SeenKept DEF GitStep
  <2>2. EvidenceHolds /\ since' = since
    BY <1>1, <1>4 DEF Inv
  <2> QED
    BY <1>1, <2>1, <2>2 DEF EvidenceHolds, HeadHistory
<1>5. CASE m = Creator /\ step # "idle"
  <2>1. since' = since \cup what /\ Noted(what)
    BY <1>1, <1>5
  <2>2. ASSUME NEW k \in Claimant, evidence'[k] = "in-history", "lost" \notin since'
        PROVE  {c \in HeadHistory' : k \in Tags(c)'} # {}
    <3>1. PICK c \in HeadHistory : k \in Tags(c)
      BY <1>1, <1>2, <2>1, <2>2 DEF EvidenceInv
    <3>2. c \in HeadHistory' /\ c \in Commit
      BY <1>2, <2>1, <2>2, SeenIs DEF Noted
    <3>3. Tags(c)' = Tags(c)
      BY <1>2, <3>2, PastKept
    <3> QED
      BY <3>1, <3>2, <3>3
  <2>3. ASSUME NEW k \in Claimant, evidence'[k] = "absent", {"gained", "halfway"} \cap since' = {}
        PROVE  {c \in Seen' : k \in Tags(c)'} = {}
    <3>1. {c \in Seen : k \in Tags(c)} = {}
      BY <1>1, <1>2, <2>1, <2>3 DEF EvidenceInv
    <3>2. NothingNew
      BY <2>1, <2>3 DEF Noted
    <3> QED
      BY <3>1, <3>2 DEF NothingNew
  <2>4. "changed" \in since'
    BY <2>1 DEF Noted
  <2>5. EvidenceInv'
    BY <2>2, <2>3, <2>4 DEF EvidenceInv
  <2> QED
    BY <1>2, <2>5, EvidenceIsNext
<1> QED
  BY <1>3, <1>4, <1>5

-----------------------------------------------------------------------------

\* The lookups and the approval keep their types, and what is known of a lookup,
\* while only git changes.
LEMMA RestKept ==
  ASSUME Inv, NEW m \in Clone, NEW what \in SUBSET Event, GitStep(m), Outdates(m, what),
         EvidenceHolds'
  PROVE  Inv'
<1>1. /\ UNCHANGED <<lookup, stage, cut, rootsThen, step, evidence, part>>
      /\ since' = IF m = Creator /\ step # "idle" THEN since \cup what ELSE since
  BY DEF Outdates, identity
<1>2. /\ lookup \in [Clone -> Commit \cup {None}]
      /\ rootsThen \in [Clone -> SUBSET Commit] /\ Commit \subseteq Commit'
      /\ stage \in [Clone -> {"none", "asked", "full", "unchecked"}]
      /\ cut \in [Clone -> BOOLEAN]
  BY DEF Inv, IdentityTypes, GitStep, Keeps
<1>3. IdentityTypes'
  <2>1. SUBSET Commit \subseteq SUBSET Commit'
    BY <1>2
  <2>2. rootsThen' \in [Clone -> SUBSET Commit'] /\ lookup' \in [Clone -> Commit' \cup {None}]
    BY <1>1, <1>2, <2>1
  <2> QED
    BY <1>1, <1>2, <2>2 DEF IdentityTypes
<1>4. ApprovalTypes'
  BY <1>1 DEF Inv, ApprovalTypes
<1>5. LookupInv'
  <2>1. StaysFull /\ LookupInv
    BY DEF Inv, GitStep
  <2> QED
    BY <1>1, <2>1 DEF LookupInv, StaysFull, PickRootCommit
<1>6. ShownInv'
  BY <1>1 DEF Inv, ShownInv
<1> QED
  BY <1>3, <1>4, <1>5, <1>6 DEF Inv, GitStep

\* A step of git keeps the invariant.
LEMMA GitStepHolds ==
  ASSUME Inv, NEW m \in Clone, NEW what \in SUBSET Event, GitStep(m), Outdates(m, what),
         m = Creator => Noted(what)
  PROVE  Inv'
BY EvidenceKept, RestKept

\* What a new commit adds to what git finds.
LEMMA NewHeadSees ==
  ASSUME GitTypes, HistoryInv, NEW m \in Clone, NEW parents \in SUBSET Commit,
         NEW tags \in SUBSET Claimant, NewHead(m, parents, tags),
         NEW N, N = Len(commits) + 1
  PROVE  /\ \A p \in parents : Visible(m, p) \subseteq Visible(m, N)'
         /\ \A x \in Visible(m, N)' : x = N \/ \E p \in parents : x \in Visible(m, p)
<1> DEFINE S == {N} \cup UNION {Visible(m, p) : p \in parents}
<1>1. /\ GitTypes' /\ HistoryInv' /\ Keeps /\ N \in Commit' /\ N \notin Commit
      /\ commits'[N].parents = parents /\ UNCHANGED <<tracked, remote, shallow>>
  BY NewHeadIs
<1>2. VisibleFacts /\ VisibleFacts' /\ Nests'
  BY <1>1, VisibleIs, VisibleIsNext, VisibleNestsNext
<1>4. N # None /\ N # shallow'[m]
  <2>1. shallow[m] \in Commit \cup {None} /\ N # None
    BY CommitIs, NoneAssumption DEF GitTypes
  <2> QED
    BY <1>1, <2>1
<1>5. SeenParents(m, N)' = parents
  BY <1>1, <1>4 DEF SeenParents, Parents
<1>6. ASSUME NEW p \in parents
      PROVE  Visible(m, p) \subseteq Visible(m, N)'
  <2>1. Visible(m, p)' = Visible(m, p)
    BY <1>1, VisibleKept
  <2>2. p \in Visible(m, N)'
    BY <1>1, <1>2, <1>5 DEF VisibleFacts
  <2>3. Visible(m, p)' \subseteq Visible(m, N)'
    BY <1>1, <1>2, <2>2 DEF Nests
  <2> QED
    BY <2>1, <2>3
<1>7. \A x : x \in S <=> x = N \/ \E p \in parents : x \in Visible(m, p)
  BY Zenon
<1>8. \A d \in S \cap Commit' : SeenParents(m, d)' \subseteq S
  <2> SUFFICES ASSUME NEW d \in S \cap Commit', NEW x \in SeenParents(m, d)'
               PROVE  x \in S
    OBVIOUS
  <2>1. CASE d = N
    <3>1. x \in parents
      BY <1>5, <2>1
    <3>2. x \in Visible(m, x)
      BY <1>2, <3>1 DEF VisibleFacts
    <3> QED
      BY <1>7, <3>1, <3>2
  <2>2. CASE d # N
    <3>1. PICK p \in parents : d \in Visible(m, p)
      BY <1>7, <2>2
    <3>2. d \in Commit /\ SeenParents(m, d) \subseteq Visible(m, p)
      BY <1>2, <3>1 DEF VisibleFacts
    <3>3. SeenParents(m, d)' = SeenParents(m, d)
      BY <1>1, <3>2, VisibleKept
    <3> QED
      BY <1>7, <3>1, <3>2, <3>3
  <2> QED
    BY <2>1, <2>2
<1>9. Visible(m, N)' \subseteq S
  <2>1. N \in S
    OBVIOUS
  <2> HIDE DEF S
  <2> QED
    BY <1>1, <1>2, <1>8, <2>1 DEF VisibleFacts
<1> HIDE DEF S
<1> QED
  BY <1>6, <1>7, <1>9

\* A new commit on top of the head, or in its place.
LEMMA NewHeadHolds ==
  ASSUME Inv, NEW m \in Clone, NEW parents \in SUBSET Commit, NEW tags \in SUBSET Claimant,
         NEW what \in SUBSET Event, NewHead(m, parents, tags), Outdates(m, what),
         "changed" \in what,
         "lost" \in what \/ head[m] \in parents \cup {None},
         \/ "gained" \in what
         \/ /\ parents \subseteq Tips(m, tracked[m])
            /\ tags = {} \/ \E c \in Tips(m, tracked[m]) : tags \subseteq Tags(c)
  PROVE  Inv'
<1>1. GitTypes /\ HistoryInv
  BY DEF Inv
<1>2. PICK n : n = Len(commits) + 1
  OBVIOUS
<1>3. /\ GitTypes' /\ HistoryInv' /\ Keeps /\ head' = [head EXCEPT ![m] = n]
      /\ n \in Commit' /\ n \notin Commit
      /\ commits'[n].tags = tags
      /\ UNCHANGED <<tracked, remote, shallow>>
  BY <1>1, <1>2, NewHeadIs
<1>4. /\ \A p \in parents : Visible(m, p) \subseteq Visible(m, n)'
      /\ \A x \in Visible(m, n)' : x = n \/ \E p \in parents : x \in Visible(m, p)
  BY <1>1, <1>2, NewHeadSees
<1>5. /\ head \in [Clone -> Commit \cup {None}] /\ n # None
      /\ shallow \in [Clone -> Commit \cup {None}]
  <2>1. n \in Nat
    BY <1>1, <1>2, CommitIs
  <2> QED
    BY <1>1, <2>1, NoneAssumption DEF GitTypes
<1>6. GitStep(m)
  BY <1>3, <1>5, CreatorAssumption DEF GitStep, SeesTheSame, StaysFull
<1>7. ASSUME m = Creator
      PROVE  Noted(what)
  <2>1. /\ head'[Creator] = n /\ Past(None) = {}
        /\ \A c \in Commit \cup {None} : Visible(Creator, c)' = Visible(Creator, c)
    BY <1>1, <1>3, <1>5, <1>7, VisibleKept DEF Past
  <2>2. ASSUME "lost" \notin what
        PROVE  HeadHistory \subseteq HeadHistory'
    <3>1. HeadHistory = Visible(Creator, head[Creator])
      BY <1>1, SeenIs
    <3>2. HeadHistory' = Visible(Creator, n)'
      BY <1>3, <2>1, SeenIsNext DEF Visible, Past
    <3>3. CASE head[Creator] = None
      BY <2>1, <3>1, <3>3 DEF Visible
    <3>4. CASE head[Creator] \in parents
      BY <1>4, <1>7, <3>1, <3>2, <3>4
    <3> QED
      BY <1>7, <2>2, <3>3, <3>4
  <2>3. ASSUME "gained" \notin what
        PROVE  NothingNew
    <3> DEFINE tips == Tips(Creator, tracked[Creator])
    <3>1. /\ parents \subseteq tips
          /\ tags = {} \/ \E c \in tips : tags \subseteq Tags(c)
      BY <1>7, <2>3
    <3>2. tips' \subseteq tips \cup {n}
      BY <1>3, <2>1 DEF Tips
    <3>3. tips \subseteq Commit \cup {None}
      BY <1>1, SeenIs
    <3>4. /\ \A x : x \in Seen <=> \E c \in tips : x \in Visible(Creator, c)
          /\ \A x : x \in Seen' <=> \E c \in tips' : x \in Visible(Creator, c)'
      BY <1>1, <1>3, SeenIs, SeenIsNext
    <3> HIDE DEF tips
    <3> SUFFICES ASSUME NEW c \in Seen', NEW k \in Tags(c)'
                 PROVE  \E d \in Seen : k \in Tags(d)
      BY DEF NothingNew
    <3>5. CASE c \in Seen
      <4>1. c \in Commit
        BY <1>1, <3>5, SeenIs
      <4>2. Tags(c)' = Tags(c)
        BY <1>1, <1>3, <4>1, PastKept
      <4> QED
        BY <3>5, <4>2
    <3>6. CASE c = n
      <4>1. Tags(c)' = tags
        BY <1>3, <1>5, <3>6 DEF Tags
      <4>2. PICK d \in tips : k \in Tags(d)
        BY <3>1, <4>1
      <4>3. d \in Commit
        BY <3>3, <4>2 DEF Tags
      <4>4. d \in Visible(Creator, d)
        BY <1>1, <4>3, CreatorAssumption, VisibleIs DEF VisibleFacts
      <4> QED
        BY <3>4, <4>2, <4>4
    <3>7. c \in Seen \/ c = n
      <4>1. PICK d \in tips' : c \in Visible(Creator, d)'
        BY <3>4
      <4>2. CASE d = n
        BY <1>4, <1>7, <3>1, <3>4, <4>1, <4>2
      <4>3. CASE d # n
        BY <2>1, <3>2, <3>3, <3>4, <4>1, <4>3
      <4> QED
        BY <4>2, <4>3
    <3> QED
      BY <3>5, <3>6, <3>7
  <2> QED
    BY <2>2, <2>3 DEF Noted
<1> QED
  BY <1>6, <1>7, GitStepHolds

\* A step that makes no commit.
LEMMA RefsHold ==
  ASSUME Inv, NEW m \in Clone, NEW what \in SUBSET Event, UNCHANGED commits,
         Outdates(m, what),
         head' \in [Clone -> Commit \cup {None}], remote' \in [Clone -> Commit \cup {None}],
         tracked' \in [Clone -> [Clone -> Commit \cup {None}]],
         shallow' \in [Clone -> Commit \cup {None}], StaysFull,
         m # Creator => SeesTheSame,
         m = Creator => Noted(what)
  PROVE  Inv'
<1>1. Commit' = Commit
  BY DEF Commit
<1>2. GitTypes' /\ HistoryInv' /\ Keeps
  BY <1>1 DEF Inv, GitTypes, HistoryInv, Keeps
<1>3. GitStep(m)
  BY <1>2 DEF GitStep
<1> QED
  BY <1>3, GitStepHolds

\* What the steps below read of git.
LEMMA RefsAre ==
  ASSUME Inv, NEW m \in Clone
  PROVE  /\ head \in [Clone -> Commit \cup {None}] /\ remote \in [Clone -> Commit \cup {None}]
         /\ tracked \in [Clone -> [Clone -> Commit \cup {None}]]
         /\ shallow \in [Clone -> Commit \cup {None}]
         /\ head[m] \in Commit \cup {None}
         /\ \A n \in Clone : tracked[m][n] \in Commit \cup {None} /\ remote[n] \in Commit \cup {None}
BY DEF Inv, GitTypes

\* Commits stay as they are where none is made.
LEMMA NoCommit ==
  ASSUME Inv, UNCHANGED commits,
         head' \in [Clone -> Commit \cup {None}], remote' \in [Clone -> Commit \cup {None}],
         tracked' \in [Clone -> [Clone -> Commit \cup {None}]],
         shallow' \in [Clone -> Commit \cup {None}]
  PROVE  /\ GitTypes /\ HistoryInv /\ GitTypes' /\ HistoryInv' /\ Keeps /\ Commit' = Commit
         /\ \A c \in Commit \cup {None} : Tags(c)' = Tags(c)
<1>1. Commit' = Commit
  BY DEF Commit
<1>2. GitTypes /\ HistoryInv /\ GitTypes' /\ HistoryInv' /\ Keeps
  BY <1>1 DEF Inv, GitTypes, HistoryInv, Keeps
<1> QED
  BY <1>1, <1>2, PastKept

\* If the creator has the same branches or fewer, no trailer is new to them.
LEMMA FewerTips ==
  ASSUME Inv, UNCHANGED commits,
         head' \in [Clone -> Commit \cup {None}], remote' \in [Clone -> Commit \cup {None}],
         tracked' \in [Clone -> [Clone -> Commit \cup {None}]],
         shallow' \in [Clone -> Commit \cup {None}], shallow'[Creator] = shallow[Creator],
         Tips(Creator, tracked[Creator])' \subseteq Tips(Creator, tracked[Creator])
  PROVE  NothingNew
<1> DEFINE tips == Tips(Creator, tracked[Creator])
<1>1. /\ GitTypes /\ GitTypes' /\ Keeps
      /\ \A c \in Commit \cup {None} : Tags(c)' = Tags(c)
  BY NoCommit
<1>2. /\ \A x : x \in Seen <=> \E c \in tips : x \in Visible(Creator, c)
      /\ \A x : x \in Seen' <=> \E c \in tips' : x \in Visible(Creator, c)'
      /\ tips' \subseteq tips /\ tips \subseteq Commit \cup {None} /\ Seen \subseteq Commit
  BY <1>1, SeenIs, SeenIsNext
<1>3. \A c \in Commit \cup {None} : Visible(Creator, c)' = Visible(Creator, c)
  BY <1>1, CreatorAssumption, VisibleKept
<1> HIDE DEF tips
<1>4. Seen' \subseteq Seen
  BY <1>2, <1>3
<1> QED
  BY <1>1, <1>2, <1>4 DEF NothingNew

\* The creator's branch is as it was, or has moved on to where git finds it in.
LEMMA MovesOn ==
  ASSUME Inv, UNCHANGED commits,
         head' \in [Clone -> Commit \cup {None}], remote' \in [Clone -> Commit \cup {None}],
         tracked' \in [Clone -> [Clone -> Commit \cup {None}]],
         shallow' \in [Clone -> Commit \cup {None}], shallow'[Creator] = shallow[Creator],
         \/ head'[Creator] = head[Creator]
         \/ head[Creator] \in Visible(Creator, head'[Creator]) \cup {None}
  PROVE  HeadHistory \subseteq HeadHistory'
<1>1. GitTypes /\ HistoryInv /\ GitTypes' /\ Keeps /\ Nests
  BY NoCommit, VisibleIs, VisibleNests
<1>2. PICK h : h = head'[Creator]
  OBVIOUS
<1>3. h \in Commit \cup {None} /\ head[Creator] \in Commit \cup {None}
  BY <1>1, <1>2, CreatorAssumption DEF GitTypes
<1>4. HeadHistory' = Visible(Creator, h)'
  BY <1>1, <1>2, SeenIsNext DEF Visible, Past
<1>5. HeadHistory' = Visible(Creator, h) /\ HeadHistory = Visible(Creator, head[Creator])
  BY <1>1, <1>3, <1>4, CreatorAssumption, VisibleKept, SeenIs
<1>6. Visible(Creator, None) = {}
  BY DEF Visible, Past
<1>7. CASE head[Creator] \in Visible(Creator, h)
  BY <1>1, <1>3, <1>5, <1>6, <1>7, CreatorAssumption DEF Nests
<1> QED
  BY <1>2, <1>5, <1>6, <1>7

\* A clone that is deepened shows what it showed.
LEMMA Deepens ==
  ASSUME Inv, UNCHANGED <<commits, head, remote, tracked>>,
         shallow' \in [Clone -> Commit \cup {None}], shallow'[Creator] \in {shallow[Creator], None}
  PROVE  HeadHistory \subseteq HeadHistory'
<1>1. /\ head \in [Clone -> Commit \cup {None}] /\ remote \in [Clone -> Commit \cup {None}]
      /\ tracked \in [Clone -> [Clone -> Commit \cup {None}]]
  BY DEF Inv, GitTypes
<1>2. GitTypes /\ HistoryInv /\ GitTypes' /\ HistoryInv' /\ Keeps /\ Commit' = Commit
  BY <1>1, NoCommit
<1>3. VisibleFacts /\ VisibleFacts'
  BY <1>2, VisibleIs, VisibleIsNext
<1>4. PICK h : h = head[Creator]
  OBVIOUS
<1>5. HeadHistory = Visible(Creator, h) /\ HeadHistory' = Visible(Creator, h)'
  BY <1>2, <1>4, SeenIs, SeenIsNext DEF Visible, Past
<1>6. CASE h = None
  BY <1>5, <1>6 DEF Visible, Past
<1>7. CASE h \in Commit
  <2>1. PICK V : V = Visible(Creator, h)'
    OBVIOUS
  <2>2. h \in V /\ \A x \in V : SeenParents(Creator, x)' \subseteq V
    BY <1>2, <1>3, <1>7, <2>1, CreatorAssumption DEF VisibleFacts
  <2>3. ASSUME NEW d \in Commit
        PROVE  SeenParents(Creator, d) \subseteq SeenParents(Creator, d)'
    <3>1. Parents(d)' = Parents(d) /\ d # None
      BY <1>2, <2>3, PastKept, CommitIs
    <3> QED
      BY <3>1 DEF SeenParents
  <2>4. \A x \in V \cap Commit : SeenParents(Creator, x) \subseteq V
    BY <2>2, <2>3
  <2>5. Visible(Creator, h) \subseteq V
    BY <1>3, <1>7, <2>2, <2>4, CreatorAssumption DEF VisibleFacts
  <2> QED
    BY <1>5, <2>1, <2>5
<1> QED
  BY <1>1, <1>4, <1>6, <1>7, CreatorAssumption

\* Every step a user takes in a terminal.
LEMMA TerminalHolds ==
  ASSUME Inv, NEW m \in Clone, TerminalStep(m)
  PROVE  Inv'
<1>1. /\ head \in [Clone -> Commit \cup {None}] /\ remote \in [Clone -> Commit \cup {None}]
      /\ tracked \in [Clone -> [Clone -> Commit \cup {None}]]
      /\ shallow \in [Clone -> Commit \cup {None}]
      /\ head[m] \in Commit \cup {None}
      /\ \A n \in Clone : tracked[m][n] \in Commit \cup {None} /\ remote[n] \in Commit \cup {None}
  BY RefsAre
<1>2. GitTypes /\ HistoryInv
  BY DEF Inv
<1>3. \A c \in Commit : c \in Past(c)
  BY NoneAssumption, <1>2, CommitIs DEF HistoryInv, Past
<1>4. CASE MakeCommit(m)
  <2>1. /\ {head[m]} \ {None} \in SUBSET Commit /\ {} \in SUBSET Claimant
        /\ {"changed"} \in SUBSET Event
    BY <1>1 DEF Event
  <2>2. {head[m]} \ {None} \subseteq Tips(m, tracked[m])
    BY DEF Tips
  <2> QED
    BY <1>4, <2>1, <2>2, NewHeadHolds DEF MakeCommit
<1>5. ASSUME NEW n \in Clone, Merge(m, tracked[m][n])
      PROVE  Inv'
  <2>1. PICK c \in Commit \cup {None} : c = tracked[m][n]
    BY <1>1
  <2>2. /\ NewHead(m, {head[m], c}, {}) /\ Outdates(m, {"changed"})
        /\ c # None /\ head[m] # None
    BY <1>5, <2>1 DEF Merge, Foreign
  <2>3. {head[m], c} \in SUBSET Commit /\ {} \in SUBSET Claimant /\ {"changed"} \in SUBSET Event
    BY <1>1, <2>2 DEF Event
  <2>4. {head[m], c} \subseteq Tips(m, tracked[m])
    BY <2>1 DEF Tips
  <2> QED
    BY <2>2, <2>3, <2>4, NewHeadHolds
<1>6. ASSUME NEW n \in Clone, Squash(m, tracked[m][n])
      PROVE  Inv'
  <2>1. PICK c \in Commit \cup {None} : c = tracked[m][n]
    BY <1>1
  <2>2. PICK tags \in {Tags(c), {}} : NewHead(m, {head[m]}, tags)
    BY <1>6, <2>1 DEF Squash
  <2>3. Outdates(m, {"changed"}) /\ head[m] # None
    BY <1>6 DEF Squash
  <2>4. {head[m]} \in SUBSET Commit /\ tags \in SUBSET Claimant /\ {"changed"} \in SUBSET Event
    BY <1>1, <1>2, <2>2, <2>3, Known DEF Event
  <2>5. {head[m]} \subseteq Tips(m, tracked[m]) /\ c \in Tips(m, tracked[m])
    BY <2>1 DEF Tips
  <2> QED
    BY <2>2, <2>3, <2>4, <2>5, NewHeadHolds
<1>7. ASSUME NEW n \in Clone, Move(m, tracked[m][n])
      PROVE  Inv'
  <2>1. PICK c \in Commit \cup {None} : c = tracked[m][n]
    BY <1>1
  <2> DEFINE found == head[m] \in Visible(m, c) \cup {None}
  <2>2. PICK what : what = IF found THEN {"changed"} ELSE {"changed", "lost"}
    OBVIOUS
  <2>3. /\ c \in Commit /\ c # None /\ head' = [head EXCEPT ![m] = c]
        /\ UNCHANGED <<commits, tracked, remote, shallow>> /\ Outdates(m, what)
    BY <1>7, <2>1, <2>2 DEF Move
  <2>4. head' \in [Clone -> Commit \cup {None}] /\ head'[m] = c /\ StaysFull
    BY <1>1, <2>3 DEF StaysFull
  <2>5. m # Creator => SeesTheSame
    BY <1>1, <2>3, CreatorAssumption DEF SeesTheSame
  <2>6. what \in SUBSET Event /\ "changed" \in what /\ (found \/ "lost" \in what)
    BY <2>2 DEF Event
  <2>7. ASSUME m = Creator, found PROVE HeadHistory \subseteq HeadHistory'
    BY <1>1, <2>3, <2>4, <2>7, MovesOn
  <2>8. ASSUME m = Creator PROVE NothingNew
    <3>1. Tips(Creator, tracked[Creator])' \subseteq Tips(Creator, tracked[Creator])
      BY <2>1, <2>3, <2>4, <2>8 DEF Tips
    <3> QED
      BY <1>1, <2>3, <2>4, <2>8, <3>1, FewerTips
  <2> HIDE DEF found
  <2>9. m = Creator => Noted(what)
    BY <2>6, <2>7, <2>8 DEF Noted
  <2> QED
    BY <1>1, <2>3, <2>4, <2>5, <2>6, <2>9, RefsHold
<1>8. CASE Push(m)
  <2>1. /\ head[m] # None /\ remote' = [remote EXCEPT ![m] = head[m]]
        /\ tracked' = [tracked EXCEPT ![m][m] = head[m]]
        /\ UNCHANGED <<commits, head, shallow>> /\ Outdates(m, {"changed"})
    BY <1>8 DEF Push
  <2>2. tracked' = [tracked EXCEPT ![m] = [tracked[m] EXCEPT ![m] = head[m]]]
    BY <1>1, <2>1
  <2>3. tracked' \in [Clone -> [Clone -> Commit \cup {None}]]
    BY <1>1, <2>2
  <2>4. remote' \in [Clone -> Commit \cup {None}] /\ StaysFull
    BY <1>1, <2>1 DEF StaysFull
  <2>5. m # Creator => SeesTheSame
    BY <1>1, <2>1, <2>2, CreatorAssumption DEF SeesTheSame
  <2>6. ASSUME m = Creator PROVE Noted({"changed"})
    <3>1. HeadHistory \subseteq HeadHistory'
      BY <1>1, <2>1, <2>3, <2>4, MovesOn
    <3>2. tracked'[Creator] = [tracked[Creator] EXCEPT ![Creator] = head[Creator]]
      BY <1>1, <2>2, <2>6
    <3>3. \A n \in Clone : tracked'[Creator][n] \in {tracked[Creator][n], head[Creator]}
      BY <1>1, <2>6, <3>2
    <3>4. Tips(Creator, tracked[Creator])' \subseteq Tips(Creator, tracked[Creator])
      BY <2>1, <3>3 DEF Tips
    <3>5. NothingNew
      BY <1>1, <2>1, <2>3, <2>4, <3>4, FewerTips
    <3> QED
      BY <3>1, <3>5 DEF Noted
  <2>7. {"changed"} \in SUBSET Event
    BY DEF Event
  <2> QED
    BY <1>1, <2>1, <2>3, <2>4, <2>5, <2>6, <2>7, RefsHold
<1>9. {"changed", "gained"} \in SUBSET Event
  BY DEF Event
<1>10. CASE Fetch(m)
  <2>1. tracked' = [tracked EXCEPT ![m] = remote]
        /\ UNCHANGED <<commits, head, remote, shallow>> /\ Outdates(m, {"changed", "gained"})
    BY <1>10 DEF Fetch
  <2>2. tracked' \in [Clone -> [Clone -> Commit \cup {None}]] /\ StaysFull
    BY <1>1, <2>1 DEF StaysFull
  <2>3. m # Creator => SeesTheSame
    BY <1>1, <2>1, CreatorAssumption DEF SeesTheSame
  <2>4. Noted({"changed", "gained"})
    BY <1>1, <2>1, <2>2, MovesOn DEF Noted
  <2> QED
    BY <1>1, <1>9, <2>1, <2>2, <2>3, <2>4, RefsHold
<1>11. CASE Unshallow(m)
  <2>1. shallow' = [shallow EXCEPT ![m] = None]
        /\ UNCHANGED <<commits, head, tracked, remote>> /\ Outdates(m, {"changed", "gained"})
    BY <1>11 DEF Unshallow
  <2>2. shallow' \in [Clone -> Commit \cup {None}] /\ shallow'[Creator] \in {shallow[Creator], None}
    BY <1>1, <2>1, CreatorAssumption
  <2>3. StaysFull
    BY <1>1, <2>1 DEF StaysFull
  <2>4. m # Creator => SeesTheSame
    BY <1>1, <2>1, CreatorAssumption DEF SeesTheSame
  <2>5. Noted({"changed", "gained"})
    BY <2>1, <2>2, Deepens DEF Noted
  <2> QED
    BY <1>1, <1>9, <2>1, <2>2, <2>3, <2>4, <2>5, RefsHold
<1>12. ASSUME NEW c \in Commit \cup {None}, CloneShallow(m, c)
       PROVE  Inv'
  <2>1. /\ head[m] = None /\ head' = [head EXCEPT ![m] = c] /\ shallow' = [shallow EXCEPT ![m] = c]
        /\ UNCHANGED <<commits, tracked, remote>> /\ Outdates(m, {"changed", "gained"})
    BY <1>12 DEF CloneShallow
  <2>2. /\ head' \in [Clone -> Commit \cup {None}]
        /\ shallow' \in [Clone -> Commit \cup {None}] /\ StaysFull
    BY <1>1, <2>1 DEF StaysFull
  <2>3. m # Creator => SeesTheSame
    BY <1>1, <2>1, CreatorAssumption DEF SeesTheSame
  <2>4. ASSUME m = Creator PROVE HeadHistory = {}
    BY <1>2, <2>1, <2>4, SeenIs DEF Visible, Past
  <2>5. m = Creator => Noted({"changed", "gained"})
    BY <2>4 DEF Noted
  <2> QED
    BY <1>1, <1>9, <2>1, <2>2, <2>3, <2>5, RefsHold
<1> QED
  BY <1>1, <1>4, <1>5, <1>6, <1>7, <1>8, <1>10, <1>11, <1>12 DEF TerminalStep

\* A commit is amended to name a claimant.
LEMMA TagHolds ==
  ASSUME Inv, NEW m \in Clone, NEW k \in Claimant, Tag(m, k)
  PROVE  Inv'
<1>1. /\ head[m] # None /\ Outdates(m, {"changed", "lost", "gained"})
      /\ NewHead(m, Parents(head[m]), Tags(head[m]) \cup {k})
  BY DEF Tag
<1>2. head[m] \in Commit \cup {None}
  BY RefsAre
<1>3. /\ Parents(head[m]) \in SUBSET Commit /\ Tags(head[m]) \cup {k} \in SUBSET Claimant
      /\ {"changed", "lost", "gained"} \in SUBSET Event
  BY <1>2, Known DEF Inv, Event
<1> QED
  BY <1>1, <1>3, NewHeadHolds

\* Where git does not change, neither does what it says.
LEMMA GitSame ==
  ASSUME Inv, UNCHANGED git
  PROVE  /\ GitTypes' /\ HistoryInv' /\ Commit' = Commit
         /\ (UNCHANGED <<evidence, since>> => EvidenceHolds')
<1>1. Commit' = Commit
  BY DEF Commit, git
<1>2. GitTypes' /\ HistoryInv'
  BY <1>1 DEF Inv, GitTypes, HistoryInv, git
<1>3. Keeps /\ SeesTheSame
  BY <1>1 DEF Keeps, SeesTheSame, git
<1>4. /\ HeadHistory' = HeadHistory
      /\ \A k : Rows(k, tracked[Creator])' = Rows(k, tracked[Creator])
  BY <1>2, <1>3, SeenKept DEF Inv
<1>5. ASSUME UNCHANGED <<evidence, since>>
      PROVE  EvidenceHolds'
  <2>1. EvidenceHolds /\ evidence' = evidence /\ since' = since
    BY <1>5 DEF Inv
  <2> QED
    BY <1>4, <2>1 DEF EvidenceHolds, HeadHistory
<1> QED
  BY <1>1, <1>2, <1>5

\* The roots git finds in a full clone are those of the history.
LEMMA RootsAreTrue ==
  ASSUME GitTypes, HistoryInv, NEW m \in Clone, head[m] \in Commit, shallow[m] = None
  PROVE  Roots(m, Visible(m, head[m])) = TrueRoots(m)
<1>1. Visible(m, head[m]) = Past(head[m]) /\ Past(head[m]) \subseteq Commit
  BY VisibleWhole, Known
<1>2. \A x \in Past(head[m]) : SeenParents(m, x) = Parents(x)
  BY <1>1, CommitIs DEF SeenParents
<1> QED
  BY <1>1, <1>2 DEF Roots, TrueRoots

\* A lookup begins, fails, checks the clone, or finds the first root of its history.
LEMMA LookupHolds ==
  ASSUME Inv, NEW m \in Clone,
         Ask(m) \/ LookupFails(m) \/ CheckHistory(m) \/ ReadRoots(m)
  PROVE  Inv'
<1>1. /\ lookup \in [Clone -> Commit \cup {None}] /\ cut \in [Clone -> BOOLEAN]
      /\ stage \in [Clone -> {"none", "asked", "full", "unchecked"}]
      /\ rootsThen \in [Clone -> SUBSET Commit] /\ LookupInv
      /\ GitTypes /\ HistoryInv
  BY DEF Inv, IdentityTypes
<1>2. UNCHANGED <<git, approval, part>>
  BY DEF Ask, LookupFails, CheckHistory, ReadRoots
<1>3. GitTypes' /\ HistoryInv' /\ EvidenceHolds' /\ Commit' = Commit
  BY <1>2, GitSame DEF approval
<1>4. ApprovalTypes' /\ ShownInv'
  BY <1>2 DEF Inv, ApprovalTypes, ShownInv, approval
<1>5. IdentityTypes' /\ LookupInv'
  <2>1. CASE Ask(m) \/ LookupFails(m) \/ CheckHistory(m)
    <3>1. UNCHANGED <<head, shallow, lookup, cut, rootsThen>>
      BY <1>2, <2>1 DEF Ask, LookupFails, CheckHistory, git
    <3>2. PICK now \in {"none", "asked", "full", "unchecked"} :
            /\ stage' = [stage EXCEPT ![m] = now]
            /\ now \in {"full", "unchecked"} => head[m] # None
            /\ now = "full" => shallow[m] = None
      BY <2>1 DEF Ask, LookupFails, CheckHistory
    <3>3. IdentityTypes'
      BY <1>1, <1>3, <3>1, <3>2 DEF IdentityTypes
    <3>4. LookupInv'
      BY <1>1, <3>1, <3>2 DEF LookupInv, PickRootCommit
    <3> QED
      BY <3>3, <3>4
  <2>2. CASE ReadRoots(m)
    <3>1. head[m] \in Commit /\ (stage[m] = "full" => shallow[m] = None)
      BY <1>1, <2>2 DEF ReadRoots, LookupInv, GitTypes
    <3>2. History(m, {head[m]}) = Visible(m, head[m])
      BY DEF History
    <3>3. PICK r : r = PickRootCommit(Roots(m, Visible(m, head[m])))
      OBVIOUS
    <3>4. PICK roots : roots = TrueRoots(m)
      OBVIOUS
    <3>5. /\ lookup' = [lookup EXCEPT ![m] = r]
          /\ rootsThen' = [rootsThen EXCEPT ![m] = roots]
          /\ stage' = [stage EXCEPT ![m] = "none"]
          /\ stage[m] \in {"full", "unchecked"}
      BY <2>2, <3>2, <3>3, <3>4 DEF ReadRoots
    <3>6. PICK c \in BOOLEAN : c = (stage[m] = "unchecked" /\ shallow[m] # None)
      OBVIOUS
    <3>7. cut' = [cut EXCEPT ![m] = c]
      BY <2>2, <3>6 DEF ReadRoots
    <3>8. r \in Commit /\ roots \subseteq Commit
      BY <1>1, <3>1, <3>3, <3>4, RootIs, Known DEF TrueRoots
    <3>9. ~c => r = PickRootCommit(roots)
      <4>1. ASSUME ~c PROVE shallow[m] = None
        BY <3>1, <3>5, <3>6, <4>1
      <4>2. ASSUME ~c PROVE Roots(m, Visible(m, head[m])) = roots
        BY <1>1, <3>1, <3>4, <4>1, <4>2, RootsAreTrue
      <4> QED
        BY <3>3, <4>2
    <3>10. IdentityTypes'
      BY <1>1, <1>3, <3>5, <3>7, <3>8 DEF IdentityTypes
    <3>11. LookupInv'
      <4>1. lookup'[m] = r /\ rootsThen'[m] = roots /\ cut'[m] = c /\ stage'[m] = "none"
        BY <1>1, <3>5, <3>7
      <4>2. \A n \in Clone \ {m} : /\ lookup'[n] = lookup[n] /\ rootsThen'[n] = rootsThen[n]
                                   /\ cut'[n] = cut[n] /\ stage'[n] = stage[n]
        BY <1>1, <3>5, <3>7
      <4>3. head' = head /\ shallow' = shallow
        BY <1>2 DEF git
      <4> QED
        BY <1>1, <3>9, <4>1, <4>2, <4>3 DEF LookupInv, PickRootCommit
    <3> QED
      BY <3>10, <3>11
  <2> QED
    BY <2>1, <2>2
<1> QED
  BY <1>3, <1>4, <1>5 DEF Inv

-----------------------------------------------------------------------------

\* What verifyClaimTrailer says is true of what git knows when it is asked.
LEMMA VerifyIs ==
  ASSUME GitTypes, NEW known \in [Clone -> Commit \cup {None}], NEW k
  PROVE  LET rows == Rows(k, known)
             mine == rows \cap HeadHistory
             found == VerifyClaimTrailer(k, known) IN
         /\ found \in {"in-history", "elsewhere", "absent"}
         /\ found = "in-history" => mine # {}
         /\ found = "elsewhere" =>
              rows # {} /\ (mine = {} \/ Cardinality(rows) > Detailed)
         /\ found = "absent" => rows = {}
<1> DEFINE rows == Rows(k, known)
           mine == rows \cap HeadHistory
           found == VerifyClaimTrailer(k, known)
<1>1. /\ found \in {"in-history", "elsewhere", "absent"}
      /\ found = "absent" => rows = {}
      /\ found = "in-history" => Newest(rows) \cap HeadHistory # {}
      /\ found = "elsewhere" => rows # {} /\ Newest(rows) \cap HeadHistory = {}
  BY DEF VerifyClaimTrailer, HeadHistory
<1>2. rows \subseteq Commit
  BY HeadIsSeen DEF Rows
<1>3. Newest(rows) \subseteq rows
  BY DEF Newest
<1>4. ASSUME mine # {}, Newest(rows) \cap HeadHistory = {}
      PROVE  Cardinality(rows) > Detailed
  <2>1. PICK c \in mine : TRUE
    BY <1>4
  <2> DEFINE newer == {d \in rows : d > c}
  <2>2. IsFiniteSet(rows)
    <3>1. IsFiniteSet(Commit)
      BY CommitIs, FS_Interval DEF Commit
    <3> QED
      BY <1>2, <3>1, FS_Subset
  <2>3. c \in rows /\ ~(Cardinality(newer) < Detailed)
    BY <1>4, <2>1 DEF Newest
  <2>4. newer \subseteq rows \ {c}
    <3>1. c \in Nat
      BY <1>2, <2>3, CommitIs
    <3> QED
      BY <3>1
  <2> HIDE DEF newer, rows, mine
  <2>5. IsFiniteSet(rows \ {c}) /\ Cardinality(rows \ {c}) = Cardinality(rows) - 1
    BY <2>2, <2>3, FS_RemoveElement
  <2>6. Cardinality(newer) <= Cardinality(rows \ {c}) /\ IsFiniteSet(newer)
    BY <2>4, <2>5, FS_Subset
  <2>7. Cardinality(newer) \in Nat /\ Cardinality(rows) \in Nat
    BY <2>2, <2>6, FS_CardinalityType
  <2> QED
    BY <2>3, <2>5, <2>6, <2>7, DetailedAssumption
<1> HIDE DEF rows, found
<1>5. /\ found \in {"in-history", "elsewhere", "absent"}
      /\ found = "in-history" => mine # {}
      /\ found = "elsewhere" => rows # {} /\ (mine = {} \/ Cardinality(rows) > Detailed)
      /\ found = "absent" => rows = {}
  BY <1>1, <1>3, <1>4
<1> QED
  BY <1>5 DEF rows, found

\* The evidence that is collected is true in the state it is shown in.
LEMMA ScoreIs ==
  ASSUME Inv, NEW claims \in SUBSET Claimant, NEW known \in [Clone -> Commit \cup {None}],
         Score(claims, known), UNCHANGED <<commits, head, shallow>>,
         tracked'[Creator] = known
  PROVE  /\ evidence' \in [Claimant -> Evidence \cup {None}]
         /\ since' \subseteq Event /\ EvidenceHolds'
<1>1. PICK failing \in SUBSET claims, unsure \in SUBSET claims :
        /\ evidence' = [k \in Claimant |->
             IF k \notin claims THEN None
             ELSE IF k \in failing THEN "unknown"
             ELSE IF k \in unsure /\ VerifyClaimTrailer(k, known) = "in-history"
               THEN "elsewhere"
             ELSE VerifyClaimTrailer(k, known)]
        /\ since' = {e \in {"unsure"} : \E k \in unsure : evidence'[k] = "elsewhere"}
  BY DEF Score
<1>2. ASSUME NEW k
      PROVE  Rows(k, tracked[Creator])' = Rows(k, known)
  BY DEF Rows, History, Visible, SeenParents, Parents, Tips, Past, Tags
<1>3. HeadHistory' = HeadHistory
  BY DEF HeadHistory, History, Visible, SeenParents, Parents, Past
<1>4. ASSUME NEW k \in Claimant
      PROVE  LET rows == Rows(k, known)
                 mine == rows \cap HeadHistory IN
             /\ evidence'[k] \in Evidence \cup {None}
             /\ evidence'[k] = "in-history" => mine # {}
             /\ evidence'[k] = "elsewhere" /\ "unsure" \notin since' =>
                  rows # {} /\ (mine = {} \/ Cardinality(rows) > Detailed)
             /\ evidence'[k] = "absent" => rows = {}
  <2> DEFINE found == VerifyClaimTrailer(k, known)
             rows == Rows(k, known)
             mine == rows \cap HeadHistory
             crowded == Cardinality(rows) > Detailed
  <2>1. /\ found \in {"in-history", "elsewhere", "absent"}
        /\ found = "in-history" => mine # {}
        /\ found = "elsewhere" => rows # {} /\ (mine = {} \/ crowded)
        /\ found = "absent" => rows = {}
    BY VerifyIs DEF Inv
  <2>2. \/ k \notin claims /\ evidence'[k] = None
        \/ evidence'[k] = "unknown"
        \/ k \in claims /\ k \in unsure /\ evidence'[k] = "elsewhere"
        \/ evidence'[k] = found
    BY <1>1
  <2>3. k \in claims /\ k \in unsure /\ evidence'[k] = "elsewhere" => "unsure" \in since'
    BY <1>1
  <2> HIDE DEF found, rows, mine, crowded
  <2>4. /\ evidence'[k] \in Evidence \cup {None}
        /\ evidence'[k] = "in-history" => mine # {}
        /\ evidence'[k] = "elsewhere" /\ "unsure" \notin since' => rows # {} /\ (mine = {} \/ crowded)
        /\ evidence'[k] = "absent" => rows = {}
    BY <2>1, <2>2, <2>3, EvidenceAssumption DEF Evidence
  <2> QED
    BY <2>4 DEF rows, mine, crowded
<1>5. evidence' \in [Claimant -> Evidence \cup {None}]
  BY <1>1, <1>4
<1>6. EvidenceHolds'
  BY <1>2, <1>3, <1>4 DEF EvidenceHolds, HeadHistory
<1>7. since' \subseteq Event
  BY <1>1 DEF Event
<1> QED
  BY <1>5, <1>6, <1>7

\* The creator's approval: evidence is collected, shown and put away.
LEMMA ApprovalHolds ==
  ASSUME Inv, StartApproval \/ Refetch \/ PickUnfetched \/ Decide
  PROVE  Inv'
<1>1. UNCHANGED <<commits, head, shallow, remote, identity, part>>
  BY DEF StartApproval, Refetch, PickUnfetched, Decide, git
<1>2. Commit' = Commit
  BY <1>1 DEF Commit
<1>3. tracked' \in [Clone -> [Clone -> Commit \cup {None}]]
  <2>1. /\ tracked \in [Clone -> [Clone -> Commit \cup {None}]]
        /\ remote \in [Clone -> Commit \cup {None}]
    BY DEF Inv, GitTypes
  <2>2. CASE StartApproval \/ Decide
    BY <2>1, <2>2 DEF StartApproval, Decide, git
  <2>3. CASE Refetch
    BY <2>1, <2>3 DEF Refetch
  <2>4. CASE PickUnfetched
    <3>1. PICK got \in SUBSET Clone : tracked' = [tracked EXCEPT ![Creator] =
            [n \in Clone |-> IF n \in got THEN remote[n] ELSE @[n]]]
      BY <2>4 DEF PickUnfetched
    <3>2. [n \in Clone |-> IF n \in got THEN remote[n] ELSE tracked[Creator][n]]
            \in [Clone -> Commit \cup {None}]
      BY <2>1, CreatorAssumption
    <3> QED
      BY <2>1, <3>1, <3>2
  <2> QED
    BY <2>2, <2>3, <2>4
<1>4. GitTypes' /\ HistoryInv'
  BY <1>1, <1>2, <1>3 DEF Inv, GitTypes, HistoryInv
<1>5. IdentityTypes' /\ LookupInv'
  BY <1>1, <1>2 DEF Inv, IdentityTypes, LookupInv, PickRootCommit, identity
<1>6. /\ remote \in [Clone -> Commit \cup {None}]
      /\ tracked \in [Clone -> [Clone -> Commit \cup {None}]]
      /\ tracked[Creator] \in [Clone -> Commit \cup {None}]
  BY CreatorAssumption DEF Inv, GitTypes
<1>7. CASE StartApproval
  <2>1. PICK claims \in (SUBSET Claimant) \ {{}} :
          /\ Score(claims, tracked[Creator])
          /\ step' = "ask" => \A k \in claims : evidence'[k] = "absent"
    BY <1>7 DEF StartApproval
  <2>2. step' \in {"pick", "ask"} /\ UNCHANGED git
    BY <1>7 DEF StartApproval
  <2>3. /\ evidence' \in [Claimant -> Evidence \cup {None}]
        /\ since' \subseteq Event /\ EvidenceHolds'
    <3>1. PICK known : known = tracked[Creator]
      OBVIOUS
    <3>2. tracked'[Creator] = known
      BY <2>2, <3>1 DEF git
    <3> QED
      BY <1>1, <1>6, <2>1, <3>1, <3>2, ScoreIs
  <2>4. \A k \in Claimant : evidence'[k] = None \/ k \in claims
    BY <2>1 DEF Score
  <2>5. step' = "ask" => \A k \in claims : evidence'[k] = "absent"
    BY <2>1
  <2>6. ApprovalTypes' /\ ShownInv'
    BY <1>1, <2>2, <2>3, <2>4, <2>5 DEF Inv, ApprovalTypes, ShownInv
  <2> QED
    BY <1>4, <1>5, <2>3, <2>6 DEF Inv
<1>8. CASE Refetch
  <2> DEFINE claims == {k \in Claimant : evidence[k] # None}
  <2>1. Score(claims, remote) /\ step' = "pick" /\ tracked' = [tracked EXCEPT ![Creator] = remote]
    BY <1>8 DEF Refetch
  <2>2. PICK known : known = remote
    OBVIOUS
  <2>3. PICK C : C = claims
    OBVIOUS
  <2>4. C \in SUBSET Claimant
    BY <2>3
  <2>5. tracked'[Creator] = known
    BY <1>6, <2>1, <2>2, CreatorAssumption
  <2>6. Score(C, known)
    BY <2>1, <2>2, <2>3
  <2>7. /\ evidence' \in [Claimant -> Evidence \cup {None}]
        /\ since' \subseteq Event /\ EvidenceHolds'
    BY <1>1, <1>6, <2>2, <2>4, <2>5, <2>6, ScoreIs
  <2>8. ApprovalTypes' /\ ShownInv'
    BY <1>1, <2>1, <2>7 DEF Inv, ApprovalTypes, ShownInv
  <2> QED
    BY <1>4, <1>5, <2>7, <2>8 DEF Inv
<1>9. CASE PickUnfetched
  <2>1. /\ step' = "pick" /\ evidence' = evidence
        /\ since' = IF tracked' = tracked THEN since ELSE since \cup {"halfway"}
    BY <1>9 DEF PickUnfetched
  <2>2. ApprovalTypes' /\ ShownInv'
    BY <1>1, <2>1 DEF Inv, ApprovalTypes, ShownInv, Event
  <2>3. CASE tracked' = tracked
    <3>1. UNCHANGED <<git, evidence, since>>
      BY <1>1, <2>1, <2>3 DEF git
    <3> QED
      BY <1>4, <1>5, <2>2, <3>1, GitSame DEF Inv
  <2>4. CASE tracked' # tracked
    <3>1. \A k \in Claimant : evidence[k] \in {"absent", None}
      BY <1>9 DEF Inv, ShownInv, PickUnfetched
    <3>2. EvidenceHolds'
      BY <2>1, <2>4, <3>1, EvidenceAssumption DEF EvidenceHolds, Evidence
    <3> QED
      BY <1>4, <1>5, <2>2, <3>2 DEF Inv
  <2> QED
    BY <2>3, <2>4
<1>10. CASE Decide
  <2>1. /\ step' = "idle" /\ evidence' = [k \in Claimant |-> None]
        /\ since' = {}
    BY <1>10 DEF Decide
  <2>2. \A k \in Claimant : evidence'[k] = None
    BY <2>1
  <2>3. ApprovalTypes' /\ ShownInv'
    BY <1>1, <2>1, <2>2 DEF Inv, ApprovalTypes, ShownInv
  <2>4. EvidenceHolds'
    BY <2>2, EvidenceAssumption DEF EvidenceHolds, Evidence
  <2> QED
    BY <1>4, <1>5, <2>3, <2>4 DEF Inv
<1> QED
  BY <1>7, <1>8, <1>9, <1>10

\* Nothing has been committed, looked up or collected at first.
LEMMA InitHolds == Init => Inv
<1> SUFFICES ASSUME Init
             PROVE  Inv
  OBVIOUS
<1>1. Len(commits) = 0 /\ Commit = {} /\ commits \in Seq(Recorded(Len(commits)))
  BY EmptySeq DEF Init, Commit
<1>2. GitTypes
  BY <1>1, BoundAssumption DEF Init, GitTypes
<1>3. IdentityTypes
  BY DEF Init, IdentityTypes
<1>4. \A k \in Claimant : evidence[k] = None
  BY DEF Init
<1>5. ApprovalTypes /\ ShownInv
  BY <1>4 DEF Init, ApprovalTypes, ShownInv
<1>6. HistoryInv /\ LookupInv
  BY <1>1 DEF Init, HistoryInv, LookupInv
<1>7. EvidenceHolds
  BY <1>4, EvidenceAssumption DEF EvidenceHolds, Evidence
<1> QED
  BY <1>2, <1>3, <1>5, <1>6, <1>7 DEF Inv

\* Every step keeps the invariant.
LEMMA NextHolds == Inv /\ [Next]_vars => Inv'
<1> SUFFICES ASSUME Inv, [Next]_vars
             PROVE  Inv'
  OBVIOUS
<1>1. CASE Next
  BY <1>1, TerminalHolds, TagHolds, LookupHolds, ApprovalHolds DEF Next
<1>2. CASE UNCHANGED vars
  <2>1. UNCHANGED <<git, identity, approval, part>>
    BY <1>2 DEF vars
  <2>2. GitTypes' /\ HistoryInv' /\ EvidenceHolds' /\ Commit' = Commit
    BY <2>1, GitSame DEF approval
  <2>3. IdentityTypes' /\ ApprovalTypes' /\ ShownInv'
    BY <2>1, <2>2 DEF Inv, IdentityTypes, ApprovalTypes, ShownInv, identity, approval
  <2>4. LookupInv'
    BY <2>1 DEF Inv, LookupInv, PickRootCommit, identity, git
  <2> QED
    BY <2>2, <2>3, <2>4 DEF Inv
<1> QED
  BY <1>1, <1>2

-----------------------------------------------------------------------------

\* The inductive invariant holds in every state.
THEOREM Correct == Spec => []Inv
BY InitHolds, NextHolds, PTL DEF Spec

\* Every variable has its type: what is recorded of a commit, what the clones know
\* of each other's branches and what was looked up is about commits there are.
THEOREM TypesHold == Spec => []TypeOK
<1>1. Inv => TypeOK
  BY TypesAre DEF Inv
<1> QED
  BY <1>1, Correct, PTL

\* Windows whose histories have the same roots are in the same scope, whenever
\* each of them looked, unless roots have come or gone since or git failed to say
\* that a clone is shallow (repo-identity.ts 14-15, 171-173).
THEOREM ScopesAgree == Spec => []OneScope
<1>1. Inv => OneScope
  BY DEF Inv, LookupInv, OneScope
<1> QED
  BY <1>1, Correct, PTL

\* What the creator goes by when choosing whom to pay is true while they choose
\* (claim-trailer.ts 94-109): "in-history" until HEAD loses commits, "absent" until
\* commits or a trailer come or the approval's own fetch fails halfway, and
\* "elsewhere" as long as the clone stays as it is, git answers and the candidates
\* are few enough to look at.
THEOREM EvidenceIsTrue == Spec => []EvidenceHolds
<1>1. Inv => EvidenceHolds
  BY DEF Inv
<1> QED
  BY <1>1, Correct, PTL

=============================================================================
