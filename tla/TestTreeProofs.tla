--------------------------- MODULE TestTreeProofs ---------------------------
(***************************************************************************)
(* What holds of the tree of tests for every number of files, of changes   *)
(* and of opened documents:                                                *)
(*                                                                         *)
(*   TypesHold         types                                               *)
(*   TreeCorrect       where the last word on a file is                    *)
(*   QuietIsCurrent    QuietTreeIsDisk                                     *)
(*   NothingGoesBlank  NeverBlank                                          *)
(*                                                                         *)
(* QuietTreeIsDisk speaks of the moment when nothing is under way.  The    *)
(* invariant says where the latest version of a file is until then: yet to *)
(* be told of, on its way to the tree, in it, or on disk where a reader    *)
(* has failed to get it (ToldOf); and that a file that has never changed   *)
(* is in the hands of the scan (FirstOf).                                  *)
(***************************************************************************)
EXTENDS TestTree, TLAPS

\* The tree shows the tests on disk.
Matches(f) == tree[f] = (IF disk[f] = Plain THEN Absent ELSE disk[f])

\* Only a scan that has searched has files to read, and it ends after the last
\* of them is in the tree.
ScanInv ==
  /\ scan = "search" => listed = {} /\ todo = {}
  /\ scan = "done" => todo = {} /\ \A r \in reads : r.by # "scan"

\* A watcher is told of what a change has left on disk.
NoticeOf(f) ==
  /\ notice[f] = "changed" => disk[f] # Absent /\ version[f] > 0
  /\ notice[f] = "deleted" => disk[f] = Absent /\ version[f] > 0

\* What is on its way to the tree is no newer than the disk; a content of the
\* latest version is the one on disk, unless it is an editor's unsaved text.
ReadsInv ==
  \A r \in reads :
    /\ r.version <= version[r.file]
    /\ r.version = version[r.file] => disk[r.file] # Absent
    /\ r.version = version[r.file] /\ ~r.unsaved => r.text = disk[r.file]

\* The latest version of a changed file is yet to be told of, on its way, in the
\* tree, or one that could not be read.
ToldOf(f) ==
  /\ shown[f] <= version[f]
  /\ shown[f] < version[f] /\ notice[f] = "none" =>
       f \in missed \/ \E r \in reads : r.file = f /\ r.version = version[f]
  /\ shown[f] = version[f] /\ version[f] > 0 /\ ~astray[f] => Matches(f)

\* A file that has never changed is found if and only if it exists, and once the
\* scan has read it, its tests are on their way or in the tree, unless it could
\* not be read.
FirstOf(f) ==
  version[f] = 0 =>
    /\ scan # "search" => (f \in listed <=> disk[f] # Absent)
    /\ disk[f] = Absent => tree[f] = Absent
    /\ f \in listed \ todo =>
         \/ \E r \in reads : r.file = f /\ r.by = "scan"
         \/ astray[f] \/ f \in missed \/ Matches(f)

\* All of it, for every file.
NoticeInv == \A f \in File : NoticeOf(f)
ToldInv == \A f \in File : ToldOf(f)
FirstInv == \A f \in File : FirstOf(f)

\* The invariant.
TreeInv == ScanInv /\ ReadsInv /\ NoticeInv /\ ToldInv /\ FirstInv

\* A step leaves what concerns file g as it is, and drops none of its contents.
Same(g) ==
  /\ disk'[g] = disk[g] /\ version'[g] = version[g] /\ notice'[g] = notice[g]
  /\ tree'[g] = tree[g] /\ shown'[g] = shown[g] /\ astray'[g] = astray[g]
  /\ g \in missed => g \in missed'
  /\ \A r \in reads : r.file = g => r \in reads'

\* What holds of a file is kept by the steps of others.
LEMMA Others ==
  ASSUME NEW g \in File, Same(g), NoticeOf(g), ToldOf(g), FirstOf(g)
  PROVE  /\ NoticeOf(g)' /\ ToldOf(g)'
         /\ UNCHANGED scanning => FirstOf(g)'
<1>1. NoticeOf(g)'
  BY DEF Same, NoticeOf
<1>2. ToldOf(g)'
  BY DEF Same, ToldOf, Matches
<1>3. ASSUME UNCHANGED scanning PROVE FirstOf(g)'
  BY <1>3 DEF Same, FirstOf, Matches, scanning
<1> QED
  BY <1>1, <1>2, <1>3

\* A step of one file preserves the invariant if it does so for that file.
LEMMA FileStep ==
  ASSUME NEW f \in File, NoticeInv, ToldInv, FirstInv,
         \A g \in File \ {f} : Same(g), UNCHANGED scanning,
         NoticeOf(f)', ToldOf(f)', FirstOf(f)'
  PROVE  NoticeInv' /\ ToldInv' /\ FirstInv'
<1>1. \A g \in File \ {f} : NoticeOf(g)' /\ ToldOf(g)' /\ FirstOf(g)'
  BY Others DEF NoticeInv, ToldInv, FirstInv
<1> QED
  BY <1>1 DEF NoticeInv, ToldInv, FirstInv

\* What a watcher or the scan reads.
LEMMA ReadIs ==
  ASSUME TypeOK, NEW f \in File, disk[f] # Absent, NEW by \in {"scan", "watcher", "open"}
  PROVE  /\ Read(f, by) \in Reads
         /\ Read(f, by).file = f /\ Read(f, by).text = disk[f]
         /\ Read(f, by).version = version[f] /\ Read(f, by).by = by
         /\ ~Read(f, by).unsaved
BY DEF Read, Reads, TypeOK

\* What opening a document sends to the tree,
OpenRead(f, x) == [Read(f, "open") EXCEPT !.text = x, !.unsaved = (x # disk[f])]

\* and what it is.
LEMMA OpenIs ==
  ASSUME TypeOK, NEW f \in File, NEW x \in Text, Open(f, x)
  PROVE  /\ reads' = reads \cup {OpenRead(f, x)}
         /\ OpenRead(f, x) \in Reads /\ OpenRead(f, x).file = f
         /\ OpenRead(f, x).version = version[f] /\ OpenRead(f, x).by = "open"
         /\ disk[f] # Absent
         /\ ~OpenRead(f, x).unsaved => OpenRead(f, x).text = disk[f]
<1> DEFINE u == x # disk[f]
           r == [Read(f, "open") EXCEPT !.text = x, !.unsaved = u]
<1>1. u \in BOOLEAN
  OBVIOUS
<1>2. /\ r \in Reads /\ r.file = f /\ r.text = x
      /\ r.version = version[f] /\ r.by = "open" /\ r.unsaved = u
  <2> HIDE DEF u
  <2> QED
    BY <1>1 DEF Read, Reads, TypeOK
<1>3. r = OpenRead(f, x)
  BY DEF OpenRead
<1>4. reads' = reads \cup {r} /\ disk[f] # Absent
  BY DEF Open
<1> HIDE DEF r
<1> QED
  BY <1>2, <1>3, <1>4

\* Every step preserves the types.
LEMMA NextTypes ==
   /\TypeOK /\ [Next]_vars => TypeOK'
<1> SUFFICES ASSUME TypeOK, [Next]_vars
             PROVE  TypeOK'
  OBVIOUS
<1> USE TextAssumption DEF TypeOK, world, scanning, reading, items
<1>1. ASSUME NEW f \in File, NEW x \in Text \cup {Absent}, Change(f, x)
      PROVE  TypeOK'
  <2>1. version[f] + 1 \in Nat
    OBVIOUS
  <2> QED
    BY <1>1, <2>1 DEF Change
<1>2. ASSUME NEW f \in File, Changed(f)
      PROVE  TypeOK'
  BY <1>2, ReadIs DEF Changed, ReadDisk
<1>3. ASSUME NEW f \in File, Deleted(f)
      PROVE  TypeOK'
  BY <1>3 DEF Deleted
<1>4. ASSUME NEW f \in File, ScanReads(f)
      PROVE  TypeOK'
  BY <1>4, ReadIs DEF ScanReads, ReadDisk
<1>5. ASSUME NEW f \in File, NEW x \in Text, Open(f, x)
      PROVE  TypeOK'
  <2>1. opened' = opened \cup {f} /\ UNCHANGED <<disk, version, notice, scanning, missed, items>>
    BY <1>5 DEF Open
  <2>2. reads' = reads \cup {OpenRead(f, x)} /\ OpenRead(f, x) \in Reads
    BY <1>5, OpenIs
  <2> QED
    BY <2>1, <2>2
<1>6. ASSUME NEW r \in reads, Deliver(r)
      PROVE  TypeOK'
  BY <1>6 DEF Deliver, Update, Reads
<1>7. CASE Search
  BY <1>7 DEF Search
<1>8. CASE Prune
  BY <1>8 DEF Prune
<1>9. CASE UNCHANGED vars
  BY <1>9 DEF vars
<1> QED
  BY <1>1, <1>2, <1>3, <1>4, <1>5, <1>6, <1>7, <1>8, <1>9 DEF Next

\* Every step preserves ScanInv.
LEMMA NextScan ==
   /\TypeOK /\ ScanInv /\ [Next]_vars => ScanInv'
<1> SUFFICES ASSUME TypeOK, ScanInv, [Next]_vars
             PROVE  ScanInv'
  OBVIOUS
<1> USE TextAssumption DEF ScanInv, world, scanning, reading, items
<1>1. ASSUME NEW f \in File, NEW x \in Text \cup {Absent}, Change(f, x)
      PROVE  ScanInv'
  BY <1>1 DEF Change
<1>2. ASSUME NEW f \in File, Changed(f)
      PROVE  ScanInv'
  BY <1>2, ReadIs DEF Changed, ReadDisk
<1>3. ASSUME NEW f \in File, Deleted(f)
      PROVE  ScanInv'
  BY <1>3 DEF Deleted
<1>4. ASSUME NEW f \in File, ScanReads(f)
      PROVE  ScanInv'
  BY <1>4, ReadIs DEF ScanReads, ReadDisk, TypeOK
<1>5. ASSUME NEW f \in File, NEW x \in Text, Open(f, x)
      PROVE  ScanInv'
  <2>1. UNCHANGED scanning
    BY <1>5 DEF Open
  <2>2. reads' = reads \cup {OpenRead(f, x)} /\ OpenRead(f, x).by = "open"
    BY <1>5, OpenIs
  <2> QED
    BY <2>1, <2>2
<1>6. ASSUME NEW r \in reads, Deliver(r)
      PROVE  ScanInv'
  BY <1>6 DEF Deliver
<1>7. CASE Search
  BY <1>7 DEF Search
<1>8. CASE Prune
  BY <1>8 DEF Prune
<1>9. CASE UNCHANGED vars
  BY <1>9 DEF vars
<1> QED
  BY <1>1, <1>2, <1>3, <1>4, <1>5, <1>6, <1>7, <1>8, <1>9 DEF Next

\* Every step preserves ReadsInv.
LEMMA NextReads ==
   /\TypeOK /\ ReadsInv /\ [Next]_vars => ReadsInv'
<1> SUFFICES ASSUME TypeOK, ReadsInv, [Next]_vars
             PROVE  ReadsInv'
  OBVIOUS
<1> USE TextAssumption DEF ReadsInv, world, scanning, reading, items
<1>1. ASSUME NEW f \in File, NEW x \in Text \cup {Absent}, Change(f, x)
      PROVE  ReadsInv'
  <2>1. /\ UNCHANGED reads /\ version' = [version EXCEPT ![f] = version[f] + 1]
        /\ disk' = [disk EXCEPT ![f] = x]
    BY <1>1 DEF Change
  <2>2. ASSUME NEW r \in reads
        PROVE  /\ r.version <= version'[r.file]
               /\ r.version = version'[r.file] => disk'[r.file] # Absent
               /\ r.version = version'[r.file] /\ ~r.unsaved => r.text = disk'[r.file]
    <3>1. r.file \in File /\ r.version \in Nat /\ version[r.file] \in Nat
      BY DEF TypeOK, Reads
    <3>2. CASE r.file = f
      BY <2>1, <3>1, <3>2 DEF TypeOK
    <3>3. CASE r.file # f
      BY <2>1, <3>1, <3>3 DEF TypeOK
    <3> QED
      BY <3>2, <3>3
  <2> QED
    BY <2>1, <2>2
<1>2. ASSUME NEW f \in File, Changed(f)
      PROVE  ReadsInv'
  <2>1. reads' \subseteq reads \cup {Read(f, "watcher")} /\ UNCHANGED <<disk, version>>
    BY <1>2 DEF Changed, ReadDisk
  <2>2. ASSUME NEW q \in reads', q \notin reads
        PROVE  q = Read(f, "watcher") /\ disk[f] # Absent
    BY <1>2, <2>1, <2>2 DEF Changed, ReadDisk
  <2>3. ASSUME NEW q \in reads', q \notin reads
        PROVE  /\ q.file = f /\ q.version = version[f]
               /\ disk[f] # Absent /\ (~q.unsaved => q.text = disk[f])
    BY <2>2, <2>3, ReadIs
  <2>4. version[f] \in Nat
    BY DEF TypeOK
  <2> QED
    BY <2>1, <2>3, <2>4
<1>3. ASSUME NEW f \in File, Deleted(f)
      PROVE  ReadsInv'
  BY <1>3 DEF Deleted
<1>4. ASSUME NEW f \in File, ScanReads(f)
      PROVE  ReadsInv'
  <2>1. reads' \subseteq reads \cup {Read(f, "scan")} /\ UNCHANGED <<disk, version>>
    BY <1>4 DEF ScanReads, ReadDisk
  <2>2. ASSUME NEW q \in reads', q \notin reads
        PROVE  q = Read(f, "scan") /\ disk[f] # Absent
    BY <1>4, <2>1, <2>2 DEF ScanReads, ReadDisk
  <2>3. ASSUME NEW q \in reads', q \notin reads
        PROVE  /\ q.file = f /\ q.version = version[f]
               /\ disk[f] # Absent /\ (~q.unsaved => q.text = disk[f])
    BY <2>2, <2>3, ReadIs
  <2>4. version[f] \in Nat
    BY DEF TypeOK
  <2> QED
    BY <2>1, <2>3, <2>4
<1>5. ASSUME NEW f \in File, NEW x \in Text, Open(f, x)
      PROVE  ReadsInv'
  <2>1. UNCHANGED <<disk, version>>
    BY <1>5 DEF Open
  <2>2. version[f] \in Nat
    BY DEF TypeOK
  <2> QED
    BY <1>5, <2>1, <2>2, OpenIs
<1>6. ASSUME NEW r \in reads, Deliver(r)
      PROVE  ReadsInv'
  BY <1>6 DEF Deliver
<1>7. CASE Search
  BY <1>7 DEF Search
<1>8. CASE Prune
  BY <1>8 DEF Prune
<1>9. CASE UNCHANGED vars
  BY <1>9 DEF vars
<1> QED
  BY <1>1, <1>2, <1>3, <1>4, <1>5, <1>6, <1>7, <1>8, <1>9 DEF Next

\* Every step preserves where the latest version of each file is.
LEMMA NextFiles ==
  TypeOK /\ TreeInv /\ [Next]_vars => NoticeInv' /\ ToldInv' /\ FirstInv'
<1> SUFFICES ASSUME TypeOK, TreeInv, [Next]_vars
             PROVE  NoticeInv' /\ ToldInv' /\ FirstInv'
  OBVIOUS
<1> USE TextAssumption DEF world, scanning, reading, items
<1>0. \A g \in File : NoticeOf(g) /\ ToldOf(g) /\ FirstOf(g)
  BY DEF TreeInv, NoticeInv, ToldInv, FirstInv
<1>1. ASSUME NEW f \in File, NEW x \in Text \cup {Absent}, Change(f, x)
      PROVE  NoticeInv' /\ ToldInv' /\ FirstInv'
  <2>1. /\ disk'[f] = x /\ version'[f] = version[f] + 1
        /\ notice'[f] = IF x = Absent THEN "deleted" ELSE "changed"
        /\ UNCHANGED <<opened, scanning, reads, items>>
    BY <1>1 DEF Change, TypeOK
  <2>2. version[f] \in Nat
    BY DEF TypeOK
  <2>3. \A g \in File \ {f} : Same(g)
    BY <1>1 DEF Change, TypeOK, Same
  <2>4. NoticeOf(f)'
    BY <2>1, <2>2 DEF NoticeOf
  <2>5. ToldOf(f)'
    <3>1. shown[f] \in Nat /\ shown[f] <= version[f]
      BY <1>0 DEF ToldOf, TypeOK
    <3> QED
      BY <2>1, <2>2, <3>1 DEF ToldOf
  <2>6. FirstOf(f)'
    BY <2>1, <2>2 DEF FirstOf
  <2> QED
    BY <2>1, <2>3, <2>4, <2>5, <2>6, FileStep DEF TreeInv
<1>2. ASSUME NEW f \in File, Changed(f)
      PROVE  NoticeInv' /\ ToldInv' /\ FirstInv'
  <2>1. /\ UNCHANGED <<disk, version, opened, scanning, items>>
        /\ notice' = [notice EXCEPT ![f] = "none"] /\ notice[f] = "changed"
        /\ disk[f] # Absent /\ reads \subseteq reads' /\ missed \subseteq missed'
        /\ reads' = reads \cup {Read(f, "watcher")} \/ f \in missed'
    BY <1>0, <1>2 DEF Changed, ReadDisk, NoticeOf
  <2>2. f \in missed' \/ \E r \in reads' : r.file = f /\ r.version = version[f]
    <3>1. Read(f, "watcher").file = f /\ Read(f, "watcher").version = version[f]
      BY <2>1, ReadIs
    <3> QED
      BY <2>1, <3>1
  <2>3. \A g \in File \ {f} : Same(g)
    BY <2>1 DEF TypeOK, Same
  <2>4. notice'[f] = "none"
    BY <2>1 DEF TypeOK
  <2>5. NoticeOf(f)'
    BY <2>4 DEF NoticeOf
  <2>6. ToldOf(f)'
    BY <1>0, <2>1, <2>2 DEF ToldOf, Matches
  <2>7. FirstOf(f)'
    BY <1>0, <2>1 DEF FirstOf, Matches
  <2> QED
    BY <2>1, <2>3, <2>5, <2>6, <2>7, FileStep DEF TreeInv
<1>3. ASSUME NEW f \in File, Deleted(f)
      PROVE  NoticeInv' /\ ToldInv' /\ FirstInv'
  <2>1. /\ UNCHANGED <<disk, version, opened, scanning, reading>>
        /\ notice'[f] = "none" /\ notice[f] = "deleted"
        /\ tree'[f] = Absent /\ shown'[f] = version[f] /\ astray'[f] = FALSE
    BY <1>3 DEF Deleted, TypeOK
  <2>2. disk[f] = Absent /\ version[f] > 0 /\ version[f] \in Nat
    BY <1>0, <2>1 DEF NoticeOf, TypeOK
  <2>3. \A g \in File \ {f} : Same(g)
    BY <1>3 DEF Deleted, TypeOK, Same
  <2>4. NoticeOf(f)'
    BY <2>1 DEF NoticeOf
  <2>5. ToldOf(f)'
    BY <2>1, <2>2 DEF ToldOf, Matches
  <2>6. FirstOf(f)'
    BY <2>1, <2>2 DEF FirstOf
  <2> QED
    BY <2>1, <2>3, <2>4, <2>5, <2>6, FileStep DEF TreeInv
<1>4. ASSUME NEW f \in File, ScanReads(f)
      PROVE  NoticeInv' /\ ToldInv' /\ FirstInv'
  <2>1. /\ UNCHANGED <<world, scan, listed, items>> /\ reads \subseteq reads'
        /\ f \in todo /\ todo' = todo \ {f} /\ missed \subseteq missed'
        /\ disk[f] # Absent => reads' = reads \cup {Read(f, "scan")} \/ f \in missed'
    BY <1>4 DEF ScanReads, ReadDisk
  <2>2. \A g \in File : Same(g)
    BY <2>1 DEF Same
  <2>3. ASSUME NEW g \in File PROVE FirstOf(g)'
    <3>1. CASE g = f
      <4>1. CASE disk[f] # Absent
        <5>1. f \in missed' \/ \E r \in reads' : r.file = f /\ r.by = "scan"
          <6>1. Read(f, "scan").file = f /\ Read(f, "scan").by = "scan"
            BY <4>1, ReadIs
          <6> QED
            BY <2>1, <4>1, <6>1
        <5> QED
          BY <1>0, <2>1, <3>1, <5>1 DEF FirstOf
      <4>2. CASE disk[f] = Absent
        <5>1. scan # "search" /\ f \in listed
          BY <2>1 DEF TreeInv, ScanInv, TypeOK
        <5> QED
          BY <1>0, <2>1, <3>1, <4>2, <5>1 DEF FirstOf
      <4> QED
        BY <4>1, <4>2
    <3>2. CASE g # f
      BY <1>0, <2>1, <3>2 DEF FirstOf, Matches
    <3> QED
      BY <3>1, <3>2
  <2> QED
    BY <1>0, <2>2, <2>3, Others DEF NoticeInv, ToldInv, FirstInv
<1>5. ASSUME NEW f \in File, NEW x \in Text, Open(f, x)
      PROVE  NoticeInv' /\ ToldInv' /\ FirstInv'
  <2>1. /\ UNCHANGED <<disk, version, notice, scanning, missed, items>> /\ reads \subseteq reads'
    BY <1>5 DEF Open
  <2>2. \A g \in File : Same(g)
    BY <2>1 DEF Same
  <2> QED
    BY <1>0, <2>1, <2>2, Others DEF NoticeInv, ToldInv, FirstInv
<1>6. ASSUME NEW r \in reads, Deliver(r)
      PROVE  NoticeInv' /\ ToldInv' /\ FirstInv'
  <2> DEFINE f == r.file
  <2>1. /\ f \in File /\ r.text \in Text /\ r.version \in Nat /\ r.unsaved \in BOOLEAN
        /\ version[f] \in Nat /\ shown[f] \in Nat
    BY DEF TypeOK, Reads
  <2>2. /\ UNCHANGED <<world, scanning>> /\ reads' = reads \ {r}
        /\ tree'[f] = (IF r.text = Plain THEN Absent ELSE r.text)
        /\ shown'[f] = IF r.version > shown[f] THEN r.version ELSE shown[f]
        /\ missed' = IF r.version = version[f] THEN missed \ {f} ELSE missed
    BY <1>6, <2>1 DEF Deliver, Update, TypeOK
  <2>3. astray'[f] = (r.unsaved \/ r.version < shown[f])
    BY <1>6, <2>1 DEF Deliver, TypeOK
  <2>4. \A g \in File \ {f} : Same(g)
    BY <1>6, <2>1 DEF Deliver, Update, TypeOK, Same
  <2>5. /\ r.version <= version[f]
        /\ r.version = version[f] => disk[f] # Absent
        /\ r.version = version[f] /\ ~r.unsaved => r.text = disk[f]
    BY DEF TreeInv, ReadsInv
  <2>6. NoticeOf(f) /\ ToldOf(f) /\ FirstOf(f)
    BY <1>0, <2>1
  <2> HIDE DEF f
  <2>7. shown[f] <= version[f]
    BY <2>6 DEF ToldOf
  <2>8. r.version = version[f] /\ ~astray'[f] => Matches(f)'
    BY <2>2, <2>3, <2>5 DEF Matches
  <2>9. NoticeOf(f)'
    BY <2>2, <2>6 DEF NoticeOf
  <2>10. ToldOf(f)'
    <3>1. shown'[f] <= version'[f]
      BY <2>1, <2>2, <2>5, <2>7
    <3>2. ASSUME shown'[f] < version'[f], notice'[f] = "none"
          PROVE  \/ f \in missed'
                 \/ \E q \in reads' : q.file = f /\ q.version = version'[f]
      <4>1. /\ shown[f] < version[f] /\ r.version < version[f] /\ notice[f] = "none"
            /\ missed' = missed
        BY <2>1, <2>2, <2>5, <2>7, <3>2
      <4>2. CASE f \in missed
        BY <4>1, <4>2
      <4>3. CASE \E q \in reads : q.file = f /\ q.version = version[f]
        <5>1. PICK q \in reads : q.file = f /\ q.version = version[f]
          BY <4>3
        <5>2. q # r
          BY <4>1, <5>1, <2>1
        <5> QED
          BY <2>2, <5>1, <5>2
      <4> QED
        BY <2>6, <4>1, <4>2, <4>3 DEF ToldOf
    <3>3. ASSUME shown'[f] = version'[f], ~astray'[f]
          PROVE  Matches(f)'
      <4>1. ~(r.version < shown[f])
        BY <2>3, <3>3
      <4>2. r.version = version[f]
        BY <2>1, <2>2, <2>5, <2>7, <3>3, <4>1
      <4> QED
        BY <2>8, <3>3, <4>2
    <3> QED
      BY <3>1, <3>2, <3>3 DEF ToldOf
  <2>11. FirstOf(f)'
    <3> SUFFICES ASSUME version[f] = 0 PROVE FirstOf(f)'
      BY <2>2 DEF FirstOf
    <3>1. r.version = version[f] /\ disk[f] # Absent
      BY <2>1, <2>5
    <3>2. astray'[f] \/ Matches(f)'
      BY <2>8, <3>1
    <3> QED
      BY <2>2, <2>6, <3>1, <3>2 DEF FirstOf
  <2> QED
    BY <2>1, <2>2, <2>4, <2>9, <2>10, <2>11, FileStep DEF TreeInv
<1>7. CASE Search
  <2>1. /\ UNCHANGED <<world, reading, items>> /\ scan = "search" /\ scan' = "read"
        /\ listed' = {f \in File : disk[f] # Absent} /\ todo' = listed'
    BY <1>7 DEF Search
  <2>2. \A g \in File : Same(g)
    BY <2>1 DEF Same
  <2>3. \A g \in File : FirstOf(g)'
    BY <1>0, <2>1 DEF FirstOf
  <2> QED
    BY <1>0, <2>2, <2>3, Others DEF NoticeInv, ToldInv, FirstInv
<1>8. CASE Prune
  <2>1. /\ UNCHANGED <<world, listed, todo, reading, shown>> /\ scan = "read"
        /\ \A g \in File :
             /\ tree'[g] = IF g \in listed THEN tree[g] ELSE Absent
             /\ astray'[g] = IF g \in listed THEN astray[g] ELSE disk[g] # Absent
    BY <1>8 DEF Prune
  <2>2. ASSUME NEW g \in File PROVE NoticeOf(g)' /\ ToldOf(g)' /\ FirstOf(g)'
    <3>1. NoticeOf(g)'
      BY <1>0, <2>1 DEF NoticeOf
    <3>2. g \notin listed /\ ~astray'[g] => Matches(g)'
      BY <2>1 DEF Matches
    <3>3. g \in listed /\ ~astray'[g] /\ Matches(g) => ~astray[g] /\ Matches(g)'
      BY <2>1 DEF Matches
    <3>4. g \in listed => (astray'[g] <=> astray[g])
      BY <2>1
    <3>5. ToldOf(g)'
      BY <1>0, <2>1, <3>2, <3>3, <3>4 DEF ToldOf
    <3>6. FirstOf(g)'
      BY <1>0, <2>1, <3>2, <3>3, <3>4 DEF FirstOf, Matches
    <3> QED
      BY <3>1, <3>5, <3>6
  <2> QED
    BY <2>2 DEF NoticeInv, ToldInv, FirstInv
<1>9. CASE UNCHANGED vars
  <2>1. \A g \in File : Same(g)
    BY <1>9 DEF vars, Same
  <2> QED
    BY <1>0, <1>9, <2>1, Others DEF NoticeInv, ToldInv, FirstInv, vars
<1> QED
  BY <1>1, <1>2, <1>3, <1>4, <1>5, <1>6, <1>7, <1>8, <1>9 DEF Next

-----------------------------------------------------------------------------

\* An extension that is activated satisfies the invariant,
LEMMA InitHolds == Init => TypeOK /\ TreeInv
<1> SUFFICES ASSUME Init PROVE TypeOK /\ TreeInv
  OBVIOUS
<1>1. TypeOK
  BY DEF Init, TypeOK
<1>2. ScanInv /\ ReadsInv
  BY DEF Init, ScanInv, ReadsInv
<1>3. NoticeInv
  BY DEF Init, NoticeInv, NoticeOf
<1>4. ToldInv
  BY DEF Init, ToldInv, ToldOf
<1>5. FirstInv
  BY DEF Init, FirstInv, FirstOf
<1> QED
  BY <1>1, <1>2, <1>3, <1>4, <1>5 DEF TreeInv

\* and every step preserves it.
LEMMA NextTree == TypeOK /\ TreeInv /\ [Next]_vars => TreeInv'
BY NextScan, NextReads, NextFiles DEF TreeInv

\* All variables keep their types.
THEOREM TypesHold == Spec => []TypeOK
BY InitHolds, NextTypes, PTL DEF Spec

\* The latest version of a file is never lost on its way from the disk to the
\* tree, unless it could not be read (test-controller.ts 23-119).
THEOREM TreeCorrect == Spec => []TreeInv
BY InitHolds, TypesHold, NextTree, PTL DEF Spec

\* Once every change has been told of and read, the tree shows the tests on disk,
\* but for a file whose last word was an old one or whose latest content could
\* not be read (test-controller.ts 47-54, 97).
THEOREM QuietIsCurrent == Spec => []QuietTreeIsDisk
<1>1. ASSUME TypeOK, TreeInv, NEW f \in File, Quiet(f), ~astray[f], f \notin missed
      PROVE  Matches(f)
  <2>1. /\ NoticeOf(f) /\ ToldOf(f) /\ FirstOf(f) /\ ScanInv
        /\ version[f] \in Nat /\ shown[f] \in Nat
    BY <1>1 DEF TreeInv, NoticeInv, ToldInv, FirstInv, TypeOK
  <2>2. scan = "done" /\ notice[f] = "none" /\ \A r \in reads : r.file # f
    BY <1>1 DEF Quiet
  <2>3. CASE version[f] > 0
    <3>1. shown[f] = version[f]
      BY <1>1, <2>1, <2>2 DEF ToldOf
    <3> QED
      BY <1>1, <2>1, <2>3, <3>1 DEF ToldOf
  <2>4. CASE version[f] = 0
    <3>1. CASE disk[f] = Absent
      BY <2>1, <2>4, <3>1, TextAssumption DEF FirstOf, Matches
    <3>2. CASE disk[f] # Absent
      <4>1. f \in listed \ todo
        BY <2>1, <2>2, <2>4, <3>2 DEF FirstOf, ScanInv
      <4> QED
        BY <1>1, <2>1, <2>2, <2>4, <4>1 DEF FirstOf
    <3> QED
      BY <3>1, <3>2
  <2> QED
    BY <2>1, <2>3, <2>4
<1>2. TypeOK /\ TreeInv => QuietTreeIsDisk
  BY <1>1 DEF QuietTreeIsDisk, Matches
<1> QED
  BY <1>2, TypesHold, TreeCorrect, PTL

\* The tests of a file that is as it always was stay in the tree, whatever
\* happens to others and whether or not a scan is at work (test-controller.ts
\* 19-21, 97-100).
THEOREM NothingGoesBlank == Spec => NeverBlank
<1>1. ASSUME TypeOK, TreeInv, [Next]_vars, NEW f \in File,
             version[f] = 0, tree[f] = disk[f],
             \A r \in reads : r.file = f => ~r.unsaved
      PROVE  tree'[f] = tree[f]
  <2> USE TextAssumption DEF world, scanning, reading, items
  <2>1. tree[f] # Plain /\ NoticeOf(f) /\ FirstOf(f)
    BY <1>1 DEF TypeOK, TreeInv, NoticeInv, FirstInv
  <2>2. ASSUME NEW g \in File, Deleted(g) PROVE tree'[f] = tree[f]
    <3>1. g # f
      BY <1>1, <2>1, <2>2 DEF Deleted, NoticeOf
    <3> QED
      BY <1>1, <2>2, <3>1 DEF Deleted, TypeOK
  <2>3. ASSUME NEW r \in reads, Deliver(r) PROVE tree'[f] = tree[f]
    <3>1. CASE r.file = f
      <4>1. r.version \in Nat /\ r.version <= version[f] /\ ~r.unsaved
        BY <1>1, <3>1 DEF TypeOK, Reads, TreeInv, ReadsInv
      <4>2. r.text = disk[f]
        BY <1>1, <3>1, <4>1 DEF TreeInv, ReadsInv
      <4> QED
        BY <1>1, <2>1, <2>3, <3>1, <4>2 DEF Deliver, Update, TypeOK
    <3>2. CASE r.file # f
      BY <1>1, <2>3, <3>2 DEF Deliver, Update, TypeOK
    <3> QED
      BY <3>1, <3>2
  <2>4. CASE Prune
    <3>1. f \notin listed => disk[f] = Absent
      BY <1>1, <2>1, <2>4 DEF Prune, FirstOf
    <3> QED
      BY <1>1, <2>4, <3>1 DEF Prune
  <2>5. CASE UNCHANGED tree
    BY <2>5
  <2> QED
    BY <1>1, <2>2, <2>3, <2>4, <2>5
       DEF Next, Change, Changed, ReadDisk, ScanReads, Open, Search, vars
<1>2. TypeOK /\ TreeInv /\ [Next]_vars =>
        [\A f \in File :
           /\ version[f] = 0 /\ tree[f] = disk[f]
           /\ \A r \in reads : r.file = f => ~r.unsaved
           => tree'[f] = tree[f]]_vars
  BY <1>1
<1> QED
  BY <1>2, TypesHold, TreeCorrect, PTL DEF Spec, NeverBlank

=============================================================================
