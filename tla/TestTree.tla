------------------------------ MODULE TestTree ------------------------------
(***************************************************************************)
(* The tree of discovered tests (src/test/test-controller.ts), the source  *)
(* of every code lens: one scan of the workspace when the extension is     *)
(* activated, watchers for files that are created, saved or deleted, and   *)
(* documents that are opened.  All of them read a file, wait, and replace  *)
(* what the tree says of it; nothing orders their updates.                 *)
(*                                                                         *)
(* VS Code is external: it tells of every change of a file, late and       *)
(* perhaps once for several changes, and it reads what is on disk at some  *)
(* moment of the call.                                                     *)
(***************************************************************************)
EXTENDS Naturals, FiniteSets, Functions

CONSTANTS
  File,
  Text,        \* contents a file may have
  Plain,       \* the one among them that declares no tests
  Absent,      \* no file; no item in the tree
  MaxChanges,  \* bound: times that files are created, saved or deleted, in all
  MaxOpens     \* bound: documents that are opened

ASSUME TextAssumption == Plain \in Text /\ Absent \notin Text
ASSUME BoundsAssumption == MaxChanges \in Nat /\ MaxOpens \in Nat

VARIABLES
  disk,      \* what is on disk
  version,   \* how often it has changed
  notice,    \* what a watcher has yet to be told of
  opened,    \* files opened in an editor
  scan,      \* "search", "read" or "done"
  listed,    \* files the scan has found
  todo,      \* those among them it has not read
  reads,     \* contents on their way to the tree
  missed,    \* files whose present content could not be read, nor has been since
  tree,      \* the text whose tests the tree shows
  shown,     \* the latest version it was told of
  astray     \* the tree was last told something that is not on disk

world == <<disk, version, notice, opened>>
scanning == <<scan, listed, todo>>
items == <<tree, shown, astray>>
reading == <<reads, missed>>
vars == <<world, scanning, reading, items>>

\* Who read it, and whether it is what an editor shows instead of the file.
Reads == [file: File, text: Text, version: Nat,
          by: {"scan", "watcher", "open"}, unsaved: BOOLEAN]

TypeOK ==
  /\ disk \in [File -> Text \cup {Absent}]
  /\ version \in [File -> Nat]
  /\ notice \in [File -> {"none", "changed", "deleted"}]
  /\ opened \subseteq File
  /\ scan \in {"search", "read", "done"}
  /\ listed \subseteq File /\ todo \subseteq listed
  /\ reads \subseteq Reads
  /\ missed \subseteq File
  /\ tree \in [File -> (Text \ {Plain}) \cup {Absent}]
  /\ shown \in [File -> Nat]
  /\ astray \in [File -> BOOLEAN]

Init ==
  /\ disk \in [File -> Text \cup {Absent}]
  /\ version = [f \in File |-> 0]
  /\ notice = [f \in File |-> "none"]
  /\ opened = {}
  /\ scan = "search" /\ listed = {} /\ todo = {}
  /\ reads = {} /\ missed = {}
  /\ tree = [f \in File |-> Absent]
  /\ shown = [f \in File |-> 0]
  /\ astray = [f \in File |-> FALSE]

Read(f, by) ==
  [file |-> f, text |-> disk[f], version |-> version[f], by |-> by, unsaved |-> FALSE]

-----------------------------------------------------------------------------
(* Files change, outside the extension. *)

Change(f, x) ==
  /\ FoldFunction(+, 0, version) < MaxChanges /\ x # disk[f]
  /\ disk' = [disk EXCEPT ![f] = x]
  /\ version' = [version EXCEPT ![f] = @ + 1]
  /\ notice' = [notice EXCEPT ![f] = IF x = Absent THEN "deleted" ELSE "changed"]
  /\ missed' = missed \ {f}
  /\ UNCHANGED <<opened, scanning, reads, items>>

-----------------------------------------------------------------------------
(* Updates of the tree. *)

\* Variant: a file that declares no tests keeps an empty item.
UpdateAlways(f, x) == tree' = [tree EXCEPT ![f] = x]

\* updateTestsInFile: the item is replaced, or dropped when no test is found.
Update(f, x) == tree' = [tree EXCEPT ![f] = IF x = Plain THEN Absent ELSE x]

\* A content that was read gets to the tree, however old it is by now.
Deliver(r) ==
  /\ r \in reads
  /\ reads' = reads \ {r}
  /\ missed' = IF r.version = version[r.file] THEN missed \ {r.file} ELSE missed
  /\ Update(r.file, r.text)
  /\ shown' = [shown EXCEPT ![r.file] = IF r.version > @ THEN r.version ELSE @]
  /\ astray' = [astray EXCEPT ![r.file] = r.unsaved \/ r.version < shown[r.file]]
  /\ UNCHANGED <<world, scanning>>

\* updateTestsFromDisk, up to its await.  Every error skips the file, whether it
\* is gone or is there and cannot be read: nobody tries again.
ReadDisk(f, by) ==
  \/ /\ disk[f] # Absent
     /\ reads' = reads \cup {Read(f, by)} /\ missed' = missed
  \/ /\ reads' = reads
     /\ missed' = IF disk[f] = Absent THEN missed ELSE missed \cup {f}

\* A created or saved file is read.
Changed(f) ==
  /\ notice[f] = "changed"
  /\ notice' = [notice EXCEPT ![f] = "none"]
  /\ ReadDisk(f, "watcher")
  /\ UNCHANGED <<disk, version, opened, scanning, items>>

\* Variant: deleted files are left to the next scan.
DeletedLater(f) ==
  /\ notice[f] = "deleted"
  /\ notice' = [notice EXCEPT ![f] = "none"]
  /\ UNCHANGED <<disk, version, opened, scanning, reading, items>>

Deleted(f) ==
  /\ notice[f] = "deleted"
  /\ notice' = [notice EXCEPT ![f] = "none"]
  /\ tree' = [tree EXCEPT ![f] = Absent]
  /\ shown' = [shown EXCEPT ![f] = version[f]]
  /\ astray' = [astray EXCEPT ![f] = FALSE]
  /\ UNCHANGED <<disk, version, opened, scanning, reading>>

\* The tests are those of the editor's text, which may be an unsaved one that
\* VS Code has kept from before.
Open(f, x) ==
  /\ f \notin opened /\ Cardinality(opened) < MaxOpens /\ disk[f] # Absent
  /\ opened' = opened \cup {f}
  /\ reads' = reads \cup {[Read(f, "open") EXCEPT !.text = x, !.unsaved = (x # disk[f])]}
  /\ UNCHANGED <<disk, version, notice, scanning, missed, items>>

-----------------------------------------------------------------------------
(* registerTests. *)

\* Variant: the tree is emptied first, as it used to be.
SearchAndClear ==
  /\ scan = "search"
  /\ scan' = "read"
  /\ listed' = {f \in File : disk[f] # Absent} /\ todo' = listed'
  /\ tree' = [f \in File |-> Absent]
  /\ UNCHANGED <<world, reading, shown, astray>>

\* The files that match a test pattern, each once.
Search ==
  /\ scan = "search"
  /\ scan' = "read"
  /\ listed' = {f \in File : disk[f] # Absent} /\ todo' = listed'
  /\ UNCHANGED <<world, reading, items>>

ScanReads(f) ==
  /\ f \in todo
  /\ todo' = todo \ {f}
  /\ ReadDisk(f, "scan")
  /\ UNCHANGED <<world, scan, listed, items>>

\* All files have been read.  Those the scan has not found go, the ones made
\* meanwhile too.
Prune ==
  /\ scan = "read" /\ todo = {} /\ \A r \in reads : r.by # "scan"
  /\ scan' = "done"
  /\ tree' = [f \in File |-> IF f \in listed THEN tree[f] ELSE Absent]
  /\ astray' = [f \in File |-> IF f \in listed THEN astray[f] ELSE disk[f] # Absent]
  /\ UNCHANGED <<world, listed, todo, reading, shown>>

-----------------------------------------------------------------------------

Next ==
  \/ \E f \in File, x \in Text \cup {Absent} : Change(f, x)
  \/ \E f \in File : Changed(f) \/ Deleted(f) \/ ScanReads(f)
  \/ \E f \in File, x \in Text : Open(f, x)
  \/ \E r \in reads : Deliver(r)
  \/ Search \/ Prune

Spec == Init /\ [][Next]_vars

-----------------------------------------------------------------------------
(* Properties. *)

Quiet(f) ==
  /\ scan = "done" /\ notice[f] = "none"
  /\ \A r \in reads : r.file # f

\* "Keep the tree current" (test-controller.ts 97): once every change has been
\* told of and read, the tree shows the tests on disk.  The exceptions are the
\* four ways in which the last word on a file is an old one: a content read
\* earlier arrives later, the editor shows unsaved text, the scan drops a file
\* that was made after it had searched (astray), or the latest content of a
\* file that is there could not be read and was skipped (missed).
QuietTreeIsDisk ==
  \A f \in File :
    Quiet(f) /\ ~astray[f] /\ f \notin missed =>
      tree[f] = (IF disk[f] = Plain THEN Absent ELSE disk[f])

\* Whoever reads the tree meanwhile "sees the old tests or the new ones, never
\* an empty tree" (19-21), a scan at work or not (97-100): the tests of a file
\* that is as it always was stay where they are, whatever happens to others.
NeverBlank ==
  [][\A f \in File :
       /\ version[f] = 0 /\ tree[f] = disk[f]
       /\ \A r \in reads : r.file = f => ~r.unsaved
       => tree'[f] = tree[f]]_vars
=============================================================================
