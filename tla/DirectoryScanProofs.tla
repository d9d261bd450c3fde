------------------------- MODULE DirectoryScanProofs -------------------------
(***************************************************************************)
(* What DirectoryScan guarantees for every tree, every set of files and    *)
(* every set of exclusions: the invariant of a walk, and that a snapshot   *)
(* never calls a directory unchanged whose files or subdirectories the     *)
(* catalog does not have.                                                  *)
(***************************************************************************)
EXTENDS DirectoryScan, TLAPS

-----------------------------------------------------------------------------
(* Types.                                                                   *)

LEMMA TreeTypes ==
    /\ Root \in Dirs /\ Parent \in [Dirs \ {Root} -> Dirs]
    /\ Above \in [Dirs -> SUBSET Dirs] /\ Home \in [Files -> Dirs]
BY TreeAssumption DEF TreeAssumption

LEMMA BoundTypes == Exclusions \subseteq SUBSET (Dirs \ {Root})
BY BoundAssumption DEF BoundAssumption

LEMMA NoScanType == NoScan \in Scan
BY TreeTypes DEF NoScan, Scan, NoEntries, Absent, Unknown

\* A walk of a subtree is a scan.
LEMMA WalkTreeType ==
    ASSUME NEW s \in Scan, NEW r \in Dirs PROVE WalkTree(s, r) \in Scan
BY ZenonT(60) DEF WalkTree, Scan

\* Each step of the walk yields a scan (the actions of WalkStep).
LEMMA ScanStep == TypeOK /\ WalkStep => scan' \in Scan
<1> SUFFICES ASSUME TypeOK, WalkStep PROVE scan' \in Scan
  OBVIOUS
<1>s. scan \in Scan
  BY DEF TypeOK
<1>m. mtime \in [Dirs -> Nat] /\ catalog \subseteq Files
  BY DEF TypeOK
<1>n. \A d \in Dirs : Children(d) \in SUBSET Dirs /\ FilesOf(d) \in SUBSET Files
                      /\ Within(d) \in SUBSET Dirs
  BY DEF TypeOK, Children, FilesOf, Within
<1>u. Unknown \in Int /\ NoEntries \in [Dirs -> Int]
  BY DEF Unknown, NoEntries, Absent
<1>1. ASSUME NEW d \in Dirs, Capture(d) PROVE scan' \in Scan
  <2>0. (IF d \in unreadable THEN Unknown ELSE mtime[d]) \in Int
    BY <1>m, <1>u
  <2>1. [scan EXCEPT
           !.next[d] = IF d \in unreadable THEN Unknown ELSE mtime[d],
           !.frontier = (@ \ {d}) \cup (IF d \in unreadable THEN {} ELSE Children(d))] \in Scan
    BY <1>s, <1>n, <2>0, ZenonT(60) DEF Scan
  <2>2. [scan EXCEPT !.pc = "list", !.next = NoEntries, !.frontier = {Root}] \in Scan
    BY <1>s, <1>u, TreeTypes, ZenonT(60) DEF Scan
  <2> QED
    BY <1>1, <2>1, <2>2, NoScanType DEF Capture, Fail
<1>2. ASSUME NEW d \in Dirs, List(d) PROVE scan' \in Scan
  <2>1. [scan EXCEPT
           !.found = @ \cup FilesOf(d),
           !.frontier = (@ \ {d}) \cup (IF scan.walk = "tree" THEN Children(d) ELSE {})] \in Scan
    BY <1>s, <1>n, ZenonT(60) DEF Scan
  <2>2. [scan EXCEPT !.whole = FALSE, !.frontier = @ \ {d}] \in Scan
    BY <1>s DEF Scan
  <2> QED
    BY <1>2, <2>1, <2>2 DEF List
<1>3. ASSUME NEW d \in Dirs, Stat(d) PROVE scan' \in Scan
  <2>0. [c \in Dirs |-> IF c \in Forgotten(d) THEN Absent ELSE scan.next[c]] \in [Dirs -> Int]
    BY <1>s DEF Scan, Absent
  <2>1. [scan EXCEPT
           !.todo = @ \ Within(d),
           !.candidates = @ \cup (catalog \cap FilesIn(Within(d))),
           !.next = [c \in Dirs |-> IF c \in Forgotten(d) THEN Absent ELSE scan.next[c]]] \in Scan
    BY <1>s, <1>m, <2>0 DEF Scan
  <2>2. [scan EXCEPT !.todo = @ \ {d}, !.next[d] = Unknown, !.complete = FALSE] \in Scan
    BY <1>s, <1>u DEF Scan
  <2>3. /\ [scan EXCEPT !.todo = @ \ {d}] \in Scan
        /\ [scan EXCEPT !.todo = @ \ {d}, !.pc = "children", !.root = d, !.at = mtime[d]] \in Scan
    BY <1>s, <1>m, ZenonT(60) DEF Scan
  <2>4. LookDir(d) \in {"missing", "error", "ok"}
    BY DEF LookDir, Look
  <2> QED
    BY <1>3, <2>1, <2>2, <2>3, <2>4 DEF Stat
<1>4. ASSUME NEW d \in Dirs, Subtree(d) PROVE scan' \in Scan
  <2>1. [scan EXCEPT !.fresh = @ \ {d}] \in Scan
    BY <1>s DEF Scan
  <2> QED
    BY <1>4, <2>1, WalkTreeType DEF Subtree
<1>5. ASSUME NEW f \in Files, CatalogFile(f) PROVE scan' \in Scan
  <2> DEFINE ok == LookFile(f) = "ok"
             read == scan.whole /\ LookFile(f) # "error"
  <2>1. scan' = [scan EXCEPT !.found = @ \ {f}, !.seen = IF ok THEN @ \cup {f} ELSE @,
                             !.whole = read]
    BY <1>5 DEF CatalogFile
  <2>2. read \in BOOLEAN /\ (IF ok THEN scan.seen \cup {f} ELSE scan.seen) \in SUBSET Files
    BY <1>s DEF Scan
  <2> HIDE DEF ok, read
  <2> QED
    BY <1>s, <2>1, <2>2, ZenonT(60) DEF Scan
<1>6. ASSUME NEW f \in Files, Check(f) PROVE scan' \in Scan
  <2>1. /\ [scan EXCEPT !.candidates = @ \ {f}] \in Scan
        /\ [scan EXCEPT !.candidates = @ \ {f}, !.pc = "confirm", !.found = {f}] \in Scan
    BY <1>s DEF Scan
  <2>2. LookFile(f) \in {"missing", "error", "ok"}
    BY DEF LookFile, Look
  <2> QED
    BY <1>6, <2>1, <2>2, NoScanType DEF Check, Fail
<1>7. ASSUME NEW f \in Files, Confirm(f) PROVE scan' \in Scan
  <2>1. [scan EXCEPT !.pc = "check", !.found = {}, !.doomed = @ \cup {f}] \in Scan
    BY <1>s DEF Scan
  <2> QED
    BY <1>7, <2>1, NoScanType DEF Confirm, Fail
<1>8. CASE CaptureEnds \/ ListEnds
  <2>1. CASE CaptureEnds
    BY <1>s, <2>1, ZenonT(60) DEF CaptureEnds, Scan
  <2>2. CASE ListEnds
    BY <1>s, <2>2 DEF ListEnds, Scan
  <2> QED
    BY <1>8, <2>1, <2>2
<1>9. CASE WalkEnds
  <2>1. Unseen \in SUBSET Files /\ Recorded \in Int
    BY <1>s, <1>m DEF Unseen, Recorded, Unknown, Scan
  <2> DEFINE candidates == IF scan.whole THEN scan.candidates \cup Unseen ELSE scan.candidates
             recorded == IF scan.walk = "dir" THEN Recorded ELSE scan.next[scan.root]
             pc == CASE scan.full -> IF scan.whole THEN "reconcile" ELSE "save"
                     [] ~scan.full -> IF scan.walk = "dir" THEN "stat" ELSE "subtrees"
             complete == scan.complete /\ scan.whole
  <2>2. scan' = [scan EXCEPT !.complete = complete, !.candidates = candidates,
                             !.next[scan.root] = recorded, !.pc = pc]
    BY <1>9 DEF WalkEnds
  <2>3. complete \in BOOLEAN /\ candidates \in SUBSET Files /\ recorded \in Int
    BY <1>s, <2>1 DEF Scan
  <2>4. pc \in {"reconcile", "save", "stat", "subtrees"}
    BY <1>s DEF Scan
  <2> HIDE DEF candidates, recorded, pc, complete
  <2> QED
    BY <1>s, <2>2, <2>3, <2>4, ZenonT(60) DEF Scan
<1>10. CASE NewChildren
  <2>1. [scan EXCEPT
           !.fresh = @ \cup {c \in Children(scan.root) : scan.known[c] = Absent},
           !.pc = "list", !.walk = "dir", !.frontier = {scan.root},
           !.found = {}, !.seen = {}, !.whole = TRUE] \in Scan
    BY <1>s, <1>n, ZenonT(60) DEF Scan
  <2>2. [scan EXCEPT !.pc = "stat", !.next[scan.root] = Unknown, !.complete = FALSE] \in Scan
    BY <1>s, <1>u DEF Scan
  <2> QED
    BY <1>10, <2>1, <2>2 DEF NewChildren
<1>11. CASE StatEnds \/ SubtreesEnd \/ Delete \/ Save
  BY <1>s, <1>11 DEF StatEnds, SubtreesEnd, Delete, Save, Scan
<1>12. CASE Reconcile
  <2>1. [scan EXCEPT !.pc = "check", !.candidates = @ \ FilesIn(Hidden(scan.exclude))] \in Scan
    BY <1>s DEF Scan
  <2> QED
    BY <1>12, <2>1, NoScanType DEF Reconcile, Fail
<1>13. CASE ChecksEnd
  <2>1. /\ [scan EXCEPT !.pc = "save"] \in Scan /\ [scan EXCEPT !.pc = "delete"] \in Scan
        /\ [scan EXCEPT !.rechecked = TRUE, !.candidates = scan.doomed, !.doomed = {}] \in Scan
    BY <1>s DEF Scan
  <2> QED
    BY <1>13, <2>1, NoScanType DEF ChecksEnd, Fail
<1>14. CASE Finish \/ Abort
  BY <1>14, NoScanType DEF Finish, Abort
<1> QED
  BY <1>1, <1>2, <1>3, <1>4, <1>5, <1>6, <1>7, <1>8, <1>9, <1>10, <1>11, <1>12, <1>13, <1>14
     DEF WalkStep

LEMMA TypeInit == Init => TypeOK
BY TreeTypes, NoScanType DEF Init, TypeOK, NoEntries, Absent, FilesIn

LEMMA ChangeType ==
    ASSUME TypeOK, NEW newDirs \in SUBSET Dirs, NEW newFiles \in SUBSET Files, NEW touched,
           Change(newDirs, newFiles, touched)
    PROVE  TypeOK'
BY DEF Change, TypeOK, stored

LEMMA TypeStep == TypeOK /\ [Next]_vars => TypeOK'
<1> SUFFICES ASSUME TypeOK, [Next]_vars PROVE TypeOK'
  OBVIOUS
<1> USE TreeTypes
<1>1. ASSUME NEW wantFull \in BOOLEAN, Begin(wantFull) PROVE TypeOK'
  <2> DEFINE new == [NoScan EXCEPT !.exclude = exclude]
  <2>1. new \in Scan /\ [new EXCEPT !.full = TRUE] \in Scan
    BY NoScanType DEF Scan, TypeOK
  <2>2. WalkTree([new EXCEPT !.full = TRUE], Root) \in Scan
    BY <2>1, WalkTreeType
  <2>3. [new EXCEPT !.pc = "stat", !.known = snapshot.at, !.next = snapshot.at,
                    !.todo = {d \in Dirs : snapshot.at[d] # Absent}] \in Scan
    BY <2>1, ZenonT(60) DEF Scan, TypeOK
  <2>4. scan' \in Scan
    BY <1>1, <2>2, <2>3 DEF Begin
  <2> QED
    BY <1>1, <2>4 DEF Begin, TypeOK, disk, stored
<1>2. CASE WalkStep
  <2>1. scan' \in Scan
    BY <1>2, ScanStep
  <2>2. UNCHANGED <<disk, exclude, steady, sighted>>
    BY <1>2 DEF WalkStep, Capture, List, Stat, Subtree, CatalogFile, Check, Confirm,
       CaptureEnds, ListEnds, WalkEnds, NewChildren, StatEnds, SubtreesEnd, Reconcile,
       ChecksEnd, Delete, Save, Finish, Abort
  <2>3. catalog' \subseteq Files
    <3>1. ASSUME NEW f \in Files, CatalogFile(f) PROVE catalog' \subseteq Files
      BY <3>1 DEF CatalogFile, TypeOK
    <3>2. CASE Delete
      BY <3>2 DEF Delete, TypeOK
    <3>3. CASE UNCHANGED catalog
      BY <3>3 DEF TypeOK
    <3> QED
      BY <1>2, <3>1, <3>2, <3>3 DEF WalkStep, Capture, List, Stat, Subtree, Check, Confirm,
         CaptureEnds, ListEnds, WalkEnds, NewChildren, StatEnds, SubtreesEnd, Reconcile,
         ChecksEnd, Save, Finish, Abort, stored
  <2>4. snapshot' \in [key : SUBSET (Dirs \ {Root}), at : [Dirs -> Int]]
    <3>1. CASE Save
      BY <3>1 DEF Save, TypeOK, Scan
    <3>2. CASE UNCHANGED snapshot
      BY <3>2 DEF TypeOK
    <3> QED
      BY <1>2, <3>1, <3>2 DEF WalkStep, Capture, List, Stat, Subtree, CatalogFile, Check,
         Confirm, CaptureEnds, ListEnds, WalkEnds, NewChildren, StatEnds, SubtreesEnd,
         Reconcile, ChecksEnd, Delete, Finish, Abort, stored
  <2> QED
    BY <2>1, <2>2, <2>3, <2>4 DEF TypeOK, disk
<1>3. CASE WorldStep
  <2>1. ASSUME NEW f \in Files, AddFile(f) \/ RemoveFile(f) PROVE TypeOK'
    BY <2>1, ChangeType DEF AddFile, RemoveFile, TypeOK
  <2>2. ASSUME NEW d \in Dirs \ {Root}, AddDir(d) PROVE TypeOK'
    BY <2>2, ChangeType DEF AddDir, Within, FilesIn, TypeOK
  <2>3. ASSUME NEW d \in Dirs \ {Root}, RemoveDir(d) PROVE TypeOK'
    BY <2>3, ChangeType DEF RemoveDir, Within, FilesIn, TypeOK
  <2>4. CASE Fault
    <3>1. online' \in BOOLEAN
      BY <2>4, Zenon DEF Fault, TypeOK
    <3>2. unreadable' \subseteq Dirs
      BY <2>4 DEF Fault, TypeOK
    <3>3. faults' \in Nat
      BY <2>4 DEF Fault, TypeOK
    <3> QED
      BY <2>4, <3>1, <3>2, <3>3 DEF Fault, TypeOK, stored
  <2>5. ASSUME NEW ex \in Exclusions, SetExclude(ex) PROVE TypeOK'
    BY <2>5, BoundTypes DEF SetExclude, TypeOK, disk, stored
  <2>6. CASE Purge
    BY <2>6 DEF Purge, TypeOK, disk
  <2> QED
    BY <1>3, <2>1, <2>2, <2>3, <2>4, <2>5, <2>6 DEF WorldStep
<1>4. CASE UNCHANGED vars
  BY <1>4 DEF vars, TypeOK, disk, stored
<1> QED
  BY <1>1, <1>2, <1>3, <1>4 DEF Next

\* The state has its types at all times (the type invariant).
THEOREM ScanTypeCorrect == Spec => []TypeOK
BY TypeInit, TypeStep, PTL DEF Spec

-----------------------------------------------------------------------------
(* The tree of directories.                                                 *)

LEMMA AboveTypes == Dirs \subseteq Nat /\ Root \in Dirs /\ Above[Root] = {Root}
BY TreeAssumption DEF TreeAssumption

LEMMA AboveSelf == \A d \in Dirs : d \in Above[d] /\ Root \in Above[d] /\ Above[d] \subseteq Dirs
<1> TAKE d \in Dirs
<1>1. Above[d] \subseteq Dirs /\ Root \in Above[d]
  BY TreeAssumption DEF TreeAssumption
<1>2. CASE d = Root
  BY <1>1, <1>2
<1>3. CASE d # Root
  BY <1>1, <1>3, TreeAssumption DEF TreeAssumption
<1> QED
  BY <1>1, <1>2, <1>3

LEMMA AboveParent ==
    ASSUME NEW d \in Dirs, d # Root
    PROVE  /\ Parent[d] \in Dirs /\ Parent[d] < d
           /\ Above[d] = {d} \cup Above[Parent[d]] /\ d \notin Above[Parent[d]]
<1>1. Parent[d] \in Dirs
  BY TreeAssumption DEF TreeAssumption
<1>2. Above[d] = {d} \cup Above[Parent[d]] /\ d \notin Above[Parent[d]]
  BY TreeAssumption DEF TreeAssumption
<1>3. Parent[d] \in Above[d] /\ Parent[d] # d
  BY <1>1, <1>2, AboveSelf
<1>4. \A c \in Above[d] : c <= d
  BY TreeAssumption DEF TreeAssumption
<1>5. Parent[d] \in Nat /\ d \in Nat /\ Parent[d] <= d
  BY <1>1, <1>3, <1>4, AboveTypes
<1>6. Parent[d] < d
  BY <1>3, <1>5
<1> QED
  BY <1>1, <1>2, <1>6

\* What lies above a directory above d lies above d, and comes no later.
LEMMA AboveTrans ==
    ASSUME NEW d \in Dirs, NEW c \in Above[d] PROVE c \in Dirs /\ c <= d /\ Above[c] \subseteq Above[d]
BY TreeAssumption DEF TreeAssumption

\* A directory below a hidden one is hidden (Hidden).
LEMMA HiddenBelow ==
    ASSUME NEW ex, NEW d \in Dirs, d \notin Hidden(ex), NEW c \in Above[d] PROVE c \notin Hidden(ex)
<1> SUFFICES ASSUME c \in Hidden(ex) PROVE FALSE
  OBVIOUS
<1>1. Above[c] \subseteq Above[d] /\ Above[c] \cap ex # {}
  BY AboveTrans DEF Hidden
<1> QED
  BY <1>1 DEF Hidden

LEMMA RootShown == ASSUME NEW ex \in SUBSET (Dirs \ {Root}) PROVE Root \notin Hidden(ex)
BY AboveTypes DEF Hidden

-----------------------------------------------------------------------------
(* The walk.                                                                *)

LEMMA ScanInvIdle ==
    ASSUME TypeOK', scan' = NoScan, Tree(snapshot.at, snapshot.key)' PROVE ScanInv'
<1>1. /\ scan'.pc = "idle" /\ ~scan'.full /\ scan'.next = NoEntries
      /\ scan'.known = NoEntries /\ scan'.todo = {} /\ scan'.fresh = {} /\ scan'.doomed = {}
  BY DEF NoScan
<1>2. \A d \in Dirs : NoEntries[d] = Absent
  BY DEF NoEntries
<1>3. Tree(scan.next, scan.exclude)' /\ Tree(scan.known, scan.exclude)'
  BY <1>1, <1>2 DEF Tree
<1>4. TodoInv'
  BY <1>1, <1>2 DEF TodoInv, Checking, DirWalk
<1>5. FreshInv'
  BY <1>1 DEF FreshInv
<1>6. FrontierInv'
  BY <1>1 DEF FrontierInv, DirWalk
<1> QED
  BY <1>3, <1>4, <1>5, <1>6 DEF ScanInv

LEMMA ScanTyped == ScanInv => TypeOK /\ scan \in Scan
BY DEF ScanInv, TypeOK

\* A step that changes neither what is recorded nor what is still to be looked
\* at keeps the invariant.
LEMMA ScanInvMove ==
    ASSUME ScanInv, TypeOK', Tree(snapshot.at, snapshot.key)', FrontierInv',
           scan'.exclude = scan.exclude, scan'.known = scan.known, scan'.next = scan.next,
           scan'.todo = scan.todo, scan'.fresh = scan.fresh, scan'.full = scan.full,
           scan'.walk = scan.walk, scan'.root = scan.root,
           Checking' => Checking,
           scan.todo # {} => scan'.pc = "stat" \/ Checking',
           scan.full => scan'.pc \notin {"stat", "children", "subtrees"},
           scan'.pc \in {"idle", "reconcile", "check", "confirm", "delete", "save", "done"}
              => scan.fresh = {}
    PROVE  ScanInv'
<1>1. Tree(scan.next, scan.exclude)' /\ Tree(scan.known, scan.exclude)'
  BY DEF ScanInv, Tree
<1>2. TodoInv'
  BY DEF ScanInv, TodoInv
<1>3. FreshInv'
  BY DEF ScanInv, FreshInv
<1> QED
  BY <1>1, <1>2, <1>3 DEF ScanInv

LEMMA ScanInvInit == Init => ScanInv
<1> SUFFICES ASSUME Init PROVE ScanInv
  OBVIOUS
<1>1. TypeOK
  BY TypeInit
<1>2. /\ scan.pc = "idle" /\ ~scan.full /\ scan.next = NoEntries /\ snapshot.at = NoEntries
      /\ scan.known = NoEntries /\ scan.todo = {} /\ scan.fresh = {} /\ scan.doomed = {}
  BY DEF Init, NoScan
<1>3. \A d \in Dirs : NoEntries[d] = Absent
  BY DEF NoEntries
<1> QED
  BY <1>1, <1>2, <1>3
     DEF ScanInv, Tree, TodoInv, FreshInv, FrontierInv, Checking, DirWalk

\* The steps of the walk keep the invariant.
LEMMA ScanInvBegin ==
    ASSUME ScanInv, TypeOK', NEW wantFull \in BOOLEAN, Begin(wantFull) PROVE ScanInv'
<1>t. TypeOK
  BY DEF ScanInv
<1>1. snapshot' = snapshot /\ Tree(snapshot.at, snapshot.key)'
  BY DEF Begin, stored, ScanInv, Tree
<1>2. \A d \in Dirs : NoEntries[d] = Absent
  BY DEF NoEntries
<1>3. CASE wantFull \/ ~SnapshotValid
  <2>1. /\ scan'.pc = "capture" /\ scan'.full /\ scan'.exclude = exclude
        /\ scan'.next = NoEntries /\ scan'.known = NoEntries
        /\ scan'.todo = {} /\ scan'.fresh = {} /\ scan'.doomed = {}
        /\ scan'.walk = "tree" /\ scan'.root = Root /\ scan'.frontier = {Root}
    BY <1>3 DEF Begin, WalkTree, NoScan
  <2>2. Root \in Within(Root) /\ Root \notin Hidden(exclude)
    BY <1>t, AboveTypes, RootShown DEF Within, TypeOK
  <2> QED
    BY <1>1, <1>2, <2>1, <2>2
       DEF ScanInv, Tree, TodoInv, FreshInv, FrontierInv, Checking, DirWalk
<1>4. CASE ~(wantFull \/ ~SnapshotValid)
  <2>1. /\ scan'.pc = "stat" /\ ~scan'.full /\ scan'.exclude = exclude
        /\ scan'.next = snapshot.at /\ scan'.known = snapshot.at
        /\ scan'.todo = {d \in Dirs : snapshot.at[d] # Absent}
        /\ scan'.fresh = {} /\ scan'.doomed = {}
    BY <1>4 DEF Begin, NoScan
  <2>2. snapshot.key = exclude
    BY <1>4 DEF SnapshotValid
  <2>3. Tree(scan.next, scan.exclude)' /\ Tree(scan.known, scan.exclude)'
    BY <2>1, <2>2 DEF ScanInv, Tree
  <2> QED
    BY <1>1, <2>1, <2>3
       DEF ScanInv, TodoInv, FreshInv, FrontierInv, Checking, DirWalk
<1> QED
  BY <1>3, <1>4

LEMMA ScanInvCapture ==
    ASSUME ScanInv, TypeOK', NEW d \in Dirs, Capture(d) PROVE ScanInv'
<1>t. TypeOK /\ scan \in Scan
  BY DEF ScanInv, TypeOK
<1>0. scan.pc = "capture" /\ d \in scan.frontier /\ snapshot' = snapshot
  BY DEF Capture, stored
<1>1. Tree(snapshot.at, snapshot.key)'
  BY <1>0 DEF ScanInv, Tree
<1>2. scan.walk = "tree" /\ scan.todo = {}
  BY <1>0 DEF ScanInv, FrontierInv, TodoInv, Checking, DirWalk
<1>3. CASE LookDir(d) = "ok"
  <2>1. /\ scan'.pc = "capture" /\ scan'.full = scan.full /\ scan'.exclude = scan.exclude
        /\ scan'.known = scan.known /\ scan'.todo = scan.todo /\ scan'.fresh = scan.fresh
        /\ scan'.doomed = scan.doomed /\ scan'.walk = scan.walk /\ scan'.root = scan.root
        /\ scan'.next = [scan.next EXCEPT ![d] = IF d \in unreadable THEN Unknown ELSE mtime[d]]
        /\ scan'.frontier = (scan.frontier \ {d})
                               \cup (IF d \in unreadable THEN {} ELSE Children(d))
    <3>1. scan' = [scan EXCEPT
                     !.next[d] = IF d \in unreadable THEN Unknown ELSE mtime[d],
                     !.frontier = (@ \ {d}) \cup (IF d \in unreadable THEN {} ELSE Children(d))]
      BY <1>3 DEF Capture
    <3> QED
      BY <1>0, <1>t, <3>1 DEF Scan
  <2>2. scan'.next[d] # Absent /\ \A c \in Dirs \ {d} : scan'.next[c] = scan.next[c]
    BY <1>t, <2>1 DEF Scan, TypeOK, Absent, Unknown
  <2>3. Tree(scan.next, scan.exclude)'
    <3> SUFFICES ASSUME NEW x \in Dirs, scan'.next[x] # Absent
                 PROVE  x \notin Hidden(scan.exclude) /\ \A c \in Above[x] : scan'.next[c] # Absent
      BY <2>1 DEF Tree
    <3>1. CASE x # d
      BY <3>1, <2>2, AboveSelf DEF ScanInv, Tree
    <3>2. CASE x = d /\ d = Root
      BY <1>0, <3>2, <2>2, AboveTypes DEF ScanInv, FrontierInv
    <3>3. CASE x = d /\ d # Root
      <4>1. d \notin Hidden(scan.exclude) /\ scan.next[Parent[d]] # Absent
        BY <1>0, <3>3 DEF ScanInv, FrontierInv
      <4>2. \A c \in Above[Parent[d]] : scan.next[c] # Absent
        BY <4>1, <3>3, AboveParent DEF ScanInv, Tree
      <4> QED
        BY <3>3, <4>1, <4>2, <2>2, AboveParent, AboveSelf
    <3> QED
      BY <3>1, <3>2, <3>3
  <2>4. Tree(scan.known, scan.exclude)'
    BY <2>1 DEF ScanInv, Tree
  <2>5. TodoInv'
    BY <1>2, <2>1 DEF TodoInv, Checking, DirWalk
  <2>6. FreshInv'
    <3>1. \A c \in scan.fresh : Parent[c] \in Dirs
      BY <1>t, AboveParent DEF ScanInv, FreshInv, Scan
    <3> QED
      BY <1>0, <2>1, <2>2, <3>1 DEF ScanInv, FreshInv
  <2>7. FrontierInv'
    <3>1. \A c \in Children(d) : /\ c \in Dirs \ {Root} /\ Parent[c] = d
                                 /\ c \notin Hidden(scan.exclude)
      BY <1>t DEF Children, TypeOK
    <3>2. d \in Within(scan.root)
      BY <1>0 DEF ScanInv, FrontierInv
    <3>3. \A c \in Children(d) : c \in Within(scan.root)
      BY <3>1, <3>2, AboveParent DEF Within
    <3>4. \A c \in scan.frontier : c \in Dirs /\ (c # Root => Parent[c] \in Dirs)
      BY <1>t, AboveParent DEF Scan
    <3>5. ASSUME NEW c \in scan'.frontier
          PROVE  /\ c \in Within(scan.root) /\ c \notin Hidden(scan.exclude)
                 /\ c # Root => scan'.next[Parent[c]] # Absent
      <4>1. CASE c \in scan.frontier
        BY <4>1, <1>0, <2>2, <3>4 DEF ScanInv, FrontierInv
      <4>2. CASE c \in Children(d)
        BY <4>2, <2>2, <3>1, <3>3
      <4> QED
        BY <2>1, <3>5, <4>1, <4>2
    <3> QED
      BY <1>0, <1>2, <2>1, <3>5 DEF FrontierInv, ScanInv, DirWalk, Within
  <2> QED
    BY <1>1, <2>3, <2>4, <2>5, <2>6, <2>7 DEF ScanInv
<1>4. CASE LookDir(d) # "ok" /\ scan.full
  <2>1. /\ scan'.pc = "list" /\ scan'.full = scan.full /\ scan'.exclude = scan.exclude
        /\ scan'.known = scan.known /\ scan'.todo = scan.todo /\ scan'.fresh = scan.fresh
        /\ scan'.doomed = scan.doomed /\ scan'.walk = scan.walk /\ scan'.next = NoEntries
    <3>1. scan' = [scan EXCEPT !.pc = "list", !.next = NoEntries, !.frontier = {Root}]
      BY <1>4 DEF Capture
    <3> QED
      BY <1>0, <1>t, <3>1 DEF Scan
  <2>2. \A c \in Dirs : NoEntries[c] = Absent
    BY DEF NoEntries
  <2>3. Tree(scan.next, scan.exclude)' /\ Tree(scan.known, scan.exclude)'
    BY <2>1, <2>2 DEF ScanInv, Tree
  <2>4. TodoInv'
    BY <1>2, <2>1 DEF TodoInv, Checking, DirWalk
  <2>5. FreshInv' /\ FrontierInv'
    BY <1>0, <1>2, <1>4, <2>1 DEF ScanInv, FreshInv, FrontierInv, DirWalk
  <2> QED
    BY <1>1, <2>3, <2>4, <2>5 DEF ScanInv
<1>5. CASE LookDir(d) # "ok" /\ ~scan.full
  BY <1>1, <1>5, ScanInvIdle DEF Capture, Fail
<1> QED
  BY <1>3, <1>4, <1>5

\* Listing and cataloging, and the ends of the phases of a walk.
LEMMA ScanInvWalk ==
    ASSUME ScanInv, TypeOK',
           \/ \E d \in Dirs : List(d)
           \/ \E f \in Files : CatalogFile(f)
           \/ CaptureEnds \/ ListEnds
    PROVE  ScanInv'
<1>t. TypeOK /\ scan \in Scan
  BY DEF ScanInv, TypeOK
<1> DEFINE Moved ==
          /\ scan.pc \in {"capture", "list", "catalog"} /\ scan'.pc \in {"list", "catalog"}
          /\ scan.pc = "capture" => scan'.frontier = {scan.root}
          /\ scan.pc # "capture" => scan'.frontier \subseteq scan.frontier \/ scan.walk = "tree"
          /\ scan'.exclude = scan.exclude /\ scan'.known = scan.known /\ scan'.next = scan.next
          /\ scan'.todo = scan.todo /\ scan'.fresh = scan.fresh /\ scan'.full = scan.full
          /\ scan'.walk = scan.walk /\ scan'.root = scan.root /\ scan'.doomed = scan.doomed
          /\ snapshot' = snapshot
<1>1. Moved
  <2>1. ASSUME NEW d \in Dirs, List(d) PROVE Moved
    <3>0. scan.pc = "list" /\ snapshot' = snapshot
      BY <2>1 DEF List, stored
    <3>1. CASE Readable(d)
      <4>1. \E found \in SUBSET Files, frontier \in SUBSET Dirs :
               /\ scan' = [scan EXCEPT !.found = found, !.frontier = frontier]
               /\ frontier \subseteq scan.frontier \/ scan.walk = "tree"
        <5>1. /\ scan.found \cup FilesOf(d) \in SUBSET Files
              /\ (scan.frontier \ {d}) \cup
                    (IF scan.walk = "tree" THEN Children(d) ELSE {}) \in SUBSET Dirs
          BY <1>t DEF Scan, TypeOK, FilesOf, Children
        <5> QED
          BY <2>1, <3>1, <5>1 DEF List
      <4> QED
        BY <1>t, <3>0, <4>1 DEF Scan
    <3>2. CASE ~Readable(d)
      <4>1. scan' = [scan EXCEPT !.whole = FALSE, !.frontier = @ \ {d}]
        BY <2>1, <3>2 DEF List
      <4> QED
        BY <1>t, <3>0, <4>1 DEF Scan
    <3> HIDE DEF Moved
    <3> QED
      BY <3>1, <3>2, ZenonT(60)
  <2>2. ASSUME NEW f \in Files, CatalogFile(f) PROVE Moved
    BY <1>t, <2>2 DEF CatalogFile, Scan
  <2>3. CASE CaptureEnds
    BY <1>t, <2>3 DEF CaptureEnds, Scan, stored
  <2>4. CASE ListEnds
    BY <1>t, <2>4 DEF ListEnds, Scan, stored
  <2> QED
    BY <2>1, <2>2, <2>3, <2>4
<1>2. scan.pc = "capture" => scan.walk = "tree"
  BY DEF ScanInv, FrontierInv
<1>3. DirWalk' => DirWalk
  BY <1>1, <1>2 DEF DirWalk
<1>4. FrontierInv'
  BY <1>1, <1>2, <1>3 DEF FrontierInv, ScanInv, DirWalk
<1>5. Checking' => Checking
  BY <1>1, <1>3 DEF Checking
<1>6. scan.todo # {} => Checking'
  BY <1>1, <1>2 DEF ScanInv, TodoInv, Checking, DirWalk
<1>7. Tree(snapshot.at, snapshot.key)'
  BY <1>1 DEF ScanInv, Tree
<1> QED
  BY <1>1, <1>4, <1>5, <1>6, <1>7, ScanInvMove

LEMMA ScanInvWalkEnds ==
    ASSUME ScanInv, TypeOK', WalkEnds PROVE ScanInv'
<1>t. TypeOK /\ scan \in Scan
  BY DEF ScanInv, TypeOK
<1>0. Recorded \in Nat
  BY <1>t DEF Recorded, Unknown, Scan
<1>1. /\ scan.pc = "catalog"
      /\ scan'.exclude = scan.exclude /\ scan'.known = scan.known
      /\ scan'.todo = scan.todo /\ scan'.fresh = scan.fresh /\ scan'.full = scan.full
      /\ scan'.walk = scan.walk /\ scan'.root = scan.root /\ scan'.doomed = scan.doomed
      /\ scan'.next = [scan.next EXCEPT
                          ![scan.root] = IF scan.walk = "dir" THEN Recorded ELSE @]
      /\ scan'.pc = CASE scan.full -> IF scan.whole THEN "reconcile" ELSE "save"
                      [] ~scan.full -> IF scan.walk = "dir" THEN "stat" ELSE "subtrees"
      /\ snapshot' = snapshot
  BY <1>t, <1>0 DEF WalkEnds, Scan, stored
<1>2. /\ scan.full => scan'.pc \in {"reconcile", "save"}
      /\ ~scan.full => scan'.pc \in {"stat", "subtrees"}
      /\ scan'.pc = "stat" <=> (scan.walk = "dir" /\ ~scan.full)
  BY <1>1
<1>3. \A c \in Dirs : scan'.next[c] # Absent <=> scan.next[c] # Absent
  <2>1. scan.walk = "dir" => scan.next[scan.root] # Absent
    BY <1>1 DEF ScanInv, TodoInv, Checking, DirWalk
  <2> QED
    BY <1>t, <1>0, <1>1, <2>1 DEF Scan, Absent
<1>4. Tree(scan.next, scan.exclude)' /\ Tree(scan.known, scan.exclude)'
  BY <1>1, <1>3, AboveSelf DEF ScanInv, Tree
<1>5. TodoInv'
  <2>1. /\ ~Checking' /\ scan.todo \subseteq Dirs
        /\ \A c \in Dirs \ {Root} : Parent[c] \in Dirs
    BY <1>t, <1>1, <1>2, AboveParent DEF Checking, DirWalk, Scan
  <2>2. scan'.pc = "stat" \/ scan.todo = {}
    BY <1>1, <1>2 DEF ScanInv, TodoInv, FreshInv, Checking, DirWalk
  <2> QED
    BY <1>1, <1>3, <2>1, <2>2 DEF ScanInv, TodoInv
<1>6. FreshInv'
  <2>1. \A c \in scan.fresh : Parent[c] \in Dirs
    BY <1>t, AboveParent DEF ScanInv, FreshInv, Scan
  <2> QED
    BY <1>1, <1>2, <1>3, <2>1 DEF ScanInv, FreshInv
<1>7. FrontierInv'
  BY <1>1, <1>2 DEF ScanInv, FrontierInv, DirWalk
<1>8. Tree(snapshot.at, snapshot.key)'
  BY <1>1 DEF ScanInv, Tree
<1> QED
  BY <1>4, <1>5, <1>6, <1>7, <1>8 DEF ScanInv

LEMMA ScanInvStat ==
    ASSUME ScanInv, TypeOK', NEW d \in Dirs, Stat(d) PROVE ScanInv'
<1>t. TypeOK /\ scan \in Scan
  BY DEF ScanInv, TypeOK
<1>0. /\ scan.pc = "stat" /\ d \in scan.todo /\ (\A c \in scan.todo : d <= c)
      /\ snapshot' = snapshot
  BY DEF Stat, Earliest, stored
<1>d. Dirs \subseteq Nat /\ scan.todo \subseteq Dirs
      /\ \A c \in Dirs \ {Root} : Parent[c] \in Dirs /\ Parent[c] < c
  BY <1>t, AboveTypes, AboveParent DEF Scan
<1>1. ~scan.full /\ scan.doomed = {} /\ scan.next[d] # Absent /\ scan.known[d] # Absent
  BY <1>0 DEF ScanInv, TodoInv, FreshInv, FrontierInv
<1>2. Tree(snapshot.at, snapshot.key)'
  BY <1>0 DEF ScanInv, Tree
<1>3. CASE LookDir(d) = "missing"
  <2>1. /\ scan'.pc = "stat" /\ scan'.full = scan.full /\ scan'.exclude = scan.exclude
        /\ scan'.known = scan.known /\ scan'.todo = scan.todo \ Within(d)
        /\ scan'.fresh = scan.fresh /\ scan'.doomed = scan.doomed
        /\ scan'.next = [c \in Dirs |-> IF c \in Within(d) THEN Absent ELSE scan.next[c]]
    <3>1. scan' = [scan EXCEPT
                     !.todo = @ \ Within(d),
                     !.candidates = @ \cup (catalog \cap FilesIn(Within(d))),
                     !.next = [c \in Dirs |-> IF c \in Within(d) THEN Absent ELSE scan.next[c]]]
      BY <1>3 DEF Stat, Forgotten
    <3> QED
      BY <1>t, <1>0, <3>1 DEF Scan
  <2>2. d \in Within(d)
    BY AboveSelf DEF Within
  <2>3. Tree(scan.next, scan.exclude)'
    <3> SUFFICES ASSUME NEW x \in Dirs, scan'.next[x] # Absent
                 PROVE  x \notin Hidden(scan.exclude) /\ \A c \in Above[x] : scan'.next[c] # Absent
      BY <2>1 DEF Tree
    <3>1. x \notin Within(d) /\ scan.next[x] # Absent
      BY <2>1
    <3>2. \A c \in Above[x] : c \in Dirs /\ c \notin Within(d)
      BY <3>1, AboveTrans DEF Within
    <3> QED
      BY <2>1, <3>1, <3>2 DEF ScanInv, Tree
  <2>4. Tree(scan.known, scan.exclude)'
    BY <2>1 DEF ScanInv, Tree
  <2>5. TodoInv'
    <3>1. \A t \in scan'.todo : scan'.next[t] # Absent /\ scan'.known[t] # Absent
      BY <1>d, <2>1 DEF ScanInv, TodoInv
    <3>2. ASSUME NEW c \in Dirs \ {Root}, scan'.known[c] # Absent, scan'.next[c] = Absent,
                 scan'.next[Parent[c]] # Absent
          PROVE  \A t \in scan'.todo : c < t
      <4>1. Parent[c] \notin Within(d) /\ scan.next[Parent[c]] # Absent
        BY <1>d, <2>1, <3>2
      <4>2. CASE c \notin Within(d)
        BY <2>1, <3>2, <4>1, <4>2 DEF ScanInv, TodoInv
      <4>3. CASE c \in Within(d)
        <5>1. c = d
          BY <1>d, <4>1, <4>3, AboveParent DEF Within
        <5> QED
          BY <1>0, <1>d, <2>1, <2>2, <5>1
      <4> QED
        BY <4>2, <4>3
    <3> QED
      BY <2>1, <3>1, <3>2 DEF TodoInv, Checking, DirWalk
  <2>6. FreshInv'
    <3>1. ASSUME NEW c \in scan.fresh PROVE scan'.next[Parent[c]] # Absent
      <4>1. /\ c \in Dirs \ {Root} /\ Parent[c] \in Dirs /\ Parent[c] < d
            /\ scan.next[Parent[c]] # Absent
        BY <1>t, <1>0, <1>d DEF ScanInv, FreshInv, Scan
      <4>2. Parent[c] \notin Within(d)
        <5>1. d \in Above[Parent[c]] => d <= Parent[c]
          BY <4>1, AboveTrans
        <5>2. ~(d <= Parent[c])
          <6>1. Parent[c] \in Nat /\ d \in Nat
            BY <1>d, <4>1
          <6> QED
            BY <4>1, <6>1
        <5> QED
          BY <5>1, <5>2 DEF Within
      <4> QED
        BY <2>1, <4>1, <4>2
    <3> QED
      BY <1>1, <2>1, <3>1 DEF ScanInv, FreshInv
  <2>7. FrontierInv'
    BY <1>1, <2>1 DEF FrontierInv, DirWalk
  <2> QED
    BY <1>2, <2>3, <2>4, <2>5, <2>6, <2>7 DEF ScanInv
<1>4. CASE LookDir(d) = "error"
  <2>1. /\ scan'.pc = "stat" /\ scan'.full = scan.full /\ scan'.exclude = scan.exclude
        /\ scan'.known = scan.known /\ scan'.todo = scan.todo \ {d}
        /\ scan'.fresh = scan.fresh /\ scan'.doomed = scan.doomed
        /\ scan'.next = [scan.next EXCEPT ![d] = Unknown]
    <3>1. scan' = [scan EXCEPT !.todo = @ \ {d}, !.next[d] = Unknown, !.complete = FALSE]
      BY <1>4 DEF Stat
    <3> QED
      BY <1>t, <1>0, <3>1 DEF Scan
  <2>2. \A c \in Dirs : scan'.next[c] # Absent <=> scan.next[c] # Absent
    BY <1>t, <1>1, <2>1 DEF Scan, Absent, Unknown
  <2>3. Tree(scan.next, scan.exclude)' /\ Tree(scan.known, scan.exclude)'
    BY <2>1, <2>2, AboveSelf DEF ScanInv, Tree
  <2>4. TodoInv'
    BY <1>d, <2>1, <2>2 DEF ScanInv, TodoInv, Checking, DirWalk
  <2>5. FreshInv'
    <3>1. \A c \in scan.fresh : Parent[c] \in Dirs
      BY <1>t, <1>d DEF ScanInv, FreshInv, Scan
    <3> QED
      BY <1>1, <2>1, <2>2, <3>1 DEF ScanInv, FreshInv
  <2>6. FrontierInv'
    BY <1>1, <2>1 DEF FrontierInv, DirWalk
  <2> QED
    BY <1>2, <2>3, <2>4, <2>5, <2>6 DEF ScanInv
<1>5. CASE LookDir(d) = "ok"
  <2>1. /\ scan'.pc \in {"stat", "children"}
        /\ scan'.full = scan.full /\ scan'.exclude = scan.exclude
        /\ scan'.known = scan.known /\ scan'.todo = scan.todo \ {d}
        /\ scan'.fresh = scan.fresh /\ scan'.doomed = scan.doomed /\ scan'.next = scan.next
        /\ scan'.pc = "children" => scan'.root = d
    <3>1. CASE mtime[d] = scan.known[d]
      BY <1>t, <1>0, <1>5, <3>1 DEF Stat, Scan
    <3>2. CASE mtime[d] # scan.known[d]
      <4>1. scan' = [scan EXCEPT !.todo = @ \ {d}, !.pc = "children",
                                 !.root = d, !.at = mtime[d]]
        BY <1>5, <3>2 DEF Stat
      <4> QED
        BY <1>t, <4>1 DEF Scan
    <3> QED
      BY <3>1, <3>2
  <2>2. Tree(scan.next, scan.exclude)' /\ Tree(scan.known, scan.exclude)'
    BY <2>1 DEF ScanInv, Tree
  <2>3. \A t \in scan'.todo : d < t
    BY <1>0, <1>d, <2>1
  <2>4. TodoInv'
    BY <1>0, <1>1, <1>d, <2>1, <2>3 DEF ScanInv, TodoInv, Checking, DirWalk
  <2>5. FreshInv' /\ FrontierInv'
    BY <1>1, <2>1 DEF ScanInv, FreshInv, FrontierInv, DirWalk
  <2> QED
    BY <1>2, <2>2, <2>4, <2>5 DEF ScanInv
<1>6. LookDir(d) \in {"missing", "error", "ok"}
  BY DEF LookDir, Look
<1> QED
  BY <1>3, <1>4, <1>5, <1>6

LEMMA ScanInvNewChildren ==
    ASSUME ScanInv, TypeOK', NewChildren PROVE ScanInv'
<1>t. TypeOK /\ scan \in Scan
  BY DEF ScanInv, TypeOK
<1>0. scan.pc = "children" /\ snapshot' = snapshot /\ scan.root \in Dirs
  BY <1>t DEF NewChildren, stored, Scan
<1>1. /\ ~scan.full /\ scan.doomed = {}
      /\ scan.next[scan.root] # Absent /\ scan.known[scan.root] # Absent
      /\ \A t \in scan.todo : scan.root < t
  BY <1>0 DEF ScanInv, TodoInv, FreshInv, FrontierInv, Checking
<1>2. Tree(snapshot.at, snapshot.key)'
  BY <1>0 DEF ScanInv, Tree
<1>3. CASE Readable(scan.root)
  <2> DEFINE new == {c \in Children(scan.root) : scan.known[c] = Absent}
  <2>1. /\ scan'.pc = "list" /\ scan'.walk = "dir" /\ scan'.root = scan.root
        /\ scan'.full = scan.full /\ scan'.exclude = scan.exclude
        /\ scan'.known = scan.known /\ scan'.next = scan.next /\ scan'.todo = scan.todo
        /\ scan'.doomed = scan.doomed /\ scan'.frontier = {scan.root}
        /\ scan'.fresh = scan.fresh \cup new
    <3>1. scan' = [scan EXCEPT
                     !.fresh = @ \cup new, !.pc = "list", !.walk = "dir",
                     !.frontier = {scan.root}, !.found = {}, !.seen = {}, !.whole = TRUE]
      BY <1>3 DEF NewChildren
    <3> HIDE DEF new
    <3> QED
      BY <1>t, <3>1 DEF Scan
  <2>2. Tree(scan.next, scan.exclude)' /\ Tree(scan.known, scan.exclude)'
    BY <2>1 DEF ScanInv, Tree
  <2>3. TodoInv'
    BY <1>0, <1>1, <2>1 DEF ScanInv, TodoInv, Checking, DirWalk
  <2>4. \A c \in new : c # Root /\ c \notin Hidden(scan.exclude) /\ Parent[c] = scan.root
    BY DEF Children
  <2>5. FreshInv'
    BY <1>1, <2>1, <2>4 DEF ScanInv, FreshInv
  <2>6. FrontierInv'
    BY <1>1, <2>1 DEF FrontierInv, DirWalk
  <2> QED
    BY <1>2, <2>2, <2>3, <2>5, <2>6 DEF ScanInv
<1>4. CASE ~Readable(scan.root)
  <2>1. /\ scan'.pc = "stat" /\ scan'.full = scan.full /\ scan'.exclude = scan.exclude
        /\ scan'.known = scan.known /\ scan'.todo = scan.todo /\ scan'.doomed = scan.doomed
        /\ scan'.fresh = scan.fresh
        /\ scan'.next = [scan.next EXCEPT ![scan.root] = Unknown]
    <3>1. scan' = [scan EXCEPT !.pc = "stat", !.next[scan.root] = Unknown, !.complete = FALSE]
      BY <1>4 DEF NewChildren
    <3> QED
      BY <1>t, <1>0, <3>1 DEF Scan
  <2>2. \A c \in Dirs : scan'.next[c] # Absent <=> scan.next[c] # Absent
    BY <1>t, <1>1, <2>1 DEF Scan, Absent, Unknown
  <2>3. Tree(scan.next, scan.exclude)' /\ Tree(scan.known, scan.exclude)'
    BY <2>1, <2>2, AboveSelf DEF ScanInv, Tree
  <2>4. scan.todo \subseteq Dirs /\ scan.fresh \subseteq Dirs
        /\ \A c \in Dirs \ {Root} : Parent[c] \in Dirs
    BY <1>t, AboveParent DEF Scan
  <2>5. TodoInv'
    BY <2>1, <2>2, <2>4 DEF ScanInv, TodoInv, Checking, DirWalk
  <2>6. FreshInv'
    BY <1>1, <2>1, <2>2, <2>4 DEF ScanInv, FreshInv
  <2>7. FrontierInv'
    BY <1>1, <2>1 DEF FrontierInv, DirWalk
  <2> QED
    BY <1>2, <2>3, <2>5, <2>6, <2>7 DEF ScanInv
<1> QED
  BY <1>3, <1>4

LEMMA ScanInvSubtree ==
    ASSUME ScanInv, TypeOK', NEW d \in Dirs, Subtree(d) PROVE ScanInv'
<1>t. TypeOK /\ scan \in Scan
  BY DEF ScanInv, TypeOK
<1>0. scan.pc = "subtrees" /\ d \in scan.fresh /\ snapshot' = snapshot
  BY DEF Subtree, Earliest, stored
<1>1. /\ ~scan.full /\ scan.todo = {} /\ scan.doomed = {} /\ ~Checking
      /\ d # Root /\ d \notin Hidden(scan.exclude) /\ scan.next[Parent[d]] # Absent
  BY <1>0 DEF ScanInv, TodoInv, FreshInv, FrontierInv, Checking, DirWalk
<1> DEFINE rest == [scan EXCEPT !.fresh = @ \ {d}]
<1>2. /\ scan'.pc \in {"subtrees", "capture"} /\ scan'.full = scan.full
      /\ scan'.exclude = scan.exclude /\ scan'.known = scan.known /\ scan'.next = scan.next
      /\ scan'.todo = scan.todo /\ scan'.fresh = scan.fresh \ {d} /\ scan'.doomed = scan.doomed
      /\ scan'.pc = "capture" => scan'.walk = "tree" /\ scan'.root = d /\ scan'.frontier = {d}
  <2>1. scan' = rest \/ scan' = WalkTree(rest, d)
    BY DEF Subtree
  <2>2. CASE scan' = rest
    BY <1>t, <1>0, <2>2 DEF Scan
  <2>3. CASE scan' = WalkTree(rest, d)
    BY <1>t, <2>3 DEF Scan, WalkTree
  <2> QED
    BY <2>1, <2>2, <2>3
<1>3. Tree(scan.next, scan.exclude)' /\ Tree(scan.known, scan.exclude)'
  BY <1>2 DEF ScanInv, Tree
<1>4. TodoInv'
  BY <1>1, <1>2 DEF TodoInv, Checking, DirWalk
<1>5. FreshInv'
  BY <1>1, <1>2 DEF ScanInv, FreshInv
<1>6. d \in Within(d)
  BY AboveSelf DEF Within
<1>7. FrontierInv'
  BY <1>1, <1>2, <1>6 DEF FrontierInv, DirWalk
<1>8. Tree(snapshot.at, snapshot.key)'
  BY <1>0 DEF ScanInv, Tree
<1> QED
  BY <1>3, <1>4, <1>5, <1>7, <1>8 DEF ScanInv

\* The ends of the quick check, the cleanup and the end of the scan.
LEMMA ScanInvCleanup ==
    ASSUME ScanInv, TypeOK',
           \/ \E f \in Files : Check(f) \/ Confirm(f)
           \/ StatEnds \/ SubtreesEnd \/ Reconcile \/ ChecksEnd \/ Delete \/ Save
           \/ Finish \/ Abort
    PROVE  ScanInv'
<1>t. TypeOK /\ scan \in Scan
  BY DEF ScanInv, TypeOK
<1> DEFINE Moved ==
       /\ scan'.exclude = scan.exclude /\ scan'.known = scan.known /\ scan'.next = scan.next
       /\ scan'.todo = scan.todo /\ scan'.fresh = scan.fresh /\ scan'.full = scan.full
       /\ scan'.walk = scan.walk /\ scan'.root = scan.root
       /\ \/ scan.pc = "stat" /\ scan'.pc = "subtrees" /\ scan.todo = {}
                /\ scan'.doomed = scan.doomed
          \/ scan.pc = "subtrees" /\ scan'.pc = "reconcile" /\ scan.fresh = {}
                /\ scan'.doomed = scan.doomed
          \/ /\ scan.pc \in {"reconcile", "check", "confirm", "delete", "save"}
             /\ scan'.pc \in {"check", "confirm", "delete", "save", "done"}
       /\ snapshot' = snapshot \/ snapshot' = [key |-> scan.exclude, at |-> scan.next]
<1>1. Moved \/ (scan' = NoScan /\ snapshot' = snapshot)
  <2>1. ASSUME NEW f \in Files, Check(f) PROVE Moved \/ (scan' = NoScan /\ snapshot' = snapshot)
    <3>1. CASE LookFile(f) = "ok"
      <4>1. /\ scan' = [scan EXCEPT !.candidates = @ \ {f}]
            /\ scan.pc = "check" /\ snapshot' = snapshot
        BY <2>1, <3>1 DEF Check, stored
      <4> QED
        BY <1>t, <4>1 DEF Scan
    <3>2. CASE LookFile(f) = "missing"
      <4>1. /\ scan' = [scan EXCEPT !.candidates = @ \ {f}, !.pc = "confirm", !.found = {f}]
            /\ scan.pc = "check" /\ snapshot' = snapshot
        BY <2>1, <3>2 DEF Check, stored
      <4> QED
        BY <1>t, <4>1 DEF Scan
    <3>3. CASE LookFile(f) = "error"
      BY <2>1, <3>3 DEF Check, Fail, stored
    <3> QED
      BY <3>1, <3>2, <3>3 DEF LookFile, Look
  <2>2. ASSUME NEW f \in Files, Confirm(f) PROVE Moved \/ (scan' = NoScan /\ snapshot' = snapshot)
    <3>1. CASE ConfirmedMissing(f)
      <4>1. /\ scan' = [scan EXCEPT !.pc = "check", !.found = {}, !.doomed = @ \cup {f}]
            /\ scan.pc = "confirm" /\ snapshot' = snapshot
        BY <2>2, <3>1 DEF Confirm, stored
      <4> QED
        BY <1>t, <4>1 DEF Scan
    <3>2. CASE ~ConfirmedMissing(f)
      BY <2>2, <3>2 DEF Confirm, Fail, stored
    <3> QED
      BY <3>1, <3>2
  <2>3. CASE StatEnds
    BY <1>t, <2>3 DEF StatEnds, Scan, stored
  <2>4. CASE SubtreesEnd
    BY <1>t, <2>4 DEF SubtreesEnd, Scan, stored
  <2>5. CASE Reconcile
    <3>1. CASE Readable(Root)
      <4>1. /\ scan' = [scan EXCEPT !.pc = "check", !.candidates = @ \ FilesIn(Hidden(scan.exclude))]
            /\ scan.pc = "reconcile" /\ snapshot' = snapshot
        BY <2>5, <3>1 DEF Reconcile, stored
      <4> QED
        BY <1>t, <4>1 DEF Scan
    <3>2. CASE ~Readable(Root)
      BY <2>5, <3>2 DEF Reconcile, Fail, stored
    <3> QED
      BY <3>1, <3>2
  <2>6. CASE ChecksEnd
    <3>1. CASE scan.doomed = {}
      BY <1>t, <2>6, <3>1 DEF ChecksEnd, Scan, stored
    <3>2. CASE scan.doomed # {} /\ scan.rechecked
      BY <1>t, <2>6, <3>2 DEF ChecksEnd, Scan, stored
    <3>3. CASE scan.doomed # {} /\ ~scan.rechecked /\ Readable(Root)
      <4>1. /\ scan' = [scan EXCEPT !.rechecked = TRUE, !.candidates = scan.doomed, !.doomed = {}]
            /\ scan.pc = "check" /\ snapshot' = snapshot
        BY <2>6, <3>3 DEF ChecksEnd, stored
      <4> QED
        BY <1>t, <4>1 DEF Scan
    <3>4. CASE scan.doomed # {} /\ ~scan.rechecked /\ ~Readable(Root)
      BY <2>6, <3>4 DEF ChecksEnd, Fail, stored
    <3> QED
      BY <3>1, <3>2, <3>3, <3>4
  <2>7. CASE Delete
    BY <1>t, <2>7 DEF Delete, Scan
  <2>8. CASE Save
    BY <1>t, <2>8 DEF Save, Scan
  <2>9. CASE Finish \/ Abort
    BY <2>9 DEF Finish, Abort, stored
  <2> QED
    BY <2>1, <2>2, <2>3, <2>4, <2>5, <2>6, <2>7, <2>8, <2>9
<1>2. ASSUME scan' = NoScan, snapshot' = snapshot PROVE ScanInv'
  BY <1>2, ScanInvIdle DEF ScanInv, Tree
<1>3. CASE Moved
  <2>1. Tree(snapshot.at, snapshot.key)'
    BY <1>3 DEF ScanInv, Tree
  <2>2. /\ ~Checking' /\ (scan.full => scan'.pc # "subtrees") /\ scan.todo = {}
        /\ scan'.pc \notin {"capture", "stat", "children"}
    BY <1>3 DEF ScanInv, TodoInv, FreshInv, Checking, DirWalk
  <2>3. /\ scan'.pc = "subtrees" \/ scan.fresh = {}
        /\ FrontierInv'
    BY <1>3, <2>2 DEF ScanInv, FreshInv, FrontierInv, Checking
  <2> QED
    BY <1>3, <2>1, <2>2, <2>3, ScanInvMove
<1> QED
  BY <1>1, <1>2, <1>3

\* Nothing but the walk touches its state, or a snapshot.
LEMMA ScanInvWorld ==
    ASSUME ScanInv, TypeOK', UNCHANGED <<scan, snapshot>> PROVE ScanInv'
BY DEF ScanInv, Tree, TodoInv, FreshInv, FrontierInv, Checking, DirWalk

LEMMA ScanInvStep == ScanInv /\ [Next]_vars => ScanInv'
<1> SUFFICES ASSUME ScanInv, [Next]_vars PROVE ScanInv'
  OBVIOUS
<1>1. TypeOK'
  BY TypeStep DEF ScanInv
<1>2. ASSUME NEW wantFull \in BOOLEAN, Begin(wantFull) PROVE ScanInv'
  BY <1>1, <1>2, ScanInvBegin
<1>3. CASE WalkStep
  BY <1>1, <1>3, ScanInvCapture, ScanInvWalk, ScanInvWalkEnds, ScanInvStat,
     ScanInvNewChildren, ScanInvSubtree, ScanInvCleanup DEF WalkStep
<1>4. CASE WorldStep
  <2>1. UNCHANGED <<scan, snapshot>>
    BY <1>4 DEF WorldStep, AddFile, RemoveFile, AddDir, RemoveDir, Change, Fault,
       SetExclude, Purge, stored
  <2> QED
    BY <1>1, <2>1, ScanInvWorld
<1>5. CASE UNCHANGED vars
  BY <1>1, <1>5, ScanInvWorld DEF vars, stored
<1> QED
  BY <1>2, <1>3, <1>4, <1>5 DEF Next

\* At every step of a scan, whatever the disk and its drive do: the directories
\* of a snapshot, and those the scan has recorded, form a tree from the root
\* outside the exclusions, and what a quick check has still to visit is known
\* to it and recorded (the visiting order of quick_catalog).
THEOREM WalkInvariant == Spec => []ScanInv
BY ScanInvInit, ScanInvStep, PTL DEF Spec

-----------------------------------------------------------------------------
(* What a snapshot promises.                                                *)

\* What the file system answers while the drive is there (Look).
LEMMA LookOnline ==
    ASSUME online, TypeOK
    PROVE  /\ \A d \in Dirs : /\ LookDir(d) \in {"missing", "error", "ok"}
                              /\ LookDir(d) = "missing" => d \notin dirs
                              /\ LookDir(d) = "ok" <=> d \in dirs /\ (Above[d] \ {d}) \cap unreadable = {}
                              /\ Readable(d) <=> d \in dirs /\ Above[d] \cap unreadable = {}
           /\ \A f \in Files : /\ LookFile(f) \in {"missing", "error", "ok"}
                               /\ LookFile(f) = "missing" => f \notin files
                               /\ LookFile(f) = "ok" <=>
                                     f \in files /\ Above[Home[f]] \cap unreadable = {}
<1>1. ASSUME NEW d \in Dirs
      PROVE  /\ LookDir(d) \in {"missing", "error", "ok"}
             /\ LookDir(d) = "missing" => d \notin dirs
             /\ LookDir(d) = "ok" <=> d \in dirs /\ (Above[d] \ {d}) \cap unreadable = {}
             /\ Readable(d) <=> d \in dirs /\ Above[d] \cap unreadable = {}
  <2>1. /\ LookDir(d) \in {"missing", "error", "ok"}
        /\ LookDir(d) = "missing" => d \notin dirs
        /\ LookDir(d) = "ok" <=> d \in dirs /\ (Above[d] \ {d}) \cap unreadable = {}
    BY DEF LookDir, Look
  <2>2. Readable(d) <=> d \in dirs /\ Above[d] \cap unreadable = {}
    BY <2>1, AboveSelf DEF Readable
  <2> QED
    BY <2>1, <2>2
<1>2. ASSUME NEW f \in Files
      PROVE  /\ LookFile(f) \in {"missing", "error", "ok"}
             /\ LookFile(f) = "missing" => f \notin files
             /\ LookFile(f) = "ok" <=> f \in files /\ Above[Home[f]] \cap unreadable = {}
  BY DEF LookFile, Look
<1> QED
  BY <1>1, <1>2, Zenon

\* The parts of the invariant that a step of the walk leaves alone until the
\* cleanup.
LEMMA SoundKeep ==
    ASSUME ScanInv, SoundInv, TypeOK', UNCHANGED disk, snapshot' = snapshot,
           catalog \subseteq catalog', scan.pc # "idle",
           scan'.doomed = {}, scan'.pc # "confirm",
           \A d \in Dirs : scan'.next[d] <= clock, scan'.at <= clock
    PROVE  DiskInv' /\ OnlineInv' /\ GoneInv' /\ SnapshotInv'
<1>1. DiskInv'
  BY DEF disk, SoundInv, DiskInv
<1>2. OnlineInv'
  BY DEF disk, SoundInv, OnlineInv
<1>3. GoneInv'
  BY DEF GoneInv
<1>4. SnapshotInv'
  BY DEF disk, SoundInv, SnapshotInv, FilesOf
<1> QED
  BY <1>1, <1>2, <1>3, <1>4

\* A scan that ends leaves what the snapshot promises.
LEMMA SoundIdle ==
    ASSUME ScanInv, SoundInv, TypeOK', UNCHANGED disk, UNCHANGED stored, scan' = NoScan
    PROVE  SoundInv'
<1>1. /\ scan'.pc = "idle" /\ scan'.doomed = {} /\ scan'.at = 0
      /\ \A d \in Dirs : scan'.next[d] = -1
  BY DEF NoScan, NoEntries, Absent, Unknown
<1>2. clock \in Nat /\ \A d \in Dirs : mtime[d] \in 1..clock
  BY DEF ScanInv, TypeOK, SoundInv, DiskInv
<1>3. DiskInv'
  BY <1>1, <1>2 DEF disk, stored, SoundInv, DiskInv
<1>4. OnlineInv' /\ GoneInv' /\ ChangedInv'
  BY <1>1 DEF OnlineInv, GoneInv, ChangedInv, DirWalk
<1>5. \A d \in Dirs : ~Trusted(d)'
  BY <1>1, <1>2 DEF Trusted, disk
<1>6. FilesInv' /\ ChildrenInv'
  BY <1>5 DEF FilesInv, ChildrenInv
<1>7. SnapshotInv'
  BY DEF disk, stored, SoundInv, SnapshotInv, FilesOf
<1> QED
  BY <1>3, <1>4, <1>6, <1>7 DEF SoundInv

LEMMA SoundInit == Init => SoundInv
<1> SUFFICES ASSUME Init PROVE SoundInv
  OBVIOUS
<1>1. /\ scan.pc = "idle" /\ scan.doomed = {} /\ scan.at = 0
      /\ \A d \in Dirs : scan.next[d] = -1 /\ snapshot.at[d] = -1
  BY DEF Init, NoScan, NoEntries, Absent, Unknown
<1>2. clock = 1 /\ \A d \in Dirs : mtime[d] = 1
  BY DEF Init
<1>3. DiskInv
  BY <1>1, <1>2, TreeTypes DEF Init, DiskInv, FilesIn
<1>4. OnlineInv /\ GoneInv /\ ChangedInv
  BY <1>1 DEF OnlineInv, GoneInv, ChangedInv, DirWalk
<1>5. FilesInv /\ ChildrenInv
  BY <1>1, <1>2 DEF FilesInv, ChildrenInv, Trusted
<1>6. SnapshotInv
  <2>1. dirs \subseteq Dirs
    BY DEF Init
  <2> QED
    BY <1>1, <1>2, <2>1 DEF SnapshotInv
<1> QED
  BY <1>3, <1>4, <1>5, <1>6 DEF SoundInv

LEMMA SoundBegin ==
    ASSUME ScanInv, SoundInv, TypeOK', NEW wantFull \in BOOLEAN, Begin(wantFull) PROVE SoundInv'
<1>t. TypeOK /\ clock \in Nat /\ \A d \in Dirs : mtime[d] \in 1..clock
  BY DEF ScanInv, TypeOK, SoundInv, DiskInv
<1>1. online /\ UNCHANGED disk /\ UNCHANGED stored
  BY AboveTypes DEF Begin, Readable, LookDir, Look
<1>2. SnapshotInv'
  BY <1>1 DEF disk, stored, SoundInv, SnapshotInv, FilesOf
<1>3. CASE wantFull \/ ~SnapshotValid
  <2>1. /\ scan'.pc = "capture" /\ scan'.doomed = {} /\ scan'.at = 0
        /\ \A d \in Dirs : scan'.next[d] = -1
    BY <1>3 DEF Begin, WalkTree, NoScan, NoEntries, Absent, Unknown
  <2>2. \A d \in Dirs : ~Trusted(d)'
    BY <1>t, <1>1, <2>1 DEF Trusted, disk
  <2>3. DiskInv' /\ OnlineInv' /\ GoneInv'
    BY <1>t, <1>1, <2>1 DEF disk, stored, SoundInv, DiskInv, OnlineInv, GoneInv
  <2> QED
    BY <1>2, <2>1, <2>2, <2>3 DEF SoundInv, FilesInv, ChildrenInv, ChangedInv, DirWalk
<1>4. CASE ~(wantFull \/ ~SnapshotValid)
  <2>1. /\ scan'.pc = "stat" /\ scan'.doomed = {} /\ scan'.at = 0
        /\ scan'.next = snapshot.at /\ scan'.exclude = snapshot.key
    BY <1>4 DEF Begin, NoScan, SnapshotValid, Unknown
  <2>2. DiskInv' /\ OnlineInv' /\ GoneInv'
    BY <1>t, <1>1, <2>1 DEF disk, stored, SoundInv, DiskInv, OnlineInv, GoneInv
  <2>3. \A d \in Dirs : Trusted(d)' =>
           /\ FilesOf(d) \subseteq catalog
           /\ \A c \in Children(d)' : snapshot.at[c] # Absent
    BY <1>1, <2>1 DEF disk, SoundInv, SnapshotInv, Trusted, Children
  <2>4. FilesInv' /\ ChildrenInv' /\ ChangedInv'
    BY <1>1, <2>1, <2>3
       DEF disk, stored, FilesInv, ChildrenInv, ChangedInv, DirWalk, TreeWalk, FilesOf, Trusted
  <2> QED
    BY <1>2, <2>2, <2>4 DEF SoundInv
<1> QED
  BY <1>3, <1>4

LEMMA SoundCapture ==
    ASSUME ScanInv, SoundInv, TypeOK', NEW d \in Dirs, Capture(d) PROVE SoundInv'
<1>t. TypeOK /\ scan \in Scan /\ clock \in Nat /\ \A c \in Dirs : mtime[c] \in 1..clock
  BY DEF ScanInv, TypeOK, SoundInv, DiskInv
<1>0. /\ scan.pc = "capture" /\ d \in scan.frontier /\ UNCHANGED disk /\ UNCHANGED stored
      /\ scan.doomed = {} /\ scan.walk = "tree" /\ d \in Within(scan.root) /\ online
  BY DEF Capture, ScanInv, FrontierInv, SoundInv, OnlineInv
<1>1. \A c \in Dirs : scan.next[c] \in Int /\ scan.next[c] <= clock
  BY <1>t DEF SoundInv, DiskInv, Scan
<1>3. CASE LookDir(d) = "ok"
  <2>1. /\ scan'.pc = "capture" /\ scan'.exclude = scan.exclude /\ scan'.fresh = scan.fresh
        /\ scan'.doomed = {} /\ scan'.walk = "tree" /\ scan'.root = scan.root
        /\ scan'.at = scan.at
        /\ scan'.next = [scan.next EXCEPT ![d] = IF d \in unreadable THEN Unknown ELSE mtime[d]]
        /\ scan'.frontier = (scan.frontier \ {d})
                               \cup (IF d \in unreadable THEN {} ELSE Children(d))
    <3>1. scan' = [scan EXCEPT
                     !.next[d] = IF d \in unreadable THEN Unknown ELSE mtime[d],
                     !.frontier = (@ \ {d}) \cup (IF d \in unreadable THEN {} ELSE Children(d))]
      BY <1>3 DEF Capture
    <3> QED
      BY <1>0, <1>t, <3>1 DEF Scan
  <2>2. /\ scan'.next[d] = IF d \in unreadable THEN 0 ELSE mtime[d]
        /\ \A c \in Dirs \ {d} : scan'.next[c] = scan.next[c]
        /\ scan'.next[d] # Absent
    BY <1>t, <2>1 DEF Scan, Unknown, Absent
  <2>3. \A c \in Dirs : scan'.next[c] <= clock
    BY <1>t, <1>1, <2>2
  <2>4. DiskInv' /\ OnlineInv' /\ GoneInv' /\ SnapshotInv'
    BY <1>0, <2>1, <2>3, SoundKeep DEF stored, SoundInv, DiskInv
  <2>5. d \in dirs /\ (Above[d] \ {d}) \cap unreadable = {}
    BY <1>t, <1>0, <1>3, LookOnline
  <2>6. ASSUME NEW x \in Dirs, Trusted(x)'
        PROVE  x # d => Trusted(x)
    BY <1>0, <2>2, <2>6 DEF Trusted, disk
  <2>7. Trusted(d)' => d \notin unreadable
    BY <1>t, <1>0, <2>2 DEF Trusted, disk
  <2>8. FilesInv'
    <3> SUFFICES ASSUME NEW x \in Dirs, Trusted(x)'
                 PROVE  /\ FilesOf(x) \subseteq catalog \/ x \in Within(scan.root)
                        /\ x \in Within(scan.root) => Above[x] \cap unreadable = {}
      BY <1>0, <2>1 DEF FilesInv, Awaited, TreeWalk, FilesOf, disk, stored
    <3>1. CASE x = d
      BY <1>0, <2>5, <2>7, <3>1
    <3>2. CASE x # d
      BY <1>0, <2>6, <3>2 DEF SoundInv, FilesInv, Awaited, TreeWalk
    <3> QED
      BY <3>1, <3>2
  <2>9. ChildrenInv'
    <3> SUFFICES ASSUME NEW x \in Dirs, Trusted(x)', NEW c \in Children(x)
                 PROVE  scan'.next[c] # Absent \/ c \in scan.fresh \/ c \in scan'.frontier
      BY <1>0, <2>1 DEF ChildrenInv, Children, disk
    <3>1. CASE x = d
      BY <2>1, <2>7, <3>1
    <3>2. CASE x # d
      <4>1. c \in Dirs /\ (scan.next[c] # Absent \/ c \in scan.fresh \/ c \in scan.frontier)
        BY <1>t, <1>0, <2>6, <3>2 DEF SoundInv, ChildrenInv, Children, TypeOK
      <4> QED
        BY <2>1, <2>2, <4>1
    <3> QED
      BY <3>1, <3>2
  <2>10. ChangedInv'
    BY <2>1 DEF ChangedInv, DirWalk
  <2> QED
    BY <2>4, <2>8, <2>9, <2>10 DEF SoundInv
<1>4. CASE LookDir(d) # "ok" /\ scan.full
  <2>1. /\ scan'.pc = "list" /\ scan'.walk = "tree" /\ scan'.doomed = {} /\ scan'.at = scan.at
        /\ \A c \in Dirs : scan'.next[c] = -1
    <3>1. scan' = [scan EXCEPT !.pc = "list", !.next = NoEntries, !.frontier = {Root}]
      BY <1>4 DEF Capture
    <3>2. \A c \in Dirs : NoEntries[c] = -1
      BY DEF NoEntries, Absent
    <3> QED
      BY <1>t, <1>0, <3>1, <3>2 DEF Scan
  <2>2. DiskInv' /\ OnlineInv' /\ GoneInv' /\ SnapshotInv'
    BY <1>t, <1>0, <2>1, SoundKeep DEF stored, SoundInv, DiskInv
  <2>3. \A x \in Dirs : ~Trusted(x)'
    BY <1>t, <1>0, <2>1 DEF Trusted, disk
  <2> QED
    BY <2>1, <2>2, <2>3 DEF SoundInv, FilesInv, ChildrenInv, ChangedInv, DirWalk
<1>5. CASE LookDir(d) # "ok" /\ ~scan.full
  BY <1>0, <1>5, SoundIdle DEF Capture, Fail
<1> QED
  BY <1>3, <1>4, <1>5

\* The listing of a tree passes every file of a directory that may be called
\* unchanged on to the cataloging.
LEMMA SoundList ==
    ASSUME ScanInv, SoundInv, TypeOK', NEW d \in Dirs, List(d) PROVE SoundInv'
<1>t. TypeOK /\ scan \in Scan
  BY DEF ScanInv, TypeOK
<1>0. /\ scan.pc = "list" /\ d \in scan.frontier /\ UNCHANGED disk /\ UNCHANGED stored
      /\ scan.doomed = {} /\ online
  BY DEF List, ScanInv, FrontierInv, SoundInv, OnlineInv
<1> DEFINE Common ==
       /\ scan'.pc = scan.pc /\ scan'.exclude = scan.exclude /\ scan'.fresh = scan.fresh
       /\ scan'.doomed = {} /\ scan'.walk = scan.walk /\ scan'.root = scan.root
       /\ scan'.at = scan.at /\ scan'.next = scan.next
           Read ==
       /\ scan'.found = scan.found \cup FilesOf(d) /\ scan'.whole = scan.whole
       /\ scan'.frontier = (scan.frontier \ {d})
                              \cup (IF scan.walk = "tree" THEN Children(d) ELSE {})
           Skipped ==
       /\ scan'.found = scan.found /\ scan'.whole = FALSE
       /\ scan'.frontier = scan.frontier \ {d}
<1>1. Readable(d) => Common /\ Read
  <2> SUFFICES ASSUME Readable(d) PROVE Common /\ Read
    OBVIOUS
  <2> DEFINE found == scan.found \cup FilesOf(d)
             frontier == (scan.frontier \ {d}) \cup (IF scan.walk = "tree" THEN Children(d) ELSE {})
  <2>1. scan' = [scan EXCEPT !.found = found, !.frontier = frontier]
    BY DEF List
  <2> HIDE DEF found, frontier
  <2>2. Common /\ scan'.found = found /\ scan'.frontier = frontier /\ scan'.whole = scan.whole
    BY <1>t, <1>0, <2>1 DEF Scan
  <2> QED
    BY <2>2 DEF found, frontier
<1>2. ~Readable(d) => Common /\ Skipped
  <2> SUFFICES ASSUME ~Readable(d) PROVE Common /\ Skipped
    OBVIOUS
  <2>1. scan' = [scan EXCEPT !.whole = FALSE, !.frontier = @ \ {d}]
    BY DEF List
  <2> QED
    BY <1>t, <1>0, <2>1 DEF Scan
<1>3. Common /\ (Read \/ Skipped)
  BY <1>1, <1>2
<1>4. DiskInv' /\ OnlineInv' /\ GoneInv' /\ SnapshotInv'
  BY <1>0, <1>3, SoundKeep DEF stored, SoundInv, DiskInv
<1>5. FilesInv'
  <2> SUFFICES ASSUME NEW x \in Dirs, Trusted(x), ~(FilesOf(x) \subseteq catalog)
               PROVE  Awaited(x)'
    BY <1>0, <1>3 DEF SoundInv, FilesInv, Trusted, TreeWalk, Within, FilesOf, disk, stored
  <2>1. /\ Awaited(x) /\ scan.walk = "tree" /\ x \in Within(scan.root)
        /\ Above[x] \cap unreadable = {} /\ x \in dirs /\ scan.next[x] # Absent
    BY <1>t DEF SoundInv, FilesInv, Awaited, TreeWalk, DiskInv, Trusted, TypeOK, Absent
  <2>2. Above[x] \subseteq dirs /\ x \notin Hidden(scan.exclude)
    BY <2>1 DEF SoundInv, DiskInv, ScanInv, Tree
  <2>3. Above[x] \cap scan'.frontier # {} \/ FilesOf(x) \subseteq catalog \cup scan'.found
    <3>1. CASE FilesOf(x) \subseteq catalog \cup scan.found
      BY <1>3, <3>1
    <3>2. ASSUME NEW a \in Above[x], a \in scan.frontier, a # d
          PROVE  Above[x] \cap scan'.frontier # {}
      BY <1>3, <3>2
    <3>3. CASE d \in Above[x]
      <4>1. Readable(d)
        BY <1>t, <1>0, <2>1, <2>2, <3>3, LookOnline, AboveTrans
      <4>2. Read
        BY <1>1, <4>1
      <4>3. CASE d = x
        BY <4>2, <4>3
      <4>4. CASE d # x
        <5>1. PICK b \in Above[x] \ {Root} : Parent[b] = d
          BY <3>3, <4>4, TreeAssumption DEF TreeAssumption
        <5>2. b \in Children(d)
          BY <2>2, <5>1, HiddenBelow DEF Children
        <5> QED
          BY <2>1, <4>2, <5>1, <5>2
      <4> QED
        BY <4>3, <4>4
    <3>4. FilesOf(x) \subseteq catalog \cup scan.found \/ Above[x] \cap scan.frontier # {}
      BY <1>0, <2>1 DEF Awaited
    <3> QED
      BY <3>1, <3>2, <3>3, <3>4
  <2> QED
    BY <1>0, <1>3, <2>1, <2>3 DEF Awaited, TreeWalk, FilesOf, Within, disk, stored
<1>6. ChildrenInv'
  BY <1>0, <1>3 DEF SoundInv, ChildrenInv, Trusted, Children, disk
<1>7. ChangedInv'
  <2> SUFFICES ASSUME DirWalk, scan.root \in dirs, mtime[scan.root] = scan.at
               PROVE  /\ \A c \in Children(scan.root) : scan.next[c] # Absent \/ c \in scan.fresh
                      /\ scan'.whole => FilesOf(scan.root) \subseteq catalog \cup scan'.found
    BY <1>0, <1>3 DEF ChangedInv, DirWalk, Children, FilesOf, disk, stored
  <2>1. d = scan.root
    BY <1>0 DEF ScanInv, FrontierInv
  <2> QED
    BY <1>3, <2>1 DEF SoundInv, ChangedInv
<1> QED
  BY <1>4, <1>5, <1>6, <1>7 DEF SoundInv

\* Cataloging, and the ends of the capture and the listing.
LEMMA SoundCatalog ==
    ASSUME ScanInv, SoundInv, TypeOK', NEW f \in Files, CatalogFile(f) PROVE SoundInv'
<1>t. TypeOK /\ scan \in Scan
  BY DEF ScanInv, TypeOK
<1>0. /\ scan.pc = "catalog" /\ f \in scan.found /\ UNCHANGED disk /\ snapshot' = snapshot
      /\ scan.doomed = {} /\ online
      /\ catalog' = IF LookFile(f) = "ok" THEN catalog \cup {f} ELSE catalog
  BY DEF CatalogFile, ScanInv, FrontierInv, SoundInv, OnlineInv
<1>1. /\ scan'.pc = scan.pc /\ scan'.exclude = scan.exclude /\ scan'.fresh = scan.fresh
      /\ scan'.doomed = {} /\ scan'.walk = scan.walk /\ scan'.root = scan.root
      /\ scan'.at = scan.at /\ scan'.next = scan.next /\ scan'.frontier = scan.frontier
      /\ scan'.found = scan.found \ {f}
      /\ scan'.whole => scan.whole /\ LookFile(f) # "error"
  BY <1>t, <1>0 DEF CatalogFile, Scan
<1>2. DiskInv' /\ OnlineInv' /\ GoneInv' /\ SnapshotInv'
  BY <1>0, <1>1, SoundKeep DEF SoundInv, DiskInv
<1>3. \A ds \in SUBSET Files : ds \subseteq catalog \cup scan.found
         => ds \subseteq catalog' \cup scan'.found \/ (f \in ds /\ LookFile(f) # "ok")
  BY <1>0, <1>1
<1>4. FilesInv'
  <2> SUFFICES ASSUME NEW x \in Dirs, Trusted(x), ~(FilesOf(x) \subseteq catalog)
               PROVE  Awaited(x)'
    BY <1>0, <1>1 DEF SoundInv, FilesInv, Trusted, TreeWalk, Within, FilesOf, disk
  <2>1. /\ Awaited(x) /\ scan.walk = "tree" /\ x \in Within(scan.root)
        /\ Above[x] \cap unreadable = {} /\ FilesOf(x) \subseteq catalog \cup scan.found
    BY <1>0 DEF SoundInv, FilesInv, Awaited, TreeWalk
  <2>2. f \in FilesOf(x) => LookFile(f) = "ok"
    BY <1>t, <1>0, <2>1, LookOnline DEF FilesOf
  <2>3. FilesOf(x) \in SUBSET Files
    BY <1>t DEF FilesOf, TypeOK
  <2>4. FilesOf(x) \subseteq catalog' \cup scan'.found
    BY <1>3, <2>1, <2>2, <2>3
  <2> QED
    BY <1>0, <1>1, <2>1, <2>4 DEF Awaited, TreeWalk, FilesOf, Within, disk
<1>5. ChildrenInv'
  BY <1>0, <1>1 DEF SoundInv, ChildrenInv, Trusted, Children, disk
<1>6. ChangedInv'
  <2> SUFFICES ASSUME DirWalk, scan.root \in dirs, mtime[scan.root] = scan.at
               PROVE  /\ \A c \in Children(scan.root) : scan.next[c] # Absent \/ c \in scan.fresh
                      /\ scan'.whole => FilesOf(scan.root) \subseteq catalog' \cup scan'.found
    BY <1>0, <1>1 DEF ChangedInv, DirWalk, Children, FilesOf, disk
  <2>1. \A c \in Children(scan.root) : scan.next[c] # Absent \/ c \in scan.fresh
    BY DEF SoundInv, ChangedInv
  <2>2. ASSUME scan'.whole PROVE FilesOf(scan.root) \subseteq catalog' \cup scan'.found
    <3>1. FilesOf(scan.root) \subseteq catalog \cup scan.found
      BY <1>0, <1>1, <2>2 DEF SoundInv, ChangedInv
    <3>2. f \in FilesOf(scan.root) => LookFile(f) = "ok"
      BY <1>t, <1>0, <1>1, <2>2, LookOnline DEF FilesOf
    <3>3. FilesOf(scan.root) \in SUBSET Files
      BY <1>t DEF FilesOf, TypeOK
    <3> QED
      BY <1>3, <3>1, <3>2, <3>3
  <2> QED
    BY <2>1, <2>2
<1> QED
  BY <1>2, <1>4, <1>5, <1>6 DEF SoundInv

LEMMA SoundPhaseEnds ==
    ASSUME ScanInv, SoundInv, TypeOK', CaptureEnds \/ ListEnds PROVE SoundInv'
<1>t. TypeOK /\ scan \in Scan
  BY DEF ScanInv, TypeOK
<1>0. /\ scan.pc \in {"capture", "list"} /\ scan.frontier = {}
      /\ scan.doomed = {} /\ online /\ UNCHANGED disk /\ UNCHANGED stored
      /\ scan.pc = "capture" => scan.walk = "tree"
  BY DEF CaptureEnds, ListEnds, ScanInv, FrontierInv, SoundInv, OnlineInv
<1>1. /\ scan'.exclude = scan.exclude /\ scan'.fresh = scan.fresh
      /\ scan'.doomed = {} /\ scan'.walk = scan.walk /\ scan'.root = scan.root
      /\ scan'.at = scan.at /\ scan'.next = scan.next /\ scan'.found = scan.found
      /\ scan'.whole = scan.whole
      /\ \/ scan.pc = "capture" /\ scan'.pc = "list" /\ scan'.frontier = {scan.root}
         \/ scan.pc = "list" /\ scan'.pc = "catalog"
  <2>1. CASE CaptureEnds
    BY <1>t, <1>0, <2>1 DEF CaptureEnds, Scan
  <2>2. CASE ListEnds
    BY <1>t, <1>0, <2>2 DEF ListEnds, Scan
  <2> QED
    BY <2>1, <2>2
<1>2. DiskInv' /\ OnlineInv' /\ GoneInv' /\ SnapshotInv'
  BY <1>0, <1>1, SoundKeep DEF SoundInv, DiskInv, stored
<1>3. FilesInv'
  <2> SUFFICES ASSUME NEW x \in Dirs, Trusted(x)
               PROVE  /\ FilesOf(x) \subseteq catalog \/ Awaited(x)'
                      /\ TreeWalk' /\ x \in Within(scan.root) => Above[x] \cap unreadable = {}
    BY <1>0, <1>1 DEF FilesInv, Trusted, Within, FilesOf, disk, stored
  <2>1. TreeWalk' <=> TreeWalk
    BY <1>0, <1>1 DEF TreeWalk
  <2>2. Awaited(x) => Awaited(x)'
    BY <1>0, <1>1, <2>1 DEF Awaited, Within, FilesOf, disk, stored
  <2> QED
    BY <2>1, <2>2 DEF SoundInv, FilesInv
<1>4. ChildrenInv'
  BY <1>0, <1>1 DEF SoundInv, ChildrenInv, Trusted, Children, disk
<1>5. ChangedInv'
  BY <1>0, <1>1 DEF SoundInv, ChangedInv, DirWalk, Children, FilesOf, disk, stored
<1> QED
  BY <1>2, <1>3, <1>4, <1>5 DEF SoundInv

\* A directory is recorded as unchanged only when nothing changed in it since
\* its modification time was read, before the walk listed it (Recorded).
LEMMA SoundWalkEnds ==
    ASSUME ScanInv, SoundInv, TypeOK', WalkEnds PROVE SoundInv'
<1>t. TypeOK /\ scan \in Scan /\ clock \in Nat /\ \A c \in Dirs : mtime[c] \in 1..clock
  BY DEF ScanInv, TypeOK, SoundInv, DiskInv
<1>0. /\ scan.pc = "catalog" /\ scan.found = {} /\ scan.doomed = {} /\ online
      /\ UNCHANGED disk /\ UNCHANGED stored
  BY DEF WalkEnds, ScanInv, FrontierInv, SoundInv, OnlineInv
<1>r. Recorded \in Nat /\ Recorded <= clock
      /\ (Recorded # 0 => scan.whole /\ Recorded = scan.at)
  BY <1>t DEF Recorded, Unknown, Scan, SoundInv, DiskInv
<1>1. /\ scan'.exclude = scan.exclude /\ scan'.fresh = scan.fresh /\ scan'.doomed = {}
      /\ scan'.root = scan.root /\ scan'.at = scan.at
      /\ scan'.next = [scan.next EXCEPT
                          ![scan.root] = IF scan.walk = "dir" THEN Recorded ELSE @]
      /\ scan'.pc \in {"reconcile", "save", "stat", "subtrees"}
  BY <1>t, <1>r, <1>0 DEF WalkEnds, Scan
<1>2. scan.root \in Dirs /\ \A c \in Dirs :
         scan'.next[c] = IF c = scan.root /\ scan.walk = "dir" THEN Recorded ELSE scan.next[c]
  BY <1>t, <1>1 DEF Scan
<1>3. DiskInv' /\ OnlineInv' /\ GoneInv' /\ SnapshotInv'
  <2>1. \A c \in Dirs : scan'.next[c] <= clock
    BY <1>r, <1>2 DEF SoundInv, DiskInv
  <2> QED
    BY <1>0, <1>1, <2>1, SoundKeep DEF SoundInv, DiskInv, stored
<1>4. \A c \in Dirs : scan.next[c] # Absent => scan'.next[c] # Absent
  BY <1>r, <1>2 DEF Absent
<1>5. ASSUME NEW x \in Dirs, Trusted(x)'
      PROVE  \/ Trusted(x)
             \/ /\ x = scan.root /\ DirWalk /\ x \in dirs
                /\ mtime[x] = scan.at /\ scan.whole
  BY <1>t, <1>0, <1>r, <1>2, <1>5 DEF Trusted, disk, DirWalk
<1>6. FilesInv'
  <2> SUFFICES ASSUME NEW x \in Dirs, Trusted(x)' PROVE FilesOf(x) \subseteq catalog
    BY <1>0, <1>1 DEF FilesInv, TreeWalk, FilesOf, disk, stored
  <2>1. CASE Trusted(x)
    BY <1>0, <2>1 DEF SoundInv, FilesInv, Awaited
  <2>2. CASE ~Trusted(x)
    BY <1>0, <1>5, <2>2 DEF SoundInv, ChangedInv
  <2> QED
    BY <2>1, <2>2
<1>7. ChildrenInv'
  <2> SUFFICES ASSUME NEW x \in Dirs, Trusted(x)', NEW c \in Children(x)
               PROVE  scan'.next[c] # Absent \/ c \in scan.fresh
    BY <1>0, <1>1 DEF ChildrenInv, Children, disk
  <2>1. c \in Dirs
    BY <1>t DEF Children, TypeOK
  <2>2. CASE Trusted(x)
    BY <1>0, <1>4, <2>1, <2>2 DEF SoundInv, ChildrenInv
  <2>3. CASE ~Trusted(x)
    BY <1>0, <1>4, <1>5, <2>1, <2>3 DEF SoundInv, ChangedInv
  <2> QED
    BY <2>2, <2>3
<1>8. ChangedInv'
  BY <1>1 DEF ChangedInv, DirWalk
<1> QED
  BY <1>3, <1>6, <1>7, <1>8 DEF SoundInv

LEMMA SoundStat ==
    ASSUME ScanInv, SoundInv, TypeOK', NEW d \in Dirs, Stat(d) PROVE SoundInv'
<1>t. TypeOK /\ scan \in Scan /\ clock \in Nat /\ \A c \in Dirs : mtime[c] \in 1..clock
  BY DEF ScanInv, TypeOK, SoundInv, DiskInv
<1>0. /\ scan.pc = "stat" /\ scan.doomed = {} /\ online
      /\ UNCHANGED disk /\ UNCHANGED stored
  BY DEF Stat, ScanInv, FrontierInv, SoundInv, OnlineInv
<1>n. scan.at <= clock /\ \A c \in Dirs : scan.next[c] \in Int /\ scan.next[c] <= clock
  BY <1>t DEF SoundInv, DiskInv, Scan
<1>1. /\ scan'.pc \in {"stat", "children"} /\ scan'.exclude = scan.exclude
      /\ scan'.fresh = scan.fresh /\ scan'.doomed = {} /\ scan'.at <= clock
      /\ \/ /\ LookDir(d) = "missing"
            /\ scan'.next = [c \in Dirs |-> IF c \in Within(d) THEN Absent ELSE scan.next[c]]
         \/ LookDir(d) = "error" /\ scan'.next = [scan.next EXCEPT ![d] = Unknown]
         \/ scan'.next = scan.next
  <2>1. CASE LookDir(d) = "missing"
    <3>1. scan' = [scan EXCEPT
                     !.todo = @ \ Within(d),
                     !.candidates = @ \cup (catalog \cap FilesIn(Within(d))),
                     !.next = [c \in Dirs |-> IF c \in Within(d) THEN Absent ELSE scan.next[c]]]
      BY <2>1 DEF Stat, Forgotten
    <3> QED
      BY <1>t, <1>0, <1>n, <2>1, <3>1 DEF Scan
  <2>2. CASE LookDir(d) = "error"
    <3>1. scan' = [scan EXCEPT !.todo = @ \ {d}, !.next[d] = Unknown, !.complete = FALSE]
      BY <2>2 DEF Stat
    <3> QED
      BY <1>t, <1>0, <1>n, <2>2, <3>1 DEF Scan
  <2>3. CASE LookDir(d) = "ok" /\ mtime[d] = scan.known[d]
    BY <1>t, <1>0, <1>n, <2>3 DEF Stat, Scan
  <2>4. CASE LookDir(d) = "ok" /\ mtime[d] # scan.known[d]
    <3>1. scan' = [scan EXCEPT !.todo = @ \ {d}, !.pc = "children",
                               !.root = d, !.at = mtime[d]]
      BY <2>4 DEF Stat
    <3>2. mtime[d] <= clock
      BY <1>t
    <3> QED
      BY <1>t, <1>0, <3>1, <3>2 DEF Scan
  <2> QED
    BY <1>t, <1>0, <2>1, <2>2, <2>3, <2>4, LookOnline
<1>2. \A c \in Dirs : \/ scan'.next[c] = scan.next[c]
                      \/ scan'.next[c] = 0
                      \/ scan'.next[c] = -1 /\ c \in Within(d) /\ d \notin dirs
  <2>1. CASE LookDir(d) = "missing"
    <3>1. d \notin dirs
      BY <1>t, <1>0, <2>1, LookOnline
    <3> QED
      BY <1>1, <2>1, <3>1 DEF Absent
  <2>2. CASE LookDir(d) # "missing"
    BY <1>t, <1>1, <2>2 DEF Scan, Unknown
  <2> QED
    BY <2>1, <2>2
<1>3. DiskInv' /\ OnlineInv' /\ GoneInv' /\ SnapshotInv'
  <2>1. \A c \in Dirs : scan'.next[c] <= clock
    BY <1>t, <1>n, <1>2
  <2> QED
    BY <1>0, <1>1, <2>1, SoundKeep DEF stored
<1>4. \A x \in Dirs : Trusted(x)' => Trusted(x)
  BY <1>t, <1>0, <1>2 DEF Trusted, disk
<1>5. FilesInv'
  BY <1>0, <1>1, <1>4 DEF SoundInv, FilesInv, TreeWalk, Awaited, FilesOf, disk, stored
<1>6. ChildrenInv'
  <2> SUFFICES ASSUME NEW x \in Dirs, Trusted(x)', NEW c \in Children(x)
               PROVE  scan'.next[c] # Absent \/ c \in scan.fresh
    BY <1>0, <1>1 DEF ChildrenInv, Children, disk
  <2>1. c \in Dirs /\ c \in dirs /\ (scan.next[c] # Absent \/ c \in scan.fresh)
    BY <1>t, <1>0, <1>4 DEF SoundInv, ChildrenInv, Children, TypeOK
  <2>2. c \in Within(d) => d \in dirs
    BY <2>1 DEF Within, SoundInv, DiskInv
  <2> QED
    BY <1>2, <2>1, <2>2 DEF Absent
<1>7. ChangedInv'
  BY <1>1 DEF ChangedInv, DirWalk
<1> QED
  BY <1>3, <1>5, <1>6, <1>7 DEF SoundInv

\* A changed directory: a known child is still recorded, since only a missing
\* directory leaves the next snapshot, and what leaves with it is passed.
LEMMA SoundNewChildren ==
    ASSUME ScanInv, SoundInv, TypeOK', NewChildren PROVE SoundInv'
<1>t. TypeOK /\ scan \in Scan /\ clock \in Nat /\ \A c \in Dirs : mtime[c] \in 1..clock
  BY DEF ScanInv, TypeOK, SoundInv, DiskInv
<1>0. /\ scan.pc = "children" /\ scan.doomed = {} /\ online /\ scan.root \in Dirs
      /\ UNCHANGED disk /\ UNCHANGED stored
  BY <1>t DEF NewChildren, ScanInv, FrontierInv, SoundInv, OnlineInv, Scan
<1>n. scan.at <= clock /\ \A c \in Dirs : scan.next[c] \in Int /\ scan.next[c] <= clock
  BY <1>t DEF SoundInv, DiskInv, Scan
<1>3. CASE Readable(scan.root)
  <2> DEFINE new == {c \in Children(scan.root) : scan.known[c] = Absent}
  <2>1. /\ scan'.pc = "list" /\ scan'.walk = "dir" /\ scan'.root = scan.root
        /\ scan'.exclude = scan.exclude /\ scan'.next = scan.next /\ scan'.at = scan.at
        /\ scan'.doomed = {} /\ scan'.frontier = {scan.root}
        /\ scan'.fresh = scan.fresh \cup new
    <3>1. scan' = [scan EXCEPT
                     !.fresh = @ \cup new, !.pc = "list", !.walk = "dir",
                     !.frontier = {scan.root}, !.found = {}, !.seen = {}, !.whole = TRUE]
      BY <1>3 DEF NewChildren
    <3> HIDE DEF new
    <3> QED
      BY <1>t, <1>0, <3>1 DEF Scan
  <2>2. DiskInv' /\ OnlineInv' /\ GoneInv' /\ SnapshotInv'
    BY <1>0, <1>n, <2>1, SoundKeep DEF stored
  <2>3. FilesInv'
    BY <1>0, <2>1 DEF SoundInv, FilesInv, Trusted, TreeWalk, Awaited, FilesOf, disk, stored
  <2>4. ChildrenInv'
    BY <1>0, <2>1 DEF SoundInv, ChildrenInv, Trusted, Children, disk
  <2>5. ASSUME NEW c \in Children(scan.root), scan.known[c] # Absent
        PROVE  scan.next[c] # Absent
    <3>1. c \in Dirs \ {Root} /\ Parent[c] = scan.root
      BY <1>t DEF Children, TypeOK
    <3>2. scan.root < c /\ scan.root \in Nat /\ c \in Nat
      BY <3>1, AboveParent, AboveTypes
    <3>3. scan.next[scan.root] # Absent
      BY <1>0 DEF ScanInv, TodoInv, Checking
    <3>4. scan.next[c] = Absent => c < scan.root
      BY <1>0, <2>5, <3>1, <3>3 DEF ScanInv, TodoInv, Checking
    <3> QED
      BY <3>2, <3>4
  <2>6. ChangedInv'
    BY <1>0, <2>1, <2>5 DEF ChangedInv, DirWalk, Children, disk
  <2> QED
    BY <2>2, <2>3, <2>4, <2>6 DEF SoundInv
<1>4. CASE ~Readable(scan.root)
  <2>1. /\ scan'.pc = "stat" /\ scan'.exclude = scan.exclude /\ scan'.doomed = {}
        /\ scan'.fresh = scan.fresh /\ scan'.at = scan.at
        /\ scan'.next = [scan.next EXCEPT ![scan.root] = Unknown]
    <3>1. scan' = [scan EXCEPT !.pc = "stat", !.next[scan.root] = Unknown, !.complete = FALSE]
      BY <1>4 DEF NewChildren
    <3> QED
      BY <1>t, <1>0, <3>1 DEF Scan
  <2>2. \A c \in Dirs : scan'.next[c] = IF c = scan.root THEN 0 ELSE scan.next[c]
    BY <1>t, <2>1 DEF Scan, Unknown
  <2>3. DiskInv' /\ OnlineInv' /\ GoneInv' /\ SnapshotInv'
    BY <1>t, <1>0, <1>n, <2>1, <2>2, SoundKeep DEF stored
  <2>4. \A x \in Dirs : Trusted(x)' => Trusted(x)
    BY <1>t, <1>0, <2>2 DEF Trusted, disk
  <2>5. FilesInv'
    BY <1>0, <2>1, <2>4 DEF SoundInv, FilesInv, TreeWalk, Awaited, FilesOf, disk, stored
  <2>6. ChildrenInv'
    <3> SUFFICES ASSUME NEW x \in Dirs, Trusted(x)', NEW c \in Children(x)
                 PROVE  scan'.next[c] # Absent \/ c \in scan.fresh
      BY <1>0, <2>1 DEF ChildrenInv, Children, disk
    <3>1. c \in Dirs /\ (scan.next[c] # Absent \/ c \in scan.fresh)
      BY <1>t, <1>0, <2>4 DEF SoundInv, ChildrenInv, Children, TypeOK
    <3> QED
      BY <2>2, <3>1 DEF Absent
  <2>7. ChangedInv'
    BY <2>1 DEF ChangedInv, DirWalk
  <2> QED
    BY <2>3, <2>5, <2>6, <2>7 DEF SoundInv
<1> QED
  BY <1>3, <1>4

\* A new subtree is walked, or is already recorded: no directory above it but
\* itself is new, since it was found in a known one.
LEMMA SoundSubtree ==
    ASSUME ScanInv, SoundInv, TypeOK', NEW d \in Dirs, Subtree(d) PROVE SoundInv'
<1>t. TypeOK /\ scan \in Scan
  BY DEF ScanInv, TypeOK
<1>0. /\ scan.pc = "subtrees" /\ d \in scan.fresh /\ scan.doomed = {} /\ online
      /\ UNCHANGED disk /\ UNCHANGED stored
  BY DEF Subtree, Earliest, ScanInv, FrontierInv, SoundInv, OnlineInv
<1> DEFINE rest == [scan EXCEPT !.fresh = @ \ {d}]
           covered == \E c \in Above[d] : scan.next[c] # Absent
                                           /\ (c = d \/ scan.known[c] = Absent)
<1>1. /\ scan'.exclude = scan.exclude /\ scan'.next = scan.next /\ scan'.at = scan.at
      /\ scan'.fresh = scan.fresh \ {d} /\ scan'.doomed = {}
      /\ \/ scan'.pc = "subtrees" /\ covered
         \/ /\ scan'.pc = "capture" /\ scan'.walk = "tree" /\ scan'.root = d
            /\ scan'.frontier = {d} /\ ~covered
  <2>1. CASE covered
    <3>1. scan' = rest
      BY <2>1 DEF Subtree
    <3> HIDE DEF covered
    <3> QED
      BY <1>t, <1>0, <2>1, <3>1 DEF Scan
  <2>2. CASE ~covered
    <3>1. scan' = WalkTree(rest, d)
      BY <2>2 DEF Subtree
    <3> HIDE DEF covered
    <3> QED
      BY <1>t, <1>0, <2>2, <3>1 DEF Scan, WalkTree
  <2> QED
    BY <2>1, <2>2
<1>2. covered => scan.next[d] # Absent
  <2> SUFFICES ASSUME NEW c \in Above[d], scan.known[c] = Absent, c # d PROVE FALSE
    OBVIOUS
  <2>1. d # Root /\ scan.known[Parent[d]] # Absent
    BY <1>0 DEF ScanInv, FreshInv
  <2>2. c \in Above[Parent[d]] /\ Parent[d] \in Dirs
    BY <2>1, AboveParent
  <2> QED
    BY <2>1, <2>2 DEF ScanInv, Tree
<1>3. ~covered => scan.next[d] = Absent
  BY AboveSelf
<1> HIDE DEF covered
<1>4. DiskInv' /\ OnlineInv' /\ GoneInv' /\ SnapshotInv'
  BY <1>0, <1>1, SoundKeep DEF SoundInv, DiskInv, stored
<1>5. FilesInv'
  <2> SUFFICES ASSUME NEW x \in Dirs, Trusted(x)
               PROVE  /\ FilesOf(x) \subseteq catalog
                      /\ ~covered => x \notin Within(d)
    BY <1>0, <1>1 DEF FilesInv, Trusted, TreeWalk, FilesOf, Within, disk, stored
  <2>1. FilesOf(x) \subseteq catalog
    BY <1>0 DEF SoundInv, FilesInv, Awaited, TreeWalk
  <2>2. scan.next[x] # Absent
    BY <1>t DEF Trusted, TypeOK, Absent
  <2>3. ~covered => x \notin Within(d)
    BY <1>3, <2>2 DEF ScanInv, Tree, Within
  <2> QED
    BY <2>1, <2>3
<1>6. ChildrenInv'
  <2> SUFFICES ASSUME NEW x \in Dirs, Trusted(x), NEW c \in Children(x)
               PROVE  \/ scan.next[c] # Absent \/ c \in scan.fresh \ {d}
                      \/ scan'.pc = "capture" /\ c \in scan'.frontier
    BY <1>0, <1>1 DEF ChildrenInv, Trusted, Children, disk
  <2>1. scan.next[c] # Absent \/ c \in scan.fresh
    BY <1>0 DEF SoundInv, ChildrenInv
  <2> QED
    BY <1>1, <1>2, <2>1
<1>7. ChangedInv'
  BY <1>1 DEF ChangedInv, DirWalk
<1> QED
  BY <1>4, <1>5, <1>6, <1>7 DEF SoundInv

\* The phases in which nothing is walked.
LEMMA SoundSettled ==
    ASSUME ScanInv, SoundInv, TypeOK', UNCHANGED disk,
           scan.pc \in {"stat", "subtrees", "reconcile", "check", "confirm", "delete", "save"},
           scan'.pc \in {"stat", "subtrees", "reconcile", "check", "confirm", "delete", "save", "done"},
           scan'.exclude = scan.exclude, scan'.next = scan.next, scan'.at = scan.at,
           scan'.fresh = scan.fresh,
           \A d \in Dirs : snapshot'.at[d] <= clock,
           \A f \in files : f \in catalog /\ f \notin catalog' => scan.next[Home[f]] < mtime[Home[f]]
    PROVE  DiskInv' /\ OnlineInv' /\ FilesInv' /\ ChildrenInv' /\ ChangedInv'
<1>t. TypeOK
  BY DEF ScanInv
<1>1. DiskInv' /\ OnlineInv'
  BY DEF disk, SoundInv, DiskInv, OnlineInv
<1>2. FilesInv'
  <2> SUFFICES ASSUME NEW x \in Dirs, Trusted(x), NEW f \in FilesOf(x) PROVE f \in catalog'
    BY DEF FilesInv, Trusted, TreeWalk, FilesOf, disk
  <2>1. f \in files /\ Home[f] = x /\ f \in catalog
    BY DEF SoundInv, FilesInv, Awaited, TreeWalk, FilesOf
  <2>2. ~(scan.next[x] < mtime[x])
    BY <1>t DEF Trusted, TypeOK
  <2> QED
    BY <2>1, <2>2
<1>3. ChildrenInv'
  BY DEF SoundInv, ChildrenInv, Trusted, Children, disk
<1>4. ChangedInv'
  BY DEF ChangedInv, DirWalk
<1> QED
  BY <1>1, <1>2, <1>3, <1>4

\* The steps of the cleanup before it deletes anything.
CheckStep ==
    \/ \E f \in Files : Check(f) \/ Confirm(f)
    \/ StatEnds \/ SubtreesEnd \/ Reconcile \/ ChecksEnd

LEMMA SoundChecks ==
    ASSUME ScanInv, SoundInv, TypeOK', CheckStep PROVE SoundInv'
<1>t. TypeOK /\ scan \in Scan
  BY ScanTyped
<1>0. /\ UNCHANGED disk /\ UNCHANGED stored
      /\ scan.pc \in {"stat", "subtrees", "reconcile", "check", "confirm"}
  BY Zenon DEF CheckStep, Check, Confirm, StatEnds, SubtreesEnd, Reconcile, ChecksEnd
<1>1. online /\ (scan.pc \in {"stat", "subtrees", "reconcile"} => scan.doomed = {})
  BY <1>0 DEF SoundInv, OnlineInv, ScanInv, FrontierInv
<1> DEFINE Moved ==
       /\ scan'.pc \in {"subtrees", "reconcile", "check", "confirm", "delete", "save"}
       /\ scan'.exclude = scan.exclude /\ scan'.next = scan.next /\ scan'.at = scan.at
       /\ scan'.fresh = scan.fresh
       /\ \A f \in files : f \in scan'.doomed \/ (scan'.pc = "confirm" /\ f \in scan'.found)
             => f \in scan.doomed \/ (scan.pc = "confirm" /\ f \in scan.found)
<1>2. Moved \/ scan' = NoScan
  <2>1. ASSUME NEW f \in Files, Check(f) PROVE Moved \/ scan' = NoScan
    <3>1. CASE LookFile(f) = "ok"
      <4>1. /\ scan' = [scan EXCEPT !.candidates = @ \ {f}]
            /\ scan.pc = "check"
        BY <2>1, <3>1 DEF Check
      <4> QED
        BY <1>t, <4>1 DEF Scan
    <3>2. CASE LookFile(f) = "missing"
      <4>1. f \notin files
        BY <1>t, <1>1, <3>2, LookOnline
      <4> QED
        <5>1. scan' = [scan EXCEPT !.candidates = @ \ {f}, !.pc = "confirm", !.found = {f}]
          BY <2>1, <3>2 DEF Check
        <5>2. /\ scan'.pc = "confirm" /\ scan'.doomed = scan.doomed /\ scan'.found = {f}
              /\ scan'.exclude = scan.exclude /\ scan'.next = scan.next /\ scan'.at = scan.at
              /\ scan'.fresh = scan.fresh
          BY <1>t, <5>1 DEF Scan
        <5> QED
          BY <4>1, <5>2
    <3>3. CASE LookFile(f) = "error"
      BY <2>1, <3>3 DEF Check, Fail
    <3> QED
      BY <1>t, <1>1, <3>1, <3>2, <3>3, LookOnline
  <2>2. ASSUME NEW f \in Files, Confirm(f) PROVE Moved \/ scan' = NoScan
    <3>1. CASE ConfirmedMissing(f)
      <4>1. /\ scan' = [scan EXCEPT !.pc = "check", !.found = {}, !.doomed = @ \cup {f}]
            /\ scan.pc = "confirm" /\ f \in scan.found
        BY <2>2, <3>1 DEF Confirm
      <4>2. /\ scan'.pc = "check" /\ scan'.doomed = scan.doomed \cup {f}
            /\ scan'.exclude = scan.exclude /\ scan'.next = scan.next /\ scan'.at = scan.at
            /\ scan'.fresh = scan.fresh
        BY <1>t, <4>1 DEF Scan
      <4> QED
        BY <4>1, <4>2
    <3>2. CASE ~ConfirmedMissing(f)
      BY <2>2, <3>2 DEF Confirm, Fail
    <3> QED
      BY <3>1, <3>2
  <2>3. CASE StatEnds
    BY <1>t, <1>1, <2>3 DEF StatEnds, Scan
  <2>4. CASE SubtreesEnd
    BY <1>t, <1>1, <2>4 DEF SubtreesEnd, Scan
  <2>5. CASE Reconcile
    <3>1. CASE Readable(Root)
      <4>1. /\ scan' = [scan EXCEPT !.pc = "check", !.candidates = @ \ FilesIn(Hidden(scan.exclude))]
            /\ scan.pc = "reconcile"
        BY <2>5, <3>1 DEF Reconcile
      <4> QED
        BY <1>t, <1>1, <4>1 DEF Scan
    <3>2. CASE ~Readable(Root)
      BY <2>5, <3>2 DEF Reconcile, Fail
    <3> QED
      BY <3>1, <3>2
  <2>6. CASE ChecksEnd
    <3>1. CASE scan.doomed = {}
      BY <1>t, <2>6, <3>1 DEF ChecksEnd, Scan
    <3>2. CASE scan.doomed # {} /\ scan.rechecked
      BY <1>t, <2>6, <3>2 DEF ChecksEnd, Scan
    <3>3. CASE scan.doomed # {} /\ ~scan.rechecked /\ Readable(Root)
      <4>1. /\ scan' = [scan EXCEPT !.rechecked = TRUE, !.candidates = scan.doomed, !.doomed = {}]
            /\ scan.pc = "check"
        BY <2>6, <3>3 DEF ChecksEnd
      <4> QED
        BY <1>t, <4>1 DEF Scan
    <3>4. CASE scan.doomed # {} /\ ~scan.rechecked /\ ~Readable(Root)
      BY <2>6, <3>4 DEF ChecksEnd, Fail
    <3> QED
      BY <3>1, <3>2, <3>3, <3>4
  <2> QED
    BY <2>1, <2>2, <2>3, <2>4, <2>5, <2>6 DEF CheckStep
<1>3. CASE Moved
  <2>1. DiskInv' /\ OnlineInv' /\ FilesInv' /\ ChildrenInv' /\ ChangedInv'
    BY <1>0, <1>3, SoundSettled DEF stored, SoundInv, DiskInv
  <2>2. GoneInv'
    BY <1>0, <1>3 DEF disk, stored, SoundInv, GoneInv
  <2>3. SnapshotInv'
    BY <1>0 DEF disk, stored, SoundInv, SnapshotInv, FilesOf
  <2> QED
    BY <2>1, <2>2, <2>3 DEF SoundInv
<1>4. CASE scan' = NoScan
  BY <1>0, <1>4, SoundIdle
<1> QED
  BY <1>2, <1>3, <1>4

\* A file that came back before its row was deleted changed its directory, which
\* neither the saved snapshot nor the next one records as it is now.
LEMMA SoundDelete ==
    ASSUME ScanInv, SoundInv, TypeOK', Delete PROVE SoundInv'
<1>t. TypeOK /\ scan \in Scan
  BY DEF ScanInv, TypeOK
<1>1. /\ scan.pc = "delete" /\ UNCHANGED disk /\ snapshot' = snapshot
      /\ catalog' = catalog \ scan.doomed
  BY DEF Delete
<1>2. /\ scan'.pc = "save" /\ scan'.exclude = scan.exclude /\ scan'.next = scan.next
      /\ scan'.at = scan.at /\ scan'.fresh = scan.fresh /\ scan'.doomed = scan.doomed
  BY <1>t DEF Delete, Scan
<1>3. \A f \in files : f \in scan.doomed =>
         snapshot.at[Home[f]] < mtime[Home[f]] /\ scan.next[Home[f]] < mtime[Home[f]]
  BY DEF SoundInv, GoneInv
<1>4. DiskInv' /\ OnlineInv' /\ FilesInv' /\ ChildrenInv' /\ ChangedInv'
  BY <1>1, <1>2, <1>3, SoundSettled DEF SoundInv, DiskInv
<1>5. GoneInv'
  BY <1>1, <1>2, <1>3 DEF GoneInv, disk
<1>6. SnapshotInv'
  <2> SUFFICES ASSUME NEW x \in dirs, snapshot.at[x] = mtime[x], NEW f \in FilesOf(x)
               PROVE  f \notin scan.doomed
    BY <1>1 DEF SoundInv, SnapshotInv, FilesOf, disk
  <2>1. f \in files /\ Home[f] = x /\ mtime[x] \in Nat
    BY <1>t DEF FilesOf, TypeOK
  <2> QED
    BY <1>3, <2>1
<1> QED
  BY <1>4, <1>5, <1>6 DEF SoundInv

LEMMA SoundSave ==
    ASSUME ScanInv, SoundInv, TypeOK', Save PROVE SoundInv'
<1>t. TypeOK /\ scan \in Scan
  BY DEF ScanInv, TypeOK
<1>1. /\ scan.pc = "save" /\ UNCHANGED disk /\ catalog' = catalog
      /\ snapshot' = snapshot \/ snapshot' = [key |-> scan.exclude, at |-> scan.next]
  BY DEF Save
<1>2. /\ scan'.pc = "done" /\ scan'.exclude = scan.exclude /\ scan'.next = scan.next
      /\ scan'.at = scan.at /\ scan'.fresh = scan.fresh /\ scan'.doomed = scan.doomed
  BY <1>t DEF Save, Scan
<1>3. DiskInv' /\ OnlineInv' /\ FilesInv' /\ ChildrenInv' /\ ChangedInv'
  BY <1>1, <1>2, SoundSettled DEF SoundInv, DiskInv
<1>4. GoneInv'
  BY <1>1, <1>2 DEF SoundInv, GoneInv, disk
<1>5. SnapshotInv'
  <2>1. CASE snapshot' = snapshot
    BY <1>1, <2>1 DEF SoundInv, SnapshotInv, FilesOf, disk
  <2>2. CASE snapshot' = [key |-> scan.exclude, at |-> scan.next]
    <3> SUFFICES ASSUME NEW x \in dirs, scan.next[x] = mtime[x]
                 PROVE  /\ FilesOf(x) \subseteq catalog
                        /\ \A c \in Children(x) : scan.next[c] # Absent
      BY <1>1, <2>2 DEF SnapshotInv, FilesOf, Children, disk
    <3>1. x \in Dirs /\ Trusted(x) /\ scan.fresh = {}
      BY <1>t, <1>1 DEF Trusted, TypeOK, ScanInv, FreshInv
    <3> QED
      BY <1>1, <3>1 DEF SoundInv, FilesInv, ChildrenInv, Awaited, TreeWalk
  <2> QED
    BY <1>1, <2>1, <2>2
<1> QED
  BY <1>3, <1>4, <1>5 DEF SoundInv

\* A change of the disk: what it adds, it adds to a directory that has a later
\* modification time than any that is recorded.
LEMMA SoundChange ==
    ASSUME ScanInv, SoundInv, TypeOK', NEW newDirs \in SUBSET Dirs, NEW newFiles \in SUBSET Files,
           NEW touched, Change(newDirs, newFiles, touched),
           Root \in newDirs, \A d \in newDirs : Above[d] \subseteq newDirs,
           \A f \in newFiles : Home[f] \in newDirs,
           \A d \in newDirs \ dirs : d \in touched /\ Parent[d] \in touched,
           \A f \in newFiles \ files : Home[f] \in touched
    PROVE  SoundInv'
<1>t. TypeOK /\ scan \in Scan /\ clock \in Nat /\ \A c \in Dirs : mtime[c] \in 1..clock
  BY DEF ScanInv, TypeOK, SoundInv, DiskInv
<1>1. /\ online /\ online' = online /\ clock' = clock + 1 /\ dirs' = newDirs /\ files' = newFiles
      /\ mtime' = [d \in Dirs |-> IF d \in touched THEN clock + 1 ELSE mtime[d]]
      /\ unreadable' \subseteq unreadable
      /\ scan' = scan /\ snapshot' = snapshot /\ catalog' = catalog
  BY DEF Change, stored
<1>2. \A d \in Dirs : /\ scan.next[d] \in Int /\ scan.next[d] <= clock
                      /\ snapshot.at[d] \in Int /\ snapshot.at[d] <= clock
  BY <1>t DEF SoundInv, DiskInv, Scan, TypeOK
<1>3. scan.at \in Nat /\ scan.at <= clock /\ scan.root \in Dirs
  BY <1>t DEF SoundInv, DiskInv, Scan
<1>4. DiskInv'
  BY <1>t, <1>1, <1>2, <1>3 DEF DiskInv
<1>5. OnlineInv'
  BY <1>1 DEF OnlineInv
<1>6. ASSUME NEW d \in newDirs, NEW n \in Int, n <= clock, n = mtime'[d]
      PROVE  /\ d \in dirs /\ n = mtime[d]
             /\ FilesOf(d)' \subseteq FilesOf(d)
             /\ \A c \in newDirs \ {Root} : Parent[c] = d => c \in dirs
  <2>1. d \notin touched /\ n = mtime[d]
    BY <1>t, <1>1, <1>6
  <2>2. FilesOf(d)' \subseteq FilesOf(d)
    BY <1>1, <2>1 DEF FilesOf
  <2> QED
    BY <2>1, <2>2
<1>7. \A d \in Dirs : Trusted(d)' =>
         /\ Trusted(d) /\ FilesOf(d)' \subseteq FilesOf(d)
         /\ Children(d)' \subseteq Children(d)
  <2> SUFFICES ASSUME NEW d \in Dirs, Trusted(d)'
               PROVE  /\ Trusted(d) /\ FilesOf(d)' \subseteq FilesOf(d)
                      /\ Children(d)' \subseteq Children(d)
    OBVIOUS
  <2>1. d \in newDirs /\ scan.next[d] = mtime'[d]
    BY <1>1 DEF Trusted
  <2>2. /\ d \in dirs /\ scan.next[d] = mtime[d] /\ FilesOf(d)' \subseteq FilesOf(d)
        /\ \A c \in newDirs \ {Root} : Parent[c] = d => c \in dirs
    BY <1>2, <1>6, <2>1
  <2> QED
    BY <1>1, <2>2 DEF Trusted, Children
<1>8. FilesInv'
  <2> SUFFICES ASSUME NEW d \in Dirs, Trusted(d)'
               PROVE  /\ FilesOf(d)' \subseteq catalog \/ Awaited(d)'
                      /\ TreeWalk /\ d \in Within(scan.root) => Above[d] \cap unreadable' = {}
    BY <1>1 DEF FilesInv, TreeWalk, Within
  <2>1. Awaited(d) => Awaited(d)'
    BY <1>1, <1>7 DEF Awaited, TreeWalk, Within
  <2> QED
    BY <1>1, <1>7, <2>1 DEF SoundInv, FilesInv
<1>9. ChildrenInv'
  BY <1>1, <1>7 DEF SoundInv, ChildrenInv
<1>10. ChangedInv'
  <2> SUFFICES ASSUME DirWalk, scan.root \in newDirs, mtime'[scan.root] = scan.at
               PROVE  /\ scan.root \in dirs /\ mtime[scan.root] = scan.at
                      /\ FilesOf(scan.root)' \subseteq FilesOf(scan.root)
                      /\ Children(scan.root)' \subseteq Children(scan.root)
    BY <1>1 DEF SoundInv, ChangedInv, DirWalk
  <2>1. /\ scan.root \in dirs /\ scan.at = mtime[scan.root]
        /\ FilesOf(scan.root)' \subseteq FilesOf(scan.root)
        /\ \A c \in newDirs \ {Root} : Parent[c] = scan.root => c \in dirs
    <3>1. PICK r \in newDirs, at \in Int : r = scan.root /\ at = scan.at
      BY <1>3
    <3>2. at <= clock /\ at = mtime'[r]
      BY <1>3, <3>1
    <3>3. /\ r \in dirs /\ at = mtime[r] /\ FilesOf(r)' \subseteq FilesOf(r)
          /\ \A c \in newDirs \ {Root} : Parent[c] = r => c \in dirs
      BY <1>6, <3>2
    <3>4. FilesOf(scan.root)' = FilesOf(r)' /\ FilesOf(scan.root) = FilesOf(r)
      BY <1>1, <3>1 DEF FilesOf
    <3> QED
      BY <3>1, <3>3, <3>4
  <2> QED
    BY <1>1, <2>1 DEF Children
<1>11. GoneInv'
  <2> SUFFICES ASSUME NEW f \in newFiles,
                      f \in scan.doomed \/ (scan.pc = "confirm" /\ f \in scan.found)
               PROVE  snapshot.at[Home[f]] < mtime'[Home[f]] /\ scan.next[Home[f]] < mtime'[Home[f]]
    BY <1>1 DEF GoneInv
  <2>1. Home[f] \in Dirs
    BY TreeTypes
  <2>2. CASE Home[f] \in touched
    BY <1>t, <1>1, <1>2, <2>1, <2>2
  <2>3. CASE Home[f] \notin touched
    BY <1>1, <2>1, <2>3 DEF SoundInv, GoneInv
  <2> QED
    BY <2>2, <2>3
<1>12. SnapshotInv'
  <2> SUFFICES ASSUME NEW d \in newDirs, snapshot.at[d] = mtime'[d]
               PROVE  /\ FilesOf(d)' \subseteq catalog
                      /\ \A c \in newDirs \ {Root} :
                            Parent[c] = d /\ c \notin Hidden(snapshot.key) => snapshot.at[c] # Absent
    BY <1>1 DEF SnapshotInv
  <2>1. /\ d \in dirs /\ snapshot.at[d] = mtime[d] /\ FilesOf(d)' \subseteq FilesOf(d)
        /\ \A c \in newDirs \ {Root} : Parent[c] = d => c \in dirs
    BY <1>2, <1>6
  <2> QED
    BY <2>1 DEF SoundInv, SnapshotInv
<1> QED
  BY <1>4, <1>5, <1>8, <1>9, <1>10, <1>11, <1>12 DEF SoundInv

\* Changes of the disk, faults between scans, and edits of the exclusions.
LEMMA SoundWorld ==
    ASSUME FaultsDuringScan = FALSE, Purges = FALSE,
           ScanInv, SoundInv, TypeOK', WorldStep
    PROVE  SoundInv'
<1>t. TypeOK /\ scan \in Scan /\ dirs \subseteq Dirs /\ files \subseteq Files
  BY DEF ScanInv, TypeOK
<1>d. /\ Root \in dirs /\ \A d \in dirs : Above[d] \subseteq dirs
      /\ \A f \in files : Home[f] \in dirs
  BY DEF SoundInv, DiskInv
<1>1. ASSUME NEW f \in Files, AddFile(f) \/ RemoveFile(f) PROVE SoundInv'
  <2>1. CASE AddFile(f)
    <3>1. /\ Change(dirs, files \cup {f}, {Home[f]}) /\ Home[f] \in dirs
          /\ files \cup {f} \in SUBSET Files
      BY <1>t, <2>1 DEF AddFile
    <3>2. /\ \A g \in files \cup {f} : Home[g] \in dirs
          /\ \A g \in (files \cup {f}) \ files : Home[g] \in {Home[f]}
      BY <1>d, <3>1
    <3> QED
      BY <1>t, <1>d, <3>1, <3>2, SoundChange
  <2>2. CASE RemoveFile(f)
    <3>1. Change(dirs, files \ {f}, {Home[f]}) /\ files \ {f} \in SUBSET Files
      BY <1>t, <2>2 DEF RemoveFile
    <3> QED
      BY <1>t, <1>d, <3>1, SoundChange
  <2> QED
    BY <1>1, <2>1, <2>2
<1>2. ASSUME NEW d \in Dirs \ {Root}, AddDir(d) PROVE SoundInv'
  <2>1. PICK new \in SUBSET Within(d), held \in SUBSET FilesIn(Within(d)) :
           /\ d \in new /\ \A c \in new : Above[c] \subseteq dirs \cup new
           /\ \A f \in held : Home[f] \in new
           /\ Change(dirs \cup new, files \cup held, new \cup {Parent[d]})
    BY <1>2 DEF AddDir
  <2>2. d \notin dirs
    BY <1>2 DEF AddDir
  <2>3. dirs \cup new \in SUBSET Dirs /\ files \cup held \in SUBSET Files
    BY <1>t DEF Within, FilesIn
  <2>4. ASSUME NEW c \in new PROVE c = d \/ Parent[c] \in new
    <3> SUFFICES ASSUME c # d PROVE Parent[c] \in new
      OBVIOUS
    <3>1. c \in Dirs /\ d \in Above[c]
      BY DEF Within
    <3>2. c # Root
      BY <3>1, AboveTypes
    <3>3. /\ Parent[c] \in Dirs /\ Above[c] = {c} \cup Above[Parent[c]]
          /\ Parent[c] \in Above[Parent[c]]
      BY <3>1, <3>2, AboveParent, AboveSelf
    <3>4. d \in Above[Parent[c]] /\ Parent[c] \in dirs \cup new
      BY <2>1, <3>1, <3>3
    <3> QED
      BY <1>d, <2>2, <3>4
  <2>5. /\ Root \in dirs \cup new
        /\ \A c \in dirs \cup new : Above[c] \subseteq dirs \cup new
        /\ \A f \in files \cup held : Home[f] \in dirs \cup new
        /\ \A c \in (dirs \cup new) \ dirs : /\ c \in new \cup {Parent[d]}
                                            /\ Parent[c] \in new \cup {Parent[d]}
        /\ \A f \in (files \cup held) \ files : Home[f] \in new \cup {Parent[d]}
    BY <1>d, <2>1, <2>4
  <2> QED
    BY <2>1, <2>3, <2>5, SoundChange
<1>3. ASSUME NEW d \in Dirs \ {Root}, RemoveDir(d) PROVE SoundInv'
  <2>1. Change(dirs \ Within(d), files \ FilesIn(Within(d)), {Parent[d]})
    BY <1>3 DEF RemoveDir
  <2>2. dirs \ Within(d) \in SUBSET Dirs /\ files \ FilesIn(Within(d)) \in SUBSET Files
    BY <1>t
  <2>3. Root \in dirs \ Within(d)
    BY <1>d, AboveTypes DEF Within
  <2>4. \A c \in dirs \ Within(d) : Above[c] \subseteq dirs \ Within(d)
    BY <1>t, <1>d, AboveTrans DEF Within
  <2>5. \A f \in files \ FilesIn(Within(d)) : Home[f] \in dirs \ Within(d)
    BY <1>t, <1>d DEF FilesIn
  <2> QED
    BY <2>1, <2>2, <2>3, <2>4, <2>5, SoundChange
<1>4. CASE Fault
  <2>1. scan.pc = "idle" /\ scan' = scan /\ snapshot' = snapshot /\ catalog' = catalog
        /\ UNCHANGED <<dirs, files, mtime, clock>>
    BY <1>4 DEF Fault, stored
  <2>2. DiskInv' /\ OnlineInv' /\ GoneInv' /\ SnapshotInv'
    BY <2>1 DEF SoundInv, DiskInv, OnlineInv, GoneInv, SnapshotInv, FilesOf
  <2>3. FilesInv' /\ ChildrenInv' /\ ChangedInv'
    BY <2>1 DEF SoundInv, FilesInv, ChildrenInv, ChangedInv, Trusted, TreeWalk, Awaited,
       DirWalk, FilesOf, Children
  <2> QED
    BY <2>2, <2>3 DEF SoundInv
<1>5. ASSUME NEW ex \in Exclusions, SetExclude(ex) PROVE SoundInv'
  <2>1. UNCHANGED <<disk, stored, scan>>
    BY <1>5 DEF SetExclude
  <2>2. DiskInv' /\ OnlineInv' /\ GoneInv' /\ SnapshotInv'
    BY <2>1 DEF SoundInv, DiskInv, OnlineInv, GoneInv, SnapshotInv, FilesOf, disk, stored
  <2>3. FilesInv' /\ ChildrenInv' /\ ChangedInv'
    BY <2>1 DEF SoundInv, FilesInv, ChildrenInv, ChangedInv, Trusted, TreeWalk, Awaited,
       DirWalk, FilesOf, Children, Within, disk, stored
  <2> QED
    BY <2>2, <2>3 DEF SoundInv
<1>6. ~Purge
  BY DEF Purge
<1> QED
  BY <1>1, <1>2, <1>3, <1>4, <1>5, <1>6 DEF WorldStep

LEMMA SoundStep ==
    ASSUME FaultsDuringScan = FALSE, Purges = FALSE
    PROVE  ScanInv /\ SoundInv /\ [Next]_vars => SoundInv'
<1> SUFFICES ASSUME ScanInv, SoundInv, [Next]_vars PROVE SoundInv'
  OBVIOUS
<1>1. TypeOK'
  BY TypeStep DEF ScanInv
<1>2. ASSUME NEW wantFull \in BOOLEAN, Begin(wantFull) PROVE SoundInv'
  BY <1>1, <1>2, SoundBegin
<1>3. CASE WalkStep
  <2>1. CASE Finish \/ Abort
    BY <1>1, <2>1, SoundIdle DEF Finish, Abort
  <2> QED
    BY <1>1, <1>3, <2>1, SoundCapture, SoundList, SoundCatalog, SoundPhaseEnds, SoundWalkEnds,
       SoundStat, SoundNewChildren, SoundSubtree, SoundChecks, SoundDelete, SoundSave
       DEF WalkStep, CheckStep
<1>4. CASE WorldStep
  BY <1>1, <1>4, SoundWorld
<1>5. CASE UNCHANGED vars
  <2>1. UNCHANGED <<disk, stored, scan>>
    BY <1>5 DEF vars
  <2>2. DiskInv' /\ OnlineInv' /\ GoneInv' /\ SnapshotInv'
    BY <2>1 DEF SoundInv, DiskInv, OnlineInv, GoneInv, SnapshotInv, FilesOf, disk, stored
  <2>3. FilesInv' /\ ChildrenInv' /\ ChangedInv'
    BY <2>1 DEF SoundInv, FilesInv, ChildrenInv, ChangedInv, Trusted, TreeWalk, Awaited,
       DirWalk, FilesOf, Children, Within, disk, stored
  <2> QED
    BY <2>2, <2>3 DEF SoundInv
<1> QED
  BY <1>2, <1>3, <1>4, <1>5 DEF Next

LEMMA SoundSnapshot ==
    ASSUME ScanInv, SoundInv PROVE SnapshotSound
BY DEF SoundInv, SnapshotInv, SnapshotSound, SnapshotValid

\* While drives and permissions change only between scans, and no purge takes
\* rows of files that a snapshot still covers: a directory whose modification
\* time is the recorded one, which quick_catalog skips, has all its files in the
\* catalog and all its subdirectories in the snapshot, whatever changed on the
\* disk before, during and after every scan so far.
THEOREM SnapshotIsSound ==
    ASSUME FaultsDuringScan = FALSE, Purges = FALSE
    PROVE  Spec => []SnapshotSound
<1>1. Init => ScanInv /\ SoundInv
  BY ScanInvInit, SoundInit
<1>2. (ScanInv /\ SoundInv) /\ [Next]_vars => (ScanInv /\ SoundInv)'
  BY ScanInvStep, SoundStep
<1>3. ScanInv /\ SoundInv => SnapshotSound
  BY SoundSnapshot
<1> QED
  BY <1>1, <1>2, <1>3, PTL DEF Spec
=============================================================================
