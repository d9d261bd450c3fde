-------------------------- MODULE ScanResultsProofs --------------------------
(***************************************************************************)
(* What a scan that counts as complete has done, for every tree, set of    *)
(* files and set of exclusions: it has cataloged the files that were there *)
(* throughout, and a full walk has left no row of a file that was not      *)
(* there at any time.  And what a scan may delete while drives go away.    *)
(***************************************************************************)
EXTENDS DirectoryScanProofs, WellFoundedInduction

-----------------------------------------------------------------------------
(* What each step of a walk changes.                                        *)

Kept == scan'.full = scan.full /\ scan'.exclude = scan.exclude /\ scan'.known = scan.known

\* The parts a walk of a tree or a directory keeps while it is under way.
KeptByWalk ==
    /\ Kept /\ scan'.todo = scan.todo /\ scan'.fresh = scan.fresh /\ scan'.walk = scan.walk
    /\ scan'.root = scan.root /\ scan'.complete = scan.complete /\ scan'.candidates = scan.candidates
    /\ scan'.doomed = scan.doomed

LEMMA CaptureEffect ==
    ASSUME TypeOK, NEW d \in Dirs, Capture(d)
    PROVE  /\ scan.pc = "capture" /\ d \in scan.frontier
           /\ UNCHANGED <<disk, exclude, stored, steady, sighted>>
           /\ \/ scan' = NoScan
              \/ /\ KeptByWalk /\ scan'.seen = scan.seen
                 /\ \/ scan'.pc = "capture" /\ \A c \in Dirs : c # d => scan'.next[c] = scan.next[c]
                    \/ scan.full /\ scan'.pc = "list" /\ scan'.frontier = {Root}
<1>t. scan \in Scan
  BY DEF TypeOK
<1>0. /\ scan.pc = "capture" /\ d \in scan.frontier
      /\ UNCHANGED <<disk, exclude, stored, steady, sighted>>
  BY DEF Capture
<1>1. CASE LookDir(d) = "ok"
  <2> DEFINE at == IF d \in unreadable THEN Unknown ELSE mtime[d]
             frontier == (scan.frontier \ {d}) \cup (IF d \in unreadable THEN {} ELSE Children(d))
  <2>1. scan' = [scan EXCEPT !.next[d] = at, !.frontier = frontier]
    BY <1>1 DEF Capture
  <2> HIDE DEF at, frontier
  <2> QED
    BY <1>t, <1>0, <2>1 DEF Scan, KeptByWalk, Kept
<1>2. CASE LookDir(d) # "ok" /\ scan.full
  <2>1. scan' = [scan EXCEPT !.pc = "list", !.next = NoEntries, !.frontier = {Root}]
    BY <1>2 DEF Capture
  <2> QED
    BY <1>t, <1>0, <1>2, <2>1 DEF Scan, KeptByWalk, Kept
<1>3. CASE LookDir(d) # "ok" /\ ~scan.full
  BY <1>0, <1>3 DEF Capture, Fail
<1> QED
  BY <1>1, <1>2, <1>3

LEMMA PhaseEffect ==
    ASSUME TypeOK, CaptureEnds \/ ListEnds
    PROVE  /\ UNCHANGED <<disk, exclude, stored, steady, sighted>>
           /\ KeptByWalk /\ scan'.seen = scan.seen /\ scan'.next = scan.next
           /\ scan'.found = scan.found /\ scan'.whole = scan.whole
           /\ \/ scan.pc = "capture" /\ scan'.pc = "list" /\ scan'.frontier = {scan.root}
              \/ scan.pc = "list" /\ scan.frontier = {} /\ scan'.pc = "catalog"
<1>t. scan \in Scan
  BY DEF TypeOK
<1>1. CASE CaptureEnds
  <2>1. /\ scan' = [scan EXCEPT !.pc = "list", !.frontier = {scan.root}] /\ scan.pc = "capture"
        /\ UNCHANGED <<disk, exclude, stored, steady, sighted>>
    BY <1>1 DEF CaptureEnds
  <2> QED
    BY <1>t, <2>1 DEF Scan, KeptByWalk, Kept
<1>2. CASE ListEnds
  <2>1. /\ scan' = [scan EXCEPT !.pc = "catalog"] /\ scan.pc = "list" /\ scan.frontier = {}
        /\ UNCHANGED <<disk, exclude, stored, steady, sighted>>
    BY <1>2 DEF ListEnds
  <2> QED
    BY <1>t, <2>1 DEF Scan, KeptByWalk, Kept
<1> QED
  BY <1>1, <1>2

LEMMA ListEffect ==
    ASSUME TypeOK, NEW d \in Dirs, List(d)
    PROVE  /\ scan.pc = "list" /\ scan'.pc = "list" /\ d \in scan.frontier
           /\ UNCHANGED <<disk, exclude, stored, steady, sighted>>
           /\ KeptByWalk /\ scan'.seen = scan.seen /\ scan'.next = scan.next
           /\ \/ /\ Readable(d) /\ scan'.found = scan.found \cup FilesOf(d) /\ scan'.whole = scan.whole
                 /\ scan'.frontier = (scan.frontier \ {d})
                                        \cup (IF scan.walk = "tree" THEN Children(d) ELSE {})
              \/ ~Readable(d) /\ scan'.whole = FALSE
<1>t. scan \in Scan
  BY DEF TypeOK
<1>0. scan.pc = "list" /\ d \in scan.frontier /\ UNCHANGED <<disk, exclude, stored, steady, sighted>>
  BY DEF List
<1>1. CASE Readable(d)
  <2> DEFINE found == scan.found \cup FilesOf(d)
             frontier == (scan.frontier \ {d}) \cup (IF scan.walk = "tree" THEN Children(d) ELSE {})
  <2>1. scan' = [scan EXCEPT !.found = found, !.frontier = frontier]
    BY <1>1 DEF List
  <2> HIDE DEF found, frontier
  <2>2. /\ scan'.pc = "list" /\ KeptByWalk /\ scan'.seen = scan.seen /\ scan'.next = scan.next
        /\ scan'.found = found /\ scan'.frontier = frontier /\ scan'.whole = scan.whole
    BY <1>t, <1>0, <2>1 DEF Scan, KeptByWalk, Kept
  <2> QED
    BY <1>0, <1>1, <2>2 DEF found, frontier
<1>2. CASE ~Readable(d)
  <2>1. scan' = [scan EXCEPT !.whole = FALSE, !.frontier = @ \ {d}]
    BY <1>2 DEF List
  <2> QED
    BY <1>t, <1>0, <1>2, <2>1 DEF Scan, KeptByWalk, Kept
<1> QED
  BY <1>1, <1>2

LEMMA CatalogEffect ==
    ASSUME TypeOK, NEW f \in Files, CatalogFile(f)
    PROVE  /\ scan.pc = "catalog" /\ scan'.pc = "catalog" /\ f \in scan.found
           /\ UNCHANGED <<disk, exclude, snapshot, steady, sighted>>
           /\ KeptByWalk /\ scan'.next = scan.next /\ scan'.found = scan.found \ {f}
           /\ \/ /\ LookFile(f) = "ok" /\ catalog' = catalog \cup {f} /\ scan'.seen = scan.seen \cup {f}
                 /\ scan'.whole = scan.whole
              \/ /\ LookFile(f) # "ok" /\ catalog' = catalog /\ scan'.seen = scan.seen
                 /\ scan'.whole => scan.whole /\ LookFile(f) # "error"
BY DEF TypeOK, CatalogFile, Scan, KeptByWalk, Kept

LEMMA WalkEndsEffect ==
    ASSUME TypeOK, WalkEnds
    PROVE  /\ scan.pc = "catalog" /\ scan.found = {}
           /\ UNCHANGED <<disk, exclude, stored, steady, sighted>>
           /\ Kept /\ scan'.todo = scan.todo /\ scan'.fresh = scan.fresh /\ scan'.seen = scan.seen
           /\ scan'.doomed = scan.doomed /\ scan'.complete = (scan.complete /\ scan.whole)
           /\ \A c \in Dirs : c # scan.root \/ scan.walk = "tree" => scan'.next[c] = scan.next[c]
           /\ scan.whole => scan'.candidates = scan.candidates \cup Unseen
           /\ scan.full => scan'.pc = IF scan.whole THEN "reconcile" ELSE "save"
           /\ ~scan.full => scan'.pc = IF scan.walk = "dir" THEN "stat" ELSE "subtrees"
<1>t. scan \in Scan
  BY DEF TypeOK
<1> DEFINE candidates == IF scan.whole THEN scan.candidates \cup Unseen ELSE scan.candidates
           at == IF scan.walk = "dir" THEN Recorded ELSE scan.next[scan.root]
           pc == CASE scan.full -> IF scan.whole THEN "reconcile" ELSE "save"
                   [] ~scan.full -> IF scan.walk = "dir" THEN "stat" ELSE "subtrees"
<1>1. scan' = [scan EXCEPT !.complete = @ /\ scan.whole, !.candidates = candidates,
                           !.next[scan.root] = at, !.pc = pc]
  BY DEF WalkEnds
<1>2. /\ scan.pc = "catalog" /\ scan.found = {}
      /\ UNCHANGED <<disk, exclude, stored, steady, sighted>>
  BY DEF WalkEnds
<1> HIDE DEF candidates, at, pc
<1>3. /\ Kept /\ scan'.todo = scan.todo /\ scan'.fresh = scan.fresh /\ scan'.seen = scan.seen
      /\ scan'.doomed = scan.doomed /\ scan'.complete = (scan.complete /\ scan.whole)
      /\ scan'.candidates = candidates /\ scan'.pc = pc
      /\ \A c \in Dirs : scan'.next[c] = IF c = scan.root THEN at ELSE scan.next[c]
  BY <1>t, <1>1 DEF Scan, Kept
<1> QED
  BY <1>t, <1>2, <1>3 DEF candidates, at, pc, Scan

LEMMA StatEffect ==
    ASSUME TypeOK, NEW d \in Dirs, Stat(d)
    PROVE  /\ scan.pc = "stat" /\ Earliest(scan.todo, d)
           /\ UNCHANGED <<disk, exclude, stored, steady, sighted>>
           /\ Kept /\ scan'.fresh = scan.fresh /\ scan'.seen = scan.seen /\ scan'.doomed = scan.doomed
           /\ \/ /\ LookDir(d) = "missing" /\ scan'.pc = "stat" /\ scan'.todo = scan.todo \ Within(d)
                 /\ scan'.complete = scan.complete
                 /\ \A c \in Dirs : scan'.next[c] = IF d \in Above[c] THEN Absent ELSE scan.next[c]
              \/ /\ LookDir(d) = "error" /\ scan'.pc = "stat" /\ scan'.todo = scan.todo \ {d}
                 /\ ~scan'.complete /\ \A c \in Dirs : c # d => scan'.next[c] = scan.next[c]
              \/ /\ LookDir(d) = "ok" /\ scan'.todo = scan.todo \ {d} /\ scan'.next = scan.next
                 /\ scan'.complete = scan.complete
                 /\ \/ mtime[d] = scan.known[d] /\ scan'.pc = "stat"
                    \/ scan'.pc = "children" /\ scan'.root = d
<1>t. scan \in Scan
  BY DEF TypeOK
<1>0. /\ scan.pc = "stat" /\ Earliest(scan.todo, d)
      /\ UNCHANGED <<disk, exclude, stored, steady, sighted>>
  BY DEF Stat
<1>1. CASE LookDir(d) = "missing"
  <2> DEFINE candidates == scan.candidates \cup (catalog \cap FilesIn(Within(d)))
             todo == scan.todo \ Within(d)
             next == [c \in Dirs |-> IF c \in Forgotten(d) THEN Absent ELSE scan.next[c]]
  <2>1. scan' = [scan EXCEPT !.todo = todo, !.candidates = candidates, !.next = next]
    BY <1>1 DEF Stat
  <2> HIDE DEF candidates, todo, next
  <2>2. /\ scan'.pc = scan.pc /\ Kept /\ scan'.fresh = scan.fresh /\ scan'.seen = scan.seen
        /\ scan'.doomed = scan.doomed /\ scan'.complete = scan.complete
        /\ scan'.todo = todo /\ scan'.next = next
    BY <1>t, <2>1 DEF Scan, Kept
  <2>3. \A c \in Dirs : next[c] = IF d \in Above[c] THEN Absent ELSE scan.next[c]
    BY DEF next, Forgotten, Within
  <2> QED
    BY <1>0, <1>1, <2>2, <2>3 DEF todo
<1>2. CASE LookDir(d) = "error"
  <2>1. scan' = [scan EXCEPT !.todo = @ \ {d}, !.next[d] = Unknown, !.complete = FALSE]
    BY <1>2 DEF Stat
  <2>2. /\ scan'.pc = scan.pc /\ Kept /\ scan'.fresh = scan.fresh /\ scan'.seen = scan.seen
        /\ scan'.doomed = scan.doomed /\ scan'.complete = FALSE
        /\ scan'.todo = scan.todo \ {d} /\ \A c \in Dirs : c # d => scan'.next[c] = scan.next[c]
    BY <1>t, <2>1 DEF Scan, Kept
  <2> QED
    BY <1>0, <1>2, <2>2
<1>3. CASE LookDir(d) = "ok" /\ mtime[d] = scan.known[d]
  <2>1. scan' = [scan EXCEPT !.todo = @ \ {d}]
    BY <1>3 DEF Stat
  <2>2. /\ scan'.pc = scan.pc /\ Kept /\ scan'.fresh = scan.fresh /\ scan'.seen = scan.seen
        /\ scan'.doomed = scan.doomed /\ scan'.complete = scan.complete
        /\ scan'.todo = scan.todo \ {d} /\ scan'.next = scan.next
    BY <1>t, <2>1 DEF Scan, Kept
  <2> QED
    BY <1>0, <1>3, <2>2
<1>4. CASE LookDir(d) = "ok" /\ mtime[d] # scan.known[d]
  <2>1. scan' = [scan EXCEPT !.todo = @ \ {d}, !.pc = "children", !.root = d, !.at = mtime[d]]
    BY <1>4 DEF Stat
  <2>2. /\ scan'.pc = "children" /\ scan'.root = d /\ Kept /\ scan'.fresh = scan.fresh
        /\ scan'.seen = scan.seen
        /\ scan'.doomed = scan.doomed /\ scan'.complete = scan.complete
        /\ scan'.todo = scan.todo \ {d} /\ scan'.next = scan.next
    BY <1>t, <2>1 DEF Scan, Kept
  <2> QED
    BY <1>0, <1>4, <2>2
<1> QED
  BY <1>1, <1>2, <1>3, <1>4 DEF LookDir, Look

LEMMA NewChildrenEffect ==
    ASSUME TypeOK, NewChildren
    PROVE  /\ scan.pc = "children" /\ UNCHANGED <<disk, exclude, stored, steady, sighted>>
           /\ Kept /\ scan'.todo = scan.todo /\ scan'.doomed = scan.doomed /\ scan'.root = scan.root
           /\ \/ /\ Readable(scan.root) /\ scan'.pc = "list" /\ scan'.walk = "dir"
                 /\ scan'.frontier = {scan.root} /\ scan'.found = {} /\ scan'.seen = {} /\ scan'.whole
                 /\ scan'.complete = scan.complete /\ scan'.next = scan.next
                 /\ scan'.fresh = scan.fresh \cup {c \in Children(scan.root) : scan.known[c] = Absent}
              \/ /\ scan'.pc = "stat" /\ ~scan'.complete /\ scan'.fresh = scan.fresh
                 /\ scan'.seen = scan.seen /\ scan'.walk = scan.walk
                 /\ \A c \in Dirs : c # scan.root => scan'.next[c] = scan.next[c]
<1>t. scan \in Scan
  BY DEF TypeOK
<1>0. scan.pc = "children" /\ UNCHANGED <<disk, exclude, stored, steady, sighted>>
  BY DEF NewChildren
<1>1. CASE Readable(scan.root)
  <2> DEFINE fresh == scan.fresh \cup {c \in Children(scan.root) : scan.known[c] = Absent}
  <2>1. scan' = [scan EXCEPT !.fresh = fresh, !.pc = "list", !.walk = "dir",
                             !.frontier = {scan.root}, !.found = {}, !.seen = {}, !.whole = TRUE]
    BY <1>1 DEF NewChildren
  <2> HIDE DEF fresh
  <2>2. /\ scan'.pc = "list" /\ scan'.walk = "dir" /\ Kept /\ scan'.todo = scan.todo
        /\ scan'.doomed = scan.doomed /\ scan'.root = scan.root /\ scan'.frontier = {scan.root}
        /\ scan'.found = {} /\ scan'.seen = {} /\ scan'.whole = TRUE /\ scan'.fresh = fresh
        /\ scan'.complete = scan.complete /\ scan'.next = scan.next
    BY <1>t, <2>1 DEF Scan, Kept
  <2> QED
    BY <1>0, <1>1, <2>2 DEF fresh
<1>2. CASE ~Readable(scan.root)
  <2>1. scan' = [scan EXCEPT !.pc = "stat", !.next[scan.root] = Unknown, !.complete = FALSE]
    BY <1>2 DEF NewChildren
  <2> QED
    BY <1>t, <1>0, <2>1 DEF Scan, Kept
<1> QED
  BY <1>1, <1>2

\* A new subtree is walked, or was walked with one above it.
Covered(d) == \E c \in Above[d] : scan.next[c] # Absent /\ (c = d \/ scan.known[c] = Absent)

LEMMA SubtreeEffect ==
    ASSUME TypeOK, NEW d \in Dirs, Subtree(d)
    PROVE  /\ scan.pc = "subtrees" /\ Earliest(scan.fresh, d)
           /\ UNCHANGED <<disk, exclude, stored, steady, sighted>>
           /\ Kept /\ scan'.todo = scan.todo /\ scan'.doomed = scan.doomed /\ scan'.next = scan.next
           /\ scan'.complete = scan.complete /\ scan'.fresh = scan.fresh \ {d}
           /\ \/ Covered(d) /\ scan'.pc = "subtrees" /\ scan'.seen = scan.seen
              \/ /\ scan'.pc = "capture" /\ scan'.walk = "tree" /\ scan'.root = d
                 /\ scan'.seen = {} /\ scan'.whole
<1>t. scan \in Scan
  BY DEF TypeOK
<1> DEFINE rest == [scan EXCEPT !.fresh = @ \ {d}]
<1>0. /\ scan.pc = "subtrees" /\ Earliest(scan.fresh, d)
      /\ UNCHANGED <<disk, exclude, stored, steady, sighted>>
      /\ scan' = IF Covered(d) THEN rest ELSE WalkTree(rest, d)
  BY DEF Subtree, Covered
<1>1. /\ rest \in Scan /\ rest.pc = scan.pc /\ rest.full = scan.full /\ rest.exclude = scan.exclude
      /\ rest.known = scan.known /\ rest.todo = scan.todo /\ rest.doomed = scan.doomed
      /\ rest.next = scan.next /\ rest.complete = scan.complete /\ rest.fresh = scan.fresh \ {d}
      /\ rest.seen = scan.seen
  BY <1>t DEF Scan
<1> HIDE DEF rest
<1>2. CASE Covered(d)
  BY <1>0, <1>1, <1>2 DEF Kept
<1>3. CASE ~Covered(d)
  <2>1. scan' = WalkTree(rest, d)
    BY <1>0, <1>3
  <2>2. /\ scan'.full = rest.full /\ scan'.exclude = rest.exclude
        /\ scan'.known = rest.known /\ scan'.todo = rest.todo /\ scan'.doomed = rest.doomed
        /\ scan'.next = rest.next /\ scan'.complete = rest.complete /\ scan'.fresh = rest.fresh
        /\ scan'.pc = "capture" /\ scan'.walk = "tree" /\ scan'.root = d
        /\ scan'.seen = {} /\ scan'.whole = TRUE
    BY <1>1, <2>1 DEF WalkTree, Scan
  <2> QED
    BY <1>0, <1>1, <2>2 DEF Kept
<1> QED
  BY <1>2, <1>3

\* The parts the cleanup keeps.
KeptByCleanup ==
    /\ Kept /\ scan'.todo = scan.todo /\ scan'.fresh = scan.fresh /\ scan'.seen = scan.seen
    /\ scan'.complete = scan.complete /\ scan'.next = scan.next

LEMMA EndsEffect ==
    ASSUME TypeOK, StatEnds \/ SubtreesEnd
    PROVE  /\ UNCHANGED <<disk, exclude, stored, steady, sighted>>
           /\ KeptByCleanup /\ scan'.doomed = scan.doomed
           /\ \/ scan.pc = "stat" /\ scan.todo = {} /\ scan'.pc = "subtrees"
              \/ scan.pc = "subtrees" /\ scan.fresh = {} /\ scan'.pc = "reconcile"
<1>t. scan \in Scan
  BY DEF TypeOK
<1>1. CASE StatEnds
  BY <1>t, <1>1 DEF StatEnds, Scan, KeptByCleanup, Kept
<1>2. CASE SubtreesEnd
  BY <1>t, <1>2 DEF SubtreesEnd, Scan, KeptByCleanup, Kept
<1> QED
  BY <1>1, <1>2

LEMMA ReconcileEffect ==
    ASSUME TypeOK, Reconcile
    PROVE  /\ scan.pc = "reconcile" /\ UNCHANGED <<disk, exclude, stored, steady, sighted>>
           /\ \/ scan' = NoScan
              \/ /\ KeptByCleanup /\ scan'.pc = "check" /\ scan'.doomed = scan.doomed
                 /\ scan'.candidates = scan.candidates \ FilesIn(Hidden(scan.exclude))
<1>t. scan \in Scan
  BY DEF TypeOK
<1>1. CASE Readable(Root)
  <2> DEFINE candidates == scan.candidates \ FilesIn(Hidden(scan.exclude))
  <2>1. scan' = [scan EXCEPT !.pc = "check", !.candidates = candidates]
    BY <1>1 DEF Reconcile
  <2> HIDE DEF candidates
  <2>2. KeptByCleanup /\ scan'.pc = "check" /\ scan'.doomed = scan.doomed /\ scan'.candidates = candidates
    BY <1>t, <2>1 DEF Scan, KeptByCleanup, Kept
  <2> QED
    BY <2>2 DEF Reconcile, candidates
<1>2. CASE ~Readable(Root)
  BY <1>2 DEF Reconcile, Fail
<1> QED
  BY <1>1, <1>2

LEMMA CheckEffect ==
    ASSUME TypeOK, NEW f \in Files, Check(f)
    PROVE  /\ scan.pc = "check" /\ UNCHANGED <<disk, exclude, stored, steady, sighted>>
           /\ \/ scan' = NoScan
              \/ /\ KeptByCleanup /\ scan'.doomed = scan.doomed /\ scan'.candidates = scan.candidates \ {f}
                 /\ \/ LookFile(f) = "ok" /\ scan'.pc = "check"
                    \/ LookFile(f) = "missing" /\ scan'.pc = "confirm" /\ scan'.found = {f}
<1>t. scan \in Scan
  BY DEF TypeOK
<1>0. scan.pc = "check" /\ UNCHANGED <<disk, exclude, stored, steady, sighted>>
  BY DEF Check
<1>1. CASE LookFile(f) = "ok"
  <2>1. scan' = [scan EXCEPT !.candidates = @ \ {f}]
    BY <1>1 DEF Check
  <2> QED
    BY <1>t, <1>0, <1>1, <2>1 DEF Scan, KeptByCleanup, Kept
<1>2. CASE LookFile(f) = "missing"
  <2>1. scan' = [scan EXCEPT !.candidates = @ \ {f}, !.pc = "confirm", !.found = {f}]
    BY <1>2 DEF Check
  <2> QED
    BY <1>t, <1>0, <1>2, <2>1 DEF Scan, KeptByCleanup, Kept
<1>3. CASE LookFile(f) = "error"
  BY <1>0, <1>3 DEF Check, Fail
<1> QED
  BY <1>1, <1>2, <1>3 DEF LookFile, Look

LEMMA ConfirmEffect ==
    ASSUME TypeOK, NEW f \in Files, Confirm(f)
    PROVE  /\ scan.pc = "confirm" /\ f \in scan.found
           /\ UNCHANGED <<disk, exclude, stored, steady, sighted>>
           /\ \/ scan' = NoScan
              \/ /\ KeptByCleanup /\ scan'.pc = "check" /\ scan'.doomed = scan.doomed \cup {f}
                 /\ scan'.candidates = scan.candidates
<1>t. scan \in Scan
  BY DEF TypeOK
<1>0. scan.pc = "confirm" /\ f \in scan.found /\ UNCHANGED <<disk, exclude, stored, steady, sighted>>
  BY DEF Confirm
<1>1. CASE ConfirmedMissing(f)
  <2>1. scan' = [scan EXCEPT !.pc = "check", !.found = {}, !.doomed = @ \cup {f}]
    BY <1>1 DEF Confirm
  <2> QED
    BY <1>t, <1>0, <2>1 DEF Scan, KeptByCleanup, Kept
<1>2. CASE ~ConfirmedMissing(f)
  BY <1>0, <1>2 DEF Confirm, Fail
<1> QED
  BY <1>1, <1>2

LEMMA ChecksEndEffect ==
    ASSUME TypeOK, ChecksEnd
    PROVE  /\ scan.pc = "check" /\ scan.candidates = {}
           /\ UNCHANGED <<disk, exclude, stored, steady, sighted>>
           /\ \/ scan' = NoScan
              \/ /\ KeptByCleanup
                 /\ \/ scan.doomed = {} /\ scan'.doomed = {} /\ scan'.pc = "save"
                    \/ scan'.doomed = scan.doomed /\ scan'.pc = "delete"
                    \/ scan'.pc = "check" /\ scan'.candidates = scan.doomed /\ scan'.doomed = {}
<1>t. scan \in Scan
  BY DEF TypeOK
<1>0. /\ scan.pc = "check" /\ scan.candidates = {}
      /\ UNCHANGED <<disk, exclude, stored, steady, sighted>>
  BY DEF ChecksEnd
<1>1. CASE scan.doomed = {}
  <2>1. scan' = [scan EXCEPT !.pc = "save"]
    BY <1>1 DEF ChecksEnd
  <2> QED
    BY <1>t, <1>0, <1>1, <2>1 DEF Scan, KeptByCleanup, Kept
<1>2. CASE scan.doomed # {} /\ scan.rechecked
  <2>1. scan' = [scan EXCEPT !.pc = "delete"]
    BY <1>2 DEF ChecksEnd
  <2> QED
    BY <1>t, <1>0, <2>1 DEF Scan, KeptByCleanup, Kept
<1>3. CASE scan.doomed # {} /\ ~scan.rechecked /\ Readable(Root)
  <2>1. scan' = [scan EXCEPT !.rechecked = TRUE, !.candidates = scan.doomed, !.doomed = {}]
    BY <1>3 DEF ChecksEnd
  <2> QED
    BY <1>t, <1>0, <2>1 DEF Scan, KeptByCleanup, Kept
<1>4. CASE scan.doomed # {} /\ ~scan.rechecked /\ ~Readable(Root)
  BY <1>0, <1>4 DEF ChecksEnd, Fail
<1> QED
  BY <1>1, <1>2, <1>3, <1>4

LEMMA DeleteEffect ==
    ASSUME TypeOK, Delete
    PROVE  /\ scan.pc = "delete" /\ catalog' = catalog \ scan.doomed
           /\ UNCHANGED <<disk, exclude, snapshot, steady, sighted>>
           /\ KeptByCleanup /\ scan'.doomed = scan.doomed /\ scan'.pc = "save"
BY DEF TypeOK, Delete, Scan, KeptByCleanup, Kept

LEMMA SaveEffect ==
    ASSUME TypeOK, Save
    PROVE  /\ scan.pc = "save" /\ UNCHANGED <<disk, exclude, catalog, steady, sighted>>
           /\ KeptByCleanup /\ scan'.doomed = scan.doomed /\ scan'.pc = "done"
BY DEF TypeOK, Save, Scan, KeptByCleanup, Kept

\* A scan starts from the root, or from the snapshot.
LEMMA BeginEffect ==
    ASSUME TypeOK, NEW wantFull \in BOOLEAN, Begin(wantFull)
    PROVE  /\ scan.pc = "idle" /\ UNCHANGED <<disk, exclude, stored>>
           /\ steady' = files /\ sighted' = files
           /\ scan'.exclude = exclude /\ scan'.complete /\ scan'.seen = {} /\ scan'.found = {}
           /\ scan'.doomed = {} /\ scan'.fresh = {}
           /\ \/ /\ scan'.full /\ scan'.pc = "capture" /\ scan'.walk = "tree" /\ scan'.root = Root
                 /\ scan'.frontier = {Root}
              \/ /\ SnapshotValid /\ ~scan'.full /\ scan'.pc = "stat"
                 /\ scan'.known = snapshot.at /\ scan'.next = snapshot.at
                 /\ scan'.todo = {d \in Dirs : snapshot.at[d] # Absent}
<1>0. /\ scan.pc = "idle" /\ UNCHANGED <<disk, exclude, stored>> /\ steady' = files /\ sighted' = files
  BY DEF Begin
<1>1. CASE wantFull \/ ~SnapshotValid
  BY <1>0, <1>1 DEF Begin, WalkTree, NoScan
<1>2. CASE ~(wantFull \/ ~SnapshotValid)
  BY <1>0, <1>2 DEF Begin, NoScan
<1> QED
  BY <1>1, <1>2

\* What the rest of the world changes.
LEMMA WorldEffect ==
    ASSUME TypeOK, WorldStep
    PROVE  /\ scan' = scan /\ snapshot' = snapshot
           /\ \/ UNCHANGED <<files, steady, sighted>> /\ (catalog' = catalog \/ scan.pc = "idle")
              \/ /\ catalog' = catalog /\ steady' = steady \cap files'
                 /\ sighted' = sighted \cup files'
BY DEF WorldStep, AddFile, RemoveFile, AddDir, RemoveDir, Change, Fault, SetExclude, Purge,
   disk, stored

-----------------------------------------------------------------------------
(* What a full walk cleans.                                                 *)

\* What is on the disk and readable, or missing, whatever the drive does.
LEMMA LookOk ==
    /\ \A d \in Dirs : LookDir(d) = "ok" => d \in dirs
    /\ \A f \in Files : LookFile(f) = "ok" => f \in files
BY DEF LookDir, LookFile, Look

LEMMA CleanIdle ==
    ASSUME scan' = NoScan PROVE CleanInv'
BY DEF CleanInv, NoScan, TreeWalk

\* Before the cleanup there is nothing to say of the rows.
LEMMA CleanBefore ==
    ASSUME CleanInv, files' = files, sighted' = sighted, scan.pc # "idle",
           scan'.seen \subseteq sighted, TreeWalk' /\ scan'.full => scan'.root = Root,
           scan'.full /\ scan'.complete =>
              scan'.pc \notin {"reconcile", "check", "confirm", "delete", "save", "done"}
    PROVE  CleanInv'
<1>1. files' \subseteq sighted' /\ scan'.seen \subseteq sighted'
  BY DEF CleanInv
<1> QED
  BY <1>1 DEF CleanInv

LEMMA CleanWalk ==
    ASSUME ScanInv, CleanInv,
           \/ \E d \in Dirs : Capture(d) \/ List(d)
           \/ \E f \in Files : CatalogFile(f)
           \/ CaptureEnds \/ ListEnds
    PROVE  CleanInv'
<1>t. TypeOK /\ FrontierInv
  BY DEF ScanInv
<1>1. ASSUME NEW d \in Dirs, Capture(d) PROVE CleanInv'
  <2>0. /\ scan.pc = "capture" /\ files' = files /\ sighted' = sighted
        /\ scan' = NoScan
              \/ (KeptByWalk /\ scan'.seen = scan.seen /\ scan'.pc \in {"capture", "list"})
    BY <1>t, <1>1, CaptureEffect DEF disk
  <2>1. scan' = NoScan => CleanInv'
    BY CleanIdle
  <2>2. CASE KeptByWalk /\ scan'.seen = scan.seen /\ scan'.pc \in {"capture", "list"}
    <3>1. TreeWalk' => TreeWalk /\ scan'.root = scan.root
      BY <1>t, <2>0, <2>2 DEF TreeWalk, KeptByWalk, FrontierInv
    <3> QED
      BY <2>0, <2>2, <3>1, CleanBefore DEF CleanInv, KeptByWalk, Kept
  <2> QED
    BY <2>0, <2>1, <2>2
<1>2. ASSUME /\ scan.pc \in {"capture", "list", "catalog"} /\ scan'.pc \in {"list", "catalog"}
             /\ KeptByWalk /\ scan'.seen \subseteq scan.seen \cup files
             /\ files' = files /\ sighted' = sighted
      PROVE  CleanInv'
  <2>1. TreeWalk' => TreeWalk /\ scan'.root = scan.root
    BY <1>t, <1>2 DEF TreeWalk, KeptByWalk, FrontierInv
  <2> QED
    BY <1>2, <2>1, CleanBefore DEF CleanInv, KeptByWalk, Kept
<1>3. ASSUME NEW d \in Dirs, List(d) PROVE CleanInv'
  BY <1>t, <1>2, <1>3, ListEffect DEF disk
<1>4. ASSUME NEW f \in Files, CatalogFile(f) PROVE CleanInv'
  BY <1>t, <1>2, <1>4, CatalogEffect, LookOk DEF disk
<1>5. ASSUME CaptureEnds \/ ListEnds PROVE CleanInv'
  BY <1>t, <1>2, <1>5, PhaseEffect DEF disk
<1> QED
  BY <1>1, <1>3, <1>4, <1>5

\* A quick check is not a full walk.
LEMMA CleanQuick ==
    ASSUME ScanInv, CleanInv,
           \/ \E d \in Dirs : Stat(d) \/ Subtree(d)
           \/ NewChildren \/ StatEnds \/ SubtreesEnd
    PROVE  CleanInv'
<1>t. TypeOK /\ FreshInv
  BY DEF ScanInv
<1>1. ASSUME scan.pc \in {"stat", "children", "subtrees"}, Kept, files' = files,
             sighted' = sighted, scan'.seen = scan.seen \/ scan'.seen = {}
      PROVE  CleanInv'
  <2>1. ~scan'.full
    BY <1>t, <1>1 DEF FreshInv, Kept
  <2> QED
    BY <1>1, <2>1, CleanBefore DEF CleanInv
<1>2. ASSUME NEW d \in Dirs, Stat(d) PROVE CleanInv'
  BY <1>t, <1>1, <1>2, StatEffect DEF disk
<1>3. ASSUME NEW d \in Dirs, Subtree(d) PROVE CleanInv'
  BY <1>t, <1>1, <1>3, SubtreeEffect DEF disk
<1>4. ASSUME NewChildren PROVE CleanInv'
  BY <1>t, <1>1, <1>4, NewChildrenEffect DEF disk
<1>5. ASSUME StatEnds \/ SubtreesEnd PROVE CleanInv'
  BY <1>t, <1>1, <1>5, EndsEffect DEF disk, KeptByCleanup
<1> QED
  BY <1>2, <1>3, <1>4, <1>5

\* After a complete walk from the root, whatever it has not seen is a candidate.
LEMMA CleanWalkEnds ==
    ASSUME ScanInv, CleanInv, WalkEnds PROVE CleanInv'
<1>t. TypeOK /\ FreshInv /\ scan \in Scan
  BY DEF ScanInv, TypeOK
<1>0. /\ scan.pc = "catalog" /\ UNCHANGED <<disk, exclude, stored, steady, sighted>>
      /\ Kept /\ scan'.seen = scan.seen /\ scan'.complete = (scan.complete /\ scan.whole)
      /\ scan.whole => scan'.candidates = scan.candidates \cup Unseen
      /\ scan.full => scan'.pc = IF scan.whole THEN "reconcile" ELSE "save"
      /\ ~scan.full => scan'.pc = IF scan.walk = "dir" THEN "stat" ELSE "subtrees"
  BY <1>t, WalkEndsEffect
<1>1. files' \subseteq sighted' /\ scan'.seen \subseteq sighted' /\ ~TreeWalk'
  BY <1>0 DEF CleanInv, disk, TreeWalk
<1>2. CASE ~scan.full \/ ~scan.whole
  BY <1>0, <1>1, <1>2 DEF CleanInv, Kept
<1>3. CASE scan.full /\ scan.whole
  <2>1. scan.walk = "tree" /\ scan.root = Root
    BY <1>t, <1>0, <1>3 DEF FreshInv, CleanInv, TreeWalk
  <2>2. Unseen = catalog \ scan.seen
    <3>1. Within(Root) = Dirs
      BY AboveSelf DEF Within
    <3>2. FilesIn(Dirs) = Files
      BY TreeTypes DEF FilesIn
    <3>3. Unseen = (catalog \cap FilesIn(Within(Root))) \ scan.seen
      BY <2>1 DEF Unseen
    <3> QED
      BY <1>t, <3>1, <3>2, <3>3 DEF TypeOK
  <2>3. Stale' = Stale /\ Stale \subseteq Unseen
    BY <1>0, <2>2 DEF Stale, Kept, stored, CleanInv
  <2>4. scan'.pc = "reconcile" /\ Stale' \subseteq scan'.candidates
    BY <1>0, <1>3, <2>3
  <2> QED
    BY <1>1, <2>4 DEF CleanInv
<1> QED
  BY <1>2, <1>3

\* In the cleanup a stale row stays a candidate or doomed until it is deleted.
LEMMA CleanStep ==
    ASSUME CleanInv, files' = files, sighted' = sighted, scan.pc # "idle", KeptByCleanup, Stale' \subseteq Stale,
           scan'.pc \in {"check", "confirm", "delete", "save", "done"},
           scan.full /\ scan.complete =>
              /\ scan'.pc = "check" => Stale' \subseteq scan'.candidates \cup scan'.doomed
              /\ scan'.pc = "confirm" =>
                    \A f \in scan'.found : Stale' \subseteq scan'.candidates \cup scan'.doomed \cup {f}
              /\ scan'.pc = "delete" => Stale' \subseteq scan'.doomed
              /\ scan'.pc \in {"save", "done"} => Stale' = {}
    PROVE  CleanInv'
<1>1. files' \subseteq sighted' /\ scan'.seen \subseteq sighted'
  BY DEF CleanInv, KeptByCleanup
<1>2. ~TreeWalk'
  BY DEF TreeWalk
<1>3. scan'.full = scan.full /\ scan'.complete = scan.complete
  BY DEF KeptByCleanup, Kept
<1> QED
  BY <1>1, <1>2, <1>3 DEF CleanInv

LEMMA StaleKept ==
    ASSUME catalog' = catalog, sighted' = sighted, scan'.exclude = scan.exclude PROVE Stale' = Stale
BY DEF Stale

LEMMA CleanCleanup ==
    ASSUME ScanInv, CleanInv,
           \/ \E f \in Files : Check(f) \/ Confirm(f)
           \/ Reconcile \/ ChecksEnd \/ Delete \/ Save
    PROVE  CleanInv'
<1>t. TypeOK
  BY DEF ScanInv
<1> DEFINE Same == UNCHANGED <<disk, exclude, stored, steady, sighted>>
<1>0. Same /\ KeptByCleanup => Stale' = Stale /\ files' = files /\ sighted' = sighted
  BY StaleKept DEF stored, disk, KeptByCleanup, Kept
<1>1. ASSUME NEW f \in Files, Check(f) PROVE CleanInv'
  <2>0. /\ scan.pc = "check" /\ Same
        /\ \/ scan' = NoScan
           \/ /\ KeptByCleanup /\ scan'.doomed = scan.doomed /\ scan'.candidates = scan.candidates \ {f}
              /\ \/ LookFile(f) = "ok" /\ scan'.pc = "check"
                 \/ LookFile(f) = "missing" /\ scan'.pc = "confirm" /\ scan'.found = {f}
    BY <1>t, <1>1, CheckEffect
  <2>1. CASE scan' = NoScan
    BY <2>1, CleanIdle
  <2>2. CASE scan' # NoScan
    <3>1. Stale' = Stale /\ files' = files /\ sighted' = sighted
      BY <1>0, <2>0, <2>2
    <3>2. scan.full /\ scan.complete => Stale \subseteq scan.candidates \cup scan.doomed
      BY <2>0 DEF CleanInv
    <3>3. LookFile(f) = "ok" => f \notin Stale
      BY <2>0, LookOk DEF CleanInv, Stale
    <3> QED
      BY <2>0, <2>2, <3>1, <3>2, <3>3, CleanStep
  <2> QED
    BY <2>1, <2>2
<1>2. ASSUME NEW f \in Files, Confirm(f) PROVE CleanInv'
  <2>0. /\ scan.pc = "confirm" /\ f \in scan.found /\ Same
        /\ \/ scan' = NoScan
           \/ /\ KeptByCleanup /\ scan'.pc = "check" /\ scan'.doomed = scan.doomed \cup {f}
              /\ scan'.candidates = scan.candidates
    BY <1>t, <1>2, ConfirmEffect
  <2>1. CASE scan' = NoScan
    BY <2>1, CleanIdle
  <2>2. CASE scan' # NoScan
    <3>1. Stale' = Stale /\ files' = files /\ sighted' = sighted
      BY <1>0, <2>0, <2>2
    <3>2. scan.full /\ scan.complete => Stale \subseteq scan.candidates \cup scan.doomed \cup {f}
      BY <2>0 DEF CleanInv
    <3> QED
      BY <2>0, <2>2, <3>1, <3>2, CleanStep
  <2> QED
    BY <2>1, <2>2
<1>3. CASE Reconcile
  <2>0. /\ scan.pc = "reconcile" /\ Same
        /\ \/ scan' = NoScan
           \/ /\ KeptByCleanup /\ scan'.pc = "check" /\ scan'.doomed = scan.doomed
              /\ scan'.candidates = scan.candidates \ FilesIn(Hidden(scan.exclude))
    BY <1>t, <1>3, ReconcileEffect
  <2>1. CASE scan' = NoScan
    BY <2>1, CleanIdle
  <2>2. CASE scan' # NoScan
    <3>1. Stale' = Stale /\ files' = files /\ sighted' = sighted
      BY <1>0, <2>0, <2>2
    <3>2. scan.full /\ scan.complete => Stale \subseteq scan.candidates
      BY <2>0 DEF CleanInv
    <3>3. Stale \cap FilesIn(Hidden(scan.exclude)) = {}
      BY DEF Stale
    <3>4. scan.full /\ scan.complete => Stale' \subseteq scan'.candidates
      BY <2>0, <2>2, <3>1, <3>2, <3>3
    <3> QED
      BY <2>0, <2>2, <3>1, <3>4, CleanStep
  <2> QED
    BY <2>1, <2>2
<1>4. CASE ChecksEnd
  <2>0. /\ scan.pc = "check" /\ scan.candidates = {} /\ Same
        /\ \/ scan' = NoScan
           \/ /\ KeptByCleanup
              /\ \/ scan.doomed = {} /\ scan'.doomed = {} /\ scan'.pc = "save"
                 \/ scan'.doomed = scan.doomed /\ scan'.pc = "delete"
                 \/ scan'.pc = "check" /\ scan'.candidates = scan.doomed /\ scan'.doomed = {}
    BY <1>t, <1>4, ChecksEndEffect
  <2>1. CASE scan' = NoScan
    BY <2>1, CleanIdle
  <2>2. CASE scan' # NoScan
    <3>1. Stale' = Stale /\ files' = files /\ sighted' = sighted
      BY <1>0, <2>0, <2>2
    <3>2. scan.full /\ scan.complete => Stale \subseteq scan.candidates \cup scan.doomed
      BY <2>0 DEF CleanInv
    <3> QED
      BY <2>0, <2>2, <3>1, <3>2, CleanStep
  <2> QED
    BY <2>1, <2>2
<1>5. CASE Delete
  <2>0. /\ scan.pc = "delete" /\ catalog' = catalog \ scan.doomed
        /\ UNCHANGED <<disk, sighted>> /\ KeptByCleanup /\ scan'.pc = "save"
    BY <1>t, <1>5, DeleteEffect
  <2>1. Stale' = Stale \ scan.doomed
    BY <2>0 DEF Stale, KeptByCleanup, Kept
  <2>2. scan.full /\ scan.complete => Stale \subseteq scan.doomed
    BY <2>0 DEF CleanInv
  <2> QED
    BY <2>0, <2>1, <2>2, CleanStep DEF disk
<1>6. CASE Save
  <2>0. /\ scan.pc = "save" /\ UNCHANGED <<disk, catalog, sighted>> /\ KeptByCleanup /\ scan'.pc = "done"
    BY <1>t, <1>6, SaveEffect
  <2>1. Stale' = Stale
    BY <2>0, StaleKept DEF KeptByCleanup, Kept
  <2>2. scan.full /\ scan.complete => Stale = {}
    BY <2>0 DEF CleanInv
  <2> QED
    BY <2>0, <2>1, <2>2, CleanStep DEF disk
<1> QED
  BY <1>1, <1>2, <1>3, <1>4, <1>5, <1>6

LEMMA CleanInvStep == ScanInv /\ CleanInv /\ [Next]_vars => CleanInv'
<1> SUFFICES ASSUME ScanInv, CleanInv, [Next]_vars PROVE CleanInv'
  OBVIOUS
<1>t. TypeOK
  BY DEF ScanInv
<1>1. ASSUME NEW wantFull \in BOOLEAN, Begin(wantFull) PROVE CleanInv'
  <2>0. /\ files' = files /\ sighted' = files /\ scan'.seen = {} /\ scan'.pc \in {"capture", "stat"}
        /\ TreeWalk' /\ scan'.full => scan'.root = Root
    BY <1>t, <1>1, BeginEffect DEF disk, TreeWalk
  <2> QED
    BY <2>0 DEF CleanInv
<1>2. CASE WalkStep
  <2>1. CASE Finish \/ Abort
    BY <2>1, CleanIdle DEF Finish, Abort
  <2> QED
    BY <1>2, <2>1, CleanWalk, CleanQuick, CleanWalkEnds, CleanCleanup DEF WalkStep
<1>3. CASE WorldStep
  <2>0. /\ scan' = scan
        /\ \/ UNCHANGED <<files, sighted>> /\ (catalog' = catalog \/ scan.pc = "idle")
           \/ catalog' = catalog /\ sighted' = sighted \cup files'
    BY <1>t, <1>3, WorldEffect
  <2>1. /\ scan.pc # "idle" => files' \subseteq sighted'
        /\ sighted \subseteq sighted'
    BY <2>0 DEF CleanInv
  <2>2. scan.pc # "idle" => Stale' \subseteq Stale
    BY <2>0, <2>1 DEF Stale
  <2>3. TreeWalk' => TreeWalk
    BY <2>0 DEF TreeWalk
  <2> QED
    BY <2>0, <2>1, <2>2, <2>3 DEF CleanInv
<1>4. CASE UNCHANGED vars
  BY <1>4 DEF vars, disk, stored, CleanInv, Stale, TreeWalk
<1> QED
  BY <1>1, <1>2, <1>3, <1>4 DEF Next

\* A full walk that counts as complete has left no row of a file that was not
\* there at any time while it ran, whatever the disk, its drive and the clients
\* do between its steps: prune_jobs::reconcile follows only a walk that saw the
\* whole folder, and drops only candidates that are there after all.
THEOREM FullWalkCleans == Spec => []FullCleans
<1>1. Init => ScanInv /\ CleanInv
  BY ScanInvInit DEF Init, CleanInv, NoScan, TreeWalk
<1>2. (ScanInv /\ CleanInv) /\ [Next]_vars => (ScanInv /\ CleanInv)'
  BY ScanInvStep, CleanInvStep
<1>3. ScanInv /\ CleanInv => FullCleans
  BY DEF CleanInv, FullCleans, Cleaned, Stale
<1> QED
  BY <1>1, <1>2, <1>3, PTL DEF Spec

-----------------------------------------------------------------------------
(* A quick check works from the snapshot.                                   *)

LEMMA QuickMove ==
    ASSUME QuickInv, Kept, snapshot' = snapshot, scan.pc \notin {"idle", "done"},
           scan'.fresh \subseteq scan.fresh,
           \A c \in Dirs : \/ scan'.next[c] = scan.next[c] \/ scan'.next[c] = Absent
                           \/ scan.known[c] # Absent,
           scan'.pc = "stat" \/ Checking' => scan.pc = "stat" \/ Checking,
           TreeWalk' => TreeWalk /\ scan'.root = scan.root,
           scan.fresh \subseteq Dirs
    PROVE  QuickInv'
<1>1. ~scan'.full /\ scan'.pc \notin {"idle", "done"} =>
         scan'.known = snapshot'.at /\ snapshot'.key = scan'.exclude
  BY DEF QuickInv, Kept
<1>2. \A c \in scan'.fresh : scan'.known[c] = Absent /\ scan'.next[c] = Absent
  BY DEF QuickInv, Kept
<1>3. scan'.pc = "stat" \/ Checking' =>
         \A c \in Dirs : scan'.next[c] # Absent => scan'.known[c] # Absent
  BY DEF QuickInv, Kept
<1>4. TreeWalk' /\ ~scan'.full => scan'.known[scan'.root] = Absent /\ scan'.root \notin scan'.fresh
  BY DEF QuickInv, Kept
<1> QED
  BY <1>1, <1>2, <1>3, <1>4 DEF QuickInv

LEMMA QuickIdle == ASSUME scan' = NoScan PROVE QuickInv'
BY DEF QuickInv, NoScan, Checking, DirWalk, TreeWalk

LEMMA QuickCapture ==
    ASSUME ScanInv, QuickInv, NEW d \in Dirs, Capture(d) PROVE QuickInv'
<1>t. TypeOK /\ FreshInv /\ FrontierInv /\ scan \in Scan /\ Tree(scan.known, scan.exclude)
  BY DEF ScanInv, TypeOK
<1>0. /\ scan.pc = "capture" /\ d \in scan.frontier /\ snapshot' = snapshot
      /\ \/ scan' = NoScan
         \/ /\ KeptByWalk
            /\ \/ scan'.pc = "capture" /\ \A c \in Dirs : c # d => scan'.next[c] = scan.next[c]
               \/ scan.full /\ scan'.pc = "list"
  BY <1>t, CaptureEffect DEF stored
<1>1. CASE scan' = NoScan
  BY <1>1, QuickIdle
<1>2. CASE scan' # NoScan
  <2>1. scan.walk = "tree" /\ d \in Within(scan.root)
    BY <1>t, <1>0 DEF FrontierInv
  <2>2. TreeWalk /\ ~Checking' /\ scan'.pc # "stat"
    BY <1>0, <1>2, <2>1 DEF TreeWalk, Checking, DirWalk, KeptByWalk
  <2>3. d \notin scan.fresh
    <3> SUFFICES ASSUME d \in scan.fresh PROVE FALSE
      OBVIOUS
    <3>1. ~scan.full
      BY <1>t DEF FreshInv
    <3>2. scan.known[scan.root] = Absent /\ scan.root # d
      BY <2>2, <3>1 DEF QuickInv
    <3>3. d # Root /\ scan.known[Parent[d]] # Absent
      BY <1>t DEF FreshInv
    <3>4. Parent[d] \in Dirs /\ scan.root \in Above[Parent[d]]
      BY <2>1, <3>2, <3>3, AboveParent DEF Within
    <3> QED
      BY <1>t, <3>2, <3>3, <3>4 DEF Tree
  <2>4. scan.full => scan.fresh = {}
    BY <1>t DEF FreshInv
  <2>5. \A c \in scan'.fresh : scan'.known[c] = Absent /\ scan'.next[c] = Absent
    <3>1. scan'.fresh = scan.fresh /\ scan'.known = scan.known /\ scan.fresh \subseteq Dirs
      BY <1>t, <1>0, <1>2 DEF KeptByWalk, Kept, Scan
    <3>2. \A c \in scan.fresh : scan'.next[c] = scan.next[c]
      BY <1>0, <1>2, <2>3, <2>4, <3>1
    <3> QED
      BY <3>1, <3>2 DEF QuickInv
  <2> QED
    BY <1>0, <1>2, <2>2, <2>5 DEF QuickInv, KeptByWalk, Kept
<1> QED
  BY <1>1, <1>2

LEMMA QuickStep ==
    ASSUME ScanInv, QuickInv, WalkStep PROVE QuickInv'
<1>t. /\ TypeOK /\ TodoInv /\ FreshInv /\ FrontierInv /\ scan \in Scan
      /\ scan.fresh \subseteq Dirs /\ scan.todo \subseteq Dirs /\ scan.root \in Dirs
  BY DEF ScanInv, TypeOK, Scan
<1>0. ASSUME scan' = NoScan PROVE QuickInv'
  BY <1>0, QuickIdle
<1>1. ASSUME NEW d \in Dirs, Capture(d) PROVE QuickInv'
  BY <1>1, QuickCapture
<1>2. ASSUME KeptByWalk, scan'.next = scan.next, snapshot' = snapshot,
             scan.pc \in {"capture", "list", "catalog"}, scan'.pc \in {"list", "catalog"}
      PROVE  QuickInv'
  <2>1. scan.pc = "capture" => scan.walk = "tree"
    BY <1>t DEF FrontierInv
  <2>2. /\ Checking' => Checking
        /\ TreeWalk' => TreeWalk /\ scan'.root = scan.root
    BY <1>2, <2>1 DEF Checking, DirWalk, TreeWalk, KeptByWalk
  <2> QED
    BY <1>t, <1>2, <2>2, QuickMove DEF KeptByWalk
<1>3. ASSUME NEW d \in Dirs, List(d) PROVE QuickInv'
  BY <1>t, <1>2, <1>3, ListEffect DEF stored
<1>4. ASSUME NEW f \in Files, CatalogFile(f) PROVE QuickInv'
  BY <1>t, <1>2, <1>4, CatalogEffect
<1>5. CASE CaptureEnds \/ ListEnds
  BY <1>t, <1>2, <1>5, PhaseEffect DEF stored
<1>6. CASE WalkEnds
  <2>0. /\ scan.pc = "catalog" /\ snapshot' = snapshot /\ Kept /\ scan'.fresh = scan.fresh
        /\ \A c \in Dirs : c # scan.root \/ scan.walk = "tree" => scan'.next[c] = scan.next[c]
        /\ scan'.pc \in {"reconcile", "save", "stat", "subtrees"}
        /\ scan'.pc = "stat" => scan.walk = "dir"
    BY <1>t, <1>6, WalkEndsEffect DEF stored
  <2>1. scan.walk = "dir" => Checking
    BY <2>0 DEF Checking, DirWalk
  <2>2. Checking => scan.known[scan.root] # Absent
    BY <1>t DEF TodoInv
  <2>3. scan.walk \in {"tree", "dir"}
    BY <1>t DEF Scan
  <2>4. ~TreeWalk' /\ ~Checking'
    BY <2>0 DEF TreeWalk, Checking, DirWalk
  <2>5. \A c \in Dirs : scan'.next[c] = scan.next[c] \/ scan.known[c] # Absent
    BY <2>0, <2>1, <2>2, <2>3
  <2> QED
    BY <1>t, <2>0, <2>1, <2>4, <2>5, QuickMove
<1>7. ASSUME NEW d \in Dirs, Stat(d) PROVE QuickInv'
  <2>0. /\ scan.pc = "stat" /\ d \in scan.todo /\ snapshot' = snapshot
        /\ Kept /\ scan'.fresh = scan.fresh /\ scan'.pc \in {"stat", "children"}
        /\ \A c \in Dirs : c # d => scan'.next[c] = scan.next[c] \/ scan'.next[c] = Absent
    BY <1>t, <1>7, StatEffect DEF stored, Earliest
  <2>1. scan.known[d] # Absent
    BY <1>t, <2>0 DEF TodoInv
  <2>2. ~TreeWalk'
    BY <2>0 DEF TreeWalk
  <2> QED
    BY <1>t, <2>0, <2>1, <2>2, QuickMove
<1>8. CASE NewChildren
  <2>0. /\ scan.pc = "children" /\ snapshot' = snapshot /\ Kept /\ scan'.root = scan.root
        /\ \/ /\ scan'.pc = "list" /\ scan'.walk = "dir" /\ scan'.next = scan.next
              /\ scan'.fresh = scan.fresh \cup {c \in Children(scan.root) : scan.known[c] = Absent}
           \/ /\ scan'.pc = "stat" /\ scan'.fresh = scan.fresh
              /\ \A c \in Dirs : c # scan.root => scan'.next[c] = scan.next[c]
    BY <1>t, <1>8, NewChildrenEffect DEF stored
  <2>1. Checking /\ scan.known[scan.root] # Absent /\ ~TreeWalk'
    BY <1>t, <2>0 DEF TodoInv, Checking, TreeWalk
  <2>2. CASE scan'.pc = "stat"
    BY <1>t, <2>0, <2>1, <2>2, QuickMove
  <2>3. CASE scan'.pc = "list"
    <3>1. \A c \in Dirs : scan.next[c] # Absent => scan.known[c] # Absent
      BY <2>1 DEF QuickInv
    <3>2. Children(scan.root) \subseteq Dirs
      BY <1>t DEF Children, TypeOK
    <3>3. \A c \in scan'.fresh : scan'.known[c] = Absent /\ scan'.next[c] = Absent
      BY <2>0, <2>3, <3>1, <3>2 DEF QuickInv, Kept
    <3> QED
      BY <2>0, <2>1, <2>3, <3>1, <3>3 DEF QuickInv, Kept
  <2> QED
    BY <2>0, <2>2, <2>3
<1>9. ASSUME NEW d \in Dirs, Subtree(d) PROVE QuickInv'
  <2>0. /\ scan.pc = "subtrees" /\ d \in scan.fresh /\ snapshot' = snapshot
        /\ Kept /\ scan'.next = scan.next /\ scan'.fresh = scan.fresh \ {d}
        /\ scan'.pc = "subtrees" \/ (scan'.pc = "capture" /\ scan'.root = d)
    BY <1>t, <1>9, SubtreeEffect DEF stored, Earliest
  <2>1. ~Checking'
    BY <2>0 DEF Checking, DirWalk
  <2>2. TreeWalk' => scan'.known[scan'.root] = Absent /\ scan'.root \notin scan'.fresh
    BY <2>0 DEF QuickInv, Kept, TreeWalk
  <2> QED
    BY <2>0, <2>1, <2>2 DEF QuickInv, Kept
<1>10. ASSUME KeptByCleanup, snapshot' = snapshot \/ scan'.pc = "done",
              scan.pc \in {"stat", "subtrees", "reconcile", "check", "confirm", "delete", "save"},
              scan'.pc \in {"subtrees", "reconcile", "check", "confirm", "delete", "save", "done"}
       PROVE  QuickInv'
  BY <1>10 DEF QuickInv, KeptByCleanup, Kept, Checking, DirWalk, TreeWalk
<1>11. CASE StatEnds \/ SubtreesEnd
  BY <1>t, <1>10, <1>11, EndsEffect DEF stored
<1>12. CASE Reconcile \/ ChecksEnd
  <2>1. /\ scan.pc \in {"reconcile", "check"} /\ snapshot' = snapshot
        /\ scan' = NoScan \/ (KeptByCleanup /\ scan'.pc \in {"check", "save", "delete"})
    BY <1>t, <1>12, ReconcileEffect, ChecksEndEffect DEF stored
  <2> QED
    BY <1>0, <1>10, <2>1
<1>13. ASSUME NEW f \in Files, Check(f) \/ Confirm(f) PROVE QuickInv'
  <2>1. /\ scan.pc \in {"check", "confirm"} /\ snapshot' = snapshot
        /\ scan' = NoScan \/ (KeptByCleanup /\ scan'.pc \in {"check", "confirm"})
    BY <1>t, <1>13, CheckEffect, ConfirmEffect DEF stored
  <2> QED
    BY <1>0, <1>10, <2>1
<1>14. CASE Delete \/ Save
  <2>1. /\ scan.pc \in {"delete", "save"} /\ KeptByCleanup /\ scan'.pc \in {"save", "done"}
        /\ snapshot' = snapshot \/ scan'.pc = "done"
    BY <1>t, <1>14, DeleteEffect, SaveEffect
  <2> QED
    BY <1>10, <2>1
<1>15. CASE Finish \/ Abort
  BY <1>0, <1>15 DEF Finish, Abort
<1> QED
  BY <1>1, <1>3, <1>4, <1>5, <1>6, <1>7, <1>8, <1>9, <1>11, <1>12, <1>13, <1>14, <1>15
     DEF WalkStep

LEMMA QuickInvStep == ScanInv /\ QuickInv /\ [Next]_vars => QuickInv'
<1> SUFFICES ASSUME ScanInv, QuickInv, [Next]_vars PROVE QuickInv'
  OBVIOUS
<1>t. TypeOK
  BY DEF ScanInv
<1>1. ASSUME NEW wantFull \in BOOLEAN, Begin(wantFull) PROVE QuickInv'
  <2>0. /\ snapshot' = snapshot /\ exclude' = exclude /\ scan'.exclude = exclude /\ scan'.fresh = {}
        /\ \/ scan'.full /\ scan'.pc = "capture"
           \/ /\ SnapshotValid /\ scan'.pc = "stat"
              /\ scan'.known = snapshot.at /\ scan'.next = snapshot.at
    BY <1>t, <1>1, BeginEffect DEF stored
  <2> QED
    BY <2>0 DEF QuickInv, SnapshotValid, Checking, DirWalk, TreeWalk
<1>2. CASE WalkStep
  BY <1>2, QuickStep
<1>3. CASE UNCHANGED <<scan, snapshot>>
  BY <1>3 DEF QuickInv, Checking, DirWalk, TreeWalk
<1>4. CASE WorldStep
  BY <1>t, <1>3, <1>4, WorldEffect
<1>5. CASE UNCHANGED vars
  BY <1>3, <1>5 DEF vars, stored
<1> QED
  BY <1>1, <1>2, <1>4, <1>5 DEF Next

-----------------------------------------------------------------------------
(* What a complete scan has cataloged.                                      *)

\* A nonempty set of natural numbers has a least one.
LEMMA LeastDirectory ==
    ASSUME NEW S \in SUBSET Nat, S # {}
    PROVE  \E n \in S : \A m \in S : n <= m
<1> DEFINE less == {pair \in Nat \X Nat : pair[1] < pair[2]}
<1>1. IsWellFoundedOn(less, Nat)
  BY NatLessThanWellFounded DEF OpToRel
<1>2. PICK n \in S : \A m \in S : <<m, n>> \notin less
  <2> HIDE DEF less
  <2> QED
    BY <1>1, WFMin
<1>3. \A m \in S : ~(m < n)
  BY <1>2
<1> QED
  BY <1>3

\* The files that were there all along and that the scan should catalog.
Due == steady \ FilesIn(Hidden(scan.exclude))

\* Such a file lies in directories that are there and that nothing hides.
LEMMA DuePlace ==
    ASSUME ScanInv, SoundInv, SteadyInv, NEW f \in Due
    PROVE  /\ f \in Files /\ f \in files /\ f \in steady /\ Home[f] \in Dirs
           /\ \A c \in Above[Home[f]] : /\ c \in Dirs /\ c \in dirs
                                        /\ c \notin Hidden(scan.exclude)
<1>1. f \in Files /\ f \in files /\ f \in steady
  BY DEF Due, SteadyInv, ScanInv, TypeOK
<1>2. Home[f] \in dirs /\ Home[f] \in Dirs /\ Above[Home[f]] \subseteq dirs
  BY <1>1, TreeTypes DEF SoundInv, DiskInv
<1>3. Home[f] \notin Hidden(scan.exclude)
  BY <1>1, <1>2 DEF Due, FilesIn
<1>4. ASSUME NEW c \in Above[Home[f]] PROVE c \in Dirs /\ c \notin Hidden(scan.exclude)
  BY <1>2, <1>3, HiddenBelow, AboveTrans
<1> QED
  BY <1>1, <1>2, <1>4

\* A subdirectory on the way to such a file shows in a listing.
LEMMA DueChild ==
    ASSUME ScanInv, SoundInv, SteadyInv, NEW f \in Due, NEW c \in Above[Home[f]] \ {Root}
    PROVE  c \in Children(Parent[c])
BY DuePlace DEF Children

LEMMA LeadsKept ==
    ASSUME scan'.known = scan.known, NEW d \in Dirs, NEW f \in Files PROVE Leads(d, f)' <=> Leads(d, f)
BY DEF Leads

\* The step loses none of the files it should catalog.
Passes == \A f \in Due : f \in catalog \/ Ahead(f) => f \in catalog' \/ Ahead(f)'

LEMMA SteadyMove ==
    ASSUME ScanInv, SoundInv, SteadyInv, UNCHANGED <<files, steady>>, scan'.exclude = scan.exclude,
           scan.pc # "idle", scan'.doomed \cap steady = {},
           scan'.pc = "confirm" => scan'.found \cap steady = {},
           Unbroken' => Unbroken,
           Unbroken' => Passes
    PROVE  SteadyInv'
<1>1. Unbroken' => \A f \in Due : f \in catalog' \/ Ahead(f)'
  BY DEF SteadyInv, Passes, Due
<1>2. Due' = Due
  BY DEF Due
<1>3. Unbroken' => \A f \in Due' : f \in catalog' \/ Ahead(f)'
  BY <1>1, <1>2
<1> QED
  BY <1>3 DEF SteadyInv, Due

LEMMA SteadyIdle ==
    ASSUME SteadyInv, scan' = NoScan, UNCHANGED <<files, steady>> PROVE SteadyInv'
BY DEF SteadyInv, NoScan

LEMMA SteadyBegin ==
    ASSUME ScanInv, SoundInv, SteadyInv, NEW wantFull \in BOOLEAN, Begin(wantFull) PROVE SteadyInv'
<1>t. TypeOK
  BY DEF ScanInv
<1>0. /\ UNCHANGED <<disk, exclude, stored>> /\ steady' = files
      /\ scan'.exclude = exclude /\ scan'.doomed = {}
      /\ \/ scan'.pc = "capture" /\ scan'.root = Root
         \/ /\ SnapshotValid /\ scan'.pc = "stat" /\ scan'.known = snapshot.at
            /\ scan'.todo = {d \in Dirs : snapshot.at[d] # Absent}
  BY <1>t, BeginEffect
<1>1. ASSUME NEW f \in files, Home[f] \notin Hidden(exclude) PROVE Ahead(f)'
  <2>0. f \in Files /\ Home[f] \in Dirs
    BY <1>t, TreeTypes DEF TypeOK
  <2>1. CASE scan'.pc = "capture"
    BY <1>0, <2>0, <2>1, AboveSelf DEF Ahead
  <2>2. CASE scan'.pc # "capture" /\ snapshot.at[Home[f]] # Absent
    <3>1. Home[f] \in scan'.todo /\ Home[f] \in Above[Home[f]]
      BY <1>0, <2>0, <2>2, AboveSelf
    <3> QED
      BY <3>1 DEF Ahead, Leads
  <2>3. CASE scan'.pc # "capture" /\ snapshot.at[Home[f]] = Absent
    <3> DEFINE lost == {c \in Above[Home[f]] : snapshot.at[c] = Absent}
    <3>1. lost \in SUBSET Nat /\ Home[f] \in lost /\ lost \subseteq Dirs
      BY <2>0, <2>3, AboveSelf, AboveTypes
    <3>2. PICK c \in lost : \A b \in lost : c <= b
      <4> HIDE DEF lost
      <4> QED
        BY <3>1, LeastDirectory
    <3>3. c \in Dirs /\ c \in Above[Home[f]] /\ snapshot.at[c] = Absent
      BY <3>1, <3>2
    <3>4. c # Root
      BY <1>0, <2>3, <3>3 DEF SnapshotValid
    <3>5. Parent[c] \in Dirs /\ Parent[c] < c /\ Parent[c] \in Above[c]
      BY <3>3, <3>4, AboveParent, AboveSelf
    <3>6. Parent[c] \in Above[Home[f]]
      BY <2>0, <3>3, <3>5, AboveTrans
    <3>7. Parent[c] \notin lost
      <4>1. c \in Nat /\ Parent[c] \in Nat
        BY <3>3, <3>5, AboveTypes
      <4> HIDE DEF lost
      <4> QED
        BY <3>2, <3>5, <4>1
    <3>8. Parent[c] \in scan'.todo
      BY <1>0, <2>3, <3>5, <3>6, <3>7
    <3>9. Leads(Parent[c], f)'
      BY <1>0, <2>3, <3>3, <3>4, <3>6 DEF Leads
    <3> QED
      BY <3>8, <3>9 DEF Ahead
  <2> QED
    BY <2>1, <2>2, <2>3
<1>2. \A f \in steady' \ FilesIn(Hidden(scan'.exclude)) : f \in files /\ Home[f] \notin Hidden(exclude)
  BY <1>t, <1>0, TreeTypes DEF FilesIn, TypeOK
<1>3. \A f \in steady' \ FilesIn(Hidden(scan'.exclude)) : Ahead(f)'
  BY <1>1, <1>2
<1> QED
  BY <1>0, <1>3 DEF SteadyInv, disk

LEMMA SteadyCapture ==
    ASSUME ScanInv, SoundInv, SteadyInv, NEW d \in Dirs, Capture(d) PROVE SteadyInv'
<1>t. TypeOK /\ FrontierInv
  BY DEF ScanInv
<1>0. /\ scan.pc = "capture" /\ UNCHANGED <<disk, exclude, stored, steady>>
      /\ \/ scan' = NoScan
         \/ /\ KeptByWalk
            /\ scan'.pc = "capture" \/ (scan'.pc = "list" /\ scan'.frontier = {Root})
  BY <1>t, CaptureEffect
<1>1. CASE scan' = NoScan
  BY <1>0, <1>1, SteadyIdle DEF disk
<1>2. CASE scan' # NoScan
  <2>1. scan.walk = "tree" /\ scan'.walk = "tree"
    BY <1>t, <1>0, <1>2 DEF FrontierInv, KeptByWalk
  <2>2. Unbroken' => Unbroken
    BY <1>0, <1>2 DEF Unbroken, KeptByWalk
  <2>3. ASSUME NEW f \in Due, f \in catalog \/ Ahead(f) PROVE f \in catalog' \/ Ahead(f)'
    <3>1. /\ f \in Files /\ Root \in Above[Home[f]] /\ scan.todo \subseteq Dirs
      BY <1>t, DuePlace, AboveSelf DEF ScanInv, TypeOK, Scan
    <3>2. \A t \in scan.todo : Leads(t, f)' <=> Leads(t, f)
      BY <1>0, <1>2, <3>1, LeadsKept DEF KeptByWalk, Kept
    <3> QED
      BY <1>0, <1>2, <2>1, <2>3, <3>1, <3>2 DEF Ahead, KeptByWalk, stored
  <2>4. Passes
    BY <2>3 DEF Passes
  <2> QED
    BY <1>0, <1>2, <2>2, <2>4, SteadyMove DEF KeptByWalk, Kept, SteadyInv, disk
<1> QED
  BY <1>1, <1>2

LEMMA SteadyPhase ==
    ASSUME ScanInv, SoundInv, SteadyInv, CaptureEnds \/ ListEnds PROVE SteadyInv'
<1>t. TypeOK /\ FrontierInv /\ scan \in Scan
  BY DEF ScanInv, TypeOK
<1>0. /\ UNCHANGED <<disk, exclude, stored, steady>>
      /\ KeptByWalk /\ scan'.found = scan.found /\ scan'.whole = scan.whole
      /\ \/ scan.pc = "capture" /\ scan'.pc = "list" /\ scan'.frontier = {scan.root}
         \/ scan.pc = "list" /\ scan.frontier = {} /\ scan'.pc = "catalog"
  BY <1>t, PhaseEffect
<1>1. Unbroken' => Unbroken
  BY <1>0 DEF Unbroken, KeptByWalk
<1>2. scan.pc = "capture" => scan.walk = "tree"
  BY <1>t DEF FrontierInv
<1>3. ASSUME NEW f \in Due, f \in catalog \/ Ahead(f) PROVE f \in catalog' \/ Ahead(f)'
  <2>1. f \in Files /\ scan.todo \subseteq Dirs
    BY <1>t, DuePlace DEF Scan
  <2>2. \A t \in scan.todo : Leads(t, f)' <=> Leads(t, f)
    BY <1>0, <2>1, LeadsKept DEF KeptByWalk, Kept
  <2> QED
    BY <1>0, <1>2, <1>3, <2>1, <2>2 DEF Ahead, KeptByWalk, stored
<1>4. Passes
  BY <1>3 DEF Passes
<1> QED
  BY <1>0, <1>1, <1>4, SteadyMove DEF KeptByWalk, Kept, SteadyInv, disk

\* A listed directory shows the file, or the next directory on the way to it.
LEMMA SteadyList ==
    ASSUME ScanInv, SoundInv, SteadyInv, NEW d \in Dirs, List(d) PROVE SteadyInv'
<1>t. TypeOK /\ scan \in Scan
  BY DEF ScanInv, TypeOK
<1>0. /\ scan.pc = "list" /\ scan'.pc = "list" /\ UNCHANGED <<disk, exclude, stored, steady>> /\ KeptByWalk
      /\ \/ /\ scan'.found = scan.found \cup FilesOf(d) /\ scan'.whole = scan.whole
            /\ scan'.frontier = (scan.frontier \ {d})
                                   \cup (IF scan.walk = "tree" THEN Children(d) ELSE {})
         \/ ~scan'.whole
  BY <1>t, ListEffect
<1>1. Unbroken' => Unbroken /\ scan'.whole
  BY <1>0 DEF Unbroken, KeptByWalk
<1>2. ASSUME scan'.whole, NEW f \in Due, f \in catalog \/ Ahead(f) PROVE f \in catalog' \/ Ahead(f)'
  <2>1. /\ f \in Files /\ f \in files /\ Home[f] \in Dirs /\ scan.todo \subseteq Dirs
        /\ Home[f] \in Above[Home[f]]
    BY <1>t, DuePlace, AboveSelf DEF Scan
  <2>2. \A t \in scan.todo : Leads(t, f)' <=> Leads(t, f)
    BY <1>0, <2>1, LeadsKept DEF KeptByWalk, Kept
  <2>3. d = Home[f] => f \in scan'.found
    BY <1>0, <1>2, <2>1 DEF FilesOf
  <2>4. scan.walk = "tree" /\ d \in Above[Home[f]] /\ d # Home[f] =>
           Above[Home[f]] \cap scan'.frontier # {}
    <3> SUFFICES ASSUME scan.walk = "tree", d \in Above[Home[f]], d # Home[f]
                 PROVE  Above[Home[f]] \cap scan'.frontier # {}
      OBVIOUS
    <3>1. PICK b \in Above[Home[f]] \ {Root} : Parent[b] = d
      BY <2>1, TreeAssumption DEF TreeAssumption
    <3>2. b \in Children(d)
      BY <3>1, DueChild
    <3> QED
      BY <1>0, <1>2, <3>1, <3>2
  <2>5. CASE f \in catalog
    BY <1>0, <2>5 DEF stored
  <2>6. CASE (IF scan.walk = "tree" THEN Above[Home[f]] ELSE {Home[f]}) \cap scan.frontier # {}
    <3>1. scan'.walk = scan.walk /\ scan.frontier \ {d} \subseteq scan'.frontier
      BY <1>0, <1>2 DEF KeptByWalk
    <3>2. CASE scan.walk = "tree"
      BY <1>0, <2>3, <2>4, <2>6, <3>1, <3>2 DEF Ahead
    <3>3. CASE scan.walk # "tree"
      BY <1>0, <2>3, <2>6, <3>1, <3>3 DEF Ahead
    <3> QED
      BY <3>2, <3>3
  <2>7. CASE f \in scan.found
    BY <1>0, <1>2, <2>7 DEF Ahead
  <2>8. CASE (\E t \in scan.todo : Leads(t, f)) \/ Above[Home[f]] \cap scan.fresh # {}
    BY <1>0, <2>2, <2>8 DEF Ahead, KeptByWalk
  <2> QED
    BY <1>0, <1>2, <2>5, <2>6, <2>7, <2>8 DEF Ahead
<1>3. scan'.whole => Passes
  BY <1>2 DEF Passes
<1> QED
  BY <1>0, <1>1, <1>3, SteadyMove DEF KeptByWalk, Kept, SteadyInv, disk

\* A file that was found is read, or the walk is not whole.
LEMMA SteadyCatalog ==
    ASSUME ScanInv, SoundInv, SteadyInv, NEW g \in Files, CatalogFile(g) PROVE SteadyInv'
<1>t. TypeOK /\ scan \in Scan
  BY DEF ScanInv, TypeOK
<1>0. /\ scan.pc = "catalog" /\ scan'.pc = "catalog" /\ UNCHANGED <<disk, exclude, snapshot, steady>>
      /\ KeptByWalk /\ scan'.found = scan.found \ {g}
      /\ \/ /\ LookFile(g) = "ok" /\ catalog' = catalog \cup {g} /\ scan'.whole = scan.whole
         \/ /\ LookFile(g) # "ok" /\ catalog' = catalog
            /\ scan'.whole => scan.whole /\ LookFile(g) # "error"
  BY <1>t, CatalogEffect
<1>1. Unbroken' => Unbroken /\ scan'.whole
  BY <1>0 DEF Unbroken, KeptByWalk
<1>2. online
  BY <1>0 DEF SoundInv, OnlineInv
<1>3. ASSUME scan'.whole, NEW f \in Due, f \in catalog \/ Ahead(f) PROVE f \in catalog' \/ Ahead(f)'
  <2>1. f \in Files /\ f \in files /\ scan.todo \subseteq Dirs
    BY <1>t, DuePlace DEF Scan
  <2>2. \A t \in scan.todo : Leads(t, f)' <=> Leads(t, f)
    BY <1>0, <2>1, LeadsKept DEF KeptByWalk, Kept
  <2>3. f = g => f \in catalog'
    BY <1>t, <1>0, <1>2, <1>3, <2>1, LookOnline
  <2>4. CASE f \in scan.found /\ f # g
    BY <1>0, <2>4 DEF Ahead
  <2>5. CASE (\E t \in scan.todo : Leads(t, f)) \/ Above[Home[f]] \cap scan.fresh # {}
    BY <1>0, <2>2, <2>5 DEF Ahead, KeptByWalk
  <2> QED
    BY <1>0, <1>3, <2>3, <2>4, <2>5 DEF Ahead
<1>4. scan'.whole => Passes
  BY <1>3 DEF Passes
<1> QED
  BY <1>0, <1>1, <1>4, SteadyMove DEF KeptByWalk, Kept, SteadyInv, disk

LEMMA SteadyWalkEnds ==
    ASSUME ScanInv, SoundInv, SteadyInv, WalkEnds PROVE SteadyInv'
<1>t. TypeOK /\ scan \in Scan
  BY DEF ScanInv, TypeOK
<1>0. /\ scan.pc = "catalog" /\ scan.found = {}
      /\ UNCHANGED <<disk, exclude, stored, steady>>
      /\ Kept /\ scan'.todo = scan.todo /\ scan'.fresh = scan.fresh
      /\ scan'.doomed = scan.doomed /\ scan'.complete = (scan.complete /\ scan.whole)
      /\ scan'.pc \in {"reconcile", "save", "stat", "subtrees"}
  BY <1>t, WalkEndsEffect
<1>1. Unbroken' => Unbroken
  BY <1>0 DEF Unbroken
<1>3. ASSUME NEW f \in Due, f \in catalog \/ Ahead(f) PROVE f \in catalog' \/ Ahead(f)'
  <2>1. f \in Files /\ scan.todo \subseteq Dirs
    BY <1>t, DuePlace DEF Scan
  <2>2. \A t \in scan.todo : Leads(t, f)' <=> Leads(t, f)
    BY <1>0, <2>1, LeadsKept DEF Kept
  <2> QED
    BY <1>0, <1>3, <2>2 DEF Ahead, stored
<1>4. Passes
  BY <1>3 DEF Passes
<1> QED
  BY <1>0, <1>1, <1>4, SteadyMove DEF Kept, SteadyInv, disk

\* A known directory is unchanged, and then holds nothing new, or it is gone,
\* and then nothing in it was there all along, or it is looked at again.
LEMMA SteadyStat ==
    ASSUME ScanInv, SoundInv, QuickInv, SteadyInv, NEW d \in Dirs, Stat(d) PROVE SteadyInv'
<1>t. /\ TypeOK /\ scan \in Scan /\ FreshInv
  BY DEF ScanInv, TypeOK
<1>0. /\ scan.pc = "stat" /\ d \in scan.todo
      /\ UNCHANGED <<disk, exclude, stored, steady>>
      /\ Kept /\ scan'.fresh = scan.fresh /\ scan'.doomed = scan.doomed
      /\ \/ /\ LookDir(d) = "missing" /\ scan'.pc = "stat" /\ scan'.todo = scan.todo \ Within(d)
            /\ scan'.complete = scan.complete
         \/ scan'.pc = "stat" /\ ~scan'.complete
         \/ /\ LookDir(d) = "ok" /\ scan'.todo = scan.todo \ {d} /\ scan'.complete = scan.complete
            /\ \/ mtime[d] = scan.known[d] /\ scan'.pc = "stat"
               \/ scan'.pc = "children" /\ scan'.root = d
  BY <1>t, StatEffect DEF Earliest
<1>1. Unbroken' => Unbroken /\ scan'.complete
  BY <1>0 DEF Unbroken
<1>2. online
  BY <1>0 DEF SoundInv, OnlineInv
<1>3. ASSUME scan'.complete, NEW f \in Due, f \in catalog \/ Ahead(f) PROVE f \in catalog' \/ Ahead(f)'
  <2>1. /\ f \in Files /\ f \in files /\ Home[f] \in Dirs /\ scan.todo \subseteq Dirs
        /\ \A c \in Above[Home[f]] : c \in Dirs /\ c \in dirs /\ c \notin Hidden(scan.exclude)
    BY <1>t, DuePlace DEF Scan
  <2>2. \A t \in scan.todo : Leads(t, f)' <=> Leads(t, f)
    BY <1>0, <2>1, LeadsKept DEF Kept
  <2>3. CASE f \in catalog \/ Above[Home[f]] \cap scan.fresh # {}
    BY <1>0, <2>3 DEF Ahead, stored
  <2>4. ASSUME NEW t \in scan.todo, Leads(t, f) PROVE f \in catalog' \/ Ahead(f)'
    <3>1. t \in Above[Home[f]] /\ t \in dirs
      BY <2>1, <2>4 DEF Leads
    <3>2. CASE t \in scan'.todo
      BY <2>2, <2>4, <3>2 DEF Ahead
    <3>3. CASE t \notin scan'.todo /\ LookDir(d) = "missing"
      <4>1. d \notin dirs
        BY <1>t, <1>2, <3>3, LookOnline
      <4>2. d \in Above[t]
        BY <1>0, <1>3, <2>1, <3>3 DEF Within
      <4>3. d \in Above[Home[f]]
        BY <2>1, <3>1, <4>2, AboveTrans
      <4> QED
        BY <2>1, <4>1, <4>3
    <3>4. CASE t = d /\ scan'.pc = "children" /\ scan'.root = d
      <4>1. Leads(d, f)'
        BY <1>0, <2>2, <2>4, <3>4
      <4> QED
        BY <3>4, <4>1 DEF Ahead
    <3>5. CASE t = d /\ LookDir(d) = "ok" /\ mtime[d] = scan.known[d]
      <4>1. ~scan.full
        BY <1>t, <1>0 DEF FreshInv
      <4>2. scan.known = snapshot.at /\ snapshot.key = scan.exclude
        BY <1>0, <4>1 DEF QuickInv
      <4>3. /\ FilesOf(d) \subseteq catalog
            /\ \A c \in dirs \ {Root} :
                  Parent[c] = d /\ c \notin Hidden(scan.exclude) => scan.known[c] # Absent
        BY <3>1, <3>5, <4>2 DEF SoundInv, SnapshotInv
      <4>4. d = Home[f]
        BY <2>1, <2>4, <3>5, <4>3 DEF Leads
      <4>5. f \in catalog
        BY <2>1, <4>3, <4>4 DEF FilesOf
      <4> QED
        BY <1>0, <4>5 DEF stored
    <3> QED
      BY <1>0, <1>3, <3>2, <3>3, <3>4, <3>5
  <2> QED
    BY <1>0, <1>3, <2>3, <2>4 DEF Ahead
<1>4. scan'.complete => Passes
  BY <1>3 DEF Passes
<1> QED
  BY <1>0, <1>1, <1>4, SteadyMove DEF Kept, SteadyInv, disk

LEMMA SteadyNewChildren ==
    ASSUME ScanInv, SoundInv, QuickInv, SteadyInv, NewChildren PROVE SteadyInv'
<1>t. /\ TypeOK /\ scan \in Scan
  BY DEF ScanInv, TypeOK
<1>0. /\ scan.pc = "children" /\ UNCHANGED <<disk, exclude, stored, steady>>
      /\ Kept /\ scan'.todo = scan.todo /\ scan'.doomed = scan.doomed
      /\ \/ /\ scan'.pc = "list" /\ scan'.walk = "dir" /\ scan'.frontier = {scan.root}
            /\ scan'.complete = scan.complete
            /\ scan'.fresh = scan.fresh \cup {c \in Children(scan.root) : scan.known[c] = Absent}
         \/ scan'.pc = "stat" /\ ~scan'.complete
  BY <1>t, NewChildrenEffect
<1>1. Unbroken' => Unbroken /\ scan'.complete
  BY <1>0 DEF Unbroken
<1>3. ASSUME scan'.complete, NEW f \in Due, f \in catalog \/ Ahead(f) PROVE f \in catalog' \/ Ahead(f)'
  <2>1. /\ f \in Files /\ scan.todo \subseteq Dirs
    BY <1>t, DuePlace DEF Scan
  <2>2. \A t \in scan.todo : Leads(t, f)' <=> Leads(t, f)
    BY <1>0, <2>1, LeadsKept DEF Kept
  <2>3. CASE f \in catalog \/ Above[Home[f]] \cap scan.fresh # {} \/ \E t \in scan.todo : Leads(t, f)
    BY <1>0, <1>3, <2>2, <2>3 DEF Ahead, stored
  <2>4. CASE Leads(scan.root, f)
    <3>1. CASE scan.root = Home[f]
      BY <1>0, <1>3, <3>1 DEF Ahead
    <3>2. CASE \E c \in Above[Home[f]] \ {Root} : Parent[c] = scan.root /\ scan.known[c] = Absent
      <4>1. PICK c \in Above[Home[f]] \ {Root} : Parent[c] = scan.root /\ scan.known[c] = Absent
        BY <3>2
      <4>2. c \in Children(scan.root)
        BY <4>1, DueChild
      <4>3. c \in scan'.fresh
        BY <1>0, <1>3, <4>1, <4>2
      <4> QED
        BY <4>1, <4>3 DEF Ahead
    <3> QED
      BY <2>4, <3>1, <3>2 DEF Leads
  <2> QED
    BY <1>0, <1>3, <2>3, <2>4 DEF Ahead
<1>4. scan'.complete => Passes
  BY <1>3 DEF Passes
<1> QED
  BY <1>0, <1>1, <1>4, SteadyMove DEF Kept, SteadyInv, disk

\* A new subtree lies below a known directory, so none above it was walked.
LEMMA NeverCovered ==
    ASSUME ScanInv, QuickInv, NEW d \in scan.fresh PROVE ~Covered(d)
<1>1. /\ d \in Dirs /\ d # Root /\ scan.known[Parent[d]] # Absent /\ scan.next[d] = Absent
  BY DEF ScanInv, TypeOK, Scan, FreshInv, QuickInv
<1>2. Parent[d] \in Dirs /\ Above[d] = {d} \cup Above[Parent[d]]
  BY <1>1, AboveParent
<1>3. \A c \in Above[Parent[d]] : scan.known[c] # Absent
  BY <1>1, <1>2 DEF ScanInv, Tree
<1> QED
  BY <1>1, <1>2, <1>3 DEF Covered

LEMMA SteadySubtree ==
    ASSUME ScanInv, SoundInv, QuickInv, SteadyInv, NEW d \in Dirs, Subtree(d) PROVE SteadyInv'
<1>t. /\ TypeOK /\ scan \in Scan /\ TodoInv
  BY DEF ScanInv, TypeOK
<1>0. /\ scan.pc = "subtrees" /\ d \in scan.fresh /\ UNCHANGED <<disk, exclude, stored, steady>>
      /\ Kept /\ scan'.todo = scan.todo /\ scan'.doomed = scan.doomed
      /\ scan'.complete = scan.complete /\ scan'.fresh = scan.fresh \ {d}
      /\ Covered(d) \/ (scan'.pc = "capture" /\ scan'.root = d)
      /\ scan'.pc # "confirm"
  BY <1>t, SubtreeEffect DEF Earliest
<1>1. scan'.pc = "capture" /\ scan'.root = d /\ scan.todo = {}
  BY <1>t, <1>0, NeverCovered DEF TodoInv, Checking, DirWalk
<1>2. Unbroken' => Unbroken
  BY <1>0 DEF Unbroken
<1>3. ASSUME NEW f \in Due, f \in catalog \/ Ahead(f) PROVE f \in catalog' \/ Ahead(f)'
  <2>1. f \in catalog \/ Above[Home[f]] \cap scan.fresh # {}
    BY <1>0, <1>1, <1>3 DEF Ahead
  <2> QED
    BY <1>0, <1>1, <2>1 DEF Ahead, stored
<1>4. Passes
  BY <1>3 DEF Passes
<1> QED
  BY <1>0, <1>1, <1>2, <1>4, SteadyMove DEF Kept, SteadyInv, disk

\* After the walk nothing is ahead, so every file to catalog is in the catalog,
\* and the cleanup dooms none of them.
LEMMA SteadyCleanup ==
    ASSUME ScanInv, SoundInv, SteadyInv, KeptByCleanup, UNCHANGED <<files, steady>>,
           scan.pc \in {"subtrees", "stat", "reconcile", "check", "confirm", "delete", "save"},
           scan'.pc \in {"subtrees", "reconcile", "check", "confirm", "delete", "save", "done"},
           catalog \ scan.doomed \subseteq catalog',
           scan'.doomed \cap steady = {}, scan'.pc = "confirm" => scan'.found \cap steady = {}
    PROVE  SteadyInv'
<1>t. TypeOK /\ scan \in Scan /\ TodoInv
  BY DEF ScanInv, TypeOK
<1>1. Unbroken' => Unbroken
  BY DEF Unbroken, KeptByCleanup
<1>2. ASSUME NEW f \in Due, f \in catalog \/ Ahead(f) PROVE f \in catalog' \/ Ahead(f)'
  <2>1. f \in Files /\ f \in steady /\ scan.todo \subseteq Dirs
    BY <1>t, DuePlace DEF Scan
  <2>2. \A t \in scan.todo : Leads(t, f)' <=> Leads(t, f)
    BY <2>1, LeadsKept DEF KeptByCleanup, Kept
  <2>3. f \in catalog => f \in catalog'
    BY <2>1 DEF SteadyInv
  <2> QED
    BY <1>2, <2>2, <2>3 DEF Ahead, KeptByCleanup
<1>3. Passes
  BY <1>2 DEF Passes
<1> QED
  BY <1>1, <1>3, SteadyMove DEF KeptByCleanup, Kept

LEMMA SteadyChecks ==
    ASSUME ScanInv, SoundInv, SteadyInv,
           \/ \E f \in Files : Check(f) \/ Confirm(f)
           \/ StatEnds \/ SubtreesEnd \/ Reconcile \/ ChecksEnd \/ Delete \/ Save
    PROVE  SteadyInv'
<1>t. TypeOK
  BY DEF ScanInv
<1> DEFINE Same == UNCHANGED <<disk, exclude, stored, steady, sighted>>
<1>0. ASSUME scan' = NoScan, Same PROVE SteadyInv'
  BY <1>0, SteadyIdle DEF disk
<1>1. ASSUME Same, KeptByCleanup, scan'.doomed \cap steady = {},
             scan'.pc = "confirm" => scan'.found \cap steady = {},
             scan.pc \in {"stat", "subtrees", "reconcile", "check", "confirm", "delete", "save"},
             scan'.pc \in {"subtrees", "reconcile", "check", "confirm", "delete", "save", "done"}
      PROVE  SteadyInv'
  BY <1>1, SteadyCleanup DEF disk, stored
<1>2. ASSUME NEW f \in Files, Check(f) PROVE SteadyInv'
  <2>0. /\ scan.pc = "check" /\ Same
        /\ \/ scan' = NoScan
           \/ /\ KeptByCleanup /\ scan'.doomed = scan.doomed
              /\ \/ LookFile(f) = "ok" /\ scan'.pc = "check"
                 \/ LookFile(f) = "missing" /\ scan'.pc = "confirm" /\ scan'.found = {f}
    BY <1>t, <1>2, CheckEffect
  <2>1. online
    BY <2>0 DEF SoundInv, OnlineInv
  <2>2. LookFile(f) = "missing" => f \notin steady
    BY <1>t, <2>1, LookOnline DEF SteadyInv
  <2>3. scan.doomed \cap steady = {}
    BY DEF SteadyInv
  <2> QED
    BY <1>0, <1>1, <2>0, <2>2, <2>3
<1>3. ASSUME NEW f \in Files, Confirm(f) PROVE SteadyInv'
  <2>0. /\ scan.pc = "confirm" /\ f \in scan.found /\ Same
        /\ \/ scan' = NoScan
           \/ KeptByCleanup /\ scan'.pc = "check" /\ scan'.doomed = scan.doomed \cup {f}
    BY <1>t, <1>3, ConfirmEffect
  <2>1. (scan.doomed \cup {f}) \cap steady = {}
    BY <2>0 DEF SteadyInv
  <2> QED
    BY <1>0, <1>1, <2>0, <2>1
<1>4. CASE StatEnds \/ SubtreesEnd
  BY <1>t, <1>1, <1>4, EndsEffect DEF SteadyInv
<1>5. CASE Reconcile
  BY <1>t, <1>0, <1>1, <1>5, ReconcileEffect DEF SteadyInv
<1>6. CASE ChecksEnd
  BY <1>t, <1>0, <1>1, <1>6, ChecksEndEffect DEF SteadyInv
<1>7. CASE Delete
  BY <1>t, <1>7, DeleteEffect, SteadyCleanup DEF SteadyInv, disk
<1>8. CASE Save
  BY <1>t, <1>8, SaveEffect, SteadyCleanup DEF SteadyInv, disk
<1> QED
  BY <1>2, <1>3, <1>4, <1>5, <1>6, <1>7, <1>8

LEMMA SteadyWorld ==
    ASSUME ScanInv, SteadyInv, scan' = scan, steady' \subseteq steady, steady' \subseteq files',
           catalog' = catalog \/ scan.pc = "idle"
    PROVE  SteadyInv'
<1>1. Unbroken' <=> Unbroken
  BY DEF Unbroken
<1>2. \A f \in steady : Ahead(f)' <=> Ahead(f)
  BY DEF Ahead, Leads
<1>3. scan'.doomed \cap steady' = {} /\ (scan'.pc = "confirm" => scan'.found \cap steady' = {})
  BY DEF SteadyInv
<1>4. scan'.pc # "idle" /\ Unbroken' =>
         \A f \in steady' \ FilesIn(Hidden(scan'.exclude)) : f \in catalog' \/ Ahead(f)'
  BY <1>1, <1>2 DEF SteadyInv
<1> QED
  BY <1>3, <1>4 DEF SteadyInv

LEMMA SteadyInvStep ==
    ScanInv /\ SoundInv /\ QuickInv /\ SteadyInv /\ [Next]_vars => SteadyInv'
<1> SUFFICES ASSUME ScanInv, SoundInv, QuickInv, SteadyInv, [Next]_vars PROVE SteadyInv'
  OBVIOUS
<1>t. TypeOK
  BY DEF ScanInv
<1>1. ASSUME NEW wantFull \in BOOLEAN, Begin(wantFull) PROVE SteadyInv'
  BY <1>1, SteadyBegin
<1>2. CASE WalkStep
  <2>1. CASE Finish \/ Abort
    BY <2>1, SteadyIdle DEF Finish, Abort, disk
  <2> QED
    BY <1>2, <2>1, SteadyCapture, SteadyPhase, SteadyList, SteadyCatalog, SteadyWalkEnds,
       SteadyStat, SteadyNewChildren, SteadySubtree, SteadyChecks DEF WalkStep
<1>3. CASE WorldStep
  <2>1. /\ scan' = scan /\ (catalog' = catalog \/ scan.pc = "idle")
        /\ steady' \subseteq steady /\ steady' \subseteq files'
    BY <1>t, <1>3, WorldEffect DEF SteadyInv
  <2> QED
    BY <2>1, SteadyWorld
<1>4. CASE UNCHANGED vars
  <2>1. scan' = scan /\ catalog' = catalog /\ steady' = steady /\ files' = files
    BY <1>4 DEF vars, disk, stored
  <2>2. steady \subseteq files
    BY DEF SteadyInv
  <2> QED
    BY <2>1, <2>2, SteadyWorld
<1> QED
  BY <1>1, <1>2, <1>3, <1>4 DEF Next

\* The invariant of a scan and of what it has done so far.
ResultInv == ScanInv /\ SoundInv /\ QuickInv /\ SteadyInv

LEMMA ResultInit == Init => ResultInv
<1>1. Init => QuickInv /\ SteadyInv
  BY DEF Init, QuickInv, SteadyInv, NoScan, Checking, DirWalk, TreeWalk
<1> QED
  BY <1>1, ScanInvInit, SoundInit DEF ResultInv

LEMMA ResultStep ==
    ASSUME FaultsDuringScan = FALSE, Purges = FALSE
    PROVE  ResultInv /\ [Next]_vars => ResultInv'
BY ScanInvStep, SoundStep, QuickInvStep, SteadyInvStep DEF ResultInv

\* While drives and permissions change only between scans, and no purge takes
\* rows of files that a snapshot still covers: a scan that counts as complete
\* has cataloged every file that was there throughout and that no exclusion of
\* it hides, also when quick_catalog passed over the directories the snapshot
\* calls unchanged, and whatever was added, moved or removed meanwhile.
THEOREM CompleteScanCatalogs ==
    ASSUME FaultsDuringScan = FALSE, Purges = FALSE
    PROVE  Spec => []CompleteCatalogs
<1>1. Init => ResultInv
  BY ResultInit
<1>2. ResultInv /\ [Next]_vars => ResultInv'
  BY ResultStep
<1>3. ResultInv => CompleteCatalogs
  <2> SUFFICES ASSUME ResultInv, scan.pc = "done", scan.complete, NEW f \in steady \ FilesIn(Hidden(scan.exclude))
               PROVE  f \in catalog
    BY DEF CompleteCatalogs
  <2>1. f \in catalog \/ Ahead(f)
    BY DEF ResultInv, SteadyInv, Unbroken
  <2>2. scan.todo = {} /\ scan.fresh = {}
    BY DEF ResultInv, ScanInv, TodoInv, FreshInv, Checking, DirWalk
  <2> QED
    BY <2>1, <2>2 DEF Ahead
<1> QED
  BY <1>1, <1>2, <1>3, PTL DEF Spec

-----------------------------------------------------------------------------
(* What a scan deletes, whatever drives and permissions do meanwhile.       *)

Looking == scan.pc \in {"check", "confirm"}

\* The drive does not go away during the second look at the candidates (look),
\* or during the first.
StaysDuring(look) == Looking /\ scan.rechecked = look => (online => online')

\* A file that stays on the disk is not missing to a look during which its
\* drive stays, and the second look is only at what the first found missing.
LookInv(look) ==
    /\ steady \subseteq files
    /\ scan.rechecked => scan.pc \in {"check", "confirm", "delete", "save", "done"}
    /\ Looking /\ scan.rechecked = look => online
    /\ Looking /\ (look => scan.rechecked) =>
          /\ scan.doomed \cap steady = {}
          /\ scan.pc = "confirm" => scan.found \cap steady = {}
    /\ Looking /\ scan.rechecked /\ ~look => scan.candidates \cap steady = {}
    /\ scan.pc = "delete" => scan.doomed \cap steady = {}

LEMMA LookIdle ==
    ASSUME NEW look \in BOOLEAN, scan' = NoScan, steady' \subseteq files'
    PROVE  LookInv(look)'
BY DEF LookInv, Looking, NoScan

\* Until the cleanup, and after the deletion, no look is under way.
LEMMA LookElsewhere ==
    ASSUME NEW look \in BOOLEAN, TypeOK, LookInv(look),
           \/ \E d \in Dirs : Capture(d) \/ List(d) \/ Stat(d) \/ Subtree(d)
           \/ \E f \in Files : CatalogFile(f)
           \/ CaptureEnds \/ ListEnds \/ WalkEnds \/ NewChildren \/ StatEnds \/ SubtreesEnd
           \/ Delete \/ Save \/ Finish \/ Abort
    PROVE  LookInv(look)'
<1>t. scan \in Scan /\ (scan.rechecked => scan.pc \in {"check", "confirm", "delete", "save", "done"})
  BY DEF TypeOK, LookInv
<1> DEFINE Off == /\ scan'.pc \notin {"check", "confirm", "delete"}
                  /\ scan'.rechecked => scan'.pc \in {"save", "done"}
<1>0. UNCHANGED <<disk, steady>>
  BY DEF Capture, List, Stat, Subtree, CatalogFile, CaptureEnds, ListEnds, WalkEnds, NewChildren,
     StatEnds, SubtreesEnd, Delete, Save, Finish, Abort, stored
<1>e. ASSUME scan.pc \in {"capture", "list", "catalog", "stat", "children", "subtrees"},
             scan'.pc \in {"capture", "list", "catalog", "stat", "children", "subtrees", "reconcile", "save"},
             scan'.rechecked = scan.rechecked
      PROVE  Off
  BY <1>t, <1>e
<1>n. ASSUME scan' = NoScan PROVE Off
  BY <1>n DEF NoScan
<1> HIDE DEF Off
<1>1. ASSUME NEW d \in Dirs, Capture(d) PROVE Off
  <2>1. CASE LookDir(d) = "ok"
    <3>1. scan'.pc = "capture" /\ scan.pc = "capture" /\ scan'.rechecked = scan.rechecked
      BY ONLY <1>t, <1>1, <2>1 DEF Capture, Scan
    <3> QED
      BY ONLY <1>e, <3>1
  <2>2. CASE LookDir(d) # "ok" /\ scan.full
    <3>1. scan'.pc = "list" /\ scan.pc = "capture" /\ scan'.rechecked = scan.rechecked
      BY ONLY <1>t, <1>1, <2>2 DEF Capture, Scan
    <3> QED
      BY ONLY <1>e, <3>1
  <2>3. CASE LookDir(d) # "ok" /\ ~scan.full
    BY ONLY <1>1, <1>n, <2>3 DEF Capture, Fail
  <2> QED
    BY ONLY <2>1, <2>2, <2>3
<1>2. ASSUME NEW d \in Dirs, List(d) PROVE Off
  <2>1. scan'.pc = "list" /\ scan.pc = "list" /\ scan'.rechecked = scan.rechecked
    BY ONLY <1>t, <1>2 DEF List, Scan
  <2> QED
    BY ONLY <1>e, <2>1
<1>3. ASSUME NEW d \in Dirs, Stat(d) PROVE Off
  <2>1. LookDir(d) \in {"ok", "missing", "error"}
    BY ONLY DEF LookDir, Look
  <2>2. scan.pc = "stat" /\ scan'.pc \in {"stat", "children"} /\ scan'.rechecked = scan.rechecked
    BY ONLY <1>t, <1>3, <2>1 DEF Stat, Scan
  <2> QED
    BY ONLY <1>e, <2>2
<1>4. ASSUME NEW d \in Dirs, Subtree(d) PROVE Off
  <2>1. scan.pc = "subtrees" /\ scan'.pc \in {"subtrees", "capture"} /\ scan'.rechecked = scan.rechecked
    BY ONLY <1>t, <1>4 DEF Subtree, WalkTree, Scan
  <2> QED
    BY ONLY <1>e, <2>1
<1>5. ASSUME NEW f \in Files, CatalogFile(f) PROVE Off
  <2>1. scan.pc = "catalog" /\ scan'.pc = "catalog" /\ scan'.rechecked = scan.rechecked
    BY ONLY <1>t, <1>5 DEF CatalogFile, Scan
  <2> QED
    BY ONLY <1>e, <2>1
<1>6. ASSUME CaptureEnds \/ ListEnds PROVE Off
  <2>1. scan.pc \in {"capture", "list"} /\ scan'.pc \in {"list", "catalog"} /\ scan'.rechecked = scan.rechecked
    BY ONLY <1>t, <1>6 DEF CaptureEnds, ListEnds, Scan
  <2> QED
    BY ONLY <1>e, <2>1
<1>7. ASSUME WalkEnds PROVE Off
  <2>1. /\ scan.pc = "catalog" /\ scan'.rechecked = scan.rechecked
        /\ scan'.pc \in {"reconcile", "save", "stat", "subtrees"}
    BY ONLY <1>t, <1>7 DEF WalkEnds, Scan
  <2> QED
    BY ONLY <1>e, <2>1
<1>8. ASSUME NewChildren \/ StatEnds \/ SubtreesEnd PROVE Off
  <2>1. /\ scan.pc \in {"stat", "children", "subtrees"} /\ scan'.rechecked = scan.rechecked
        /\ scan'.pc \in {"reconcile", "list", "stat", "subtrees"}
    BY ONLY <1>t, <1>8 DEF NewChildren, StatEnds, SubtreesEnd, Scan
  <2> QED
    BY ONLY <1>e, <2>1
<1>9. ASSUME Delete \/ Save PROVE Off
  <2>1. scan'.pc \in {"save", "done"}
    BY ONLY <1>t, <1>9 DEF Delete, Save, Scan
  <2> QED
    BY ONLY <2>1 DEF Off
<1>10. ASSUME Finish \/ Abort PROVE Off
  BY ONLY <1>n, <1>10 DEF Finish, Abort
<1>11. Off
  BY <1>1, <1>2, <1>3, <1>4, <1>5, <1>6, <1>7, <1>8, <1>9, <1>10
<1> USE DEF Off
<1> QED
  BY <1>0, <1>11 DEF LookInv, Looking, disk

\* The looks themselves.
LEMMA LookKept ==
    ASSUME NEW look \in BOOLEAN, ScanInv, LookInv(look),
           (\E f \in Files : Check(f) \/ Confirm(f)) \/ Reconcile \/ ChecksEnd
    PROVE  LookInv(look)'
<1>t. TypeOK /\ scan \in Scan
  BY DEF ScanInv, TypeOK
<1>0. UNCHANGED <<disk, steady>> /\ steady' \subseteq files'
  BY DEF Check, Confirm, Reconcile, ChecksEnd, LookInv, disk
<1>1. ASSUME NEW f \in Files, Check(f) PROVE LookInv(look)'
  <2>1. scan' = NoScan \/ (KeptByCleanup /\ scan'.doomed = scan.doomed
           /\ scan'.candidates = scan.candidates \ {f}
           /\ \/ scan'.pc = "check"
              \/ LookFile(f) = "missing" /\ scan'.pc = "confirm" /\ scan'.found = {f})
    BY <1>t, <1>1, CheckEffect
  <2>2. scan.pc = "check" /\ f \in scan.candidates
    BY <1>1 DEF Check
  <2>3. scan' = NoScan \/ scan'.rechecked = scan.rechecked
    BY <1>t, <1>1 DEF Check, Fail, LookFile, Look, Scan
  <2>4. online /\ LookFile(f) = "missing" => f \notin steady
    BY DEF LookFile, Look, LookInv
  <2>5. CASE scan' = NoScan
    BY <1>0, <2>5, LookIdle
  <2>6. CASE scan' # NoScan
    <3>1. /\ scan'.rechecked = scan.rechecked /\ scan'.doomed = scan.doomed
          /\ scan'.candidates \subseteq scan.candidates /\ scan'.pc \in {"check", "confirm"}
          /\ scan'.pc = "confirm" => LookFile(f) = "missing" /\ scan'.found = {f}
      BY ONLY <2>1, <2>3, <2>6
    <3>2. LookInv(look)
      OBVIOUS
    <3>3. look = TRUE \/ look = FALSE
      OBVIOUS
    <3>4. scan.rechecked \in BOOLEAN
      BY <1>t DEF Scan
    <3>5. files' = files /\ online' = online /\ steady' = steady
      BY <1>0 DEF disk
    <3>6. LookFile(f) = "missing" /\ (look => scan.rechecked) => f \notin steady
      <4>1. CASE scan.rechecked = look
        BY ONLY <2>2, <2>4, <3>2, <4>1 DEF LookInv, Looking
      <4>2. CASE scan.rechecked /\ ~look
        BY ONLY <2>2, <3>2, <4>2 DEF LookInv, Looking
      <4> QED
        BY ONLY <3>3, <3>4, <4>1, <4>2
    <3>7. (look => scan.rechecked) => scan.doomed \cap steady = {}
      BY ONLY <2>2, <3>2 DEF LookInv, Looking
    <3>8. /\ steady' \subseteq files' /\ (Looking' /\ scan'.rechecked = look => online')
          /\ Looking' /\ scan'.rechecked /\ ~look => scan'.candidates \cap steady' = {}
      BY ONLY <2>2, <3>1, <3>2, <3>5 DEF LookInv, Looking
    <3> QED
      BY ONLY <3>1, <3>5, <3>6, <3>7, <3>8 DEF LookInv, Looking
  <2> QED
    BY <2>5, <2>6
<1>2. ASSUME NEW f \in Files, Confirm(f) PROVE LookInv(look)'
  <2>1. scan.pc = "confirm" /\ f \in scan.found
        /\ (scan' = NoScan \/ (KeptByCleanup /\ scan'.pc = "check"
               /\ scan'.doomed = scan.doomed \cup {f} /\ scan'.candidates = scan.candidates))
    BY <1>t, <1>2, ConfirmEffect
  <2>2. scan' = NoScan \/ scan'.rechecked = scan.rechecked
    BY <1>t, <1>2 DEF Confirm, Fail, Scan
  <2>3. CASE scan' = NoScan
    BY <1>0, <2>3, LookIdle
  <2>4. CASE scan' # NoScan
    BY <1>0, <2>1, <2>2, <2>4 DEF LookInv, Looking, disk
  <2> QED
    BY <2>3, <2>4
<1>3. CASE Reconcile
  <2>1. scan' = NoScan \/ (scan.pc = "reconcile" /\ scan'.pc = "check" /\ scan'.doomed = scan.doomed)
    BY <1>t, <1>3, ReconcileEffect
  <2>2. scan' = NoScan \/ (scan'.rechecked = scan.rechecked /\ online)
    BY <1>t, <1>3 DEF Reconcile, Fail, Scan, Readable, LookDir, Look
  <2>3. scan.pc = "reconcile" => scan.doomed = {} /\ ~scan.rechecked
    BY DEF ScanInv, FrontierInv, LookInv
  <2>4. CASE scan' = NoScan
    BY <1>0, <2>4, LookIdle
  <2>5. CASE scan' # NoScan
    BY <1>0, <1>t, <2>1, <2>2, <2>3, <2>5 DEF LookInv, Looking, disk, Scan
  <2> QED
    BY <2>4, <2>5
<1>4. CASE ChecksEnd
  <2>0. scan.pc = "check"
    BY <1>4 DEF ChecksEnd
  <2>1. CASE scan' = NoScan
    BY <1>0, <2>1, LookIdle
  <2>2. CASE scan.doomed = {}
    <3>1. scan'.pc = "save"
      BY <1>t, <1>4, <2>2 DEF ChecksEnd, Scan
    <3> QED
      BY <1>0, <3>1 DEF LookInv, Looking
  <2>3. CASE scan.doomed # {} /\ scan.rechecked
    <3>1. scan'.pc = "delete" /\ scan'.doomed = scan.doomed
      BY <1>t, <1>4, <2>3 DEF ChecksEnd, Scan
    <3> QED
      BY <1>0, <2>0, <2>3, <3>1 DEF LookInv, Looking
  <2>4. CASE scan.doomed # {} /\ ~scan.rechecked /\ scan' # NoScan
    <3>1. Readable(Root)
          /\ scan' = [scan EXCEPT !.rechecked = TRUE, !.candidates = scan.doomed, !.doomed = {}]
      BY <1>4, <2>4 DEF ChecksEnd, Fail
    <3>2. online /\ scan'.pc = "check" /\ scan'.rechecked /\ scan'.doomed = {}
          /\ scan'.candidates = scan.doomed
      BY <1>t, <2>0, <3>1 DEF Scan, Readable, LookDir, Look
    <3> QED
      BY <1>0, <2>0, <2>4, <3>2 DEF LookInv, Looking, disk
  <2> QED
    BY <2>1, <2>2, <2>3, <2>4
<1> QED
  BY <1>1, <1>2, <1>3, <1>4

LEMMA LookWorld ==
    ASSUME NEW look \in BOOLEAN, LookInv(look), scan' = scan, steady' \subseteq steady,
           steady' \subseteq files', StaysDuring(look) \/ online' = online
    PROVE  LookInv(look)'
BY DEF LookInv, Looking, StaysDuring

LEMMA LookStep ==
    ASSUME NEW look \in BOOLEAN, ScanInv, LookInv(look), [Next]_vars, [StaysDuring(look)]_vars
    PROVE  LookInv(look)'
<1>t. TypeOK /\ steady \subseteq files
  BY DEF ScanInv, LookInv
<1>1. ASSUME NEW wantFull \in BOOLEAN, Begin(wantFull) PROVE LookInv(look)'
  <2>1. scan'.pc \in {"capture", "stat"} /\ ~scan'.rechecked
    BY <1>1 DEF Begin, WalkTree, NoScan
  <2>2. steady' \subseteq files'
    BY <1>1 DEF Begin, disk
  <2> QED
    BY <2>1, <2>2 DEF LookInv, Looking
<1>2. CASE WalkStep
  BY <1>t, <1>2, LookElsewhere, LookKept DEF WalkStep
<1>3. CASE UNCHANGED vars
  BY <1>t, <1>3, LookWorld DEF vars, disk
<1>4. CASE WorldStep
  <2>1. scan' = scan /\ steady' \subseteq steady /\ steady' \subseteq files'
    BY <1>t, <1>4, WorldEffect
  <2>2. StaysDuring(look) \/ online' = online
    BY DEF vars, disk
  <2> QED
    BY <2>1, <2>2, LookWorld
<1> QED
  BY <1>1, <1>2, <1>3, <1>4 DEF Next

\* Whatever drives, permissions, files, exclusions and purges do: a scan
\* deletes only rows of files that were missing at some time while it ran, if
\* the drive does not go away during one of its two looks at the candidates
\* (prune_jobs::reconcile).  So an outage alone deletes nothing, however long
\* the list of candidates it leaves: it takes one in each look.
THEOREM ScanDeletesMissing ==
    ASSUME NEW look \in BOOLEAN
    PROVE  Spec /\ [][StaysDuring(look)]_vars => DeletesOnlyMissing
<1> DEFINE Inv == ScanInv /\ LookInv(look)
<1>1. Init => Inv
  BY ScanInvInit DEF Init, LookInv, Looking, NoScan
<1>2. Inv /\ [Next]_vars /\ [StaysDuring(look)]_vars => Inv'
  BY ScanInvStep, LookStep
<1>3. Inv /\ [Next]_vars => (scan.pc = "delete" => catalog \ catalog' \subseteq Files \ steady)
  <2> SUFFICES ASSUME Inv, [Next]_vars, scan.pc = "delete"
               PROVE  catalog \ catalog' \subseteq Files \ steady
    OBVIOUS
  <2>1. TypeOK /\ scan.doomed \cap steady = {}
    BY DEF ScanInv, LookInv
  <2>2. CASE Delete
    BY <2>1, <2>2, DeleteEffect DEF TypeOK
  <2>3. CASE WalkStep /\ ~Delete
    <3>1. catalog' = catalog
      BY <2>3 DEF WalkStep, Capture, List, Stat, Subtree, CatalogFile, Check, Confirm,
         CaptureEnds, ListEnds, WalkEnds, NewChildren, StatEnds, SubtreesEnd, Reconcile,
         ChecksEnd, Save, Finish, Abort, stored
    <3> QED
      BY <3>1
  <2>4. CASE WorldStep
    BY <2>1, <2>4, WorldEffect
  <2>5. CASE \E wantFull \in BOOLEAN : Begin(wantFull)
    BY <2>5 DEF Begin
  <2>6. CASE UNCHANGED vars
    BY <2>6 DEF vars, stored
  <2> QED
    BY <2>2, <2>3, <2>4, <2>5, <2>6 DEF Next
<1> HIDE DEF Inv
<1> QED
  BY <1>1, <1>2, <1>3, PTL DEF Spec, DeletesOnlyMissing

==============================================================================
