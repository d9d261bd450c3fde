---------------------------- MODULE DirectoryScan ----------------------------
(***************************************************************************)
(* The walk of one included folder: a full walk or a quick check against   *)
(* the directory snapshot of an earlier scan, the catalog rows it adds and *)
(* removes, and the snapshot it leaves for the next one.  Files and        *)
(* directories change under the walk, drives go away and come back, and    *)
(* clients edit the exclusions, between any two steps.  The walk reads one *)
(* directory or one file per step.                                         *)
(***************************************************************************)
EXTENDS Integers

CONSTANTS
    Dirs, Root, Parent,     \* directories that may exist, in path order
    Above,                  \* Above[d]: d and the directories it lies in
    Files, Home,            \* media files, and the directory each lies in
    Exclusions,             \* the exclusion sets clients may save
    MaxClock,               \* bound: changes of the disk
    MaxFaults,              \* bound: outages and permission changes
    FaultsDuringScan,       \* whether those may happen while a scan runs
    Purges                  \* whether a folder purge may follow an exclusion

ASSUME TreeAssumption ==
    /\ Dirs \subseteq Nat /\ Root \in Dirs
    /\ Parent \in [Dirs \ {Root} -> Dirs] /\ Above \in [Dirs -> SUBSET Dirs]
    /\ Above[Root] = {Root} /\ \A d \in Dirs : Root \in Above[d]
    /\ \A d \in Dirs \ {Root} : d \notin Above[Parent[d]] /\ Above[d] = {d} \cup Above[Parent[d]]
    /\ \A d \in Dirs : \A c \in Above[d] : c <= d /\ Above[c] \subseteq Above[d]
    /\ \A d \in Dirs : \A c \in Above[d] \ {d} : \E b \in Above[d] \ {Root} : Parent[b] = c
    /\ Home \in [Files -> Dirs]

ASSUME BoundAssumption ==
    /\ {} \in Exclusions /\ Exclusions \subseteq SUBSET (Dirs \ {Root})
    /\ MaxClock \in Nat /\ MaxFaults \in Nat
    /\ FaultsDuringScan \in BOOLEAN /\ Purges \in BOOLEAN

VARIABLES
    dirs, files, mtime,         \* the tree, and the mtime of each directory
    online, unreadable,         \* its drive, and directories no one may read
    clock, faults,
    exclude,                    \* the library's exclusions
    snapshot, catalog,          \* library_directory_snapshots and assets
    scan,                       \* the walk in progress
    steady, sighted             \* history: files on the disk throughout the
                                \* scan, and at some time during it

disk   == <<dirs, files, mtime, online, unreadable, clock, faults>>
stored == <<snapshot, catalog>>
vars   == <<disk, exclude, stored, scan, steady, sighted>>

\* The directories below and including d; the files in some directories; and
\* what exclusions hide.
Within(d) == {c \in Dirs : d \in Above[c]}
FilesIn(ds) == {f \in Files : Home[f] \in ds}
Hidden(ex) == {d \in Dirs : Above[d] \cap ex # {}}

Absent  == -1           \* no entry in a snapshot
Unknown == 0            \* UNKNOWN_MTIME
NoEntries == [d \in Dirs |-> Absent]

\* The answer of the file system about a path with the directories `above`.
Look(above, there) ==
    CASE ~online                     -> "missing"
      [] online /\ above \cap unreadable # {} -> "error"
      [] OTHER                       -> IF there THEN "ok" ELSE "missing"

LookDir(d)  == Look(Above[d] \ {d}, d \in dirs)
LookFile(f) == Look(Above[Home[f]], f \in files)
Readable(d) == LookDir(d) = "ok" /\ d \notin unreadable

\* What listing a directory shows of it, under the exclusions of the scan.
Children(d) == {c \in dirs \ {Root} : Parent[c] = d /\ c \notin Hidden(scan.exclude)}
FilesOf(d)  == {f \in files : Home[f] = d}

NoScan == [pc |-> "idle", full |-> FALSE, exclude |-> {}, known |-> NoEntries,
           next |-> NoEntries, todo |-> {}, fresh |-> {}, walk |-> "tree", root |-> Root,
           at |-> Unknown, frontier |-> {}, found |-> {}, seen |-> {}, whole |-> TRUE,
           complete |-> TRUE, candidates |-> {}, doomed |-> {}, rechecked |-> FALSE]

Scan ==
    [pc : {"idle", "capture", "list", "catalog", "stat", "children", "subtrees", "reconcile",
           "check", "confirm", "delete", "save", "done"},
     full : BOOLEAN, exclude : SUBSET (Dirs \ {Root}), known : [Dirs -> Int], next : [Dirs -> Int],
     todo : SUBSET Dirs, fresh : SUBSET Dirs, walk : {"tree", "dir"}, root : Dirs, at : Nat,
     frontier : SUBSET Dirs, found : SUBSET Files, seen : SUBSET Files, whole : BOOLEAN,
     complete : BOOLEAN, candidates : SUBSET Files, doomed : SUBSET Files,
     rechecked : BOOLEAN]

TypeOK ==
    /\ dirs \subseteq Dirs /\ files \subseteq Files /\ mtime \in [Dirs -> Nat]
    /\ online \in BOOLEAN /\ unreadable \subseteq Dirs
    /\ clock \in Nat /\ faults \in Nat
    /\ exclude \subseteq Dirs \ {Root}
    /\ snapshot \in [key : SUBSET (Dirs \ {Root}), at : [Dirs -> Int]]
    /\ catalog \subseteq Files
    /\ scan \in Scan
    /\ steady \subseteq Files /\ sighted \subseteq Files

-----------------------------------------------------------------------------
(* The start of a walk.                                                     *)

\* "A snapshot is only valid for the exclusions it was taken with", and only
\* when it recorded the root.
\* Mutant: the exclusions are not compared.
SnapshotValid_AnyKey == snapshot.at[Root] # Absent

SnapshotValid == snapshot.key = exclude /\ snapshot.at[Root] # Absent

\* Walk the subtree of r: capture its directories, then catalog its files.
WalkTree(s, r) ==
    [s EXCEPT !.pc = "capture", !.walk = "tree", !.root = r, !.frontier = {r},
              !.found = {}, !.seen = {}, !.whole = TRUE]

\* folder_available, then a full walk or a quick check.
Begin(wantFull) ==
    LET new == [NoScan EXCEPT !.exclude = exclude] IN
    /\ scan.pc = "idle" /\ Readable(Root)
    /\ scan' = IF wantFull \/ ~SnapshotValid
               THEN WalkTree([new EXCEPT !.full = TRUE], Root)
               ELSE [new EXCEPT !.pc = "stat", !.known = snapshot.at, !.next = snapshot.at,
                                !.todo = {d \in Dirs : snapshot.at[d] # Absent}]
    /\ steady' = files /\ sighted' = files
    /\ UNCHANGED <<disk, exclude, stored>>

-----------------------------------------------------------------------------
(* Walking a tree: snapshot_directories and catalog_snapshot.               *)

Fail == scan' = NoScan

\* The mtime of a directory is read before its entries.  One that cannot be
\* listed is recorded as unknown; one that is gone fails the capture.
Capture(d) ==
    /\ scan.pc = "capture" /\ d \in scan.frontier
    /\ IF LookDir(d) = "ok"
       THEN scan' = [scan EXCEPT
                !.next[d] = IF d \in unreadable THEN Unknown ELSE mtime[d],
                !.frontier = (@ \ {d}) \cup (IF d \in unreadable THEN {} ELSE Children(d))]
       ELSE IF scan.full
       THEN scan' = [scan EXCEPT !.pc = "list", !.next = NoEntries, !.frontier = {Root}]
       ELSE Fail
    /\ UNCHANGED <<disk, exclude, stored, steady, sighted>>

CaptureEnds ==
    /\ scan.pc = "capture" /\ scan.frontier = {}
    /\ scan' = [scan EXCEPT !.pc = "list", !.frontier = {scan.root}]
    /\ UNCHANGED <<disk, exclude, stored, steady, sighted>>

\* collect_files: a directory that cannot be listed leaves the walk incomplete.
List(d) ==
    /\ scan.pc = "list" /\ d \in scan.frontier
    /\ IF Readable(d)
       THEN scan' = [scan EXCEPT
                !.found = @ \cup FilesOf(d),
                !.frontier = (@ \ {d}) \cup (IF scan.walk = "tree" THEN Children(d) ELSE {})]
       ELSE scan' = [scan EXCEPT !.whole = FALSE, !.frontier = @ \ {d}]
    /\ UNCHANGED <<disk, exclude, stored, steady, sighted>>

ListEnds ==
    /\ scan.pc = "list" /\ scan.frontier = {}
    /\ scan' = [scan EXCEPT !.pc = "catalog"]
    /\ UNCHANGED <<disk, exclude, stored, steady, sighted>>

\* catalog_files: a file that has disappeared is skipped, one that cannot be
\* read leaves the walk incomplete.
CatalogFile(f) ==
    /\ scan.pc = "catalog" /\ f \in scan.found
    /\ catalog' = IF LookFile(f) = "ok" THEN catalog \cup {f} ELSE catalog
    /\ scan' = [scan EXCEPT
           !.found = @ \ {f},
           !.seen = IF LookFile(f) = "ok" THEN @ \cup {f} ELSE @,
           !.whole = @ /\ LookFile(f) # "error"]
    /\ UNCHANGED <<disk, exclude, snapshot, steady, sighted>>

\* Mutant: only the files of the walk's root itself are compared.
Unseen_Own == (catalog \cap FilesIn({scan.root})) \ scan.seen

\* The candidates for removal a complete walk of its root leaves.
Unseen ==
    LET places == IF scan.walk = "dir" THEN {scan.root} ELSE Within(scan.root)
    IN  (catalog \cap FilesIn(places)) \ scan.seen

\* Mutant: the mtime recorded for a directory is read after its listing.
Recorded_Late == IF scan.whole THEN mtime[scan.root] ELSE Unknown

\* What the next snapshot records for a directory that had changed.
Recorded == IF scan.whole THEN scan.at ELSE Unknown

WalkEnds ==
    /\ scan.pc = "catalog" /\ scan.found = {}
    /\ scan' = [scan EXCEPT
           !.complete = @ /\ scan.whole,
           !.candidates = IF scan.whole THEN @ \cup Unseen ELSE @,
           !.next[scan.root] = IF scan.walk = "dir" THEN Recorded ELSE @,
           !.pc = CASE scan.full -> IF scan.whole THEN "reconcile" ELSE "save"
                    [] ~scan.full -> IF scan.walk = "dir" THEN "stat" ELSE "subtrees"]
    /\ UNCHANGED <<disk, exclude, stored, steady, sighted>>

-----------------------------------------------------------------------------
(* The quick check: quick_catalog.                                          *)

Earliest(ds, d) == d \in ds /\ \A c \in ds : d <= c

\* Mutant: only the missing directory itself leaves the snapshot.
Forgotten_Own(d) == {d}

\* What leaves the snapshot with a missing directory.
Forgotten(d) == Within(d)

\* Known directories in path order; those below a missing one are skipped,
\* its candidates already cover them.
Stat(d) ==
    /\ scan.pc = "stat" /\ Earliest(scan.todo, d)
    /\ CASE LookDir(d) = "missing" ->
              scan' = [scan EXCEPT
                  !.todo = @ \ Within(d),
                  !.candidates = @ \cup (catalog \cap FilesIn(Within(d))),
                  !.next = [c \in Dirs |-> IF c \in Forgotten(d) THEN Absent ELSE scan.next[c]]]
         [] LookDir(d) = "error" ->
              scan' = [scan EXCEPT !.todo = @ \ {d}, !.next[d] = Unknown, !.complete = FALSE]
         [] LookDir(d) = "ok" ->
              IF mtime[d] = scan.known[d]
              THEN scan' = [scan EXCEPT !.todo = @ \ {d}]
              ELSE scan' = [scan EXCEPT !.todo = @ \ {d}, !.pc = "children",
                                        !.root = d, !.at = mtime[d]]
    /\ UNCHANGED <<disk, exclude, stored, steady, sighted>>

\* new_child_directories of a changed directory, then its own files.
NewChildren ==
    /\ scan.pc = "children"
    /\ IF Readable(scan.root)
       THEN scan' = [scan EXCEPT
                !.fresh = @ \cup {c \in Children(scan.root) : scan.known[c] = Absent},
                !.pc = "list", !.walk = "dir", !.frontier = {scan.root},
                !.found = {}, !.seen = {}, !.whole = TRUE]
       ELSE scan' = [scan EXCEPT !.pc = "stat", !.next[scan.root] = Unknown, !.complete = FALSE]
    /\ UNCHANGED <<disk, exclude, stored, steady, sighted>>

StatEnds ==
    /\ scan.pc = "stat" /\ scan.todo = {}
    /\ scan' = [scan EXCEPT !.pc = "subtrees"]
    /\ UNCHANGED <<disk, exclude, stored, steady, sighted>>

\* The new subtrees, parents first, unless an earlier one covered them.
Subtree(d) ==
    /\ scan.pc = "subtrees" /\ Earliest(scan.fresh, d)
    /\ LET rest == [scan EXCEPT !.fresh = @ \ {d}]
           covered == \E c \in Above[d] : scan.next[c] # Absent
                                           /\ (c = d \/ scan.known[c] = Absent)
       IN  scan' = IF covered THEN rest ELSE WalkTree(rest, d)
    /\ UNCHANGED <<disk, exclude, stored, steady, sighted>>

SubtreesEnd ==
    /\ scan.pc = "subtrees" /\ scan.fresh = {}
    /\ scan' = [scan EXCEPT !.pc = "reconcile"]
    /\ UNCHANGED <<disk, exclude, stored, steady, sighted>>

-----------------------------------------------------------------------------
(* Cleanup: prune_jobs::reconcile.                                          *)

\* ensure_root_available; excluded files are not candidates.
Reconcile ==
    /\ scan.pc = "reconcile"
    /\ IF Readable(Root)
       THEN scan' = [scan EXCEPT !.pc = "check",
                                 !.candidates = @ \ FilesIn(Hidden(scan.exclude))]
       ELSE Fail
    /\ UNCHANGED <<disk, exclude, stored, steady, sighted>>

\* Mutant: Path::exists, "which hides permission errors".
Check_Exists(f) ==
    /\ scan.pc = "check" /\ f \in scan.candidates
    /\ scan' = [scan EXCEPT !.candidates = @ \ {f},
                            !.doomed = IF LookFile(f) = "ok" THEN @ ELSE @ \cup {f}]
    /\ UNCHANGED <<disk, exclude, stored, steady, sighted>>

\* Complete all filesystem checks before deleting any row, and then check the
\* batch again: a file is looked up first, ...
Check(f) ==
    /\ scan.pc = "check" /\ f \in scan.candidates
    /\ CASE LookFile(f) = "ok"      -> scan' = [scan EXCEPT !.candidates = @ \ {f}]
         [] LookFile(f) = "missing" -> scan' = [scan EXCEPT !.candidates = @ \ {f},
                                                            !.pc = "confirm", !.found = {f}]
         [] LookFile(f) = "error"   -> Fail
    /\ UNCHANGED <<disk, exclude, stored, steady, sighted>>

\* ... and its nearest existing ancestor in the root must then be readable.
ConfirmedMissing(f) == online /\ Above[Home[f]] \cap unreadable = {}

Confirm(f) ==
    /\ scan.pc = "confirm" /\ f \in scan.found
    /\ IF ConfirmedMissing(f)
       THEN scan' = [scan EXCEPT !.pc = "check", !.found = {}, !.doomed = @ \cup {f}]
       ELSE Fail
    /\ UNCHANGED <<disk, exclude, stored, steady, sighted>>

\* "Files can reappear after discovery (for example during a move)."
ChecksEnd ==
    /\ scan.pc = "check" /\ scan.candidates = {}
    /\ IF scan.doomed = {} THEN scan' = [scan EXCEPT !.pc = "save"]
       ELSE IF scan.rechecked THEN scan' = [scan EXCEPT !.pc = "delete"]
       ELSE IF Readable(Root)
       THEN scan' = [scan EXCEPT !.rechecked = TRUE, !.candidates = scan.doomed, !.doomed = {}]
       ELSE Fail
    /\ UNCHANGED <<disk, exclude, stored, steady, sighted>>

Delete ==
    /\ scan.pc = "delete"
    /\ catalog' = catalog \ scan.doomed
    /\ scan' = [scan EXCEPT !.pc = "save"]
    /\ UNCHANGED <<disk, exclude, snapshot, steady, sighted>>

\* replace_directory_snapshot.  A complete walk without a capture erases the
\* old snapshot; an incomplete one with a capture still saves it.
Save ==
    /\ scan.pc = "save"
    /\ snapshot' = IF scan.complete \/ ~scan.full \/ scan.next[Root] # Absent
                   THEN [key |-> scan.exclude, at |-> scan.next] ELSE snapshot
    /\ scan' = [scan EXCEPT !.pc = "done"]
    /\ UNCHANGED <<disk, exclude, catalog, steady, sighted>>

Finish ==
    /\ scan.pc = "done"
    /\ scan' = NoScan
    /\ UNCHANGED <<disk, exclude, stored, steady, sighted>>

\* A cancellation, a failing statement or the end of the process.
Abort ==
    /\ scan.pc \notin {"idle", "done"}
    /\ scan' = NoScan
    /\ UNCHANGED <<disk, exclude, stored, steady, sighted>>

-----------------------------------------------------------------------------
(* The rest of the world.                                                   *)

\* The tree changes: every change of a directory's entries gives it a new
\* mtime, and nothing else does.
Change(newDirs, newFiles, touched) ==
    /\ online /\ clock < MaxClock
    /\ clock' = clock + 1
    /\ dirs' = newDirs /\ files' = newFiles
    /\ mtime' = [d \in Dirs |-> IF d \in touched THEN clock' ELSE mtime[d]]
    /\ unreadable' = unreadable \cap newDirs
    /\ steady' = steady \cap newFiles /\ sighted' = sighted \cup newFiles
    /\ UNCHANGED <<online, faults, exclude, stored, scan>>

AddFile(f)    == f \notin files /\ Home[f] \in dirs
                    /\ Change(dirs, files \cup {f}, {Home[f]})
RemoveFile(f) == f \in files /\ Change(dirs, files \ {f}, {Home[f]})

\* A directory is moved into the tree, with what it contains, or out of it.
AddDir(d) ==
    /\ d \notin dirs /\ Parent[d] \in dirs
    /\ \E new \in SUBSET Within(d), held \in SUBSET FilesIn(Within(d)) :
          /\ d \in new /\ \A c \in new : Above[c] \subseteq dirs \cup new
          /\ \A f \in held : Home[f] \in new
          /\ Change(dirs \cup new, files \cup held, new \cup {Parent[d]})
RemoveDir(d) ==
    /\ d \in dirs \ {Root}
    /\ Change(dirs \ Within(d), files \ FilesIn(Within(d)), {Parent[d]})

\* The drive is unplugged or comes back; a directory loses or regains its
\* permissions.  Neither changes an mtime.
Fault ==
    /\ faults < MaxFaults /\ faults' = faults + 1
    /\ scan.pc # "idle" => FaultsDuringScan
    /\ \/ online' = ~online /\ UNCHANGED unreadable
       \/ \E d \in dirs : unreadable' = (unreadable \ {d}) \cup ({d} \ unreadable)
                          /\ UNCHANGED online
    /\ UNCHANGED <<dirs, files, mtime, clock, exclude, stored, scan, steady, sighted>>

\* A client saves other exclusions.
SetExclude(ex) ==
    /\ ex # exclude /\ exclude' = ex
    /\ UNCHANGED <<disk, stored, scan, steady, sighted>>

\* A folder purge forgets the files no library shows.  Jobs are serialized.
Purge ==
    /\ Purges /\ scan.pc = "idle" /\ exclude # {}
    /\ catalog' = catalog \ FilesIn(Hidden(exclude))
    /\ UNCHANGED <<disk, exclude, snapshot, scan, steady, sighted>>

Init ==
    /\ dirs \in {ds \in SUBSET Dirs : Root \in ds /\ \A d \in ds : Above[d] \subseteq ds}
    /\ files \in SUBSET FilesIn(dirs)
    /\ mtime = [d \in Dirs |-> 1] /\ clock = 1
    /\ online = TRUE /\ unreadable = {} /\ faults = 0
    /\ exclude = {}
    /\ snapshot = [key |-> {}, at |-> NoEntries] /\ catalog = {}
    /\ scan = NoScan
    /\ steady = {} /\ sighted = {}

WalkStep ==
    \/ \E d \in Dirs : Capture(d) \/ List(d) \/ Stat(d) \/ Subtree(d)
    \/ \E f \in Files : CatalogFile(f) \/ Check(f) \/ Confirm(f)
    \/ CaptureEnds \/ ListEnds \/ WalkEnds
    \/ NewChildren \/ StatEnds \/ SubtreesEnd
    \/ Reconcile \/ ChecksEnd \/ Delete
    \/ Save \/ Finish \/ Abort

WorldStep ==
    \/ \E f \in Files : AddFile(f) \/ RemoveFile(f)
    \/ \E d \in Dirs \ {Root} : AddDir(d) \/ RemoveDir(d)
    \/ Fault
    \/ \E ex \in Exclusions : SetExclude(ex)
    \/ Purge

Next == (\E wantFull \in BOOLEAN : Begin(wantFull)) \/ WalkStep \/ WorldStep

Spec == Init /\ [][Next]_vars

-----------------------------------------------------------------------------
(* Properties.                                                              *)

\* "a removed directory is seen before its children": the directories of a
\* snapshot form a tree from the root, outside the exclusions of its key.
Tree(at, ex) ==
    \A d \in Dirs : at[d] # Absent =>
        d \notin Hidden(ex) /\ \A c \in Above[d] : at[c] # Absent

\* A walk of a tree, and the check of one changed directory.
TreeWalk == scan.pc \in {"capture", "list", "catalog"} /\ scan.walk = "tree"
DirWalk  == scan.pc \in {"list", "catalog"} /\ scan.walk = "dir"
Checking == scan.pc = "children" \/ DirWalk

\* What a quick check has still to look at is in the next snapshot, or below
\* a directory that is; what it has forgotten, it has passed.
TodoInv ==
    /\ \A d \in scan.todo : scan.next[d] # Absent /\ scan.known[d] # Absent
    /\ Checking => scan.next[scan.root] # Absent /\ scan.known[scan.root] # Absent
                    /\ \A t \in scan.todo : scan.root < t
    /\ scan.pc = "stat" \/ Checking \/ scan.todo = {}
    /\ \A c \in Dirs \ {Root} :
          scan.known[c] # Absent /\ scan.next[c] = Absent /\ scan.next[Parent[c]] # Absent
              => (\A t \in scan.todo : c < t) /\ (Checking => c < scan.root)

FreshInv ==
    /\ \A c \in scan.fresh :
          /\ c # Root /\ c \notin Hidden(scan.exclude)
          /\ scan.known[Parent[c]] # Absent /\ scan.next[Parent[c]] # Absent
          /\ \A t \in scan.todo : Parent[c] < t
    /\ scan.full => scan.fresh = {} /\ scan.walk = "tree"
                    /\ scan.pc \notin {"stat", "children", "subtrees"}
    /\ scan.pc \in {"idle", "reconcile", "check", "confirm", "delete", "save", "done"}
          => scan.fresh = {}

FrontierInv ==
    /\ scan.pc = "capture" =>
          /\ scan.walk = "tree"
          /\ \A d \in scan.frontier :
                /\ d \in Within(scan.root) /\ d \notin Hidden(scan.exclude)
                /\ d # Root => scan.next[Parent[d]] # Absent
    /\ DirWalk => scan.frontier \subseteq {scan.root}
    /\ scan.pc \notin {"check", "confirm", "delete", "save", "done"} => scan.doomed = {}

ScanInv ==
    /\ TypeOK
    /\ Tree(snapshot.at, snapshot.key)
    /\ Tree(scan.next, scan.exclude) /\ Tree(scan.known, scan.exclude)
    /\ TodoInv /\ FreshInv /\ FrontierInv

\* The next quick check skips a directory whose recorded mtime is its own, so
\* whatever changed during the scans so far, the catalog has its files, and
\* the snapshot its subdirectories.
SnapshotSound ==
    SnapshotValid =>
        \A d \in dirs : snapshot.at[d] = mtime[d] =>
            /\ FilesOf(d) \subseteq catalog
            /\ \A c \in dirs \ {Root} :
                  Parent[c] = d /\ c \notin Hidden(exclude) => snapshot.at[c] # Absent

\* Why it is so.  The disk is a tree whose changes are later than anything
\* recorded, ...
DiskInv ==
    /\ Root \in dirs /\ \A d \in dirs : Above[d] \subseteq dirs
    /\ \A f \in files : Home[f] \in dirs
    /\ \A d \in Dirs : mtime[d] \in 1..clock
    /\ \A d \in Dirs : snapshot.at[d] <= clock /\ scan.next[d] <= clock
    /\ scan.at <= clock

\* ... the drive stays while a scan runs, ...
OnlineInv == scan.pc # "idle" => online

\* ... a directory the next snapshot may call unchanged has its files in the
\* catalog or still before the walk, which can then read it, ...
Trusted(d) == d \in dirs /\ scan.next[d] = mtime[d]

Awaited(d) ==
    /\ TreeWalk /\ d \in Within(scan.root)
    /\ \/ scan.pc = "capture"
       \/ scan.pc = "list" /\ Above[d] \cap scan.frontier # {}
       \/ scan.pc # "capture" /\ FilesOf(d) \subseteq catalog \cup scan.found

FilesInv ==
    \A d \in Dirs : Trusted(d) =>
        /\ FilesOf(d) \subseteq catalog \/ Awaited(d)
        /\ TreeWalk /\ d \in Within(scan.root) => Above[d] \cap unreadable = {}

\* ... its subdirectories recorded or still to be walked, ...
ChildrenInv ==
    \A d \in Dirs : Trusted(d) =>
        \A c \in Children(d) : \/ scan.next[c] # Absent \/ c \in scan.fresh
                               \/ scan.pc = "capture" /\ c \in scan.frontier

\* ... also the directory the quick check is about to record, ...
ChangedInv ==
    DirWalk /\ scan.root \in dirs /\ mtime[scan.root] = scan.at =>
        /\ \A c \in Children(scan.root) : scan.next[c] # Absent \/ c \in scan.fresh
        /\ scan.whole /\ ~(scan.pc = "list" /\ scan.root \in scan.frontier)
              => FilesOf(scan.root) \subseteq catalog \cup scan.found

\* ... and a file about to be deleted from the catalog is gone, or came back
\* and left its directory changed.
GoneInv ==
    \A f \in files :
        f \in scan.doomed \/ (scan.pc = "confirm" /\ f \in scan.found) =>
            snapshot.at[Home[f]] < mtime[Home[f]] /\ scan.next[Home[f]] < mtime[Home[f]]

SnapshotInv ==
    \A d \in dirs : snapshot.at[d] = mtime[d] =>
        /\ FilesOf(d) \subseteq catalog
        /\ \A c \in dirs \ {Root} :
              Parent[c] = d /\ c \notin Hidden(snapshot.key) => snapshot.at[c] # Absent

SoundInv ==
    /\ DiskInv /\ OnlineInv
    /\ FilesInv /\ ChildrenInv /\ ChangedInv
    /\ GoneInv /\ SnapshotInv

\* "an unplugged drive is never mistaken for an empty folder": a scan that
\* counts as complete has cataloged every file that was there throughout.
CompleteCatalogs == scan.pc = "done" /\ scan.complete => steady \ FilesIn(Hidden(scan.exclude)) \subseteq catalog

\* Why it is so.  A look at a known directory shows a file when the file is in
\* it, or in a directory of it that the snapshot does not know.
Leads(d, f) ==
    /\ d \in Above[Home[f]]
    /\ \/ d = Home[f]
       \/ \E c \in Above[Home[f]] \ {Root} : Parent[c] = d /\ scan.known[c] = Absent

\* The scan has still to come by a file.
Ahead(f) ==
    \/ \E d \in scan.todo : Leads(d, f)
    \/ scan.pc = "children" /\ Leads(scan.root, f)
    \/ Above[Home[f]] \cap scan.fresh # {}
    \/ scan.pc = "capture" /\ scan.root \in Above[Home[f]]
    \/ scan.pc = "list" /\ (IF scan.walk = "tree" THEN Above[Home[f]] ELSE {Home[f]}) \cap scan.frontier # {}
    \/ scan.pc \in {"list", "catalog"} /\ f \in scan.found

\* Nothing has been left out so far.
Unbroken == scan.complete /\ (scan.pc \in {"list", "catalog"} => scan.whole)

SteadyInv ==
    /\ steady \subseteq files /\ scan.doomed \cap steady = {}
    /\ scan.pc = "confirm" => scan.found \cap steady = {}
    /\ scan.pc # "idle" /\ Unbroken =>
          \A f \in steady \ FilesIn(Hidden(scan.exclude)) : f \in catalog \/ Ahead(f)

\* A quick check works from the snapshot, and walks what it does not know.
QuickInv ==
    /\ ~scan.full /\ scan.pc \notin {"idle", "done"} =>
          /\ scan.known = snapshot.at /\ snapshot.key = scan.exclude
    /\ \A c \in scan.fresh : scan.known[c] = Absent /\ scan.next[c] = Absent
    /\ scan.pc = "stat" \/ Checking => \A c \in Dirs : scan.next[c] # Absent => scan.known[c] # Absent
    /\ TreeWalk /\ ~scan.full => scan.known[scan.root] = Absent /\ scan.root \notin scan.fresh

\* A scan that counts as complete leaves no row of a file that was not there
\* at any time while it ran, ...
Cleaned == catalog \subseteq sighted \cup FilesIn(Hidden(scan.exclude))

\* ... when it walked everything ("Missing-file cleanup only follows a complete
\* walk"), ...
FullCleans == scan.pc = "done" /\ scan.complete /\ scan.full => Cleaned

\* ... because rows of files it has not come by are candidates until they are
\* deleted or their file is there after all.
Stale == catalog \ (sighted \cup FilesIn(Hidden(scan.exclude)))

CleanInv ==
    /\ scan.pc # "idle" => files \subseteq sighted
    /\ scan.seen \subseteq sighted
    /\ TreeWalk /\ scan.full => scan.root = Root
    /\ scan.full /\ scan.complete =>
          /\ scan.pc = "reconcile" => Stale \subseteq scan.candidates
          /\ scan.pc = "check" => Stale \subseteq scan.candidates \cup scan.doomed
          /\ scan.pc = "confirm" => \A f \in scan.found : Stale \subseteq scan.candidates \cup scan.doomed \cup {f}
          /\ scan.pc = "delete" => Stale \subseteq scan.doomed
          /\ scan.pc \in {"save", "done"} => Stale = {}

\* "an unreadable file is not evidence that it was deleted": a scan deletes
\* only rows of files that were missing while it ran.
DeletesOnlyMissing == [][ scan.pc = "delete" => catalog \ catalog' \subseteq Files \ steady ]_vars
=============================================================================
