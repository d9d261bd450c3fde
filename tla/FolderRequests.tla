--------------------------- MODULE FolderRequests ---------------------------
(***************************************************************************)
(* The scan requests of one library's folders: what an edit of the library *)
(* asks to be scanned, what a scan job reads when it starts, and what it   *)
(* writes back when a walk fails, when the job stops, and when every stage *)
(* has finished.  Edits and cancellations come from HTTP threads while the *)
(* scan runs, and every write is a transaction of its own, so each is one  *)
(* action.  What happens inside a walk is DirectoryScan's subject: here a  *)
(* walk only succeeds or ends with one of the outcomes the code records.   *)
(***************************************************************************)
EXTENDS Naturals, FiniteSets

CONSTANTS
    Paths,          \* directories a definition may name, in position order
    Below,          \* Below[p]: p itself and the Paths inside it
    Definitions,    \* the definitions clients may save
    Limits,         \* whether a scan may carry a debug limit
    MaxRequests     \* bound: request numbers one library hands out

SearchOptions == {"ocr", "image", "videos"}

Definition ==
    [include : SUBSET Paths, exclude : SUBSET Paths, options : SUBSET SearchOptions]

ASSUME FolderAssumption ==
    /\ Paths \subseteq Nat /\ IsFiniteSet(Paths)
    /\ Below \in [Paths -> SUBSET Paths]
    /\ \A p \in Paths : p \in Below[p]
    /\ Definitions \subseteq Definition
    /\ Limits \subseteq BOOLEAN
    /\ MaxRequests \in Nat

\* Directories nest.
ASSUME NestingAssumption ==
    \A p, q \in Paths : p \in Below[q] => Below[p] \subseteq Below[q] /\ (q \in Below[p] => p = q)

VARIABLES
    library,    \* "none", "present" or "deleted": ids are never reused
    rows,       \* the included rows of library_folders
    exclude,    \* its excluded rows
    options,    \* the search options of the library
    sequence,   \* libraries.scan_sequence
    scan,       \* the running libraryScan job
    marks,      \* threads inside record_stopped_scan
    covered     \* history: what the last complete scan of a folder saw

stored == <<library, exclude, options, sequence>>
vars == <<library, rows, exclude, options, sequence, scan, marks, covered>>

Outcomes == {"unavailable", "incomplete", "cancelled", "failed"}
Threads  == {"worker", "client"}

NoRow == [requested |-> 0, completed |-> 0, outcome |-> "excluded"]

Included == {p \in Paths : rows[p] # NoRow}

\* "For included folders a scan is outstanding while scan_requested >
\* scan_completed".
PendingRow(row) == row.requested > row.completed
Pending(p) == p \in Included /\ PendingRow(rows[p])

\* What the enabled options index: videos only as part of image search.
Indexes(opts) == IF "image" \in opts THEN opts ELSE opts \ {"videos"}

NotScanning == [pc |-> "idle", read |-> [p \in Paths |-> 0], exclude |-> {}, indexes |-> {},
                limited |-> FALSE, walks |-> {}, left |-> {}, done |-> {}, outcome |-> "none"]
NoMarks     == [left |-> {}, outcome |-> "cancelled"]
Uncovered   == [exclude |-> Paths, indexes |-> {}]

Row == [requested : Nat, completed : Nat, outcome : Outcomes \cup {"none", "excluded"}]

Scan ==
    [pc : {"idle", "walk", "fail", "index", "complete", "stop", "unread", "down"},
     read : [Paths -> Nat], exclude : SUBSET Paths, indexes : SUBSET SearchOptions,
     limited : BOOLEAN, walks : SUBSET Paths, left : SUBSET Paths, done : SUBSET Paths,
     outcome : Outcomes \cup {"none"}]

TypeOK ==
    /\ library \in {"none", "present", "deleted"}
    /\ rows \in [Paths -> Row]
    /\ exclude \subseteq Paths /\ options \subseteq SearchOptions
    /\ sequence \in Nat
    /\ scan \in Scan
    /\ marks \in [Threads -> [left : SUBSET (Paths \X Nat), outcome : Outcomes]]
    /\ covered \in [Paths -> [exclude : SUBSET Paths, indexes : SUBSET SearchOptions]]

-----------------------------------------------------------------------------
(* Saving a definition: create_library and update_library.                  *)

\* LibraryDefinition::validate.
Valid(def) ==
    /\ def.include # {}
    /\ def.include \cap def.exclude = {}
    /\ \A e \in def.exclude : \E p \in def.include : e \in Below[p]
    /\ \A p \in def.include : \A e \in def.exclude : p \notin Below[e]

\* Mutant: an exclusion that is removed reveals nothing.
Rescan_NotRevealed(def) ==
    {p \in def.include : ~(Indexes(def.options) \subseteq Indexes(options))}

\* Folders whose visible contents can grow: every include when an option is
\* switched on, and includes that contained a removed exclusion.
Rescan(def) ==
    {p \in def.include :
        \/ ~(Indexes(def.options) \subseteq Indexes(options))
        \/ \E e \in exclude \ def.exclude : e \in Below[p]}

Asked(def) == (def.include \ Included) \cup Rescan(def)

\* Mutant: a folder that is added starts from its own count, not from the
\* library's sequence.
NumberOf_PerFolder(def, p) == rows[p].requested + 1

\* Request numbers follow the sequence, in position order.
NumberOf(def, p) == sequence + Cardinality({q \in Asked(def) : q <= p})

\* write_folders: rows that stay keep their scan state, an asked folder gets
\* a number no row ever held.
Written(def, p) ==
    IF p \notin def.include THEN NoRow
    ELSE LET old == IF p \in Included THEN rows[p]
                    ELSE [requested |-> 0, completed |-> 0, outcome |-> "none"]
         IN IF p \in Asked(def)
            THEN [old EXCEPT !.requested = NumberOf(def, p), !.outcome = "none"]
            ELSE old

\* Both save in one transaction; an equal definition changes nothing.
Save(def) ==
    /\ library # "deleted" /\ Valid(def)
    /\ <<def.include, def.exclude, def.options>> # <<Included, exclude, options>>
    /\ sequence + Cardinality(Asked(def)) <= MaxRequests
    /\ library' = "present"
    /\ rows' = [p \in Paths |-> Written(def, p)]
    /\ exclude' = def.exclude /\ options' = def.options
    /\ sequence' = sequence + Cardinality(Asked(def))
    /\ UNCHANGED <<scan, marks, covered>>

\* delete_library.
Delete ==
    /\ library = "present" /\ library' = "deleted"
    /\ rows' = [p \in Paths |-> NoRow]
    /\ exclude' = {} /\ options' = {}
    /\ UNCHANGED sequence
    /\ UNCHANGED <<scan, marks, covered>>

-----------------------------------------------------------------------------
(* The scan job: library_scan::run.                                         *)

\* scan_folders: the selected folders, and the walks that cover them.
Selected(pendingOnly) == {p \in Included : pendingOnly => Pending(p)}
Outer(selected) == {w \in selected : \A o \in selected : o # w => w \notin Below[o]}

\* Mutant: a walk answers for its own folder only.
Folders_OwnOnly(w) == {p \in {w} : scan.read[p] # 0}

\* The folders one walk covers: its own and the selected ones nested in it.
Folders(w) == {p \in Below[w] : scan.read[p] # 0}

\* The definition is read once; the job notes every selected request number.
\* A debug limit can cut the index stage only in a library with separate
\* folders: one walk that is complete found no more files than the limit.
ScanStart(pendingOnly, limited) ==
    /\ scan.pc = "idle" /\ library = "present"
    /\ scan' = [NotScanning EXCEPT
           !.pc = "walk",
           !.read = [p \in Paths |-> IF p \in Selected(pendingOnly) THEN rows[p].requested ELSE 0],
           !.exclude = exclude, !.indexes = Indexes(options),
           !.limited = limited /\ \E p, q \in Outer(Included) : p # q,
           !.walks = Outer(Selected(pendingOnly))]
    /\ UNCHANGED <<stored, rows, marks, covered>>

\* A walk whose catalog stage and cleanup succeed.
WalkSucceeds(w) ==
    /\ scan.pc = "walk" /\ w \in scan.walks
    /\ scan' = [scan EXCEPT !.walks = @ \ {w}, !.done = @ \cup {w}]
    /\ UNCHANGED <<stored, rows, marks, covered>>

\* A walk that cannot be finished, and what is recorded for each of its folders.
WalkFails(w, outcome) ==
    /\ scan.pc = "walk" /\ w \in scan.walks
    /\ scan' = [scan EXCEPT !.pc = "fail", !.walks = @ \ {w}, !.left = Folders(w),
                            !.outcome = outcome]
    /\ UNCHANGED <<stored, rows, marks, covered>>

\* fail_folder_scan, whatever request the row now holds.
FailFolder(p) ==
    /\ scan.pc = "fail" /\ p \in scan.left
    /\ rows' = IF p \in Included THEN [rows EXCEPT ![p].outcome = scan.outcome] ELSE rows
    /\ scan' = [scan EXCEPT !.left = @ \ {p}]
    /\ UNCHANGED <<stored, marks, covered>>

FailedAll ==
    /\ scan.pc = "fail" /\ scan.left = {}
    /\ scan' = [scan EXCEPT !.pc = "walk", !.outcome = "none"]
    /\ UNCHANGED <<stored, rows, marks, covered>>

IndexStage ==
    /\ scan.pc = "walk" /\ scan.walks = {}
    /\ scan' = [scan EXCEPT !.pc = "index"]
    /\ UNCHANGED <<stored, rows, marks, covered>>

\* The index stage selects what the whole library lacks.  A debug limit may
\* truncate the selection, and the stage succeeds all the same.
Indexed ==
    /\ scan.pc = "index"
    /\ \E reached \in BOOLEAN :
          /\ reached => scan.limited
          /\ scan' = [scan EXCEPT !.pc = "complete", !.indexes = IF reached THEN {} ELSE @,
                                  !.left = UNION {Folders(w) : w \in scan.done}]
    /\ UNCHANGED <<stored, rows, marks, covered>>

\* Mutant: the folder's present request is completed, not the one read.
CompletedRow_Present(p) ==
    [rows[p] EXCEPT !.completed = rows[p].requested, !.outcome = "none"]

\* complete_folder_scan and complete_folder_check.
CompletedRow(p) ==
    [rows[p] EXCEPT !.completed = IF @ > scan.read[p] THEN @ ELSE scan.read[p],
                    !.outcome = "none"]

CompleteFolder(p) ==
    /\ scan.pc = "complete" /\ p \in scan.left
    /\ rows' = IF p \in Included THEN [rows EXCEPT ![p] = CompletedRow(p)] ELSE rows
    /\ scan' = [scan EXCEPT !.left = @ \ {p}]
    /\ covered' = [covered EXCEPT ![p] = [exclude |-> scan.exclude, indexes |-> scan.indexes]]
    /\ UNCHANGED <<stored, marks>>

-----------------------------------------------------------------------------
(* Stopping: record_stopped_scan.                                           *)

\* The folders and request numbers the scan noted when it started ...
Attempted == {<<p, scan.read[p]>> : p \in {q \in Paths : scan.read[q] # 0}}

\* ... or, when it noted none, every request that is pending now.
PendingNow == {<<p, rows[p].requested>> : p \in {q \in Paths : Pending(q)}}

ToMark == IF Attempted = {} THEN PendingNow ELSE Attempted

\* An error or a cancellation ends the job: the check points of the walks and
\* of the index stage, or a statement that fails anywhere.
ScanStops(outcome) ==
    /\ scan.pc \in {"walk", "fail", "index", "complete"}
    /\ outcome = "cancelled" => scan.pc \in {"walk", "index"}
    /\ scan' = [scan EXCEPT !.pc = "stop", !.left = {}]
    /\ marks' = [marks EXCEPT !["worker"] = [left |-> ToMark, outcome |-> outcome]]
    /\ UNCHANGED <<stored, rows, covered>>

\* A job cancelled before it read the definition: by its worker, ...
ScanNeverRead ==
    /\ scan.pc = "idle"
    /\ scan' = [scan EXCEPT !.pc = "unread"]
    /\ marks' = [marks EXCEPT !["worker"] = [left |-> PendingNow, outcome |-> "cancelled"]]
    /\ UNCHANGED <<stored, rows, covered>>

\* ... or, while it is queued behind another job, by the thread that cancels it.
CancelQueued ==
    /\ scan.pc # "down" /\ marks["client"].left = {}
    /\ marks' = [marks EXCEPT !["client"] = [left |-> PendingNow, outcome |-> "cancelled"]]
    /\ UNCHANGED <<stored, rows, scan, covered>>

\* fail_folder_scan_request: only the request that was attempted, and only
\* while nothing is recorded for it.
Marked(p, n, outcome) ==
    IF Pending(p) /\ rows[p].requested = n /\ rows[p].outcome = "none"
    THEN [rows[p] EXCEPT !.outcome = outcome]
    ELSE rows[p]

Mark(t) ==
    \E m \in marks[t].left :
        /\ rows' = [rows EXCEPT ![m[1]] = Marked(m[1], m[2], marks[t].outcome)]
        /\ marks' = [marks EXCEPT ![t].left = @ \ {m}]
        /\ UNCHANGED <<stored, scan, covered>>

\* The job is over.
ScanEnds ==
    /\ \/ scan.pc = "complete" /\ scan.left = {}
       \/ scan.pc \in {"stop", "unread"} /\ marks["worker"].left = {}
    /\ scan' = NotScanning
    /\ UNCHANGED <<stored, rows, marks, covered>>

\* The process ends, at any moment, and another starts: the database survives.
Crash ==
    /\ scan.pc # "down"
    /\ scan' = [NotScanning EXCEPT !.pc = "down"]
    /\ marks' = [t \in Threads |-> NoMarks]
    /\ UNCHANGED <<stored, rows, covered>>

Boot ==
    /\ scan.pc = "down"
    /\ scan' = NotScanning
    /\ UNCHANGED <<stored, rows, marks, covered>>

-----------------------------------------------------------------------------

Init ==
    /\ rows = [p \in Paths |-> NoRow]
    /\ library = "none"
    /\ exclude = {} /\ options = {} /\ sequence = 0
    /\ scan = NotScanning
    /\ marks = [t \in Threads |-> NoMarks]
    /\ covered = [p \in Paths |-> Uncovered]

ScanStep ==
    \/ \E w \in Paths : WalkSucceeds(w)
                        \/ \E outcome \in Outcomes \ {"cancelled"} : WalkFails(w, outcome)
    \/ \E p \in Paths : FailFolder(p) \/ CompleteFolder(p)
    \/ FailedAll \/ IndexStage \/ Indexed
    \/ Mark("worker") \/ ScanEnds

Next ==
    \/ \E def \in Definitions : Save(def)
    \/ Delete
    \/ \E pendingOnly \in BOOLEAN, limited \in Limits : ScanStart(pendingOnly, limited)
    \/ ScanStep
    \/ \E outcome \in {"cancelled", "failed"} : ScanStops(outcome)
    \/ ScanNeverRead \/ CancelQueued \/ Mark("client")
    \/ Crash \/ Boot

Spec == Init /\ [][Next]_vars

-----------------------------------------------------------------------------
(* Properties.                                                              *)

\* A scan that excluded no more of p than the library does now, and that
\* indexed whatever the library now asks for, saw all that p shows.
Covers(seen, p) ==
    /\ \A e \in seen.exclude \cap Below[p] : e \in exclude
    /\ Indexes(options) \subseteq seen.indexes

\* "A request made while the scan runs stays pending": whatever edits,
\* scans, cancellations and crashes interleave, a folder that is not pending
\* was completely scanned with a definition that shows and indexes at least
\* what the present one does.
SettledIsCovered == \A p \in Included : ~Pending(p) => Covers(covered[p], p)

\* What a folder's row and the running scan know of each other.
RowInv(p) ==
    /\ rows[p].requested >= 1 /\ rows[p].requested <= sequence
    /\ rows[p].completed <= rows[p].requested
    /\ \A q \in Included : rows[p].requested = rows[q].requested => p = q

ScanInv(p) ==
    /\ scan.read[p] <= sequence
    /\ p \in scan.left => scan.read[p] # 0
    /\ p \in Included =>
          /\ scan.read[p] <= rows[p].requested
          /\ scan.read[p] \notin {0, rows[p].requested} => Pending(p)
          /\ scan.read[p] = rows[p].requested /\ ~scan.limited => Covers(scan, p)

\* "Numbers are never reused, so a scan that started before a folder was
\* removed and re-added cannot complete the re-added folder's request": the
\* requests of a library are distinct and never exceed its sequence, no
\* folder is completed beyond its request, and a running scan either holds a
\* folder's present request, and then a definition that still covers the
\* folder, or an older one, and then the folder is still pending.
FolderInv ==
    /\ TypeOK
    /\ \A p \in Included : RowInv(p)
    /\ \A p \in Paths : ScanInv(p)

\* A scan that ends, well or badly, leaves a verdict on every request it
\* took up: completed, or why not, unless an edit asked again meanwhile.
ScanLeavesVerdict ==
    \/ scan.pc = "complete" /\ scan.left = {}
    \/ scan.pc = "stop" /\ marks["worker"].left = {}
    => \A p \in Included :
           scan.read[p] = rows[p].requested => ~Pending(p) \/ rows[p].outcome # "none"

\* The inductive invariant behind it: a request that has no verdict yet is in a
\* walk ahead, or behind and not cleared, or in what is still to be written.
WithoutVerdict(p) ==
    p \in Included /\ Pending(p) /\ scan.read[p] = rows[p].requested /\ rows[p].outcome = "none"

VerdictAhead(p) ==
    \/ scan.pc \in {"walk", "fail", "index"} /\ \E w \in scan.walks \cup scan.done : p \in Folders(w)
    \/ scan.pc \in {"fail", "complete"} /\ p \in scan.left
    \/ scan.pc = "stop" /\ <<p, scan.read[p]>> \in marks["worker"].left

VerdictInv ==
    /\ scan.pc \in {"idle", "unread", "down"} => \A p \in Paths : scan.read[p] = 0
    /\ scan.pc = "fail" => scan.outcome \in Outcomes
    /\ scan.pc = "index" => scan.walks = {}
    /\ \A p \in Paths : WithoutVerdict(p) => VerdictAhead(p)
=============================================================================
