----------------------------- MODULE MCClientJobs -----------------------------
(***************************************************************************)
(* Two halves of one exhaustive check: clients that create and stop jobs    *)
(* under request keys, and windows that view, edit and leave libraries      *)
(* while clients ask for scans and the process shuts down.                  *)
(***************************************************************************)
EXTENDS ClientJobs, TLC

VARIABLE half

MCVars == <<clientVars, half>>

Scan(library) ==
    [kind |-> "libraryScan", library |-> library,
     pendingOnly |-> FALSE, full |-> TRUE, limited |-> FALSE]

Thumbnails == [kind |-> "thumbnailGenerate", library |-> 1,
               pendingOnly |-> FALSE, full |-> FALSE, limited |-> FALSE]

ClientRequests ==
    {Scan(1), Thumbnails} \cup {FastScan(l, pendingOnly) : l \in Libraries, pendingOnly \in BOOLEAN}

\* Creates and stops of keyed requests; cancel_job and the legacy routes add
\* nothing to JobManager's own runs.
RequestHalf ==
    /\ \A c \in Callers : caller'[c].pc \in {"idle", "stopClear"}
    /\ shutdown' = "serving"
    /\ creating'.body \in {NoSpec, Scan(1), Thumbnails}
    /\ views' = NoEntries /\ viewer' = NoUpdate

\* Bound: in the half of the views a worker that has its result reports,
\* clears and finishes without interruption; JobsQueue interleaves these steps.
Epilogue == {"ok", "cancelled", "reported", "clearing", "cleared"}

\* Views and edits; the one scan a client asks for carries no key, and only
\* the thread of the views cancels.
ViewHalf ==
    /\ creating'.key = NoKey /\ creating'.body \in {NoSpec, FastScan(1, FALSE)}
    /\ requests' = NoEntries
    /\ \A c \in Clients : caller'[c] = Idle
    /\ record' = None
    /\ shutdown' \in {"serving", "flagged"}
    /\ shutdown' # shutdown => viewer.pc = "decided"
    /\ \A id \in JobIds : worker'[id] # "failed"
    /\ \A w \in DOMAIN views' : views'[w].aged => views'[w].library = NoLibrary
    /\ (\E id \in JobIds : worker[id] \in Epilogue) =>
           <<viewVars, caller, creating>>' = <<viewVars, caller, creating>>

WindowSymmetry == Permutations(Windows)

MCInit == ClientInit /\ half \in {"requests", "views"} /\ (half = "views" => record = None)

MCNext ==
    /\ ClientNext
    /\ IF half = "requests" THEN RequestHalf ELSE ViewHalf
    /\ UNCHANGED half

MCSpec == MCInit /\ [][MCNext]_MCVars
===============================================================================
