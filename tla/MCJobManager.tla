---------------------------- MODULE MCJobManager ----------------------------
EXTENDS JobManager

Scan(library, pendingOnly, full, limited) ==
    [kind |-> "libraryScan", library |-> library,
     pendingOnly |-> pendingOnly, full |-> full, limited |-> limited]

Other(kind) ==
    [kind |-> kind, library |-> 1, pendingOnly |-> FALSE, full |-> FALSE, limited |-> FALSE]

\* Scans of two libraries.
QueueRequests == { Scan(1, FALSE, FALSE, FALSE), Scan(2, FALSE, FALSE, FALSE) }

\* Two scans of one library that ask for different things.
MergeRequests == { Scan(1, TRUE, FALSE, FALSE), Scan(1, FALSE, TRUE, FALSE) }

\* ... and a thumbnail job, whose record may carry over a restart.
LiveRequests == MergeRequests \cup { Other("thumbnailGenerate") }

\* A thumbnail job and the jobs that may follow it.
ThumbnailRequests ==
    { Other("thumbnailGenerate"), Other("other"), Scan(1, FALSE, TRUE, FALSE) }

AllRequests == LiveRequests \cup ThumbnailRequests

-----------------------------------------------------------------------------
(* Two halves of one check.  In the quiet half no client cancels or stops,  *)
(* so a job ends by itself, with shutdown, or with the process; there is    *)
(* one more restart.  In the other half clients cancel and stop.            *)

VARIABLE quiet

MCVars == <<vars, quiet>>

MCInit == Init /\ quiet \in BOOLEAN

MCNext ==
    /\ Next
    /\ UNCHANGED quiet
    /\ IF quiet
       THEN /\ \A c \in Callers : caller'[c] = Idle
            /\ \A id \in JobIds : spec[id] = NoSpec => spec'[id] \in ThumbnailRequests \cup {NoSpec}
       ELSE /\ restarts' <= 1
            /\ \A id \in JobIds : spec[id] = NoSpec => spec'[id] \in LiveRequests \cup {NoSpec}

\* Everything the manager does, without the halves.
QueueInit == Init /\ quiet = FALSE
QueueSpec == QueueInit /\ [][Next /\ UNCHANGED quiet]_MCVars

\* What a quiet half leaves out is what clients do, which is never fair.
MCFairSpec == MCInit /\ [][MCNext]_MCVars /\ Fairness

\* LiveThumbnailRecorded of the quiet half: no thumbnail job loses its record
\* while it lives, over recoveries of recovered jobs.  A client's late cancel of
\* an older job may take it, which is why this half has none.
QuietThumbnailRecorded == quiet => LiveThumbnailRecorded

\* "shutdown retains it": a thumbnail job that only cancel_all cancelled keeps
\* its record for the next process, although its worker runs the usual epilogue.
QuietShutdownKeepsRecord ==
    [][ quiet => \A id \in JobIds : record = id /\ status[id] = "cancelled" => record' # None ]_MCVars

\* The record names the thumbnail job that has to be resumed: a worker that is
\* about to clear it never clears another job's, and shutdown keeps it.
RecordKept ==
    /\ [](WorkerClearsOwnRecord /\ QuietThumbnailRecorded)
    /\ QuietShutdownKeepsRecord
=============================================================================
