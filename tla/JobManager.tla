----------------------------- MODULE JobManager -----------------------------
(***************************************************************************)
(* The job manager of nicegal-server: admission, the one serialized        *)
(* worker, the queue of library scans, cancellation, shutdown, and the     *)
(* record that resumes an interrupted thumbnail job in the next process.   *)
(*                                                                         *)
(* The registry mutex makes start, finish and the first half of stop       *)
(* atomic.  What a thread does outside that mutex (the worker task, an     *)
(* HTTP thread inside cancel or stop, the shutdown task) is one action per *)
(* step, so every interleaving of those steps is explored.                 *)
(***************************************************************************)
EXTENDS Naturals, Sequences, FiniteSets

CONSTANTS
    Callers,            \* HTTP threads that may cancel a job or stop them all
    Libraries,          \* library ids
    Requests,           \* the job specs clients may submit
    MaxJobs,            \* bound: jobs one process admits
    MaxRetainedJobs,    \* MAX_RETAINED_JOBS, 32 in the code
    MaxRestarts         \* bound: process restarts

Kinds == {"libraryScan", "thumbnailGenerate", "other"}

\* What the manager reads of a spec.  `full` stands for every option that
\* merge ORs (scan_mode, force, retry_failed); `limited` for the two it
\* overwrites (max_dimensions, debug_limit).  `other` is every job kind that
\* neither queues nor is resumed.
JobSpec == [kind : Kinds, library : Libraries,
            pendingOnly : BOOLEAN, full : BOOLEAN, limited : BOOLEAN]

ASSUME ManagerAssumption ==
    /\ Requests \subseteq JobSpec
    /\ MaxJobs \in Nat /\ MaxRetainedJobs \in Nat /\ MaxRestarts \in Nat

JobIds  == 1..MaxJobs
None    == 0                    \* no active job; no resume record
Carried == MaxJobs + 1          \* a resume record an earlier process wrote

VARIABLES
    active, jobs, queued, nextId,       \* JobRegistry and next_id
    spec, status, cancelRequested,      \* one Job each
    worker,                             \* the task spawn_job starts for a job
    caller,                             \* HTTP threads inside cancel or stop
    shutdown, shutdownTodo,             \* cancel_all
    record,                             \* the pending-job file
    booted, restarts

registry   == <<active, jobs, queued, nextId>>
jobCells   == <<spec, status, cancelRequested>>
process    == <<shutdown, shutdownTodo, booted, restarts>>
vars == <<active, jobs, queued, nextId, spec, status, cancelRequested, worker,
          caller, shutdown, shutdownTodo, record, booted, restarts>>

Pending  == {"queued", "running", "cancelling"}
Terminal == {"cancelled", "completed", "failed"}
NoSpec   == [kind |-> "none"]
Idle     == [pc |-> "idle", id |-> None, queued |-> FALSE, active |-> FALSE]

ShuttingDown == shutdown # "serving"

RangeOf(q) == {q[i] : i \in DOMAIN q}

\* The worker tasks that have not returned from finish yet.
Live == {"spawned", "working", "ok", "cancelled", "failed", "reported", "clearing", "cleared"}

RegistryTypeOK ==
    /\ active \in JobIds \cup {None}
    /\ jobs \subseteq JobIds
    /\ queued \in Seq(JobIds)
    /\ nextId \in 1..(MaxJobs + 1)

JobTypeOK ==
    /\ spec \in [JobIds -> JobSpec \cup {NoSpec}]
    /\ status \in [JobIds -> Pending \cup Terminal \cup {"none"}]
    /\ cancelRequested \in [JobIds -> BOOLEAN]
    /\ worker \in [JobIds -> Live \cup {"none", "done"}]

CallerState ==
    [pc : {"idle", "lookedUp", "store", "publish", "clear", "remove", "dequeue", "stopClear"},
     id : JobIds \cup {None}, queued : BOOLEAN, active : BOOLEAN]

ProcessTypeOK ==
    /\ shutdown \in {"serving", "flagged", "cancelling"}
    /\ shutdownTodo \subseteq JobIds
    /\ record \in JobIds \cup {None, Carried}
    /\ booted \in BOOLEAN
    /\ restarts \in 0..MaxRestarts

TypeOK ==
    /\ RegistryTypeOK
    /\ JobTypeOK
    /\ caller \in [Callers -> CallerState]
    /\ ProcessTypeOK

\* A process may start on a data directory whose last process left a record.
Init ==
    /\ active = None /\ jobs = {} /\ queued = <<>> /\ nextId = 1
    /\ spec = [id \in JobIds |-> NoSpec]
    /\ status = [id \in JobIds |-> "none"]
    /\ cancelRequested = [id \in JobIds |-> FALSE]
    /\ worker = [id \in JobIds |-> "none"]
    /\ caller = [c \in Callers |-> Idle]
    /\ shutdown = "serving" /\ shutdownTodo = {}
    /\ booted = FALSE
    /\ record \in {None, Carried}
    /\ restarts = 0

-----------------------------------------------------------------------------
(* Admission: JobManager::start, one critical section of the registry.      *)

IsTerminal(id) == status[id] \in Terminal

\* Mutant: busy judged by status, as update_runtime does.
ActiveExists_ByStatus == active \in jobs /\ ~IsTerminal(active)

ActiveExists == active \in jobs

QueuesBehindActive(r) == r.kind = "libraryScan"

\* Spec::merge.
Merge(old, new) ==
    [old EXCEPT !.pendingOnly = @ /\ new.pendingOnly,
                !.full        = @ \/ new.full,
                !.limited     = @ \/ new.limited]

\* Mutant: a scan behind a running scan of its library is always queued anew.
QueuedFor_NotActive(library) ==
    {id \in RangeOf(queued) : spec[id].library = library /\ spec[active].library # library}

QueuedFor(library) ==
    {id \in RangeOf(queued) : spec[id].kind = "libraryScan" /\ spec[id].library = library}

MergeQueuedScan(r) ==
    /\ \E id \in QueuedFor(r.library) : spec' = [spec EXCEPT ![id] = Merge(@, r)]
    /\ UNCHANGED <<registry, status, cancelRequested, worker, record>>

\* evict_retained_jobs: drop the oldest removable jobs until there is room.
\* Mutant: eviction trusts the status and does not look at the queue.
Removable_QueueUnchecked == {id \in jobs : id # active /\ IsTerminal(id)}

Removable == {id \in jobs : id # active /\ id \notin RangeOf(queued) /\ IsTerminal(id)}
Retained ==
    {id \in jobs :
        ~ /\ id \in Removable
          /\ Cardinality({j \in Removable : j < id}) + MaxRetainedJobs <= Cardinality(jobs)}

Admit(r) ==
    /\ ActiveExists => QueuesBehindActive(r)
    /\ nextId <= MaxJobs
    /\ record' = IF r.kind = "thumbnailGenerate" THEN nextId ELSE record
    /\ nextId' = nextId + 1
    /\ jobs' = Retained \cup {nextId}
    /\ spec' = [spec EXCEPT ![nextId] = r]
    /\ status' = [status EXCEPT ![nextId] = "queued"]
    /\ \/ /\ active = None
          /\ active' = nextId
          /\ worker' = [worker EXCEPT ![nextId] = "spawned"]
          /\ UNCHANGED queued
       \/ /\ active # None
          /\ queued' = Append(queued, nextId)
          /\ UNCHANGED <<active, worker>>
    /\ UNCHANGED cancelRequested

\* Mutant: admission does not look at shutting_down.
Start_WhileShuttingDown(r) ==
    /\ booted
    /\ IF r.kind = "libraryScan" /\ QueuedFor(r.library) # {} THEN MergeQueuedScan(r) ELSE Admit(r)
    /\ UNCHANGED <<caller, process>>

Start(r) ==
    /\ booted /\ ~ShuttingDown
    /\ IF r.kind = "libraryScan" /\ QueuedFor(r.library) # {}
       THEN MergeQueuedScan(r)
       ELSE Admit(r)
    /\ UNCHANGED <<caller, process>>

-----------------------------------------------------------------------------
(* The worker task of spawn_job.                                            *)

\* Job::begin and the early return of run_job.
WorkerBegin(id) ==
    /\ worker[id] = "spawned"
    /\ status' = [status EXCEPT ![id] = IF cancelRequested[id] THEN "cancelled" ELSE "running"]
    /\ worker' = [worker EXCEPT ![id] = IF cancelRequested[id] THEN "cancelled" ELSE "working"]
    /\ UNCHANGED <<registry, spec, cancelRequested, caller, process, record>>

\* The blocking body and its maintenance epilogue return.  A body reports
\* cancellation only after it has seen the flag.
WorkerReturn(id, result) ==
    /\ worker[id] = "working"
    /\ result = "cancelled" => cancelRequested[id]
    /\ worker' = [worker EXCEPT ![id] = result]
    /\ UNCHANGED <<registry, jobCells, caller, process, record>>

\* Mutant: complete trusts the body's result and not the flag.
Completed_IgnoresFlag(id, cancelled) == IF cancelled THEN "cancelled" ELSE "completed"

\* Job::complete.
Completed(id, cancelled) ==
    IF cancelled \/ cancelRequested[id] THEN "cancelled" ELSE "completed"

\* complete or fail, under the lock of the job's data.
WorkerReport(id) ==
    /\ worker[id] \in {"ok", "cancelled", "failed"}
    /\ status' = [status EXCEPT ![id] =
           IF worker[id] = "failed" THEN "failed" ELSE Completed(id, worker[id] = "cancelled")]
    /\ worker' = [worker EXCEPT ![id] = "reported"]
    /\ UNCHANGED <<registry, spec, cancelRequested, caller, process, record>>

\* Mutant: the epilogue clears the record during shutdown too.
WorkerCheck_DuringShutdown(id) ==
    /\ worker[id] = "reported"
    /\ worker' = [worker EXCEPT ![id] =
           IF spec[id].kind = "thumbnailGenerate" THEN "clearing" ELSE "cleared"]
    /\ UNCHANGED <<registry, jobCells, caller, process, record>>

\* A finished thumbnail job clears its record, unless the process is ending:
\* it reads the shutdown flag, ...
WorkerCheck(id) ==
    /\ worker[id] = "reported"
    /\ worker' = [worker EXCEPT ![id] =
           IF spec[id].kind = "thumbnailGenerate" /\ ~ShuttingDown THEN "clearing" ELSE "cleared"]
    /\ UNCHANGED <<registry, jobCells, caller, process, record>>

\* ... and then removes the file.
WorkerClear(id) ==
    /\ worker[id] = "clearing"
    /\ worker' = [worker EXCEPT ![id] = "cleared"]
    /\ record' = None
    /\ UNCHANGED <<registry, jobCells, caller, process>>

\* finish: release the worker and hand it to the first queued job that is
\* still to run, dropping the terminal ones before it.
Waiting == {i \in DOMAIN queued : ~IsTerminal(queued[i])}

\* Mutant: the newest queued job is taken first.
FirstWaiting_Newest == {i \in Waiting : \A j \in Waiting : i >= j}

FirstWaiting == {i \in Waiting : \A j \in Waiting : i <= j}

\* Mutant: finish pops one entry instead of popping until one is to run.
WorkerFinish_PopOne(id) ==
    /\ worker[id] = "cleared"
    /\ IF queued = <<>> \/ IsTerminal(Head(queued))
       THEN /\ active' = None
            /\ worker' = [worker EXCEPT ![id] = "done"]
       ELSE /\ active' = Head(queued)
            /\ worker' = [worker EXCEPT ![id] = "done", ![Head(queued)] = "spawned"]
    /\ queued' = IF queued = <<>> THEN <<>> ELSE Tail(queued)
    /\ UNCHANGED <<jobs, nextId, jobCells, caller, process, record>>

WorkerFinish(id) ==
    /\ worker[id] = "cleared"
    /\ \/ /\ Waiting = {}
          /\ active' = IF active = id THEN None ELSE active
          /\ queued' = <<>>
          /\ worker' = [worker EXCEPT ![id] = "done"]
       \/ \E i \in FirstWaiting :
          /\ active' = queued[i]
          /\ queued' = SubSeq(queued, i + 1, Len(queued))
          /\ worker' = [worker EXCEPT ![id] = "done", ![queued[i]] = "spawned"]
    /\ UNCHANGED <<jobs, nextId, jobCells, caller, process, record>>

-----------------------------------------------------------------------------
(* Cancellation.                                                            *)

\* Mutants: a running job is cancelled at once; a terminal status is
\* overwritten; a queued job waits in cancelling for a worker.
Cancelling_AtOnce(s) == IF s \in Pending THEN "cancelled" ELSE s
Cancelling_Terminal(s) == IF s = "queued" THEN "cancelled" ELSE "cancelling"
Cancelling_Queued(s) == IF s \in Pending THEN "cancelling" ELSE s

\* What Job::request_cancel publishes under the lock of the job's data.
Cancelling(s) ==
    CASE s = "queued"                  -> "cancelled"
      [] s \in {"running", "cancelling"} -> "cancelling"
      [] OTHER                         -> s

\* JobManager::cancel(id): find the job, see whether it is queued, ...
CancelLookup(c, id) ==
    /\ caller[c].pc = "idle" /\ id \in jobs
    /\ caller' = [caller EXCEPT ![c] =
           [pc |-> "lookedUp", id |-> id, queued |-> status[id] = "queued", active |-> FALSE]]
    /\ UNCHANGED <<registry, jobCells, worker, process, record>>

\* ... read its status again, ...
CancelRead(c) ==
    /\ caller[c].pc = "lookedUp"
    /\ caller' = [caller EXCEPT ![c].pc = "store", ![c].active = ~IsTerminal(caller[c].id)]
    /\ UNCHANGED <<registry, jobCells, worker, process, record>>

\* ... request_cancel: the flag first, ...
CancelStore(c) ==
    /\ caller[c].pc = "store"
    /\ cancelRequested' = [cancelRequested EXCEPT ![caller[c].id] = TRUE]
    /\ caller' = [caller EXCEPT ![c].pc = "publish"]
    /\ UNCHANGED <<registry, spec, status, worker, process, record>>

\* ... then the status, ...
CancelPublish(c) ==
    /\ caller[c].pc = "publish"
    /\ status' = [status EXCEPT ![caller[c].id] = Cancelling(@)]
    /\ caller' = [caller EXCEPT ![c].pc = "clear"]
    /\ UNCHANGED <<registry, spec, cancelRequested, worker, process, record>>

\* What cancel does after the record: a job read as queued leaves the queue.
AfterClear(c) ==
    caller' = IF caller[c].queued THEN [caller EXCEPT ![c].pc = "dequeue"]
                                  ELSE [caller EXCEPT ![c] = Idle]

\* ... the shutdown flag, for a thumbnail job that was active when it was read, ...
CancelClear(c) ==
    /\ caller[c].pc = "clear"
    /\ IF caller[c].active /\ ~ShuttingDown /\ spec[caller[c].id].kind = "thumbnailGenerate"
       THEN caller' = [caller EXCEPT ![c].pc = "remove"]
       ELSE AfterClear(c)
    /\ UNCHANGED <<registry, jobCells, worker, process, record>>

\* ... its record, ...
CancelRemove(c) ==
    /\ caller[c].pc = "remove"
    /\ record' = None
    /\ AfterClear(c)
    /\ UNCHANGED <<registry, jobCells, worker, process>>

\* ... and the queue entry of a job that was queued when it was read.
CancelDequeue(c) ==
    /\ caller[c].pc = "dequeue"
    /\ IF \E i \in DOMAIN queued : queued[i] = caller[c].id
       THEN \E i \in DOMAIN queued :
               /\ queued[i] = caller[c].id
               /\ queued' = SubSeq(queued, 1, i - 1) \o SubSeq(queued, i + 1, Len(queued))
       ELSE UNCHANGED queued
    /\ caller' = [caller EXCEPT ![c] = Idle]
    /\ UNCHANGED <<active, jobs, nextId, jobCells, worker, process, record>>

\* JobManager::stop.  The registry is locked for the whole transaction; only
\* the active job's worker can move meanwhile, and what it does between the
\* flag and the status ends in the same state, so the transaction is one step.
Stop(c) ==
    LET stopped == {id \in jobs : ~IsTerminal(id)} IN
    /\ booted /\ caller[c].pc = "idle"
    /\ cancelRequested' = [id \in JobIds |-> cancelRequested[id] \/ id \in stopped]
    /\ status' = [id \in JobIds |-> IF id \in stopped THEN Cancelling(status[id]) ELSE status[id]]
    /\ queued' = <<>>
    /\ caller' = IF \E id \in stopped : spec[id].kind = "thumbnailGenerate"
                 THEN [caller EXCEPT ![c].pc = "stopClear"] ELSE caller
    /\ UNCHANGED <<active, jobs, nextId, spec, worker, process, record>>

\* stop clears the record after it has released the registry.
StopClear(c) ==
    /\ caller[c].pc = "stopClear"
    /\ record' = None
    /\ caller' = [caller EXCEPT ![c] = Idle]
    /\ UNCHANGED <<registry, jobCells, worker, process>>

-----------------------------------------------------------------------------
(* Shutdown (cancel_all) and the next process.                              *)

ShutdownFlag ==
    /\ booted /\ shutdown = "serving"
    /\ shutdown' = "flagged"
    /\ UNCHANGED <<registry, jobCells, worker, caller, shutdownTodo, record, booted, restarts>>

ShutdownSnapshot ==
    /\ shutdown = "flagged"
    /\ shutdown' = "cancelling"
    /\ shutdownTodo' = jobs
    /\ UNCHANGED <<registry, jobCells, worker, caller, record, booted, restarts>>

ShutdownCancel(id) ==
    /\ id \in shutdownTodo
    /\ shutdownTodo' = shutdownTodo \ {id}
    /\ cancelRequested' = [cancelRequested EXCEPT ![id] = TRUE]
    /\ status' = [status EXCEPT ![id] = Cancelling(@)]
    /\ UNCHANGED <<registry, spec, worker, caller, shutdown, record, booted, restarts>>

\* The process ends, at any moment; only the record survives it.
Restart ==
    /\ restarts < MaxRestarts
    /\ restarts' = restarts + 1
    /\ active' = None /\ jobs' = {} /\ queued' = <<>> /\ nextId' = 1
    /\ spec' = [id \in JobIds |-> NoSpec]
    /\ status' = [id \in JobIds |-> "none"]
    /\ cancelRequested' = [id \in JobIds |-> FALSE]
    /\ worker' = [id \in JobIds |-> "none"]
    /\ caller' = [c \in Callers |-> Idle]
    /\ shutdown' = "serving" /\ shutdownTodo' = {}
    /\ booted' = FALSE
    /\ record' = IF record = None THEN None ELSE Carried

\* Mutant: recovery consumes the record.
Recover_Consumes ==
    /\ ~booted
    /\ booted' = TRUE
    /\ record' = None
    /\ \/ /\ record = None
          /\ UNCHANGED <<registry, jobCells, worker>>
       \/ /\ record # None /\ active' = 1 /\ jobs' = {1} /\ nextId' = 2
          /\ \E r \in Requests : r.kind = "thumbnailGenerate" /\ spec' = [spec EXCEPT ![1] = r]
          /\ status' = [status EXCEPT ![1] = "queued"]
          /\ worker' = [worker EXCEPT ![1] = "spawned"]
          /\ UNCHANGED <<queued, cancelRequested>>
    /\ UNCHANGED <<caller, shutdown, shutdownTodo, restarts>>

\* recover, before the server accepts connections.
Recover ==
    /\ ~booted
    /\ booted' = TRUE
    /\ \/ /\ record = None
          /\ UNCHANGED <<registry, jobCells, worker, record>>
       \/ /\ record # None
          /\ \E r \in Requests : r.kind = "thumbnailGenerate" /\ Admit(r)
    /\ UNCHANGED <<caller, shutdown, shutdownTodo, restarts>>

-----------------------------------------------------------------------------

WorkerStep(id) ==
    \/ WorkerBegin(id)
    \/ \E result \in {"ok", "cancelled", "failed"} : WorkerReturn(id, result)
    \/ WorkerReport(id)
    \/ WorkerCheck(id) \/ WorkerClear(id)
    \/ WorkerFinish(id)

CallerStep(c) ==
    \/ CancelRead(c) \/ CancelStore(c) \/ CancelPublish(c)
    \/ CancelClear(c) \/ CancelRemove(c) \/ CancelDequeue(c) \/ StopClear(c)

ShutdownStep == ShutdownSnapshot \/ \E id \in JobIds : ShutdownCancel(id)

Next ==
    \/ \E r \in Requests : Start(r)
    \/ \E id \in JobIds : WorkerStep(id)
    \/ \E c \in Callers : CallerStep(c) \/ Stop(c) \/ \E id \in JobIds : CancelLookup(c, id)
    \/ ShutdownFlag \/ ShutdownStep
    \/ Restart \/ Recover

Spec == Init /\ [][Next]_vars

\* The runtime schedules every spawned task and job bodies return; clients
\* and the end of the process are not obliged to happen.
Fairness ==
    /\ \A id \in JobIds : WF_vars(WorkerStep(id))
    /\ \A c \in Callers : WF_vars(CallerStep(c))
    /\ WF_vars(ShutdownStep)
    /\ WF_vars(Recover)

FairSpec == Spec /\ Fairness

-----------------------------------------------------------------------------
(* Safety.                                                                  *)

\* finish and start look every queued id up in `jobs` and panic when it is
\* gone.  Eviction may run while a cancelled job still sits in the queue
\* (cancel publishes the status before it takes the registry), so terminal
\* does not imply removable.
QueuedJobsRetained ==
    /\ RangeOf(queued) \subseteq jobs
    /\ active # None => active \in jobs

\* "Each library keeps one queued scan": whatever merges, cancels and stops
\* interleave, the queue never holds two scans of one library, and nothing
\* but scans.
OneQueuedScanPerLibrary ==
    /\ \A i \in DOMAIN queued : spec[queued[i]].kind = "libraryScan"
    /\ \A i, j \in DOMAIN queued :
           spec[queued[i]].library = spec[queued[j]].library => i = j

\* A scan is queued only behind an active job whose finish will look at the
\* queue; an idle manager with a queue would never run it.
NoStrandedQueue == queued # <<>> => active # None /\ worker[active] \in Live

\* update_runtime and the job list call the manager idle when no active job
\* has a nonterminal status: whenever a body works, it is the active job's
\* and its published status says so.
WorkIsVisible ==
    \A id \in JobIds : worker[id] = "working" =>
        active = id /\ id \in jobs /\ status[id] \in {"running", "cancelling"}

\* cancel_all: once shutdown has visited the jobs it saw, every job ever
\* admitted is cancelled or over, so none was admitted behind its back.
ShutdownReachesEveryJob ==
    shutdown = "cancelling" /\ shutdownTodo = {} =>
        \A id \in JobIds : id < nextId => cancelRequested[id] \/ IsTerminal(id)

\* A worker about to clear the resume record finds its own record or none:
\* the next thumbnail job is admitted only after finish.
WorkerClearsOwnRecord ==
    \A id \in JobIds :
        worker[id] \in {"reported", "clearing"} /\ spec[id].kind = "thumbnailGenerate"
            => record \in {None, id}

\* The event stream closes at the first terminal snapshot, so no snapshot
\* may follow it: a terminal status never changes within a process.
TerminalIsFinal ==
    [][ \A id \in JobIds : IsTerminal(id) => status'[id] \in {status[id], "none"} ]_vars

\* A job whose cancellation was requested before it ended never reports
\* completed, whichever of the worker's steps the request fell between.
CancelledNeverCompletes ==
    [][ \A id \in JobIds : cancelRequested[id] /\ status'[id] = "completed"
            => status[id] = "completed" ]_vars

\* "Rust records accepted thumbnail-backfill requests ... and resumes them on
\* startup": a thumbnail job nobody cancelled has its record until it ends.
LiveThumbnailRecorded ==
    \A id \in JobIds :
        /\ worker[id] \in {"spawned", "working"}
        /\ spec[id].kind = "thumbnailGenerate"
        /\ ~cancelRequested[id]
        => record = id

-----------------------------------------------------------------------------
(* The inductive invariant of the proofs.                                   *)

\* A job's place in the manager and its status agree.
JobState(id) ==
    /\ id >= nextId => worker[id] = "none"
    /\ id >= nextId <=> status[id] = "none"
    /\ worker[id] \in Live <=> active = id
    /\ worker[id] = "none" => status[id] \in {"none", "queued", "cancelled"}
    /\ worker[id] = "none" /\ status[id] = "queued" => id \in RangeOf(queued)
    /\ worker[id] = "spawned" => status[id] \in {"queued", "cancelled"}
    /\ worker[id] \in {"working", "ok", "failed"} => status[id] \in {"running", "cancelling"}
    /\ worker[id] = "cancelled" => status[id] \in {"running", "cancelling", "cancelled"}
    /\ worker[id] \in {"reported", "clearing", "cleared", "done"} => IsTerminal(id)
    /\ worker[id] \in {"none", "spawned", "cancelled"} /\ status[id] = "cancelled"
           => cancelRequested[id]

QueueEntry(i) ==
    /\ active < queued[i] /\ queued[i] < nextId
    /\ queued[i] \in jobs
    /\ worker[queued[i]] = "none" /\ status[queued[i]] # "none"
    /\ \A j \in DOMAIN queued : i < j => queued[i] < queued[j]

CallerInv(c) ==
    /\ caller[c].pc \notin {"idle", "stopClear"} => caller[c].id \in 1..(nextId - 1)
    /\ caller[c].pc = "publish" => cancelRequested[caller[c].id]
    /\ caller[c].pc \in {"clear", "remove", "dequeue"} => status[caller[c].id] # "queued"

\* The queue holds admitted jobs in the order of their ids, behind the active
\* job; exactly the active job has a live worker; an idle manager has no
\* queue; a thread that is about to publish a cancellation has set the flag, and
\* one that is about to dequeue a job has published it.
RegistryInv ==
    /\ TypeOK
    /\ active < nextId
    /\ jobs \subseteq 1..(nextId - 1)
    /\ active # None => active \in jobs
    /\ active = None => queued = <<>>
    /\ \A i \in DOMAIN queued : QueueEntry(i)
    /\ \A id \in JobIds : JobState(id)
    /\ shutdownTodo \subseteq 1..(nextId - 1)
    /\ \A c \in Callers : CallerInv(c)

\* What eviction dropped is over; a process that ends has booted, and cancel_all
\* has each admitted job still to visit, or has cancelled it, or found it over.
EvictedOver == \A id \in JobIds : id < nextId /\ id \notin jobs => IsTerminal(id)
ShutdownBooted == ShuttingDown => booted
ShutdownCovers ==
    shutdown = "cancelling" =>
        \A id \in JobIds : id < nextId => id \in shutdownTodo \/ cancelRequested[id] \/ IsTerminal(id)

QueuedOncePerLibrary ==
    /\ \A id \in RangeOf(queued) : spec[id].kind = "libraryScan"
    /\ \A id, other \in RangeOf(queued) : spec[id].library = spec[other].library => id = other

\* The record is the active thumbnail job's, or gone.
RecordOwned == active # None /\ spec[active].kind = "thumbnailGenerate" => record \in {None, active}

AdmissionInv == EvictedOver /\ ShutdownBooted /\ ShutdownCovers /\ QueuedOncePerLibrary /\ RecordOwned

-----------------------------------------------------------------------------
(* Liveness.                                                                *)

\* Every admitted job reaches a terminal status, or its process ends: no
\* cancellation, merge, stop or shutdown leaves one queued or cancelling.
EveryJobEnds ==
    \A id \in JobIds : (status[id] \in Pending) ~> (status[id] \notin Pending)

-----------------------------------------------------------------------------
(* Refinement.                                                              *)

PhaseOf(s) ==
    CASE s = "none"                       -> "new"
      [] s = "queued"                     -> "waiting"
      [] s \in {"running", "cancelling"}  -> "running"
      [] s \in Terminal                   -> "ended"

phase == [id \in JobIds |-> PhaseOf(status[id])]

Executor == INSTANCE SerialExecutor WITH Jobs <- JobIds

\* The manager is a serial executor: jobs begin one at a time, in the order
\* in which they were accepted, and once each.
SerialExecution == Executor!Spec
=============================================================================
