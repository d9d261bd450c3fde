-------------------------- MODULE ClientJobsProofs --------------------------
(***************************************************************************)
(* Machine-checked proofs about the job manager behind its routes and its   *)
(* views: both use it only through its operations, a request key starts one *)
(* job, and a library on screen keeps its scan while one that nobody shows  *)
(* keeps none, for any number of clients, windows, keys and jobs.           *)
(***************************************************************************)
EXTENDS ClientJobs, JobManagerProofs

USE ManagerAssumption DEF ManagerAssumption

-----------------------------------------------------------------------------
(* Every step of the composition is a step of the manager.                  *)

\* A step of the manager that does not end the process, or none.
Serving ==
    \/ \E r \in Requests : Start(r)
    \/ \E id \in JobIds : WorkerStep(id)
    \/ \E c \in Callers : CallerStep(c) \/ Stop(c) \/ \E id \in JobIds : CancelLookup(c, id)
    \/ ShutdownFlag \/ ShutdownStep \/ Recover
    \/ UNCHANGED vars

LEMMA ServingIsNext == Serving => [Next]_vars
  BY DEF Serving, Next

\* A view update or an edited library starts only quick scans that are requests.
LEMMA ViewsServe == ASSUME ClientInv, ViewsNext PROVE Serving
<1> USE ViewAssumption DEF ViewAssumption
<1>1. ASSUME NEW l \in Libraries, NEW p \in BOOLEAN, Start(FastScan(l, p)) PROVE Serving
  BY <1>1 DEF Serving
<1>2. CASE ViewSchedule
  <2>1. CASE UNCHANGED vars
    BY <2>1 DEF Serving
  <2>2. CASE viewer.start # NoLibrary /\ Start(FastScan(viewer.start, viewer.start \in visited))
    <3>1. viewer.start \in Libraries /\ (viewer.start \in visited) \in BOOLEAN
      BY <2>2 DEF ClientInv, CallsInv
    <3> QED
      BY <1>1, <2>2, <3>1
  <2> QED
    BY <1>2, <2>1, <2>2 DEF ViewSchedule
<1>3. CASE ViewCancel
  <2>1. \A id \in jobs : id \in JobIds
    BY DEF ClientInv, RegistryInv, TypeOK, RegistryTypeOK
  <2>2. CASE UNCHANGED vars
    BY <2>2 DEF Serving
  <2>3. CASE \E id \in jobs : CancelLookup(ViewThread, id)
    BY <2>1, <2>3 DEF Serving
  <2> QED
    BY <1>3, <2>2, <2>3 DEF ViewCancel
<1>4. ASSUME NEW l \in Libraries, ScheduleViewedScan(l) PROVE Serving
  BY <1>1, <1>4 DEF ScheduleViewedScan
<1>5. CASE UNCHANGED vars
  BY <1>5 DEF Serving
<1> QED
  BY <1>2, <1>3, <1>4, <1>5
  DEF ViewsNext, SetView, ViewAges, ViewCommit, ViewList

\* A create starts one of the requests.
LEMMA CreateServes == ASSUME ClientInv, CreateStarts PROVE Serving
<1>1. creating.body \in Requests
  BY DEF ClientInv, CallsInv, CreateStarts
<1> QED
  BY <1>1 DEF CreateStarts, Serving

LEMMA ClientServes ==
    ASSUME ClientInv, ManagerStep \/ LegacyStart \/ RequestStep \/ CreateStep \/ ViewStep
    PROVE  Serving
<1>1. CASE ManagerStep
  BY <1>1 DEF ManagerStep, Clients, Serving
<1>2. CASE LegacyStart
  BY <1>2 DEF LegacyStart, Serving
<1>3. CASE RequestStep
  BY <1>3 DEF RequestStep, CreateBegin, CreateFails, CancelJobs, RequestAges, Clients, Serving
<1>4. CASE CreateStep
  BY <1>4, CreateServes DEF CreateStep
<1>5. CASE ViewStep
  BY <1>5, ViewsServe DEF ViewStep
<1> QED
  BY <1>1, <1>2, <1>3, <1>4, <1>5

LEMMA ClientStepIsNext == ASSUME ClientInv, [ClientNext]_clientVars PROVE [Next]_vars
<1>1. CASE ProcessEnds
  BY <1>1 DEF ProcessEnds, Next
<1>2. CASE UNCHANGED clientVars
  BY <1>2 DEF clientVars
<1> QED
  BY <1>1, <1>2, ClientServes, ServingIsNext DEF ClientNext

\* What the calls under way submit stays one of the requests.
LEMMA CallsStep == ASSUME CallsInv, [ClientNext]_clientVars PROVE CallsInv'
<1> USE DEF CallsInv
<1>1. CASE UNCHANGED <<creating, viewer>>
  BY <1>1, Zenon
<1>2. ASSUME NEW key \in Keys \cup {NoKey}, NEW body \in Requests, CreateBegin(key, body),
             UNCHANGED viewVars
      PROVE  CallsInv'
  BY <1>2 DEF CreateBegin, viewVars
<1>3. CASE (CreateFails \/ CreateStarts) /\ UNCHANGED viewer
  BY <1>3 DEF CreateFails, CreateStarts
<1>4. ASSUME NEW w, NEW generation, NEW l \in Libraries \cup {NoLibrary},
             SetView(w, generation, l), UNCHANGED requestVars
      PROVE  CallsInv'
  BY <1>4 DEF SetView, StartOf, NoUpdate, requestVars
<1>5. CASE (ViewSchedule \/ ViewCommit \/ ViewList \/ ViewCancel) /\ UNCHANGED requestVars
  <2> DEFINE StartKept(u) == "start" \in DOMAIN u /\ u.start \in {viewer.start, NoLibrary}
  <2>1. StartKept(NoUpdate) /\ StartKept(viewer)
    BY DEF NoUpdate
  <2>2. ASSUME NEW pc PROVE StartKept([viewer EXCEPT !.pc = pc])
    OBVIOUS
  <2>3. ASSUME NEW pc, NEW todo PROVE StartKept([viewer EXCEPT !.pc = pc, !.todo = todo])
    OBVIOUS
  <2>4. ASSUME NEW todo PROVE StartKept([viewer EXCEPT !.todo = todo])
    OBVIOUS
  <2> HIDE DEF StartKept
  <2>5. ViewSchedule \/ ViewCommit => StartKept(viewer')
    BY <2>1, <2>2 DEF ViewSchedule, ViewCommit
  <2>6. ViewList => StartKept(viewer')
    <3>1. StartKept([viewer EXCEPT !.pc = "cancel", !.todo = Listed(viewer.stop)])
      BY <2>3
    <3> QED
      BY <2>1, <3>1, Zenon DEF ViewList
  <2>7. ViewCancel => StartKept(viewer')
    <3> DEFINE id == CHOOSE i \in viewer.todo : \A j \in viewer.todo : i <= j
    <3>1. ViewCancel => viewer' = IF viewer.todo = {} THEN NoUpdate
                                  ELSE [viewer EXCEPT !.todo = viewer.todo \ {id}]
      BY DEF ViewCancel
    <3> HIDE DEF id
    <3> QED
      BY <2>1, <2>4, <3>1
  <2> QED
    BY <1>5, <2>5, <2>6, <2>7 DEF requestVars, StartKept
<1>6. CASE ProcessEnds
  BY <1>6 DEF ProcessEnds, RequestsInit, ViewsInit, NoUpdate
<1>7. CASE ManagerStep \/ LegacyStart \/ UNCHANGED clientVars
  BY <1>1, <1>7 DEF ManagerStep, LegacyStart, clientVars, requestVars, viewVars
<1>8. CASE RequestStep
  BY <1>1, <1>2, <1>3, <1>8 DEF RequestStep, CancelJobs, RequestAges, viewVars
<1>9. CASE CreateStep
  BY <1>3, <1>9 DEF CreateStep
<1>10. CASE ViewStep
  BY <1>1, <1>4, <1>5, <1>10 DEF ViewStep, ViewsNext, ViewAges, ScheduleViewedScan, requestVars
<1> QED
  BY <1>6, <1>7, <1>8, <1>9, <1>10 DEF ClientNext

\* Init and every step keep the invariant of the composition.
LEMMA ClientInvariant == ClientSpec => []ClientInv
<1>1. ClientInit => ClientInv
  BY InitRegistryInv DEF ClientInit, ClientInv, CallsInv, RequestsInit, ViewsInit, NoUpdate
<1>2. ClientInv /\ [ClientNext]_clientVars => ClientInv'
  BY ClientStepIsNext, CallsStep, StepInv DEF ClientInv
<1> QED
  BY <1>1, <1>2, PTL DEF ClientSpec

\* The job routes and the views use the manager only through its operations:
\* whatever they do is a behaviour of JobManager, so every theorem about it
\* holds behind the routes.
THEOREM ManagerIsRespected == ClientSpec => ManagerRespected
<1>1. ClientInit => Init
  BY DEF ClientInit
<1>2. ClientInv /\ [ClientNext]_clientVars => [Next]_vars
  BY ClientStepIsNext
<1> QED
  BY <1>1, <1>2, ClientInvariant, PTL DEF ClientSpec, ManagerRespected, Spec

-----------------------------------------------------------------------------
(* A request key starts one job.                                            *)

\* A job that is not over is retained: eviction never forgets it.
LEMMA UnfinishedIsRetained ==
    ASSUME RegistryInv, NEW id \in 1..(nextId - 1), ~IsTerminal(id)
    PROVE  id \in jobs
<1>1. id \in JobIds /\ nextId \in Nat /\ ~(id >= nextId)
  BY DEF RegistryInv, TypeOK, RegistryTypeOK, JobIds
<1>2. JobState(id) /\ worker[id] \in Live \cup {"none", "done"}
      /\ status[id] \in Pending \cup Terminal \cup {"none"}
  BY <1>1 DEF RegistryInv, TypeOK, JobTypeOK
<1>3. CASE worker[id] \in Live
  <2>1. active = id
    BY <1>2, <1>3 DEF JobState
  <2> QED
    BY <1>1, <2>1 DEF RegistryInv, JobIds, None
<1>4. CASE worker[id] = "none"
  <2>1. status[id] = "queued"
    BY <1>1, <1>2, <1>4 DEF JobState, IsTerminal, Terminal
  <2>2. PICK i \in DOMAIN queued : queued[i] = id
    BY <1>2, <1>4, <2>1 DEF JobState, RangeOf
  <2> QED
    BY <2>2 DEF RegistryInv, QueueEntry
<1>5. CASE worker[id] = "done"
  BY <1>2, <1>5 DEF JobState
<1> QED
  BY <1>2, <1>3, <1>4, <1>5

\* Within a process a cancellation flag stays set and ids only grow.
LEMMA ServingKeepsFlags ==
    ASSUME RegistryInv, Serving
    PROVE  /\ nextId <= nextId'
           /\ \A id \in JobIds : cancelRequested[id] => cancelRequested'[id]
<1>1. nextId \in Nat /\ cancelRequested \in [JobIds -> BOOLEAN]
  BY DEF RegistryInv, TypeOK, RegistryTypeOK, JobTypeOK
<1>2. CASE UNCHANGED <<nextId, cancelRequested>>
  BY <1>1, <1>2
<1>3. ASSUME NEW r \in Requests, Admit(r) PROVE nextId' = nextId + 1 /\ UNCHANGED cancelRequested
  BY <1>3 DEF Admit
<1>4. ASSUME NEW r \in Requests, Start(r)
      PROVE  nextId' \in {nextId, nextId + 1} /\ UNCHANGED cancelRequested
  BY <1>3, <1>4 DEF Start, MergeQueuedScan, registry
<1>5. ASSUME NEW id \in JobIds, WorkerStep(id) PROVE UNCHANGED <<nextId, cancelRequested>>
  BY <1>5 DEF WorkerStep, WorkerBegin, WorkerReturn, WorkerReport, WorkerCheck, WorkerClear,
              WorkerFinish, registry, jobCells
<1>6. ASSUME NEW c \in Callers, CallerStep(c)
      PROVE  nextId' = nextId /\ \A id \in JobIds : cancelRequested[id] => cancelRequested'[id]
  <2>1. CASE CancelStore(c)
    BY <1>1, <2>1 DEF CancelStore, registry
  <2> QED
    BY <1>6, <2>1 DEF CallerStep, CancelRead, CancelPublish, CancelClear, CancelRemove,
                      CancelDequeue, StopClear, registry, jobCells
<1>7. ASSUME NEW c \in Callers, Stop(c) \/ \E id \in JobIds : CancelLookup(c, id)
      PROVE  nextId' = nextId /\ \A id \in JobIds : cancelRequested[id] => cancelRequested'[id]
  BY <1>1, <1>7 DEF Stop, CancelLookup, registry, jobCells
<1>8. ASSUME ShutdownFlag \/ ShutdownStep
      PROVE  nextId' = nextId /\ \A id \in JobIds : cancelRequested[id] => cancelRequested'[id]
  BY <1>1, <1>8 DEF ShutdownFlag, ShutdownStep, ShutdownSnapshot, ShutdownCancel, registry, jobCells
<1>9. CASE Recover
  BY <1>1, <1>3, <1>9 DEF Recover, registry, jobCells
<1>10. CASE UNCHANGED vars
  BY <1>2, <1>10 DEF vars
<1> QED
  BY <1>1, <1>4, <1>5, <1>6, <1>7, <1>8, <1>9, <1>10 DEF Serving

\* A job that is over stays so while its process serves.
LEMMA ServingKeepsOver ==
    ASSUME RegistryInv, Serving, NEW id \in 1..(nextId - 1), IsTerminal(id)
    PROVE  IsTerminal(id)'
<1>1. id \in JobIds /\ nextId \in Nat /\ id < nextId
  BY DEF RegistryInv, TypeOK, RegistryTypeOK, JobIds
<1>2. RegistryInv' /\ nextId <= nextId' /\ nextId' \in Nat
  BY ServingIsNext, StepInv, ServingKeepsFlags DEF RegistryInv, TypeOK, RegistryTypeOK
<1>3. status'[id] \in {status[id], "none"}
  BY <1>1, ServingIsNext, StepKeepsTerminal
<1>4. status'[id] # "none"
  BY <1>1, <1>2 DEF RegistryInv, JobState
<1> QED
  BY <1>3, <1>4 DEF IsTerminal

\* A job that is stopped or over stays so within its process.
LEMMA ServingKeepsStopped ==
    ASSUME RegistryInv, Serving, NEW id \in 1..(nextId - 1), cancelRequested[id] \/ IsTerminal(id)
    PROVE  cancelRequested'[id] \/ IsTerminal(id)'
<1>1. id \in JobIds
  BY DEF RegistryInv, TypeOK, RegistryTypeOK, JobIds
<1> QED
  BY <1>1, ServingKeepsFlags, ServingKeepsOver

\* A sweep forgets entries and changes none.
LEMMA KeptEntries ==
    ASSUME KeysInv
    PROVE  /\ DOMAIN Kept \subseteq DOMAIN requests
           /\ Kept = [k \in DOMAIN Kept |-> requests[k]]
           /\ Kept \in [DOMAIN Kept -> RequestEntry]
           /\ IsFiniteSet(DOMAIN requests) /\ IsFiniteSet(DOMAIN Kept)
           /\ Cardinality(DOMAIN Kept) <= Cardinality(DOMAIN requests)
           /\ Cardinality(DOMAIN Kept) \in Nat /\ Cardinality(DOMAIN requests) \in Nat
<1>1. /\ DOMAIN Kept \subseteq DOMAIN requests
      /\ Kept = [k \in DOMAIN Kept |-> requests[k]]
  BY DEF Kept, Sweep, Restrict
<1>2. Kept \in [DOMAIN Kept -> RequestEntry]
  BY <1>1 DEF KeysInv
<1>3. IsFiniteSet(DOMAIN requests)
  BY RequestAssumption, FS_Subset DEF RequestAssumption, KeysInv
<1> QED
  BY <1>1, <1>2, <1>3, FS_Subset, FS_CardinalityType

\* The parts of the invariant that speak of keys survive a step that sweeps the
\* map and the history alike and keeps what a process keeps of its jobs.
LEMMA SweptKeys ==
    ASSUME RegistryInv, KeysInv, Serving, NEW k \in Keys,
           k \in DOMAIN Kept => k \in DOMAIN requests' /\ requests'[k] = Kept[k],
           k \in DOMAIN requests' => k \in DOMAIN Kept,
           started' = Fresh(started), answered'[k] = Fresh(answered)[k],
           stoppedKeys' = stoppedKeys \ Gone
    PROVE  IF k \in DOMAIN requests' THEN KeyEntry(k)' ELSE KeyUnknown(k)'
<1>1. /\ DOMAIN Kept \subseteq DOMAIN requests
      /\ \A j \in DOMAIN Kept : Kept[j] = requests[j]
      /\ requests \in [DOMAIN requests -> RequestEntry]
  BY KeptEntries DEF KeysInv
<1>2. IF k \in DOMAIN requests THEN KeyEntry(k) ELSE KeyUnknown(k)
  BY DEF KeysInv
<1>3. CASE k \in DOMAIN requests'
  <2>1. k \in DOMAIN Kept /\ k \in DOMAIN requests /\ requests'[k] = requests[k] /\ KeyEntry(k)
    BY <1>1, <1>2, <1>3
  <2>2. started'[k] = started[k] /\ answered'[k] = answered[k] /\ (k \in stoppedKeys' => k \in stoppedKeys)
    BY <2>1 DEF Fresh, Gone
  <2>3. requests[k].job \in JobIds \cup {None} /\ nextId \in Nat /\ nextId' \in Nat /\ nextId <= nextId'
    BY <1>1, <2>1, ServingIsNext, StepInv, ServingKeepsFlags
    DEF RequestEntry, RegistryInv, TypeOK, RegistryTypeOK
  <2>4. requests[k].job # None => requests[k].job \in 1..(nextId - 1)
    BY <2>1, <2>3 DEF KeyEntry, JobIds, None
  <2>5. k \in stoppedKeys /\ requests[k].job # None =>
            cancelRequested'[requests[k].job] \/ IsTerminal(requests[k].job)'
    BY <2>1, <2>4, ServingKeepsStopped DEF KeyEntry
  <2> QED
    BY <1>3, <2>1, <2>2, <2>3, <2>5 DEF KeyEntry, None, JobIds, IsTerminal
<1>4. CASE k \notin DOMAIN requests'
  BY <1>1, <1>2, <1>4 DEF KeyUnknown, Fresh, Gone
<1> QED
  BY <1>3, <1>4

\* An untouched map keeps the invariant whatever the jobs do.
LEMMA UntouchedKeys ==
    ASSUME RegistryInv, KeysInv, Serving, UNCHANGED requestVars
    PROVE  KeysInv'
<1>1. UNCHANGED <<requests, creating, started, answered, stoppedKeys>>
  BY DEF requestVars
<1>2. ASSUME NEW k \in Keys
      PROVE  IF k \in DOMAIN requests' THEN KeyEntry(k)' ELSE KeyUnknown(k)'
  <2>1. IF k \in DOMAIN requests THEN KeyEntry(k) ELSE KeyUnknown(k)
    BY DEF KeysInv
  <2>2. CASE k \in DOMAIN requests
    <3>1. KeyEntry(k)
      BY <2>1, <2>2
    <3>2. requests[k].job \in JobIds \cup {None} /\ nextId \in Nat /\ nextId' \in Nat /\ nextId <= nextId'
      BY <2>2, ServingIsNext, StepInv, ServingKeepsFlags
      DEF KeysInv, RequestEntry, RegistryInv, TypeOK, RegistryTypeOK
    <3>3. requests[k].job # None => requests[k].job \in 1..(nextId - 1)
      BY <3>1, <3>2 DEF KeyEntry, JobIds, None
    <3>4. k \in stoppedKeys /\ requests[k].job # None =>
              cancelRequested'[requests[k].job] \/ IsTerminal(requests[k].job)'
      <4> SUFFICES ASSUME k \in stoppedKeys, requests[k].job # None
                   PROVE  cancelRequested'[requests[k].job] \/ IsTerminal(requests[k].job)'
        OBVIOUS
      <4> DEFINE job == requests[k].job
      <4>1. job \in 1..(nextId - 1) /\ (cancelRequested[job] \/ IsTerminal(job))
        BY <3>1, <3>3 DEF KeyEntry
      <4>2. requests' = requests
        BY <1>1
      <4> HIDE DEF job
      <4>3. cancelRequested'[job] \/ status'[job] \in Terminal
        BY <4>1, ServingKeepsStopped DEF IsTerminal
      <4> QED
        BY <4>2, <4>3 DEF job, IsTerminal
    <3> QED
      BY <1>1, <2>2, <3>1, <3>2, <3>4 DEF KeyEntry, None, JobIds, IsTerminal
  <2>3. CASE k \notin DOMAIN requests
    BY <1>1, <2>1, <2>3 DEF KeyUnknown
  <2> QED
    BY <2>2, <2>3
<1> QED
  BY <1>1, <1>2 DEF KeysInv, CreatingInv

\* create_job up to its await keeps the invariant.
LEMMA CreateBeginKeys ==
    ASSUME RegistryInv, KeysInv,
           NEW key \in Keys \cup {NoKey}, NEW body \in Requests, CreateBegin(key, body)
    PROVE  KeysInv'
<1> USE RequestAssumption DEF RequestAssumption
<1>1. Serving /\ requests' = Kept /\ creating = NoCall
  BY DEF CreateBegin, Serving, MutexFree
<1>2. /\ DOMAIN requests' \subseteq Keys /\ Cardinality(DOMAIN requests') <= MaxRequests
      /\ requests' \in [DOMAIN requests' -> RequestEntry]
  BY <1>1, KeptEntries DEF KeysInv
<1>3. /\ started' = Fresh(started) /\ DOMAIN started' = Keys
      /\ stoppedKeys' = stoppedKeys \ Gone /\ stoppedKeys' \subseteq Keys
  BY DEF CreateBegin, Fresh, KeysInv
<1>4. DOMAIN answered' = Keys /\ \A k \in Keys : k # key => answered'[k] = Fresh(answered)[k]
  BY DEF CreateBegin, Fresh
<1>5. ASSUME NEW k \in Keys, k # key \/ k \notin DOMAIN Kept
      PROVE  IF k \in DOMAIN requests' THEN KeyEntry(k)' ELSE KeyUnknown(k)'
  <2>1. answered'[k] = Fresh(answered)[k]
    BY <1>4, <1>5 DEF CreateBegin
  <2> QED
    BY <1>1, <1>3, <2>1, SweptKeys
<1>6. ASSUME key \in Keys, key \in DOMAIN Kept PROVE key \in DOMAIN requests' /\ KeyEntry(key)'
  <2>1. Kept[key] = requests[key] /\ key \in DOMAIN requests /\ KeyEntry(key)
    BY <1>6, KeptEntries DEF KeysInv
  <2>2. UNCHANGED <<jobs, nextId, cancelRequested, status>>
    BY DEF CreateBegin, vars
  <2>3. /\ started'[key] = started[key] /\ (key \in stoppedKeys' => key \in stoppedKeys)
        /\ Fresh(answered)[key] = answered[key]
    BY <1>3, <1>6 DEF Fresh, Gone
  <2>4. answered'[key] = answered[key] \cup {<<job, body>> : job \in Answer(Kept[key], body)}
    BY <1>6, <2>3 DEF CreateBegin, Fresh
  <2>5. \A job \in Answer(Kept[key], body) :
            job = requests[key].job /\ body = requests[key].body /\ job # None
    BY <2>1 DEF Answer, RegistryInv, TypeOK, RegistryTypeOK, JobIds, None
  <2> QED
    BY <1>1, <1>6, <2>1, <2>2, <2>3, <2>4, <2>5 DEF KeyEntry, IsTerminal
<1>7. CreatingInv'
  <2>1. CASE creating' = creating
    BY <1>1, <2>1 DEF CreatingInv, KeysInv, NoCall
  <2>2. CASE creating' = NoCall
    BY <2>2 DEF CreatingInv, NoCall
  <2>3. CASE creating' = [key |-> key, body |-> body] /\ key \notin DOMAIN Kept
             /\ (key # NoKey => HasRoomFor(Kept, key, MaxRequests))
    BY <1>1, <2>3 DEF CreatingInv, HasRoomFor
  <2> QED
    BY <2>1, <2>2, <2>3 DEF CreateBegin
<1> QED
  BY <1>2, <1>3, <1>4, <1>5, <1>6, <1>7 DEF KeysInv

\* A create that fails leaves no trace.
LEMMA CreateFailsKeys == ASSUME RegistryInv, KeysInv, CreateFails PROVE KeysInv'
<1>1. UNCHANGED <<nextId, cancelRequested, status>>
  BY DEF CreateFails, vars
<1>2. \A k \in Keys : IF k \in DOMAIN requests' THEN KeyEntry(k)' ELSE KeyUnknown(k)'
  BY <1>1 DEF CreateFails, KeysInv, KeyEntry, KeyUnknown, IsTerminal
<1>3. CreatingInv'
  BY DEF CreateFails, CreatingInv, NoCall
<1> QED
  BY <1>2, <1>3 DEF CreateFails, KeysInv

\* The age of an entry says nothing of its job.
LEMMA RequestAgesKeys ==
    ASSUME RegistryInv, KeysInv, NEW key \in Keys, RequestAges(key) PROVE KeysInv'
<1>1. UNCHANGED <<nextId, cancelRequested, status, creating, started, answered, stoppedKeys>>
  BY DEF RequestAges, vars
<1>2. /\ DOMAIN requests' = DOMAIN requests
      /\ requests' \in [DOMAIN requests -> RequestEntry]
      /\ \A k \in DOMAIN requests :
             requests'[k].job = requests[k].job /\ requests'[k].body = requests[k].body
  BY DEF RequestAges, Aged, KeysInv, RequestEntry
<1>3. ASSUME NEW k \in Keys
      PROVE  IF k \in DOMAIN requests' THEN KeyEntry(k)' ELSE KeyUnknown(k)'
  BY <1>1, <1>2 DEF KeysInv, KeyEntry, KeyUnknown, IsTerminal
<1> QED
  BY <1>1, <1>2, <1>3 DEF KeysInv, CreatingInv

\* Every job that stop finds is cancelled or over when it has run.
LEMMA StopCancels ==
    ASSUME RegistryInv, NEW c \in Callers, Stop(c), NEW id \in 1..(nextId - 1)
    PROVE  cancelRequested'[id] \/ status'[id] \in Terminal
<1>1. id \in JobIds
  BY DEF RegistryInv, TypeOK, RegistryTypeOK, JobIds
<1>2. CASE IsTerminal(id)
  BY <1>1, <1>2 DEF Stop, IsTerminal
<1>3. CASE ~IsTerminal(id)
  BY <1>1, <1>3, UnfinishedIsRetained DEF Stop
<1> QED
  BY <1>2, <1>3

\* cancel_jobs keeps the invariant: what it stops is stopped, and what it has
\* not seen gets a tombstone.
LEMMA CancelJobsKeys ==
    ASSUME RegistryInv, KeysInv, NEW c \in Callers, NEW ids \in SUBSET Keys, CancelJobs(c, ids)
    PROVE  KeysInv'
<1> USE RequestAssumption DEF RequestAssumption
<1> DEFINE missing == ids \ DOMAIN Kept
<1>1. Serving /\ creating' = creating /\ creating = NoCall
  BY DEF CancelJobs, Serving, MutexFree
<1>2. /\ started' = Fresh(started) /\ answered' = Fresh(answered)
      /\ DOMAIN started' = Keys /\ DOMAIN answered' = Keys
  BY DEF CancelJobs, Fresh
<1>3. CreatingInv'
  BY <1>1 DEF CreatingInv, KeysInv, NoCall
<1>4. CASE ~TombstonesFit(missing)
  <2>1. requests' = Kept /\ stoppedKeys' = stoppedKeys \ Gone /\ stoppedKeys' \subseteq Keys
    BY <1>4 DEF CancelJobs, KeysInv
  <2>2. \A k \in Keys : IF k \in DOMAIN requests' THEN KeyEntry(k)' ELSE KeyUnknown(k)'
    BY <1>1, <1>2, <2>1, SweptKeys
  <2>3. /\ DOMAIN requests' \subseteq Keys /\ Cardinality(DOMAIN requests') <= MaxRequests
        /\ requests' \in [DOMAIN requests' -> RequestEntry]
    BY <2>1, KeptEntries DEF KeysInv
  <2> QED
    BY <1>2, <1>3, <2>1, <2>2, <2>3 DEF KeysInv
<1>5. CASE TombstonesFit(missing)
  <2>1. /\ Stop(c)
        /\ requests' = [k \in DOMAIN Kept \cup missing |->
                            IF k \in missing THEN Tombstone ELSE Kept[k]]
        /\ stoppedKeys' = (stoppedKeys \ Gone) \cup ids
    BY <1>5 DEF CancelJobs
  <2>2. DOMAIN requests' = DOMAIN Kept \cup missing /\ DOMAIN requests' \subseteq Keys
        /\ stoppedKeys' \subseteq Keys
    BY <2>1, KeptEntries DEF KeysInv
  <2>3. Cardinality(DOMAIN requests') <= MaxRequests
    <3>1. IsFiniteSet(missing)
      BY FS_Subset
    <3>2. DOMAIN Kept \cap missing = {}
      OBVIOUS
    <3>3. Cardinality(DOMAIN Kept \cup missing)
              = Cardinality(DOMAIN Kept) + Cardinality(missing) - Cardinality({})
      BY <3>1, <3>2, KeptEntries, FS_Union
    <3>4. Cardinality({}) = 0 /\ Cardinality(missing) \in Nat /\ Cardinality(DOMAIN Kept) \in Nat
      BY <3>1, KeptEntries, FS_EmptySet, FS_CardinalityType
    <3> HIDE DEF missing
    <3> QED
      BY <1>5, <2>2, <3>3, <3>4 DEF TombstonesFit
  <2>4. requests' \in [DOMAIN requests' -> RequestEntry]
    BY <2>1, <2>2, KeptEntries DEF Tombstone, RequestEntry
  <2>5. ASSUME NEW k \in missing PROVE k \in DOMAIN requests' /\ KeyEntry(k)'
    <3>1. requests'[k] = Tombstone /\ k \in Keys /\ k \in DOMAIN requests'
      BY <2>1, <2>2, <2>5
    <3>2. started'[k] = {} /\ answered'[k] = {}
      BY <1>2, <2>5, <3>1 DEF Fresh, Gone, KeysInv, KeyUnknown
    <3>3. 0 < nextId'
      BY <1>1, ServingIsNext, StepInv DEF RegistryInv, TypeOK, RegistryTypeOK
    <3> QED
      BY <3>1, <3>2, <3>3 DEF KeyEntry, Tombstone, None
  <2>6. ASSUME NEW k \in DOMAIN Kept PROVE k \in DOMAIN requests' /\ KeyEntry(k)'
    <3>1. /\ requests'[k] = Kept[k] /\ Kept[k] = requests[k]
          /\ k \in DOMAIN requests' /\ k \in DOMAIN requests /\ k \in Keys /\ KeyEntry(k)
      BY <2>1, <2>2, <2>6, KeptEntries DEF KeysInv
    <3>2. started'[k] = started[k] /\ answered'[k] = answered[k]
      BY <1>2, <2>6, <3>1 DEF Fresh, Gone
    <3>3. /\ requests[k].job \in JobIds \cup {None} /\ nextId \in Nat /\ nextId' = nextId
          /\ requests[k].job < nextId
      BY <2>1, <3>1 DEF KeysInv, RequestEntry, RegistryInv, TypeOK, RegistryTypeOK, KeyEntry, Stop
    <3>4. requests[k].job # None =>
              cancelRequested'[requests[k].job] \/ status'[requests[k].job] \in Terminal
      BY <2>1, <3>3, StopCancels DEF JobIds, None
    <3> QED
      BY <3>1, <3>2, <3>3, <3>4 DEF KeyEntry, IsTerminal
  <2>7. ASSUME NEW k \in Keys, k \notin DOMAIN requests' PROVE KeyUnknown(k)'
    <3>1. k \notin DOMAIN Kept /\ k \notin ids
      BY <2>2, <2>7
    <3>2. IF k \in DOMAIN requests THEN KeyEntry(k) ELSE KeyUnknown(k)
      BY DEF KeysInv
    <3> QED
      BY <1>2, <2>1, <3>1, <3>2 DEF KeyUnknown, Fresh, Gone
  <2> QED
    BY <1>2, <1>3, <2>2, <2>3, <2>4, <2>5, <2>6, <2>7 DEF KeysInv
<1> QED
  BY <1>4, <1>5

\* The job that start admits or merges into has an id of this process.
LEMMA StartedJob ==
    ASSUME RegistryInv, NEW r \in Requests, Start(r)
    PROVE  JobOf(r) \in JobIds /\ JobOf(r) < nextId'
<1>1. nextId \in 1..(MaxJobs + 1)
  BY DEF RegistryInv, TypeOK, RegistryTypeOK
<1>2. CASE r.kind = "libraryScan" /\ QueuedFor(r.library) # {}
  <2>1. JobOf(r) \in QueuedFor(r.library)
    BY <1>2 DEF JobOf
  <2>2. PICK i \in DOMAIN queued : queued[i] = JobOf(r)
    BY <2>1 DEF QueuedFor, RangeOf
  <2>3. JobOf(r) < nextId /\ JobOf(r) \in JobIds
    BY <2>2 DEF RegistryInv, QueueEntry, TypeOK, RegistryTypeOK
  <2>4. nextId' = nextId
    BY <1>2 DEF Start, MergeQueuedScan, registry
  <2> QED
    BY <2>3, <2>4
<1>3. CASE ~(r.kind = "libraryScan" /\ QueuedFor(r.library) # {})
  <2>1. JobOf(r) = nextId /\ Admit(r)
    BY <1>3 DEF JobOf, Start
  <2> QED
    BY <1>1, <2>1 DEF Admit, JobIds
<1> QED
  BY <1>2, <1>3

\* The admission of a create records its key, which the map did not hold.
LEMMA CreateStartsKeys == ASSUME ClientInv, KeysInv, CreateStarts PROVE KeysInv'
<1> USE RequestAssumption DEF RequestAssumption
<1> DEFINE key == creating.key  body == creating.body  job == JobOf(creating.body)
<1>1. /\ RegistryInv /\ Serving /\ body \in Requests /\ Start(body)
      /\ creating' = NoCall /\ UNCHANGED stoppedKeys
  BY CreateServes DEF ClientInv, CallsInv, CreateStarts
<1>2. job \in JobIds /\ job < nextId' /\ job # None
  BY <1>1, StartedJob DEF JobIds, None
<1>3. CreatingInv'
  BY <1>1 DEF CreatingInv, NoCall
<1>4. CASE key = NoKey
  <2>1. UNCHANGED <<requests, started, answered, stoppedKeys>>
    BY <1>1, <1>4 DEF CreateStarts
  <2>2. ASSUME NEW k \in DOMAIN requests PROVE KeyEntry(k)'
    <3>1. KeyEntry(k) /\ requests[k].job \in JobIds \cup {None}
      BY DEF KeysInv, RequestEntry
    <3>2. nextId \in Nat /\ nextId' \in Nat /\ nextId <= nextId' /\ requests[k].job < nextId
      BY <1>1, <3>1, ServingIsNext, StepInv, ServingKeepsFlags
      DEF KeyEntry, RegistryInv, TypeOK, RegistryTypeOK
    <3>3. /\ cancelRequested[requests[k].job] \/ IsTerminal(requests[k].job)
          /\ requests[k].job # None
          => cancelRequested'[requests[k].job] \/ status'[requests[k].job] \in Terminal
      BY <1>1, <3>1, <3>2, ServingKeepsStopped DEF JobIds, None, IsTerminal
    <3> QED
      BY <2>1, <3>1, <3>2, <3>3 DEF KeyEntry, IsTerminal, JobIds, None
  <2>3. ASSUME NEW k \in Keys, k \notin DOMAIN requests PROVE KeyUnknown(k)'
    BY <2>1, <2>3 DEF KeysInv, KeyUnknown
  <2> QED
    BY <1>3, <2>1, <2>2, <2>3 DEF KeysInv
<1>5. CASE key # NoKey
  <2>1. /\ requests' = Insert(requests, key, [body |-> body, job |-> job, aged |-> FALSE])
        /\ started' = [started EXCEPT ![key] = started[key] \cup {job}]
        /\ answered' = [answered EXCEPT ![key] = answered[key] \cup {<<job, body>>}]
    BY <1>1, <1>5 DEF CreateStarts
  <2>2. key \in Keys /\ key \notin DOMAIN requests /\ Cardinality(DOMAIN requests) < MaxRequests
    BY <1>5 DEF KeysInv, CreatingInv
  <2>3. /\ DOMAIN requests' = DOMAIN requests \cup {key}
        /\ requests'[key] = [body |-> body, job |-> job, aged |-> FALSE]
        /\ \A k \in DOMAIN requests : requests'[k] = requests[k]
        /\ requests' = [k \in DOMAIN requests' |-> requests'[k]]
    BY <2>1, <2>2 DEF Insert
  <2>4. DOMAIN requests' \subseteq Keys /\ Cardinality(DOMAIN requests') <= MaxRequests
    <3>1. Cardinality(DOMAIN requests \cup {key}) = Cardinality(DOMAIN requests) + 1
      BY <2>2, KeptEntries, FS_AddElement
    <3> HIDE DEF key
    <3> QED
      BY <2>2, <2>3, <3>1, KeptEntries DEF KeysInv
  <2>5. requests' \in [DOMAIN requests' -> RequestEntry]
    <3>1. requests'[key] \in RequestEntry
      BY <1>1, <1>2, <2>3 DEF RequestEntry
    <3>2. \A k \in DOMAIN requests : requests'[k] \in RequestEntry
      BY <2>3 DEF KeysInv
    <3> HIDE DEF key
    <3> QED
      BY <2>3, <3>1, <3>2
  <2>6. ASSUME NEW k \in Keys, k = key PROVE KeyEntry(k)'
    <3>1. started[k] = {} /\ answered[k] = {} /\ k \notin stoppedKeys
      BY <2>2, <2>6 DEF KeysInv, KeyUnknown
    <3>2. started'[k] = {job} /\ answered'[k] = {<<job, body>>} /\ k \notin stoppedKeys'
      BY <1>1, <2>1, <2>2, <2>6, <3>1 DEF KeysInv
    <3>3. requests'[k] = [body |-> body, job |-> job, aged |-> FALSE]
      BY <2>3, <2>6
    <3> HIDE DEF key, job, body
    <3> QED
      BY <1>2, <3>2, <3>3 DEF KeyEntry
  <2>7. ASSUME NEW k \in DOMAIN requests PROVE KeyEntry(k)'
    <3>1. KeyEntry(k) /\ requests[k].job \in JobIds \cup {None} /\ k \in Keys /\ k # key
      BY <2>2 DEF KeysInv, RequestEntry
    <3>2. nextId \in Nat /\ nextId' \in Nat /\ nextId <= nextId' /\ requests[k].job < nextId
      BY <1>1, <3>1, ServingIsNext, StepInv, ServingKeepsFlags
      DEF KeyEntry, RegistryInv, TypeOK, RegistryTypeOK
    <3>3. /\ cancelRequested[requests[k].job] \/ IsTerminal(requests[k].job)
          /\ requests[k].job # None
          => cancelRequested'[requests[k].job] \/ status'[requests[k].job] \in Terminal
      BY <1>1, <3>1, <3>2, ServingKeepsStopped DEF JobIds, None, IsTerminal
    <3>4. started'[k] = started[k] /\ answered'[k] = answered[k] /\ requests'[k] = requests[k]
      BY <2>1, <2>3, <3>1 DEF KeysInv
    <3> QED
      BY <1>1, <3>1, <3>2, <3>3, <3>4 DEF KeyEntry, IsTerminal, JobIds, None
  <2>8. ASSUME NEW k \in Keys, k \notin DOMAIN requests' PROVE KeyUnknown(k)'
    BY <1>1, <2>1, <2>3, <2>8 DEF KeysInv, KeyUnknown
  <2>9. DOMAIN started' = Keys /\ DOMAIN answered' = Keys /\ stoppedKeys' \subseteq Keys
    BY <1>1, <2>1 DEF KeysInv
  <2>10. ASSUME NEW k \in Keys
         PROVE  IF k \in DOMAIN requests' THEN KeyEntry(k)' ELSE KeyUnknown(k)'
    <3> HIDE DEF key
    <3>1. CASE k = key
      BY <2>3, <2>6, <3>1
    <3>2. CASE k \in DOMAIN requests
      BY <2>3, <2>7, <3>2
    <3>3. CASE k # key /\ k \notin DOMAIN requests
      BY <2>3, <2>8, <3>3
    <3> QED
      BY <3>1, <3>2, <3>3
  <2> QED
    BY <1>3, <2>4, <2>5, <2>9, <2>10 DEF KeysInv
<1> QED
  BY <1>4, <1>5

\* The map of a new process is empty.
LEMMA RequestsInitKeys == RequestsInit => KeysInv
<1> SUFFICES ASSUME RequestsInit PROVE KeysInv
  OBVIOUS
<1> USE RequestAssumption DEF RequestAssumption
<1>1. DOMAIN requests = {} /\ requests \in [DOMAIN requests -> RequestEntry]
  BY DEF RequestsInit, NoEntries
<1>2. Cardinality(DOMAIN requests) <= MaxRequests
  BY <1>1, FS_EmptySet
<1> QED
  BY <1>1, <1>2 DEF RequestsInit, KeysInv, KeyUnknown, CreatingInv, NoCall

LEMMA KeysStep == ASSUME ClientInv, KeysInv, [ClientNext]_clientVars PROVE KeysInv'
<1>1. RegistryInv
  BY DEF ClientInv
<1>2. CASE ManagerStep \/ LegacyStart \/ ViewStep
  <2>1. UNCHANGED requestVars
    BY <1>2 DEF ManagerStep, LegacyStart, ViewStep, requestVars
  <2> QED
    BY <1>1, <1>2, <2>1, ClientServes, UntouchedKeys
<1>3. CASE RequestStep
  BY <1>1, <1>3, CreateBeginKeys, CreateFailsKeys, CancelJobsKeys, RequestAgesKeys
  DEF RequestStep, Clients
<1>4. CASE CreateStep
  BY <1>4, CreateStartsKeys DEF CreateStep
<1>5. CASE ProcessEnds
  <2>1. RequestsInit'
    BY <1>5 DEF ProcessEnds
  <2> QED
    BY <2>1, RequestsInitKeys, PTL
<1>6. CASE UNCHANGED clientVars
  BY <1>1, <1>6, UntouchedKeys DEF clientVars, Serving
<1> QED
  BY <1>2, <1>3, <1>4, <1>5, <1>6 DEF ClientNext

\* However often a named request is sent, aged, retried or stopped, it starts
\* at most one job, every answer names that job and that body, no job of a
\* stopped request runs on, and the map stays within its capacity.
THEOREM KeysAreHonoured == ClientSpec => []RequestsHonoured
<1>1. ClientInit => KeysInv
  BY RequestsInitKeys DEF ClientInit
<1>2. ClientInv /\ KeysInv /\ [ClientNext]_clientVars => KeysInv'
  BY KeysStep
<1>3. ASSUME KeysInv PROVE RequestsHonoured
  <2>1. ASSUME NEW k \in Keys
        PROVE  /\ \E id : started[k] \subseteq {id} /\ \A a \in answered[k] : a[1] \in started[k]
               /\ \E a : answered[k] \subseteq {a}
    BY <1>3 DEF KeysInv, KeyEntry, KeyUnknown
  <2>2. \A S, x : S \subseteq {x} => Cardinality(S) <= 1
    <3> SUFFICES ASSUME NEW S, NEW x, S \subseteq {x} PROVE Cardinality(S) <= 1
      OBVIOUS
    <3>1. S = {} \/ S = {x}
      OBVIOUS
    <3>2. Cardinality({}) = 0 /\ Cardinality({x}) = 1
      BY FS_EmptySet, FS_Singleton
    <3> QED
      BY <3>1, <3>2
  <2>3. OneJobPerKey
    BY <2>1, <2>2 DEF OneJobPerKey
  <2>4. StoppedRequestNeverRuns
    BY <1>3 DEF StoppedRequestNeverRuns, KeysInv, KeyEntry, KeyUnknown
  <2>5. RequestsTypeOK
    BY <1>3 DEF RequestsTypeOK, KeysInv, CreatingInv, RequestEntry
  <2> QED
    BY <1>3, <2>3, <2>4, <2>5 DEF RequestsHonoured, RequestsBounded, KeysInv
<1> QED
  BY <1>1, <1>2, <1>3, ClientInvariant, PTL DEF ClientSpec

-----------------------------------------------------------------------------
(* A library on screen keeps its scan, and one that nobody shows keeps none. *)

\* Ids only grow while a process serves, and an admitted job keeps its kind and
\* its library, whatever is merged into it.
LEMMA ServingKeepsSpecs ==
    ASSUME RegistryInv, Serving
    PROVE  /\ nextId \in Nat /\ nextId' \in Nat /\ nextId <= nextId'
           /\ \A id \in 1..(nextId - 1) :
                 spec'[id].kind = spec[id].kind /\ spec'[id].library = spec[id].library
<1> DEFINE SameSpec(id) == spec'[id].kind = spec[id].kind /\ spec'[id].library = spec[id].library
<1>1. nextId \in Nat /\ nextId' \in Nat /\ nextId <= nextId'
  BY ServingIsNext, StepInv, ServingKeepsFlags DEF RegistryInv, TypeOK, RegistryTypeOK
<1>2. spec \in [JobIds -> JobSpec \cup {NoSpec}] /\ 1..(nextId - 1) \subseteq JobIds
  BY DEF RegistryInv, TypeOK, JobTypeOK, RegistryTypeOK, JobIds
<1>3. ASSUME NEW r \in Requests, MergeQueuedScan(r) PROVE \A id \in 1..(nextId - 1) : SameSpec(id)
  <2>1. PICK q \in QueuedFor(r.library) : spec' = [spec EXCEPT ![q] = Merge(spec[q], r)]
    BY <1>3 DEF MergeQueuedScan
  <2>2. q \in JobIds /\ spec[q].kind = "libraryScan"
    BY <2>1 DEF QueuedFor, RangeOf, RegistryInv, TypeOK, RegistryTypeOK
  <2>3. spec[q] \in JobSpec
    BY <1>2, <2>2 DEF NoSpec
  <2>4. Merge(spec[q], r).kind = spec[q].kind /\ Merge(spec[q], r).library = spec[q].library
    BY <2>3 DEF Merge, JobSpec
  <2> QED
    BY <1>2, <2>1, <2>4
<1>4. ASSUME NEW r \in Requests, Admit(r) PROVE \A id \in 1..(nextId - 1) : SameSpec(id)
  BY <1>1, <1>2, <1>4 DEF Admit
<1>5. ASSUME NEW r \in Requests, Start(r) PROVE \A id \in 1..(nextId - 1) : SameSpec(id)
  BY <1>3, <1>4, <1>5 DEF Start
<1>6. ASSUME NEW id \in JobIds, WorkerStep(id) PROVE UNCHANGED spec
  BY <1>6 DEF WorkerStep, WorkerBegin, WorkerReturn, WorkerReport, WorkerCheck, WorkerClear,
              WorkerFinish, jobCells
<1>7. ASSUME NEW c \in Callers, CallerStep(c) PROVE UNCHANGED spec
  BY <1>7 DEF CallerStep, CancelRead, CancelStore, CancelPublish, CancelClear, CancelRemove,
              CancelDequeue, StopClear, jobCells
<1>8. ASSUME NEW c \in Callers, Stop(c) \/ \E id \in JobIds : CancelLookup(c, id)
      PROVE  UNCHANGED spec
  BY <1>8 DEF Stop, CancelLookup, jobCells
<1>9. ASSUME ShutdownFlag \/ ShutdownStep PROVE UNCHANGED spec
  BY <1>9 DEF ShutdownFlag, ShutdownStep, ShutdownSnapshot, ShutdownCancel, jobCells
<1>10. CASE Recover
  BY <1>1, <1>4, <1>10 DEF Recover, jobCells
<1>11. CASE UNCHANGED vars
  BY <1>1, <1>11 DEF vars
<1> QED
  BY <1>1, <1>5, <1>6, <1>7, <1>8, <1>9, <1>10, <1>11 DEF Serving

\* A retained job that is a scan of a library after a step was one before it.
LEMMA RetainedScans ==
    ASSUME RegistryInv, Serving, NEW l \in Libraries, NEW id \in jobs, id \in ScansOf(l)'
    PROVE  id \in ScansOf(l)
<1>1. id \in 1..(nextId - 1)
  BY DEF RegistryInv
<1>2. spec[id].kind = "libraryScan" /\ spec[id].library = l /\ ~IsTerminal(id)'
  BY <1>1, ServingKeepsSpecs DEF ScansOf
<1> QED
  BY <1>1, <1>2, ServingKeepsOver DEF ScansOf

\* A step of the manager that starts no scan.
Quiet ==
    \/ \E id \in JobIds : WorkerStep(id)
    \/ \E c \in Callers : CallerStep(c) \/ Stop(c) \/ \E id \in JobIds : CancelLookup(c, id)
    \/ ShutdownFlag \/ ShutdownStep \/ Recover
    \/ UNCHANGED vars

\* It leaves a library no scan that it did not have.
LEMMA NoNewScans ==
    ASSUME RegistryInv, Quiet, NEW l \in Libraries
    PROVE  ScansOf(l)' \subseteq ScansOf(l)
<1>1. Serving
  BY DEF Quiet, Serving
<1>2. CASE jobs' = jobs
  <2>1. \A id \in ScansOf(l)' : id \in jobs
    BY <1>2 DEF ScansOf
  <2> QED
    BY <1>1, <2>1, RetainedScans
<1>3. ASSUME NEW r \in Requests, r.kind = "thumbnailGenerate", Admit(r)
      PROVE  ScansOf(l)' \subseteq ScansOf(l)
  <2>1. spec'[nextId] = r
    BY <1>3 DEF Admit, RegistryInv, TypeOK, JobTypeOK, RegistryTypeOK, JobIds
  <2>2. \A id \in ScansOf(l)' : id \in jobs
    BY <1>3, <2>1, RetainedProperties DEF Admit, ScansOf
  <2> QED
    BY <1>1, <2>2, RetainedScans
<1>4. ASSUME NEW id \in JobIds, WorkerStep(id) PROVE jobs' = jobs
  BY <1>4 DEF WorkerStep, WorkerBegin, WorkerReturn, WorkerReport, WorkerCheck, WorkerClear,
              WorkerFinish, registry
<1>5. ASSUME NEW c \in Callers, CallerStep(c) PROVE jobs' = jobs
  BY <1>5 DEF CallerStep, CancelRead, CancelStore, CancelPublish, CancelClear, CancelRemove,
              CancelDequeue, StopClear, registry
<1>6. ASSUME NEW c \in Callers, Stop(c) \/ \E id \in JobIds : CancelLookup(c, id)
      PROVE  jobs' = jobs
  BY <1>6 DEF Stop, CancelLookup, registry
<1>7. ASSUME ShutdownFlag \/ ShutdownStep PROVE jobs' = jobs
  BY <1>7 DEF ShutdownFlag, ShutdownStep, ShutdownSnapshot, ShutdownCancel, registry
<1>8. CASE Recover
  BY <1>2, <1>3, <1>8 DEF Recover, registry
<1>9. CASE UNCHANGED vars
  BY <1>2, <1>9 DEF vars
<1> QED
  BY <1>2, <1>4, <1>5, <1>6, <1>7, <1>8, <1>9 DEF Quiet

\* The one scan a start can add to those of a library is the scan it lands in.
LEMMA StartedScans ==
    ASSUME RegistryInv, NEW r \in Requests, Start(r), NEW l \in Libraries, NEW id \in ScansOf(l)'
    PROVE  id \in ScansOf(l) \/ (r.kind = "libraryScan" /\ r.library = l /\ id = JobOf(r))
<1>1. Serving
  BY DEF Serving
<1>2. CASE id \in jobs
  BY <1>1, <1>2, RetainedScans
<1>3. CASE id \notin jobs
  <2>1. ~(r.kind = "libraryScan" /\ QueuedFor(r.library) # {})
    BY <1>3 DEF Start, MergeQueuedScan, registry, ScansOf
  <2>2. Admit(r) /\ JobOf(r) = nextId
    BY <2>1 DEF Start, JobOf
  <2>3. spec'[nextId] = r /\ id = nextId
    BY <1>3, <2>2, RetainedProperties
    DEF Admit, ScansOf, RegistryInv, TypeOK, JobTypeOK, RegistryTypeOK, JobIds
  <2> QED
    BY <2>2, <2>3 DEF ScansOf
<1> QED
  BY <1>2, <1>3

\* The scan a start lands in is one of the library it was started for.
LEMMA StartedScanOf ==
    ASSUME RegistryInv, NEW r \in Requests, Start(r), r.kind = "libraryScan"
    PROVE  JobOf(r) \in 1..(nextId' - 1) /\ spec'[JobOf(r)].library = r.library
<1>1. JobOf(r) \in JobIds /\ JobOf(r) < nextId' /\ nextId' \in Nat /\ Serving
  BY StartedJob, ServingKeepsSpecs DEF Serving
<1>2. CASE QueuedFor(r.library) # {}
  <2>1. JobOf(r) \in QueuedFor(r.library)
    BY <1>2 DEF JobOf
  <2>2. PICK i \in DOMAIN queued : queued[i] = JobOf(r)
    BY <2>1 DEF QueuedFor, RangeOf
  <2>3. JobOf(r) \in 1..(nextId - 1) /\ spec[JobOf(r)].library = r.library
    BY <1>1, <2>1, <2>2 DEF QueuedFor, RegistryInv, QueueEntry, TypeOK, RegistryTypeOK, JobIds
  <2> QED
    BY <1>1, <2>3, ServingKeepsSpecs DEF JobIds
<1>3. CASE QueuedFor(r.library) = {}
  <2>1. JobOf(r) = nextId /\ Admit(r)
    BY <1>3 DEF JobOf, Start
  <2> QED
    BY <1>1, <2>1 DEF Admit, JobIds, RegistryInv, TypeOK, JobTypeOK
<1> QED
  BY <1>2, <1>3

\* A job that is cancelled, or that the thread of the views has found and not
\* flagged yet.
Stopping(id) ==
    \/ cancelRequested[id]
    \/ caller[ViewThread].pc \in {"lookedUp", "store"} /\ caller[ViewThread].id = id

\* Such a job is never let go of while its process serves.
LEMMA ServingKeepsStopping ==
    ASSUME RegistryInv, Serving, NEW id \in JobIds, Stopping(id)
    PROVE  Stopping(id)'
<1> USE ViewAssumption DEF ViewAssumption, Stopping
<1>1. caller \in [Callers -> CallerState] /\ cancelRequested \in [JobIds -> BOOLEAN]
  BY DEF RegistryInv, TypeOK, JobTypeOK
<1>2. CASE cancelRequested[id]
  BY <1>2, ServingKeepsFlags
<1>3. CASE caller[ViewThread].pc \in {"lookedUp", "store"} /\ caller[ViewThread].id = id
  <2>1. CASE caller'[ViewThread] = caller[ViewThread]
    BY <1>3, <2>1
  <2>2. ASSUME NEW c \in Callers, CallerStep(c) PROVE Stopping(id)'
    <3>1. CASE c = ViewThread
      <4>1. CASE CancelRead(c)
        BY <1>1, <1>3, <3>1, <4>1 DEF CancelRead, CallerState
      <4>2. CASE CancelStore(c)
        BY <1>1, <1>3, <3>1, <4>2 DEF CancelStore
      <4> QED
        BY <1>3, <2>2, <3>1, <4>1, <4>2
        DEF CallerStep, CancelPublish, CancelClear, CancelRemove, CancelDequeue, StopClear
    <3>2. CASE c # ViewThread
      <4>1. caller'[ViewThread] = caller[ViewThread]
        BY <1>1, <2>2, <3>2
        DEF CallerStep, CancelRead, CancelStore, CancelPublish, CancelClear, AfterClear, CancelRemove,
            CancelDequeue, StopClear
      <4> QED
        BY <2>1, <4>1
    <3> QED
      BY <3>1, <3>2
  <2>3. ASSUME NEW c \in Callers, Stop(c) \/ \E j \in JobIds : CancelLookup(c, j)
        PROVE  caller'[ViewThread] = caller[ViewThread]
    <3>1. c # ViewThread
      BY <1>3, <2>3 DEF Stop, CancelLookup
    <3> QED
      BY <1>1, <2>3, <3>1 DEF Stop, CancelLookup
  <2>4. ASSUME NEW j \in JobIds, WorkerStep(j) PROVE UNCHANGED caller
    BY <2>4 DEF WorkerStep, WorkerBegin, WorkerReturn, WorkerReport, WorkerCheck, WorkerClear,
                WorkerFinish
  <2>5. ASSUME ShutdownFlag \/ ShutdownStep \/ Recover \/ UNCHANGED vars PROVE UNCHANGED caller
    BY <2>5 DEF ShutdownFlag, ShutdownStep, ShutdownSnapshot, ShutdownCancel, Recover, vars
  <2>6. ASSUME NEW r \in Requests, Start(r) PROVE UNCHANGED caller
    BY <2>6 DEF Start
  <2> QED
    BY <2>1, <2>2, <2>3, <2>4, <2>5, <2>6 DEF Serving
<1> QED
  BY <1>2, <1>3 DEF Stopping

\* Steps that leave the views and their update alone keep what is shown of
\* them, as long as each new scan is one a client asked for.
LEMMA UntouchedViews ==
    ASSUME RegistryInv, ViewsInv, Serving, UNCHANGED <<views, visited, viewer, served>>,
           wanted \subseteq wanted',
           \A l \in Libraries : \A id \in ScansOf(l)' : id \in ScansOf(l) \/ id \in wanted'
    PROVE  ViewsInv'
<1> USE ViewAssumption DEF ViewAssumption
<1>1. /\ nextId \in Nat /\ nextId' \in Nat /\ nextId <= nextId'
      /\ \A id \in 1..(nextId - 1) : spec'[id].library = spec[id].library
      /\ jobs \subseteq JobIds
  <2>1. jobs \subseteq JobIds
    BY DEF RegistryInv, TypeOK, RegistryTypeOK
  <2> QED
    BY <2>1, ServingKeepsSpecs
<1>2. ViewsStateOK'
  BY DEF ViewsInv, ViewsStateOK, ViewsTypeOK
<1>3. UpdateFits'
  BY DEF ViewsInv, UpdateFits, Viewed, ViewedBeside
<1>4. viewer.todo \subseteq JobIds
  BY DEF ViewsInv, ViewsStateOK, ViewsTypeOK
<1>5. StopUnviewed'
  <2>1. viewer.pc \in {"list", "cancel"} => viewer.stop \in Libraries /\ ~Viewed(viewer.stop)'
    BY DEF ViewsInv, StopUnviewed, Viewed
  <2>2. ASSUME viewer.pc = "cancel", NEW id \in viewer.todo
        PROVE  id < nextId' /\ spec'[id].library = viewer.stop
    <3>1. id < nextId /\ spec[id].library = viewer.stop /\ id \in JobIds
      BY <1>4, <2>2 DEF ViewsInv, StopUnviewed
    <3> QED
      BY <1>1, <3>1 DEF JobIds
  <2> QED
    BY <2>1, <2>2 DEF StopUnviewed
<1>6. ServedInv'
  <2>1. ASSUME NEW l \in Libraries, served[l] # None
        PROVE  served[l] \in 1..(nextId' - 1) /\ spec'[served[l]].library = l
    <3>1. served[l] \in 1..(nextId - 1) /\ spec[served[l]].library = l
      BY <2>1 DEF ViewsInv, ServedInv
    <3> QED
      BY <1>1, <3>1
  <2> QED
    BY <2>1 DEF ViewsInv, ServedInv, Viewed
<1>7. ScansAccounted'
  <2> SUFFICES ASSUME NEW l \in Libraries, NEW id \in ScansOf(l)', id \notin wanted'
               PROVE  Accounted(l, id)'
    BY DEF ScansAccounted, Accounted
  <2>1. id \in ScansOf(l) /\ id \in JobIds
    BY <1>1 DEF ScansOf
  <2>2. Accounted(l, id)
    BY <2>1 DEF ViewsInv, ScansAccounted
  <2>3. Stopping(id) => Stopping(id)'
    BY <2>1, ServingKeepsStopping
  <2> QED
    BY <2>2, <2>3 DEF Accounted, Stopping, Viewed
<1> QED
  BY <1>2, <1>3, <1>5, <1>6, <1>7 DEF ViewsInv

\* The manager's own steps, the legacy starts and the routes of the jobs.
LEMMA OthersKeepViews ==
    ASSUME ClientInv, ViewsInv, ManagerStep \/ LegacyStart \/ RequestStep \/ CreateStep
    PROVE  ViewsInv'
<1>1. RegistryInv /\ Serving
  BY ClientServes DEF ClientInv
<1>2. CASE ManagerStep \/ RequestStep
  <2>1. Quiet /\ UNCHANGED viewVars
    BY <1>2
    DEF ManagerStep, RequestStep, CreateBegin, CreateFails, CancelJobs, RequestAges, Clients, Quiet
  <2> QED
    BY <1>1, <2>1, NoNewScans, UntouchedViews DEF viewVars
<1>3. CASE LegacyStart
  <2>1. PICK r \in Requests : r.kind = "thumbnailGenerate" /\ Start(r)
    BY <1>3 DEF LegacyStart
  <2>2. \A l \in Libraries : ScansOf(l)' \subseteq ScansOf(l)
    BY <1>1, <2>1, StartedScans
  <2> QED
    BY <1>1, <1>3, <2>2, UntouchedViews DEF LegacyStart, viewVars
<1>4. CASE CreateStep
  <2>1. creating.body \in Requests /\ Start(creating.body)
    BY <1>4 DEF CreateStep, CreateStarts, ClientInv, CallsInv
  <2>2. \A l \in Libraries : \A id \in ScansOf(l)' : id \in ScansOf(l) \/ id \in wanted'
    BY <1>1, <1>4, <2>1, StartedScans DEF CreateStep
  <2> QED
    BY <1>1, <1>4, <2>2, UntouchedViews DEF CreateStep
<1> QED
  BY <1>2, <1>3, <1>4

\* A sweep forgets only windows that show no library.
LEMMA KeptViewsShow ==
    /\ DOMAIN KeptViews \subseteq DOMAIN views
    /\ \A w \in DOMAIN KeptViews : KeptViews[w] = views[w]
    /\ \A w \in DOMAIN views : views[w].library # NoLibrary => w \in DOMAIN KeptViews
  BY DEF KeptViews, PinnedViews, Sweep, Restrict

\* An update that is ignored changes nothing, and one that is taken fits the views
\* it was decided on.
LEMMA SetViewKeeps ==
    ASSUME ViewsInv, NEW w \in Windows, NEW g \in 1..Released, NEW l \in Libraries \cup {NoLibrary},
           SetView(w, g, l)
    PROVE  ViewsInv'
<1> USE ViewAssumption DEF ViewAssumption
<1>1. /\ viewer \in ViewerState /\ viewer.pc = "idle" /\ caller[ViewThread].pc = "idle"
      /\ views' = KeptViews /\ UNCHANGED <<visited, wanted, served>>
      /\ UNCHANGED <<nextId, spec, cancelRequested, caller, jobs, status>>
  BY DEF SetView, ViewsInv, ViewsStateOK, vars
<1>2. \A x \in Libraries : ScansOf(x)' = ScansOf(x)
  BY <1>1 DEF ScansOf, IsTerminal
<1>3. \A x \in Libraries : Viewed(x)' <=> Viewed(x)
  BY <1>1, KeptViewsShow DEF Viewed, NoLibrary
<1>4. ViewsTypeOK /\ DOMAIN served = Libraries
  BY DEF ViewsInv, ViewsStateOK
<1>5. ASSUME viewer' = viewer PROVE ViewsInv'
  <2>1. ViewsStateOK'
    BY <1>1, <1>4, <1>5, KeptViewsShow DEF ViewsStateOK, ViewsTypeOK
  <2>2. UpdateFits' /\ StopUnviewed'
    BY <1>1, <1>5 DEF UpdateFits, StopUnviewed
  <2>3. ServedInv'
    BY <1>1, <1>3, <1>5 DEF ViewsInv, ServedInv
  <2>4. ScansAccounted'
    <3> SUFFICES ASSUME NEW x \in Libraries, NEW id \in ScansOf(x)' PROVE Accounted(x, id)'
      BY DEF ScansAccounted
    <3>1. Accounted(x, id)
      BY <1>2 DEF ViewsInv, ScansAccounted
    <3> QED
      BY <1>1, <1>3, <1>5, <3>1 DEF Accounted
  <2> QED
    BY <2>1, <2>2, <2>3, <2>4 DEF ViewsInv
<1>6. ASSUME ~Stale(KeptViews, w, g),
             viewer' = [NoUpdate EXCEPT !.pc = "decided", !.window = w,
                            !.generation = g, !.library = l,
                            !.start = StartOf(KeptViews, l), !.stop = StopOf(KeptViews, w, l)]
      PROVE  ViewsInv'
  <2>1. /\ viewer'.pc = "decided" /\ viewer'.window = w /\ viewer'.generation = g
        /\ viewer'.library = l /\ viewer'.todo = {}
        /\ viewer'.start = StartOf(KeptViews, l) /\ viewer'.stop = StopOf(KeptViews, w, l)
    BY <1>6 DEF NoUpdate
  <2>2. StartOf(KeptViews, l) \in {l, NoLibrary}
    BY DEF StartOf
  <2>3. StopOf(KeptViews, w, l) \in Libraries \cup {NoLibrary}
    BY <1>4, KeptViewsShow DEF StopOf, ViewsTypeOK
  <2>4. ViewsStateOK'
    <3>1. viewer' \in ViewerState
      <4> DEFINE start == StartOf(KeptViews, l)  stop == StopOf(KeptViews, w, l)
      <4>1. viewer' = [pc |-> "decided", window |-> w, generation |-> g, library |-> l,
                       start |-> start, stop |-> stop, todo |-> {}]
        BY <1>6 DEF NoUpdate
      <4>2. start \in Libraries \cup {NoLibrary} /\ stop \in Libraries \cup {NoLibrary}
            /\ g \in 0..Released
        BY <2>2, <2>3 DEF Released
      <4> HIDE DEF start, stop
      <4> QED
        BY <4>1, <4>2 DEF ViewerState
    <3>2. ViewsTypeOK'
      BY <1>1, <1>4, <2>1, KeptViewsShow DEF ViewsTypeOK
    <3> QED
      BY <1>1, <1>4, <3>1, <3>2 DEF ViewsStateOK
  <2>5. UpdateFits'
    <3>1. w \in DOMAIN KeptViews => KeptViews[w].generation < g
      <4> SUFFICES ASSUME w \in DOMAIN KeptViews PROVE KeptViews[w].generation < g
        OBVIOUS
      <4>1. ~(g <= KeptViews[w].generation)
        BY <1>6 DEF Stale
      <4>2. KeptViews[w].generation \in 1..Released
        BY <1>4, KeptViewsShow DEF ViewsTypeOK
      <4> QED
        BY <4>1, <4>2 DEF Released
    <3>2. (\E v \in DOMAIN KeptViews : KeptViews[v].library = l) \/ StartOf(KeptViews, l) = l
      BY DEF StartOf
    <3>3. ASSUME NEW x \in Libraries \ {l}, NEW v \in DOMAIN KeptViews, KeptViews[v].library = x
          PROVE  \/ \E u \in DOMAIN KeptViews \ {w} : KeptViews[u].library = x
                 \/ StopOf(KeptViews, w, l) = x
      BY <3>3 DEF StopOf
    <3>4. StopOf(KeptViews, w, l) # NoLibrary =>
              /\ StopOf(KeptViews, w, l) # l
              /\ \A u \in DOMAIN KeptViews \ {w} : KeptViews[u].library # StopOf(KeptViews, w, l)
      BY DEF StopOf
    <3> QED
      BY <1>1, <2>1, <2>2, <3>1, <3>2, <3>3, <3>4 DEF UpdateFits, Viewed, ViewedBeside
  <2>6. StopUnviewed'
    BY <2>1 DEF StopUnviewed
  <2>7. ServedInv'
    BY <1>1, <1>3, <2>1 DEF ViewsInv, ServedInv
  <2>8. ScansAccounted'
    <3> SUFFICES ASSUME NEW x \in Libraries, NEW id \in ScansOf(x)' PROVE Accounted(x, id)'
      BY DEF ScansAccounted
    <3>1. Accounted(x, id)
      BY <1>2 DEF ViewsInv, ScansAccounted
    <3> QED
      BY <1>1, <1>3, <3>1 DEF Accounted
  <2> QED
    BY <2>4, <2>5, <2>6, <2>7, <2>8 DEF ViewsInv
<1> QED
  BY <1>5, <1>6 DEF SetView

\* Giving a library a scan: the scan the start lands in is the only new one, and
\* it is the scan the library is served by from then on.
LEMMA StartServes ==
    ASSUME ClientInv, ViewsInv, NEW l \in Libraries, NEW p \in BOOLEAN, Start(FastScan(l, p)),
           served' = [served EXCEPT ![l] = ScanOf(l)]
    PROVE  /\ Serving /\ DOMAIN served' = Libraries
           /\ \A x \in Libraries : \A id \in ScansOf(x)' : id \in ScansOf(x) \/ x = l
           /\ served'[l] # None
           /\ \A x \in Libraries : x # l => served'[x] = served[x]
           /\ \A x \in Libraries :
                 served'[x] # None =>
                     served'[x] \in 1..(nextId' - 1) /\ spec'[served'[x]].library = x
<1> USE ViewAssumption DEF ViewAssumption
<1> DEFINE r == FastScan(l, p)
<1>1. r \in Requests /\ r.kind = "libraryScan" /\ r.library = l
  BY DEF FastScan
<1>2. ScanOf(l) = JobOf(r)
  BY <1>1 DEF ScanOf, JobOf
<1>3. RegistryInv /\ Serving /\ DOMAIN served = Libraries
  BY <1>1 DEF ClientInv, Serving, ViewsInv, ViewsStateOK
<1> HIDE DEF r
<1>4. JobOf(r) \in 1..(nextId' - 1) /\ spec'[JobOf(r)].library = l
  BY <1>1, <1>3, StartedScanOf DEF r
<1>5. \A x \in Libraries : \A id \in ScansOf(x)' : id \in ScansOf(x) \/ x = l
  BY <1>1, <1>3, StartedScans DEF r
<1>6. served'[l] = JobOf(r) /\ \A x \in Libraries : x # l => served'[x] = served[x]
  BY <1>2, <1>3
<1>7. ASSUME NEW x \in Libraries, served'[x] # None
      PROVE  served'[x] \in 1..(nextId' - 1) /\ spec'[served'[x]].library = x
  <2>1. CASE x = l
    BY <1>4, <1>6, <2>1
  <2>2. CASE x # l
    <3>1. served'[x] = served[x] /\ served[x] \in 1..(nextId - 1) /\ spec[served[x]].library = x
      BY <1>6, <1>7, <2>2 DEF ViewsInv, ServedInv
    <3> QED
      BY <1>3, <3>1, ServingKeepsSpecs
  <2> QED
    BY <2>1, <2>2
<1>8. served'[l] # None
  BY <1>4, <1>6 DEF None
<1> QED
  BY <1>3, <1>5, <1>6, <1>7, <1>8

\* A scheduled scan is the one the update starts; an update that fails is dropped.
LEMMA ScheduleKeeps ==
    ASSUME ClientInv, ViewsInv, ViewSchedule
    PROVE  ViewsInv'
<1> USE ViewAssumption DEF ViewAssumption
<1>1. /\ viewer \in ViewerState /\ viewer.pc = "decided" /\ UNCHANGED <<views, visited, wanted>>
      /\ ViewsTypeOK /\ DOMAIN served = Libraries
  BY DEF ViewSchedule, ViewsInv, ViewsStateOK
<1>2. ASSUME viewer' = [viewer EXCEPT !.pc = "commit"]
      PROVE  /\ viewer' \in ViewerState /\ viewer'.pc = "commit" /\ viewer'.start = viewer.start
             /\ ViewsTypeOK' /\ UpdateFits' /\ StopUnviewed'
  <2>1. /\ viewer' \in ViewerState /\ viewer'.pc = "commit" /\ viewer'.window = viewer.window
        /\ viewer'.generation = viewer.generation /\ viewer'.library = viewer.library
        /\ viewer'.start = viewer.start /\ viewer'.stop = viewer.stop /\ viewer'.todo = viewer.todo
    BY <1>1, <1>2 DEF ViewerState
  <2>2. ViewsTypeOK'
    BY <1>1, <2>1 DEF ViewsTypeOK
  <2>3. UpdateFits'
    BY <1>1, <2>1 DEF ViewsInv, UpdateFits, Viewed, ViewedBeside
  <2> QED
    BY <2>1, <2>2, <2>3 DEF StopUnviewed
<1>3. ASSUME UNCHANGED vars, UNCHANGED served, viewer' \in ViewerState, ViewsTypeOK',
             UpdateFits', StopUnviewed',
             viewer'.pc = "commit" => viewer'.start = NoLibrary
      PROVE  ViewsInv'
  <2>1. UNCHANGED <<nextId, spec, cancelRequested, caller, jobs, status>>
    BY <1>3 DEF vars
  <2>2. \A x \in Libraries : ScansOf(x)' = ScansOf(x)
    BY <2>1 DEF ScansOf, IsTerminal
  <2>3. ServedInv'
    BY <1>1, <1>3, <2>1 DEF ViewsInv, ServedInv, Viewed, NoLibrary
  <2>4. ScansAccounted'
    <3> SUFFICES ASSUME NEW x \in Libraries, NEW id \in ScansOf(x)' PROVE Accounted(x, id)'
      BY DEF ScansAccounted
    <3>1. Accounted(x, id)
      BY <2>2 DEF ViewsInv, ScansAccounted
    <3> QED
      BY <1>1, <2>1, <3>1 DEF Accounted, Viewed
  <2> QED
    BY <1>1, <1>3, <2>3, <2>4 DEF ViewsInv, ViewsStateOK
<1>4. CASE viewer.start = NoLibrary /\ viewer' = [viewer EXCEPT !.pc = "commit"]
           /\ UNCHANGED <<vars, served>>
  BY <1>2, <1>3, <1>4
<1>5. CASE viewer' = NoUpdate /\ UNCHANGED <<vars, served>>
  <2>1. viewer'.pc = "idle" /\ viewer'.todo = {} /\ viewer' \in ViewerState
    BY <1>5 DEF NoUpdate, ViewerState, Released, NoLibrary, None
  <2>2. ViewsTypeOK' /\ UpdateFits' /\ StopUnviewed'
    BY <1>1, <2>1 DEF ViewsTypeOK, UpdateFits, StopUnviewed
  <2> QED
    BY <1>3, <1>5, <2>1, <2>2
<1>6. CASE /\ viewer.start # NoLibrary
           /\ Start(FastScan(viewer.start, viewer.start \in visited))
           /\ served' = [served EXCEPT ![viewer.start] = ScanOf(viewer.start)]
           /\ viewer' = [viewer EXCEPT !.pc = "commit"]
  <2> DEFINE l == viewer.start
  <2>1. l \in Libraries /\ (l \in visited) \in BOOLEAN
    BY <1>1, <1>6 DEF ViewerState
  <2> HIDE DEF l
  <2>2. /\ Serving /\ DOMAIN served' = Libraries
        /\ \A x \in Libraries : \A id \in ScansOf(x)' : id \in ScansOf(x) \/ x = l
        /\ served'[l] # None
        /\ \A x \in Libraries : x # l => served'[x] = served[x]
        /\ \A x \in Libraries :
              served'[x] # None =>
                  served'[x] \in 1..(nextId' - 1) /\ spec'[served'[x]].library = x
    BY <1>6, <2>1, StartServes DEF l
  <2>3. viewer'.pc = "commit" /\ viewer'.start = l
    BY <1>2, <1>6 DEF l
  <2>4. ServedInv'
    <3>1. \A x \in Libraries : Viewed(x)' => served'[x] # None
      BY <1>1, <2>2 DEF ViewsInv, ServedInv, Viewed
    <3> QED
      BY <2>2, <2>3, <3>1 DEF ServedInv
  <2>5. ScansAccounted'
    <3> SUFFICES ASSUME NEW x \in Libraries, NEW id \in ScansOf(x)' PROVE Accounted(x, id)'
      BY DEF ScansAccounted
    <3>1. CASE x = l
      BY <2>3, <3>1 DEF Accounted
    <3>2. CASE x # l
      <4>1. id \in ScansOf(x) /\ Accounted(x, id)
        BY <2>2, <3>2 DEF ViewsInv, ScansAccounted
      <4>2. id \in JobIds /\ RegistryInv
        BY <4>1 DEF ScansOf, ClientInv, RegistryInv, TypeOK, RegistryTypeOK
      <4>3. Stopping(id) => Stopping(id)'
        BY <2>2, <4>2, ServingKeepsStopping
      <4> QED
        BY <1>1, <4>1, <4>3 DEF Accounted, Stopping, Viewed
    <3> QED
      BY <3>1, <3>2
  <2> QED
    BY <1>2, <1>6, <2>2, <2>4, <2>5 DEF ViewsInv, ViewsStateOK
<1> QED
  BY <1>4, <1>5, <1>6 DEF ViewSchedule

\* A commit shows the library it has a scan for, and goes on to stop the one it
\* hides.
LEMMA CommitKeeps == ASSUME ViewsInv, ViewCommit PROVE ViewsInv'
<1> USE ViewAssumption DEF ViewAssumption
<1> DEFINE entry == [generation |-> viewer.generation, library |-> viewer.library, aged |-> FALSE]
<1>1. /\ viewer \in ViewerState /\ viewer.pc = "commit" /\ ViewsTypeOK /\ UpdateFits
      /\ DOMAIN served = Libraries
      /\ UNCHANGED <<wanted, served>>
      /\ UNCHANGED <<nextId, spec, cancelRequested, caller, jobs, status>>
  BY DEF ViewCommit, ViewsInv, ViewsStateOK, vars
<1>2. /\ DOMAIN views' = DOMAIN views \cup {viewer.window} /\ views'[viewer.window] = entry
      /\ \A v \in DOMAIN views \ {viewer.window} : views'[v] = views[v]
  BY DEF ViewCommit, Insert
<1>3. \A x \in Libraries : Viewed(x)' <=> ViewedBeside(x) \/ viewer.library = x
  <2>1. \A x : Viewed(x)' <=> \E v \in DOMAIN views' : views'[v].library = x
    BY DEF Viewed
  <2> QED
    BY <1>2, <2>1 DEF ViewedBeside
<1>4. \A x \in Libraries : Viewed(x) => ViewedBeside(x) \/ viewer.library = x \/ viewer.stop = x
  BY <1>1 DEF UpdateFits
<1>5. \A x \in Libraries : ScansOf(x)' = ScansOf(x)
  BY <1>1 DEF ScansOf, IsTerminal
<1>6. /\ viewer' \in ViewerState /\ viewer'.pc \in {"idle", "list"} /\ viewer'.todo \subseteq JobIds
      /\ viewer'.pc = "idle" => viewer.stop = NoLibrary
      /\ viewer'.pc = "list" => viewer.stop # NoLibrary /\ viewer'.stop = viewer.stop
  <2>1. CASE viewer.stop = NoLibrary
    BY <2>1 DEF ViewCommit, NoUpdate, ViewerState, Released, NoLibrary, None
  <2>2. CASE viewer.stop # NoLibrary
    <3>1. viewer' = [viewer EXCEPT !.pc = "list"]
      BY <2>2 DEF ViewCommit
    <3> QED
      BY <1>1, <2>2, <3>1 DEF ViewerState
  <2> QED
    BY <2>1, <2>2
<1>7. ViewsStateOK'
  <2>1. viewer.window \in Windows /\ viewer.generation \in 1..Released
    BY <1>1 DEF UpdateFits, ViewerState, Released
  <2>2. entry \in [generation : 1..Released, library : Libraries \cup {NoLibrary}, aged : BOOLEAN]
    BY <1>1, <2>1 DEF ViewerState
  <2>3. visited' \subseteq Libraries
    BY <1>1 DEF ViewCommit, ViewsTypeOK, ViewerState
  <2> HIDE DEF entry
  <2>4. ViewsTypeOK'
    BY <1>1, <1>2, <1>6, <2>1, <2>2, <2>3 DEF ViewsTypeOK
  <2> QED
    BY <1>1, <1>6, <2>4 DEF ViewsStateOK
<1>8. UpdateFits'
  BY <1>6 DEF UpdateFits
<1>9. StopUnviewed'
  <2>1. viewer'.pc = "list" =>
            /\ viewer'.stop = viewer.stop /\ viewer.stop \in Libraries
            /\ \A v \in DOMAIN views' : views'[v].library # viewer.stop
    <3> SUFFICES ASSUME viewer'.pc = "list"
                 PROVE  /\ viewer'.stop = viewer.stop /\ viewer.stop \in Libraries
                        /\ \A v \in DOMAIN views' : views'[v].library # viewer.stop
      OBVIOUS
    <3>1. /\ viewer'.stop = viewer.stop /\ viewer.stop \in Libraries
          /\ viewer.stop # viewer.library /\ ~ViewedBeside(viewer.stop)
      BY <1>1, <1>6 DEF UpdateFits, ViewerState
    <3> QED
      BY <1>2, <3>1 DEF ViewedBeside
  <2> QED
    BY <1>6, <2>1 DEF StopUnviewed, Viewed
<1>10. ServedInv'
  <2>1. ASSUME NEW x \in Libraries, Viewed(x)' PROVE served[x] # None
    <3>1. ViewedBeside(x) => Viewed(x)
      BY DEF ViewedBeside, Viewed
    <3>2. viewer.library = x => Viewed(x) \/ viewer.start = x
      BY <1>1 DEF UpdateFits
    <3> QED
      BY <1>1, <1>3, <2>1, <3>1, <3>2 DEF ViewsInv, ServedInv
  <2> QED
    BY <1>1, <1>6, <2>1 DEF ViewsInv, ServedInv
<1>11. ScansAccounted'
  <2> SUFFICES ASSUME NEW x \in Libraries, NEW id \in ScansOf(x)' PROVE Accounted(x, id)'
    BY DEF ScansAccounted
  <2>1. Accounted(x, id)
    BY <1>5 DEF ViewsInv, ScansAccounted
  <2>2. Viewed(x) => Viewed(x)' \/ (viewer'.pc = "list" /\ viewer'.stop = x)
    BY <1>3, <1>4, <1>6 DEF NoLibrary
  <2>3. viewer.start = x => Viewed(x)'
    BY <1>1, <1>3 DEF UpdateFits, NoLibrary
  <2> QED
    BY <1>1, <2>1, <2>2, <2>3 DEF Accounted
<1> QED
  BY <1>7, <1>8, <1>9, <1>10, <1>11 DEF ViewsInv

\* The listing takes every scan of the library that is left.
LEMMA ListKeeps == ASSUME RegistryInv, ViewsInv, ViewList PROVE ViewsInv'
<1> USE ViewAssumption DEF ViewAssumption
<1> DEFINE todo == Listed(viewer.stop)
<1>1. /\ viewer \in ViewerState /\ viewer.pc = "list" /\ ViewsTypeOK
      /\ DOMAIN served = Libraries
      /\ UNCHANGED <<views, visited, wanted, served>>
      /\ UNCHANGED <<nextId, spec, cancelRequested, caller, jobs, status>>
  BY DEF ViewList, ViewsInv, ViewsStateOK, vars
<1>2. todo = ScansOf(viewer.stop) /\ todo \subseteq JobIds
  BY DEF Listed, ScansOf, RegistryInv, TypeOK, RegistryTypeOK
<1>3. \A id \in todo : id < nextId /\ spec[id].library = viewer.stop
  BY <1>2 DEF ScansOf, RegistryInv, TypeOK, RegistryTypeOK, JobIds
<1>4. viewer' = IF todo = {} THEN NoUpdate ELSE [viewer EXCEPT !.pc = "cancel", !.todo = todo]
  BY DEF ViewList
<1> HIDE DEF todo
<1>5. /\ viewer' \in ViewerState /\ viewer'.pc \in {"idle", "cancel"} /\ viewer'.todo = todo
      /\ viewer'.pc = "idle" => todo = {}
      /\ viewer'.pc = "cancel" => viewer'.stop = viewer.stop
  <2>1. CASE todo = {}
    BY <1>4, <2>1 DEF NoUpdate, ViewerState, Released, NoLibrary, None
  <2>2. CASE todo # {}
    BY <1>1, <1>2, <1>4, <2>2 DEF ViewerState
  <2> QED
    BY <2>1, <2>2
<1>6. ViewsStateOK'
  BY <1>1, <1>2, <1>5 DEF ViewsStateOK, ViewsTypeOK
<1>7. UpdateFits'
  BY <1>5 DEF UpdateFits
<1>8. StopUnviewed'
  BY <1>1, <1>3, <1>5 DEF ViewsInv, StopUnviewed, Viewed
<1>9. ServedInv'
  BY <1>1, <1>5 DEF ViewsInv, ServedInv, Viewed
<1>10. ScansAccounted'
  <2> SUFFICES ASSUME NEW x \in Libraries, NEW id \in ScansOf(x)' PROVE Accounted(x, id)'
    BY DEF ScansAccounted
  <2>1. id \in ScansOf(x) /\ Accounted(x, id)
    BY <1>1 DEF ViewsInv, ScansAccounted, ScansOf, IsTerminal
  <2>2. viewer.stop = x => viewer'.pc = "cancel" /\ viewer'.stop = x /\ id \in viewer'.todo
    BY <1>2, <1>5, <2>1
  <2> QED
    BY <1>1, <2>1, <2>2 DEF Accounted, Viewed
<1> QED
  BY <1>6, <1>7, <1>8, <1>9, <1>10 DEF ViewsInv

\* A set of ids that is not empty has a smallest one.
LEMMA SmallestId ==
    ASSUME NEW S, S \subseteq JobIds, S # {}
    PROVE  \E i \in S : \A j \in S : i <= j
<1> DEFINE less == {pair \in Nat \X Nat : pair[1] < pair[2]}
<1>1. IsWellFoundedOn(less, Nat)
  BY NatLessThanWellFounded DEF OpToRel
<1>2. S \subseteq Nat
  BY DEF JobIds
<1>3. PICK i \in S : \A j \in S : <<j, i>> \notin less
  <2> HIDE DEF less
  <2> QED
    BY <1>1, <1>2, WFMin
<1>4. \A j \in S : ~(j < i)
  BY <1>2, <1>3
<1> QED
  BY <1>2, <1>4

\* Each scan listed is handed to its cancellation, and no library on screen loses
\* its scan by that.
LEMMA CancelKeeps == ASSUME RegistryInv, ViewsInv, ViewCancel PROVE ViewsInv'
<1> USE ViewAssumption DEF ViewAssumption
<1> DEFINE id == CHOOSE i \in viewer.todo : \A j \in viewer.todo : i <= j
<1>1. /\ viewer \in ViewerState /\ viewer.pc = "cancel" /\ caller[ViewThread].pc = "idle"
      /\ ViewsTypeOK /\ DOMAIN served = Libraries
      /\ viewer.stop \in Libraries /\ ~Viewed(viewer.stop)
      /\ \A i \in viewer.todo : spec[i].library = viewer.stop /\ i < nextId
      /\ UNCHANGED <<views, visited, wanted>>
      /\ caller \in [Callers -> CallerState]
  BY DEF ViewCancel, ViewsInv, ViewsStateOK, StopUnviewed, RegistryInv, TypeOK
<1>2. /\ viewer' = IF viewer.todo = {} THEN NoUpdate ELSE [viewer EXCEPT !.todo = viewer.todo \ {id}]
      /\ IF viewer.todo # {} /\ id \in jobs THEN CancelLookup(ViewThread, id) ELSE UNCHANGED vars
      /\ served' = [l \in Libraries |->
             IF viewer.todo # {} /\ served[l] = id THEN None ELSE served[l]]
  BY DEF ViewCancel
<1>3. viewer.todo # {} => id \in viewer.todo
  BY <1>1, SmallestId DEF ViewerState
<1> HIDE DEF id
<1>4. /\ UNCHANGED <<nextId, spec, cancelRequested, jobs, status>>
      /\ viewer.todo # {} /\ id \in jobs =>
             caller'[ViewThread].pc = "lookedUp" /\ caller'[ViewThread].id = id
  BY <1>1, <1>2 DEF CancelLookup, vars, registry, jobCells
<1>5. /\ viewer' \in ViewerState /\ viewer'.pc \in {"idle", "cancel"}
      /\ viewer'.todo \subseteq viewer.todo
      /\ \A i \in viewer.todo : i \in viewer'.todo \/ i = id
      /\ viewer.todo # {} => viewer'.pc = "cancel" /\ viewer'.stop = viewer.stop
      /\ viewer'.pc = "cancel" => viewer'.stop = viewer.stop
  <2>1. CASE viewer.todo = {}
    BY <1>2, <2>1 DEF NoUpdate, ViewerState, Released, NoLibrary, None
  <2>2. CASE viewer.todo # {}
    BY <1>1, <1>2, <2>2 DEF ViewerState
  <2> QED
    BY <2>1, <2>2
<1>6. ViewsStateOK'
  BY <1>1, <1>2, <1>5 DEF ViewsStateOK, ViewsTypeOK
<1>7. UpdateFits'
  BY <1>5 DEF UpdateFits
<1>8. StopUnviewed'
  BY <1>1, <1>4, <1>5 DEF StopUnviewed, Viewed
<1>9. ServedInv'
  <2>1. ASSUME NEW l \in Libraries, served'[l] # None
        PROVE  served'[l] \in 1..(nextId' - 1) /\ spec'[served'[l]].library = l
    BY <1>2, <1>4, <2>1 DEF ViewsInv, ServedInv
  <2>2. ASSUME NEW l \in Libraries, Viewed(l)' PROVE served'[l] # None
    <3>1. Viewed(l) /\ l # viewer.stop /\ served[l] # None
      BY <1>1, <2>2 DEF Viewed, ViewsInv, ServedInv
    <3>2. spec[served[l]].library = l
      BY <3>1 DEF ViewsInv, ServedInv
    <3>3. ~(viewer.todo # {} /\ served[l] = id)
      BY <1>1, <1>3, <3>1, <3>2
    <3> QED
      BY <1>2, <3>1, <3>3
  <2> QED
    BY <1>5, <2>1, <2>2 DEF ServedInv
<1>10. ScansAccounted'
  <2> SUFFICES ASSUME NEW x \in Libraries, NEW i \in ScansOf(x)' PROVE Accounted(x, i)'
    BY DEF ScansAccounted
  <2>1. i \in jobs /\ Accounted(x, i)
    BY <1>4 DEF ViewsInv, ScansAccounted, ScansOf, IsTerminal
  <2> QED
    BY <1>1, <1>3, <1>4, <1>5, <2>1 DEF Accounted, Viewed
<1> QED
  BY <1>6, <1>7, <1>8, <1>9, <1>10 DEF ViewsInv

\* An edited library that is on screen gets another scan.
LEMMA EditKeeps ==
    ASSUME ClientInv, ViewsInv, NEW l \in Libraries, ScheduleViewedScan(l)
    PROVE  ViewsInv'
<1>1. /\ viewer.pc = "idle" /\ Viewed(l) /\ UNCHANGED <<views, visited, viewer, wanted>>
      /\ Start(FastScan(l, TRUE)) /\ served' = [served EXCEPT ![l] = ScanOf(l)]
  BY DEF ScheduleViewedScan
<1>2. /\ Serving /\ DOMAIN served' = Libraries
      /\ \A x \in Libraries : \A id \in ScansOf(x)' : id \in ScansOf(x) \/ x = l
      /\ served'[l] # None
      /\ \A x \in Libraries : x # l => served'[x] = served[x]
      /\ \A x \in Libraries :
            served'[x] # None =>
                served'[x] \in 1..(nextId' - 1) /\ spec'[served'[x]].library = x
  BY <1>1, StartServes
<1>3. ViewsStateOK'
  BY <1>1, <1>2 DEF ViewsInv, ViewsStateOK, ViewsTypeOK
<1>4. UpdateFits' /\ StopUnviewed'
  BY <1>1 DEF UpdateFits, StopUnviewed
<1>5. ServedInv'
  BY <1>1, <1>2 DEF ViewsInv, ServedInv, Viewed
<1>6. ScansAccounted'
  <2> SUFFICES ASSUME NEW x \in Libraries, NEW id \in ScansOf(x)' PROVE Accounted(x, id)'
    BY DEF ScansAccounted
  <2>1. CASE x = l
    BY <1>1, <2>1 DEF Accounted, Viewed
  <2>2. CASE x # l
    <3>1. id \in ScansOf(x) /\ Accounted(x, id)
      BY <1>2, <2>2 DEF ViewsInv, ScansAccounted
    <3>2. id \in JobIds /\ RegistryInv
      BY <3>1 DEF ScansOf, ClientInv, RegistryInv, TypeOK, RegistryTypeOK
    <3>3. Stopping(id) => Stopping(id)'
      BY <1>2, <3>2, ServingKeepsStopping
    <3> QED
      BY <1>1, <3>1, <3>3 DEF Accounted, Stopping, Viewed
  <2> QED
    BY <2>1, <2>2
<1> QED
  BY <1>3, <1>4, <1>5, <1>6 DEF ViewsInv

\* The age of a view is no part of what is shown of it.
LEMMA AgesKeeps == ASSUME ViewsInv, NEW w \in Windows, ViewAges(w) PROVE ViewsInv'
<1>1. /\ w \in DOMAIN views /\ views' = [views EXCEPT ![w].aged = TRUE]
      /\ UNCHANGED <<visited, viewer, wanted, served>>
      /\ UNCHANGED <<nextId, spec, cancelRequested, caller, jobs, status>>
      /\ ViewsTypeOK
  BY DEF ViewAges, Aged, vars, ViewsInv, ViewsStateOK
<1>2. /\ DOMAIN views' = DOMAIN views /\ views'[w] \in
             [generation : 1..Released, library : Libraries \cup {NoLibrary}, aged : BOOLEAN]
      /\ \A v \in DOMAIN views : v # w => views'[v] = views[v]
      /\ \A v \in DOMAIN views :
            views'[v].generation = views[v].generation /\ views'[v].library = views[v].library
  BY <1>1 DEF ViewsTypeOK
<1>3. ViewsStateOK'
  BY <1>1, <1>2 DEF ViewsInv, ViewsStateOK, ViewsTypeOK
<1>4. \A x : Viewed(x)' <=> Viewed(x)
  BY <1>2 DEF Viewed
<1>5. \A x : ViewedBeside(x)' <=> ViewedBeside(x)
  BY <1>1, <1>2 DEF ViewedBeside
<1>6. UpdateFits'
  <2>1. viewer.window \in DOMAIN views' =>
            views'[viewer.window].generation = views[viewer.window].generation
    BY <1>2
  <2>2. DOMAIN views' = DOMAIN views
    BY <1>2
  <2> QED
    BY <1>1, <1>4, <1>5, <2>1, <2>2 DEF ViewsInv, UpdateFits
<1>7. StopUnviewed' /\ ServedInv'
  BY <1>1, <1>4 DEF ViewsInv, StopUnviewed, ServedInv
<1>8. ScansAccounted'
  BY <1>1, <1>4 DEF ViewsInv, ScansAccounted, ScansOf, IsTerminal, Accounted
<1> QED
  BY <1>3, <1>6, <1>7, <1>8 DEF ViewsInv

\* A process starts with no view and no job.
LEMMA NoViewsYet == ViewsInit /\ jobs = {} => ViewsInv
<1> SUFFICES ASSUME ViewsInit, jobs = {} PROVE ViewsInv
  OBVIOUS
<1> USE ViewAssumption DEF ViewAssumption
<1>1. /\ viewer.pc = "idle" /\ viewer.todo = {} /\ DOMAIN views = {} /\ visited = {}
      /\ DOMAIN served = Libraries /\ \A l \in Libraries : served[l] = None /\ ~Viewed(l)
  BY DEF ViewsInit, NoUpdate, NoEntries, Viewed
<1>2. viewer \in ViewerState
  BY DEF ViewsInit, NoUpdate, ViewerState, Released, NoLibrary, None
<1> QED
  BY <1>1, <1>2
  DEF ViewsInv, ViewsStateOK, ViewsTypeOK, UpdateFits, StopUnviewed, ServedInv, ScansAccounted, ScansOf

\* Every step of the composition keeps what is shown of the views.
LEMMA ViewsStep == ASSUME ClientInv, ViewsInv, [ClientNext]_clientVars PROVE ViewsInv'
<1>1. RegistryInv
  BY DEF ClientInv
<1>2. CASE ViewStep
  <2>1. ASSUME NEW w \in Windows, NEW g \in 1..MaxGeneration, NEW l \in Libraries \cup {NoLibrary},
               SetView(w, g, l)
        PROVE  ViewsInv'
    <3>1. g \in 1..Released
      BY ViewAssumption DEF ViewAssumption, Released
    <3> QED
      BY <2>1, <3>1, SetViewKeeps
  <2>2. ASSUME NEW w \in Windows, SetView(w, Released, NoLibrary) PROVE ViewsInv'
    <3>1. Released \in 1..Released
      BY ViewAssumption DEF ViewAssumption, Released
    <3> QED
      BY <2>2, <3>1, SetViewKeeps
  <2> QED
    BY <1>1, <1>2, <2>1, <2>2, ScheduleKeeps, CommitKeeps, ListKeeps, CancelKeeps, EditKeeps, AgesKeeps
    DEF ViewStep, ViewsNext
<1>3. CASE ProcessEnds
  <2>1. (ViewsInit /\ jobs = {})'
    BY <1>3 DEF ProcessEnds, Restart
  <2> QED
    BY <2>1, NoViewsYet, PTL
<1>4. CASE UNCHANGED clientVars
  <2>1. Quiet /\ UNCHANGED viewVars
    BY <1>4 DEF clientVars, Quiet
  <2>2. Serving
    BY <2>1 DEF Quiet, Serving
  <2> QED
    BY <1>1, <2>1, <2>2, NoNewScans, UntouchedViews DEF viewVars
<1> QED
  BY <1>2, <1>3, <1>4, OthersKeepViews DEF ClientNext

\* What a step may do to the views it keeps.
GenerationsStep ==
    \A w \in DOMAIN views \cap DOMAIN views' :
        \/ views'[w].generation > views[w].generation
        \/ /\ views'[w].generation = views[w].generation
           /\ views'[w].library = views[w].library

\* Only a commit replaces a view, and only by a newer one.
LEMMA StepGenerations == ASSUME ViewsInv, [ClientNext]_clientVars PROVE GenerationsStep
<1> USE ViewAssumption DEF ViewAssumption, GenerationsStep
<1>1. CASE UNCHANGED views
  BY <1>1
<1>2. ASSUME NEW w \in Windows, NEW g, NEW l, SetView(w, g, l) PROVE GenerationsStep
  BY <1>2, KeptViewsShow DEF SetView
<1>3. CASE ViewCommit
  <2>1. /\ viewer.window \in DOMAIN views => views[viewer.window].generation < viewer.generation
        /\ viewer.generation \in Nat
        /\ \A w \in DOMAIN views : views[w].generation \in Nat
    BY <1>3 DEF ViewCommit, ViewsInv, UpdateFits, ViewsStateOK, ViewerState, ViewsTypeOK, Released
  <2>2. /\ views'[viewer.window].generation = viewer.generation
        /\ \A w \in DOMAIN views \ {viewer.window} : views'[w] = views[w]
    BY <1>3 DEF ViewCommit, Insert
  <2> QED
    BY <2>1, <2>2
<1>4. ASSUME NEW w \in Windows, ViewAges(w) PROVE GenerationsStep
  <2>1. w \in DOMAIN views /\ views' = [views EXCEPT ![w].aged = TRUE] /\ ViewsTypeOK
    BY <1>4 DEF ViewAges, Aged, ViewsInv, ViewsStateOK
  <2>2. \A v \in DOMAIN views :
            views'[v].generation = views[v].generation /\ views'[v].library = views[v].library
    BY <2>1 DEF ViewsTypeOK
  <2> QED
    BY <2>2
<1>5. CASE ViewStep
  BY <1>1, <1>2, <1>3, <1>4, <1>5
  DEF ViewStep, ViewsNext, ViewSchedule, ViewList, ViewCancel, ScheduleViewedScan
<1>6. CASE ManagerStep \/ LegacyStart \/ RequestStep \/ CreateStep \/ UNCHANGED clientVars
  BY <1>1, <1>6 DEF ManagerStep, LegacyStart, RequestStep, CreateStep, clientVars, viewVars
<1>7. CASE ProcessEnds
  <2>1. DOMAIN views' = {}
    BY <1>7 DEF ProcessEnds, ViewsInit, NoEntries
  <2> QED
    BY <2>1
<1> QED
  BY <1>5, <1>6, <1>7 DEF ClientNext

\* However updates of any number of windows arrive late, fail and overlap with
\* clients, edits, stops and restarts: a library on screen keeps the scan its
\* views asked for, once nobody shows a library every scan left of it is wanted
\* by a client or cancelled, and a window's view only moves to newer generations.
THEOREM ViewsAlwaysHonoured == ClientSpec => ViewsHonoured
<1>1. ClientInit => ViewsInv
  BY NoViewsYet DEF ClientInit, Init
<1>2. ClientInv /\ ViewsInv /\ [ClientNext]_clientVars => ViewsInv'
  BY ViewsStep
<1>3. ViewsInv => ViewedLibraryServed /\ UnviewedScansStopped
  BY DEF ViewsInv, ServedInv, ScansAccounted, Accounted, ViewedLibraryServed, UnviewedScansStopped,
         Settled
<1>4. ViewsInv /\ [ClientNext]_clientVars => [GenerationsStep]_<<vars, viewVars>>
  BY StepGenerations
<1>5. (GenerationsOnlyGrow <=> [][GenerationsStep]_<<vars, viewVars>>)
  BY PTL DEF GenerationsOnlyGrow, GenerationsStep
<1> QED
  BY <1>1, <1>2, <1>3, <1>4, <1>5, ClientInvariant, PTL DEF ClientSpec, ViewsHonoured
===============================================================================
