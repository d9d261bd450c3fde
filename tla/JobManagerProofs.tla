-------------------------- MODULE JobManagerProofs --------------------------
(***************************************************************************)
(* Machine-checked proofs about JobManager, for any number of jobs,        *)
(* callers, libraries and retained entries.                                *)
(***************************************************************************)
EXTENDS JobManager, FiniteSetTheorems, SequenceTheorems, TLAPS

USE ManagerAssumption DEF ManagerAssumption

\* Init establishes the invariant.
LEMMA InitRegistryInv == Init => RegistryInv
<1> SUFFICES ASSUME Init PROVE RegistryInv
  OBVIOUS
<1>1. TypeOK
  <2>1. RegistryTypeOK
    BY DEF Init, RegistryTypeOK
  <2>2. JobTypeOK
    BY DEF Init, JobTypeOK
  <2>3. caller \in [Callers -> CallerState]
    BY DEF Init, Idle, CallerState
  <2>4. ProcessTypeOK
    <3>1. restarts \in 0..MaxRestarts
      BY DEF Init
    <3> QED
      BY <3>1 DEF Init, ProcessTypeOK
  <2> QED
    BY <2>1, <2>2, <2>3, <2>4 DEF TypeOK
<1>2. \A id \in JobIds : JobState(id)
  BY DEF Init, JobState, JobIds, None, IsTerminal, Live
<1>3. \A c \in Callers : caller[c].pc = "idle"
  BY DEF Init, Idle
<1> QED
  BY <1>1, <1>2, <1>3 DEF Init, RegistryInv, QueueEntry, CallerInv, None

\* Merging specs yields a spec.
LEMMA MergeType == ASSUME NEW old \in JobSpec, NEW new \in JobSpec PROVE Merge(old, new) \in JobSpec
  BY DEF Merge, JobSpec

\* Publishing a cancellation keeps the status a status, leaves a terminal one
\* alone, and takes a nonterminal one to cancelled or cancelling.
LEMMA CancellingProperties ==
    ASSUME NEW s \in Pending \cup Terminal \cup {"none"}
    PROVE  /\ Cancelling(s) \in Pending \cup Terminal \cup {"none"}
           /\ s \in Terminal \cup {"none"} => Cancelling(s) = s
           /\ s = "queued" => Cancelling(s) = "cancelled"
           /\ s \in {"running", "cancelling"} => Cancelling(s) = "cancelling"
  BY DEF Cancelling, Pending, Terminal

\* Eviction keeps every job that is active, queued or not terminal.
LEMMA RetainedProperties ==
    /\ Retained \subseteq jobs
    /\ \A id \in jobs : id \notin Removable => id \in Retained
  BY DEF Retained

-----------------------------------------------------------------------------
(* Every step preserves the invariant: one lemma per action.                *)

\* A step that changes neither the registry nor a job cell keeps what the
\* invariant says of them.
LEMMA SameJobs ==
    ASSUME RegistryInv,
           UNCHANGED <<active, jobs, queued, nextId, status, cancelRequested, worker>>
    PROVE  /\ (active < nextId)'
           /\ (jobs \subseteq 1..(nextId - 1))'
           /\ (active # None => active \in jobs)'
           /\ (active = None => queued = <<>>)'
           /\ (\A i \in DOMAIN queued : QueueEntry(i))'
           /\ (\A id \in JobIds : JobState(id))'
  BY DEF RegistryInv, QueueEntry, JobState, IsTerminal, RangeOf

\* Folding a request into a queued scan (start) keeps the invariant.
LEMMA MergeQueuedScanInv ==
    ASSUME RegistryInv, NEW r \in Requests, MergeQueuedScan(r), UNCHANGED <<caller, process>>
    PROVE  RegistryInv'
<1> USE DEF MergeQueuedScan, registry, process
<1>1. JobTypeOK'
  <2>1. PICK id \in QueuedFor(r.library) : spec' = [spec EXCEPT ![id] = Merge(@, r)]
    OBVIOUS
  <2>2. id \in JobIds /\ spec[id] \in JobSpec
    <3>1. id \in JobIds
      BY <2>1 DEF QueuedFor, RangeOf, RegistryInv, TypeOK, RegistryTypeOK
    <3>2. spec[id] # NoSpec
      BY <2>1 DEF QueuedFor, NoSpec
    <3> QED
      BY <3>1, <3>2 DEF RegistryInv, TypeOK, JobTypeOK
  <2>3. Merge(spec[id], r) \in JobSpec
    BY <2>2, MergeType
  <2> QED
    BY <2>1, <2>2, <2>3 DEF RegistryInv, TypeOK, JobTypeOK
<1>2. TypeOK'
  BY <1>1 DEF RegistryInv, TypeOK, RegistryTypeOK, ProcessTypeOK
<1> QED
  BY <1>2, SameJobs DEF RegistryInv, CallerInv

\* Admitting a job (start, and recover) keeps the invariant.
LEMMA AdmitInv ==
    ASSUME RegistryInv, NEW r \in Requests, Admit(r),
           UNCHANGED <<caller, shutdown, shutdownTodo, restarts>>, booted' \in BOOLEAN
    PROVE  RegistryInv'
<1>1. /\ nextId \in JobIds /\ nextId \in Nat \ {0} /\ active \in Nat
      /\ nextId' = nextId + 1 /\ nextId' \in 1..(MaxJobs + 1)
  BY DEF Admit, RegistryInv, TypeOK, RegistryTypeOK, None, JobIds
<1>2. status[nextId] = "none" /\ worker[nextId] = "none"
  BY <1>1 DEF RegistryInv, JobState
<1>3. /\ active' = IF active = None THEN nextId ELSE active
      /\ queued' = IF active = None THEN queued ELSE Append(queued, nextId)
      /\ jobs' = Retained \cup {nextId}
      /\ \A id \in JobIds :
            /\ status'[id] = IF id = nextId THEN "queued" ELSE status[id]
            /\ worker'[id] = IF id = nextId /\ active = None THEN "spawned" ELSE worker[id]
            /\ cancelRequested'[id] = cancelRequested[id]
  BY <1>1, <1>2 DEF Admit, RegistryInv, TypeOK, JobTypeOK
<1>4. jobs' \subseteq 1..nextId /\ nextId \in jobs'
  <2>1. jobs \subseteq 1..(nextId - 1)
    BY DEF RegistryInv
  <2>2. 1..(nextId - 1) \subseteq 1..nextId /\ nextId \in 1..nextId
    BY <1>1
  <2> QED
    BY <1>3, <2>1, <2>2, RetainedProperties
<1>5. TypeOK'
  <2>1. RegistryTypeOK'
    <3>1. queued \in Seq(JobIds)
      BY DEF RegistryInv, TypeOK, RegistryTypeOK
    <3>2. queued' \in Seq(JobIds)
      BY <1>1, <1>3, <3>1
    <3>3. active \in JobIds \cup {None} /\ jobs \subseteq JobIds
      BY DEF RegistryInv, TypeOK, RegistryTypeOK
    <3> QED
      BY <1>1, <1>3, <3>2, <3>3, RetainedProperties DEF RegistryTypeOK
  <2>2. JobTypeOK'
    BY <1>1 DEF Admit, RegistryInv, TypeOK, JobTypeOK, Live, Pending
  <2>3. ProcessTypeOK'
    BY <1>1 DEF Admit, RegistryInv, TypeOK, ProcessTypeOK
  <2> QED
    BY <2>1, <2>2, <2>3 DEF RegistryInv, TypeOK
<1>6. active' # None => active' \in jobs'
  BY <1>3, RetainedProperties DEF RegistryInv, Removable
<1>7. RangeOf(queued) \subseteq RangeOf(queued') /\ \A i \in DOMAIN queued' : QueueEntry(i)'
  <2>1. CASE active = None
    BY <2>1, <1>3 DEF RegistryInv
  <2>2. CASE active # None
    <3>1. /\ queued'[Len(queued) + 1] = nextId
          /\ \A i \in DOMAIN queued : i \in DOMAIN queued' /\ queued'[i] = queued[i]
          /\ DOMAIN queued' = 1..(Len(queued) + 1) /\ DOMAIN queued = 1..Len(queued)
          /\ Len(queued) \in Nat
      BY <2>2, <1>1, <1>3 DEF RegistryInv, TypeOK, RegistryTypeOK
    <3>2. active < nextId
      BY DEF RegistryInv
    <3>3. ASSUME NEW i, i = Len(queued) + 1 PROVE QueueEntry(i)'
      <4>1. status'[nextId] = "queued" /\ worker'[nextId] = "none"
        BY <2>2, <1>1, <1>2, <1>3
      <4>2. \A j \in DOMAIN queued' : ~(i < j)
        BY <3>1, <3>3
      <4> QED
        BY <2>2, <1>1, <1>3, <1>4, <3>1, <3>2, <3>3, <4>1, <4>2 DEF QueueEntry
    <3>4. ASSUME NEW i \in DOMAIN queued PROVE QueueEntry(i)'
      <4>1. QueueEntry(i) /\ queued[i] \in Nat /\ queued[i] \in JobIds /\ queued[i] # nextId
        BY <1>1, <3>1 DEF RegistryInv, TypeOK, RegistryTypeOK, QueueEntry, JobIds
      <4>2. queued[i] \in jobs'
        BY <4>1, <1>3, RetainedProperties DEF Removable, QueueEntry, RangeOf
      <4>3. worker'[queued[i]] = worker[queued[i]] /\ status'[queued[i]] = status[queued[i]]
        BY <4>1, <1>3
      <4>4. ASSUME NEW j \in DOMAIN queued', i < j PROVE queued[i] < queued'[j]
        BY <4>1, <4>4, <3>1 DEF QueueEntry
      <4> QED
        BY <2>2, <1>1, <1>3, <3>1, <4>1, <4>2, <4>3, <4>4 DEF QueueEntry
    <3>5. DOMAIN queued' = DOMAIN queued \cup {Len(queued) + 1}
      BY <3>1
    <3>6. RangeOf(queued) \subseteq RangeOf(queued')
      BY <3>1, Zenon DEF RangeOf
    <3>7. \A i \in DOMAIN queued' : QueueEntry(i)'
      BY <3>3, <3>4, <3>5
    <3> QED
      BY <3>6, <3>7
  <2> QED
    BY <2>1, <2>2
<1>8. \A id \in JobIds : JobState(id)'
  <2> SUFFICES ASSUME NEW id \in JobIds PROVE JobState(id)'
    OBVIOUS
  <2>1. JobState(id) /\ id \in Nat \ {0} /\ active < nextId
    BY DEF RegistryInv, JobIds
  <2>2. CASE id = nextId
    <3>1. CASE active = None
      BY <2>2, <3>1, <1>1, <1>3 DEF JobState, Live
    <3>2. CASE active # None
      <4>1. nextId \in RangeOf(queued')
        <5>1. queued \in Seq(JobIds)
          BY DEF RegistryInv, TypeOK, RegistryTypeOK
        <5>2. Len(queued) + 1 \in DOMAIN queued' /\ queued'[Len(queued) + 1] = nextId
          BY <3>2, <1>3, <1>1, <5>1
        <5> QED
          BY <5>2 DEF RangeOf
      <4> QED
        BY <2>1, <2>2, <3>2, <4>1, <1>1, <1>2, <1>3 DEF JobState, Live
    <3> QED
      BY <3>1, <3>2
  <2>3. CASE id # nextId
    BY <2>1, <2>3, <1>1, <1>3, <1>7 DEF JobState, Live, IsTerminal, None
  <2> QED
    BY <2>2, <2>3
<1>9. ASSUME NEW c \in Callers PROVE CallerInv(c)'
  <2>1. CallerInv(c) /\ (caller[c].id \in 1..(nextId - 1) => caller[c].id \in JobIds \ {nextId})
    BY <1>1 DEF RegistryInv, JobIds
  <2> QED
    BY <2>1, <1>1, <1>3 DEF CallerInv
<1>10. active' < nextId' /\ (active' = None => queued' = <<>>)
  BY <1>1, <1>3 DEF RegistryInv, None
<1>11. shutdownTodo' \subseteq 1..(nextId' - 1)
  BY <1>1 DEF RegistryInv
<1> QED
  BY <1>1, <1>4, <1>5, <1>6, <1>7, <1>8, <1>9, <1>10, <1>11 DEF RegistryInv

\* The proof obligation of a step that leaves the registry alone.
LEMMA SameRegistry ==
    ASSUME RegistryInv, TypeOK', UNCHANGED registry,
           \A id \in JobIds : JobState(id)',
           \A i \in DOMAIN queued : worker'[queued[i]] = "none" /\ status'[queued[i]] # "none",
           shutdownTodo' \subseteq 1..(nextId - 1),
           \A c \in Callers : CallerInv(c)'
    PROVE  RegistryInv'
  BY DEF RegistryInv, QueueEntry, registry

\* What the worker's steps before finish have in common: only the active job
\* moves, and its status goes from a nonterminal one to what its worker says.
LEMMA WorkerStepInv ==
    ASSUME RegistryInv, NEW id \in JobIds, active = id,
           UNCHANGED <<registry, cancelRequested, caller, process>>,
           NEW w \in Live, worker' = [worker EXCEPT ![id] = w],
           NEW s \in {"running", "cancelling"} \cup Terminal, status' = [status EXCEPT ![id] = s],
           spec' = spec, record' \in {record, None},
           w \in {"working", "ok", "failed"} => s \in {"running", "cancelling"},
           w = "cancelled" => s \in {"running", "cancelling", "cancelled"},
           w = "cancelled" /\ s = "cancelled" => cancelRequested[id],
           w \in {"reported", "clearing", "cleared"} => s \in Terminal,
           w # "spawned"
    PROVE  RegistryInv'
<1> USE DEF registry, process
<1>1. TypeOK'
  <2>1. RegistryTypeOK'
    BY DEF RegistryInv, TypeOK, RegistryTypeOK
  <2>2. JobTypeOK'
    BY DEF RegistryInv, TypeOK, JobTypeOK, Pending
  <2>3. ProcessTypeOK'
    BY DEF RegistryInv, TypeOK, ProcessTypeOK
  <2> QED
    BY <2>1, <2>2, <2>3 DEF RegistryInv, TypeOK
<1>2. /\ \A j \in JobIds : worker'[j] = IF j = id THEN w ELSE worker[j]
      /\ \A j \in JobIds : status'[j] = IF j = id THEN s ELSE status[j]
  BY DEF RegistryInv, TypeOK, JobTypeOK
<1>3. \A j \in JobIds : JobState(j)'
  <2> SUFFICES ASSUME NEW j \in JobIds PROVE JobState(j)'
    OBVIOUS
  <2>1. JobState(j) /\ active < nextId
    BY DEF RegistryInv
  <2>2. CASE j = id
    BY <1>2, <2>1, <2>2 DEF JobState, IsTerminal, Live, Terminal, JobIds, RegistryInv, TypeOK, RegistryTypeOK
  <2>3. CASE j # id
    BY <1>2, <2>1, <2>3 DEF JobState, IsTerminal, RangeOf
  <2> QED
    BY <2>2, <2>3
<1>4. \A i \in DOMAIN queued : worker'[queued[i]] = "none" /\ status'[queued[i]] # "none"
  <2> SUFFICES ASSUME NEW i \in DOMAIN queued
               PROVE  worker'[queued[i]] = "none" /\ status'[queued[i]] # "none"
    OBVIOUS
  <2>1. QueueEntry(i) /\ queued[i] \in JobIds /\ id \in Nat
    BY DEF RegistryInv, TypeOK, RegistryTypeOK, JobIds
  <2>2. queued[i] # id
    BY <2>1 DEF QueueEntry, JobIds
  <2> QED
    BY <1>2, <2>1, <2>2 DEF QueueEntry
<1>5. ASSUME NEW c \in Callers PROVE CallerInv(c)'
  <2>1. CallerInv(c)
    BY DEF RegistryInv
  <2>2. caller[c].id \in JobIds \cup {None}
    BY DEF RegistryInv, TypeOK, CallerState
  <2>3. None \notin 1..(nextId - 1)
    BY DEF None
  <2> QED
    BY <1>2, <2>1, <2>2, <2>3 DEF CallerInv, Terminal
<1> QED
  BY <1>1, <1>3, <1>4, <1>5, SameRegistry DEF RegistryInv

\* The steps of a worker before finish keep the invariant.
LEMMA WorkerBeforeFinishInv ==
    ASSUME RegistryInv, NEW id \in JobIds,
           \/ WorkerBegin(id)
           \/ \E result \in {"ok", "cancelled", "failed"} : WorkerReturn(id, result)
           \/ WorkerReport(id)
           \/ WorkerCheck(id)
           \/ WorkerClear(id)
    PROVE  RegistryInv'
<1>1. /\ JobState(id) /\ worker \in [JobIds -> Live \cup {"none", "done"}]
      /\ status \in [JobIds -> Pending \cup Terminal \cup {"none"}]
  BY DEF RegistryInv, TypeOK, JobTypeOK
<1>2. CASE WorkerBegin(id)
  <2> DEFINE w == IF cancelRequested[id] THEN "cancelled" ELSE "working"
             s == IF cancelRequested[id] THEN "cancelled" ELSE "running"
  <2>1. active = id
    BY <1>1, <1>2 DEF WorkerBegin, JobState, Live
  <2>2. w \in Live /\ s \in {"running", "cancelling"} \cup Terminal
    BY DEF Live, Terminal
  <2> QED
    BY <1>2, <2>1, <2>2, WorkerStepInv DEF WorkerBegin
<1>3. ASSUME NEW result \in {"ok", "cancelled", "failed"}, WorkerReturn(id, result)
      PROVE  RegistryInv'
  <2>1. active = id /\ status[id] \in {"running", "cancelling"}
    BY <1>1, <1>3 DEF WorkerReturn, JobState, Live
  <2>2. status' = [status EXCEPT ![id] = status[id]]
    BY <1>1, <1>3 DEF WorkerReturn, jobCells
  <2>3. result \in Live
    BY DEF Live
  <2> QED
    BY <1>3, <2>1, <2>2, <2>3, WorkerStepInv DEF WorkerReturn, jobCells
<1>4. CASE WorkerReport(id)
  <2> DEFINE s == IF worker[id] = "failed" THEN "failed" ELSE Completed(id, worker[id] = "cancelled")
  <2>1. active = id
    BY <1>1, <1>4 DEF WorkerReport, JobState, Live
  <2>2. s \in Terminal /\ "reported" \in Live
    BY DEF Live, Terminal, Completed
  <2> QED
    BY <1>4, <2>1, <2>2, WorkerStepInv DEF WorkerReport
<1>5. CASE WorkerClear(id)
  <2>1. active = id /\ status[id] \in Terminal
    BY <1>1, <1>5 DEF WorkerClear, JobState, Live, IsTerminal
  <2>2. status' = [status EXCEPT ![id] = status[id]]
    BY <1>1, <1>5 DEF WorkerClear, jobCells
  <2>3. "cleared" \in Live
    BY DEF Live
  <2>4. record' \in {record, None} /\ worker' = [worker EXCEPT ![id] = "cleared"]
    BY <1>5 DEF WorkerClear
  <2>5. UNCHANGED <<registry, cancelRequested, caller, process, spec>>
    BY <1>5 DEF WorkerClear, jobCells
  <2> QED
    BY <2>1, <2>2, <2>3, <2>4, <2>5, WorkerStepInv
<1>6. CASE WorkerCheck(id)
  <2>1. PICK w \in {"clearing", "cleared"} : worker' = [worker EXCEPT ![id] = w]
    BY <1>6 DEF WorkerCheck
  <2>2. active = id /\ status[id] \in Terminal
    BY <1>1, <1>6 DEF WorkerCheck, JobState, Live, IsTerminal
  <2>3. status' = [status EXCEPT ![id] = status[id]]
    BY <1>1, <1>6 DEF WorkerCheck, jobCells
  <2>4. w \in Live
    BY DEF Live
  <2>5. UNCHANGED <<registry, cancelRequested, caller, process, spec, record>>
    BY <1>6 DEF WorkerCheck, jobCells
  <2> QED
    BY <2>1, <2>2, <2>3, <2>4, <2>5, WorkerStepInv
<1> QED
  BY <1>2, <1>3, <1>4, <1>5, <1>6

\* Taking the head of a sequence up to an entry leaves the entries after it.
LEMMA RestOfQueue ==
    ASSUME NEW q \in Seq(JobIds), NEW i \in DOMAIN q
    PROVE  /\ SubSeq(q, i + 1, Len(q)) \in Seq(JobIds)
           /\ DOMAIN SubSeq(q, i + 1, Len(q)) = 1..(Len(q) - i)
           /\ \A k \in 1..(Len(q) - i) : SubSeq(q, i + 1, Len(q))[k] = q[k + i]
           /\ \A k \in 1..(Len(q) - i) : k + i \in DOMAIN q
           /\ Len(q) \in Nat /\ i \in 1..Len(q)
  OBVIOUS

\* The queue after finish has popped its entries up to the i-th.
LEMMA PoppedQueue ==
    ASSUME RegistryInv, NEW i \in DOMAIN queued, queued' = SubSeq(queued, i + 1, Len(queued))
    PROVE  /\ queued' \in Seq(JobIds)
           /\ \A k \in DOMAIN queued' :
                 /\ k \in Nat /\ k + i \in DOMAIN queued /\ queued'[k] = queued[k + i]
                 /\ i < k + i
           /\ \A n \in DOMAIN queued : i < n => n - i \in DOMAIN queued' /\ queued'[n - i] = queued[n]
<1>1. queued \in Seq(JobIds)
  BY DEF RegistryInv, TypeOK, RegistryTypeOK
<1>2. /\ DOMAIN queued' = 1..(Len(queued) - i)
      /\ DOMAIN queued = 1..Len(queued) /\ Len(queued) \in Nat /\ i \in 1..Len(queued)
  BY <1>1, RestOfQueue
<1>3. ASSUME NEW k \in DOMAIN queued'
      PROVE  k \in Nat /\ k + i \in DOMAIN queued /\ queued'[k] = queued[k + i] /\ i < k + i
  BY <1>1, <1>2, <1>3, RestOfQueue
<1>4. ASSUME NEW n \in DOMAIN queued, i < n
      PROVE  n - i \in DOMAIN queued' /\ queued'[n - i] = queued[n]
  <2>1. n - i \in 1..(Len(queued) - i) /\ (n - i) + i = n
    BY <1>2, <1>4
  <2> QED
    BY <1>2, <1>3, <2>1
<1> QED
  BY <1>1, <1>3, <1>4, RestOfQueue

\* finish keeps the invariant.
LEMMA WorkerFinishInv ==
    ASSUME RegistryInv, NEW id \in JobIds, WorkerFinish(id)
    PROVE  RegistryInv'
<1> USE DEF jobCells, process
<1>1. /\ JobState(id) /\ worker[id] = "cleared" /\ active = id /\ active < nextId
      /\ queued \in Seq(JobIds) /\ id # None /\ id \in Nat /\ nextId \in Nat
  BY DEF RegistryInv, TypeOK, RegistryTypeOK, WorkerFinish, JobState, Live, JobIds, None
<1>2. /\ UNCHANGED <<jobs, nextId, spec, status, cancelRequested, caller, record>>
      /\ UNCHANGED <<shutdown, shutdownTodo, booted, restarts>>
  BY DEF WorkerFinish
<1>3. JobState(id) /\ IsTerminal(id)
  BY <1>1 DEF JobState
<1>4. \A c \in Callers : CallerInv(c)'
  BY <1>2 DEF RegistryInv, CallerInv
<1>5. CASE Waiting = {} /\ active' = None /\ queued' = <<>> /\ worker' = [worker EXCEPT ![id] = "done"]
  <2>1. TypeOK'
    <3>1. RegistryTypeOK'
      BY <1>2, <1>5 DEF RegistryInv, TypeOK, RegistryTypeOK
    <3>2. JobTypeOK' /\ ProcessTypeOK'
      BY <1>2, <1>5 DEF RegistryInv, TypeOK, JobTypeOK, ProcessTypeOK
    <3> QED
      BY <1>2, <3>1, <3>2 DEF RegistryInv, TypeOK
  <2>2. ASSUME NEW j \in JobIds PROVE JobState(j)'
    <3>1. JobState(j) /\ j # None
      BY DEF RegistryInv, JobIds, None
    <3>2. CASE j = id
      BY <1>1, <1>2, <1>3, <1>5, <3>1, <3>2 DEF JobState, IsTerminal, Live, RegistryInv, TypeOK, JobTypeOK
    <3>3. CASE j # id
      <4>1. worker'[j] = worker[j] /\ worker[j] \notin Live
        BY <1>1, <1>5, <3>1, <3>3 DEF JobState, RegistryInv, TypeOK, JobTypeOK
      <4>2. worker[j] = "none" => status[j] # "queued"
        BY <1>5, <3>1 DEF JobState, Waiting, RangeOf, IsTerminal, Terminal
      <4> QED
        BY <1>2, <1>5, <3>1, <4>1, <4>2 DEF JobState, IsTerminal
    <3> QED
      BY <3>2, <3>3
  <2>3. nextId \in Nat \ {0}
    BY DEF RegistryInv, TypeOK, RegistryTypeOK
  <2> QED
    BY <1>2, <1>4, <1>5, <2>1, <2>2, <2>3 DEF RegistryInv, None
<1>6. ASSUME NEW i \in FirstWaiting, active' = queued[i],
             queued' = SubSeq(queued, i + 1, Len(queued)),
             worker' = [worker EXCEPT ![id] = "done", ![queued[i]] = "spawned"]
      PROVE  RegistryInv'
  <2>1. /\ i \in DOMAIN queued /\ queued[i] \in JobIds /\ QueueEntry(i) /\ i \in Nat
        /\ ~IsTerminal(queued[i]) /\ id < queued[i]
    BY <1>1 DEF FirstWaiting, Waiting, RegistryInv, QueueEntry
  <2>2. \A j \in JobIds : worker'[j] = IF j = queued[i] THEN "spawned" ELSE
                                       IF j = id THEN "done" ELSE worker[j]
    BY <1>6, <2>1 DEF RegistryInv, TypeOK, JobTypeOK
  <2>3. TypeOK'
    <3>1. RegistryTypeOK'
      BY <1>2, <1>6, <2>1, PoppedQueue DEF RegistryInv, TypeOK, RegistryTypeOK
    <3>2. JobTypeOK' /\ ProcessTypeOK'
      BY <1>2, <1>6, <2>1 DEF RegistryInv, TypeOK, JobTypeOK, ProcessTypeOK, Live
    <3> QED
      BY <1>2, <3>1, <3>2 DEF RegistryInv, TypeOK
  <2>4. ASSUME NEW k \in DOMAIN queued' PROVE QueueEntry(k)'
    <3>1. k \in Nat /\ k + i \in DOMAIN queued /\ queued'[k] = queued[k + i] /\ i < k + i
      BY <1>6, <2>1, PoppedQueue
    <3>2. QueueEntry(k + i) /\ queued[k + i] \in JobIds /\ queued[i] < queued[k + i]
      BY <1>1, <2>1, <3>1 DEF RegistryInv, QueueEntry
    <3>3. worker'[queued[k + i]] = "none"
      <4>1. queued[k + i] # queued[i] /\ queued[k + i] # id /\ worker[queued[k + i]] = "none"
        BY <1>1, <2>1, <3>2 DEF QueueEntry, JobIds
      <4> QED
        BY <2>2, <3>2, <4>1
    <3>4. ASSUME NEW j \in DOMAIN queued', k < j PROVE queued[k + i] < queued'[j]
      <4>1. j \in Nat /\ j + i \in DOMAIN queued /\ queued'[j] = queued[j + i] /\ k + i < j + i
        BY <1>6, <2>1, <3>1, <3>4, PoppedQueue
      <4> QED
        BY <3>2, <4>1 DEF QueueEntry
    <3> QED
      BY <1>2, <1>6, <3>1, <3>2, <3>3, <3>4 DEF QueueEntry
  <2>5. ASSUME NEW j \in JobIds PROVE JobState(j)'
    <3>1. JobState(j)
      BY DEF RegistryInv
    <3>2. CASE j = queued[i]
      <4>1. status[j] = "queued" /\ j < nextId /\ nextId \in Nat /\ j \in Nat
        BY <2>1, <3>1, <3>2 DEF QueueEntry, JobState, IsTerminal, Terminal, JobIds,
                               RegistryInv, TypeOK, RegistryTypeOK
      <4>2. worker'[j] = "spawned" /\ status'[j] = "queued" /\ active' = j /\ ~(j >= nextId')
        <5>1. worker'[j] = "spawned"
          BY <2>2, <3>2
        <5>2. status' = status /\ nextId' = nextId
          BY <1>2
        <5> QED
          BY <1>6, <3>2, <4>1, <5>1, <5>2
      <4> QED
        BY <4>2 DEF JobState, Live
    <3>3. CASE j = id
      <4>1. worker'[j] = "done" /\ active' # j /\ IsTerminal(j)'
        BY <1>1, <1>2, <1>3, <1>6, <2>1, <2>2, <3>3 DEF IsTerminal, JobIds
      <4> QED
        BY <1>1, <1>2, <3>1, <3>3, <4>1 DEF JobState, Live
    <3>4. CASE j # id /\ j # queued[i]
      <4>1. worker'[j] = worker[j] /\ worker[j] \notin Live
        BY <1>1, <2>2, <3>1, <3>4 DEF JobState
      <4>2. ASSUME worker[j] = "none", status[j] = "queued" PROVE j \in RangeOf(queued')
        <5>1. PICK n \in DOMAIN queued : queued[n] = j
          BY <3>1, <4>2 DEF JobState, RangeOf
        <5>2. n \in Waiting
          BY <4>2, <5>1 DEF Waiting, IsTerminal, Terminal
        <5>3. i < n
          BY <1>1, <2>1, <3>4, <5>1, <5>2 DEF FirstWaiting
        <5>4. n - i \in DOMAIN queued' /\ queued'[n - i] = j
          BY <1>6, <2>1, <5>1, <5>3, PoppedQueue
        <5> QED
          BY <5>4 DEF RangeOf
      <4> QED
        BY <1>2, <1>6, <3>1, <3>4, <4>1, <4>2 DEF JobState, IsTerminal
    <3> QED
      BY <3>2, <3>3, <3>4
  <2>6. active' # None /\ active' < nextId /\ active' \in jobs
    BY <1>6, <2>1 DEF QueueEntry, JobIds, None
  <2> QED
    BY <1>2, <1>4, <2>3, <2>4, <2>5, <2>6 DEF RegistryInv
<1> QED
  BY <1>1, <1>5, <1>6 DEF WorkerFinish

-----------------------------------------------------------------------------
(* Cancellation, stop and shutdown.                                         *)

\* Publishing the cancellation of admitted jobs whose flags are set keeps
\* every job's state in order, provided the queue keeps what still waits.
LEMMA CancelStatus ==
    ASSUME RegistryInv, UNCHANGED <<active, nextId, worker>>,
           NEW S, S \subseteq 1..(nextId - 1),
           \A id \in JobIds :
               status'[id] = IF id \in S THEN Cancelling(status[id]) ELSE status[id],
           \A id \in JobIds : cancelRequested[id] => cancelRequested'[id],
           \A id \in JobIds : id \in S => cancelRequested'[id],
           \A id \in JobIds : worker[id] = "none" /\ status'[id] = "queued"
               => id \in RangeOf(queued')
    PROVE  \A id \in JobIds :
               /\ JobState(id)'
               /\ status'[id] \in Pending \cup Terminal \cup {"none"}
               /\ status'[id] = "queued" => status[id] = "queued"
               /\ status'[id] = "none" => status[id] = "none"
<1> SUFFICES ASSUME NEW id \in JobIds
             PROVE  /\ JobState(id)'
                    /\ status'[id] \in Pending \cup Terminal \cup {"none"}
                    /\ status'[id] = "queued" => status[id] = "queued"
                    /\ status'[id] = "none" => status[id] = "none"
  OBVIOUS
<1>1. JobState(id) /\ status[id] \in Pending \cup Terminal \cup {"none"} /\ nextId \in Nat
  BY DEF RegistryInv, TypeOK, JobTypeOK, RegistryTypeOK
<1>2. CASE id \in S
  <2>1. status'[id] = Cancelling(status[id]) /\ cancelRequested'[id] /\ ~(id >= nextId)
    BY <1>1, <1>2 DEF JobIds
  <2>2. /\ status'[id] \in Pending \cup Terminal \cup {"none"}
        /\ status[id] \in Terminal \cup {"none"} => status'[id] = status[id]
        /\ status[id] = "queued" => status'[id] = "cancelled"
        /\ status[id] \in {"running", "cancelling"} => status'[id] = "cancelling"
    BY <1>1, <2>1, CancellingProperties
  <2>3. JobState(id)'
    BY <1>1, <2>1, <2>2 DEF JobState, IsTerminal, Pending, Terminal
  <2> QED
    BY <1>1, <2>2, <2>3 DEF Pending, Terminal
<1>3. CASE id \notin S
  <2>1. status'[id] = status[id]
    BY <1>3
  <2>2. JobState(id)'
    BY <1>1, <2>1 DEF JobState, IsTerminal
  <2> QED
    BY <1>1, <2>1, <2>2
<1> QED
  BY <1>2, <1>3

\* A step that cancels admitted jobs and leaves the registry alone.
LEMMA CancelStepInv ==
    ASSUME RegistryInv, UNCHANGED <<active, jobs, queued, nextId, worker, spec>>,
           NEW S, S \subseteq 1..(nextId - 1),
           status' \in [JobIds -> Pending \cup Terminal \cup {"none"}],
           cancelRequested' \in [JobIds -> BOOLEAN],
           \A id \in JobIds :
               status'[id] = IF id \in S THEN Cancelling(status[id]) ELSE status[id],
           \A id \in JobIds : cancelRequested[id] => cancelRequested'[id],
           \A id \in JobIds : id \in S => cancelRequested'[id],
           caller' \in [Callers -> CallerState], ProcessTypeOK',
           shutdownTodo' \subseteq 1..(nextId - 1),
           \A c \in Callers : CallerInv(c)'
    PROVE  RegistryInv'
<1>1. ASSUME NEW id \in JobIds, worker[id] = "none", status'[id] = "queued"
      PROVE  id \in RangeOf(queued')
  <2>1. JobState(id) /\ status[id] \in Pending \cup Terminal \cup {"none"}
    BY DEF RegistryInv, TypeOK, JobTypeOK
  <2>2. status[id] = "queued"
    BY <1>1, <2>1, CancellingProperties DEF Pending, Terminal
  <2> QED
    BY <1>1, <2>1, <2>2 DEF JobState, RangeOf
<1>2. \A id \in JobIds :
          JobState(id)' /\ (status'[id] = "none" => status[id] = "none")
  BY <1>1, CancelStatus
<1>3. TypeOK'
  BY DEF RegistryInv, TypeOK, RegistryTypeOK, JobTypeOK
<1>4. \A i \in DOMAIN queued : worker'[queued[i]] = "none" /\ status'[queued[i]] # "none"
  <2> SUFFICES ASSUME NEW i \in DOMAIN queued
               PROVE  worker'[queued[i]] = "none" /\ status'[queued[i]] # "none"
    OBVIOUS
  <2>1. QueueEntry(i) /\ queued[i] \in JobIds
    BY DEF RegistryInv, TypeOK, RegistryTypeOK
  <2> QED
    BY <1>2, <2>1 DEF QueueEntry
<1> QED
  BY <1>2, <1>3, <1>4, SameRegistry DEF registry

\* request_cancel publishing the status keeps the invariant.
LEMMA CancelPublishInv ==
    ASSUME RegistryInv, NEW c \in Callers, CancelPublish(c)
    PROVE  RegistryInv'
<1> USE DEF registry, process
<1> DEFINE id == caller[c].id
<1>1. /\ id \in 1..(nextId - 1) /\ cancelRequested[id] /\ id \in JobIds
      /\ caller \in [Callers -> CallerState]
      /\ status \in [JobIds -> Pending \cup Terminal \cup {"none"}]
  <2>1. CallerInv(c) /\ nextId \in 1..(MaxJobs + 1)
    BY DEF RegistryInv, TypeOK, RegistryTypeOK
  <2>2. id \in 1..(nextId - 1) /\ cancelRequested[id]
    BY <2>1 DEF CallerInv, CancelPublish
  <2> QED
    BY <2>1, <2>2 DEF JobIds, RegistryInv, TypeOK, JobTypeOK
<1>2. Cancelling(status[id]) \in Pending \cup Terminal \cup {"none"} /\ Cancelling(status[id]) # "queued"
  BY <1>1, CancellingProperties DEF Pending, Terminal
<1>3. status' \in [JobIds -> Pending \cup Terminal \cup {"none"}]
  BY <1>1, <1>2 DEF CancelPublish
<1>4. \A j \in JobIds : status'[j] = IF j \in {id} THEN Cancelling(status[j]) ELSE status[j]
  BY <1>1 DEF CancelPublish
<1>5. caller' \in [Callers -> CallerState]
  BY <1>1 DEF CancelPublish, CallerState
<1>6. ASSUME NEW d \in Callers PROVE CallerInv(d)'
  <2>1. CallerInv(d)
    BY DEF RegistryInv
  <2>2. /\ caller'[d].id = caller[d].id
        /\ caller'[d].pc = IF d = c THEN "clear" ELSE caller[d].pc
    BY <1>1 DEF CancelPublish, CallerState
  <2>3. nextId' = nextId /\ cancelRequested' = cancelRequested
    BY DEF CancelPublish
  <2>4. CASE d = c
    BY <1>1, <1>2, <1>4, <2>2, <2>3, <2>4 DEF CallerInv
  <2>5. CASE d # c
    <3>1. caller[d].pc \in {"clear", "remove", "dequeue"} => status'[caller[d].id] # "queued"
      <4>1. nextId \in 1..(MaxJobs + 1) /\ 1..(nextId - 1) \subseteq JobIds
        BY DEF RegistryInv, TypeOK, RegistryTypeOK, JobIds
      <4>2. caller[d].pc \in {"clear", "remove", "dequeue"} => caller[d].id \in JobIds
        BY <2>1, <4>1 DEF CallerInv
      <4> QED
        BY <1>2, <1>4, <2>1, <4>2 DEF CallerInv
    <3> QED
      BY <2>1, <2>2, <2>3, <2>5, <3>1 DEF CallerInv
  <2> QED
    BY <2>4, <2>5
<1>7. UNCHANGED <<active, jobs, queued, nextId, worker, spec, cancelRequested>>
  BY DEF CancelPublish
<1>8. ProcessTypeOK' /\ shutdownTodo' \subseteq 1..(nextId - 1)
  BY DEF CancelPublish, RegistryInv, TypeOK, ProcessTypeOK
<1>9. cancelRequested \in [JobIds -> BOOLEAN]
  BY DEF RegistryInv, TypeOK, JobTypeOK
<1>10. {id} \subseteq 1..(nextId - 1)
  BY <1>1
<1> HIDE DEF id
<1> QED
  BY <1>1, <1>3, <1>4, <1>5, <1>6, <1>7, <1>8, <1>9, <1>10, CancelStepInv

\* request_cancel setting the flag keeps the invariant.
LEMMA CancelStoreInv ==
    ASSUME RegistryInv, NEW c \in Callers, CancelStore(c)
    PROVE  RegistryInv'
<1> USE DEF registry, process
<1>1. /\ caller \in [Callers -> CallerState] /\ status' = status
      /\ status \in [JobIds -> Pending \cup Terminal \cup {"none"}]
      /\ cancelRequested \in [JobIds -> BOOLEAN]
  BY DEF CancelStore, RegistryInv, TypeOK, JobTypeOK
<1>2. caller[c].id \in JobIds
  <2>1. CallerInv(c) /\ nextId \in 1..(MaxJobs + 1)
    BY DEF RegistryInv, TypeOK, RegistryTypeOK
  <2> QED
    BY <2>1 DEF CallerInv, CancelStore, JobIds
<1>3. /\ cancelRequested' \in [JobIds -> BOOLEAN] /\ cancelRequested'[caller[c].id]
      /\ \A j \in JobIds : cancelRequested[j] => cancelRequested'[j]
  BY <1>1, <1>2 DEF CancelStore
<1>4. caller' \in [Callers -> CallerState]
  BY <1>1 DEF CancelStore, CallerState
<1>5. ASSUME NEW d \in Callers PROVE CallerInv(d)'
  <2>1. CallerInv(d) /\ nextId \in 1..(MaxJobs + 1)
    BY DEF RegistryInv, TypeOK, RegistryTypeOK
  <2>2. /\ caller'[d].id = caller[d].id
        /\ caller'[d].pc = IF d = c THEN "publish" ELSE caller[d].pc
        /\ d = c => caller[d].pc = "store"
    BY <1>1 DEF CancelStore, CallerState
  <2>3. caller[d].pc = "publish" => caller[d].id \in JobIds
    BY <2>1 DEF CallerInv, JobIds
  <2>4. nextId' = nextId
    BY DEF CancelStore
  <2> QED
    BY <1>1, <1>3, <2>1, <2>2, <2>3, <2>4 DEF CallerInv
<1>6. UNCHANGED <<active, jobs, queued, nextId, worker, spec>>
  BY DEF CancelStore
<1>7. ProcessTypeOK' /\ shutdownTodo' \subseteq 1..(nextId - 1)
  BY DEF CancelStore, RegistryInv, TypeOK, ProcessTypeOK
<1> DEFINE S == {}
<1>8. \A j \in JobIds : status'[j] = IF j \in S THEN Cancelling(status[j]) ELSE status[j]
  BY <1>1
<1>9. \A j \in JobIds : j \in S => cancelRequested'[j]
  OBVIOUS
<1>10. S \subseteq 1..(nextId - 1)
  OBVIOUS
<1>11. status' \in [JobIds -> Pending \cup Terminal \cup {"none"}]
  BY <1>1
<1> HIDE DEF S
<1> QED
  BY <1>3, <1>4, <1>5, <1>6, <1>7, <1>8, <1>9, <1>10, <1>11, CancelStepInv

\* cancel_all cancelling one job keeps the invariant.
LEMMA ShutdownCancelInv ==
    ASSUME RegistryInv, NEW id \in JobIds, ShutdownCancel(id)
    PROVE  RegistryInv'
<1>1. /\ status \in [JobIds -> Pending \cup Terminal \cup {"none"}]
      /\ cancelRequested \in [JobIds -> BOOLEAN]
      /\ {id} \subseteq 1..(nextId - 1)
  BY DEF ShutdownCancel, RegistryInv, TypeOK, JobTypeOK
<1>2. Cancelling(status[id]) \in Pending \cup Terminal \cup {"none"}
  BY <1>1, CancellingProperties
<1>3. /\ status' \in [JobIds -> Pending \cup Terminal \cup {"none"}]
      /\ \A j \in JobIds : status'[j] = IF j \in {id} THEN Cancelling(status[j]) ELSE status[j]
      /\ cancelRequested' \in [JobIds -> BOOLEAN]
      /\ \A j \in JobIds : cancelRequested[j] => cancelRequested'[j]
      /\ \A j \in JobIds : j \in {id} => cancelRequested'[j]
  BY <1>1, <1>2 DEF ShutdownCancel
<1>4. UNCHANGED <<active, jobs, queued, nextId, worker, spec, caller>>
  BY DEF ShutdownCancel, registry
<1>5. ProcessTypeOK' /\ shutdownTodo' \subseteq 1..(nextId - 1)
  BY DEF ShutdownCancel, RegistryInv, TypeOK, ProcessTypeOK
<1>6. caller \in [Callers -> CallerState]
  BY DEF RegistryInv, TypeOK
<1>7. ASSUME NEW c \in Callers PROVE CallerInv(c)'
  <2>1. CallerInv(c) /\ nextId \in 1..(MaxJobs + 1)
    BY DEF RegistryInv, TypeOK, RegistryTypeOK
  <2>2. caller[c].pc \notin {"idle", "stopClear"} => caller[c].id \in JobIds
    BY <2>1 DEF CallerInv, JobIds
  <2>3. caller[c].pc = "publish" => cancelRequested'[caller[c].id]
    BY <1>3, <2>1, <2>2 DEF CallerInv
  <2>4. caller[c].pc \in {"clear", "remove", "dequeue"} => status'[caller[c].id] # "queued"
    BY <1>1, <1>3, <2>1, <2>2, CancellingProperties DEF CallerInv, Pending, Terminal
  <2> QED
    BY <1>4, <2>1, <2>3, <2>4 DEF CallerInv
<1> QED
  BY <1>1, <1>3, <1>4, <1>5, <1>6, <1>7, CancelStepInv

\* The steps that move only an HTTP thread, the shutdown task or the record.
LEMMA QuietStepInv ==
    ASSUME RegistryInv,
           UNCHANGED <<active, jobs, queued, nextId, spec, status, cancelRequested, worker>>,
           caller' \in [Callers -> CallerState], ProcessTypeOK',
           shutdownTodo' \subseteq 1..(nextId - 1),
           \A c \in Callers : CallerInv(c)'
    PROVE  RegistryInv'
<1>1. TypeOK'
  BY DEF RegistryInv, TypeOK, RegistryTypeOK, JobTypeOK
<1> QED
  BY <1>1, SameJobs DEF RegistryInv

\* The reads of cancel and the removals of the record keep the invariant.
LEMMA CallerQuietInv ==
    ASSUME RegistryInv, NEW c \in Callers,
           \/ \E id \in JobIds : CancelLookup(c, id)
           \/ CancelRead(c)
           \/ CancelClear(c)
           \/ CancelRemove(c)
           \/ StopClear(c)
    PROVE  RegistryInv'
<1> USE DEF registry, jobCells, process
<1>1. /\ caller \in [Callers -> CallerState] /\ nextId \in Nat
      /\ jobs \subseteq 1..(nextId - 1)
      /\ caller[c].pc \in {"clear", "remove"} => caller[c].id \in JobIds
      /\ record \in JobIds \cup {None, Carried} /\ record' \in {record, None}
  BY DEF RegistryInv, TypeOK, RegistryTypeOK, ProcessTypeOK, CancelLookup, CancelRead,
         CancelClear, CancelRemove, AfterClear, StopClear, CallerState, CallerInv, JobIds
<1>2. UNCHANGED <<active, jobs, queued, nextId, spec, status, cancelRequested, worker>>
  BY DEF CancelLookup, CancelRead, CancelClear, CancelRemove, AfterClear, StopClear
<1>3. ProcessTypeOK' /\ shutdownTodo' \subseteq 1..(nextId - 1)
  BY <1>1 DEF CancelLookup, CancelRead, CancelClear, CancelRemove, AfterClear, StopClear, RegistryInv, TypeOK, ProcessTypeOK
<1>4. CASE \E id \in JobIds : CancelLookup(c, id)
  <2>1. PICK id \in JobIds : CancelLookup(c, id)
    BY <1>4
  <2>2. caller' \in [Callers -> CallerState]
    <3> DEFINE wasQueued == status[id] = "queued"
               entry == [pc |-> "lookedUp", id |-> id, queued |-> wasQueued, active |-> FALSE]
    <3>1. wasQueued \in BOOLEAN
      OBVIOUS
    <3> HIDE DEF wasQueued
    <3>2. entry \in CallerState
      BY <3>1 DEF CallerState
    <3>3. caller' = [caller EXCEPT ![c] = entry]
      BY <2>1 DEF CancelLookup, wasQueued
    <3> HIDE DEF entry
    <3> QED
      BY <1>1, <3>2, <3>3
  <2>3. ASSUME NEW d \in Callers PROVE CallerInv(d)'
    BY <1>1, <1>2, <2>1 DEF CancelLookup, CallerInv, RegistryInv
  <2> QED
    BY <1>2, <1>3, <2>2, <2>3, QuietStepInv
<1>5. CASE CancelRead(c)
  <2>1. caller' \in [Callers -> CallerState]
    <3> DEFINE isActive == ~IsTerminal(caller[c].id)
               entry == [caller[c] EXCEPT !.pc = "store", !.active = isActive]
    <3>1. isActive \in BOOLEAN
      OBVIOUS
    <3>2. caller[c] \in CallerState
      BY <1>1
    <3>3. caller' = [caller EXCEPT ![c].pc = "store", ![c].active = isActive]
      BY <1>5 DEF CancelRead
    <3> HIDE DEF isActive
    <3>4. entry \in CallerState
      BY <3>1, <3>2 DEF CallerState
    <3>5. caller' = [caller EXCEPT ![c] = entry]
      BY <1>1, <3>3
    <3> HIDE DEF entry
    <3> QED
      BY <1>1, <3>4, <3>5
  <2>2. ASSUME NEW d \in Callers PROVE CallerInv(d)'
    <3>1. /\ caller'[d].id = caller[d].id
          /\ caller'[d].pc = IF d = c THEN "store" ELSE caller[d].pc
          /\ d = c => caller[d].pc = "lookedUp"
      BY <1>1, <1>5 DEF CancelRead, CallerState
    <3> QED
      BY <1>2, <3>1 DEF CallerInv, RegistryInv
  <2> QED
    BY <1>2, <1>3, <2>1, <2>2, QuietStepInv
<1>6. CASE CancelClear(c) \/ CancelRemove(c)
  <2>1. caller' \in [Callers -> CallerState]
    <3>1. CASE caller' = [caller EXCEPT ![c].pc = "remove"]
      BY <1>1, <3>1 DEF CallerState
    <3>2. CASE caller' = [caller EXCEPT ![c].pc = "dequeue"]
      BY <1>1, <3>2 DEF CallerState
    <3>3. CASE caller' = [caller EXCEPT ![c] = Idle]
      BY <1>1, <3>3 DEF CallerState, Idle, None
    <3> QED
      BY <1>6, <3>1, <3>2, <3>3 DEF CancelClear, CancelRemove, AfterClear
  <2>2. ASSUME NEW d \in Callers PROVE CallerInv(d)'
    <3>1. /\ d = c => caller[d].pc \in {"clear", "remove"}
          /\ \/ caller'[d].pc = "idle"
             \/ /\ caller'[d].id = caller[d].id
                /\ \/ d # c /\ caller'[d].pc = caller[d].pc
                   \/ d = c /\ caller'[d].pc \in {"remove", "dequeue"}
      BY <1>1, <1>6 DEF CancelClear, CancelRemove, AfterClear, CallerState, Idle
    <3> QED
      BY <1>2, <3>1 DEF CallerInv, RegistryInv
  <2> QED
    BY <1>2, <1>3, <2>1, <2>2, QuietStepInv
<1>7. CASE StopClear(c)
  <2>1. caller' \in [Callers -> CallerState]
    BY <1>1, <1>7 DEF StopClear, CallerState, Idle, None
  <2>2. ASSUME NEW d \in Callers PROVE CallerInv(d)'
    BY <1>1, <1>2, <1>7 DEF StopClear, CallerInv, RegistryInv, Idle
  <2> QED
    BY <1>2, <1>3, <2>1, <2>2, QuietStepInv
<1> QED
  BY <1>4, <1>5, <1>6, <1>7

\* cancel_all setting the flag and copying the jobs keeps the invariant.
LEMMA ShutdownQuietInv ==
    ASSUME RegistryInv, ShutdownFlag \/ ShutdownSnapshot
    PROVE  RegistryInv'
<1>1. UNCHANGED <<active, jobs, queued, nextId, spec, status, cancelRequested, worker, caller>>
  BY DEF ShutdownFlag, ShutdownSnapshot, registry, jobCells
<1>2. ProcessTypeOK' /\ shutdownTodo' \subseteq 1..(nextId - 1)
  BY DEF ShutdownFlag, ShutdownSnapshot, RegistryInv, TypeOK, ProcessTypeOK, RegistryTypeOK
<1>3. \A c \in Callers : CallerInv(c)'
  BY <1>1 DEF RegistryInv, CallerInv
<1> QED
  BY <1>1, <1>2, <1>3, QuietStepInv DEF RegistryInv, TypeOK

\* Removing the i-th entry keeps the others in order.
LEMMA RemovedEntry ==
    ASSUME NEW q \in Seq(JobIds), NEW i \in DOMAIN q,
           NEW r, r = SubSeq(q, 1, i - 1) \o SubSeq(q, i + 1, Len(q))
    PROVE  /\ r \in Seq(JobIds)
           /\ DOMAIN r = 1..(Len(q) - 1)
           /\ \A k \in DOMAIN r : r[k] = q[IF k < i THEN k ELSE k + 1]
<1> DEFINE a == SubSeq(q, 1, i - 1)
           b == SubSeq(q, i + 1, Len(q))
<1>1. Len(q) \in Nat /\ i \in 1..Len(q) /\ DOMAIN q = 1..Len(q)
  OBVIOUS
<1>2. /\ a \in Seq(JobIds) /\ Len(a) = i - 1
      /\ \A k \in 1..(i - 1) : a[k] = q[k]
  BY <1>1, SMTT(60)
<1>3. /\ b \in Seq(JobIds) /\ Len(b) = Len(q) - i
      /\ \A k \in 1..(Len(q) - i) : b[k] = q[i + k]
  <2>1. b \in Seq(JobIds)
    BY <1>1, SMTT(60)
  <2>2. Len(b) = Len(q) - i
    BY <1>1, SMTT(60)
  <2>3. \A k \in 1..(Len(q) - i) : b[k] = q[i + k]
    BY <1>1, SMTT(60)
  <2> QED
    BY <2>1, <2>2, <2>3
<1> HIDE DEF a, b
<1>4. r = a \o b
  BY DEF a, b
<1>5. /\ r \in Seq(JobIds) /\ Len(r) = Len(q) - 1 /\ DOMAIN r = 1..(Len(q) - 1)
      /\ \A k \in 1..(Len(q) - 1) : r[k] = IF k <= i - 1 THEN a[k] ELSE b[k - (i - 1)]
  <2>1. Len(a) + Len(b) = Len(q) - 1
    BY <1>1, <1>2, <1>3
  <2>2. /\ a \o b \in Seq(JobIds) /\ Len(a \o b) = Len(a) + Len(b)
        /\ \A k \in 1..(Len(a) + Len(b)) :
               (a \o b)[k] = IF k <= Len(a) THEN a[k] ELSE b[k - Len(a)]
    BY <1>2, <1>3, ConcatProperties
  <2>3. r \in Seq(JobIds) /\ Len(r) = Len(q) - 1
    BY <1>4, <2>1, <2>2, Zenon
  <2>4. DOMAIN r = 1..(Len(q) - 1)
    BY <2>3
  <2>5. ASSUME NEW k \in 1..(Len(q) - 1)
        PROVE  r[k] = IF k <= i - 1 THEN a[k] ELSE b[k - (i - 1)]
    <3>1. r[k] = IF k <= Len(a) THEN a[k] ELSE b[k - Len(a)]
      BY <1>4, <2>1, <2>2, Zenon
    <3> QED
      BY <1>2, <3>1
  <2> QED
    BY <2>3, <2>4, <2>5
<1>6. ASSUME NEW k \in DOMAIN r PROVE r[k] = q[IF k < i THEN k ELSE k + 1]
  <2>1. k \in 1..(Len(q) - 1)
    BY <1>5
  <2>2. CASE k < i
    <3>1. k \in 1..(i - 1) /\ k <= i - 1
      BY <1>1, <2>1, <2>2
    <3> QED
      BY <1>2, <1>5, <2>1, <2>2, <3>1
  <2>3. CASE ~(k < i)
    <3>1. k - (i - 1) \in 1..(Len(q) - i) /\ i + (k - (i - 1)) = k + 1 /\ ~(k <= i - 1)
      BY <1>1, <2>1, <2>3
    <3>2. r[k] = b[k - (i - 1)]
      BY <1>5, <2>1, <3>1
    <3> QED
      BY <1>3, <2>3, <3>1, <3>2
  <2> QED
    BY <2>2, <2>3
<1> QED
  BY <1>5, <1>6

\* cancel removing a queue entry keeps the invariant.
LEMMA CancelDequeueInv ==
    ASSUME RegistryInv, NEW c \in Callers, CancelDequeue(c)
    PROVE  RegistryInv'
<1> USE DEF jobCells, process
<1>1. /\ UNCHANGED <<active, jobs, nextId, spec, status, cancelRequested, worker, record>>
      /\ UNCHANGED <<shutdown, shutdownTodo, booted, restarts>>
      /\ caller' = [caller EXCEPT ![c] = Idle]
  BY DEF CancelDequeue
<1>2. /\ caller \in [Callers -> CallerState] /\ queued \in Seq(JobIds)
      /\ caller[c].pc = "dequeue"
  BY DEF RegistryInv, TypeOK, RegistryTypeOK, CancelDequeue
<1>3. caller' \in [Callers -> CallerState]
  BY <1>1, <1>2 DEF CallerState, Idle, None
<1>4. ASSUME NEW d \in Callers PROVE CallerInv(d)'
  <2>1. /\ d = c => caller'[d].pc = "idle"
        /\ d # c => caller'[d] = caller[d]
    BY <1>1, <1>2 DEF Idle
  <2> QED
    BY <1>1, <2>1 DEF RegistryInv, CallerInv
<1>5. ProcessTypeOK' /\ shutdownTodo' \subseteq 1..(nextId - 1)
  BY <1>1 DEF RegistryInv, TypeOK, ProcessTypeOK
<1>6. CASE queued' = queued
  BY <1>1, <1>3, <1>4, <1>5, <1>6, QuietStepInv
<1>7. ASSUME NEW i \in DOMAIN queued, queued[i] = caller[c].id,
             queued' = SubSeq(queued, 1, i - 1) \o SubSeq(queued, i + 1, Len(queued))
      PROVE  RegistryInv'
  <2> DEFINE old(k) == IF k < i THEN k ELSE k + 1
  <2>1. /\ queued' \in Seq(JobIds) /\ DOMAIN queued' = 1..(Len(queued) - 1)
        /\ \A k \in DOMAIN queued' : queued'[k] = queued[old(k)]
    BY <1>2, <1>7, RemovedEntry
  <2>2. Len(queued) \in Nat /\ i \in 1..Len(queued) /\ DOMAIN queued = 1..Len(queued)
    BY <1>2
  <2>3. \A k \in DOMAIN queued' :
            /\ old(k) \in DOMAIN queued
            /\ \A j \in DOMAIN queued' : k < j => old(k) < old(j)
    BY <2>1, <2>2
  <2>4. ASSUME NEW n \in DOMAIN queued, n # i
        PROVE  \E k \in DOMAIN queued' : old(k) = n
    <3>1. CASE n < i
      <4>1. n \in DOMAIN queued' /\ old(n) = n
        BY <2>1, <2>2, <3>1
      <4> QED
        BY <4>1
    <3>2. CASE ~(n < i)
      <4>1. n - 1 \in DOMAIN queued' /\ old(n - 1) = n
        BY <2>1, <2>2, <2>4, <3>2
      <4> QED
        BY <4>1
    <3> QED
      BY <3>1, <3>2
  <2> HIDE DEF old
  <2>5. ASSUME NEW k \in DOMAIN queued' PROVE QueueEntry(k)'
    <3>1. QueueEntry(old(k)) /\ queued'[k] = queued[old(k)]
      BY <2>1, <2>3 DEF RegistryInv
    <3>2. ASSUME NEW j \in DOMAIN queued', k < j PROVE queued'[k] < queued'[j]
      BY <2>1, <2>3, <3>1, <3>2 DEF QueueEntry
    <3> QED
      BY <1>1, <3>1, <3>2 DEF QueueEntry
  <2>6. ASSUME NEW id \in JobIds PROVE JobState(id)'
    <3>1. JobState(id)
      BY DEF RegistryInv
    <3>2. ASSUME worker[id] = "none", status[id] = "queued" PROVE id \in RangeOf(queued')
      <4>1. PICK n \in DOMAIN queued : queued[n] = id
        BY <3>1, <3>2 DEF JobState, RangeOf
      <4>2. status[queued[i]] # "queued"
        BY <1>2, <1>7 DEF RegistryInv, CallerInv
      <4>3. PICK k \in DOMAIN queued' : old(k) = n
        BY <2>4, <3>2, <4>1, <4>2
      <4> QED
        BY <2>1, <4>1, <4>3 DEF RangeOf
    <3> QED
      BY <1>1, <3>1, <3>2 DEF JobState, IsTerminal
  <2>7. TypeOK'
    BY <1>1, <1>3, <1>5, <2>1 DEF RegistryInv, TypeOK, RegistryTypeOK, JobTypeOK
  <2>8. active = None => DOMAIN queued' = {}
    <3>1. active = None => queued = <<>>
      BY DEF RegistryInv
    <3> QED
      BY <2>2, <3>1
  <2>9. active = None => queued' = <<>>
    BY <2>2, <2>8 DEF RegistryInv
  <2> QED
    BY <1>1, <1>4, <1>5, <2>5, <2>6, <2>7, <2>9 DEF RegistryInv
<1> QED
  BY <1>6, <1>7 DEF CancelDequeue

\* stop keeps the invariant.
LEMMA StopInv ==
    ASSUME RegistryInv, NEW c \in Callers, Stop(c)
    PROVE  RegistryInv'
<1> DEFINE stopped == {id \in jobs : ~IsTerminal(id)}
<1>1. /\ UNCHANGED <<active, jobs, nextId, spec, worker, record>>
      /\ UNCHANGED <<shutdown, shutdownTodo, booted, restarts>>
      /\ queued' = <<>>
      /\ \A id \in JobIds : cancelRequested'[id] = (cancelRequested[id] \/ id \in stopped)
      /\ \A id \in JobIds :
             status'[id] = IF id \in stopped THEN Cancelling(status[id]) ELSE status[id]
      /\ caller[c].pc = "idle"
  BY DEF Stop, process
<1>2. /\ status \in [JobIds -> Pending \cup Terminal \cup {"none"}]
      /\ caller \in [Callers -> CallerState] /\ stopped \subseteq 1..(nextId - 1)
      /\ cancelRequested \in [JobIds -> BOOLEAN]
      /\ nextId \in 1..(MaxJobs + 1) /\ 1..(nextId - 1) \subseteq JobIds
  <2>1. nextId \in 1..(MaxJobs + 1) /\ jobs \subseteq 1..(nextId - 1)
    BY DEF RegistryInv, TypeOK, RegistryTypeOK
  <2>2. stopped \subseteq jobs
    OBVIOUS
  <2>3. 1..(nextId - 1) \subseteq JobIds
    BY <2>1 DEF JobIds
  <2> HIDE DEF stopped
  <2> QED
    BY <2>1, <2>2, <2>3 DEF RegistryInv, TypeOK, JobTypeOK
<1>3. ASSUME NEW id \in JobIds, worker[id] = "none", status'[id] = "queued"
      PROVE  id \in RangeOf(queued')
  <2>1. JobState(id)
    BY DEF RegistryInv
  <2>2. status[id] = "queued" /\ id \notin stopped
    BY <1>1, <1>2, <1>3, CancellingProperties DEF Pending, Terminal
  <2>3. PICK i \in DOMAIN queued : queued[i] = id
    BY <1>3, <2>1, <2>2 DEF JobState, RangeOf
  <2>4. id \in jobs
    BY <2>3 DEF RegistryInv, QueueEntry
  <2> QED
    BY <2>2, <2>4 DEF IsTerminal, Terminal
<1>4. cancelRequested' \in [JobIds -> BOOLEAN] /\ status' \in [JobIds -> Pending \cup Terminal \cup {"none"}]
  <2>1. cancelRequested' \in [JobIds -> BOOLEAN]
    <3> DEFINE f(id) == cancelRequested[id] \/ id \in stopped
    <3>1. cancelRequested' = [id \in JobIds |-> f(id)]
      BY DEF Stop
    <3>2. \A id \in JobIds : f(id) \in BOOLEAN
      OBVIOUS
    <3> HIDE DEF f
    <3> QED
      BY <3>1, <3>2
  <2>2. status' \in [JobIds -> Pending \cup Terminal \cup {"none"}]
    BY <1>2, CancellingProperties DEF Stop
  <2> QED
    BY <2>1, <2>2
<1> HIDE DEF stopped
<1>5. \A id \in JobIds :
          JobState(id)' /\ (status'[id] = "queued" => status[id] = "queued")
  <2>1. \A id \in JobIds : cancelRequested[id] => cancelRequested'[id]
    BY <1>1
  <2>2. \A id \in JobIds : id \in stopped => cancelRequested'[id]
    BY <1>1
  <2> QED
    BY <1>1, <1>2, <1>3, <2>1, <2>2, CancelStatus
<1>6. caller' \in [Callers -> CallerState]
  BY <1>2 DEF Stop, CallerState
<1>7. ASSUME NEW d \in Callers PROVE CallerInv(d)'
  <2>1. CallerInv(d)
    BY DEF RegistryInv
  <2>2. \/ caller'[d] = caller[d]
        \/ caller'[d].pc = "stopClear"
    BY <1>2 DEF Stop, CallerState
  <2>3. caller[d].pc \notin {"idle", "stopClear"} => caller[d].id \in JobIds
    BY <1>2, <2>1 DEF CallerInv
  <2> QED
    BY <1>1, <1>5, <2>1, <2>2, <2>3 DEF CallerInv
<1>8. TypeOK'
  BY <1>1, <1>4, <1>6 DEF RegistryInv, TypeOK, RegistryTypeOK, JobTypeOK, ProcessTypeOK
<1> QED
  BY <1>1, <1>5, <1>7, <1>8 DEF RegistryInv

-----------------------------------------------------------------------------
(* The next process.                                                        *)

\* The end of the process keeps the invariant.
LEMMA RestartInv == ASSUME RegistryInv, Restart PROVE RegistryInv'
<1>1. TypeOK'
  <2>1. RegistryTypeOK'
    BY DEF Restart, RegistryTypeOK
  <2>2. JobTypeOK'
    BY DEF Restart, JobTypeOK
  <2>3. caller' \in [Callers -> CallerState]
    BY DEF Restart, Idle, CallerState
  <2>4. ProcessTypeOK'
    <3>1. restarts' \in 0..MaxRestarts
      BY DEF Restart, RegistryInv, TypeOK, ProcessTypeOK
    <3> QED
      BY <3>1 DEF Restart, ProcessTypeOK
  <2> QED
    BY <2>1, <2>2, <2>3, <2>4 DEF TypeOK
<1>2. \A id \in JobIds : JobState(id)'
  BY DEF Restart, JobState, JobIds, None, IsTerminal, Live
<1>3. \A c \in Callers : caller'[c].pc = "idle"
  BY DEF Restart, Idle
<1> QED
  BY <1>1, <1>2, <1>3 DEF Restart, RegistryInv, QueueEntry, CallerInv, None

\* recover keeps the invariant.
LEMMA RecoverInv == ASSUME RegistryInv, Recover PROVE RegistryInv'
<1>1. CASE UNCHANGED <<registry, jobCells, worker, record>>
  <2>1. ProcessTypeOK' /\ caller' \in [Callers -> CallerState]
    BY <1>1 DEF Recover, RegistryInv, TypeOK, ProcessTypeOK
  <2>2. /\ UNCHANGED <<active, jobs, queued, nextId, spec, status, cancelRequested, worker>>
        /\ UNCHANGED <<caller, shutdownTodo>>
    BY <1>1 DEF Recover, registry, jobCells
  <2>3. \A c \in Callers : CallerInv(c)'
    BY <2>2 DEF RegistryInv, CallerInv
  <2> QED
    BY <2>1, <2>2, <2>3, QuietStepInv DEF RegistryInv
<1>2. CASE \E r \in Requests : Admit(r)
  BY <1>2, AdmitInv DEF Recover
<1> QED
  BY <1>1, <1>2 DEF Recover

\* Stuttering keeps the invariant.
LEMMA StutterInv == ASSUME RegistryInv, UNCHANGED vars PROVE RegistryInv'
<1>1. UNCHANGED <<active, jobs, queued, nextId, spec, status, cancelRequested, worker, caller,
                  shutdown, shutdownTodo, record, booted, restarts>>
  BY DEF vars
<1>2. ProcessTypeOK' /\ caller' \in [Callers -> CallerState] /\ \A c \in Callers : CallerInv(c)'
  BY <1>1 DEF RegistryInv, TypeOK, ProcessTypeOK, CallerInv
<1> QED
  BY <1>1, <1>2, QuietStepInv DEF RegistryInv

\* Every step of the specification keeps the invariant.
LEMMA StepInv == ASSUME RegistryInv, [Next]_vars PROVE RegistryInv'
<1>1. ASSUME NEW r \in Requests, Start(r) PROVE RegistryInv'
  <2>1. CASE MergeQueuedScan(r)
    BY <1>1, <2>1, MergeQueuedScanInv DEF Start
  <2>2. CASE Admit(r)
    <3>1. UNCHANGED <<caller, shutdown, shutdownTodo, restarts>> /\ booted' \in BOOLEAN
      BY <1>1 DEF Start, process, RegistryInv, TypeOK, ProcessTypeOK
    <3> QED
      BY <2>2, <3>1, AdmitInv
  <2> QED
    BY <1>1, <2>1, <2>2 DEF Start
<1>2. ASSUME NEW id \in JobIds, WorkerStep(id) PROVE RegistryInv'
  BY <1>2, WorkerBeforeFinishInv, WorkerFinishInv DEF WorkerStep
<1>3. ASSUME NEW c \in Callers, CallerStep(c) \/ Stop(c) \/ \E id \in JobIds : CancelLookup(c, id)
      PROVE  RegistryInv'
  BY <1>3, CallerQuietInv, CancelStoreInv, CancelPublishInv, CancelDequeueInv, StopInv DEF CallerStep
<1>4. ASSUME ShutdownFlag \/ ShutdownStep PROVE RegistryInv'
  BY <1>4, ShutdownQuietInv, ShutdownCancelInv DEF ShutdownStep
<1> QED
  BY <1>1, <1>2, <1>3, <1>4, RestartInv, RecoverInv, StutterInv DEF Next

\* The registry, the queue, the workers and the threads inside cancel agree in
\* every reachable state, whatever admissions, cancellations, stops, shutdowns
\* and restarts interleave.
THEOREM RegistryInvariant == Spec => []RegistryInv
<1>1. Init => RegistryInv
  BY InitRegistryInv
<1>2. RegistryInv /\ [Next]_vars => RegistryInv'
  BY StepInv
<1> QED
  BY <1>1, <1>2, PTL DEF Spec

\* Every variable keeps its type: in particular no step stores a status, a
\* queue entry or a record that names no job.
THEOREM TypeCorrect == Spec => []TypeOK
<1>1. RegistryInv => TypeOK
  BY DEF RegistryInv
<1> QED
  BY <1>1, RegistryInvariant, PTL

\* finish and start never look up a queued or active id that eviction has
\* removed (each does so with an expect that would panic under the mutex).
THEOREM QueuedJobsAreRetained == Spec => []QueuedJobsRetained
<1>1. RegistryInv => QueuedJobsRetained
  BY DEF RegistryInv, QueuedJobsRetained, QueueEntry, RangeOf
<1> QED
  BY <1>1, RegistryInvariant, PTL

\* A queue always has an active job in front of it whose finish will pop it.
THEOREM QueueIsNeverStranded == Spec => []NoStrandedQueue
<1>1. RegistryInv => NoStrandedQueue
  <2> SUFFICES ASSUME RegistryInv, queued # <<>>
               PROVE  active # None /\ worker[active] \in Live
    BY DEF NoStrandedQueue
  <2>1. active # None /\ active \in JobIds
    BY DEF RegistryInv, TypeOK, RegistryTypeOK
  <2> QED
    BY <2>1 DEF RegistryInv, JobState
<1> QED
  BY <1>1, RegistryInvariant, PTL

\* Whoever reads the registry while a body works finds that body's job active
\* and its status running or cancelling.
THEOREM WorkIsAlwaysVisible == Spec => []WorkIsVisible
<1>1. RegistryInv => WorkIsVisible
  <2> SUFFICES ASSUME RegistryInv, NEW id \in JobIds, worker[id] = "working"
               PROVE  active = id /\ id \in jobs /\ status[id] \in {"running", "cancelling"}
    BY DEF WorkIsVisible
  <2>1. JobState(id) /\ id # None
    BY DEF RegistryInv, JobIds, None
  <2>2. active = id /\ status[id] \in {"running", "cancelling"}
    BY <2>1 DEF JobState, Live
  <2> QED
    BY <2>1, <2>2 DEF RegistryInv
<1> QED
  BY <1>1, RegistryInvariant, PTL

-----------------------------------------------------------------------------
(* What a step does to the statuses.                                        *)

\* Every way in which a step changes a published status.
StatusStep ==
    \/ status' = status
    \/ status' = [id \in JobIds |-> "none"]
    \/ nextId \in JobIds /\ status' = [status EXCEPT ![nextId] = "queued"]
    \/ \E S \in SUBSET JobIds :
           status' = [id \in JobIds |-> IF id \in S THEN Cancelling(status[id]) ELSE status[id]]
    \/ \E id \in JobIds :
           /\ worker[id] = "spawned"
           /\ status' = [status EXCEPT ![id] =
                             IF cancelRequested[id] THEN "cancelled" ELSE "running"]
    \/ \E id \in JobIds :
           /\ worker[id] \in {"ok", "cancelled", "failed"}
           /\ status' = [status EXCEPT ![id] =
                  IF worker[id] = "failed" THEN "failed" ELSE Completed(id, worker[id] = "cancelled")]

\* Every step of the specification changes the statuses in one of these ways.
LEMMA StepStatus == ASSUME RegistryInv, [Next]_vars PROVE StatusStep
<1>1. status \in [JobIds -> Pending \cup Terminal \cup {"none"}]
  BY DEF RegistryInv, TypeOK, JobTypeOK
<1>2. ASSUME NEW r \in Requests, Start(r) PROVE StatusStep
  BY <1>2 DEF Start, MergeQueuedScan, Admit, StatusStep, JobIds, RegistryInv, TypeOK, RegistryTypeOK
<1>3. ASSUME NEW id \in JobIds, WorkerStep(id) PROVE StatusStep
  <2>1. CASE WorkerBegin(id)
    BY <2>1 DEF WorkerBegin, StatusStep
  <2>2. CASE WorkerReport(id)
    BY <2>2 DEF WorkerReport, StatusStep
  <2>3. CASE WorkerFinish(id) \/ WorkerCheck(id) \/ WorkerClear(id)
             \/ \E r \in {"ok", "cancelled", "failed"} : WorkerReturn(id, r)
    <3>1. status' = status
      BY <2>3 DEF WorkerFinish, WorkerCheck, WorkerClear, WorkerReturn, jobCells
    <3> QED
      BY <3>1 DEF StatusStep
  <2> QED
    BY <1>3, <2>1, <2>2, <2>3 DEF WorkerStep
<1>4. ASSUME NEW S \in SUBSET JobIds,
             status' = [id \in JobIds |-> IF id \in S THEN Cancelling(status[id]) ELSE status[id]]
      PROVE  StatusStep
  BY <1>4 DEF StatusStep
<1>5. ASSUME NEW id \in JobIds, status' = [status EXCEPT ![id] = Cancelling(@)] PROVE StatusStep
  <2>1. status' = [j \in JobIds |-> IF j \in {id} THEN Cancelling(status[j]) ELSE status[j]]
    BY <1>1, <1>5
  <2>2. {id} \in SUBSET JobIds
    OBVIOUS
  <2> QED
    BY <1>4, <2>1, <2>2
<1>6. ASSUME NEW c \in Callers, CallerStep(c) \/ Stop(c) \/ \E id \in JobIds : CancelLookup(c, id)
      PROVE  StatusStep
  <2>1. CASE CancelPublish(c)
    <3>1. CallerInv(c) /\ nextId \in 1..(MaxJobs + 1)
      BY DEF RegistryInv, TypeOK, RegistryTypeOK
    <3>2. caller[c].id \in JobIds
      BY <2>1, <3>1 DEF CancelPublish, CallerInv, JobIds
    <3> QED
      BY <1>5, <2>1, <3>2 DEF CancelPublish
  <2>2. CASE Stop(c)
    <3> DEFINE stopped == {id \in jobs : ~IsTerminal(id)}
    <3>1. status' = [id \in JobIds |-> IF id \in stopped THEN Cancelling(status[id]) ELSE status[id]]
      BY <2>2 DEF Stop
    <3>2. stopped \in SUBSET JobIds
      BY DEF RegistryInv, TypeOK, RegistryTypeOK
    <3> HIDE DEF stopped
    <3> QED
      BY <1>4, <3>1, <3>2
  <2>3. CASE status' = status
    BY <2>3 DEF StatusStep
  <2> QED
    BY <1>6, <2>1, <2>2, <2>3
    DEF CallerStep, CancelLookup, CancelRead, CancelStore, CancelClear, CancelRemove, CancelDequeue, StopClear, jobCells
<1>7. ASSUME ShutdownFlag \/ ShutdownStep PROVE StatusStep
  <2>1. ASSUME NEW id \in JobIds, ShutdownCancel(id) PROVE StatusStep
    BY <1>5, <2>1 DEF ShutdownCancel
  <2>2. CASE ShutdownFlag \/ ShutdownSnapshot
    BY <2>2 DEF ShutdownFlag, ShutdownSnapshot, jobCells, StatusStep
  <2> QED
    BY <1>7, <2>1, <2>2 DEF ShutdownStep
<1>8. CASE Recover
  <2>1. CASE UNCHANGED jobCells
    BY <2>1 DEF jobCells, StatusStep
  <2>2. ASSUME NEW r \in Requests, Admit(r) PROVE StatusStep
    BY <2>2 DEF Admit, StatusStep, JobIds, RegistryInv, TypeOK, RegistryTypeOK
  <2> QED
    BY <1>8, <2>1, <2>2 DEF Recover
<1>9. CASE Restart
  BY <1>9 DEF Restart, StatusStep
<1>10. CASE UNCHANGED vars
  BY <1>10 DEF vars, StatusStep
<1> QED
  BY <1>2, <1>3, <1>6, <1>7, <1>8, <1>9, <1>10 DEF Next

\* A step leaves a terminal status alone, or is the end of the process.
LEMMA StepKeepsTerminal ==
    ASSUME RegistryInv, [Next]_vars, NEW id \in JobIds, IsTerminal(id)
    PROVE  status'[id] \in {status[id], "none"}
<1>1. /\ status \in [JobIds -> Pending \cup Terminal \cup {"none"}]
      /\ JobState(id) /\ status[id] \in Terminal
  BY DEF RegistryInv, TypeOK, JobTypeOK, IsTerminal
<1>2. Cancelling(status[id]) = status[id]
  BY <1>1, CancellingProperties
<1>3. nextId \in JobIds => nextId # id
  BY <1>1 DEF JobState, Terminal, JobIds
<1>4. worker[id] = "spawned" => status[id] = "cancelled" /\ cancelRequested[id]
  BY <1>1 DEF JobState, Terminal
<1>5. worker[id] \in {"ok", "cancelled", "failed"} =>
          worker[id] = "cancelled" /\ status[id] = "cancelled"
  BY <1>1 DEF JobState, Terminal
<1>6. worker[id] = "cancelled" => Completed(id, worker[id] = "cancelled") = "cancelled"
  BY DEF Completed
<1>7. StatusStep
  BY StepStatus
<1> QED
  BY <1>1, <1>2, <1>3, <1>4, <1>5, <1>6, <1>7 DEF StatusStep

\* A snapshot that ended an event stream is the last one: no interleaving of a
\* cancel, a stop or a shutdown with the worker's report overwrites a terminal
\* status, and a scan cancelled in the queue is never started.
THEOREM TerminalStatusIsFinal == Spec => TerminalIsFinal
<1>1. RegistryInv /\ [Next]_vars =>
          \A id \in JobIds : IsTerminal(id) => status'[id] \in {status[id], "none"}
  BY StepKeepsTerminal
<1> QED
  BY <1>1, RegistryInvariant, PTL DEF Spec, TerminalIsFinal

\* A job never reports completed once its cancellation flag was set before it
\* ended, because complete reads the flag under the lock that publishes.
THEOREM CancelledJobNeverCompletes == Spec => CancelledNeverCompletes
<1>1. ASSUME RegistryInv, [Next]_vars
      PROVE  \A id \in JobIds :
                 cancelRequested[id] /\ status'[id] = "completed" => status[id] = "completed"
  <2> SUFFICES ASSUME NEW id \in JobIds, cancelRequested[id], status'[id] = "completed"
               PROVE  status[id] = "completed"
    OBVIOUS
  <2>1. status \in [JobIds -> Pending \cup Terminal \cup {"none"}]
    BY <1>1 DEF RegistryInv, TypeOK, JobTypeOK
  <2>2. Cancelling(status[id]) = "completed" => status[id] = "completed"
    BY <2>1 DEF Cancelling
  <2>3. Completed(id, worker[id] = "cancelled") # "completed"
    BY DEF Completed
  <2>4. StatusStep
    BY <1>1, StepStatus
  <2> QED
    BY <2>1, <2>2, <2>3, <2>4 DEF StatusStep
<1> QED
  BY <1>1, RegistryInvariant, PTL DEF Spec, CancelledNeverCompletes

-----------------------------------------------------------------------------
(* The manager implements SerialExecutor.                                   *)

\* The phases the refinement mapping gives to the statuses.
LEMMA PhaseProperties ==
    ASSUME NEW s \in Pending \cup Terminal \cup {"none"}
    PROVE  /\ s = "none" <=> PhaseOf(s) = "new"
           /\ s = "queued" <=> PhaseOf(s) = "waiting"
           /\ s \in {"running", "cancelling"} <=> PhaseOf(s) = "running"
           /\ s \in Terminal <=> PhaseOf(s) = "ended"
           /\ PhaseOf(Cancelling(s)) = IF s = "queued" THEN "ended" ELSE PhaseOf(s)
  BY DEF PhaseOf, Pending, Terminal, Cancelling

\* The mapped phase is a function on the jobs, now and in the next state.
LEMMA PhaseFunction ==
    /\ phase = [id \in JobIds |-> phase[id]]
    /\ phase' = [id \in JobIds |-> PhaseOf(status'[id])]
    /\ \A id \in JobIds : phase[id] = PhaseOf(status[id])
  BY DEF phase

\* A body works only for the active job, and only the active job or a job in
\* the queue behind it waits.
LEMMA BusyAndWaiting ==
    ASSUME RegistryInv, NEW id \in JobIds
    PROVE  /\ status[id] \in {"running", "cancelling"} => active = id
           /\ status[id] = "queued" => active <= id
           /\ id < nextId => status[id] # "none"
<1>1. /\ JobState(id) /\ worker[id] \in Live \cup {"none", "done"} /\ id \in Nat /\ nextId \in Nat
  BY DEF RegistryInv, TypeOK, JobTypeOK, RegistryTypeOK, JobIds
<1>2. status[id] \in {"running", "cancelling"} => active = id
  BY <1>1 DEF JobState, Terminal, IsTerminal
<1>3. ASSUME status[id] = "queued" PROVE active <= id
  <2>1. CASE active = id
    BY <1>1, <2>1
  <2>2. CASE active # id
    <3>1. worker[id] = "none"
      BY <1>1, <1>3, <2>2 DEF JobState, IsTerminal, Terminal
    <3>2. PICK i \in DOMAIN queued : queued[i] = id
      BY <1>1, <1>3, <3>1 DEF JobState, RangeOf
    <3>3. active < id /\ active \in Nat
      BY <3>2 DEF RegistryInv, QueueEntry, TypeOK, RegistryTypeOK, JobIds, None
    <3> QED
      BY <1>1, <3>3
  <2> QED
    BY <2>1, <2>2
<1> QED
  BY <1>1, <1>2, <1>3 DEF JobState

\* Every step of the manager is a step of the executor or leaves the phases.
LEMMA StepRefines == ASSUME RegistryInv, [Next]_vars PROVE [Executor!Next]_phase
<1> USE PhaseFunction
<1>1. /\ status \in [JobIds -> Pending \cup Terminal \cup {"none"}]
      /\ \A id \in JobIds : status[id] \in Pending \cup Terminal \cup {"none"}
      /\ \A id \in JobIds : JobState(id)
      /\ nextId \in 1..(MaxJobs + 1) /\ active \in JobIds \cup {None}
  BY DEF RegistryInv, TypeOK, JobTypeOK, RegistryTypeOK
<1>2. \A id \in JobIds :
         /\ status[id] = "none" <=> phase[id] = "new"
         /\ status[id] = "queued" <=> phase[id] = "waiting"
         /\ status[id] \in {"running", "cancelling"} <=> phase[id] = "running"
         /\ status[id] \in Terminal <=> phase[id] = "ended"
  BY <1>1, PhaseProperties
<1>3. StatusStep
  BY StepStatus
<1>4. CASE status' = status
  <2>1. phase' = phase
    BY <1>4
  <2> QED
    BY <2>1
<1>5. CASE status' = [id \in JobIds |-> "none"]
  <2>1. phase' = [id \in JobIds |-> "new"]
    BY <1>5, PhaseProperties
  <2> QED
    BY <2>1 DEF Executor!Next, Executor!Reset
<1>6. CASE nextId \in JobIds /\ status' = [status EXCEPT ![nextId] = "queued"]
  <2>1. phase[nextId] = "new"
    BY <1>1, <1>2, <1>6 DEF JobState, JobIds
  <2>2. \A k \in JobIds : k < nextId => phase[k] # "new"
    BY <1>2, BusyAndWaiting
  <2>3. phase' = [phase EXCEPT ![nextId] = "waiting"]
    BY <1>1, <1>6, PhaseProperties DEF Pending
  <2> QED
    BY <1>6, <2>1, <2>2, <2>3 DEF Executor!Next, Executor!Admit
<1>7. ASSUME NEW S \in SUBSET JobIds,
             status' = [id \in JobIds |-> IF id \in S THEN Cancelling(status[id]) ELSE status[id]]
      PROVE  Executor!Next
  <2> DEFINE js == {id \in S : status[id] = "queued"}
  <2>1. \A id \in JobIds : PhaseOf(status'[id]) = IF id \in js THEN "ended" ELSE phase[id]
    BY <1>1, <1>7, PhaseProperties
  <2>2. phase' = [id \in JobIds |-> IF id \in js THEN "ended" ELSE phase[id]]
    BY <2>1
  <2>3. js \in SUBSET JobIds /\ \A j \in js : phase[j] = "waiting"
    BY <1>2
  <2> HIDE DEF js
  <2> QED
    BY <2>2, <2>3 DEF Executor!Next, Executor!Drop
<1>8. ASSUME NEW id \in JobIds, worker[id] = "spawned",
             status' = [status EXCEPT ![id] =
                            IF cancelRequested[id] THEN "cancelled" ELSE "running"]
      PROVE  [Executor!Next]_phase
  <2>1. active = id /\ status[id] \in {"queued", "cancelled"}
        /\ (status[id] = "cancelled" => cancelRequested[id])
    BY <1>1, <1>8 DEF JobState, Live
  <2>2. CASE ~cancelRequested[id]
    <3>1. phase[id] = "waiting"
      BY <1>2, <2>1, <2>2
    <3>2. \A k \in JobIds : phase[k] # "running" /\ (k < id => phase[k] # "waiting")
      <4> SUFFICES ASSUME NEW k \in JobIds
                   PROVE  phase[k] # "running" /\ (k < id => phase[k] # "waiting")
        OBVIOUS
      <4>1. k \in Nat /\ id \in Nat
        BY DEF JobIds
      <4>2. status[k] \in {"running", "cancelling"} => k = id
        BY <2>1, BusyAndWaiting
      <4>3. status[k] = "queued" => id <= k
        BY <2>1, BusyAndWaiting
      <4> QED
        BY <1>2, <2>1, <4>1, <4>2, <4>3
    <3>3. phase' = [phase EXCEPT ![id] = "running"]
      BY <1>1, <1>8, <2>2, PhaseProperties DEF Pending
    <3> QED
      BY <3>1, <3>2, <3>3 DEF Executor!Next, Executor!Begin
  <2>3. CASE cancelRequested[id]
    <3>1. Cancelling(status[id]) = "cancelled"
      BY <2>1, CancellingProperties DEF Pending, Terminal
    <3>2. status' = [j \in JobIds |-> IF j \in {id} THEN Cancelling(status[j]) ELSE status[j]]
      BY <1>1, <1>8, <2>3, <3>1
    <3>3. {id} \in SUBSET JobIds
      OBVIOUS
    <3> QED
      BY <1>7, <3>2, <3>3
  <2> QED
    BY <2>2, <2>3
<1>9. ASSUME NEW id \in JobIds, worker[id] \in {"ok", "cancelled", "failed"}, NEW s,
             s = (IF worker[id] = "failed" THEN "failed" ELSE Completed(id, worker[id] = "cancelled")),
             status' = [status EXCEPT ![id] = s]
      PROVE  [Executor!Next]_phase
  <2>1. s \in Terminal /\ (worker[id] = "cancelled" => s = "cancelled")
    BY <1>9 DEF Terminal, Completed
  <2>2. CASE status[id] \in {"running", "cancelling"}
    <3>1. phase[id] = "running"
      BY <1>2, <2>2
    <3>2. phase' = [phase EXCEPT ![id] = "ended"]
      BY <1>1, <1>9, <2>1, PhaseProperties
    <3> QED
      BY <3>1, <3>2 DEF Executor!Next, Executor!End
  <2>3. CASE status[id] \notin {"running", "cancelling"}
    <3>1. worker[id] = "cancelled" /\ status[id] = "cancelled"
      BY <1>1, <1>9, <2>3 DEF JobState
    <3>2. status' = status
      BY <1>1, <1>9, <2>1, <3>1
    <3> QED
      BY <1>4, <3>2
  <2> QED
    BY <2>2, <2>3
<1> QED
  BY <1>3, <1>4, <1>5, <1>6, <1>7, <1>8, <1>9 DEF StatusStep

\* The job manager, with its threads, queue, eviction and cancellation,
\* implements the serial executor: "the server runs one resource-intensive job
\* at a time", in the order of admission.
THEOREM ManagerIsSerial == Spec => SerialExecution
<1>1. Init => Executor!Init
  <2> SUFFICES ASSUME Init PROVE phase = [j \in JobIds |-> "new"]
    BY DEF Executor!Init
  <2>1. PhaseOf("none") = "new"
    BY PhaseProperties
  <2>2. \A id \in JobIds : status[id] = "none"
    BY DEF Init
  <2> QED
    BY <2>1, <2>2 DEF phase
<1>2. RegistryInv /\ [Next]_vars => [Executor!Next]_phase
  BY StepRefines
<1> QED
  BY <1>1, <1>2, RegistryInvariant, PTL DEF Spec, SerialExecution, Executor!Spec

-----------------------------------------------------------------------------
(* What admission, shutdown and the queue do to each other.                 *)

\* A job is admitted by start, which has found no queued scan to merge with,
\* or by recover.
Admission(r) ==
    /\ Admit(r)
    /\ UNCHANGED <<shutdown, shutdownTodo>> /\ booted'
    /\ ShuttingDown => ~booted
    /\ r.kind = "libraryScan" => QueuedFor(r.library) = {}

\* Every other step within a process keeps the jobs and what their specs are
\* of, at most shortens the queue, and raises flags only.
KeepsJobs ==
    /\ jobs' = jobs /\ nextId' = nextId
    /\ RangeOf(queued') \subseteq RangeOf(queued)
    /\ active' \in {active, None} \cup RangeOf(queued)
    /\ \A id \in JobIds : spec'[id].kind = spec[id].kind /\ spec'[id].library = spec[id].library
    /\ \A id \in JobIds : cancelRequested[id] => cancelRequested'[id]
    /\ record' \in {record, None}
    /\ (shutdown' # "serving" => booted') \/ UNCHANGED <<shutdown, booted>>
    /\ shutdown' = "cancelling" =>
          \/ shutdownTodo' = jobs
          \/ /\ shutdown = "cancelling"
             /\ \A id \in JobIds : id \in shutdownTodo => id \in shutdownTodo' \/ cancelRequested'[id]

\* The steps of the worker task are of this sort.
LEMMA WorkerKeepsJobs ==
    ASSUME RegistryInv, NEW id \in JobIds, WorkerStep(id)
    PROVE  KeepsJobs
<1>1. /\ jobs' = jobs /\ nextId' = nextId /\ spec' = spec /\ cancelRequested' = cancelRequested
      /\ UNCHANGED <<shutdown, shutdownTodo, booted>> /\ record' \in {record, None}
  BY DEF WorkerStep, WorkerBegin, WorkerReturn, WorkerReport, WorkerCheck, WorkerClear, WorkerFinish, registry,
         jobCells, process
<1>2. RangeOf(queued') \subseteq RangeOf(queued) /\ active' \in {active, None} \cup RangeOf(queued)
  <2>1. CASE ~WorkerFinish(id)
    BY <2>1 DEF WorkerStep, WorkerBegin, WorkerReturn, WorkerReport, WorkerCheck, WorkerClear, registry
  <2>2. CASE WorkerFinish(id) /\ Waiting = {}
    BY <2>2 DEF WorkerFinish, FirstWaiting, RangeOf
  <2>3. ASSUME NEW i \in FirstWaiting, active' = queued[i], queued' = SubSeq(queued, i + 1, Len(queued))
        PROVE  <1>2!1 /\ <1>2!2
    <3>1. i \in DOMAIN queued
      BY DEF FirstWaiting, Waiting
    <3>2. \A k \in DOMAIN queued' : k + i \in DOMAIN queued /\ queued'[k] = queued[k + i]
      BY <2>3, <3>1, PoppedQueue
    <3> QED
      BY <2>3, <3>1, <3>2 DEF RangeOf
  <2> QED
    BY <2>1, <2>2, <2>3 DEF WorkerFinish
<1> QED
  BY <1>1, <1>2 DEF KeepsJobs

\* Removing an entry adds none.
LEMMA RangeOfRest ==
    ASSUME NEW q \in Seq(JobIds), NEW i \in DOMAIN q
    PROVE  RangeOf(SubSeq(q, 1, i - 1) \o SubSeq(q, i + 1, Len(q))) \subseteq RangeOf(q)
<1> DEFINE r == SubSeq(q, 1, i - 1) \o SubSeq(q, i + 1, Len(q))
           old(k) == IF k < i THEN k ELSE k + 1
<1>1. DOMAIN r = 1..(Len(q) - 1) /\ \A k \in DOMAIN r : r[k] = q[old(k)]
  BY RemovedEntry
<1>2. i \in 1..Len(q) /\ Len(q) \in Nat /\ DOMAIN q = 1..Len(q)
  OBVIOUS
<1>3. \A k \in 1..(Len(q) - 1) : old(k) \in 1..Len(q)
  BY <1>2
<1> HIDE DEF r, old
<1>4. RangeOf(r) \subseteq RangeOf(q)
  BY <1>1, <1>2, <1>3 DEF RangeOf
<1> QED
  BY <1>4 DEF r

\* So are those of the threads inside cancel and stop, ...
LEMMA CallerKeepsJobs ==
    ASSUME RegistryInv, NEW c \in Callers, CallerStep(c) \/ Stop(c) \/ \E id \in JobIds : CancelLookup(c, id)
    PROVE  KeepsJobs
<1>1. /\ jobs' = jobs /\ nextId' = nextId /\ spec' = spec /\ active' = active
      /\ UNCHANGED <<shutdown, shutdownTodo, booted>> /\ record' \in {record, None}
  BY DEF CallerStep, Stop, CancelLookup, CancelRead, CancelStore, CancelPublish, CancelClear, CancelRemove,
         CancelDequeue, StopClear, registry, jobCells, process
<1>2. \A id \in JobIds : cancelRequested[id] => cancelRequested'[id]
  <2>1. cancelRequested \in [JobIds -> BOOLEAN]
    BY DEF RegistryInv, TypeOK, JobTypeOK
  <2>2. CASE CancelStore(c)
    BY <2>1, <2>2 DEF CancelStore
  <2>3. CASE Stop(c)
    BY <2>1, <2>3 DEF Stop
  <2>4. CASE ~CancelStore(c) /\ ~Stop(c)
    BY <2>4 DEF CallerStep, CancelLookup, CancelRead, CancelPublish, CancelClear, CancelRemove, CancelDequeue,
                StopClear, jobCells
  <2> QED
    BY <2>2, <2>3, <2>4
<1>3. RangeOf(queued') \subseteq RangeOf(queued)
  <2>1. queued \in Seq(JobIds)
    BY DEF RegistryInv, TypeOK, RegistryTypeOK
  <2>2. CASE Stop(c)
    BY <2>2 DEF Stop, RangeOf
  <2>3. CASE CancelDequeue(c)
    <3>1. CASE queued' = queued
      BY <3>1 DEF RangeOf
    <3>2. ASSUME NEW i \in DOMAIN queued,
                 queued' = SubSeq(queued, 1, i - 1) \o SubSeq(queued, i + 1, Len(queued))
          PROVE  RangeOf(queued') \subseteq RangeOf(queued)
      BY <2>1, <3>2, RangeOfRest
    <3> QED
      BY <2>3, <3>1, <3>2 DEF CancelDequeue
  <2>4. CASE ~Stop(c) /\ ~CancelDequeue(c)
    BY <2>4 DEF CallerStep, CancelLookup, CancelRead, CancelStore, CancelPublish, CancelClear, CancelRemove,
                StopClear, registry
  <2> QED
    BY <2>2, <2>3, <2>4
<1> QED
  BY <1>1, <1>2, <1>3 DEF KeepsJobs

\* ... those of cancel_all, ...
LEMMA ShutdownKeepsJobs ==
    ASSUME RegistryInv, ShutdownBooted, ShutdownFlag \/ ShutdownStep
    PROVE  KeepsJobs
<1>1. cancelRequested \in [JobIds -> BOOLEAN]
  BY DEF RegistryInv, TypeOK, JobTypeOK
<1>2. CASE ShutdownFlag \/ ShutdownSnapshot
  BY <1>2 DEF ShutdownFlag, ShutdownSnapshot, registry, jobCells, ShutdownBooted, ShuttingDown, KeepsJobs, RangeOf
<1>3. ASSUME NEW id \in JobIds, ShutdownCancel(id)
      PROVE  KeepsJobs
  <2>1. /\ UNCHANGED <<jobs, nextId, spec, active, queued, record, booted, shutdown>>
        /\ shutdownTodo' = shutdownTodo \ {id} /\ cancelRequested' = [cancelRequested EXCEPT ![id] = TRUE]
    BY <1>3 DEF ShutdownCancel, registry
  <2>2. cancelRequested'[id] /\ \A k \in JobIds : cancelRequested[k] => cancelRequested'[k]
    BY <1>1, <2>1
  <2> QED
    BY <2>1, <2>2 DEF KeepsJobs, RangeOf
<1> QED
  BY <1>2, <1>3 DEF ShutdownStep

\* ... and a request that is merged into a queued scan.
LEMMA MergeKeepsJobs ==
    ASSUME RegistryInv, NEW r \in Requests, MergeQueuedScan(r), UNCHANGED <<caller, process>>
    PROVE  KeepsJobs
<1>1. PICK id \in QueuedFor(r.library) : spec' = [spec EXCEPT ![id] = Merge(@, r)]
  BY DEF MergeQueuedScan
<1>2. id \in JobIds /\ spec \in [JobIds -> JobSpec \cup {NoSpec}] /\ spec[id] \in JobSpec
  <2>1. id \in JobIds /\ spec[id].kind = "libraryScan"
    BY DEF QueuedFor, RangeOf, RegistryInv, TypeOK, RegistryTypeOK
  <2> QED
    BY <2>1 DEF NoSpec, RegistryInv, TypeOK, JobTypeOK
<1>3. Merge(spec[id], r).kind = spec[id].kind /\ Merge(spec[id], r).library = spec[id].library
  BY <1>2 DEF Merge, JobSpec
<1>4. \A k \in JobIds : spec'[k].kind = spec[k].kind /\ spec'[k].library = spec[k].library
  BY <1>1, <1>2, <1>3
<1> QED
  BY <1>4 DEF KeepsJobs, MergeQueuedScan, registry, process

\* Every step ends the process, admits a job or keeps the jobs.
LEMMA StepKinds ==
    ASSUME RegistryInv, AdmissionInv, [Next]_vars
    PROVE  Restart \/ (\E r \in Requests : Admission(r)) \/ KeepsJobs
<1>1. ASSUME NEW r \in Requests, Start(r) PROVE Admission(r) \/ KeepsJobs
  <2>1. CASE r.kind = "libraryScan" /\ QueuedFor(r.library) # {}
    BY <1>1, <2>1, MergeKeepsJobs DEF Start
  <2>2. CASE ~(r.kind = "libraryScan" /\ QueuedFor(r.library) # {})
    BY <1>1, <2>2 DEF Start, Admission, process
  <2> QED
    BY <2>1, <2>2
<1>2. CASE Recover
  <2>1. CASE record = None
    BY <1>2, <2>1 DEF Recover, Admission, KeepsJobs, RangeOf, registry, jobCells, process
  <2>2. CASE record # None
    <3>1. PICK r \in Requests : r.kind = "thumbnailGenerate" /\ Admit(r)
      BY <1>2, <2>2 DEF Recover
    <3>2. Admission(r)
      BY <1>2, <3>1 DEF Recover, Admission
    <3> QED
      BY <3>2
  <2> QED
    BY <2>1, <2>2
<1>3. CASE UNCHANGED vars
  BY <1>3 DEF vars, KeepsJobs, RangeOf
<1> QED
  BY <1>1, <1>2, <1>3, WorkerKeepsJobs, CallerKeepsJobs, ShutdownKeepsJobs DEF Next, AdmissionInv

\* An admission keeps the invariant: what it evicts is over, nothing is
\* admitted during shutdown, and only a scan without a queued twin is queued.
LEMMA AdmissionKeepsInv ==
    ASSUME RegistryInv, AdmissionInv, NEW r \in Requests, Admission(r)
    PROVE  AdmissionInv'
<1>1. /\ nextId \in JobIds /\ nextId \in Nat \ {0} /\ nextId' = nextId + 1
      /\ active \in JobIds \cup {None} /\ (active # None => active \in jobs) /\ active < nextId
      /\ spec \in [JobIds -> JobSpec \cup {NoSpec}] /\ status \in [JobIds -> Pending \cup Terminal \cup {"none"}]
      /\ queued \in Seq(JobIds) /\ jobs \subseteq JobIds
  BY DEF Admission, Admit, RegistryInv, TypeOK, RegistryTypeOK, JobTypeOK, None, JobIds
<1>2. /\ jobs' = Retained \cup {nextId} /\ record' = IF r.kind = "thumbnailGenerate" THEN nextId ELSE record
      /\ spec' = [spec EXCEPT ![nextId] = r] /\ status' = [status EXCEPT ![nextId] = "queued"]
      /\ (active # None => r.kind = "libraryScan")
  BY <1>1 DEF Admission, Admit, ActiveExists, QueuesBehindActive
<1>3. /\ spec'[nextId] = r /\ \A id \in JobIds : id # nextId => spec'[id] = spec[id] /\ status'[id] = status[id]
  BY <1>1, <1>2
<1>4. EvictedOver'
  <2> SUFFICES ASSUME NEW id \in JobIds, id < nextId', id \notin jobs' PROVE status'[id] \in Terminal
    BY DEF EvictedOver, IsTerminal
  <2>1. id # nextId /\ id < nextId /\ id \notin Retained
    BY <1>1, <1>2 DEF JobIds
  <2>2. CASE id \in jobs
    BY <1>3, <2>1, <2>2, RetainedProperties DEF Removable, IsTerminal
  <2>3. CASE id \notin jobs
    BY <1>3, <2>1, <2>3 DEF AdmissionInv, EvictedOver, IsTerminal
  <2> QED
    BY <2>2, <2>3
<1>5. ShutdownBooted' /\ ShutdownCovers'
  BY DEF Admission, AdmissionInv, ShutdownBooted, ShutdownCovers, ShuttingDown
<1>6. \A id \in RangeOf(queued) : id \in JobIds /\ id # nextId
  BY <1>1 DEF RangeOf, RegistryInv, QueueEntry
<1>7. QueuedOncePerLibrary'
  <2>1. CASE active = None
    <3>1. queued' = queued /\ queued = <<>>
      BY <1>1, <2>1 DEF Admission, Admit, RegistryInv
    <3> QED
      BY <3>1 DEF QueuedOncePerLibrary, RangeOf
  <2>2. CASE active # None
    <3>1. RangeOf(queued') \subseteq RangeOf(queued) \cup {nextId}
      <4>1. queued' = Append(queued, nextId)
        BY <2>2 DEF Admission, Admit
      <4>2. \A k \in DOMAIN queued' : queued'[k] = nextId \/ (k \in DOMAIN queued /\ queued'[k] = queued[k])
        BY <1>1, <4>1
      <4> QED
        BY <4>2 DEF RangeOf
    <3>2. r.kind = "libraryScan" /\ \A id \in RangeOf(queued) : spec[id].library # r.library
      BY <1>2, <2>2 DEF Admission, QueuedFor, AdmissionInv, QueuedOncePerLibrary
    <3>3. \A id \in RangeOf(queued') : spec'[id].kind = "libraryScan"
      BY <1>3, <1>6, <3>1, <3>2 DEF AdmissionInv, QueuedOncePerLibrary
    <3>4. ASSUME NEW id \in RangeOf(queued'), NEW other \in RangeOf(queued'),
                 spec'[id].library = spec'[other].library
          PROVE  id = other
      BY <1>3, <1>6, <3>1, <3>2, <3>4 DEF AdmissionInv, QueuedOncePerLibrary
    <3> QED
      BY <3>3, <3>4 DEF QueuedOncePerLibrary
  <2> QED
    BY <2>1, <2>2
<1>8. RecordOwned'
  <2>1. CASE active = None
    <3>1. active' = nextId
      BY <2>1 DEF Admission, Admit
    <3> QED
      BY <1>2, <1>3, <3>1 DEF RecordOwned
  <2>2. CASE active # None
    <3>1. active' = active /\ record' = record /\ active # nextId
      BY <1>1, <1>2, <2>2 DEF Admission, Admit, None
    <3> QED
      BY <1>1, <1>3, <2>2, <3>1 DEF AdmissionInv, RecordOwned
  <2> QED
    BY <2>1, <2>2
<1> QED
  BY <1>4, <1>5, <1>7, <1>8 DEF AdmissionInv

\* So does a step that keeps the jobs.
LEMMA KeepingKeepsInv ==
    ASSUME RegistryInv, AdmissionInv, [Next]_vars, KeepsJobs
    PROVE  AdmissionInv'
<1>1. RegistryInv'
  BY StepInv
<1>2. ASSUME NEW id \in JobIds, id < nextId, IsTerminal(id)
      PROVE  status'[id] \in Terminal
  <2>1. status'[id] \in {status[id], "none"}
    BY <1>2, StepKeepsTerminal
  <2>2. status'[id] # "none"
    <3>1. nextId' = nextId /\ nextId \in Nat /\ id \in Nat
      BY DEF KeepsJobs, RegistryInv, TypeOK, RegistryTypeOK, JobIds
    <3> QED
      BY <1>1, <1>2, <3>1 DEF RegistryInv, JobState
  <2> QED
    BY <1>2, <2>1, <2>2 DEF IsTerminal
<1>3. EvictedOver'
  BY <1>2 DEF KeepsJobs, AdmissionInv, EvictedOver, IsTerminal
<1>4. ShutdownBooted'
  BY DEF KeepsJobs, AdmissionInv, ShutdownBooted, ShuttingDown
<1>5. ShutdownCovers'
  <2> SUFFICES ASSUME shutdown' = "cancelling", NEW id \in JobIds, id < nextId'
               PROVE  id \in shutdownTodo' \/ cancelRequested'[id] \/ status'[id] \in Terminal
    BY DEF ShutdownCovers, IsTerminal
  <2>1. nextId' = nextId
    BY DEF KeepsJobs
  <2>2. CASE shutdownTodo' = jobs
    BY <1>2, <2>1, <2>2 DEF AdmissionInv, EvictedOver
  <2>3. CASE shutdownTodo' # jobs
    <3>1. shutdown = "cancelling" /\ (id \in shutdownTodo => id \in shutdownTodo' \/ cancelRequested'[id])
      BY <2>3 DEF KeepsJobs
    <3>2. id \in shutdownTodo \/ cancelRequested[id] \/ IsTerminal(id)
      BY <2>1, <3>1 DEF AdmissionInv, ShutdownCovers
    <3> QED
      BY <1>2, <2>1, <3>1, <3>2 DEF KeepsJobs
  <2> QED
    BY <2>2, <2>3
<1>6. RangeOf(queued) \subseteq JobIds
  BY DEF RangeOf, RegistryInv, TypeOK, RegistryTypeOK
<1>7. QueuedOncePerLibrary'
  BY <1>6 DEF KeepsJobs, AdmissionInv, QueuedOncePerLibrary
<1>8. RecordOwned'
  <2>1. active' \in JobIds \cup {None}
    BY <1>1 DEF RegistryInv, TypeOK, RegistryTypeOK
  <2>2. CASE active' = active
    BY <2>1, <2>2 DEF KeepsJobs, AdmissionInv, RecordOwned
  <2>3. CASE active' \in RangeOf(queued)
    BY <1>6, <2>3 DEF KeepsJobs, AdmissionInv, RecordOwned, QueuedOncePerLibrary
  <2> QED
    BY <2>1, <2>2, <2>3 DEF KeepsJobs, RecordOwned
<1> QED
  BY <1>3, <1>4, <1>5, <1>7, <1>8 DEF AdmissionInv

\* Nothing is admitted, queued or shutting down at the start.
LEMMA InitAdmissionInv == Init => AdmissionInv
  BY DEF Init, AdmissionInv, EvictedOver, ShutdownBooted, ShuttingDown, ShutdownCovers, QueuedOncePerLibrary,
         RangeOf, RecordOwned, JobIds

\* Every step keeps the invariant of admission.
LEMMA StepAdmissionInv == ASSUME RegistryInv, AdmissionInv, [Next]_vars PROVE AdmissionInv'
<1>1. CASE Restart
  BY <1>1 DEF Restart, AdmissionInv, EvictedOver, ShutdownBooted, ShuttingDown, ShutdownCovers,
              QueuedOncePerLibrary, RangeOf, RecordOwned, JobIds
<1> QED
  BY <1>1, StepKinds, AdmissionKeepsInv, KeepingKeepsInv

\* Admission, eviction, the queue, shutdown and the record agree.
THEOREM AdmissionInvariant == Spec => []AdmissionInv
<1>1. RegistryInv /\ AdmissionInv /\ [Next]_vars => AdmissionInv'
  BY StepAdmissionInv
<1> QED
  BY <1>1, InitAdmissionInv, RegistryInvariant, PTL DEF Spec

\* "Each library keeps one queued scan", whatever merges, cancels and stops
\* interleave; nothing but scans is ever queued (start, finish, cancel, stop).
THEOREM OneScanIsQueued == Spec => []OneQueuedScanPerLibrary
<1>1. RegistryInv /\ AdmissionInv => OneQueuedScanPerLibrary
  <2> SUFFICES ASSUME RegistryInv, AdmissionInv PROVE OneQueuedScanPerLibrary
    OBVIOUS
  <2>1. \A i \in DOMAIN queued : queued[i] \in RangeOf(queued) /\ queued[i] \in Nat /\ i \in Nat
    BY DEF RangeOf, RegistryInv, TypeOK, RegistryTypeOK, JobIds
  <2>2. \A i, j \in DOMAIN queued : i < j => queued[i] < queued[j]
    BY DEF RegistryInv, QueueEntry
  <2>3. \A i, j \in DOMAIN queued : queued[i] = queued[j] => i = j
    BY <2>1, <2>2
  <2> QED
    BY <2>1, <2>3 DEF AdmissionInv, QueuedOncePerLibrary, OneQueuedScanPerLibrary
<1> QED
  BY <1>1, AdmissionInvariant, RegistryInvariant, PTL

\* Once cancel_all has visited the jobs it saw, every job this process ever
\* admitted is over or has its flag set, evicted ones included: no admission
\* slips in behind the snapshot.
THEOREM ShutdownReachesAll == Spec => []ShutdownReachesEveryJob
<1>1. AdmissionInv => ShutdownReachesEveryJob
  BY DEF AdmissionInv, ShutdownCovers, ShutdownReachesEveryJob
<1> QED
  BY <1>1, AdmissionInvariant, PTL

\* A worker that is about to clear the resume record finds its own record or
\* none: no thumbnail job is admitted while another holds the worker.
THEOREM WorkersClearTheirOwn == Spec => []WorkerClearsOwnRecord
<1>1. RegistryInv /\ AdmissionInv => WorkerClearsOwnRecord
  <2> SUFFICES ASSUME RegistryInv, AdmissionInv, NEW id \in JobIds,
                      worker[id] \in {"reported", "clearing"}, spec[id].kind = "thumbnailGenerate"
               PROVE  record \in {None, id}
    BY DEF WorkerClearsOwnRecord
  <2>1. active = id /\ id # None
    BY DEF RegistryInv, JobState, Live, JobIds, None
  <2> QED
    BY <2>1 DEF AdmissionInv, RecordOwned
<1> QED
  BY <1>1, AdmissionInvariant, RegistryInvariant, PTL
=============================================================================
