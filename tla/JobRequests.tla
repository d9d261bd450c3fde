----------------------------- MODULE JobRequests -----------------------------
(***************************************************************************)
(* POST /v1/jobs and POST /v1/jobs/cancel over the job manager.  A client   *)
(* may name its request with a key; a retry of a named request is answered  *)
(* with the job the first one started, and a stop may name requests that    *)
(* have not arrived yet.  Both routes hold the async mutex `requests` from  *)
(* their first look at the map to their last change of it; create awaits    *)
(* the library check in between, so everybody else moves meanwhile.         *)
(***************************************************************************)
EXTENDS JobManager, TtlMap

CONSTANTS
    Keys,               \* request ids clients use
    NoKey,              \* a request that carries none
    MaxRequests         \* MAX_ENTRIES, 4096 in the code

ASSUME RequestAssumption == IsFiniteSet(Keys) /\ NoKey \notin Keys /\ MaxRequests \in Nat

VARIABLES
    requests,           \* TtlMap<RetainedRequest>: key -> [body, job, aged]
    creating,           \* the create between its look at the map and its admission
    started, answered, stoppedKeys  \* history, per key while its entry lasts

requestVars == <<requests, creating, started, answered, stoppedKeys>>

NoCall == [key |-> NoKey, body |-> NoSpec]

RequestsInit ==
    /\ requests = NoEntries
    /\ creating = NoCall
    /\ started = [k \in Keys |-> {}]
    /\ answered = [k \in Keys |-> {}]
    /\ stoppedKeys = {}

\* Mutant: a stop does not wait for the create that is between its two looks.
MutexFree_NotAcrossAwait == \A c \in Callers : caller[c].pc # "stopClear"

\* The mutex is held across the check of a create, and by a stop until it has
\* cleared the resume record.
MutexFree == creating = NoCall /\ \A c \in Callers : caller[c].pc # "stopClear"

PinnedRequests == {}
Kept == Sweep(requests, PinnedRequests)

\* The history of a key a sweep forgets starts over.
Gone == DOMAIN requests \ DOMAIN Kept
Fresh(history) == [k \in Keys |-> IF k \in Gone THEN {} ELSE history[k]]

\* Mutant: a retry is answered without a look at its body.
Answer_AnyBody(entry, body) == {entry.job} \cap jobs

\* What a retry is answered with: the job its key started, while the body is
\* the same and the manager still retains the job; an error otherwise.
Answer(entry, body) == IF entry.body = body THEN {entry.job} \cap jobs ELSE {}

\* create_job up to its await: a known key is answered, a full map refuses a
\* new one, and everything else goes on to the library check.
CreateBegin(key, body) ==
    LET answers == {<<job, body>> : job \in Answer(Kept[key], body)} IN
    /\ booted /\ MutexFree
    /\ requests' = Kept
    /\ started' = Fresh(started)
    /\ stoppedKeys' = stoppedKeys \ Gone
    /\ IF key \in DOMAIN Kept
       THEN /\ answered' = [Fresh(answered) EXCEPT ![key] = @ \cup answers]
            /\ UNCHANGED creating
       ELSE /\ answered' = Fresh(answered)
            /\ creating' = IF key # NoKey /\ ~HasRoomFor(Kept, key, MaxRequests)
                           THEN NoCall ELSE [key |-> key, body |-> body]
    /\ UNCHANGED vars

\* start_job fails: the library is unknown, the client went away during the
\* await, the manager is busy or shutting down, or the record cannot be written.
CreateFails ==
    /\ creating # NoCall
    /\ creating' = NoCall
    /\ UNCHANGED <<vars, requests, started, answered, stoppedKeys>>

\* The job start returns for a spec: the queued scan it merges into or a new one.
JobOf(r) ==
    IF r.kind = "libraryScan" /\ QueuedFor(r.library) # {}
    THEN CHOOSE id \in QueuedFor(r.library) : TRUE ELSE nextId

\* start_job admits the job; without another await the key is recorded.
CreateStarts ==
    LET key == creating.key  job == JobOf(creating.body) IN
    /\ creating # NoCall
    /\ Start(creating.body)
    /\ creating' = NoCall
    /\ IF key = NoKey THEN UNCHANGED <<requests, started, answered>>
       ELSE /\ requests' = Insert(requests, key,
                               [body |-> creating.body, job |-> job, aged |-> FALSE])
            /\ started' = [started EXCEPT ![key] = @ \cup {job}]
            /\ answered' = [answered EXCEPT ![key] = @ \cup {<<job, creating.body>>}]
    /\ UNCHANGED stoppedKeys

\* Mutant: a tombstone is a key with the entry of no request.
Tombstone_NoJob == [body |-> NoSpec, job |-> MaxJobs + 1, aged |-> FALSE]

Tombstone == [body |-> NoSpec, job |-> None, aged |-> FALSE]

\* Mutant: a stop makes room for its tombstones one by one.
TombstonesFit_One(missing) == Cardinality(DOMAIN Kept) < MaxRequests

\* The tombstones of a stop are refused as a whole when they do not fit.
TombstonesFit(missing) == Cardinality(DOMAIN Kept) + Cardinality(missing) <= MaxRequests

\* cancel_jobs: a tombstone for every named request not seen yet, then stop.
CancelJobs(c, ids) ==
    LET missing == ids \ DOMAIN Kept IN
    /\ MutexFree
    /\ started' = Fresh(started)
    /\ answered' = Fresh(answered)
    /\ IF TombstonesFit(missing)
       THEN /\ Stop(c)
            /\ requests' = [k \in DOMAIN Kept \cup missing |->
                               IF k \in missing THEN Tombstone ELSE Kept[k]]
            /\ stoppedKeys' = (stoppedKeys \ Gone) \cup ids
       ELSE /\ requests' = Kept
            /\ stoppedKeys' = stoppedKeys \ Gone
            /\ UNCHANGED vars
    /\ UNCHANGED creating

RequestAges(key) ==
    /\ key \in DOMAIN requests /\ ~requests[key].aged
    /\ requests' = Aged(requests, key)
    /\ UNCHANGED <<vars, creating, started, answered, stoppedKeys>>


\* Every step the routes take, beside the manager's own.
RequestsNext ==
    \/ \E key \in Keys \cup {NoKey}, body \in Requests : CreateBegin(key, body)
    \/ CreateFails \/ CreateStarts
    \/ \E c \in Callers, ids \in SUBSET Keys : CancelJobs(c, ids)
    \/ \E key \in Keys : RequestAges(key)

-----------------------------------------------------------------------------
(* Safety.                                                                  *)

RequestsTypeOK ==
    /\ DOMAIN requests \subseteq Keys
    /\ \A k \in DOMAIN requests : requests[k] \in
           [body : Requests \cup {NoSpec}, job : JobIds \cup {None}, aged : BOOLEAN]
    /\ creating.key \in Keys \cup {NoKey} /\ creating.body \in Requests \cup {NoSpec}

\* "Repeating that key with the same body returns the existing job": however
\* often a named request is sent, and whatever is stopped or fails meanwhile,
\* it starts one job, and every answer names that job and that body.
OneJobPerKey ==
    \A k \in Keys :
        /\ Cardinality(started[k]) <= 1
        /\ Cardinality(answered[k]) <= 1
        /\ \A a \in answered[k] : a[1] \in started[k]

\* "Stop either cancels that admitted job or leaves a tombstone for a request
\* still in transit": no job of a stopped request is left to run, on
\* whichever side of the stop its create is admitted.
StoppedRequestNeverRuns ==
    \A k \in stoppedKeys : \A id \in started[k] : cancelRequested[id] \/ IsTerminal(id)

\* The map never grows past its capacity, whether creates or tombstones fill it.
RequestsBounded == Cardinality(DOMAIN requests) <= MaxRequests

\* A named request starts one job however often it is sent, and none once it is
\* stopped, on whichever side of its create the stop arrives (routes.rs).
RequestsHonoured == RequestsTypeOK /\ OneJobPerKey /\ StoppedRequestNeverRuns /\ RequestsBounded

-----------------------------------------------------------------------------
(* The inductive invariant of the proofs.                                   *)

RequestEntry == [body : Requests \cup {NoSpec}, job : JobIds \cup {None}, aged : BOOLEAN]

\* What was started and answered for a key of the map is what its entry says,
\* and a stopped key's job has its flag set or is over.
KeyEntry(k) ==
    LET job == requests[k].job IN
    /\ job < nextId
    /\ started[k] = IF job = None THEN {} ELSE {job}
    /\ answered[k] \subseteq IF job = None THEN {} ELSE {<<job, requests[k].body>>}
    /\ k \in stoppedKeys /\ job # None => cancelRequested[job] \/ IsTerminal(job)

\* A key that is not in the map has no history.
KeyUnknown(k) == started[k] = {} /\ answered[k] = {} /\ k \notin stoppedKeys

\* The create between its looks holds a key the map does not know and has room for.
CreatingInv ==
    /\ creating.key \in Keys \cup {NoKey}
    /\ creating.body \in Requests \cup {NoSpec}
    /\ creating = NoCall \/ creating.body \in Requests
    /\ creating.key # NoKey =>
           creating.key \notin DOMAIN requests /\ Cardinality(DOMAIN requests) < MaxRequests

KeysInv ==
    /\ DOMAIN requests \subseteq Keys /\ Cardinality(DOMAIN requests) <= MaxRequests
    /\ requests \in [DOMAIN requests -> RequestEntry]
    /\ DOMAIN started = Keys /\ DOMAIN answered = Keys /\ stoppedKeys \subseteq Keys
    /\ \A k \in Keys : IF k \in DOMAIN requests THEN KeyEntry(k) ELSE KeyUnknown(k)
    /\ CreatingInv
===============================================================================
