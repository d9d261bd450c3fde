------------------------------ MODULE JobProgress ------------------------------
(***************************************************************************)
(* What a running job shows: the phase it is in, with the detour through    *)
(* loadingModels that building a model is, and the rate of its last         *)
(* seconds.  Every change is made and published under the data lock.        *)
(***************************************************************************)
EXTENDS Integers, Sequences, SequencesExt

CONSTANTS
    Stages,             \* phases of indexing work
    Window, Interval,   \* 5 s and 100 ms in the code, in ticks of the clock
    MaxNow, MaxWork     \* bounds: the clock, and the work of a phase

NoPhase == "none"
NoStages == {"queued", "loadingModels", "finished"}    \* phases that are no stage of the work

ASSUME ProgressAssumption ==
    /\ Window \in Nat /\ Interval \in 1..Window
    /\ Stages \cap (NoStages \cup {NoPhase}) = {}

VARIABLES
    now,
    data,               \* JobData: [status, phase, loadingFor, loading, completed, total,
                        \*           work, startedAt, samples]
    rate,               \* what refresh averaged over: [span, baseline], or none yet
    stage               \* history: the phase the job itself entered last

progressVars == <<now, data, rate, stage>>

NoRate == [span |-> 0, baseline |-> 0]

ProgressInit ==
    /\ now = 0
    /\ data = [status |-> "queued", phase |-> "queued", loadingFor |-> NoPhase, loading |-> FALSE,
               completed |-> 0, total |-> 0, work |-> 0, startedAt |-> 0, samples |-> <<>>]
    /\ rate = NoRate
    /\ stage = NoPhase

\* set_phase: a phase that is already set is left alone, a new one starts over.
InPhase(d, next) ==
    IF d.phase = next THEN d
    ELSE [d EXCEPT !.phase = next,
                   !.loadingFor = IF next = "loadingModels" THEN @ ELSE NoPhase,
                   !.loading = IF next = "loadingModels" THEN @ ELSE FALSE,
                   !.completed = 0, !.total = 0, !.work = 0, !.startedAt = now, !.samples = <<>>]

\* Mutant: a sample older than the window is dropped although the next one is
\* not at the window's start yet.
DropOld_All(samples, cutoff) ==
    LET kept == SelectSeq(samples, LAMBDA s : s[1] > cutoff)
    IN IF kept = <<>> THEN <<Last(samples)>> ELSE kept

\* The oldest sample kept is the last one at or before the cutoff, for interpolation.
DropOld(samples, cutoff) ==
    LET old == {k \in 1..Len(samples) : samples[k][1] <= cutoff} IN
    IF old = {} THEN samples
    ELSE SubSeq(samples, CHOOSE k \in old : \A l \in old : l <= k, Len(samples))

\* Mutant: every update adds a sample.
Sampled_Always(samples, work) == Append(samples, <<now, work>>)

Sampled(samples, work) ==
    IF now - Last(samples)[1] >= Interval THEN Append(samples, <<now, work>>) ELSE samples

\* refresh_phase_throughput_at followed by publish.  The baseline is the work
\* at the start of the window, interpolated and rounded down.
Publish(d) ==
    LET seeded == IF d.samples = <<>> THEN <<<<d.startedAt, 0>>>> ELSE d.samples
        cutoff == IF now > Window THEN now - Window ELSE 0
        kept == IF now < Window THEN seeded ELSE DropOld(seeded, cutoff)
        first == IF kept = <<>> THEN <<now, d.work>> ELSE kept[1]
        second == IF Len(kept) > 1 THEN kept[2] ELSE <<now, d.work>>
        cut == now >= Window /\ first[1] < cutoff
    IN
    /\ IF d.phase \in {"queued", "finished"} \/ d.work = 0
       THEN /\ data' = d
            /\ rate' = IF d.phase = "finished" THEN rate ELSE NoRate
       ELSE /\ data' = [d EXCEPT !.samples = Sampled(kept, d.work)]
            /\ rate' = [span |-> now - (IF cut THEN cutoff ELSE first[1]),
                        baseline |-> IF cut THEN first[2] + ((second[2] - first[2]) *
                                          (cutoff - first[1])) \div (second[1] - first[1])
                                     ELSE first[2]]

JobRunning == data.status = "running"

BeginJob ==
    /\ data.status = "queued"
    /\ Publish([data EXCEPT !.status = "running"])
    /\ UNCHANGED <<now, stage>>

\* PhaseChanged, once per stage; never while a model is being built.
EnterStage(p) ==
    /\ JobRunning /\ ~data.loading
    /\ Publish(InPhase(data, p)) /\ stage' = p
    /\ UNCHANGED now

\* expect_models of a job that only prepares models.
ExpectModels(n) ==
    /\ JobRunning /\ stage = NoPhase /\ data.phase = "queued"
    /\ Publish([InPhase(data, "loadingModels") EXCEPT !.total = n])
    /\ UNCHANGED <<now, stage>>

\* Mutant: the phase is changed before it is remembered.
DetourFrom_Lost(d) == NoPhase

\* The phase a load returns to.
DetourFrom(d) == IF d.phase \in {"queued", "loadingModels"} THEN d.loadingFor ELSE d.phase

\* loading_model.
LoadBegins ==
    LET d == InPhase([data EXCEPT !.loadingFor = DetourFrom(data)], "loadingModels") IN
    /\ JobRunning /\ ~data.loading
    /\ d.completed < MaxWork
    /\ Publish([d EXCEPT !.loading = TRUE,
                    !.total = IF @ > d.completed + 1 THEN @ ELSE d.completed + 1])
    /\ UNCHANGED <<now, stage>>

\* model_loaded.
LoadEnds ==
    /\ JobRunning /\ data.loading
    /\ Publish(IF data.loadingFor # NoPhase
               THEN InPhase([data EXCEPT !.loading = FALSE], data.loadingFor)
               ELSE [data EXCEPT !.loading = FALSE, !.completed = @ + 1, !.work = @ + 1])
    /\ UNCHANGED <<now, stage>>

\* A Progress event of the stage's workers.
WorkDone(n) ==
    /\ JobRunning /\ data.phase \in Stages /\ data.work + n <= MaxWork
    /\ Publish([data EXCEPT !.completed = @ + n, !.work = @ + n])
    /\ UNCHANGED <<now, stage>>

\* complete and fail.
Finish(status) ==
    /\ JobRunning
    /\ Publish([data EXCEPT !.status = status, !.phase = "finished",
                            !.loading = FALSE, !.loadingFor = NoPhase])
    /\ UNCHANGED <<now, stage>>

Tick == /\ now < MaxNow /\ now' = now + 1
        /\ UNCHANGED <<data, rate, stage>>

ProgressNext ==
    \/ BeginJob \/ LoadBegins \/ LoadEnds \/ Tick
    \/ \E p \in Stages : EnterStage(p)
    \/ \E n \in 1..2 : ExpectModels(n) \/ WorkDone(n)
    \/ \E status \in {"completed", "failed", "cancelled"} : Finish(status)

ProgressSpec == ProgressInit /\ [][ProgressNext]_progressVars

-----------------------------------------------------------------------------
(* Safety.                                                                  *)

\* "Once the model is built, the job returns to that phase": a stage that has
\* set its phase once is in it whenever no model is being built, and a
\* detour never claims to return anywhere else.
StageResumed ==
    JobRunning /\ stage # NoPhase =>
        IF data.loading THEN data.phase = "loadingModels" /\ data.loadingFor = stage
        ELSE data.phase = stage

\* "Irregular updates do not change the averaging duration": after an update
\* the rate is over the whole window, or over the phase when it is younger.
RateSpansWindow ==
    [][data' # data /\ rate' # NoRate /\ data'.phase # "finished" =>
        rate'.span = (IF now - data'.startedAt > Window THEN Window ELSE now - data'.startedAt)]_progressVars

\* "Sampling at most ten times per second bounds storage": the samples of a
\* window and its anchor, in order, never behind the work they count.
SamplesBounded ==
    /\ Len(data.samples) <= Window \div Interval + 2
    /\ \A k \in 2..Len(data.samples) :
        data.samples[k - 1][1] + Interval <= data.samples[k][1] /\ data.samples[k - 1][2] <= data.samples[k][2]
    /\ rate.baseline <= data.work \/ data.phase = "finished"

\* A job shows the phase it is in and the rate of its last seconds: through
\* detours for models, irregular updates and new phases.
ProgressIsTrue ==
    /\ [](StageResumed /\ SamplesBounded)
    /\ RateSpansWindow

-----------------------------------------------------------------------------
(* What every step keeps.                                                   *)

JobData == [status : {"queued", "running", "completed", "failed", "cancelled"}, phase : Stages \cup NoStages,
            loadingFor : Stages \cup {NoPhase}, loading : BOOLEAN, completed : Nat, total : Nat, work : Nat,
            startedAt : Nat, samples : Seq(Nat \X Nat)]

ProgressTypeOK ==
    /\ now \in Nat /\ stage \in Stages \cup {NoPhase} /\ rate \in [span : Int, baseline : Nat]
    /\ data \in JobData

\* A job that has entered no stage is queued or loads models for none.
StageInv ==
    /\ data.status = "queued" => data.phase = "queued" /\ stage = NoPhase
    /\ data.loading => JobRunning /\ data.phase = "loadingModels"
    /\ data.phase = "finished" => ~JobRunning
    /\ stage = NoPhase => data.loadingFor = NoPhase /\ data.phase \in NoStages
    /\ StageResumed

\* Samples are an interval apart, within the phase and behind its work; the
\* first is where the phase began until the window has moved past it.
SamplesFit(d) ==
    /\ d.startedAt <= now /\ Len(d.samples) <= Window \div Interval + 2
    /\ \A i \in 1..Len(d.samples) : d.samples[i][1] \in d.startedAt..now /\ d.samples[i][2] <= d.work
    /\ \A i, j \in 1..Len(d.samples) : i <= j =>
           d.samples[i][1] + (j - i) * Interval <= d.samples[j][1] /\ d.samples[i][2] <= d.samples[j][2]
    /\ d.samples # <<>> => d.samples[1][1] = d.startedAt \/ d.samples[1][1] + Window <= now

ProgressInv ==
    /\ ProgressTypeOK /\ StageInv /\ SamplesFit(data)
    /\ rate.baseline <= data.work \/ data.phase = "finished"
===============================================================================
