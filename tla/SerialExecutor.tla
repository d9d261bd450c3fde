--------------------------- MODULE SerialExecutor ---------------------------
(***************************************************************************)
(* What the job manager promises, without registry, queue or threads:      *)
(* "The server runs one resource-intensive job at a time."  Jobs are       *)
(* numbered in the order in which they are accepted.                       *)
(***************************************************************************)
EXTENDS Naturals

CONSTANT Jobs

VARIABLE phase

Phases == {"new", "waiting", "running", "ended"}

SerialTypeOK == phase \in [Jobs -> Phases]

Init == phase = [j \in Jobs |-> "new"]

Admit(j) ==
    /\ phase[j] = "new"
    /\ \A k \in Jobs : k < j => phase[k] # "new"
    /\ phase' = [phase EXCEPT ![j] = "waiting"]

\* A job begins when none runs and none accepted earlier still waits.
Begin(j) ==
    /\ phase[j] = "waiting"
    /\ \A k \in Jobs : phase[k] # "running" /\ (k < j => phase[k] # "waiting")
    /\ phase' = [phase EXCEPT ![j] = "running"]

End(j) ==
    /\ phase[j] = "running"
    /\ phase' = [phase EXCEPT ![j] = "ended"]

\* Cancellation takes any waiting jobs out at once.
Drop(js) ==
    /\ \A j \in js : phase[j] = "waiting"
    /\ phase' = [j \in Jobs |-> IF j \in js THEN "ended" ELSE phase[j]]

\* The process ends and the next one starts with no jobs.
Reset == phase' = [j \in Jobs |-> "new"]

Next ==
    \/ \E j \in Jobs : Admit(j) \/ Begin(j) \/ End(j)
    \/ \E js \in SUBSET Jobs : Drop(js)
    \/ Reset

Spec == Init /\ [][Next]_phase

\* At most one job runs.
OneAtATime == \A j, k \in Jobs : phase[j] = "running" /\ phase[k] = "running" => j = k
=============================================================================
