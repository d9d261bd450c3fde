------------------------------ MODULE ModelSlots ------------------------------
(***************************************************************************)
(* The indexing model sessions of the process and the execution provider    *)
(* they share.  A slot keeps at most one session; jobs and searches that    *)
(* need it wait for one build, an idle one is unloaded, and the first build *)
(* to succeed decides the provider of every later one.  The provider choice *)
(* and the providers that ever worked survive a restart in runtime.json.    *)
(***************************************************************************)
EXTENDS Naturals

CONSTANTS
    Slots,              \* image, text index and OCR models
    Jobs, Warmers,      \* users of a slot: jobs download, searches only load cached files
    Available,          \* available_execution_providers of this build
    Default,            \* the first of them
    MaxBoots            \* bound: process starts

Providers == {"cpu", "openvino", "directml"}
Users == Jobs \cup Warmers
NoProvider == "none"
NoUser == "nobody"

ASSUME SlotsAssumption ==
    /\ Available \subseteq Providers /\ Default \in Available /\ "cpu" \in Available
    /\ NoUser \notin Users

VARIABLES
    slots,              \* slot -> [state, session, idle]
    gate,               \* slot -> the user that holds its preparation mutex
    user,               \* user -> [pc, slot, previous, options, result]
    stopped,            \* jobs whose cancellation was requested
    files,              \* slots whose model files are in the cache
    runtime,            \* RuntimeSettings: [up, active, provider, working, loaded]
    saved,              \* runtime.json: [provider, working]
    restarting, boots

slotVars == <<slots, gate, user, stopped, files, runtime, saved, restarting, boots>>

NewSlot == [state |-> "notLoaded", session |-> NoProvider, idle |-> FALSE]
Idle == [pc |-> "idle"]
Down == [up |-> FALSE, active |-> Default, provider |-> Default, working |-> {}, loaded |-> NoProvider]

SlotsInit ==
    /\ slots = [s \in Slots |-> NewSlot]
    /\ gate = [s \in Slots |-> NoUser]
    /\ user = [u \in Users |-> Idle]
    /\ stopped = {} /\ files \in SUBSET Slots
    /\ runtime = Down
    /\ saved \in [provider : Providers \cup {NoProvider}, working : {{}}]
    /\ restarting = FALSE /\ boots = 0

\* read_settings: a choice this build lacks is replaced by its default.
Chosen == IF saved.provider \in Available THEN saved.provider ELSE Default

\* RuntimeSettings::load; the replaced choice must be written before readiness.
Boot ==
    /\ ~runtime.up /\ boots < MaxBoots
    /\ runtime' = [up |-> TRUE, active |-> Chosen, provider |-> Chosen,
                   working |-> saved.working, loaded |-> NoProvider]
    /\ saved' = IF saved.provider = NoProvider THEN saved ELSE [saved EXCEPT !.provider = Chosen]
    /\ boots' = boots + 1
    /\ UNCHANGED <<slots, gate, user, stopped, files, restarting>>

\* The process ends: a crash, or the exit that asks the launcher for a restart.
ProcessEnds ==
    /\ runtime.up
    /\ slots' = [s \in Slots |-> NewSlot]
    /\ gate' = [s \in Slots |-> NoUser]
    /\ user' = [u \in Users |-> Idle]
    /\ runtime' = Down
    /\ stopped' = {} /\ restarting' = FALSE
    /\ UNCHANGED <<files, saved, boots>>

Goto(u, pc) == user' = [user EXCEPT ![u].pc = pc]
Leave(u) == user' = [user EXCEPT ![u] = Idle]

Use(u, s) ==
    /\ user' = [user EXCEPT ![u] = [pc |-> "using", slot |-> s]]
    /\ slots' = [slots EXCEPT ![s].idle = FALSE]

\* prepare up to its gate: the first look at the flag and at the session.
PrepareBegins(u, s) ==
    /\ runtime.up /\ user[u].pc = "idle"
    /\ IF u \in stopped THEN UNCHANGED <<user, slots>>
       ELSE IF slots[s].session # NoProvider THEN Use(u, s)
       ELSE user' = [user EXCEPT ![u] = [pc |-> "gate", slot |-> s]] /\ UNCHANGED slots
    /\ UNCHANGED <<gate, stopped, files, runtime, saved, restarting, boots>>

\* Mutant: whoever gets the gate builds, without another look at the session.
SomeoneBuilt_Unasked(s) == FALSE

SomeoneBuilt(s) == slots[s].session # NoProvider

\* The gate is acquired; unless its last holder built the session, build starts.
GateAcquired(u) ==
    LET s == user[u].slot IN
    /\ user[u].pc = "gate" /\ gate[s] = NoUser
    /\ IF u \in stopped THEN Leave(u) /\ UNCHANGED <<slots, gate>>
       ELSE IF SomeoneBuilt(s) THEN Use(u, s) /\ UNCHANGED gate
       ELSE /\ gate' = [gate EXCEPT ![s] = u]
            /\ slots' = [slots EXCEPT ![s].state = "preparing"]
            /\ user' = [user EXCEPT ![u] =
                   [pc |-> "options", slot |-> s, previous |-> slots[s].state]]
    /\ UNCHANGED <<stopped, files, runtime, saved, restarting, boots>>

\* Mutant: a provider that worked before may be given up after a failed load.
FallbackAllowed_UntilLoaded == runtime.loaded = NoProvider

\* model_runtime_options: "a provider that has compiled successfully must not
\* be treated as unsupported after a later crash or reload failure".
FallbackAllowed == runtime.loaded = NoProvider /\ runtime.active \notin runtime.working

\* fallback_chain.
FallbackChain(p) ==
    CASE p = "directml" -> {"openvino", "cpu"} [] p = "openvino" -> {"cpu"} [] p = "cpu" -> {}

\* configured_options, read inside the loader: what with_fallback may end up with.
OptionsRead(u) ==
    LET wanted == IF runtime.loaded = NoProvider THEN runtime.active ELSE runtime.loaded IN
    /\ user[u].pc = "options"
    /\ user' = [user EXCEPT ![u] = [pc |-> "load", slot |-> @.slot, previous |-> @.previous,
           options |-> {wanted} \cup (IF FallbackAllowed THEN FallbackChain(wanted) ELSE {})]]
    /\ UNCHANGED <<slots, gate, stopped, files, runtime, saved, restarting, boots>>

Finished(u, result) ==
    user' = [user EXCEPT ![u] = [pc |-> "publish", slot |-> @.slot, previous |-> @.previous,
                                 result |-> result]]

\* The loader returns: sessions on one of the providers, after a download if
\* need be; no files and no leave to download them; a cancelled download; an
\* error or a panic.
Loads(u) ==
    LET s == user[u].slot IN
    /\ user[u].pc = "load"
    /\ \/ /\ s \in files \/ u \in Jobs
          /\ files' = files \cup {s}
          /\ \E p \in user[u].options : user' = [user EXCEPT ![u] =
                 [pc |-> "accept", slot |-> s, previous |-> @.previous, result |-> p]]
       \/ /\ u \in Warmers /\ s \notin files
          /\ Finished(u, "missing") /\ UNCHANGED files
       \/ /\ u \in stopped
          /\ Finished(u, "cancelled") /\ UNCHANGED files
       \/ Finished(u, "failed") /\ UNCHANGED files
    /\ UNCHANGED <<slots, gate, stopped, runtime, saved, restarting, boots>>

\* write_settings renames a complete file over the old one, or fails; the
\* settings in memory follow only a file that was replaced.
Persist(provider, working) ==
    /\ saved' = [provider |-> provider, working |-> working]
    /\ runtime' = [runtime EXCEPT !.provider = provider, !.working = working]

\* Mutant: the second of two first loads is not compared with the first.
Mixes_Never(p) == FALSE

Mixes(p) == runtime.loaded # NoProvider /\ runtime.loaded # p

\* accept_loaded_provider, under the mutex of the loaded provider.
Accepts(u) ==
    LET p == user[u].result IN
    /\ user[u].pc = "accept"
    /\ IF Mixes(p) THEN Finished(u, "failed") /\ UNCHANGED <<runtime, saved, restarting>>
       ELSE IF runtime.loaded # NoProvider
       THEN Finished(u, p) /\ UNCHANGED <<runtime, saved, restarting>>
       ELSE IF p = runtime.active
       THEN /\ Finished(u, p)
            /\ UNCHANGED restarting
            /\ \/ /\ saved' = [provider |-> runtime.provider, working |-> runtime.working \cup {p}]
                  /\ runtime' = [runtime EXCEPT !.working = @ \cup {p}, !.loaded = p]
               \/ /\ p \notin runtime.working   \* the record could not be saved
                  /\ runtime' = [runtime EXCEPT !.loaded = p] /\ UNCHANGED saved
       ELSE IF runtime.active = "directml" /\ p = "cpu"
       THEN \/ /\ "openvino" \in Available
               /\ saved' = [provider |-> "openvino", working |-> runtime.working]
               /\ runtime' = [runtime EXCEPT !.provider = "openvino", !.loaded = p]
               /\ restarting' = TRUE
               /\ Finished(u, p)
            \/ Finished(u, "failed") /\ UNCHANGED <<runtime, saved, restarting>>
       ELSE /\ runtime' = [runtime EXCEPT !.loaded = p]
            /\ Finished(u, p) /\ UNCHANGED <<saved, restarting>>
    /\ UNCHANGED <<slots, gate, stopped, files, boots>>

\* SlotState::rest: as usable as before, but not failed.
Rested(s, previous) == IF previous = "ready" THEN "ready" ELSE "notLoaded"

\* Mutant: a loader that fails takes its caller with it.
PublishedState_Lost(s, result, previous) ==
    IF result = "failed" THEN "preparing"
    ELSE IF result \in {"cancelled", "missing"} THEN Rested(s, previous) ELSE "ready"

PublishedState(s, result, previous) ==
    IF result = "failed" THEN "failed"
    ELSE IF result \in {"cancelled", "missing"} THEN Rested(s, previous) ELSE "ready"

\* build publishes what the loader made, even for a job that was cancelled
\* meanwhile, and opens the gate.
Publishes(u) ==
    LET s == user[u].slot  result == user[u].result IN
    /\ user[u].pc = "publish"
    /\ slots' = [slots EXCEPT
           ![s].state = PublishedState(s, result, user[u].previous),
           ![s].session = IF result \in Providers THEN result ELSE @,
           ![s].idle = IF result \in Providers THEN FALSE ELSE @]
    /\ gate' = [gate EXCEPT ![s] = NoUser]
    /\ IF result \in Providers /\ u \notin stopped
       THEN user' = [user EXCEPT ![u] = [pc |-> "using", slot |-> s]] ELSE Leave(u)
    /\ UNCHANGED <<stopped, files, runtime, saved, restarting, boots>>

Releases(u) ==
    /\ user[u].pc = "using" /\ Leave(u)
    /\ UNCHANGED <<slots, gate, stopped, files, runtime, saved, restarting, boots>>

\* ensure_available of a scan: a resident model is left alone, a failed one is
\* built, for any other the files are fetched without building it.
EnsureBegins(u, s) ==
    /\ runtime.up /\ u \in Jobs /\ user[u].pc = "idle" /\ slots[s].session = NoProvider
    /\ slots[s].state # "failed"
    /\ user' = [user EXCEPT ![u] = [pc |-> "fetch", slot |-> s]]
    /\ UNCHANGED <<slots, gate, stopped, files, runtime, saved, restarting, boots>>

\* Mutant: files that have arrived make any slot ready.
MarkAvailable_Always(s) == slots' = [slots EXCEPT ![s].state = "ready"]

\* mark_available: "a failed model stays failed".
MarkAvailable(s) ==
    slots' = [slots EXCEPT ![s].state = IF @ = "notLoaded" THEN "ready" ELSE @]

Fetched(u) ==
    /\ user[u].pc = "fetch"
    /\ \/ MarkAvailable(user[u].slot) /\ files' = files \cup {user[u].slot}
       \/ UNCHANGED <<slots, files>>
    /\ Leave(u)
    /\ UNCHANGED <<gate, stopped, runtime, saved, restarting, boots>>

\* Mutant: a session is idle by the clock, whoever holds it.
Held_Never(s) == FALSE

\* Arc::strong_count > 1.
Held(s) == \E u \in Users : user[u].pc = "using" /\ user[u].slot = s

\* unload_idle: the gate is tried, the idle period starts when the session is
\* first seen unheld, and only a whole period of it unloads the session.
UnloadIdle(s) ==
    /\ gate[s] = NoUser /\ slots[s].session # NoProvider
    /\ IF Held(s) THEN slots' = [slots EXCEPT ![s].idle = FALSE]
       ELSE \/ slots' = [slots EXCEPT ![s].idle = TRUE]
            \/ slots[s].idle /\ slots' = [slots EXCEPT ![s].session = NoProvider, ![s].idle = FALSE]
    /\ UNCHANGED <<gate, user, stopped, files, runtime, saved, restarting, boots>>

RequestCancel(u) ==
    /\ u \in Jobs /\ user[u].pc # "idle" /\ u \notin stopped
    /\ stopped' = stopped \cup {u}
    /\ UNCHANGED <<slots, gate, user, files, runtime, saved, restarting, boots>>

\* The next job of the same kind is not cancelled.
NextJob(u) ==
    /\ u \in stopped /\ user[u].pc = "idle"
    /\ stopped' = stopped \ {u}
    /\ UNCHANGED <<slots, gate, user, files, runtime, saved, restarting, boots>>

\* PUT /v1/runtime while no job is active: the choice of the next launch.
UpdateRuntime(p) ==
    /\ runtime.up /\ \A u \in Jobs : user[u].pc = "idle"
    /\ p \in Available
    /\ Persist(p, runtime.working)
    /\ UNCHANGED <<slots, gate, user, stopped, files, restarting, boots>>

SlotsNext ==
    \/ Boot \/ ProcessEnds
    \/ \E u \in Users, s \in Slots : PrepareBegins(u, s) \/ EnsureBegins(u, s)
    \/ \E u \in Users :
        \/ GateAcquired(u) \/ OptionsRead(u) \/ Loads(u) \/ Accepts(u) \/ Publishes(u)
        \/ Releases(u) \/ Fetched(u) \/ RequestCancel(u) \/ NextJob(u)
    \/ \E s \in Slots : UnloadIdle(s)
    \/ \E p \in Providers : UpdateRuntime(p)

SlotsSpec == SlotsInit /\ [][SlotsNext]_slotVars

-----------------------------------------------------------------------------
(* Safety.                                                                  *)

Building(u) == user[u].pc \in {"options", "load", "accept", "publish"}

SlotStates == {"notLoaded", "preparing", "ready", "failed"}

SlotUser ==
    [pc : {"idle"}]
        \cup [pc : {"gate", "using", "fetch"}, slot : Slots]
        \cup [pc : {"options"}, slot : Slots, previous : SlotStates]
        \cup [pc : {"load"}, slot : Slots, previous : SlotStates, options : SUBSET Providers]
        \cup [pc : {"accept"}, slot : Slots, previous : SlotStates, result : Providers]
        \cup [pc : {"publish"}, slot : Slots, previous : SlotStates,
                result : Providers \cup {"missing", "cancelled", "failed"}]

SlotsTypeOK ==
    /\ slots \in [Slots -> [state : SlotStates, session : Providers \cup {NoProvider}, idle : BOOLEAN]]
    /\ gate \in [Slots -> Users \cup {NoUser}]
    /\ user \in [Users -> SlotUser]
    /\ runtime \in [up : BOOLEAN, active : Providers, provider : Providers,
                    working : SUBSET Providers, loaded : Providers \cup {NoProvider}]
    /\ saved \in [provider : Providers \cup {NoProvider}, working : SUBSET Providers]

\* accept_loaded_provider: "models in this server process cannot mix" providers,
\* also when two slots load before either has decided.
ProvidersNeverMix ==
    \A s \in Slots : slots[s].session # NoProvider => slots[s].session = runtime.loaded

\* A provider that worked once is never replaced by a fallback, in this process
\* or after a restart.
WorkingProviderKept ==
    runtime.active \in runtime.working => runtime.loaded \in {NoProvider, runtime.active}

\* A slot is preparing exactly while somebody builds it: no way out of a build
\* leaves it waiting for nobody.
PreparingIsBuilt ==
    \A s \in Slots : slots[s].state = "preparing" <=>
        \E u \in Users : Building(u) /\ user[u].slot = s /\ gate[s] = u

\* The gate: nobody builds a session beside a resident one.
OneSessionPerSlot ==
    \A u \in Users : Building(u) => slots[user[u].slot].session = NoProvider

\* Idle cleanup never takes a session a worker still uses.
HeldSessionsStay ==
    \A u \in Users : user[u].pc = "using" => slots[user[u].slot].session # NoProvider

\* "Only a successful build clears" a failure: no other step of a process, nor
\* a fetch that read the state before the failure, makes a failed slot usable.
FailureNeedsBuild ==
    [][runtime.up /\ runtime'.up => \A s \in Slots :
        slots[s].state = "failed" => slots'[s].state \in {"failed", "preparing"}]_slotVars

\* Why it is so.  Nobody works in a process that is down, ...
DownInv == runtime.up \/ (runtime.loaded = NoProvider /\ \A u \in Users : user[u].pc = "idle")

\* ... whoever builds a slot holds its gate, ...
GateInv ==
    /\ \A u \in Users : Building(u) => gate[user[u].slot] = u
    /\ \A s \in Slots, u \in Users : gate[s] = u => Building(u) /\ user[u].slot = s
    /\ \A s \in Slots : slots[s].state = "preparing" <=> gate[s] # NoUser

\* ... what a build publishes is on the provider the process has settled on, ...
ResultInv ==
    \A u \in Users : user[u].pc = "publish" /\ user[u].result \in Providers =>
        user[u].result = runtime.loaded

\* ... and until it has, a provider that worked before is the only one a loader
\* may end up with, also if it began before.
OptionsInv ==
    runtime.loaded = NoProvider /\ runtime.active \in runtime.working =>
        \A u \in Users : /\ user[u].pc = "load" => user[u].options \subseteq {runtime.active}
                         /\ user[u].pc = "accept" => user[u].result = runtime.active

SlotsInv ==
    /\ SlotsTypeOK /\ DownInv /\ GateInv /\ ResultInv /\ OptionsInv
    /\ ProvidersNeverMix /\ WorkingProviderKept /\ OneSessionPerSlot /\ HeldSessionsStay

\* The sessions of a process are on one provider, and on the one that worked
\* before, across restarts and fallbacks (accept_loaded_provider, RuntimeSettings).
ProvidersAgree == ProvidersNeverMix /\ WorkingProviderKept

\* One build per slot, shared by all who ask and left by no failure; a session
\* in use stays, and only another build leaves a failure (ModelSlot).
SlotsHold ==
    /\ [](PreparingIsBuilt /\ OneSessionPerSlot /\ HeldSessionsStay)
    /\ FailureNeedsBuild
===============================================================================
