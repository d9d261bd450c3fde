------------------------------ MODULE MCServices ------------------------------
(***************************************************************************)
(* The services beside the job manager share no state, so their behaviours  *)
(* are checked side by side: `part` is the service that moves.              *)
(***************************************************************************)
EXTENDS SearchSessions, ModelSlots, PatchCache, JobProgress, ModelFiles, TLC

VARIABLE part

\* A picture weighs its number; the last of them exceeds the budget alone, and
\* the one before it leaves no room for the others.
MCWeight == [p \in Pictures |-> p]

\* ensure_available fetches what a search then loads; a job loads an image half
\* on a provider that may fail.
Asked(half, only, build, provider) ==
    [half |-> half, only |-> only, build |-> build, provider |-> provider, fallback |-> TRUE]
MCAsks == {Asked("query", FALSE, FALSE, "cpu"), Asked("query", TRUE, TRUE, "cpu"), Asked("image", FALSE, TRUE, "directml")}

MCSymmetry == Permutations(Loaders)

MCInit ==
    /\ part \in {"sessions", "slots", "patches", "progress", "files"}
    /\ SessionsInit /\ PatchInit /\ ProgressInit
    \* No files are cached before the first job; no choice is saved, or one is.
    /\ SlotsInit /\ files = {} /\ saved.provider \in {NoProvider, "directml"}
    /\ part # "slots" => saved.provider = NoProvider
    \* Threads of one process meet linked weights, two processes plain files; an
    \* export of another kind, or a local one, is met with nothing to download.
    /\ FilesInit /\ together = linked
    /\ cache = {} => override # {Nothing} \/ (export.matches /\ export.layout /\ (export.external <=> model # "dinov3"))
    /\ override # {Nothing} => linked /\ export.matches /\ cache = {} /\ export.layout
    /\ part # "files" => model = "dinov3" /\ override = {} /\ export.external

MCNext ==
    /\ UNCHANGED part
    /\ \/ part = "sessions" /\ SessionsNext /\ UNCHANGED <<slotVars, patchVars, progressVars, fileVars>>
       \/ part = "slots" /\ SlotsNext /\ UNCHANGED <<sessionVars, patchVars, progressVars, fileVars>>
       \/ part = "patches" /\ PatchNext /\ UNCHANGED <<sessionVars, slotVars, progressVars, fileVars>>
       \/ part = "progress" /\ ProgressNext /\ UNCHANGED <<sessionVars, slotVars, patchVars, fileVars>>
       \/ part = "files" /\ FilesNext /\ UNCHANGED <<sessionVars, slotVars, patchVars, progressVars>>

MCSpec == MCInit /\ [][MCNext]_<<part, sessionVars, slotVars, patchVars, progressVars, fileVars>>
===============================================================================
