------------------------------ MODULE ModelFiles ------------------------------
(***************************************************************************)
(* From a model's name to its sessions: the files of the shared Hugging     *)
(* Face cache, the view of hard links and the patched graph that are        *)
(* derived from them, and the sessions that are compiled for a provider.    *)
(* Loaders are threads of this process, or of another one that uses the     *)
(* same cache; files that are read alike have one name.                     *)
(***************************************************************************)
EXTENDS Naturals, Sequences, FiniteSets

CONSTANTS
    Loaders,            \* callers of load, load_cached and fetch
    Selected,           \* models that may be selected
    Compiles,           \* providers this build and its runtime library have
    Replicas,           \* RuntimeOptions::replicas
    Asks,               \* what loaders ask: [half, only, build, provider, fallback]
    MaxRequests         \* bound: requests of the loaders

KnownModels ==
    {"metaclip2-b32", "metaclip2-b16", "metaclip2-l14", "siglip2", "siglip-beta", "dinov3", "pe-l14", "pe-b16",
     "gemma-70", "gemma-140", "bge", "ocr"}

ASSUME FilesAssumption ==
    /\ Replicas \in Nat \ {0} /\ Selected \subseteq KnownModels
    /\ \A ask \in Asks : ask.half \in {"image", "query"} /\ {ask.only, ask.build, ask.fallback} \subseteq BOOLEAN

Paired == <<"image", "text", "manifest", "config">>
PairedWithTextData == <<"image", "text", "text data", "manifest", "config">>
ImageOnly == <<"image", "weights", "manifest", "config">>
GemmaFiles == <<"config", "model", "model.dml", "model data", "vision", "vision.dml", "vision data">>
BgeFiles == <<"model", "config">>
OcrFiles == <<"detection", "detection.yml", "recognition", "recognition.yml">>
Weights == {"text data", "image data", "weights", "model data", "vision data"}

Nothing == "nothing"
Export(files, external, prebuilt, data) ==
    [kind |-> "export", files |-> files, external |-> external, prebuilt |-> prebuilt, data |-> data]
Model(source, text, patches, batch) ==
    [source |-> source, text |-> text, patches |-> patches, batch |-> batch]
Gemma == Model([kind |-> "gemma", files |-> GemmaFiles], TRUE, "none", 8)

\* ImageEmbeddingModel::spec, where models differ in what they read and build;
\* the two other models of the index, BGE and the OCR pair, have no spec.
ModelSpec(m) ==
    CASE m \in {"metaclip2-b32", "metaclip2-b16"} -> Model(Export(Paired, TRUE, TRUE, Nothing), TRUE, "branch", 0)
      [] m = "metaclip2-l14" -> Model(Export(PairedWithTextData, TRUE, TRUE, Nothing), TRUE, "branch", 0)
      [] m = "siglip2" -> Model(Export(Paired, TRUE, FALSE, Nothing), TRUE, "none", 0)
      [] m = "siglip-beta" -> Model([kind |-> "deepghs"], TRUE, "branch", 0)
      [] m = "dinov3" -> Model(Export(ImageOnly, FALSE, FALSE, "weights"), FALSE, "branch", 0)
      [] m = "pe-l14" -> Model(Export(Paired, TRUE, TRUE, Nothing), TRUE, "prebuilt", 4)
      [] m = "pe-b16" -> Model(Export(Paired, TRUE, TRUE, Nothing), TRUE, "prebuilt", 8)
      [] m \in {"gemma-70", "gemma-140"} -> Gemma
      [] m = "bge" -> Model([kind |-> "bge", files |-> BgeFiles], TRUE, "none", 0)
      [] m = "ocr" -> Model([kind |-> "ocr"], FALSE, "none", 0)

\* The files of a request. A DeepGHS checkpoint and the OCR pair have no list:
\* each half of the checkpoint, each repository of the pair, names its own.
FilesOf(m, half) ==
    CASE ModelSpec(m).source.kind = "deepghs" ->
           IF half = "image" THEN <<"image_encode", "preprocessor", "meta">>
           ELSE <<"text_encode", "tokenizer", "meta">>
      [] ModelSpec(m).source.kind = "ocr" -> OcrFiles
      [] OTHER -> ModelSpec(m).source.files

VARIABLES
    model,              \* the selected image model
    export,             \* what its repository holds: [external, matches, layout]
    override,           \* files of a local export; {Nothing} without one
    linked,             \* weights in the cache are symbolic links
    together,           \* the loaders are threads of one process
    cache,              \* files in the pinned snapshots
    view,               \* files of the view of hard links
    patched,            \* nicegal-patches-v1: [weights, graph]
    temps,              \* temporary name -> what it holds
    loader,             \* loader -> where its request is
    held,               \* loader -> its sessions
    present,            \* <<model, half>> that fetch reported in place
    asked               \* requests so far

fileVars == <<model, export, override, linked, together, cache, view, patched, temps, loader, held, present, asked>>

NoSessions == [sessions |-> {}, provider |-> Nothing, batch |-> 0]
Resting == [at |-> "rest", ended |-> Nothing, promised |-> FALSE]

Everything(m) ==
    {FilesOf(m, half)[i] : half \in {"image", "query"}, i \in DOMAIN FilesOf(m, "image")} \cup {"image data", "text data", "patched"}

FilesInit ==
    /\ model \in Selected
    /\ export \in {e \in [external : BOOLEAN, matches : BOOLEAN, layout : BOOLEAN] : e.matches \/ (e.external /\ e.layout)}
    /\ override \in {{Nothing}, {}, {"image", "text", "manifest", "config"}}
    /\ linked \in BOOLEAN /\ together \in BOOLEAN
    /\ cache \in {{}, {<<model, f>> : f \in Everything(model)}} /\ view = {} /\ present = {} /\ asked = 0
    /\ patched = [weights |-> FALSE, graph |-> "none"]
    /\ temps = [l \in Loaders |-> "none"]
    /\ loader = [l \in Loaders |-> Resting]
    /\ held = [l \in Loaders |-> NoSessions]

\* with_fallback and fallback_chain: a CPU failure is never retried.
Attempts(p, fallback) ==
    <<p>> \o (IF ~fallback \/ p = "cpu" THEN <<>> ELSE IF p = "directml" THEN <<"openvino", "cpu">> ELSE <<"cpu">>)

SourceOf(l) == ModelSpec(loader[l].model).source
\* local_directory: DeepGHS, BGE and the OCR pair take no override.
Local(l) == override # {Nothing} /\ SourceOf(l).kind \in {"export", "gemma"}
InPlace(l, f) == IF Local(l) THEN f \in override ELSE <<loader[l].model, f>> \in cache

Set(l, changes) ==
    loader' = [loader EXCEPT ![l] = [k \in DOMAIN @ \cup DOMAIN changes |-> IF k \in DOMAIN changes THEN changes[k] ELSE @[k]]]
GoesTo(l, at) == Set(l, [at |-> at])
End(l, ended) ==
    loader' = [loader EXCEPT ![l] = [at |-> "rest", ended |-> ended, promised |-> @.promised]]
KeepDisk == UNCHANGED <<cache, view, patched, temps>>
KeepRest == UNCHANGED <<model, export, override, linked, together, held, present, asked>>

\* A slot prepares or serves its half of the model, ensure_available fetches,
\* and a search, or a second process, loads what is cached.
Request(l, m, ask) ==
    /\ loader[l].at = "rest" /\ asked < MaxRequests
    /\ ask.half = "query" => ModelSpec(m).text
    /\ asked' = asked + 1
    /\ loader' = [loader EXCEPT ![l] =
          [at |-> "files", model |-> m, half |-> ask.half, only |-> ask.only, build |-> ask.build, stopped |-> FALSE,
           todo |-> FilesOf(m, ask.half), checked |-> FALSE, viewed |-> FALSE, graph |-> "original",
           promised |-> <<m, ask.half>> \in present,
           attempts |-> IF ask.build THEN Attempts(ask.provider, ask.fallback) ELSE <<>>, done |-> {}, replicas |-> <<>>]]
    /\ held' = [held EXCEPT ![l] = NoSessions]
    /\ KeepDisk /\ UNCHANGED <<model, export, override, linked, together, present>>

\* resolve for the next file: cancellation is read before the cache, and a
\* cached-only request never gets to the download.
ResolveFile(l) ==
    /\ loader[l].at = "files" /\ loader[l].todo # <<>>
    /\ LET there == InPlace(l, Head(loader[l].todo))
           online == ~loader[l].only /\ ~Local(l) IN
         \/ there /\ ~(online /\ loader[l].stopped) /\ Set(l, [todo |-> Tail(loader[l].todo)])
         \/ ~there /\ ~online /\ End(l, IF loader[l].only THEN "missing" ELSE "failed")
         \/ online /\ loader[l].stopped /\ End(l, "cancelled")
         \/ online /\ ~loader[l].stopped /\ ~there /\ GoesTo(l, "download")
    /\ KeepDisk /\ KeepRest

\* The hub publishes a verified file as a whole; a cancellation ends the
\* transfer without publishing. A transport error gets the second transport of
\* Windows, any other error does not.
Published(l) ==
    /\ cache' = cache \cup {<<loader[l].model, Head(loader[l].todo)>>}
    /\ Set(l, [at |-> "files", todo |-> Tail(loader[l].todo)])
NotPublished(l) ==
    /\ (loader[l].stopped /\ End(l, "cancelled")) \/ End(l, "failed")
    /\ UNCHANGED cache

HubDownloads(l) ==
    /\ loader[l].at = "download"
    /\ Published(l) \/ NotPublished(l) \/ (GoesTo(l, "powershell") /\ UNCHANGED cache)
    /\ UNCHANGED <<view, patched, temps>> /\ KeepRest

PowershellDownloads(l) ==
    /\ loader[l].at = "powershell"
    /\ Published(l) \/ NotPublished(l)
    /\ UNCHANGED <<view, patched, temps>> /\ KeepRest

\* external_files: fixed names only, and none for a plain export. The manifest
\* that does not match ends the request.
ExternalFiles(s) ==
    IF ~export.external THEN <<>>
    ELSE <<"image data", "text data">> \o (IF s.prebuilt THEN <<"patched">> ELSE <<>>)
External_OnLoad(l) == IF loader[l].build THEN ExternalFiles(SourceOf(l)) ELSE <<>>
External(l) == ExternalFiles(SourceOf(l))
\* The i-th of them, unless the export lists it among its own files.
Unlisted(l, i) ==
    IF i \in DOMAIN External(l) /\ \A k \in DOMAIN SourceOf(l).files : SourceOf(l).files[k] # External(l)[i]
    THEN <<External(l)[i]>> ELSE <<>>
Accepted(l) == export.matches /\ (export.external => SourceOf(l).external)

ReadManifest(l) ==
    /\ loader[l].at = "files" /\ loader[l].todo = <<>>
    /\ LET kind == SourceOf(l).kind IN
         IF kind \in {"bge", "ocr"} THEN GoesTo(l, "found")
         ELSE IF kind = "gemma" THEN Set(l, [at |-> "view", todo |-> GemmaFiles])
         ELSE IF ~export.matches \/ (kind = "export" /\ ~Accepted(l)) THEN End(l, "failed")
         ELSE IF kind = "deepghs" THEN GoesTo(l, "found")
         ELSE IF ~loader[l].checked THEN Set(l, [todo |-> External(l), checked |-> TRUE])
         ELSE Set(l, [at |-> "view",
                      todo |-> SourceOf(l).files \o Unlisted(l, 1) \o Unlisted(l, 2) \o Unlisted(l, 3)])
    /\ KeepDisk /\ KeepRest

\* local_external_weights_directory: no view without linked weights; a link
\* another loader has made is as good as one's own.
NeedsView(l) == linked /\ ~Local(l) /\ \E i \in DOMAIN loader[l].todo : loader[l].todo[i] \in Weights

ExistingLink_Ends(l) == <<>>
ExistingLink(l) == Tail(loader[l].todo)

LinkFile(l) ==
    /\ loader[l].at \in {"view", "linking"}
    /\ IF loader[l].todo = <<>> \/ (loader[l].at = "view" /\ ~NeedsView(l))
       THEN Set(l, [at |-> "found", viewed |-> loader[l].at = "linking"]) /\ UNCHANGED view
       ELSE LET f == Head(loader[l].todo) IN
            /\ Set(l, [at |-> "linking", todo |-> IF f \in view THEN ExistingLink(l) ELSE Tail(loader[l].todo)])
            /\ view' = view \cup {f}
    /\ UNCHANGED <<cache, patched, temps>> /\ KeepRest

\* Every file is in place: fetch ends, and a query half has one graph to build.
FetchEnds(l) ==
    /\ loader[l].at = "found" /\ ~loader[l].build
    /\ End(l, "present") /\ present' = present \cup {<<loader[l].model, loader[l].half>>}
    /\ KeepDisk /\ UNCHANGED <<model, export, override, linked, together, held, asked>>

QueryFound(l) ==
    /\ loader[l].at = "found" /\ loader[l].build /\ loader[l].half = "query"
    /\ GoesTo(l, "plan") /\ KeepDisk /\ KeepRest

\* An image half takes the patched graph of its export, or appends the patch
\* output itself; a graph it cannot append to still loads, without patches.
Patching(l) ==
    LET patches == ModelSpec(loader[l].model).patches IN
    CASE patches = "none" -> "original"
      [] SourceOf(l).kind = "export" /\ export.external /\ SourceOf(l).prebuilt -> "prebuilt"
      [] ~export.layout \/ patches = "prebuilt" -> "original"
      [] SourceOf(l).kind = "export" /\ SourceOf(l).data # Nothing -> "file"
      [] OTHER -> "memory"

ImageFound(l) ==
    /\ loader[l].at = "found" /\ loader[l].build /\ loader[l].half = "image"
    /\ IF Patching(l) = "file" THEN GoesTo(l, "weights") ELSE Set(l, [at |-> "plan", graph |-> Patching(l)])
    /\ KeepDisk /\ KeepRest

\* write_patched_graph: the weights are linked unless they are there; two
\* processes that find them missing race, and the later one does without.
LinkWeights(l) ==
    \/ /\ loader[l].at = "weights"
       /\ IF patched.weights THEN GoesTo(l, "target") ELSE GoesTo(l, "link weights")
       /\ UNCHANGED patched
    \/ /\ loader[l].at = "link weights"
       /\ \/ ~patched.weights /\ patched' = [patched EXCEPT !.weights = TRUE] /\ GoesTo(l, "target")
          \/ Set(l, [at |-> "plan", graph |-> "original"]) /\ UNCHANGED patched

\* The temporary file carries the process and a counter.
TempName_Shared(l) == CHOOSE n \in Loaders : TRUE
TempName(l) == l

WriteGraph(l) ==
    \/ /\ loader[l].at = "target"
       /\ IF patched.graph # "none" THEN Set(l, [at |-> "plan", graph |-> "file"]) ELSE GoesTo(l, "write")
       /\ UNCHANGED <<patched, temps>>
    \/ /\ loader[l].at = "write" /\ GoesTo(l, "writing")
       /\ temps' = [temps EXCEPT ![TempName(l)] = "part"] /\ UNCHANGED patched
    \/ /\ loader[l].at = "writing"
       /\ \/ GoesTo(l, "rename") /\ temps' = [temps EXCEPT ![TempName(l)] = "whole"]
          \/ Set(l, [at |-> "plan", graph |-> "original"]) /\ UNCHANGED temps
       /\ UNCHANGED patched

\* On Windows a graph that is open cannot be replaced: the copy that is there
\* serves as well.
RenameGraph(l) ==
    /\ loader[l].at = "rename" /\ temps' = [temps EXCEPT ![TempName(l)] = "none"]
    /\ \/ temps[TempName(l)] # "none" /\ patched' = [patched EXCEPT !.graph = temps[TempName(l)]]
            /\ Set(l, [at |-> "plan", graph |-> "file"])
       \/ UNCHANGED patched /\ Set(l, [at |-> "plan", graph |-> IF patched.graph = "none" THEN "original" ELSE "file"])

DeriveGraph(l) ==
    /\ \/ LinkWeights(l) /\ UNCHANGED temps
       \/ WriteGraph(l) \/ RenameGraph(l)
    /\ UNCHANGED <<cache, view>> /\ KeepRest

\* What one load compiles, in order, all on one provider or not at all.
GraphsOf(l) ==
    CASE SourceOf(l).kind = "ocr" -> <<"detection", "recognition">>
      [] SourceOf(l).kind = "gemma" -> IF loader[l].half = "image" THEN <<"vision", "model">> ELSE <<"model">>
      [] OTHER -> <<loader[l].graph>>
AttemptOf(l) == Head(loader[l].attempts)

\* exclusive_session_work: DirectML sessions of a process build and run one at
\* a time; other providers do not wait.
ProviderOf(l) == IF loader[l].at = "run" THEN held[l].provider ELSE AttemptOf(l)
AtWork(l) == loader[l].at \in {"compile", "run"}
Free_OfRuns(l, p) == p = "directml" => \A o \in Loaders \ {l} : together /\ loader[o].at = "run" => ProviderOf(o) # "directml"
Free(l, p) == p = "directml" => \A o \in Loaders \ {l} : together /\ AtWork(o) => ProviderOf(o) # "directml"

StartAttempt(l) ==
    /\ loader[l].at = "plan" /\ Free(l, AttemptOf(l))
    /\ Set(l, [at |-> "compile", done |-> {}])
    /\ KeepDisk /\ KeepRest

\* fixed_batch and embedding_gemma2_graph are asked of the provider of the
\* attempt: a fallback compiles the plain graph for any batch. (Texts are
\* embedded one at a time on any provider.)
FixedFor(l, p) == IF loader[l].half = "image" /\ p = "directml" THEN ModelSpec(loader[l].model).batch ELSE 0
DmlGraph(l) == SourceOf(l).kind = "gemma" /\ AttemptOf(l) = "directml"
Session(l, g) ==
    [graph |-> g, provider |-> AttemptOf(l), dml |-> DmlGraph(l),
     batch |-> IF g = "model" THEN 0 ELSE FixedFor(l, AttemptOf(l))]

CompileGraph(l) ==
    /\ loader[l].at = "compile"
    /\ \/ /\ AttemptOf(l) \in Compiles
          /\ LET n == Cardinality(loader[l].done) + 1 IN
               Set(l, [done |-> loader[l].done \cup {Session(l, GraphsOf(l)[n])},
                       at |-> IF n = Len(GraphsOf(l)) THEN "compiled" ELSE "compile"])
       \/ IF Len(loader[l].attempts) > 1 THEN Set(l, [at |-> "plan", attempts |-> Tail(loader[l].attempts), done |-> {}])
          ELSE End(l, "failed")
    /\ KeepDisk /\ KeepRest

\* PaddleOcrPool: every replica after the first is compiled for the provider
\* the first obtained, and for no other.
ReplicaAttempts_Again(l) == Attempts(AttemptOf(l), TRUE)
ReplicaAttempts(l) == <<AttemptOf(l)>>
Wanted(l) == IF SourceOf(l).kind = "ocr" THEN Replicas ELSE 1

Compiled(l) ==
    /\ loader[l].at = "compiled"
    /\ LET replicas == Append(loader[l].replicas, loader[l].done) IN
         IF Len(replicas) < Wanted(l)
         THEN Set(l, [at |-> "plan", attempts |-> ReplicaAttempts(l), replicas |-> replicas]) /\ UNCHANGED held
         ELSE /\ held' = [held EXCEPT ![l] = [sessions |-> UNION {replicas[i] : i \in DOMAIN replicas},
                     provider |-> IF SourceOf(l).kind = "ocr" THEN (CHOOSE s \in replicas[1] : TRUE).provider ELSE AttemptOf(l),
                     batch |-> FixedFor(l, AttemptOf(l))]]
              /\ End(l, "built")
    /\ KeepDisk /\ UNCHANGED <<model, export, override, linked, together, present, asked>>

Runs(l) ==
    /\ held[l] # NoSessions
    /\ \/ loader[l].at = "rest" /\ Free(l, held[l].provider) /\ GoesTo(l, "run")
       \/ loader[l].at = "run" /\ GoesTo(l, "rest")
    /\ KeepDisk /\ KeepRest

StopLoader(l) ==
    /\ loader[l].at \in {"files", "download", "powershell"} /\ ~loader[l].only /\ ~loader[l].stopped
    /\ Set(l, [stopped |-> TRUE])
    /\ KeepDisk /\ KeepRest

\* The process ends; what is on disk stays, unfinished temporary files too.
LoadersDie(l) ==
    /\ loader[l].at \in {"writing", "rename", "linking"}
    /\ LET dead == IF together THEN Loaders ELSE {l} IN
         /\ loader' = [o \in Loaders |-> IF o \in dead THEN Resting ELSE loader[o]]
         /\ held' = [o \in Loaders |-> IF o \in dead THEN NoSessions ELSE held[o]]
    /\ KeepDisk /\ UNCHANGED <<model, export, override, linked, together, present, asked>>

FilesNext ==
    \E l \in Loaders :
       \/ \E ask \in Asks : Request(l, model, ask)
       \/ ResolveFile(l) \/ HubDownloads(l) \/ PowershellDownloads(l) \/ ReadManifest(l) \/ LinkFile(l)
       \/ FetchEnds(l) \/ QueryFound(l) \/ ImageFound(l) \/ DeriveGraph(l)
       \/ StartAttempt(l) \/ CompileGraph(l) \/ Compiled(l) \/ Runs(l) \/ StopLoader(l) \/ LoadersDie(l)

-------------------------------------------------------------------------------

\* What fetch reports in place is there for a search, which never downloads: a
\* cached load that starts after the report finds every file it needs.
FetchedIsLoadable ==
    \A l \in Loaders : loader[l].at = "rest" /\ loader[l].promised => loader[l].ended # "missing"

\* A session is built from a patched graph that was written to its end and
\* lies beside its weights, whoever wrote it, and whoever died writing.
GraphsAreWhole ==
    \A l \in Loaders : loader[l].at \in {"plan", "compile"} /\ loader[l].graph = "file" =>
        patched.weights /\ patched.graph = "whole"

\* Two loaders that link the files of one export at once both leave with every
\* file in the view.
ViewsAreComplete ==
    \A l \in Loaders : loader[l].at = "found" /\ loader[l].viewed =>
        \A i \in DOMAIN SourceOf(l).files : SourceOf(l).files[i] \in view

\* The sessions of one load are on one provider, the provider it reports, with
\* the graph and the batch that provider wants; so are the replicas of a pool.
BuiltForProvider ==
    \A l \in Loaders : held[l] # NoSessions => \A s \in held[l].sessions :
        /\ s.provider = held[l].provider
        /\ s.dml => s.provider = "directml"
        /\ s.batch # 0 => s.provider = "directml" /\ s.batch = held[l].batch

\* DirectML's recorder is not thread-safe: no two sessions of a process build
\* or run on it at once.
DirectmlAlone ==
    together => \A l, o \in Loaders : l # o /\ AtWork(l) /\ AtWork(o) =>
        ~(ProviderOf(l) = "directml" /\ ProviderOf(o) = "directml")

\* What a loader finds in the shared cache is whole: downloads, the view of
\* links and the patched graph survive crashes, failures and other loaders.
FilesAreWhole == FetchedIsLoadable /\ GraphsAreWhole /\ ViewsAreComplete

\* Sessions are built for the provider they run on, after every fallback and
\* rebuild, and those of DirectML never beside each other.
SessionsFitProvider == BuiltForProvider /\ DirectmlAlone

FilesSpec == FilesInit /\ [][FilesNext]_fileVars

-------------------------------------------------------------------------------
(* The inductive invariant.                                                 *)

RestSteps == {"rest", "run"}
SearchSteps == {"files", "download", "powershell"}
ViewSteps == {"view", "linking"}
PatchSteps == {"weights", "link weights", "target", "write", "writing", "rename"}
BuildSteps == {"plan", "compile", "compiled"}
LoadFields ==
    {"at", "model", "half", "only", "build", "stopped", "todo", "checked", "viewed", "graph", "promised",
     "attempts", "done", "replicas"}
Tried == {"cpu", "openvino"} \cup {ask.provider : ask \in Asks}
FileNames ==
    {"image", "text", "manifest", "config", "text data", "weights", "model", "model.dml", "model data", "vision",
     "vision.dml", "vision data", "detection", "detection.yml", "recognition", "recognition.yml", "image_encode",
     "preprocessor", "meta", "text_encode", "tokenizer", "image data", "patched"}
Listed(names) == {names[i] : i \in DOMAIN names}

\* A loader rests, or its request has its fields.
LoaderShape(l) ==
    LET r == loader[l] IN
    \/ r.at \in RestSteps /\ DOMAIN r = {"at", "ended", "promised"}
    \/ /\ r.at \in SearchSteps \cup ViewSteps \cup {"found"} \cup PatchSteps \cup BuildSteps /\ DOMAIN r = LoadFields
       /\ r.model \in KnownModels /\ r.half \in {"image", "query"} /\ r.build \in BOOLEAN /\ r.only \in BOOLEAN
       /\ r.todo \in Seq(FileNames) /\ r.attempts \in Seq(Tried)
       /\ Len(r.replicas) \in Nat /\ r.replicas = [i \in 1 .. Len(r.replicas) |-> r.replicas[i]]

\* A file is in the cache, or in the local export that takes its place.
Placed(m, f) ==
    IF override # {Nothing} /\ ModelSpec(m).source.kind \in {"export", "gemma"} THEN f \in override ELSE <<m, f>> \in cache
AllPlaced(m, half) ==
    /\ \A f \in Listed(FilesOf(m, half)) : Placed(m, f)
    /\ ModelSpec(m).source.kind = "export" => \A f \in Listed(ExternalFiles(ModelSpec(m).source)) : Placed(m, f)

\* A request has found what it no longer looks for.
Needed(m, half, checked) == IF checked THEN ExternalFiles(ModelSpec(m).source) ELSE FilesOf(m, half)
FilesFound(l) ==
    LET r == loader[l]
        needed == Listed(Needed(r.model, r.half, r.checked)) IN
    /\ r.at \in SearchSteps =>
          /\ Listed(r.todo) \subseteq needed
          /\ \A f \in needed : f \in Listed(r.todo) \/ Placed(r.model, f)
          /\ r.checked => /\ ModelSpec(r.model).source.kind = "export"
                          /\ \A f \in Listed(FilesOf(r.model, r.half)) : Placed(r.model, f)
    /\ r.at \in {"download", "powershell"} =>
          r.todo # <<>> /\ ~(override # {Nothing} /\ ModelSpec(r.model).source.kind \in {"export", "gemma"})
    /\ r.at \in ViewSteps \cup {"found"} => AllPlaced(r.model, r.half)

\* What was promised is present, and a promised request does not miss a file.
PromiseKept(l) ==
    LET r == loader[l] IN
    IF r.at \in RestSteps THEN r.promised => r.ended # "missing"
    ELSE r.promised => <<r.model, r.half>> \in present

\* A view has what is no longer to be linked.
ViewHas(l) ==
    LET r == loader[l] IN
    /\ r.at \in SearchSteps \cup ViewSteps => ~r.viewed
    /\ r.at \in ViewSteps => /\ ModelSpec(r.model).source.kind \in {"export", "gemma"}
                            /\ Listed(ModelSpec(r.model).source.files) \subseteq
                                  Listed(r.todo) \cup (IF r.at = "linking" THEN view ELSE {})
    /\ r.at = "found" /\ r.viewed => Listed(ModelSpec(r.model).source.files) \subseteq view

\* A graph is renamed when it is whole, beside its weights.
GraphPlaced(l) ==
    LET r == loader[l] IN
    /\ r.at \in {"target", "write", "writing", "rename"} => patched.weights
    /\ r.at = "rename" => temps[l] = "whole"
    /\ r.at \in SearchSteps \cup ViewSteps \cup {"found"} \cup PatchSteps => r.graph = "original"
    /\ r.at \in BuildSteps /\ r.graph = "file" => patched.weights /\ patched.graph = "whole"

\* A load compiles for the provider at the head of its attempts; the replicas of
\* a pool leave no other.
BuiltFor(m, half, s, p) ==
    /\ s.provider = p /\ (s.dml => p = "directml")
    /\ s.batch # 0 => half = "image" /\ p = "directml" /\ s.batch = ModelSpec(m).batch
SessionsBuilt(l) ==
    LET r == loader[l] IN
    /\ r.at \in PatchSteps \cup BuildSteps => r.build
    /\ r.at \notin RestSteps /\ r.build => r.attempts # <<>>
    /\ r.at \in {"compile", "compiled"} => \A s \in r.done : BuiltFor(r.model, r.half, s, Head(r.attempts))
    /\ r.at = "compiled" => r.done # {}
    /\ r.at \notin RestSteps /\ Len(r.replicas) # 0 =>
          /\ Len(r.attempts) = 1
          /\ \A i \in DOMAIN r.replicas :
                r.replicas[i] # {} /\ \A s \in r.replicas[i] : BuiltFor(r.model, r.half, s, Head(r.attempts))

LoaderInv(l) ==
    LoaderShape(l) /\ FilesFound(l) /\ PromiseKept(l) /\ ViewHas(l) /\ GraphPlaced(l) /\ SessionsBuilt(l)

FilesInv ==
    /\ model \in KnownModels /\ DOMAIN loader = Loaders /\ DOMAIN held = Loaders /\ DOMAIN temps = Loaders
    /\ patched \in [weights : BOOLEAN, graph : {"none", "whole"}]
    /\ \A p \in present : AllPlaced(p[1], p[2])
    /\ \A l \in Loaders : LoaderInv(l)
    /\ SessionsFitProvider
===============================================================================
