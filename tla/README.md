# A formal model of nicegal-server

nicegal-server keeps a searchable index of the pictures and videos in a user's folders. It is one
Rust process with an HTTP API, SQLite databases, one serialized worker for long jobs, pools of
decoders and of inference sessions, and a file system that other programs change at will. This
directory holds TLA+ modules of the parts where steps of several actors meet and of the decisions
those parts rest on, the TLC configurations that check them on small instances, and TLAPS proofs
that hold for every value of the constants.

Paths below are relative to the repository. `api/` is `nicegal-server/src/api/`, `core/` is `src/`.
PROJECT.json maps every definition to its lines.

## Inventory

| Component | State | Operations | What is hard |
| --- | --- | --- | --- |
| Job manager (`api/jobs/manager.rs`, `job.rs`) | registry (active, retained jobs, queue), one status and cancel flag per job | start, merge, finish, cancel, stop, cancel_all | status cells live outside the registry mutex; cancellation takes several steps; eviction next to a queue |
| Resume record (`api/jobs/resume.rs`) | one file naming a thumbnail job | save, clear, recover | cleared by two threads, must survive shutdown |
| Request ids (`api/jobs/routes.rs`) | request id -> body, job or tombstone | create, cancel by request | retries, a stop that overtakes its create, capacity |
| Views (`api/jobs/views.rs`) | window -> library, generation | set, release, schedule | late updates; a scan started before the view is committed; scans cancelled one by one |
| Progress (`api/jobs/progress.rs`, `job.rs`) | phase, detour for a model, samples | set phase, loading, advance, refresh | a detour must return; irregular updates |
| Library definitions and folder requests (`core/libraries.rs`) | include/exclude folders, options, request and completion numbers | create, update, delete, complete, fail | edits while a scan works from an older definition |
| Library scan (`api/library_scan.rs`, `core/index.rs`) | one walk: snapshot, candidates, next snapshot; probes ahead of the catalog thread | full walk, quick check, catalog, cleanup, save | the disk changes under the walk; outages; a pool beside the catalog thread |
| Purge and prune (`api/prune_jobs.rs`) | candidate batches | reconcile, prune, folder and library purge | absence must be confirmed; databases without a common transaction |
| Asset catalog (`core/assets/`, `api/catalog.rs`) | rows of assets, revision | upsert, list, details, delete | answers put together from several statements; the revision windows poll |
| Image index (`core/image_index*`, `core/index.rs`) | vectors, states, failures, frames | select, decode, infer, save | files replaced between selection and save; bounded channel; limits |
| OCR and text index (`core/index.rs`, `core/db.rs`, `api/text_embeddings/`) | texts, vectors, state rows, declared model | recognize, embed, clear, sweep | forced passes cut short, model changes, channels between threads |
| OCR engine (`core/ocr/inference.rs`) | none | scale, find regions, order, batch, decode | boundaries of sizes and orders |
| Thumbnails (`core/thumbs.rs`, `core/thumbs/storage.rs`) | flights, writer queue, rows | generate, put, store, delete, sweep | one decode per key, panics, stale writes |
| Model slots and settings (`api/model_slot.rs`, `model_idle.rs`, `runtime.rs`) | session per slot, gate, provider | prepare, fetch, evict, choose | one build, waiters, two first loads |
| Model files (`core/hub.rs`, `core/embedding/`, `core/ocr.rs`) | hub cache, view of links, patched graph | fetch, link, patch, compile, fall back | crashes and other processes in a shared cache |
| Search (`api/search.rs`, `core/highlight.rs`, `core/scope.rs`, `core/file_filter.rs`) | plan, snapshots, answers | resolve, embed, answer, fuse | stores change between the reads of one request |
| Search sessions, patch cache (`api/search_sessions.rs`, `ttl_map.rs`, `patch_cache.rs`) | generations, lanes, leases; an LRU by bytes | begin, cancel, drop, sweep; insert | requests out of order; two requests computing at once |
| Videos and pictures (`core/imaging/`, `core/video.rs`, `core/poster.rs`) | reader, interrupt | sample, poster, orient, resize | cancellation inside FFmpeg; broken containers |
| Stores and start (`core/schema.rs`, `core/storage.rs`, `core/image_index/storage.rs`, `main.rs`) | versions, layouts, marker, legacy settings | open, vacuum, migrate, copy | a process killed or overtaken in an upgrade |
| HTTP routing, tags, roots, identifiers, paths, logging, CLI | none shared | | conversions and single lookups |

Interactions: HTTP handlers call the manager under its registry mutex; the manager spawns a worker
that runs a job body on a blocking thread; bodies acquire models from the slots, open their own
database connections, and send thumbnails to the writer thread; a library edit schedules a scan
through the manager when the library is on screen; the worker's epilogue records a stopped scan's
verdict, clears the resume record and picks the next queued job. Searches and details read the
databases beside all of that. Shutdown cancels every job and ends the process; the next process
opens the stores and recovers the record before it serves.

What makes each correct: the manager runs one job at a time, loses none, and never lets a
cancelled job complete; requests are idempotent; a folder counts as settled only when a scan
covered its present definition; a scan never deletes a row of a file that is on the disk and never
leaves a snapshot that hides one; what is derived from a file is filed under the revision it was
made of, and a complete pass has covered everything; a model is built once, on one provider;
caches stay within their bounds and are current; every bounded pipeline ends; an answer is about
one state of its store; an upgrade loses nothing. PROJECT.json lists the hazards line by line, and
the properties aimed at each.

## Modules

| Module | Models | Checked by | Proofs |
| --- | --- | --- | --- |
| `JobManager` | job manager and resume record | `MCJobManager` | `JobManagerProofs` |
| `SerialExecutor` | abstract: jobs accepted in order, one at a time | refined by `JobManager` | refinement in `JobManagerProofs` |
| `TtlMap` | client-keyed maps that are swept lazily | with its users | |
| `JobRequests`, `LibraryViews` | job routes with request ids; viewed libraries | `MCClientJobs` | |
| `ClientJobs` | both, composed with the job manager | `MCClientJobs` | `ClientJobsProofs` |
| `FolderRequests` | definitions, request numbers, a scan's verdicts | `MCIndexing` (with `MCFolderRequests`) | `FolderRequestsProofs` |
| `DirectoryScan` | the walk of one folder | `MCDirectoryScan` | `DirectoryScanProofs`, `ScanResultsProofs` |
| `CatalogPipeline` | the catalog thread, the probes of videos, the inspector | `MCIndexing` | `PipelinesProofs` |
| `ImagePipeline` | image index passes | `MCIndexing` | `PipelinesProofs` |
| `OcrPipeline` | recognition passes | `MCIndexing` | `PipelinesProofs` |
| `TextIndex` | texts and their vectors | `MCIndexing` | `StoresProofs` |
| `ThumbnailFlights` | the thumbnail service | `MCIndexing` | `ServicesProofs` |
| `IndexStores` | removal from four databases | `MCIndexing` | `StoresProofs` |
| `ModelSlots` | sessions and provider of the process | `MCServices` | `ServicesProofs` |
| `ModelFiles` | the files behind the sessions | `MCServices` | `StoresProofs` |
| `SearchSessions` | superseded searches | `MCServices` | `ServicesProofs` |
| `PatchCache`, `JobProgress` | patch features; phase and rate | `MCServices` | `ServicesProofs` |
| `SearchRun`, `PathFilters` | one search request; names, paths and words | `MCSearch` | |
| `OcrLayout`, `ImageBatches`, `Pictures` | decisions around the networks and decoders | `MCSearch` | |
| `VideoReader` | frames that stand for a video | `MCSearch` | |
| `GalleryView` | what the desktop shows of the catalog | `MCSearch` | `StoresProofs` |
| `StoreUpgrade` | opening and upgrading the stores | `MCSearch` | `StoresProofs` |

The machines meet at narrow points and are kept apart where that is what the code does. To
`JobManager` a scan is a job body that returns ok, cancelled or failed. To `FolderRequests` a walk
succeeds or fails and a stop may come at any step, which is what the manager's cancel, stop and
shutdown can do to it. `DirectoryScan` shows what a successful walk means, and aborts at any step.
Every pipeline takes a cancellation at any step for the same reason, and a crash between two
transactions where it keeps something. `ClientJobs` composes the routes and the views with the real
manager: `ManagerRespected` states that the composition implements `JobManager`, so that everything
shown of the manager holds behind the routes.

The MC modules that hold several components (`MCServices`, `MCIndexing`, `MCSearch`) add one variable
`part`, fixed at the start, that says which component moves. The components share no variables, so
a behaviour with one part moving is a behaviour of that component, and one run covers them side by
side. `MCClientJobs` and `MCJobManager` split one check into halves the same way (`half`, `quiet`).

Properties are conjunctions of named parts: `TextsSearchable`, say, is `OneModelSearched`,
`VectorOfRevision`, `NothingForgotten` and `PassCovers`, each stated and commented in its module, each
with a mutant in PROJECT.json that breaks it.

## From code to model

### JobManager

| Variable | Code |
| --- | --- |
| `active`, `jobs`, `queued`, `nextId` | `JobRegistry` and `next_id` |
| `spec`, `status`, `cancelRequested` | one `Job`: its spec (in the queue or with the worker), status cell and atomic flag |
| `worker[id]` | program counter of the task `spawn_job` starts |
| `caller[c]` | an HTTP thread between the steps of `cancel` or `stop` |
| `shutdown`, `shutdownTodo` | `cancel_all`: the flag, then the jobs it listed |
| `record` | the pending-job file: whose request it holds |
| `booted`, `restarts` | recovery precedes serving; a new process starts with empty memory and the old file |

`start` and `finish` are one action each: the registry mutex is held throughout, including
eviction, saving the record and spawning. `cancel` takes seven steps (`CancelLookup` to
`CancelDequeue`), because it reads the status, sets the flag, publishes the new status, clears the
record and edits the queue under different locks or none. `stop` is the section under the mutex
followed by clearing the record outside of it. Cancelling the jobs in `stop` is part of that
section; each job's own mutex orders it with the worker's steps, so one atomic step shows the same
status changes. The legacy thumbnail and text routes call `start` without the `requests` mutex of
the job routes, so another admission really can fall between the steps of a `stop` or `cancel`.

A spec is reduced to what the manager reads: kind, library, and for scans the options that merge
ORs (`full`), ANDs (`pendingOnly`) and overwrites (`limited`). An unreadable record file and a
failing write are not modelled.

### FolderRequests

One library. `rows[p]` is a row of `library_folders` (requested, completed, outcome), `sequence` the
column `scan_sequence`, `scan` the running scan with the definition it read at its start, `marks` the
threads inside `record_stopped_scan` (the worker of a stopped scan and one cancelling client),
`covered[p]` a history variable: the exclusions and indexes of the last complete scan of `p`.
`Save` is create and update with the request numbers they assign; a scan is a sequence of actions
(read, one walk per outer folder, index stage, one completion per folder) that edits interleave
with; a stop, a failing stage or the end of the process can follow every step.

### DirectoryScan

One included folder of one library. `dirs`, `files`, `mtime`, `online`, `unreadable` are the disk;
`exclude` the library's exclusions; `snapshot` and `catalog` the two tables; `scan` the local state of
`run`, `snapshot_directories`, `collect_files`, `catalog_files`, `quick_catalog` and `reconcile`;
`steady` and `sighted` history variables (files that were there throughout the scan, and at some time
during it). A step of the walk reads one directory or looks up one file. Between any two of them
files are created and deleted, directories are moved in and out with their contents, the drive goes
away and comes back, permissions come and go, clients edit exclusions, and the scan is aborted.
`WorldStep` is that environment; it is not code of the repository.

Abstractions. Every change of a directory's entries gives it an mtime not seen before: clocks that
go back, coarse time stamps, and a directory that is moved away and returns with its old mtime are
outside the model. A directory's mtime and entries are captured in one step (the code reads the
mtime between opening the directory and reading its entries). `catalog_files` commits file by file
instead of in chunks. Links, debug-limited walks, files that fail to decode, and the databases
derived from the catalog are left out.

### JobRequests, LibraryViews, ClientJobs

`requests` and `views` are the two `TtlMap`s; `TtlMap` has their sweep, their capacity and their
insertion. `creating` is the one create that holds the async mutex `requests` between its look at the
map and its admission, with the await of the library check in between; a stop holds the same mutex
until it has cleared the record (`MutexFree`). `viewer` is the update that holds `view_changes` and
takes the registry four times (`SetView`, `ViewSchedule`, `ViewCommit`, `ViewList`), after which it
cancels the listed scans one at a time with the manager's own `cancel`. `started`, `answered`,
`stoppedKeys`, `wanted`, `served` are history variables. `ClientNext` is every step of the manager,
of the routes and of the views; the end of the process takes both maps with it.

### JobProgress

`data` is the `JobData` of one job as far as phases and the rate go, `rate` what `refresh` averaged over,
`now` the clock in ticks. `stage` remembers the phase the job itself entered last. The window is four
ticks and a sample every two, so that a sample lies on, before and after the cutoff.

### SearchSessions, PatchCache

`sessions` is a `TtlMap` from client to generation, closed generation, lanes and the next request
number; `lease`, `task`, `cancelled`, `watched`, `interrupted` are what one search holds: its lease, the
place of its blocking task, its flag, whether its connection has the progress handler, and whether
the running statement was interrupted. Registering a handle takes two looks at the flag around the
lock, as in the code. `PatchCache` has the LRU (`entries`, `bytes`, `recency`) and requests that take the
fingerprint first, decode later and insert last, while files change and scans catch up.

### ModelSlots, ModelFiles

`slots[s]` is state, session and idleness of a slot, `gate[s]` its preparation mutex, `user[u]` a job or a
search inside `prepare`; `runtime` is `RuntimeSettings` with the provider the loaded models share, `saved`
the file `runtime.json`. Both first loads of two slots may be between `configured_options` and
`accept_loaded_provider` at once. `ModelFiles` goes below a slot: `cache` the files in the pinned
snapshots, `view` the directory of hard links, `patched` the patched graph and its weights, `temps` the
unfinished files; `loader[l]` is a thread, or a thread of another process (`together` says which),
inside `load`, `load_cached` or `fetch`. A crash leaves what is on disk.

### ThumbnailFlights

`flights` is the registry from key to flight, `results` the outcome of a flight, `caller[c]` one call of
`generate` from claim to answer, `queue` the writer's bounded channel, `thumbs` and `oldRows` the
database. Requests claim all their variants first, ask the writer what is current, decode the rest,
send a batch, complete their own flights and only then wait for those of others. Files change, a
decode fails or panics, the writer errs, and puts, sample stores and deletions queue between.

### CatalogPipeline, ImagePipeline, OcrPipeline

One pass each, thread by thread. `cataloger` and `prober` are `catalog_files` and the coordinator of its
probes with the two channels between them; `mediaRow` the rows. `imagePass`, `imageWorker`, `imageOutcomes`,
`imagePending` are the coordinator, the decode workers, the bounded channel and the batch that
gathers; `vectors`, `frames` and `failedRow` what is saved. `ocrPass`, `ocrWorker`, `decodedQueue`,
`outcomeQueue`, `ocrPending` likewise with a stage of replicas more. A version of a file stands for its
fingerprint and for the contents a decode sees, so a row filed under one version and made from
another is visible (`seen`). Panics, failing inference, failing databases, cancellation and the end of
the process can follow every step.

What fails at a file is told apart as the code tells it. `decode_sources` records every error of reading or
decoding but `NotFound`, also a lost permission and the time limit of a video, so a good file can be left out until it
changes or failures are retried: `Hindered` are the revisions to which that may happen, `Failing` those and the
`Corrupt` ones. The OCR stage may fail to read any file. In the catalog a file is "there", "gone",
"denied" (its metadata cannot be read) or "undated" (modified before 1970, so that
`SourceFingerprint::from_metadata` errs): the catalog thread counts an undated photo as one failed item, while an undated
video ends the pass before anything is cataloged.

### TextIndex, IndexStores

`TextIndex`: `ocrRows`, `embedState`, `textVectors`, `declared` are the tables of the OCR database, `build` the
running version of the server with its text model and recognizer, `pass` the job. Each action is one
transaction; the server may crash between any two and come back as another build. `IndexStores`: the
catalog and three derived databases, `work` the folder purge, library purge, prune or maintenance the
worker is in, `ensuring` a request that stores thumbnails beside it. Deletion goes text, image,
thumbnails, catalog, each in a transaction of its own.

### SearchRun, PathFilters

`SearchRun` is one request from `plan` to `fuse`: validation, the stores it opens and when, reference
vectors and texts, the answers of every query, totals and the fused order. `cataloged`, `imaged`, `read`,
`worded` are what the stores hold, and two transactions of other jobs change them between any two
reads. A view of the image index with its catalog, and of the OCR store, begins at the first read
from it. `PathFilters` states what each filter is for beside what the code does: `GlobMatch`,
`RequiredLiteral`, `Before` (natural order), `InRange` and `Focused` (scopes as ranges of bytes),
`ContainsFolder`, `WithinOneEdit`, `FromMarked` and `Merge` (highlights).

### OcrLayout, ImageBatches, Pictures, VideoReader

`OcrLayout`: size of the detector's input, regions of its map, reading order, batches and widths of crops,
CTC decoding. `ImageBatches`: padded batches, patch grids, the region of a picture the model saw,
truncated texts, the graph branch that is appended, and the protobuf bytes it is appended as.
`Pictures`: EXIF orientation and display matrices, reduced decoding, sizes of thumbnails.
These have no steps: an initial state is a question, and the invariant compares the code's answer
with a definition of what it is for, for every question within the bounds. `VideoReader` has steps: a
demuxer with a place in a sequence of packets, a decoder that holds frames back, an interrupt that
cancellation or a deadline raises at any step, and two goals, the poster alone and all samples.

### GalleryView, StoreUpgrade

`GalleryView`: files (`source`), rows with their identifiers (`assetRow`, `lastAsset`), the `catalogRevision`, the batch
`catalog_files` has prepared, the derived rows by identifier, the folders of the library; a `window` that
polls and lists, and a request (`asking`) that is answered in several statements. `StoreUpgrade`: version
and file layout of the catalog and of the image index, the layout and rows of the vector table, the
keys of its samples, the marker of a finished copy, the libraries that index videos and the legacy
setting; `opener[o]` is a process between two steps of its start. A process is killed at any of them,
and another one opens the same stores.

## Runs

Every run below is exhaustive for its constants. What a violation run shows is quoted with its
source in PROJECT.json under `findings`.

| Run | Shows | Bounds, and why they are enough |
| --- | --- | --- |
| `JobsQueue` | registry, queue, worker and cancellation agree in every interleaving; the manager implements `SerialExecutor` | 3 jobs over 2 libraries: one active, one queued per library; 2 retained, so a third admission evicts; one cancelling thread; the theorems remove the bounds |
| `JobsLiveness` | every admitted job ends (`EveryJobEnds`); the resume record names the job to resume (`RecordKept`) | 2 jobs suffice for one worker's epilogue to meet the next admission and for a merge; 1 caller, retention 1 so that eviction happens. Quiet half: no client cancels, 2 restarts, so that a recovered job is recovered again. Other half: cancels and stops, 1 restart |
| `Requests` | request ids are honoured, views start and stop scans, and both use the manager only through its operations | request half: two keys, capacity 1, so that tombstones do not fit; view half: two windows over one library, two generations and the release. In the view half a worker with its result runs its epilogue uninterrupted; `JobsQueue` interleaves it |
| `ScanRaces` | the snapshot hides nothing, a complete scan has cataloged what was there, a complete full walk leaves no ghost row | a chain of three directories and two files: a change can hit a directory before, at and after the walk's position; 2 changes of the disk, 1 fault between scans, exclusions edited at any time |
| `ScanDeletes` | no row of a file that stayed on the disk is deleted | one directory in the root, a file in each, one change, 5 faults at any moment: up to two full outages and a loss of permission within one scan. Six faults break it: three outages, each timed between two system calls of one check |
| `Services` | superseded searches stop; one provider and one session per slot; patch features current and within budget; phase and rate as they are; whole files and graphs | two clients and lanes with 3 numbered searches, one retained session; one job and one searcher over two slots, 2 process starts; pictures of weight 1, 2 and 4 with a budget of 2; 2 loaders, 2 requests, over six models that cover every kind of export |
| `Indexing` | what is stored is of the revision it is filed under, complete passes cover everything, removal is safe, settled folders were scanned | two callers over three assets, a queue of 1 and chunks of 2; two image workers and batches of 2; one decoder, one replica, channels of 1, chunks of 2; two text assets and two libraries with batches of 1, 3 jobs, 2 builds; purge batches of 1; three nested folders, 3 requests; three files, of which two videos, with a pool of 1 and a backlog of 1. Channels and batches are as small as they can be and still fill, so that every send can block |
| `IndexingEnds` | thumbnail calls return and image, OCR and catalog passes end | the same, with one pass each |
| `Search` | answers of a request agree with one state of each store; filters, layouts, batches, exports, orientations mean what they are for; samples of a film; windows and details; opening of old stores | twelve requests, one for each way to combine queries or be refused, with 2 transactions of other jobs at any step; texts of 4 to 5 letters over 2; a film with a key frame in every segment and each way to break it; 3 changes beside a window or a request; stores of every version on both sides of each boundary, 2 processes, 3 launches |
| `ScanPurge`, `CatalogZero`, `TextReocr` | a behaviour of the code that contradicts a statement of the repository | the constants of the passing runs, or fewer |

Symmetry is used over windows (`Requests`) and over loaders (`Services`), which nothing distinguishes,
and in no run with liveness.

`CHECK_DEADLOCK FALSE` is set where the system may stop: a process that is shut down for the last
time the bounds allow, jobs or passes used up, a question without steps, or a disk that no longer
changes with no scan started.

**Fairness.** `JobsLiveness` assumes weak fairness of each worker task, of each thread inside `cancel` or
`stop`, of the shutdown task and of recovery. The tokio runtime polls every spawned task, mutexes are
held for bounded sections, and job bodies return or observe their cancellation. `IndexingEnds` assumes
weak fairness of the thumbnail writer, of the threads of each pass, and strong fairness of each
thumbnail caller: a caller that sends into the bounded queue is enabled again and again but not
always; the bounded channel of the code (`std::sync::mpsc::sync_channel`) wakes its waiting senders in
turn, and each call sends a bounded number of commands. Clients, users,
changes of files and crashes are never fair, the process is not obliged to end, and a queued scan
starts only through the fair epilogue of the active one. The other modules state no liveness:
nothing obliges anyone to start another scan, search or upgrade.

## Assumptions

Abstractions that a reader should know of, beyond those of the sections above.

- Versions. A fingerprint distinguishes all versions of a file, and a file that comes back after it
  was gone does so with a new one. In `GalleryView` a later edition has the later modification time.
- Time. The clock of a directory's mtime only grows (`DirectoryScan`). Retention is the flag `aged` of an
  entry: it passes over a session only when none of the client's searches is left (`SessionAges`), since
  a search ends long before. Request numbers and generations start again when a swept session is
  recreated.
- Clients. `PUT` of a thumbnail trusts the client for the picture. The acknowledgement of `ensure` may be
  undone by a later `DELETE`. A slower store under an older fingerprint overwrites a newer row, which
  then is not current and is made again.
- Index passes. When the job is cancelled during the final flush the image stage returns `Ok(false)`;
  `CompletePassCovers` speaks of passes that were not stopped. The folders of a limited scan are settled
  although its index stage was truncated: `Limits = {FALSE}` in the runs and in the proof, with `{FALSE, TRUE}`
  `SettledIsCovered` fails. Debug limits are a developer option.
- Searches. File queries read the live catalog without a snapshot. The model's metadata is read
  before the OCR snapshot begins. The views of the image index and of the catalog attached to it are
  taken one after the other at the first read. The order of hits at equal score, and the order in
  which FTS5 ranks, are external. Directories of a scope are canonical and without a trailing
  separator.
- Details. Whether an image counts as indexed is judged against the catalog as it is when the answer
  is put together; answers take several statements without a snapshot. Deletions fall between two
  prepared batches, because jobs are serial.
- Models. Snapshots are pinned; a local export is a directory of regular files that does not change;
  the hub publishes a file atomically. Text halves embed one text at a time.
- Numbers. `OcrLayout`, `ImageBatches` and `Pictures` compute with exact fractions where the code has `f32` or
  `f64`. Left out: the angle and the pixels of a region, vectors of features, `Stretch` geometry,
  `feature_map_fragment`. The networks' outputs are inputs.
- Videos. FFmpeg is external: a seek lands at or before its target, later targets never land
  earlier, and a panic is a failure. Dimensions and HDR are left out, and so is `first_frame_poster`,
  which nothing calls.
- Upgrades. The catalog and the image index stand for the four stores, whose other two go through
  the same migrations and nothing else. Neither jobs nor users act while another process opens the
  stores.

## What is proved

All proofs are checked by TLAPS for every value of the constants, under the named assumptions of
each module (`ManagerAssumption`, `RequestAssumption`, `ViewAssumption`, `FolderAssumption`,
`BoundAssumption`, `SessionsAssumption`, `SlotsAssumption`, `TextAssumption`, `OcrAssumption`, `ImageAssumption`,
`ThumbAssumption`, `FilesAssumption`: types and finiteness of the constants, at least one thread in a pool,
one asset in a request and one replica, models that are among those of the code, and that the markers for
nothing and nobody are none of the things themselves;
`UpgradeAssumption`: versions are positive numbers, the video samples came after the third version of
the image index, and an old index holds finitely many vectors, each once and with a key of its own;
`ProgressAssumption`: samples are taken within the window, and no stage is named like the phases around
them; `CatalogAssumption`: the videos are files of the listing; `NestingAssumption`: folders nest; `TreeAssumption`: `Above` lists the ancestors of a directory in the tree that `Parent` spans, and
path order puts a parent before its children).

`JobManagerProofs`:

- `RegistryInvariant`, from which `TypeCorrect`, `QueuedJobsAreRetained`, `QueueIsNeverStranded` and
  `WorkIsAlwaysVisible` follow. `RegistryInv` ties the registry to the worker tasks: the active job is
  the only one whose task may work, queued jobs are retained and have no task, ids above `nextId` are
  unused. None of the four is inductive alone: that a queue is never stranded needs that the active
  job's task has not finished, which needs that only `finish` clears `active`.
- `TerminalStatusIsFinal` and `CancelledJobNeverCompletes` are action properties from the same
  invariant: a publishing `cancel` holds a status it read earlier, and the invariant says which it can
  still overwrite.
- `ManagerIsSerial`: `JobManager` implements `SerialExecutor`. The mapping reads a job's phase from its
  worker and the queue; a cancelled queued job leaves the abstract queue when it leaves the queue or
  `finish` skips it.
- `AdmissionInvariant` adds what admission, shutdown and the record need beyond the registry: what
  eviction dropped is over (`EvictedOver`), only a process that has booted shuts down (`ShutdownBooted`),
  while `cancel_all` works every admitted job is over, cancelled or still on its list
  (`ShutdownCovers`), the queue holds scans, one per library (`QueuedOncePerLibrary`), and the record is
  that of the active thumbnail job or gone (`RecordOwned`). From it follow `OneScanIsQueued`,
  `ShutdownReachesAll` and `WorkersClearTheirOwn`. `ShutdownCovers` is not inductive without
  `EvictedOver`: a job that was evicted is on no list. `RecordOwned` holds although clients clear records
  at any time, because they only ever remove one; that they may remove the wrong one is the first
  deviation below.

`FolderRequestsProofs`:

- `FolderTypeCorrect`, `FolderInvariant`: requests are distinct, bounded by the sequence, never
  completed beyond themselves, and a scan holds either the present request, with a definition that
  still covers the folder, or an older one of a folder that is pending.
- `SettledFoldersAreCovered`: a folder that is not pending was completely scanned with a definition
  that shows and indexes at least what the present one does. It is proved for scans without a debug
  limit (`Limits = {FALSE}`).
- `EveryRequestHasVerdict`: a scan that ends has a verdict for each request it selected. A request
  without one is in a walk ahead or behind, or in what a completion or a stop still has to write
  (`VerdictInv`). The initial selection needs that every included folder lies in a walk of an outermost
  one, found as one with the least number of folders around it (`NestingAssumption`).

`DirectoryScanProofs`:

- `ScanTypeCorrect`, and `WalkInvariant` for `ScanInv`, with no assumption on faults: a snapshot and what a
  scan has recorded so far are trees from the root outside the exclusions. Since a quick check forgets
  whole subtrees while it walks the known directories in path order, this needs that whatever is
  still to be visited, and the parents of the new directories found, are still recorded (`TodoInv`,
  `FreshInv`).
- `SnapshotIsSound` for `SnapshotSound`: a directory whose mtime is the recorded one, which the next
  quick check skips, has its files in the catalog and its subdirectories in the snapshot. The
  inductive `SoundInv` says why. Recorded times are never later than the clock, so a directory that
  changes is no longer trusted (`DiskInv`). A trusted directory has its files in the catalog or before
  the walk (`FilesInv`), its children recorded or still to be walked (`ChildrenInv`); a changed one
  is recorded with a time read before its listing (`ChangedInv`); and a file about to be deleted is
  gone, or came back and changed its directory (`GoneInv`). It assumes `FaultsDuringScan = FALSE` and
  `Purges = FALSE`; `ScanPurge` and the deviation of incomplete walks below show what happens otherwise.

`ClientJobsProofs`:

- `ManagerIsRespected`: every step of the routes and of the views is a step of `JobManager` or leaves it
  alone, so that every theorem above holds behind them.
- `KeysAreHonoured`: one job per request key, however often creates and stops are sent. `KeysInv` says
  what each entry of the map remembers, and what may have happened to a key that is not in it
  (`KeyEntry`, `KeyUnknown`), also while a create stands between its look at the map and its admission
  (`CreatingInv`). It uses `RegistryInv` of the manager for the job an entry names.
- `ViewsAlwaysHonoured`: a library on screen keeps the scan its views asked for, one that nobody shows keeps
  no scan but those a client asked for or somebody cancelled, and views only move to newer generations.
  What an update decides in its first look at the registry has to fit the views when it commits
  (`UpdateFits`), which needs that nobody else changes what a window shows meanwhile; the library it stops is on
  no screen from the commit on (`StopUnviewed`), so that what it cancels is nobody's. `ScansAccounted`
  names, for every scan that is left, who is bound to keep it or to stop it: a client, a view, the
  update that has it still to list or to cancel, or the cancellation between finding the job and
  setting its flag. A scan a view merges into may be one a client asked for, and the other way round; a
  merge keeps the library of a scan (`ServingKeepsSpecs`), so each stays accounted for where it was.

`ScanResultsProofs`, on top of `DirectoryScanProofs`:

- `FullWalkCleans`, with no assumption on faults or purges: after a complete full walk no row is left
  of a file that was missing throughout, unless the exclusions hide it. Until they are deleted or turn up, such rows
  are among what has not been seen, the candidates or the doomed (`CleanInv`).
- `CompleteScanCatalogs`, for `FaultsDuringScan = FALSE` and `Purges = FALSE`: a file that was in an included
  directory throughout is in the catalog or still ahead of the scan (`SteadyInv`, `Ahead`), as long as
  nothing was left out. For a quick check this needs `SoundInv` at its start and that it works from
  the snapshot of the present exclusions (`QuickInv`); the file may lie in a known directory still to be
  compared, or below a new one still to be walked.
- `ScanDeletesMissing`, with no assumption on faults or purges: `DeletesOnlyMissing`, as long as the drive
  does not go away during one of the two looks at the candidates (`StaysDuring`; either look will do).
  Outages before, between and in the other look, lost permissions at any moment, moves and purges do
  not matter, and so an outage deletes nothing however many candidates it leaves. A file that stays on
  the disk is found, or stops the scan, in the look during which the drive stays; the second look
  is only at what the first one doomed (`LookInv`). The premise cannot be dropped: with one more outage
  than `ScanDeletes` has, two system calls of the check of a file can each time fall around the return
  of the drive (see the bounds of `ScanDeletes`).
- On the way, `NeverCovered`: the test that skips a new subtree inside one that was walked just before
  (`api/library_scan.rs:754`) never holds in the model, which has no links: a new subtree hangs below a
  known directory, and so do all directories above it.

`StoresProofs`:

- `StoresInvariant` and `RemovalIsAlwaysSafe`: derived rows never outlive their catalog row, orphaned
  thumbnails last until the next maintenance, a removed library leaves nothing of its own, and a
  purge keeps what another library covered. `BatchInv` follows a batch through the databases, `KeptInv`
  keeps what was found covered out of every batch, and `RemovalInv` says that what is still in the
  catalog is ahead of the removal or covered.
- `TextInvariant` and `TextsAlwaysSearchable`: a search compares vectors of one model and of the revision on
  record, a text without one is still owed it, and a pass that ends owes none. None of this is
  inductive while it speaks of *matching* state rows only: a deletion or a new recognition leaves rows
  that match nothing, and that one of them matches again must not revive an older vector. So
  `StateHasVector` says of every state row that it stands for a vector of its revision and of the
  declared model. `PassInv` keeps the texts of a batch those on record until it is saved, which rests
  on jobs being serial.
- `UpgradeInvariant` and `UpgradeIsAlwaysSafe`: any number of processes open stores of older versions,
  overtake one another and are killed anywhere; no vector is lost, doubled or detached from its asset,
  a store that a reader accepts is whole, no version is recorded before its vacuum, a process that has
  the stores to itself opens them, and the old video choice holds. The inductive part is what a process
  still knows of what it read: `SchemaPlaced`, `IndexPlaced` and `ChoicePlaced` say, for each place in
  the code, that its reading is still true or was brought about by another one meanwhile. `Monotone`
  names what no step takes from the others, so each action is shown to keep only its own process
  placed. A table that two processes move is moved the second time to what it is (`IsMoved`), which rests
  on the assumption above that no job saves a vector while another process opens the stores.
- `FilesInvariant`, `FilesAlwaysWhole` and `SessionsAlwaysFit`: any number of loaders, threads or processes,
  share a model cache, cancel, fail and die in it; what fetch reported is found by every later load, a view
  that is used has all files of its export, a patched graph that is used is whole and beside its
  weights, and sessions are on the provider they report, DirectML's never two at work in one process.
  `FilesFound` says of a request that each file it needs is still on its list or in place, and after
  the manifest was read also the files beside the export; `PromiseKept` carries a report of fetch to the
  loads that begin after it; `GraphPlaced` gives the graph that is renamed its weights; `SessionsBuilt` says
  that what is compiled is for the provider at the head of the attempts, and that a pool with a replica has no
  other attempt left, without which a fallback in the middle of a pool would mix providers. `LoaderStays`
  shows once that no step of another loader takes a file, a link or a graph away.
- `GalleryInvariant` and `GalleryAlwaysCurrent`: for any number of files, batches, deletions and derived
  rows between two statements of an answer, a window whose polls stay quiet shows the catalog as it is, the
  details of an asset are of the edition they describe, and a thumbnail is of an edition the file had
  while it was asked for. `RowsNumbered` says that identifiers are given out once and are of one path:
  without it a thumbnail request, which looks its row up twice by identifier, could be answered with
  another file. Within a batch this rests on `NewIdentifiers`, which counts the new paths before a
  row, and on `BatchFits`: a batch has a path once, and the row of an unchanged file is there to be updated.
  `WindowBehind` orders the revision a window polled before the rows it lists; `DescribedSoFar` and
  `ThumbnailSoFar` follow an answer statement by statement.

`PipelinesProofs`:

- `OcrInvariant` and `TextsAlwaysRecognized`: a text is filed under the revision it was read at or an
  earlier one, the count a pass reports is of texts that are in the database, a complete pass accounts
  for every image of its selection, and a worker's panic is reported. The invariant follows an image
  through selection, decoder, both channels, recognizer, chunk and commit: it is in one such place at
  most (`OnceInv`), and until a cancellation, an abort or a fatal outcome on its way, in one at least
  (`NoneLostInv`). That the coordinator may join its threads needs more than this: a decoder ended
  because nothing was left to claim, a recognizer because every decoder had ended and the channel was
  empty. `ReadInv` carries the fingerprint of the selection and the bytes read after it along.
- `ImageInvariant` and `ImagesAlwaysIndexed`: vectors and frames are of the revision they are filed under,
  a failure row of a current file is of a revision whose own read, decode or time limit failed, and a complete pass without a limit leaves every
  candidate indexed, recorded as failed or excused by a file that changed under it. While nothing is
  wrong a candidate is covered or under way (`NothingLost`). A failure that a worker reports is the file's
  only as long as nobody cancelled: an interrupted decode fails too, and `FailureReal` says that the pass
  then stops before it records anything. A crash keeps what was committed, and `StoredInv` is all that
  remains of the pass.
- `CatalogInvariant` and `RowsAlwaysProbed`: of `CatalogIsTrue` the two parts about contents. A row under the
  fingerprint of a readable file holds what a probe of that file reads, for any listing, pool, backlog,
  chunk and any changes of the files, and the inspector shows metadata only of the edition of its row.
  `ResultTrue` follows a result from the pool through both channels to the catalog thread: it is of
  the candidate's edition, or the pass is being given up, and then no row is made of it because the
  cancellation is looked at after the wait. `RowTrue` needs no more of a row than that its fingerprint
  is not from the future: a changed file never gets its old edition back, so a row that was true when it
  was prepared is true or outdated when it is stored.

`ServicesProofs`, searches:

- `SessionsInvariant` and `SearchesAlwaysObey`: one live search per lane, none of a generation that was
  overtaken or refused, and no statement of a cancelled search that nobody interrupts. A session
  outlives and numbers its leases (`LeasesNumbered`, `RequestsDistinct`), so a late drop removes only its
  own lane; a search that was not cancelled holds its lane (`LiveHoldsLane`); `FloorInv` orders the
  generations a session lets in; `StatementsWatched` puts the progress handler before the statement.

`ServicesProofs`, model slots:

- `SlotsInvariant`, `ProvidersAlwaysAgree` and `SlotsAlwaysHold`: nobody works in a process that is down
  (`DownInv`), whoever builds a slot holds its gate (`GateInv`), a result that is published is on the
  provider of the process (`ResultInv`), and until that is decided, a provider that worked before is
  all that a load begun earlier may end up with (`OptionsInv`). The last is why options read before the
  decision cannot bring a fallback after it.

`ServicesProofs`, progress and patches:

- `ProgressInvariant` and `ProgressAlwaysTrue`: after a model was built a job is back in the stage it entered
  last, a phase holds no more samples than its window has room for, and the rate is over the window or the
  phase. `SamplesFit` has samples an interval apart, behind the work and within the phase, and the first
  at its beginning or at least a window ago; the bound on their number follows from the distance of the
  first two from the last.
- `PatchInvariant` and `InspectionsAlwaysCurrent`: of `PatchesCurrent` the part about contents. Whatever an
  entry or a request holds was decoded no earlier than the row it is filed under and no later than the
  file (`SeenBetween`), because a row is never newer than its file; an answer for a row that is of the file
  as it is therefore shows that file.

`ServicesProofs`, thumbnails:

- `ThumbInvariant` and `ThumbnailsAlwaysHold`: a variant has one owner and, unless it is forced, one decode,
  a row is never older than its fingerprint, what a call acknowledges was committed, and a sweep removes
  the old rows of an asset only where new ones are. `RegistryInv` says that a flight has one key and one
  owner, through panics and unwinding; `CallDated` that a fingerprint was on disk when it was asked
  for and what was decoded came after it; `QueueInv` that a caller has one command with the writer, which
  commits what that caller decoded. One decode for two callers needs `SharedOnce`: what an unforced call
  was told is missing, no other call has stored since, because it holds the flight. The sweep needs
  `CallCovers`: a call that sweeps has every asset and size among its answers, its flights or what it has
  yet to claim.

**Model-checked only.** Everything else the runs check: of the catalog that a complete pass returns every
file and that no file with a fingerprint fails a pass (`CompletePassCatalogs`, `FilesNeverFailPass`), of the
patch cache its budget and order (`BudgetExact`, `NewestKept`), search requests (`AnswersAgree`), the sampling of videos (`SamplesAreTrue`).
`DeletesOnlyMissing` with outages in both looks, and
`SettledIsCovered` with debug limits, hold or fail only as described. Liveness under fairness
(`EveryJobEnds`, the ends of the passes), and ENABLED, are out of the prover's reach; so is induction
over recursively computed data, on which the filters, layouts and batches rest (`PathFilters`,
`OcrLayout`, `ImageBatches`, `Pictures`), the catalog where it selects and sorts its listing, and the patch
cache where it adds up what its entries weigh.

## Known deviations

What the models show, or showed before an abstraction was chosen to leave it out, beside the three
violation runs. Line numbers are those of the repository.

- A `cancel` that reads a thumbnail job as active, and is overtaken by the end of that job and the
  admission of another one, removes the record of the new job (`api/jobs/manager.rs`, `cancel`). The quiet
  half of `JobsLiveness` has no cancels for this reason. `INTERNAL_API.md:1060` and
  `api/jobs/tests.rs:587` describe the record as that of the job in progress.
- A scan request may merge into a queued scan that was cancelled a moment before; it is answered
  with a job that never runs (`api/jobs/manager.rs:101`, compare `api/jobs/tests.rs:568`).
- An incomplete full walk saves a snapshot that holds directories it captured but could not list;
  the next quick check skips them. A directory moved in behind the capture of a full walk and
  removed again before the next quick check leaves rows until a full walk (`api/library_scan.rs`).
- A video whose modification time is before 1970 fails every full scan of its folder, and every quick check
  that lists its directory: `video_needs_probe` is called with `?` for all videos before the first file is
  cataloged (`core/index.rs`, `catalog_files`), while the same error of a photo, a little later, costs only that
  photo. `FilesNeverFailPass` leaves such passes out ("undated"); the comment it quotes is about probes.
- A read error other than `NotFound` and a video at its time limit are stored like an undecodable file
  (`core/image_index.rs`, `cache_decode_failure`), as the comment there says of the limit.
- A failing database in `record_stopped_scan` is only logged (`api/jobs/manager.rs`), and the requests it was
  to mark stay pending without a verdict until the next scan; in `FolderRequests` marking succeeds.
- The detector's input may exceed its limit by up to half a multiple of its stride, because the code scales first and
  rounds to the nearest multiple after (`detection_input`); `DetectorInputBounded` allows that much.
- A pending-only scan that read a definition with nothing pending, and is then stopped, marks a
  request made meanwhile, which nothing attempted (`api/library_scan.rs:426`).
- Two processes that link the external weights of a patched graph at once: the later `hard_link` fails
  with `AlreadyExists` and its graph is loaded without patch features (`core/embedding/image.rs`,
  `write_patched_graph`).
- Repositories that are not pinned (the OCR pair at `main`, BGE): when the upstream moves between the
  downloads of two files, the earlier file is no longer found in the newer snapshot.
- A deadline that passes during a seek of a video ends `samples` without `control.check()` and returns
  the samples so far as complete, against its comment "Cancellation and deadlines must still abort
  the request." (`core/imaging/video/mod.rs`).
- `ensure_vector_table` and `ensure_sample_rows` read outside their transaction: a second process that opens
  an old image index, while the first already writes new vectors, could rebuild the table without
  their timestamps and keys; a second process that copies the old video choice again can undo what
  a user changed meanwhile.
- `INTERNAL_API.md:211` says that the revision does not change for an unchanged fingerprint; a changed
  creation time changes the row and the revision (`core/assets/upsert.rs`).


## Plan

What further work would take up, the most telling first:

1. Proofs: search requests (`AnswersAgree`) up to the order of their answers, and the ends of a video's samples.
2. Models: edits of definitions with idempotent import keys, and the respelling of offline folders
   (`core/libraries.rs`); walks with a debug limit and links between folders (`core/index.rs`); the cache of
   tags; subscribers of the event stream.
3. A composition of `FolderRequests` with `DirectoryScan`: the verdict of a folder as the result of its
   walk, with `CompleteScanCatalogs` as what a completed request means.

## Not modelled

- Decoding of pixels, inference, tokenization and FFmpeg: their results are inputs of the models.
- HTTP routing, the launch token, wording of answers and errors.
- SQL below transactions: that a statement does what it says is SQLite's; the statements of a single
  migration stand as one step each between the transactions the code makes.
- Tags, roots, external images, identifiers, paths, logging and the search CLI: conversions and single
  lookups without shared state.
- The vendored hub client: `ModelFiles` states what it does to the cache.
