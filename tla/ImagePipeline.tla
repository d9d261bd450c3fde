---------------------------- MODULE ImagePipeline ----------------------------
(***************************************************************************)
(* The image index of one model.  A pass selects the sources without a      *)
(* current vector; decode workers claim them from a shared cursor and hand   *)
(* them through a bounded channel to the coordinator, which infers batches    *)
(* and saves them.  Frames of a video go to the thumbnail database before     *)
(* its vectors go to the index.  Files change, the job is cancelled, workers *)
(* panic, databases fail and the process ends in the middle of a pass.       *)
(* A fingerprint, and the contents a decode saw, are the version of a file.  *)
(***************************************************************************)
EXTENDS Naturals, Sequences, FiniteSets, SequencesExt

CONSTANTS
    Stills, Videos,     \* cataloged assets
    Corrupt,            \* <<asset, version>> that cannot be decoded
    Hindered,           \* <<asset, version>> whose read may fail, or whose video may
                        \* run out of time, though it can be decoded
    ImageWorkers,       \* image-decode-N threads
    BatchSize,          \* embedder.max_batch_size(), also the channel's capacity
    PassOptions,        \* ImageIndexOptions of the passes; limit 0 for none
    MaxImageVersion,    \* bound: versions of a file
    MaxImagePasses      \* bound: passes started, of this process and the next

ImageAssets == Stills \cup Videos

ASSUME ImageAssumption ==
    /\ IsFiniteSet(ImageAssets) /\ Stills \cap Videos = {} /\ ImageWorkers # {}
    /\ Corrupt \subseteq ImageAssets \X Nat /\ Hindered \subseteq ImageAssets \X Nat
    /\ PassOptions \subseteq [force : BOOLEAN, retry : BOOLEAN, videos : BOOLEAN, limit : Nat]

VARIABLES
    imageFile,          \* asset -> version on disk, 0 when the file is gone
    imageRow,           \* asset -> fingerprint in the catalog
    failedRow,          \* decode_failure_state: asset -> fingerprint, 0 for no row
    vectors,            \* image_embedding_state and its rows: asset -> [fp, seen]
    frames,             \* video_thumbnails: asset -> [fp, seen]
    imagePass,          \* the coordinator: [pc, cancelled, writeError, fatal, ...]
    imageWorker,        \* worker -> [pc, outcome]
    imageOutcomes,      \* the bounded channel
    imagePending,       \* decoded assets that wait for a batch
    imageCancel,        \* the job's cancellation token
    excused,            \* history: assets the pass reported, or whose frames were deleted
    passes

imageVars == <<imageFile, imageRow, failedRow, vectors, frames, imagePass, imageWorker,
               imageOutcomes, imagePending, imageCancel, excused, passes>>

Unsaved == [fp |-> 0, seen |-> 0]
NoPass == [pc |-> "idle"]
IdleWorkers == [w \in ImageWorkers |-> [pc |-> "ended"]]

ImageInit ==
    /\ imageFile = [a \in ImageAssets |-> 1] /\ imageRow = [a \in ImageAssets |-> 1]
    /\ failedRow = [a \in ImageAssets |-> 0]
    /\ vectors = [a \in ImageAssets |-> Unsaved] /\ frames = [a \in ImageAssets |-> Unsaved]
    /\ imagePass = NoPass /\ imageWorker = IdleWorkers
    /\ imageOutcomes = <<>> /\ imagePending = <<>>
    /\ imageCancel = FALSE /\ excused = {} /\ passes = 0

-----------------------------------------------------------------------------
(* What a pass selects.                                                     *)

\* current_asset_ids: the still has a vector of its cataloged fingerprint.
CurrentStills == {a \in Stills : vectors[a].fp = imageRow[a]}

\* has_current_video_samples: every frame and the poster are in the cache.
CompleteFrames(a) == frames[a].fp = imageRow[a]

\* Mutant: a video is current as soon as its vectors are.
CurrentVideos_VectorsOnly == {a \in Videos : vectors[a].fp = imageRow[a]}

\* current_video_asset_ids, then videos_with_complete_thumbnails.
CurrentVideos == {a \in Videos : vectors[a].fp = imageRow[a] /\ CompleteFrames(a)}

\* current_decode_failure_asset_ids.
DecodeFailed == {a \in ImageAssets : failedRow[a] = imageRow[a]}

\* is_embedding_candidate.
Candidates(indexVideos) == IF indexVideos THEN ImageAssets ELSE Stills

\* select_catalog_images; the limit truncates what is left, in catalog order.
SelectedImages(options) ==
    LET current == IF options.force THEN {} ELSE CurrentStills \cup CurrentVideos
        failed == IF options.force \/ options.retry THEN {} ELSE DecodeFailed
        all == SetToSeq(Candidates(options.videos) \ (current \cup failed))
    IN IF options.limit > 0 /\ options.limit < Len(all) THEN SubSeq(all, 1, options.limit) ELSE all

\* A scan catalogs the file before the stage.
ScanRow(a) ==
    /\ imagePass = NoPass /\ imageFile[a] > 0
    /\ imageRow' = [imageRow EXCEPT ![a] = imageFile[a]]
    /\ UNCHANGED <<imageFile, failedRow, vectors, frames, imagePass, imageWorker, imageOutcomes,
                   imagePending, imageCancel, excused, passes>>

\* A pass starts; with nothing selected no model is loaded and no thread made.
StartPass(options) ==
    LET sources == SelectedImages(options) IN
    /\ imagePass = NoPass /\ passes < MaxImagePasses
    /\ passes' = passes + 1
    /\ imageCancel' = FALSE /\ excused' = {}
    /\ imagePass' = [pc |-> IF sources = <<>> THEN "done" ELSE "receive", options |-> options,
                     sources |-> sources, next |-> 1, row |-> imageRow,
                     cancelled |-> FALSE, writeError |-> FALSE, fatal |-> FALSE,
                     flag |-> FALSE, aborted |-> FALSE,
                     batch |-> <<>>, ready |-> {}, final |-> FALSE]
    /\ imageWorker' = IF sources = <<>> THEN IdleWorkers ELSE [w \in ImageWorkers |-> [pc |-> "claim"]]
    /\ UNCHANGED <<imageFile, imageRow, failedRow, vectors, frames, imageOutcomes, imagePending>>

-----------------------------------------------------------------------------
(* The decode workers.                                                      *)

\* A worker stops before it claims, and before it hands over what it decoded.
StopsWorker == imageCancel \/ imagePass.aborted

WorkerEnds(w) == imageWorker' = [imageWorker EXCEPT ![w] = [pc |-> "ended"]]

\* The head of the loop of decode_sources.
ClaimSource(w) ==
    /\ imageWorker[w].pc = "claim"
    /\ IF StopsWorker \/ imagePass.next > Len(imagePass.sources)
       THEN WorkerEnds(w) /\ UNCHANGED imagePass
       ELSE /\ imageWorker' = [imageWorker EXCEPT ![w] =
                   [pc |-> "decode", asset |-> imagePass.sources[imagePass.next]]]
            /\ imagePass' = [imagePass EXCEPT !.next = @ + 1]
    /\ UNCHANGED <<imageFile, imageRow, failedRow, vectors, frames, imageOutcomes, imagePending,
                   imageCancel, excused, passes>>

\* Revisions of which an attempt to read and decode them can fail.
Failing == Corrupt \cup Hindered

\* decode_image of a still: the file as it is now, which may be gone.  Every
\* other failure of the read counts as one of the decoder: "opening image".
StillPrepared(a) ==
    LET revision == <<a, imageFile[a]>> IN
    IF imageFile[a] = 0 THEN {[kind |-> "missing"]}
    ELSE {[kind |-> "failure", asset |-> a, cache |-> TRUE] : c \in Failing \cap {revision}}
         \cup IF revision \in Corrupt THEN {}
              ELSE {[kind |-> "success", asset |-> a, seen |-> imageFile[a]],
                    [kind |-> "failure", asset |-> a, cache |-> FALSE]}  \* preprocessing failed

\* prepare_video: as a still, with a limit of its time; and it stops early when
\* the token or the flag is set.
VideoPrepared(a) ==
    StillPrepared(a) \cup
        IF imageCancel \/ imagePass.flag \/ imagePass.aborted
        THEN {[kind |-> "failure", asset |-> a, cache |-> TRUE]} ELSE {}

\* guard_decode_worker: a panic is an outcome too.
Panicked == [kind |-> "fatal"]

Preparations(a) == {Panicked} \cup IF a \in Videos THEN VideoPrepared(a) ELSE StillPrepared(a)

\* Mutant: a decode that was stopped is handed over like any other failure.
Discards_Never == FALSE

\* The look at the token between the decode and the send.
Discards == StopsWorker

\* The body of the loop up to the send.
Prepare(w) ==
    /\ imageWorker[w].pc = "decode"
    /\ LET a == imageWorker[w].asset IN
       \E outcome \in Preparations(a) :
        /\ imageWorker' = [imageWorker EXCEPT ![w] =
               IF Discards /\ outcome # Panicked THEN [pc |-> "ended"]
               ELSE IF outcome.kind = "missing" THEN [pc |-> "claim"]
               ELSE [pc |-> "send", outcome |-> outcome]]
        \* report_disappeared_source
        /\ excused' = IF outcome.kind = "missing" /\ ~Discards THEN excused \cup {a} ELSE excused
    /\ UNCHANGED <<imageFile, imageRow, failedRow, vectors, frames, imagePass, imageOutcomes,
                   imagePending, imageCancel, passes>>

\* send_unless_aborted: a blocking send races the abort channel; when both are
\* ready either may win.
SendOutcome(w) ==
    /\ imageWorker[w].pc = "send"
    /\ \/ /\ Len(imageOutcomes) < BatchSize
          /\ imageOutcomes' = Append(imageOutcomes, imageWorker[w].outcome)
          /\ imageWorker' = [imageWorker EXCEPT ![w] =
                 [pc |-> IF @.outcome = Panicked THEN "ended" ELSE "claim"]]
       \/ imagePass.aborted /\ WorkerEnds(w) /\ UNCHANGED imageOutcomes
    /\ UNCHANGED <<imageFile, imageRow, failedRow, vectors, frames, imagePass, imagePending,
                   imageCancel, excused, passes>>

-----------------------------------------------------------------------------
(* The coordinator.                                                         *)

\* It has decided to stop: the flag is set first, the channel dropped after it.
Stopping(p) == p.cancelled \/ p.writeError \/ p.fatal

\* The cancellation check at the head of the loop.
Noticed == [imagePass EXCEPT !.cancelled = @ \/ imageCancel]

\* Mutant: what arrives while stopping is still recorded.
Recorded_Always(p, outcome) == outcome.kind = "failure" /\ outcome.cache

\* A decode failure is recorded unless the pass is stopping.
Recorded(p, outcome) == outcome.kind = "failure" /\ ~Stopping(p) /\ outcome.cache

\* A still is one input of the model, a video several.
Pixels(items) == Len(items) + Cardinality({k \in DOMAIN items : items[k].asset \in Videos})

\* One outcome is received and matched.
ReceiveOutcome ==
    /\ imagePass.pc = "receive" /\ imageOutcomes # <<>>
    /\ imageOutcomes' = Tail(imageOutcomes)
    /\ LET outcome == Head(imageOutcomes)
           p == Noticed
           kept == IF p.cancelled /\ ~imagePass.cancelled THEN <<>> ELSE imagePending
           all == Append(kept, outcome)
       IN
       /\ \E recordFails \in {FALSE, TRUE} :
            LET q == [p EXCEPT !.fatal = @ \/ outcome = Panicked,
                               !.writeError = @ \/ (recordFails /\ Recorded(p, outcome))]
            IN /\ recordFails => Recorded(p, outcome)
               /\ failedRow' = IF Recorded(p, outcome) /\ ~recordFails
                               THEN [failedRow EXCEPT ![outcome.asset] = imagePass.row[outcome.asset]]
                               ELSE failedRow
               /\ excused' = IF outcome.kind = "failure" /\ ~Stopping(q)
                                  THEN excused \cup {outcome.asset} ELSE excused
               /\ IF outcome.kind = "success" /\ ~Stopping(p) /\ Pixels(all) >= BatchSize
                  THEN imagePass' = [q EXCEPT !.pc = "infer", !.batch = all] /\ imagePending' = <<>>
                  ELSE /\ imagePass' = [q EXCEPT !.pc = IF Stopping(q) /\ ~p.aborted THEN "stop" ELSE "receive",
                                                 !.flag = Stopping(q)]
                       /\ imagePending' = IF outcome.kind = "success" /\ ~Stopping(p) THEN all ELSE kept
    /\ UNCHANGED <<imageFile, imageRow, vectors, frames, imageWorker, imageCancel, passes>>

\* abort_sender.take(), after the flag.
DropAbort ==
    /\ imagePass.pc = "stop"
    /\ imagePass' = [imagePass EXCEPT !.pc = "receive", !.aborted = TRUE]
    /\ UNCHANGED <<imageFile, imageRow, failedRow, vectors, frames, imageWorker, imageOutcomes,
                   imagePending, imageCancel, excused, passes>>

\* A flush returns: into the loop, or out of the pass.
Flushed(failed) ==
    IF imagePass.final THEN [imagePass EXCEPT !.pc = "done", !.writeError = failed, !.batch = <<>>]
    ELSE [imagePass EXCEPT !.pc = IF failed THEN "stop" ELSE "receive", !.writeError = @ \/ failed,
                           !.flag = @ \/ failed, !.batch = <<>>, !.ready = {}]

\* embed_sample_batches: vectors, none when cancelled, or an error that is
\* reported for every asset of the batch.
Infer ==
    /\ imagePass.pc = "infer"
    /\ \/ /\ imagePass' = [imagePass EXCEPT !.pc = "store"]
          /\ UNCHANGED excused
       \/ /\ ~imageCancel
          /\ imagePass' = Flushed(TRUE)
          /\ excused' = excused \cup {imagePass.batch[k].asset : k \in DOMAIN imagePass.batch}
    /\ UNCHANGED <<imageFile, imageRow, failedRow, vectors, frames, imageWorker, imageOutcomes,
                   imagePending, imageCancel, passes>>

\* Mutant: the source is not looked at again.
SourceMoved_Never(a) == FALSE

\* The file is no longer the one that was selected.
SourceMoved(a) == imageFile[a] # imagePass.row[a]

Saved(item) == [fp |-> imagePass.row[item.asset], seen |-> item.seen]

\* One asset of the batch, in order.
StoreItem ==
    /\ imagePass.pc = "store" /\ imagePass.batch # <<>> /\ ~imageCancel
    /\ LET item == Head(imagePass.batch)  rest == Tail(imagePass.batch) IN
       IF SourceMoved(item.asset)
       THEN /\ imagePass' = [imagePass EXCEPT !.batch = rest]
            /\ excused' = excused \cup {item.asset}
            /\ UNCHANGED <<vectors, frames>>
       ELSE /\ UNCHANGED excused
            /\ IF item.asset \in Stills
               THEN /\ imagePass' = [imagePass EXCEPT !.batch = rest, !.ready = @ \cup {item}]
                    /\ UNCHANGED <<vectors, frames>>
               \* store_encoded_video_samples, on the thumbnail writer
               ELSE \/ /\ imagePass' = [imagePass EXCEPT !.pc = "video"]
                       /\ frames' = [frames EXCEPT ![item.asset] = Saved(item)]
                       /\ UNCHANGED vectors
                    \/ imagePass' = Flushed(TRUE) /\ UNCHANGED <<vectors, frames>>
    /\ UNCHANGED <<imageFile, imageRow, failedRow, imageWorker, imageOutcomes, imagePending,
                   imageCancel, passes>>

\* save_video_embeddings: samples and currency record in one transaction.
SaveVideo ==
    /\ imagePass.pc = "video"
    /\ LET item == Head(imagePass.batch) IN
       \/ /\ vectors' = [vectors EXCEPT ![item.asset] = Saved(item)]
          /\ imagePass' = [imagePass EXCEPT !.pc = "store", !.batch = Tail(@)]
       \/ imagePass' = Flushed(TRUE) /\ UNCHANGED vectors
    /\ UNCHANGED <<imageFile, imageRow, failedRow, frames, imageWorker, imageOutcomes, imagePending,
                   imageCancel, excused, passes>>

\* save_embeddings: the stills of the batch in one transaction, not when cancelled.
SaveStills ==
    /\ imagePass.pc = "store" /\ (imagePass.batch = <<>> \/ imageCancel)
    /\ \/ /\ imagePass' = Flushed(FALSE)
          /\ vectors' = IF imageCancel THEN vectors
                        ELSE [a \in ImageAssets |->
                                 IF \E item \in imagePass.ready : item.asset = a
                                 THEN Saved(CHOOSE item \in imagePass.ready : item.asset = a)
                                 ELSE vectors[a]]
       \/ ~imageCancel /\ imagePass.ready # {} /\ imagePass' = Flushed(TRUE) /\ UNCHANGED vectors
    /\ UNCHANGED <<imageFile, imageRow, failedRow, frames, imageWorker, imageOutcomes, imagePending,
                   imageCancel, excused, passes>>

\* Mutant: what is left of the last batch is forgotten.
LastBatch_Dropped == <<>>

LastBatch == imagePending

\* Mutant: the coordinator keeps the sender it cloned for the workers.
OutcomesEnd_Never == FALSE

\* Every sender of the channel has been dropped.
OutcomesEnd == \A w \in ImageWorkers : imageWorker[w].pc = "ended"

\* The channel is disconnected: the workers are joined, errors returned, and the last
\* batch is flushed unless the pass was cancelled.
JoinWorkers ==
    /\ imagePass.pc = "receive" /\ imageOutcomes = <<>>
    /\ OutcomesEnd
    /\ LET p == Noticed IN
       imagePass' = IF Stopping(p) \/ LastBatch = <<>> THEN [p EXCEPT !.pc = "done"]
                    ELSE [p EXCEPT !.pc = "infer", !.batch = LastBatch, !.ready = {}, !.final = TRUE]
    /\ imagePending' = <<>>
    /\ UNCHANGED <<imageFile, imageRow, failedRow, vectors, frames, imageWorker, imageOutcomes,
                   imageCancel, excused, passes>>

\* The stage returns to its job.
PassReturns ==
    /\ imagePass.pc = "done"
    /\ imagePass' = NoPass
    /\ UNCHANGED <<imageFile, imageRow, failedRow, vectors, frames, imageWorker, imageOutcomes,
                   imagePending, imageCancel, excused, passes>>

ImageSteps ==
    \/ ReceiveOutcome \/ DropAbort \/ Infer \/ StoreItem \/ SaveVideo \/ SaveStills
    \/ JoinWorkers \/ PassReturns
    \/ \E w \in ImageWorkers : ClaimSource(w) \/ Prepare(w) \/ SendOutcome(w)

-----------------------------------------------------------------------------
(* What happens around it.                                                  *)

SourceChanges(a) ==
    /\ imageFile[a] > 0
    /\ \E v \in {0, imageFile[a] + 1} : v <= MaxImageVersion /\ imageFile' = [imageFile EXCEPT ![a] = v]
    /\ UNCHANGED <<imageRow, failedRow, vectors, frames, imagePass, imageWorker, imageOutcomes,
                   imagePending, imageCancel, excused, passes>>

\* DELETE of an asset's thumbnails runs on the writer between other commands.
FramesDeleted(a) ==
    /\ frames[a] # Unsaved
    /\ frames' = [frames EXCEPT ![a] = Unsaved]
    /\ excused' = excused \cup {a}
    /\ UNCHANGED <<imageFile, imageRow, failedRow, vectors, imagePass, imageWorker, imageOutcomes,
                   imagePending, imageCancel, passes>>

CancelPass ==
    /\ imagePass # NoPass /\ ~imageCancel
    /\ imageCancel' = TRUE
    /\ UNCHANGED <<imageFile, imageRow, failedRow, vectors, frames, imagePass, imageWorker,
                   imageOutcomes, imagePending, excused, passes>>

\* The process ends; the databases stay.
ProcessDies ==
    /\ imagePass # NoPass
    /\ imagePass' = NoPass /\ imageWorker' = IdleWorkers
    /\ imageOutcomes' = <<>> /\ imagePending' = <<>>
    /\ UNCHANGED <<imageFile, imageRow, failedRow, vectors, frames, imageCancel, excused,
                   passes>>

ImageNext ==
    \/ ImageSteps
    \/ CancelPass \/ ProcessDies
    \/ \E options \in PassOptions : StartPass(options)
    \/ \E a \in ImageAssets : ScanRow(a) \/ SourceChanges(a)
    \/ \E a \in Videos : FramesDeleted(a)

ImageSpec == ImageInit /\ [][ImageNext]_imageVars

-----------------------------------------------------------------------------
(* Correctness.                                                             *)

\* A vector, and a stored frame, was made from the revision it is filed under,
\* though the file is read long after it was selected: a replaced file never
\* gives its contents to the old fingerprint.
VectorsMatchSource ==
    \A a \in ImageAssets : vectors[a].seen = vectors[a].fp /\ frames[a].seen = frames[a].fp

\* "A decode stopped by cancellation never reaches this record": a file is
\* skipped by later passes only when reading or decoding this very revision
\* failed, or ran out of time, on its own.
FailuresAreReal ==
    \A a \in ImageAssets : failedRow[a] # 0 /\ failedRow[a] = imageFile[a] => <<a, imageFile[a]>> \in Failing

\* Of a pass that ran to its end without an error, a cancellation or a limit,
\* every candidate is indexed as it was cataloged, was reported, or is a
\* recorded failure; a video without its frames is selected again.
CompletePassCovers ==
    imagePass.pc = "done" /\ ~Stopping(Noticed) /\ imagePass.options.limit = 0 =>
        \A a \in Candidates(imagePass.options.videos) :
            \/ vectors[a].fp = imagePass.row[a] /\ (a \in Videos => frames[a].fp = imagePass.row[a])
            \/ a \in excused \/ failedRow[a] = imagePass.row[a]

\* Whatever fails, panics or is cancelled, and however full the channel is,
\* no thread is left waiting: the pass returns.
PassEnds == imagePass # NoPass ~> imagePass = NoPass

\* Vectors and frames are of the revision they are filed under, failures are
\* real, and a complete pass has indexed or reported everything: with files
\* that change and whatever fails, panics, is cancelled or crashes on the way.
ImagesIndexed == VectorsMatchSource /\ FailuresAreReal /\ CompletePassCovers

-----------------------------------------------------------------------------
(* The inductive invariant.                                                 *)

ImageItem == [kind : {"success"}, asset : ImageAssets, seen : Nat]
ImageOutcomeSet == [kind : {"fatal"}] \cup [kind : {"failure"}, asset : ImageAssets, cache : BOOLEAN] \cup ImageItem
ImageWorkerStates ==
    [pc : {"claim", "ended"}] \cup [pc : {"decode"}, asset : ImageAssets]
    \cup [pc : {"send"}, outcome : ImageOutcomeSet]
ImageRunning ==
    [pc : {"receive", "stop", "infer", "store", "video", "done"}, options : PassOptions,
     sources : Seq(ImageAssets), next : Nat \ {0}, row : [ImageAssets -> Nat \ {0}],
     cancelled : BOOLEAN, writeError : BOOLEAN, fatal : BOOLEAN, flag : BOOLEAN, aborted : BOOLEAN,
     batch : Seq(ImageItem), ready : SUBSET ImageItem, final : BOOLEAN]
VersionPairs == [fp : Nat, seen : Nat]
Flushing == {"infer", "store", "video"}

\* Type invariant; threads and the channel are those of a pass, and a pass that
\* flushes for the last time has joined its threads.
ImageTypeOK ==
    /\ imageFile \in [ImageAssets -> Nat] /\ imageRow \in [ImageAssets -> Nat \ {0}]
    /\ failedRow \in [ImageAssets -> Nat]
    /\ vectors \in [ImageAssets -> VersionPairs] /\ frames \in [ImageAssets -> VersionPairs]
    /\ imagePass \in {NoPass} \cup ImageRunning
    /\ imageWorker \in [ImageWorkers -> ImageWorkerStates]
    /\ imageOutcomes \in Seq(ImageOutcomeSet) /\ imagePending \in Seq(ImageItem)
    /\ imageCancel \in BOOLEAN /\ excused \subseteq ImageAssets
    /\ (imagePass.pc \in {"idle", "done"} \/ (imagePass.pc \in Flushing /\ imagePass.final)) =>
           imageWorker = IdleWorkers /\ imageOutcomes = <<>> /\ imagePending = <<>>

\* A pass that stops knows why, and one that flushes does not stop; between two
\* flushes no batch is held.
StoppingInv ==
    imagePass.pc # "idle" =>
        /\ imagePass.flag \/ imagePass.aborted \/ imagePass.pc = "stop" => Stopping(imagePass)
        /\ imagePass.pc \in Flushing => ~Stopping(imagePass)
        /\ imagePass.pc \in {"receive", "stop"} =>
               ~imagePass.final /\ imagePass.batch = <<>> /\ imagePass.ready = {}

\* What was seen of an asset is no older than its row, and no newer than its
\* file, if there still is one.
NotAhead(asset, version) == imageFile[asset] = 0 \/ version <= imageFile[asset]
SeenSince(item) == imagePass.row[item.asset] <= item.seen /\ NotAhead(item.asset, item.seen)

\* A failure is the file's, or the pass is about to learn that it stops.
FailureReal(asset) ==
    \/ imageCancel \/ Stopping(imagePass)
    \/ \E c \in Failing : c[1] = asset /\ imagePass.row[asset] <= c[2] /\ NotAhead(asset, c[2])
OutcomeTrue(o) ==
    /\ o.kind = "success" => SeenSince(o)
    /\ o.kind = "failure" /\ o.cache => FailureReal(o.asset)

StoredInv ==
    \A a \in ImageAssets :
        /\ vectors[a].seen = vectors[a].fp /\ frames[a].seen = frames[a].fp
        /\ NotAhead(a, imageRow[a]) /\ NotAhead(a, failedRow[a])
        /\ failedRow[a] # 0 /\ failedRow[a] = imageFile[a] => <<a, imageFile[a]>> \in Failing

SeenInv ==
    imagePass.pc # "idle" =>
        /\ \A a \in ImageAssets : NotAhead(a, imagePass.row[a])
        /\ \A w \in ImageWorkers : imageWorker[w].pc = "send" => OutcomeTrue(imageWorker[w].outcome)
        /\ \A k \in DOMAIN imageOutcomes : OutcomeTrue(imageOutcomes[k])
        /\ \A k \in DOMAIN imagePending : SeenSince(imagePending[k])
        /\ \A k \in DOMAIN imagePass.batch : SeenSince(imagePass.batch[k])
        /\ \A item \in imagePass.ready : item.asset \in Stills /\ item.seen = imagePass.row[item.asset]
        /\ imagePass.pc = "video" =>
               LET item == Head(imagePass.batch) IN
               /\ imagePass.batch # <<>> /\ item.seen = imagePass.row[item.asset]
               /\ frames[item.asset].fp = imagePass.row[item.asset] \/ item.asset \in excused

\* What the pass has done with an asset, and where those are that it has not.
Covered(a) ==
    \/ vectors[a].fp = imagePass.row[a] /\ (a \in Videos => frames[a].fp = imagePass.row[a])
    \/ a \in excused \/ failedRow[a] = imagePass.row[a]
LeftToClaim == {imagePass.sources[k] : k \in imagePass.next .. Len(imagePass.sources)}
OfOutcome(o) == IF o.kind = "fatal" THEN {} ELSE {o.asset}
HeldBy(r) == IF r.pc = "decode" THEN {r.asset} ELSE IF r.pc = "send" THEN OfOutcome(r.outcome) ELSE {}
Held == UNION {HeldBy(imageWorker[w]) : w \in ImageWorkers}
Sending == UNION {OfOutcome(imageOutcomes[k]) : k \in DOMAIN imageOutcomes}
AssetsOf(items) == {items[k].asset : k \in DOMAIN items}
UnderWay ==
    LeftToClaim \cup Held \cup Sending \cup AssetsOf(imagePending) \cup AssetsOf(imagePass.batch)
    \cup {item.asset : item \in imagePass.ready}

\* The news of a dead worker, on its way to the coordinator.
PanicAhead ==
    \/ \E w \in ImageWorkers : imageWorker[w].pc = "send" /\ imageWorker[w].outcome.kind = "fatal"
    \/ \E k \in DOMAIN imageOutcomes : imageOutcomes[k].kind = "fatal"
Undisturbed == ~imageCancel /\ ~Stopping(imagePass) /\ ~PanicAhead

\* While nothing is wrong no candidate is lost, and threads end for want of sources.
NothingLost ==
    /\ imagePass.options.limit = 0 =>
           \A a \in Candidates(imagePass.options.videos) : Covered(a) \/ a \in UnderWay
    /\ (\E w \in ImageWorkers : imageWorker[w].pc = "ended") => LeftToClaim = {}

ImageInv ==
    /\ ImageTypeOK /\ StoppingInv /\ StoredInv /\ SeenInv
    /\ imagePass.pc \notin {"idle", "done"} => (Undisturbed => NothingLost)
    /\ CompletePassCovers
===============================================================================
