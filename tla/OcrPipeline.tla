----------------------------- MODULE OcrPipeline -----------------------------
(***************************************************************************)
(* One pass of text recognition:                                            *)
(*   sources -> decode workers -> decoded -> inference replicas -> outcomes  *)
(*   -> coordinator -> OCR database,                                         *)
(* joined by two bounded channels.  Files change, the job is cancelled,      *)
(* workers panic, inference and databases fail.  A fingerprint, and the       *)
(* contents a decode saw, are the version of a file.                          *)
(***************************************************************************)
EXTENDS Naturals, Sequences, FiniteSets, SequencesExt

CONSTANTS
    OcrImages,          \* cataloged stills
    Oversized,          \* those over options.max_dimensions
    Undecodable,        \* <<image, version>> that cannot be decoded
    Decoders, Replicas, \* ocr-decode-N and ocr-inference-N threads
    DecodedCapacity,    \* inference_workers * 2 in the code
    OutcomeCapacity,    \* max(commit_chunk_size * 2, workers) in the code
    ChunkSize,          \* commit_chunk_size
    OcrEdited,          \* bound: the images that change
    MaxOcrVersion, MaxOcrPasses     \* bounds: versions of a file, passes

ASSUME OcrAssumption ==
    /\ IsFiniteSet(OcrImages) /\ OcrEdited \subseteq OcrImages
    /\ Decoders # {} /\ Replicas # {} /\ Decoders \cap Replicas = {}

OcrWorkers == Decoders \cup Replicas

VARIABLES
    ocrFile, ocrRow,    \* image -> version on disk (0: gone), fingerprint in the catalog
    undecoded,          \* decode_failure_state: image -> fingerprint, 0 for no row
    texts,              \* ocr_results: image -> [fp, seen]
    ocrPass,            \* the coordinator
    ocrWorker,          \* worker -> [pc, ...]
    decodedQueue, outcomeQueue,
    ocrPending,         \* results that wait for a chunk
    ocrCancel,          \* the job's cancellation token
    ocrIndexed,         \* rows the progress of the pass claims
    accounted, panicked \* history: images saved, reported or skipped by the pass; a worker died

ocrVars == <<ocrFile, ocrRow, undecoded, texts, ocrPass, ocrWorker, decodedQueue, outcomeQueue,
             ocrPending, ocrCancel, ocrIndexed, accounted, panicked>>

Unread == [fp |-> 0, seen |-> 0]
OcrIdle == [pc |-> "idle", passes |-> 0]
OcrJoined == [w \in OcrWorkers |-> [pc |-> "ended"]]

OcrInit ==
    /\ ocrFile = [a \in OcrImages |-> 1] /\ ocrRow = ocrFile
    /\ undecoded = [a \in OcrImages |-> 0] /\ texts = [a \in OcrImages |-> Unread]
    /\ ocrPass = OcrIdle /\ ocrWorker = OcrJoined
    /\ decodedQueue = <<>> /\ outcomeQueue = <<>> /\ ocrPending = <<>>
    /\ ocrCancel = FALSE /\ ocrIndexed = 0 /\ accounted = {} /\ panicked = FALSE

\* select_ocr_sources: no current result, no recorded failure, not too large.
OcrSources(rescan, retry) ==
    LET current == IF rescan THEN {} ELSE {a \in OcrImages : texts[a].fp = ocrRow[a]}
        failed == IF rescan \/ retry THEN {} ELSE {a \in OcrImages : undecoded[a] = ocrRow[a]}
    IN OcrImages \ (current \cup failed \cup Oversized)

\* recognize_text and recognize_selection: nothing selected loads nothing; the
\* images that selection skipped count as done.
StartOcr(rescan, retry) ==
    LET sources == OcrSources(rescan, retry) IN
    /\ ocrPass.pc = "idle" /\ ocrPass.passes < MaxOcrPasses
    /\ ocrPass' = [pc |-> IF sources = {} THEN "done" ELSE "receive", passes |-> ocrPass.passes + 1,
                   sources |-> SetToSeq(sources), next |-> 1, row |-> ocrRow,
                   fatal |-> FALSE, writeError |-> FALSE, aborted |-> FALSE]
    /\ ocrWorker' = IF sources = {} THEN OcrJoined
                    ELSE [w \in OcrWorkers |-> [pc |-> IF w \in Decoders THEN "claim" ELSE "take"]]
    /\ accounted' = OcrImages \ sources
    /\ ocrCancel' = FALSE /\ ocrIndexed' = 0 /\ panicked' = FALSE
    /\ UNCHANGED <<ocrFile, ocrRow, undecoded, texts, decodedQueue, outcomeQueue, ocrPending>>

-----------------------------------------------------------------------------
(* Workers.                                                                 *)

OcrTo(w, next) == ocrWorker' = [ocrWorker EXCEPT ![w] = next]

\* A panic anywhere in a worker's body: guard_worker turns it into an outcome.
WorkerPanics(w) ==
    /\ ocrWorker[w].pc \in {"decode", "infer"}
    /\ OcrTo(w, [pc |-> "report", outcome |-> [kind |-> "fatal"]])
    /\ panicked' = TRUE
    /\ UNCHANGED <<ocrFile, ocrRow, undecoded, texts, ocrPass, decodedQueue, outcomeQueue,
                   ocrPending, ocrCancel, ocrIndexed, accounted>>

\* The head of the loop of decode_assets.
ClaimImage(w) ==
    /\ ocrWorker[w].pc = "claim"
    /\ IF ocrPass.aborted \/ ocrCancel \/ ocrPass.next > Len(ocrPass.sources)
       THEN OcrTo(w, [pc |-> "ended"]) /\ UNCHANGED ocrPass
       ELSE /\ OcrTo(w, [pc |-> "decode", image |-> ocrPass.sources[ocrPass.next]])
            /\ ocrPass' = [ocrPass EXCEPT !.next = @ + 1]
    /\ UNCHANGED <<ocrFile, ocrRow, undecoded, texts, decodedQueue, outcomeQueue, ocrPending,
                   ocrCancel, ocrIndexed, accounted, panicked>>

\* decode_image: a file that is gone is skipped; one that cannot be decoded, or
\* whose read fails otherwise, is reported.
DecodeOne(w) ==
    /\ ocrWorker[w].pc = "decode"
    /\ LET a == ocrWorker[w].image  v == ocrFile[a] IN
       /\ \/ v = 0 /\ OcrTo(w, [pc |-> "claim"])
          \/ v # 0 /\ OcrTo(w, [pc |-> "report", outcome |-> [kind |-> "decode", image |-> a]])
          \/ /\ v # 0 /\ <<a, v>> \notin Undecodable
             /\ OcrTo(w, [pc |-> "pass", work |-> [image |-> a, seen |-> v]])
       /\ accounted' = IF v = 0 THEN accounted \cup {a} ELSE accounted
    /\ UNCHANGED <<ocrFile, ocrRow, undecoded, texts, ocrPass, decodedQueue, outcomeQueue,
                   ocrPending, ocrCancel, ocrIndexed, panicked>>

Running(W) == \E w \in W : ocrWorker[w].pc # "ended"

\* The send to the replicas: room, or aborted, or every replica has returned.
PassDecoded(w) ==
    /\ ocrWorker[w].pc = "pass"
    /\ \/ /\ Running(Replicas) /\ Len(decodedQueue) < DecodedCapacity
          /\ decodedQueue' = Append(decodedQueue, ocrWorker[w].work)
          /\ OcrTo(w, [pc |-> "claim"])
       \/ /\ ocrPass.aborted \/ ~Running(Replicas)
          /\ OcrTo(w, [pc |-> "ended"]) /\ UNCHANGED decodedQueue
    /\ UNCHANGED <<ocrFile, ocrRow, undecoded, texts, ocrPass, outcomeQueue, ocrPending, ocrCancel,
                   ocrIndexed, accounted, panicked>>

\* recognize_assets: take work, or stop when all decoders are done or on abort;
\* after a cancellation the queue is drained without inference.
TakeDecoded(w) ==
    /\ ocrWorker[w].pc = "take"
    /\ \/ /\ decodedQueue # <<>>
          /\ decodedQueue' = Tail(decodedQueue)
          /\ OcrTo(w, IF ocrCancel THEN [pc |-> "take"] ELSE [pc |-> "infer", work |-> Head(decodedQueue)])
       \/ /\ ocrPass.aborted \/ (decodedQueue = <<>> /\ ~Running(Decoders))
          /\ OcrTo(w, [pc |-> "ended"]) /\ UNCHANGED decodedQueue
    /\ UNCHANGED <<ocrFile, ocrRow, undecoded, texts, ocrPass, outcomeQueue, ocrPending, ocrCancel,
                   ocrIndexed, accounted, panicked>>

\* scan_asset: text, or a failure of this image.
ScanAsset(w) ==
    /\ ocrWorker[w].pc = "infer"
    /\ \E kind \in {"success", "item"} :
        OcrTo(w, [pc |-> "report", outcome |->
            [kind |-> kind, image |-> ocrWorker[w].work.image, seen |-> ocrWorker[w].work.seen]])
    /\ UNCHANGED <<ocrFile, ocrRow, undecoded, texts, ocrPass, decodedQueue, outcomeQueue,
                   ocrPending, ocrCancel, ocrIndexed, accounted, panicked>>

\* send_unless_aborted to the coordinator.
ReportOutcome(w) ==
    /\ ocrWorker[w].pc = "report"
    /\ \/ /\ Len(outcomeQueue) < OutcomeCapacity
          /\ outcomeQueue' = Append(outcomeQueue, ocrWorker[w].outcome)
          /\ OcrTo(w, [pc |-> IF ocrWorker[w].outcome.kind = "fatal" THEN "ended"
                              ELSE IF w \in Decoders THEN "claim" ELSE "take"])
       \/ ocrPass.aborted /\ OcrTo(w, [pc |-> "ended"]) /\ UNCHANGED outcomeQueue
    /\ UNCHANGED <<ocrFile, ocrRow, undecoded, texts, ocrPass, decodedQueue, ocrPending, ocrCancel,
                   ocrIndexed, accounted, panicked>>

-----------------------------------------------------------------------------
(* The coordinator.                                                         *)

OcrStopping == ocrPass.fatal \/ ocrPass.writeError

\* Mutant: a result is filed under the file as it is when it is saved.
Filed_Now(result) == [fp |-> ocrFile[result.image], seen |-> result.seen]

\* save_results files the text under the fingerprint of the catalog.
Filed(result) == [fp |-> ocrPass.row[result.image], seen |-> result.seen]

\* Mutant: the count is published before the transaction.
Published_Early(count, saved) == count

\* Progress is published once the transaction is durable.
Published(count, saved) == IF saved THEN count ELSE 0

\* flush: one transaction that commits or fails.
FlushChunk(results, saved) ==
    /\ texts' = IF saved THEN [a \in OcrImages |->
                    IF \E k \in DOMAIN results : results[k].image = a
                    THEN Filed(CHOOSE r \in ToSet(results) : r.image = a) ELSE texts[a]]
                ELSE texts
    /\ ocrIndexed' = ocrIndexed + Published(Len(results), saved)
    /\ accounted' = IF saved THEN accounted \cup {results[k].image : k \in DOMAIN results} ELSE accounted

\* A result is collected; a full chunk is committed.
ReceiveText(result) ==
    LET all == Append(ocrPending, result) IN
    IF Len(all) < ChunkSize
    THEN ocrPending' = all /\ UNCHANGED <<texts, ocrIndexed, accounted, ocrPass>>
    ELSE \E saved \in BOOLEAN :
            /\ FlushChunk(all, saved) /\ ocrPending' = <<>>
            /\ ocrPass' = [ocrPass EXCEPT !.writeError = ~saved, !.aborted = @ \/ ~saved]

\* An undecodable file is recorded, or the record fails.
ReceiveDecodeFailure(a) ==
    \/ /\ undecoded' = [undecoded EXCEPT ![a] = ocrPass.row[a]]
       /\ accounted' = accounted \cup {a} /\ UNCHANGED ocrPass
    \/ /\ ocrPass' = [ocrPass EXCEPT !.writeError = TRUE, !.aborted = TRUE]
       /\ UNCHANGED <<undecoded, accounted>>

\* Mutant: a fatal outcome is drained like the others while the job is cancelled.
IsFatal_Uncancelled(outcome) == outcome.kind = "fatal" /\ ~ocrCancel

IsFatal(outcome) == outcome.kind = "fatal"

\* One outcome; while stopping, everything but a fatal one is drained.
CoordinatorReceives ==
    /\ ocrPass.pc = "receive" /\ outcomeQueue # <<>>
    /\ outcomeQueue' = Tail(outcomeQueue)
    /\ LET outcome == Head(outcomeQueue) IN
       IF outcome.kind = "fatal"
       THEN /\ ocrPass' = [ocrPass EXCEPT !.fatal = @ \/ IsFatal(outcome), !.aborted = @ \/ IsFatal(outcome)]
            /\ UNCHANGED <<undecoded, texts, ocrPending, ocrIndexed, accounted>>
       ELSE IF OcrStopping THEN UNCHANGED <<ocrPass, undecoded, texts, ocrPending, ocrIndexed, accounted>>
       ELSE \/ outcome.kind = "success" /\ ReceiveText(outcome) /\ UNCHANGED undecoded
            \/ /\ outcome.kind = "decode" /\ ReceiveDecodeFailure(outcome.image)
               /\ UNCHANGED <<texts, ocrPending, ocrIndexed>>
            \/ /\ outcome.kind = "item" /\ accounted' = accounted \cup {outcome.image}
               /\ UNCHANGED <<ocrPass, undecoded, texts, ocrPending, ocrIndexed>>
    /\ UNCHANGED <<ocrFile, ocrRow, ocrWorker, decodedQueue, ocrCancel, panicked>>

\* Mutant: the coordinator keeps the sender it cloned for the workers.
SendersGone_Kept == FALSE

\* Every sender of the outcome channel has been dropped.
SendersGone == ~Running(OcrWorkers)

\* Mutant: a cancelled pass returns without the last chunk.
LastChunk_Cancelled == IF ocrCancel THEN <<>> ELSE ocrPending

LastChunk == ocrPending

\* The loop ends, the workers are joined; without an error the last chunk is
\* committed, also after a cancellation.
CoordinatorJoins ==
    /\ ocrPass.pc = "receive" /\ outcomeQueue = <<>> /\ SendersGone
    /\ IF OcrStopping \/ LastChunk = <<>>
       THEN ocrPass' = [ocrPass EXCEPT !.pc = "done"] /\ UNCHANGED <<texts, ocrIndexed, accounted>>
       ELSE \E saved \in BOOLEAN :
               /\ FlushChunk(LastChunk, saved)
               /\ ocrPass' = [ocrPass EXCEPT !.pc = "done", !.writeError = ~saved]
    /\ UNCHANGED <<ocrFile, ocrRow, undecoded, ocrWorker, decodedQueue, outcomeQueue, ocrPending,
                   ocrCancel, panicked>>

\* The stage returns; what is left in the channels is dropped with them.
OcrReturns ==
    /\ ocrPass.pc = "done"
    /\ ocrPass' = [pc |-> "idle", passes |-> ocrPass.passes]
    /\ decodedQueue' = <<>> /\ ocrPending' = <<>>
    /\ UNCHANGED <<ocrFile, ocrRow, undecoded, texts, ocrWorker, outcomeQueue, ocrCancel, ocrIndexed,
                   accounted, panicked>>

OcrSteps ==
    \/ CoordinatorReceives \/ CoordinatorJoins \/ OcrReturns
    \/ \E w \in Decoders : ClaimImage(w) \/ DecodeOne(w) \/ PassDecoded(w)
    \/ \E w \in Replicas : TakeDecoded(w) \/ ScanAsset(w)
    \/ \E w \in OcrWorkers : ReportOutcome(w)

\* The library changes under the pass, and the next scan catalogs it.
OcrFileChanges(a) ==
    /\ ocrFile[a] > 0
    /\ \E v \in {0, ocrFile[a] + 1} : v <= MaxOcrVersion /\ ocrFile' = [ocrFile EXCEPT ![a] = v]
    /\ UNCHANGED <<ocrRow, undecoded, texts, ocrPass, ocrWorker, decodedQueue, outcomeQueue,
                   ocrPending, ocrCancel, ocrIndexed, accounted, panicked>>

OcrCataloged(a) ==
    /\ ocrPass.pc = "idle" /\ ocrFile[a] > 0
    /\ ocrRow' = [ocrRow EXCEPT ![a] = ocrFile[a]]
    /\ UNCHANGED <<ocrFile, undecoded, texts, ocrPass, ocrWorker, decodedQueue, outcomeQueue,
                   ocrPending, ocrCancel, ocrIndexed, accounted, panicked>>

CancelOcr ==
    /\ ocrPass.pc # "idle" /\ ~ocrCancel
    /\ ocrCancel' = TRUE
    /\ UNCHANGED <<ocrFile, ocrRow, undecoded, texts, ocrPass, ocrWorker, decodedQueue,
                   outcomeQueue, ocrPending, ocrIndexed, accounted, panicked>>

OcrNext ==
    \/ OcrSteps \/ CancelOcr
    \/ \E w \in OcrWorkers : WorkerPanics(w)
    \/ \E rescan, retry \in BOOLEAN : StartOcr(rescan, retry)
    \/ \E a \in OcrEdited : OcrFileChanges(a) \/ OcrCataloged(a)

OcrSpec == OcrInit /\ [][OcrNext]_ocrVars

-----------------------------------------------------------------------------
(* Correctness.                                                             *)

\* Text that counts as current for the file on disk was read from that file,
\* though nothing is compared again after the decode.
TextCurrent ==
    \A a \in OcrImages : texts[a].fp # 0 /\ texts[a].fp = ocrFile[a] => texts[a].seen = ocrFile[a]

\* "A reader that acts on the count always finds the rows behind it", also
\* when a chunk fails to commit.
IndexedIsDurable ==
    ocrPass.pc # "idle" =>
        ocrIndexed <= Cardinality({a \in accounted : texts[a].fp = ocrPass.row[a]})

\* "Cancellation stops early with committed results retained": of a pass that
\* returns without an error every image is saved or reported; one that was
\* cancelled has saved every text its coordinator received.
OcrPassCovers ==
    ocrPass.pc = "done" /\ ~OcrStopping =>
        IF ocrCancel THEN \A k \in DOMAIN ocrPending : ocrPending[k].image \in accounted
        ELSE accounted = OcrImages

\* "The run can no longer be complete, so it stops and reports": a worker that
\* died fails the pass, wherever its report met the other outcomes.
PanicReported == ocrPass.pc = "done" /\ panicked => OcrStopping

\* Bounded channels, panics and cancellations strand no thread.
OcrEnds == ocrPass.pc # "idle" ~> ocrPass.pc = "idle"

\* Texts are of the file on disk, counted only when they are committed, and a
\* pass without an error has read or reported every image, although decoders,
\* replicas and the coordinator meet only in two bounded channels.
TextsRecognized == TextCurrent /\ IndexedIsDurable /\ OcrPassCovers /\ PanicReported

-----------------------------------------------------------------------------
(* The inductive invariant.                                                 *)

OcrWork == [image : OcrImages, seen : Nat]
OcrOutcomes == [kind : {"fatal"}] \cup [kind : {"decode"}, image : OcrImages]
               \cup [kind : {"success", "item"}, image : OcrImages, seen : Nat]
OcrWorkerStates ==
    [pc : {"claim", "take", "ended"}] \cup [pc : {"decode"}, image : OcrImages]
    \cup [pc : {"pass", "infer"}, work : OcrWork] \cup [pc : {"report"}, outcome : OcrOutcomes]
OcrPasses ==
    [pc : {"receive", "done"}, passes : Nat, sources : Seq(OcrImages), next : Nat \ {0},
     row : [OcrImages -> Nat], fatal : BOOLEAN, writeError : BOOLEAN, aborted : BOOLEAN]

\* Type invariant; threads and channels are those of a pass.
OcrTypeOK ==
    /\ ocrFile \in [OcrImages -> Nat] /\ ocrRow \in [OcrImages -> Nat]
    /\ undecoded \in [OcrImages -> Nat] /\ texts \in [OcrImages -> [fp : Nat, seen : Nat]]
    /\ ocrPass \in [pc : {"idle"}, passes : Nat] \cup OcrPasses
    /\ ocrWorker \in [OcrWorkers -> OcrWorkerStates]
    /\ decodedQueue \in Seq(OcrWork) /\ outcomeQueue \in Seq(OcrOutcomes)
    /\ ocrPending \in Seq([kind : {"success"}, image : OcrImages, seen : Nat])
    /\ ocrCancel \in BOOLEAN /\ ocrIndexed \in Nat /\ accounted \subseteq OcrImages /\ panicked \in BOOLEAN
    /\ ocrPass.pc # "receive" => ocrWorker = OcrJoined /\ outcomeQueue = <<>>
    /\ ocrPass.pc = "idle" => decodedQueue = <<>> /\ ocrPending = <<>>
    /\ ocrPass.pc = "receive" => (ocrPass.aborted <=> OcrStopping)

\* What was read of an image is no older than its fingerprint, and no newer
\* than the file, if there still is one.
NoNewer(image, version) == ocrFile[image] = 0 \/ version <= ocrFile[image]
WasRead(item) == ocrPass.row[item.image] <= item.seen /\ NoNewer(item.image, item.seen)

WorkerRead(r) ==
    /\ r.pc \in {"pass", "infer"} => WasRead(r.work)
    /\ r.pc = "report" /\ r.outcome.kind = "success" => WasRead(r.outcome)

ReadInv ==
    /\ \A a \in OcrImages : NoNewer(a, ocrRow[a]) /\ texts[a].fp <= texts[a].seen /\ NoNewer(a, texts[a].seen)
    /\ ocrPass.pc # "idle" =>
           /\ \A a \in OcrImages : NoNewer(a, ocrPass.row[a])
           /\ \A w \in OcrWorkers : WorkerRead(ocrWorker[w])
           /\ \A k \in DOMAIN decodedQueue : WasRead(decodedQueue[k])
           /\ \A k \in DOMAIN outcomeQueue : outcomeQueue[k].kind = "success" => WasRead(outcomeQueue[k])
           /\ \A k \in DOMAIN ocrPending : WasRead(ocrPending[k])

\* Where the images of a pass are.
ToClaim == {ocrPass.sources[k] : k \in ocrPass.next .. Len(ocrPass.sources)}
InHand(r) ==
    IF r.pc = "decode" THEN {r.image} ELSE IF r.pc \in {"pass", "infer"} THEN {r.work.image}
    ELSE IF r.pc = "report" /\ r.outcome.kind # "fatal" THEN {r.outcome.image} ELSE {}
InHands == UNION {InHand(ocrWorker[w]) : w \in OcrWorkers}
Named(items) == {items[k].image : k \in DOMAIN items}
Once(items) == \A k, j \in DOMAIN items : k # j => items[k].image # items[j].image
\* The outcomes that are about an image.
About(items) == {k \in DOMAIN items : items[k].kind # "fatal"}
Reported == {outcomeQueue[k].image : k \in About(outcomeQueue)}
OnceReported == \A k, j \in About(outcomeQueue) : k # j => outcomeQueue[k].image # outcomeQueue[j].image
FatalQueued == \E k \in DOMAIN outcomeQueue : outcomeQueue[k].kind = "fatal"
OnceInHand == \A w, x \in OcrWorkers : w # x => InHand(ocrWorker[w]) \cap InHand(ocrWorker[x]) = {}
OnceToClaim ==
    \A k, j \in ocrPass.next .. Len(ocrPass.sources) : k # j => ocrPass.sources[k] # ocrPass.sources[j]

\* An image of a pass is in one place at most.
OnceInv ==
    /\ OnceToClaim /\ OnceInHand /\ Once(decodedQueue) /\ OnceReported /\ Once(ocrPending)
    /\ ToClaim \cap (InHands \cup Named(decodedQueue) \cup Reported \cup Named(ocrPending) \cup accounted) = {}
    /\ InHands \cap (Named(decodedQueue) \cup Reported \cup Named(ocrPending) \cup accounted) = {}
    /\ Named(decodedQueue) \cap (Reported \cup Named(ocrPending) \cup accounted) = {}
    /\ Reported \cap (Named(ocrPending) \cup accounted) = {}
    /\ Named(ocrPending) \cap accounted = {}

\* The news of a dead worker, on its way to the coordinator.
FatalAhead ==
    \/ \E w \in OcrWorkers : ocrWorker[w].pc = "report" /\ ocrWorker[w].outcome.kind = "fatal"
    \/ FatalQueued

\* And in one place at least, while nothing broke; threads that ended then had
\* nothing left to do.
Unbroken == ~ocrCancel /\ ~ocrPass.aborted /\ ~FatalAhead
NoneLostInv ==
    /\ OcrImages \subseteq ToClaim \cup InHands \cup Named(decodedQueue) \cup Reported \cup Named(ocrPending) \cup accounted
    /\ (\E w \in Decoders : ocrWorker[w].pc = "ended") => ToClaim = {}
    /\ (\E w \in Replicas : ocrWorker[w].pc = "ended") => decodedQueue = <<>> /\ ~Running(Decoders)

DoneInv ==
    ocrPass.pc = "done" /\ ~OcrStopping => Named(ocrPending) \subseteq accounted /\ (ocrCancel \/ accounted = OcrImages)

OcrInv ==
    /\ OcrTypeOK /\ ReadInv /\ IndexedIsDurable /\ DoneInv
    /\ ocrPass.pc = "receive" => OnceInv /\ (Unbroken => NoneLostInv)
    /\ ocrPass.pc # "idle" /\ panicked => FatalAhead \/ OcrStopping
===============================================================================
