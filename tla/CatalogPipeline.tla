--------------------------- MODULE CatalogPipeline ---------------------------
(***************************************************************************)
(* catalog_files: the files of one listing, photos first, get their rows in   *)
(* batches, while a small pool probes the videos ahead of the catalog thread. *)
(* Files change and vanish, the job is cancelled, the pool or a transaction   *)
(* fails.  An edition of a file stands for its fingerprint and its contents;  *)
(* a file that comes back does so with a new one.  Beside it, the inspector   *)
(* reads the metadata of a file for the row it was asked about.               *)
(***************************************************************************)
EXTENDS Integers, Sequences, FiniteSetsExt, SequencesExt

CONSTANTS
    MediaListing,       \* the files collect_files found, in its order
    CatalogVideos,      \* those with the extension of a video
    ZeroSized,          \* <<file, edition>> whose header gives a width or height of zero
    Unprobed,           \* <<file, edition>> no probe can read
    MediaEdited,        \* bound: the files that change
    MaxEdition,         \* bound: editions of a file
    ProbeWorkers,       \* CATALOG_VIDEO_PROBE_WORKERS
    ProbeBacklog,       \* CATALOG_VIDEO_PROBE_BACKLOG
    CommitChunk,        \* CATALOG_COMMIT_CHUNK_SIZE
    MaxCatalogPasses    \* bound

MediaFiles == Range(MediaListing)

ASSUME CatalogAssumption == CatalogVideos \subseteq MediaFiles

VARIABLES
    media,              \* file -> [edition, seen]: "there"; "undated", there but modified
                        \* before 1970, so without a fingerprint; "gone"; "denied", stat fails
    mediaRow,           \* the catalog: file -> [stamp, probed, created, latest]
    cataloger,          \* the catalog thread
    prober,             \* the probe coordinator, its pool and its two channels
    inspector           \* GET /v1/catalog/metadata

catalogVars == <<media, mediaRow, cataloger, prober, inspector>>

\* stamp: the fingerprint; probed: the edition its dimensions come from, 0 for
\* nulls; created: source_created_ns is filled in; latest: metadata_version.
NoMedia == [stamp |-> 0, probed |-> 0, created |-> FALSE, latest |-> FALSE]
Fresh(stamp, probed) == [stamp |-> stamp, probed |-> probed, created |-> TRUE, latest |-> TRUE]

\* Rows of older versions of the program: without creation time, or with the
\* metadata of an older probe.
Inherited == {NoMedia, [Fresh(1, 1) EXCEPT !.created = FALSE], [Fresh(1, 0) EXCEPT !.latest = FALSE]}

\* stamps: the fingerprints of the candidates, 0 for a file that is none; got:
\* what their probes brought, -1 before; reading: the edition read inline.
PassAt(at, passes) ==
    [at |-> at, passes |-> passes, n |-> 1, stamps |-> [f \in MediaFiles |-> 0], got |-> [f \in MediaFiles |-> -1],
     reading |-> 0, prepared |-> <<>>, out |-> <<>>, complete |-> TRUE, cancelled |-> FALSE,
     failed |-> FALSE, fault |-> FALSE, before |-> media, ended |-> "no"]
NoProber == [at |-> "off", todo |-> <<>>, next |-> 1, flying |-> 0, spawned |-> {}, active |-> {},
             inner |-> <<>>, outer |-> <<>>, taken |-> 0, broke |-> FALSE]
NotInspecting == [at |-> "idle"]

CatalogInit ==
    /\ media = [f \in MediaFiles |-> [edition |-> 1, seen |-> "there"]]
    /\ mediaRow \in {r \in [MediaFiles -> Inherited] : \A f \in MediaFiles \ CatalogVideos : r[f].latest \/ r[f] = NoMedia}
    /\ cataloger = PassAt("idle", 0) /\ prober = NoProber /\ inspector = NotInspecting

IsVideo(f) == f \in CatalogVideos
VideoFiles == SelectSeq(MediaListing, IsVideo)
Position(f) == CHOOSE i \in DOMAIN MediaListing : MediaListing[i] = f

\* Photos can be committed while videos are still being probed.
Ordered == SelectSeq(MediaListing, LAMBDA f : ~IsVideo(f)) \o VideoFiles

\* What probe_media, or probe_catalog, reads of a file now.
Probed(f) ==
    IF media[f].seen \in {"there", "undated"} /\ <<f, media[f].edition>> \notin Unprobed
    THEN media[f].edition ELSE 0

\* The row is current: same fingerprint, and the metadata version of its kind.
RowCurrent(f) == mediaRow[f].stamp = media[f].edition /\ mediaRow[f].latest

-----------------------------------------------------------------------------
(* Before the threads: the videos to probe, with the fingerprints they had.   *)

StartCatalog ==
    /\ cataloger.at = "idle" /\ cataloger.passes < MaxCatalogPasses
    /\ cataloger' = PassAt("candidates", cataloger.passes + 1)
    /\ prober' = NoProber
    /\ UNCHANGED <<media, mediaRow, inspector>>

\* An error before the threads returns at once.
GivenUp(why) == [cataloger EXCEPT !.at = "idle", !.ended = why]

\* A video whose metadata cannot be read is left to the catalog thread; one
\* without a fingerprint, or whose row cannot be looked up, fails the pass.
TakeCandidate ==
    /\ cataloger.at = "candidates" /\ UNCHANGED <<media, mediaRow, inspector>>
    /\ IF cataloger.cancelled \/ cataloger.n > Len(VideoFiles)
       THEN /\ cataloger' = [cataloger EXCEPT !.at = "files", !.n = 1]
            /\ prober' = [prober EXCEPT !.at = "started",
                          !.todo = SelectSeq(VideoFiles, LAMBDA f : cataloger.stamps[f] # 0)]
       ELSE LET f == VideoFiles[cataloger.n] IN
            /\ UNCHANGED prober
            /\ \/ /\ media[f].seen # "undated"
                  /\ cataloger' = [cataloger EXCEPT !.n = @ + 1,
                                   !.stamps[f] = IF media[f].seen = "there" /\ ~RowCurrent(f)
                                                 THEN media[f].edition ELSE 0]
               \/ media[f].seen = "undated" /\ cataloger' = GivenUp("undated")
               \/ media[f].seen = "there" /\ cataloger' = [GivenUp("failed") EXCEPT !.fault = TRUE]

-----------------------------------------------------------------------------
(* The probe threads.                                                       *)

MinOf(x, y) == IF x < y THEN x ELSE y

\* fill_catalog_video_probes: spawn up to the backlog.
Filled(p) ==
    LET more == MinOf(ProbeBacklog - p.flying, Len(p.todo) - p.next + 1) IN
    [p EXCEPT !.next = @ + more, !.flying = @ + more,
     !.spawned = @ \cup {p.todo[i] : i \in p.next .. p.next + more - 1}]

\* The pool starts, or its threads cannot be created.
ProberStarts ==
    /\ prober.at = "started" /\ UNCHANGED <<media, mediaRow, inspector>>
    /\ \/ prober' = [Filled(prober) EXCEPT !.at = IF prober.todo = <<>> THEN "gone" ELSE "running"]
          /\ UNCHANGED cataloger
       \/ /\ prober.todo # <<>> /\ prober' = [prober EXCEPT !.at = "gone", !.broke = TRUE]
          /\ cataloger' = [cataloger EXCEPT !.fault = TRUE]

\* One thread of the pool waits on the channel, as the coordinator.
PoolThreads_NoSpare == ProbeWorkers
PoolThreads == ProbeWorkers + 1

AbortProbes == cataloger.cancelled \/ cataloger.failed

ProbeTakes(f) ==
    /\ f \in prober.spawned /\ Cardinality(prober.active) + 1 < PoolThreads
    /\ prober' = IF AbortProbes
                 THEN [prober EXCEPT !.spawned = @ \ {f}, !.inner = Append(@, <<f, 0>>)]
                 ELSE [prober EXCEPT !.spawned = @ \ {f}, !.active = @ \cup {f}]
    /\ UNCHANGED <<media, mediaRow, cataloger, inspector>>

ProbeReads(f) ==
    /\ f \in prober.active
    /\ prober' = [prober EXCEPT !.active = @ \ {f}, !.inner = Append(@, <<f, Probed(f)>>)]
    /\ UNCHANGED <<media, mediaRow, cataloger, inspector>>

AllTaken_ButOne(p) == p.taken >= Len(p.todo) - 1
AllTaken(p) == p.taken = Len(p.todo)

\* run_catalog_video_probes: hand a result on and spawn the next.
CoordinatorPasses ==
    /\ prober.at = "running" /\ prober.inner # <<>>
    /\ LET p == Filled([prober EXCEPT !.flying = @ - 1, !.inner = Tail(@), !.taken = @ + 1,
                                      !.outer = Append(@, Head(prober.inner))])
       IN prober' = [p EXCEPT !.at = IF AllTaken(p) THEN "gone" ELSE @]
    /\ UNCHANGED <<media, mediaRow, cataloger, inspector>>

-----------------------------------------------------------------------------
(* The catalog thread.                                                      *)

Current == Ordered[cataloger.n]
Awaited == cataloger.stamps[Current] # 0 /\ cataloger.got[Current] = -1

\* The wait for the probe of this video; whatever arrives is kept.
ReceiveProbe ==
    /\ cataloger.at = "files" /\ Awaited /\ UNCHANGED <<media, mediaRow, inspector>>
    /\ \/ /\ prober.outer # <<>>
          /\ cataloger' = [cataloger EXCEPT !.got[Head(prober.outer)[1]] = Head(prober.outer)[2]]
          /\ prober' = [prober EXCEPT !.outer = Tail(@)]
       \/ /\ prober.outer = <<>> /\ prober.at = "gone"
          /\ cataloger' = [cataloger EXCEPT !.failed = TRUE, !.at = "joining"]
          /\ UNCHANGED prober

\* The next file, or the transaction of the chunk.
ChunkEnds(n) == n % CommitChunk = 0 \/ n = Len(Ordered)
Onward(c) == IF ChunkEnds(c.n) THEN [c EXCEPT !.at = "storing"] ELSE [c EXCEPT !.at = "files", !.n = @ + 1]

Readied(c, kind, row) ==
    Onward([c EXCEPT !.prepared = Append(@, [file |-> Current, kind |-> kind, row |-> row])])

\* Its cancellation is looked at after the wait, so a probe that was skipped
\* for the cancellation is never taken for an unreadable file.
Leaves_BeforeTheWait == cataloger.cancelled /\ cataloger.stamps[Current] = 0
Leaves == cataloger.cancelled

\* A probe counts when the file still is what the probe was asked to read.
Usable_Always(f) == cataloger.got[f] # -1
Usable(f) == cataloger.got[f] # -1 /\ cataloger.stamps[f] = media[f].edition

\* A file without a fingerprint, or whose row cannot be looked up, is an error
\* of that item here.
CatalogFile ==
    /\ cataloger.at = "files" /\ ~Awaited /\ UNCHANGED <<media, mediaRow, prober, inspector>>
    /\ LET f == Current
           reported == Onward([cataloger EXCEPT !.complete = FALSE])
       IN
       \/ cataloger' =
           CASE Leaves -> [cataloger EXCEPT !.at = "storing"]
             [] ~Leaves /\ media[f].seen = "gone" -> Onward(cataloger)
             [] ~Leaves /\ media[f].seen \in {"denied", "undated"} -> reported
             [] ~Leaves /\ media[f].seen = "there" /\ RowCurrent(f) ->
                    Readied(cataloger, IF mediaRow[f].created THEN "unchanged" ELSE "created",
                            [mediaRow[f] EXCEPT !.created = TRUE])
             [] ~Leaves /\ media[f].seen = "there" /\ ~RowCurrent(f) /\ Usable(f) ->
                    Readied(cataloger, "changed", Fresh(media[f].edition, cataloger.got[f]))
             [] OTHER -> [cataloger EXCEPT !.at = "probing", !.reading = media[f].edition]
       \/ ~Leaves /\ media[f].seen = "there" /\ cataloger' = reported

\* A photo, or a video that changed since its candidate probe, is read here,
\* after its metadata was.
ProbeInline ==
    /\ cataloger.at = "probing" /\ UNCHANGED <<media, mediaRow, prober, inspector>>
    /\ cataloger' = Readied(cataloger, "changed", Fresh(cataloger.reading, Probed(Current)))

\* CHECK(width > 0) and CHECK(height > 0) of the assets table.
Refused(batch) == \E i \in DOMAIN batch : batch[i].kind = "changed" /\ <<batch[i].file, batch[i].row.probed>> \in ZeroSized

NextChunk(c) ==
    IF c.cancelled \/ c.n = Len(Ordered) THEN [c EXCEPT !.at = "joining"]
    ELSE [c EXCEPT !.at = "files", !.n = @ + 1]

\* store_prepared_batch: a batch of unchanged rows writes nothing.
StoreBatch ==
    /\ cataloger.at = "storing" /\ UNCHANGED <<media, prober, inspector>>
    /\ LET batch == cataloger.prepared
           writes == \E i \in DOMAIN batch : batch[i].kind # "unchanged"
       IN \/ /\ batch = <<>> /\ cataloger' = NextChunk(cataloger) /\ UNCHANGED mediaRow
          \/ /\ batch # <<>> /\ ~Refused(batch)
             /\ mediaRow' = [f \in MediaFiles |->
                    IF \E i \in DOMAIN batch : batch[i].file = f
                    THEN (CHOOSE b \in Range(batch) : b.file = f).row ELSE mediaRow[f]]
             /\ cataloger' = NextChunk([cataloger EXCEPT !.prepared = <<>>, !.out = @ \o batch])
          \/ /\ writes /\ Refused(batch) /\ UNCHANGED mediaRow
             /\ cataloger' = [cataloger EXCEPT !.at = "joining", !.failed = TRUE]
          \/ /\ writes /\ UNCHANGED mediaRow        \* the database fails
             /\ cataloger' = [cataloger EXCEPT !.at = "joining", !.failed = TRUE, !.fault = TRUE]

CountsComplete_Cancelled(c) == c.complete
CountsComplete(c) == c.complete /\ ~c.cancelled

\* Abort, join the probes, and give the rows the order of the listing.
EndCatalog ==
    /\ cataloger.at = "joining" /\ prober.at = "gone" /\ UNCHANGED <<media, mediaRow, prober, inspector>>
    /\ cataloger' = [cataloger EXCEPT !.at = "idle",
                     !.out = SortSeq(@, LAMBDA a, b : Position(a.file) < Position(b.file)),
                     !.complete = CountsComplete(cataloger),
                     !.ended = IF cataloger.failed \/ prober.broke THEN "failed" ELSE "ok"]

CancelCatalog ==
    /\ cataloger.at # "idle" /\ ~cataloger.cancelled
    /\ cataloger' = [cataloger EXCEPT !.cancelled = TRUE]
    /\ UNCHANGED <<media, mediaRow, prober, inspector>>

-----------------------------------------------------------------------------
(* The inspector: the row, then its file, which may change meanwhile.         *)

SourceIs(f, stamp) == media[f].seen = "there" /\ media[f].edition = stamp

InspectRow(f) ==
    /\ inspector.at = "idle" /\ mediaRow[f] # NoMedia
    /\ inspector' = [at |-> "stat", file |-> f, asked |-> mediaRow[f].stamp, shown |-> 0]
    /\ UNCHANGED <<media, mediaRow, cataloger, prober>>

\* EXIF of a changed source is not combined with the dates of the catalog.
InspectStat ==
    /\ inspector.at = "stat"
    /\ inspector' = [inspector EXCEPT !.at = IF SourceIs(inspector.file, inspector.asked) THEN "read" ELSE "shown"]
    /\ UNCHANGED <<media, mediaRow, cataloger, prober>>

InspectRead ==
    /\ inspector.at = "read"
    /\ inspector' = [inspector EXCEPT !.at = "recheck", !.shown = Probed(inspector.file)]
    /\ UNCHANGED <<media, mediaRow, cataloger, prober>>

Rechecked_Not == inspector.shown
Rechecked == IF SourceIs(inspector.file, inspector.asked) THEN inspector.shown ELSE 0

InspectAgain ==
    /\ inspector.at = "recheck"
    /\ inspector' = [inspector EXCEPT !.at = "shown", !.shown = Rechecked]
    /\ UNCHANGED <<media, mediaRow, cataloger, prober>>

InspectorAnswers ==
    /\ inspector.at = "shown" /\ inspector' = NotInspecting
    /\ UNCHANGED <<media, mediaRow, cataloger, prober>>

-----------------------------------------------------------------------------
MediaChanges(f) ==
    /\ f \in MediaEdited
    /\ \/ media[f].edition < MaxEdition /\ media' = [media EXCEPT ![f] = [edition |-> @.edition + 1, seen |-> "there"]]
       \/ media[f].seen = "there" /\ \E s \in {"gone", "denied", "undated"} : media' = [media EXCEPT ![f].seen = s]
    /\ UNCHANGED <<mediaRow, cataloger, prober, inspector>>

CatalogSteps ==
    \/ TakeCandidate \/ ProberStarts \/ CoordinatorPasses \/ ReceiveProbe
    \/ CatalogFile \/ ProbeInline \/ StoreBatch \/ EndCatalog
    \/ \E f \in CatalogVideos : ProbeTakes(f) \/ ProbeReads(f)

CatalogNext ==
    \/ StartCatalog \/ CatalogSteps \/ CancelCatalog
    \/ InspectStat \/ InspectRead \/ InspectAgain \/ InspectorAnswers
    \/ \E f \in MediaFiles : InspectRow(f) \/ MediaChanges(f)

CatalogSpec == CatalogInit /\ [][CatalogNext]_catalogVars

-----------------------------------------------------------------------------
(* Properties.                                                              *)

\* A current row of a readable file holds what a probe of that very file reads:
\* neither a probe skipped for a cancellation, nor one of an older or a newer
\* edition, is ever stored under its fingerprint, where no later scan looks.
RowsAreProbed ==
    \A f \in MediaFiles :
        RowCurrent(f) /\ media[f].seen = "there" /\ <<f, media[f].edition>> \notin Unprobed
        => mediaRow[f].probed = media[f].edition

\* A pass that counts as complete returns, in the order of the listing, every
\* file that stayed as it was, with an up-to-date row; a caller deletes rows on
\* the strength of it.
CompletePassCatalogs ==
    cataloger.at = "idle" /\ cataloger.passes > 0 /\ cataloger.ended = "ok" /\ cataloger.complete =>
        LET returned == [i \in DOMAIN cataloger.out |-> cataloger.out[i].file]
            stayed(f) == media[f].seen = "there" /\ cataloger.before[f] = media[f]
        IN /\ SelectSeq(returned, stayed) = SelectSeq(MediaListing, stayed)
           /\ \A f \in MediaFiles : stayed(f) => RowCurrent(f) /\ mediaRow[f].created

\* "Optional media probing failures produce nullable metadata rather than
\* dropping the asset": whatever a file is or does, it fails no pass, but for a
\* video without a fingerprint, which fails it before anything is cataloged.
FilesNeverFailPass == cataloger.passes > 0 /\ cataloger.at = "idle" /\ cataloger.ended = "failed" => cataloger.fault

\* What the inspector shows of a file is of the edition its row describes.
ShownIsOfRow == inspector.at = "shown" /\ inspector.shown # 0 => inspector.shown = inspector.asked

\* A pass ends although its catalog thread waits for probes, its probes for a
\* bounded backlog, and either may fail or be cancelled.
CatalogEnds == cataloger.at # "idle" ~> cataloger.at = "idle"

\* Rows hold what a probe of their edition reads, a complete pass has a row of
\* every file, and no file fails it but a video without a fingerprint, while
\* probes run ahead of the catalog thread and files change under both; the
\* inspector shows what rows describe.
CatalogIsTrue == RowsAreProbed /\ CompletePassCatalogs /\ FilesNeverFailPass /\ ShownIsOfRow

-----------------------------------------------------------------------------
(* What every step keeps.                                                   *)

MediaRows == [stamp : Nat, probed : Nat, created : BOOLEAN, latest : BOOLEAN]
ProbeResults == Seq(MediaFiles \X Nat)

CatalogerFields ==
    {"at", "passes", "n", "stamps", "got", "reading", "prepared", "out", "complete", "cancelled",
     "failed", "fault", "before", "ended"}
ProberFields == {"at", "todo", "next", "flying", "spawned", "active", "inner", "outer", "taken", "broke"}

\* What of the catalog thread and of the probes decides the metadata of a row.
CatalogTypeOK ==
    /\ media \in [MediaFiles -> [edition : Nat \ {0}, seen : {"there", "undated", "gone", "denied"}]]
    /\ mediaRow \in [MediaFiles -> MediaRows]
    /\ DOMAIN cataloger = CatalogerFields /\ DOMAIN prober = ProberFields
    /\ cataloger.at \in {"idle", "candidates", "files", "probing", "storing", "joining"}
    /\ cataloger.stamps \in [MediaFiles -> Nat] /\ cataloger.got \in [MediaFiles -> Nat \cup {-1}]
    /\ cataloger.prepared \in Seq(Range(cataloger.prepared))
    /\ prober.inner \in ProbeResults /\ prober.outer \in ProbeResults

\* The file still is the edition of a stamp, and it can be read.
Readable(f, stamp) == media[f].seen = "there" /\ media[f].edition = stamp /\ <<f, stamp>> \notin Unprobed

\* The row holds what a probe of its edition reads, unless it is of an older one.
RowTrue(f, row) ==
    /\ row \in MediaRows /\ row.stamp <= media[f].edition
    /\ row.latest /\ Readable(f, row.stamp) => row.probed = row.stamp

\* A result is of the edition of the candidate, unless the pass is given up.
ResultTrue(f, probed) ==
    cataloger.cancelled \/ cataloger.failed \/ (Readable(f, cataloger.stamps[f]) => probed = cataloger.stamps[f])

RowsTrue ==
    /\ \A f \in MediaFiles : RowTrue(f, mediaRow[f])
    /\ \A i \in DOMAIN cataloger.prepared :
           cataloger.prepared[i].file \in MediaFiles => RowTrue(cataloger.prepared[i].file, cataloger.prepared[i].row)

ResultsTrue ==
    /\ \A i \in DOMAIN prober.inner : ResultTrue(prober.inner[i][1], prober.inner[i][2])
    /\ \A i \in DOMAIN prober.outer : ResultTrue(prober.outer[i][1], prober.outer[i][2])
    /\ \A f \in MediaFiles : cataloger.got[f] # -1 => ResultTrue(f, cataloger.got[f])

\* Probes begin once the candidates have their fingerprints, and a pass that
\* failed catalogs no more.
ProbesFollow ==
    /\ \A f \in MediaFiles : cataloger.stamps[f] <= media[f].edition
    /\ cataloger.at = "candidates" => prober = NoProber /\ \A f \in MediaFiles : cataloger.got[f] = -1
    /\ cataloger.failed => cataloger.at \in {"joining", "idle"}
    /\ cataloger.at = "probing" /\ Current \in MediaFiles =>
           cataloger.reading \in Nat /\ cataloger.reading <= media[Current].edition

\* What the inspector read is of an edition from that of its row to the file's.
InspectionFits ==
    \/ inspector = NotInspecting
    \/ /\ inspector \in [at : {"stat", "read", "recheck", "shown"}, file : MediaFiles, asked : Nat, shown : Nat]
       /\ inspector.asked <= media[inspector.file].edition
       /\ inspector.at \in {"stat", "read"} => inspector.shown = 0
       /\ inspector.at = "recheck" /\ inspector.shown # 0 =>
              inspector.asked <= inspector.shown /\ inspector.shown <= media[inspector.file].edition
       /\ inspector.at = "shown" /\ inspector.shown # 0 => inspector.shown = inspector.asked

CatalogInv == CatalogTypeOK /\ RowsTrue /\ ResultsTrue /\ ProbesFollow /\ InspectionFits
===============================================================================
