----------------------------- MODULE GalleryView -----------------------------
(***************************************************************************)
(* What the desktop shows of the catalog.  A window polls the revision and    *)
(* lists its library again when it moved; the details of an asset, a batch of *)
(* assets and a thumbnail are put together from several statements on several *)
(* databases, without a snapshot, while a scan stores its batches, jobs save  *)
(* what they derived, rows are deleted, files change and the library is       *)
(* edited.  An edition of a file stands for its fingerprint; a later edition  *)
(* has the later modification time.                                          *)
(***************************************************************************)
EXTENDS Integers, Sequences, SequencesExt

CONSTANTS
    GalleryPaths,       \* the files
    GalleryFolders,     \* the folders they lie in
    FolderHolding,      \* path -> its folder
    LinkSpelling,       \* spellings through a link -> the canonical path
    GalleryEditions,    \* bound: editions of a file
    GalleryIds,         \* bound: identifiers given out
    GalleryChanges,     \* bound: steps of the writers, the user and the files
    Buckets             \* SIZE_BUCKETS

ASSUME GalleryAssumption ==
    /\ GalleryEditions \in Nat \ {0} /\ GalleryIds \in Nat \ {0}
    /\ IsFiniteSet(Buckets) /\ Buckets \subseteq Nat \ {0}
    /\ LinkSpelling \in [DOMAIN LinkSpelling -> GalleryPaths]

VARIABLES
    source,             \* path -> edition on disk, 0 when there is no file
    assetRow,           \* path -> [id, edition, created]
    lastAsset,          \* sqlite_sequence: identifiers are never reused
    catalogRevision,    \* catalog_meta.revision
    preparedRows,       \* the batch catalog_files has prepared
    derivedRow,         \* id -> [text, worded, embedded, broken, vector, variants]: editions, 0 for none
    included,           \* the folders of the library
    window,             \* a window of the desktop
    asking,             \* a request for details
    changes             \* bound

galleryVars == <<source, assetRow, lastAsset, catalogRevision, preparedRows, derivedRow, included,
                 window, asking, changes>>
catalogRows == <<assetRow, lastAsset, catalogRevision>>
viewers == <<window, asking>>
settled == <<included, derivedRow, changes>>

NoAsset == [id |-> 0, edition |-> 0, created |-> FALSE]
NothingDerived == 
    [text |-> 0, worded |-> FALSE, embedded |-> 0, broken |-> 0, vector |-> 0, variants |-> [b \in Buckets |-> 0]]
\* A row from before the creation time was kept.
Upgraded == [id |-> 1, edition |-> 1, created |-> FALSE]
FreshWindow == [at |-> "idle", known |-> -1, next |-> -1, scope |-> {}, shown |-> <<>>]
\* A request, what was read for it so far, and what is answered.
NotAsking ==
    [at |-> "idle", kind |-> "none", assets |-> <<>>, missing |-> {}, states |-> <<>>, labels |-> <<>>, text |-> 0,
     failed |-> 0, textState |-> "none", embeddedOf |-> 0, imageIndexed |-> FALSE,
     id |-> 0, size |-> 0, path |-> "none", had |-> {}, stamp |-> 0, bucket |-> 0, served |-> 0]
NotFound == [NotAsking EXCEPT !.at = "answered", !.kind = "not_found"]
Describing(kind, assets, missing) ==
    [NotAsking EXCEPT !.at = "states", !.kind = kind, !.assets = assets, !.missing = missing]

GalleryInit ==
    /\ source = [p \in GalleryPaths |-> 1]
    /\ \/ assetRow = [p \in GalleryPaths |-> NoAsset] /\ lastAsset = 0
       \/ \E p \in GalleryPaths : lastAsset = 1 /\ assetRow = [q \in GalleryPaths |-> IF q = p THEN Upgraded ELSE NoAsset]
    /\ catalogRevision = 0 /\ preparedRows = <<>>
    /\ derivedRow = [i \in 1 .. GalleryIds |-> NothingDerived]
    /\ included \in SUBSET GalleryFolders \ {{}}
    /\ window = FreshWindow /\ asking = NotAsking /\ changes = 0

OneChange == changes < GalleryChanges /\ changes' = changes + 1

PathOf(id) == IF \E p \in GalleryPaths : assetRow[p].id = id
              THEN CHOOSE p \in GalleryPaths : assetRow[p].id = id ELSE "none"
RowOf(id) == IF PathOf(id) = "none" THEN NoAsset ELSE assetRow[PathOf(id)]

-----------------------------------------------------------------------------
(* The writers.                                                             *)

\* prepare_upsert_timed: the file and its row, before the transaction.
PrepareUpsert(p) ==
    /\ source[p] # 0 /\ \A i \in DOMAIN preparedRows : preparedRows[i].path # p
    /\ LET old == assetRow[p]
           kind == IF old.edition # source[p] THEN "changed" ELSE IF old.created THEN "unchanged" ELSE "metadata"
       IN preparedRows' = Append(preparedRows, [path |-> p, kind |-> kind, edition |-> source[p], id |-> old.id])
    /\ UNCHANGED <<source, catalogRows, settled, viewers>>

\* A new path gets the next identifier, in the order of the batch; the paths of
\* a batch differ.
NewRows(batch) == {i \in DOMAIN batch : batch[i].kind = "changed" /\ assetRow[batch[i].path] = NoAsset}
IdAfter(batch, i) ==
    IF i \in NewRows(batch) THEN lastAsset + Cardinality({j \in NewRows(batch) : j <= i}) ELSE assetRow[batch[i].path].id

\* The upsert keeps the identifier of the path; the creation time of an
\* unchanged file is an update of the row it was prepared from.
Upserted(batch, p) ==
    IF \E i \in DOMAIN batch : batch[i].kind = "changed" /\ batch[i].path = p
    THEN LET i == CHOOSE i \in DOMAIN batch : batch[i].kind = "changed" /\ batch[i].path = p
         IN [id |-> IdAfter(batch, i), edition |-> batch[i].edition, created |-> TRUE]
    ELSE IF \E i \in DOMAIN batch : batch[i].kind = "metadata" /\ batch[i].id = assetRow[p].id
         THEN [assetRow[p] EXCEPT !.created = TRUE] ELSE assetRow[p]

WritesRows_FilesOnly(batch) == \E i \in DOMAIN batch : batch[i].kind = "changed"
WritesRows(batch) == \E i \in DOMAIN batch : batch[i].kind # "unchanged"

\* store_prepared_batch: the rows and the revision in one transaction.
StorePrepared ==
    /\ preparedRows # <<>>
    /\ lastAsset' = lastAsset + Cardinality(NewRows(preparedRows)) /\ lastAsset' <= GalleryIds
    /\ assetRow' = [p \in GalleryPaths |-> Upserted(preparedRows, p)]
    /\ catalogRevision' = IF WritesRows(preparedRows) THEN catalogRevision + 1 ELSE catalogRevision
    /\ preparedRows' = <<>>
    /\ OneChange /\ UNCHANGED <<source, included, derivedRow, viewers>>

\* delete_assets, with the failures of the assets in the same transaction.
DeleteAssets(ids) ==
    /\ preparedRows = <<>> /\ ids # {}
    /\ LET gone == {p \in GalleryPaths : assetRow[p].id \in ids} IN
       /\ assetRow' = [p \in GalleryPaths |-> IF p \in gone THEN NoAsset ELSE assetRow[p]]
       /\ catalogRevision' = IF gone = {} THEN catalogRevision ELSE catalogRevision + 1
    /\ derivedRow' = [i \in DOMAIN derivedRow |-> IF i \in ids THEN [derivedRow[i] EXCEPT !.broken = 0] ELSE derivedRow[i]]
    /\ OneChange /\ UNCHANGED <<source, lastAsset, preparedRows, included, viewers>>

\* A job saves what it derived from the edition of the row it once read, or
\* removes it again; each database has its own transaction.
Derive(id) ==
    /\ id <= lastAsset /\ OneChange
    /\ \E e \in {s \in 1 .. GalleryEditions : \E p \in GalleryPaths : s <= source[p] \/ source[p] = 0} :
           \/ \E words \in BOOLEAN :
                  derivedRow' = [derivedRow EXCEPT ![id].text = e, ![id].worded = words, ![id].embedded = 0]
           \/ derivedRow' = [derivedRow EXCEPT ![id].embedded = derivedRow[id].text]
           \/ derivedRow' = [derivedRow EXCEPT ![id].broken = e]
           \/ derivedRow' = [derivedRow EXCEPT ![id].vector = e]
           \/ \E b \in Buckets : derivedRow' = [derivedRow EXCEPT ![id].variants[b] = e]
           \/ derivedRow' = [derivedRow EXCEPT ![id] = [NothingDerived EXCEPT !.broken = derivedRow[id].broken]]
    /\ UNCHANGED <<source, catalogRows, preparedRows, included, viewers>>

FileChanges(p) ==
    /\ \/ source[p] # 0 /\ source[p] < GalleryEditions /\ source' = [source EXCEPT ![p] = @ + 1]
       \/ source[p] = GalleryEditions /\ source' = [source EXCEPT ![p] = 0]
    /\ asking' = IF asking.kind = "thumbnail" /\ asking.path = p
                 THEN [asking EXCEPT !.had = @ \cup {source'[p]}] ELSE asking
    /\ OneChange /\ UNCHANGED <<catalogRows, preparedRows, included, derivedRow, window>>

EditIncluded(folders) ==
    /\ folders # {} /\ included' = folders
    /\ OneChange /\ UNCHANGED <<source, catalogRows, preparedRows, derivedRow, viewers>>

-----------------------------------------------------------------------------
(* The window: GET /v1/catalog/revision, and GET /v1/catalog when it moved.   *)

\* list_gallery: newest first, ties by descending identifier.
Gallery(rows, scope) ==
    LET assets == {[path |-> p, row |-> rows[p]] : p \in {q \in GalleryPaths : rows[q] # NoAsset /\ FolderHolding[q] \in scope}}
    IN SetToSortSeq(assets, LAMBDA a, b : a.row.edition > b.row.edition \/ (a.row.edition = b.row.edition /\ a.row.id > b.row.id))

Poll ==
    /\ window.at = "idle" /\ window.known # catalogRevision
    /\ window' = [window EXCEPT !.at = "moved", !.next = catalogRevision]
    /\ UNCHANGED <<source, catalogRows, preparedRows, settled, asking>>

\* libraries::scope, on a connection of its own.
ReadScope ==
    /\ window.at = "moved" /\ window' = [window EXCEPT !.at = "scoped", !.scope = included]
    /\ UNCHANGED <<source, catalogRows, preparedRows, settled, asking>>

ListGallery ==
    /\ window.at = "scoped"
    /\ window' = [window EXCEPT !.at = "idle", !.known = window.next,
                                !.shown = Gallery(assetRow, window.scope)]
    /\ UNCHANGED <<source, catalogRows, preparedRows, settled, asking>>

-----------------------------------------------------------------------------
(* The details: GET and POST /v1/assets, GET /v1/catalog/metadata and         *)
(* GET /v1/thumbnails, statement by statement.                               *)

\* find_by_path: the spelling of the request first, then the canonical one.
AskByPath(spelling) ==
    /\ asking.at = "idle" /\ UNCHANGED <<source, catalogRows, preparedRows, settled, window>>
    /\ LET asGiven == IF spelling \in GalleryPaths THEN assetRow[spelling] ELSE NoAsset
           canonical == IF spelling \in GalleryPaths THEN spelling ELSE LinkSpelling[spelling]
       IN \/ /\ asGiven # NoAsset
             /\ asking' = Describing("path", <<asGiven>>, {})
          \/ /\ asGiven = NoAsset
             /\ asking' = IF source[canonical] # 0 /\ assetRow[canonical] # NoAsset
                          THEN Describing("path", <<assetRow[canonical]>>, {}) ELSE NotFound

\* find_by_ids: get_many; the assets are at their places in the request.
AskByIds(ids) ==
    /\ asking.at = "idle" /\ UNCHANGED <<source, catalogRows, preparedRows, settled, window>>
    /\ LET found == [i \in {j \in DOMAIN ids : RowOf(ids[j]) # NoAsset} |-> RowOf(ids[i])]
       IN asking' = Describing("batch", found, {ids[i] : i \in DOMAIN ids} \ {found[i].id : i \in DOMAIN found})

AskMetadata(id) ==
    /\ asking.at = "idle" /\ UNCHANGED <<source, catalogRows, preparedRows, settled, window>>
    /\ asking' = IF RowOf(id) = NoAsset THEN NotFound ELSE Describing("metadata", <<RowOf(id)>>, {})

\* index_states: the label of the OCR row tells indexed from stale.
IndexState_Present(row) == IF derivedRow[row.id].text # 0 THEN "indexed" ELSE "notIndexed"
IndexState(row) ==
    CASE derivedRow[row.id].text = 0 -> "notIndexed"
      [] derivedRow[row.id].text = row.edition -> "indexed"
      [] OTHER -> "stale"

ReadStates ==
    /\ asking.at = "states" /\ UNCHANGED <<source, catalogRows, preparedRows, settled, window>>
    /\ asking' = [asking EXCEPT !.at = IF asking.kind = "metadata" THEN "text" ELSE "answered",
                     !.states = [i \in DOMAIN asking.assets |-> IndexState(asking.assets[i])],
                     !.labels = [i \in DOMAIN asking.assets |-> derivedRow[asking.assets[i].id].text]]

Asked == asking.assets[1]

\* current_asset_text: recognized text only when it is of the asked fingerprint.
CurrentText_Any(row) == derivedRow[row.id].text
CurrentText(row) == IF derivedRow[row.id].text = row.edition THEN row.edition ELSE 0

ReadText ==
    /\ asking.at = "text" /\ UNCHANGED <<source, catalogRows, preparedRows, settled, window>>
    /\ asking' = [asking EXCEPT !.at = "broken", !.text = CurrentText(Asked)]

ReadFailure ==
    /\ asking.at = "broken" /\ UNCHANGED <<source, catalogRows, preparedRows, settled, window>>
    /\ asking' = [asking EXCEPT !.at = "embedded",
                     !.failed = IF derivedRow[Asked.id].broken = Asked.edition THEN Asked.edition ELSE 0]

\* asset_text_embedding_status.
TextStatus(row) ==
    LET d == derivedRow[row.id] IN
    CASE d.text # row.edition -> "notIndexed"
      [] d.text = row.edition /\ ~d.worded -> "noText"
      [] d.text = row.edition /\ d.worded /\ d.embedded = d.text -> "embedded"
      [] OTHER -> "pending"

ReadTextStatus ==
    /\ asking.at = "embedded" /\ UNCHANGED <<source, catalogRows, preparedRows, settled, window>>
    /\ asking' = [asking EXCEPT !.at = "vector", !.textState = TextStatus(Asked), !.embeddedOf = derivedRow[Asked.id].embedded]

\* is_asset_indexed, against the catalog as it is by then.
ReadVector ==
    /\ asking.at = "vector" /\ UNCHANGED <<source, catalogRows, preparedRows, settled, window>>
    /\ asking' = [asking EXCEPT !.at = "answered",
                     !.imageIndexed = RowOf(Asked.id) # NoAsset /\ derivedRow[Asked.id].vector = RowOf(Asked.id).edition]

\* GET /v1/thumbnails: the row, its path again, the file, the stored variant.
AskThumbnail(id, size) ==
    /\ asking.at = "idle" /\ UNCHANGED <<source, catalogRows, preparedRows, settled, window>>
    /\ asking' = IF RowOf(id) = NoAsset THEN NotFound
                 ELSE [NotAsking EXCEPT !.at = "fingerprint", !.kind = "thumbnail", !.id = id, !.size = size,
                                        !.path = PathOf(id), !.had = {source[PathOf(id)]}]

CurrentFingerprint_Row(id) == RowOf(id).edition
CurrentFingerprint(id) == IF RowOf(id) = NoAsset THEN 0 ELSE source[PathOf(id)]

ReadFingerprint ==
    /\ asking.at = "fingerprint" /\ UNCHANGED <<source, catalogRows, preparedRows, settled, window>>
    /\ LET e == CurrentFingerprint(asking.id) IN
       asking' = IF e = 0 THEN NotFound ELSE [asking EXCEPT !.at = "variant", !.stamp = e]

\* ThumbnailDb::get: the smallest stored size that covers the request, or else
\* the largest, of the variants with this fingerprint.
BestBucket(sizes, wanted) ==
    IF \E b \in sizes : b >= wanted THEN Min({b \in sizes : b >= wanted}) ELSE Max(sizes)

ReadVariant ==
    /\ asking.at = "variant" /\ UNCHANGED <<source, catalogRows, preparedRows, settled, window>>
    /\ LET variants == derivedRow[asking.id].variants
           current == {b \in Buckets : variants[b] = asking.stamp}
       IN asking' = IF current = {} THEN NotFound
                    ELSE [asking EXCEPT !.at = "answered", !.bucket = BestBucket(current, asking.size),
                                        !.served = variants[BestBucket(current, asking.size)]]

AnswerDetails ==
    /\ asking.at = "answered" /\ asking' = NotAsking
    /\ UNCHANGED <<source, catalogRows, preparedRows, settled, window>>

GalleryNext ==
    \/ StorePrepared \/ Poll \/ ReadScope \/ ListGallery
    \/ ReadStates \/ ReadText \/ ReadFailure \/ ReadTextStatus \/ ReadVariant \/ ReadVector
    \/ ReadFingerprint \/ AnswerDetails
    \/ \E p \in GalleryPaths : PrepareUpsert(p) \/ FileChanges(p)
    \/ \E ids \in SUBSET (1 .. lastAsset) : DeleteAssets(ids)
    \/ \E id \in 1 .. GalleryIds : Derive(id) \/ AskMetadata(id) \/ \E size \in Buckets : AskThumbnail(id, size)
    \/ \E folders \in SUBSET GalleryFolders : EditIncluded(folders)
    \/ \E spelling \in GalleryPaths \cup DOMAIN LinkSpelling : AskByPath(spelling)
    \/ \E ids \in {s \in SeqOf(1 .. GalleryIds, 2) : Len(s) > 0 /\ IsInjective(s)} : AskByIds(ids)

GallerySpec == GalleryInit /\ [][GalleryNext]_galleryVars

-----------------------------------------------------------------------------
(* Properties.                                                              *)

\* "revision increases in the same transaction as every changed catalog row":
\* a window that lists after it polled, and then sees the revision it knows,
\* shows what the catalog holds of the folders it asked for, in order.
QuietPollIsCurrent ==
    window.at = "idle" /\ window.known = catalogRevision => window.shown = Gallery(assetRow, window.scope)

\* Whatever is saved, replaced or deleted between the statements of one answer,
\* the state, text, failure and embedding it gives are of the edition of the
\* file the answer describes.
DetailsOfOneEdition ==
    asking.at = "answered" /\ asking.kind \in {"path", "batch", "metadata"} =>
        /\ \A i \in DOMAIN asking.assets : asking.states[i] = "indexed" <=> asking.labels[i] = asking.assets[i].edition
        /\ asking.kind = "metadata" =>
               /\ {asking.text, asking.failed} \subseteq {0, Asked.edition}
               /\ asking.textState = "embedded" => asking.embeddedOf = Asked.edition

\* "Stale variants must never be served": a thumbnail shows an edition the file
\* had while it was being asked for, even when no scan has seen that edition yet.
ServedWasCurrent == asking.at = "answered" /\ asking.kind = "thumbnail" => asking.served \in asking.had

\* A window whose polls stay quiet shows the catalog as it is, and what is put
\* together from several stores is of one edition of the file.
GalleryIsCurrent == QuietPollIsCurrent /\ DetailsOfOneEdition /\ ServedWasCurrent

-----------------------------------------------------------------------------
(* Why it is: what every step keeps.                                         *)

GalleryTypeOK ==
    /\ source \in [GalleryPaths -> Nat] /\ catalogRevision \in Nat /\ lastAsset \in Nat
    /\ assetRow \in [GalleryPaths -> [id : Nat, edition : Nat, created : BOOLEAN]]
    /\ preparedRows \in Seq([path : GalleryPaths, kind : {"unchanged", "metadata", "changed"}, edition : Nat \ {0}, id : Nat])
    /\ DOMAIN window = DOMAIN FreshWindow /\ DOMAIN asking = DOMAIN NotAsking

\* Identifiers are given out once and are of one path.
RowsNumbered ==
    /\ \A p \in GalleryPaths : assetRow[p] # NoAsset => assetRow[p].id \in 1 .. lastAsset /\ assetRow[p].edition # 0
    /\ \A p, q \in GalleryPaths : assetRow[p] # NoAsset /\ assetRow[p].id = assetRow[q].id => p = q

\* A batch has a path once, and the rows whose creation time it fills are there.
BatchFits ==
    /\ \A i, j \in DOMAIN preparedRows : preparedRows[i].path = preparedRows[j].path => i = j
    /\ \A i \in DOMAIN preparedRows : preparedRows[i].kind = "metadata" => preparedRows[i].id # 0

\* A window never knows a revision that is still to come.
WindowBehind ==
    /\ window.at \in {"idle", "moved", "scoped"}
    /\ window.known \in Int /\ window.known <= catalogRevision
    /\ window.at # "idle" => window.next \in 0 .. catalogRevision
    /\ QuietPollIsCurrent

ReadStatesOfAssets == {"text", "broken", "embedded", "vector", "answered"}
Details == {"path", "batch", "metadata"}

\* What is read so far is of the edition that is described.
DescribedSoFar ==
    /\ asking.at = "states" => asking.kind \in Details
    /\ asking.at \in ReadStatesOfAssets \ {"answered"} => asking.kind = "metadata"
    /\ asking.kind \in Details => \A i \in DOMAIN asking.assets : asking.assets[i].edition # 0
    /\ asking.kind = "metadata" => DOMAIN asking.assets = {1}
    /\ asking.at \in ReadStatesOfAssets /\ asking.kind \in Details =>
           \A i \in DOMAIN asking.assets : asking.states[i] = "indexed" <=> asking.labels[i] = asking.assets[i].edition
    /\ asking.kind = "metadata" /\ asking.at \in {"broken", "embedded", "vector", "answered"} => asking.text \in {0, Asked.edition}
    /\ asking.kind = "metadata" /\ asking.at \in {"embedded", "vector", "answered"} => asking.failed \in {0, Asked.edition}
    /\ asking.kind = "metadata" /\ asking.at \in {"vector", "answered"} =>
           (asking.textState = "embedded" => asking.embeddedOf = Asked.edition)

\* The identifier of a thumbnail request is of no other path, and what its file
\* is now and what was read of it are editions it had.
ThumbnailSoFar ==
    /\ asking.at \in {"fingerprint", "variant"} => asking.kind = "thumbnail"
    /\ asking.kind = "thumbnail" =>
           /\ asking.path \in GalleryPaths /\ asking.id \in 1 .. lastAsset
           /\ \A p \in GalleryPaths : assetRow[p].id = asking.id => p = asking.path
           /\ source[asking.path] \in asking.had
           /\ asking.at = "variant" => asking.stamp \in asking.had
           /\ asking.at = "answered" => asking.served \in asking.had

AskingSteps == {"idle", "states", "fingerprint", "variant"} \cup ReadStatesOfAssets
GalleryInv ==
    GalleryTypeOK /\ RowsNumbered /\ BatchFits /\ WindowBehind
    /\ asking.at \in AskingSteps /\ DescribedSoFar /\ ThumbnailSoFar
===============================================================================
