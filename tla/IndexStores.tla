------------------------------ MODULE IndexStores ------------------------------
(***************************************************************************)
(* Removing assets from the four databases.  The catalog owns the asset ids;  *)
(* recognized text, image vectors and thumbnails are derived rows, each in a  *)
(* database of its own.  There is no transaction across databases: every      *)
(* step is one transaction of one of them, and a crash may come between any   *)
(* two.  One worker runs the jobs one after another; requests edit libraries  *)
(* and store thumbnails beside it.                                           *)
(***************************************************************************)
EXTENDS Naturals, FiniteSets

CONSTANTS
    StoredAssets,           \* asset ids (numbers), which are not used twice
    Owners,                 \* libraries
    PurgeBatch,             \* PRUNE_BATCH_SIZE, 1024 in the code
    MaxStoreJobs, MaxEdits  \* bounds

VARIABLES
    onDisk, catalog,        \* assets whose file exists; assets with a catalog row
    covers,                 \* library -> the assets its folders cover
    textRows, imageRows, thumbRows,     \* assets with rows in each derived database
    work,                   \* the job the worker runs
    ensuring,               \* assets whose thumbnails a request is making
    storeJobs, edits,       \* bounds
    lateThumbs, keptBy      \* history: thumbnails stored for a row that is gone, since the
                            \* last maintenance; assets a batch found covered

storeVars == <<onDisk, catalog, covers, textRows, imageRows, thumbRows, work, ensuring, storeJobs, edits,
               lateThumbs, keptBy>>
rowVars == <<catalog, textRows, imageRows, thumbRows>>
userVars == <<onDisk, covers, ensuring, edits>>

IdleWork == [at |-> "idle"]

StoresInit ==
    /\ onDisk = StoredAssets /\ catalog = StoredAssets
    /\ covers \in [Owners -> SUBSET StoredAssets]
    /\ textRows = StoredAssets /\ imageRows = StoredAssets /\ thumbRows = StoredAssets
    /\ work = IdleWork /\ ensuring = {} /\ storeJobs = 0 /\ edits = 0 /\ lateThumbs = {} /\ keptBy = {}

-----------------------------------------------------------------------------
(* Beside the worker.                                                       *)

FileGoes(a) ==
    /\ a \in onDisk /\ onDisk' = onDisk \ {a}
    /\ UNCHANGED <<rowVars, covers, work, ensuring, storeJobs, edits, lateThumbs, keptBy>>

\* A library takes an asset in, or leaves it out.
EditLibrary(l, a) ==
    /\ edits < MaxEdits /\ edits' = edits + 1
    /\ covers' = [covers EXCEPT ![l] = IF a \in @ THEN @ \ {a} ELSE @ \cup {a}]
    /\ UNCHANGED <<rowVars, onDisk, work, ensuring, storeJobs, lateThumbs, keptBy>>

\* POST /v1/thumbnails looks the asset up, and stores its thumbnail later.
EnsureBegins(a) ==
    /\ a \in catalog \ ensuring /\ edits < MaxEdits /\ edits' = edits + 1
    /\ ensuring' = ensuring \cup {a}
    /\ UNCHANGED <<rowVars, onDisk, covers, work, storeJobs, lateThumbs, keptBy>>

EnsureStores(a) ==
    /\ a \in ensuring /\ ensuring' = ensuring \ {a}
    /\ thumbRows' = thumbRows \cup {a} /\ lateThumbs' = lateThumbs \cup ({a} \ catalog)
    /\ UNCHANGED <<onDisk, catalog, covers, textRows, imageRows, work, storeJobs, edits, keptBy>>

\* The process dies between two transactions.
StoresCrash ==
    /\ work # IdleWork /\ work' = IdleWork /\ ensuring' = {}
    /\ UNCHANGED <<rowVars, onDisk, covers, storeJobs, edits, lateThumbs, keptBy>>

-----------------------------------------------------------------------------
(* Jobs.                                                                    *)

JobStarts(job) ==
    /\ work = IdleWork /\ storeJobs < MaxStoreJobs /\ storeJobs' = storeJobs + 1
    /\ work' = job /\ keptBy' = {}
    /\ UNCHANGED <<rowVars, userVars, lateThumbs>>

\* Libraries that protect a file from a purge: after an edit all of them, for a
\* whole library all the others.
Others(l, folder) == UNION {covers[o] : o \in IF folder THEN Owners ELSE Owners \ {l}}

\* run_library_purge of a whole library, to be removed, or of the folders an
\* edit has left out: the candidates are what nobody else covers.
PurgeBegins(l, folder) ==
    LET scope == IF folder THEN catalog ELSE catalog \cap covers[l] IN
    JobStarts([at |-> "look", kind |-> IF folder THEN "folder" ELSE "library", lib |-> l,
               left |-> scope \ Others(l, folder), batch |-> {}, initial |-> Others(l, folder), failed |-> FALSE])

\* run_prune of a library, and the cleanup of a complete walk: the candidates
\* are the rows of its folders, of which those without a file go.
PruneBegins(l) ==
    JobStarts([at |-> "look", kind |-> "prune", lib |-> l, left |-> catalog \cap covers[l], batch |-> {},
               initial |-> {}, failed |-> FALSE])

\* Mutant: the coverage of the start of the job decides.
Protected_Initial == work.initial

\* "Libraries can be edited while this runs": coverage is read for every batch.
Protected == Others(work.lib, work.kind = "folder")

NextChunkOf(assets) == {a \in assets : Cardinality({o \in assets : o < a}) < PurgeBatch}

\* What is to go of the assets looked at: those without a file, or those that
\* nobody else covers.
Doomed(seen) == IF work.kind = "prune" THEN seen \ onDisk ELSE seen \ Protected

\* Cancelled between two assets, a job deletes what it has looked at and ends.
LookAtBatch ==
    /\ work.at = "look" /\ work.left # {}
    /\ \E chunk \in {NextChunkOf(work.left)}, cancelled \in BOOLEAN :
       \E seen \in IF cancelled THEN SUBSET chunk ELSE {chunk} :
        LET batch == Doomed(seen) IN
        /\ work' = [work EXCEPT !.left = IF cancelled THEN {} ELSE @ \ chunk, !.batch = batch,
                !.failed = @ \/ cancelled,
                !.at = IF batch # {} THEN "delete" ELSE IF cancelled THEN "ended" ELSE "look"]
        /\ keptBy' = keptBy \cup (seen \cap Others(work.lib, work.kind = "folder"))
    /\ UNCHANGED <<rowVars, userVars, storeJobs, lateThumbs>>

Deleting == {"delete", "textGone", "imagesGone", "thumbsGone"}

\* A transaction that fails gives up its batch; the job goes on with the next.
BatchFails ==
    /\ work.at \in Deleting
    /\ work' = [work EXCEPT !.at = "look", !.failed = TRUE]
    /\ UNCHANGED <<rowVars, userVars, storeJobs, lateThumbs, keptBy>>

\* Mutant: the catalog row goes first.
DeletedAt_CatalogFirst == [delete |-> "catalog", textGone |-> "text", imagesGone |-> "images", thumbsGone |-> "thumbs"]

\* delete_asset_batch: "derived rows go first".
DeletedAt == [delete |-> "text", textGone |-> "images", imagesGone |-> "thumbs", thumbsGone |-> "catalog"]

Then == [delete |-> "textGone", textGone |-> "imagesGone", imagesGone |-> "thumbsGone", thumbsGone |-> "look"]

\* The delete_assets of one database.
DeleteFromOne ==
    /\ work.at \in Deleting
    /\ LET store == DeletedAt[work.at]
           without(rows, name) == IF store = name THEN rows \ work.batch ELSE rows
       IN
       /\ textRows' = without(textRows, "text") /\ imageRows' = without(imageRows, "images")
       /\ thumbRows' = without(thumbRows, "thumbs") /\ catalog' = without(catalog, "catalog")
       /\ lateThumbs' = IF store = "catalog" THEN lateThumbs \cup (work.batch \cap thumbRows)
                        ELSE without(lateThumbs, "thumbs")
    /\ work' = [work EXCEPT !.at = Then[work.at]]
    /\ UNCHANGED <<userVars, storeJobs, keptBy>>

\* Mutant: a library is removed whatever failed.
MayRemove_Always == TRUE

\* "Library removal did not finish; some indexed data could not be removed".
MayRemove == ~work.failed

\* delete_library, after the purge of a whole library.
RemoveLibrary ==
    /\ work.at = "look" /\ work.left = {} /\ work.kind = "library" /\ MayRemove
    /\ covers' = [covers EXCEPT ![work.lib] = {}]
    /\ work' = [at |-> "removed", was |-> covers[work.lib]]
    /\ UNCHANGED <<rowVars, onDisk, ensuring, edits, storeJobs, lateThumbs, keptBy>>

\* What remains to do when the candidates are through is skipped when a cancel
\* has come by then.
StoreJobEnds ==
    /\ \/ work.at \in {"removed", "ended"}
       \/ work.at = "look" /\ work.left = {}
    /\ work' \in {IdleWork, [at |-> "maintain"]}
    /\ UNCHANGED <<rowVars, userVars, storeJobs, lateThumbs, keptBy>>

-----------------------------------------------------------------------------
(* maintain_databases, when the queue is empty: orphans go, database by        *)
(* database; an error ends the round.                                        *)

PruneText ==
    /\ work.at = "maintain" /\ work' = [at |-> "maintainImages"] /\ textRows' = textRows \cap catalog
    /\ UNCHANGED <<userVars, catalog, imageRows, thumbRows, storeJobs, lateThumbs, keptBy>>

PruneImages ==
    /\ work.at = "maintainImages" /\ work' = [at |-> "maintainThumbs"] /\ imageRows' = imageRows \cap catalog
    /\ UNCHANGED <<userVars, catalog, textRows, thumbRows, storeJobs, lateThumbs, keptBy>>

\* Mutant: maintenance leaves the thumbnails alone.
ThumbOrphans_None == {}

ThumbOrphans == thumbRows \ catalog

\* WriterCommand::Maintain, in the queue of the thumbnail writer.
PruneThumbs ==
    /\ work.at = "maintainThumbs" /\ work' = IdleWork
    /\ thumbRows' = thumbRows \ ThumbOrphans /\ lateThumbs' = {}
    /\ UNCHANGED <<userVars, catalog, textRows, imageRows, storeJobs, keptBy>>

StoresNext ==
    \/ LookAtBatch \/ DeleteFromOne \/ BatchFails \/ RemoveLibrary \/ StoreJobEnds
    \/ PruneText \/ PruneImages \/ PruneThumbs \/ StoresCrash
    \/ \E l \in Owners : PruneBegins(l) \/ \E folder \in BOOLEAN : PurgeBegins(l, folder)
    \/ \E l \in Owners, a \in StoredAssets : EditLibrary(l, a)
    \/ \E a \in StoredAssets : FileGoes(a) \/ EnsureBegins(a) \/ EnsureStores(a)

StoresSpec == StoresInit /\ [][StoresNext]_storeVars

-----------------------------------------------------------------------------
(* Properties.                                                              *)

\* "If a later store fails, every catalog row remains discoverable and a retry
\* safely finishes the already-partial cross-database deletion": whatever fails
\* or crashes between the databases, no text or image row outlives the catalog
\* row that leads a retry to it.
DerivedHaveCatalog == textRows \subseteq catalog /\ imageRows \subseteq catalog

\* A thumbnail whose asset is gone was stored since the last maintenance: what
\* a request stores behind a deletion does not outlive the next idle moment.
OrphansAreFresh == (thumbRows \ catalog) \subseteq lateThumbs

\* "A file another library took in since the job started keeps its data": a
\* purge deletes nothing that another library covered when its batch was read.
CoveredKept == [][work.at \in Deleting /\ work.kind # "prune" => (catalog \ catalog') \cap keptBy = {}]_storeVars

\* A library is removed only after everything of its own: what is left of its
\* files in the catalog was another library's when its batch was looked at.
RemovedLeavesNothing ==
    work.at = "removed" /\ edits = 0 =>
        (work.was \cap catalog) \subseteq keptBy \cup UNION {covers[l] : l \in Owners}

\* Without a transaction across the databases, removal leads a retry to what
\* it left, leaves nothing of a removed library, and takes nothing that another
\* library covered when the batch was read.
RemovalIsSafe ==
    /\ [](DerivedHaveCatalog /\ OrphansAreFresh /\ RemovedLeavesNothing)
    /\ CoveredKept

-----------------------------------------------------------------------------
(* The inductive invariant of the proofs.                                   *)

\* A job that looks at its candidates or deletes a batch of them.
Removal == [at : {"look", "ended"} \cup Deleting, kind : {"library", "folder", "prune"}, lib : Owners,
            left : SUBSET StoredAssets, batch : SUBSET StoredAssets, initial : SUBSET StoredAssets,
            failed : BOOLEAN]

StoresTypeOK ==
    /\ onDisk \subseteq StoredAssets /\ catalog \subseteq StoredAssets
    /\ covers \in [Owners -> SUBSET StoredAssets] /\ edits \in Nat
    /\ \/ work \in Removal
       \/ work \in [at : {"removed"}, was : SUBSET StoredAssets]
       \/ work \in [at : {"idle", "maintain", "maintainImages", "maintainThumbs"}]

\* The rows of a batch are gone from each database the batch is through with.
BatchInv ==
    /\ work.at \in {"textGone", "imagesGone", "thumbsGone"} => textRows \cap work.batch = {}
    /\ work.at \in {"imagesGone", "thumbsGone"} => imageRows \cap work.batch = {}

\* What was found covered is neither in the batch nor still to be looked at.
KeptInv ==
    work \in Removal /\ work.kind # "prune" => work.left \cap keptBy = {} /\ work.batch \cap keptBy = {}

\* While nobody edits anything, what a removal that has not failed leaves in the
\* catalog is still to be looked at or deleted, or another library covers it.
RemovalInv ==
    work \in Removal /\ work.kind = "library" /\ edits = 0 =>
        /\ work.initial = UNION {covers[o] : o \in Owners \ {work.lib}}
        /\ ~work.failed => covers[work.lib] \cap catalog \subseteq
               work.left \cup keptBy \cup work.initial \cup IF work.at \in Deleting THEN work.batch ELSE {}

StoresInv ==
    /\ StoresTypeOK /\ DerivedHaveCatalog /\ OrphansAreFresh /\ RemovedLeavesNothing
    /\ BatchInv /\ KeptInv /\ RemovalInv
===============================================================================
