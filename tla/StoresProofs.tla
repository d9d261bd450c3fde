----------------------------- MODULE StoresProofs -----------------------------
(***************************************************************************)
(* Theorems about the stores.                                               *)
(* Removal from the four databases: one that fails or crashes anywhere       *)
(* leads a retry to what it left, a removed library leaves nothing of its    *)
(* own, and a purge takes nothing that another library covered when its      *)
(* batch was read.                                                           *)
(* The text database: what a semantic search compares is of one model and    *)
(* of the revision on record.                                                *)
(* Upgrades: processes that open older stores, overtake one another and      *)
(* crash lose no vector and no choice.                                       *)
(* Model files: what is loaded is whole, and sessions fit their provider.    *)
(* The gallery: a window whose polls stay quiet shows the catalog as it is,  *)
(* and an answer put together from several stores is of one edition.        *)
(***************************************************************************)
EXTENDS IndexStores, TextIndex, StoreUpgrade, ModelFiles, GalleryView,
        FiniteSetTheorems, SequenceTheorems, WellFoundedInduction, TLAPS

\* The stages of the worker that are not a removal.
Maintenance == [at : {"idle", "maintain", "maintainImages", "maintainThumbs"}]
Removed == [at : {"removed"}, was : SUBSET StoredAssets]

\* What a step leaves of the candidates comes from the candidates.
LEMMA ChunkIsLeft == \A assets : NextChunkOf(assets) \subseteq assets
BY DEF NextChunkOf

\* Whether a stage is a removal can be told from its name.
LEMMA StagesDiffer ==
    ASSUME StoresTypeOK
    PROVE  /\ work.at \in {"look", "ended"} \cup Deleting <=> work \in Removal
           /\ work.at = "removed" <=> work \in Removed
           /\ work.at \in {"idle", "maintain", "maintainImages", "maintainThumbs"} <=> work \in Maintenance
           /\ work \in Removal \/ work \in Removed \/ work \in Maintenance
<1>1. CASE work \in Removal
  BY <1>1 DEF Removal, Removed, Maintenance, Deleting
<1>2. CASE work \in Removed
  BY <1>2 DEF Removal, Removed, Maintenance, Deleting
<1>3. CASE work \in Maintenance
  BY <1>3 DEF Removal, Removed, Maintenance, Deleting
<1> QED BY <1>1, <1>2, <1>3 DEF StoresTypeOK, Removed, Maintenance

\* Others covers assets only.
LEMMA OthersTyped ==
    ASSUME StoresTypeOK, NEW l \in Owners, NEW folder \in BOOLEAN
    PROVE  Others(l, folder) \subseteq StoredAssets
BY DEF StoresTypeOK, Others

\* The worker looks at a chunk of the candidates.
LEMMA LookKeepsInv ==
    ASSUME StoresInv, LookAtBatch
    PROVE  StoresInv'
<1> USE DEF StoresInv
<1>1. work \in Removal /\ work.at = "look"
  BY StagesDiffer DEF LookAtBatch
<1>2. PICK cancelled \in BOOLEAN, seen \in SUBSET NextChunkOf(work.left) :
        /\ work' = [work EXCEPT !.left = IF cancelled THEN {} ELSE @ \ NextChunkOf(work.left), !.batch = Doomed(seen),
                !.failed = @ \/ cancelled,
                !.at = IF Doomed(seen) # {} THEN "delete" ELSE IF cancelled THEN "ended" ELSE "look"]
        /\ keptBy' = keptBy \cup (seen \cap Others(work.lib, work.kind = "folder"))
        /\ cancelled \/ seen = NextChunkOf(work.left)
  BY DEF LookAtBatch
<1> DEFINE others == Others(work.lib, work.kind = "folder")
           left == IF cancelled THEN {} ELSE work.left \ NextChunkOf(work.left)
           doomed == Doomed(seen)
           at == IF doomed # {} THEN "delete" ELSE IF cancelled THEN "ended" ELSE "look"
<1>3. /\ work.left \in SUBSET StoredAssets /\ work.lib \in Owners /\ work.failed \in BOOLEAN
      /\ work.kind \in {"library", "folder", "prune"} /\ work.initial \in SUBSET StoredAssets
  BY <1>1 DEF Removal
<1>4. seen \subseteq work.left /\ left \subseteq work.left /\ left \cap seen = {}
  BY ChunkIsLeft, <1>2
<1>5. doomed \subseteq seen /\ (work.kind # "prune" => doomed = seen \ others)
  BY DEF Doomed, Protected
<1> HIDE DEF others, left, doomed
<1>6. /\ work' \in Removal /\ work'.at = at /\ work'.left = left /\ work'.batch = doomed
      /\ work'.failed = (work.failed \/ cancelled)
      /\ work'.kind = work.kind /\ work'.lib = work.lib /\ work'.initial = work.initial
  BY <1>1, <1>2, <1>3, <1>4, <1>5 DEF Removal, Deleting, left, doomed
<1>7. keptBy' = keptBy \cup (seen \cap others)
  BY <1>2 DEF others
<1>8. UNCHANGED <<onDisk, catalog, covers, edits, textRows, imageRows, thumbRows, lateThumbs>>
  BY DEF LookAtBatch, rowVars, userVars
<1>9. StoresTypeOK'
  BY <1>6, <1>8 DEF StoresTypeOK
<1>10. DerivedHaveCatalog' /\ OrphansAreFresh'
  BY <1>8 DEF DerivedHaveCatalog, OrphansAreFresh
<1>11. RemovedLeavesNothing' /\ BatchInv'
  BY <1>6 DEF RemovedLeavesNothing, BatchInv
<1>12. KeptInv'
  BY <1>1, <1>4, <1>5, <1>6, <1>7 DEF KeptInv
<1>13. RemovalInv'
  <2> SUFFICES ASSUME work.kind = "library", edits = 0
               PROVE  /\ work'.initial = UNION {covers[o] : o \in Owners \ {work.lib}}
                      /\ ~work'.failed => covers[work.lib] \cap catalog \subseteq
                           work'.left \cup keptBy' \cup work'.initial
                             \cup IF work'.at \in Deleting THEN work'.batch ELSE {}
    BY <1>6, <1>8 DEF RemovalInv
  <2>1. /\ work.initial = UNION {covers[o] : o \in Owners \ {work.lib}}
        /\ ~work.failed => covers[work.lib] \cap catalog \subseteq work.left \cup keptBy \cup work.initial
    BY <1>1 DEF RemovalInv, Deleting
  <2>2. others = work.initial
    BY <2>1 DEF others, Others
  <2>3. ~cancelled => seen \cup left = work.left
    BY <1>2, <1>4 DEF left
  <2>4. doomed \subseteq IF work'.at \in Deleting THEN work'.batch ELSE {}
    BY <1>6 DEF Deleting
  <2>5. seen \subseteq doomed \cup others
    BY <1>5
  <2> QED BY <1>6, <1>7, <2>1, <2>2, <2>3, <2>4, <2>5
<1> QED BY <1>9, <1>10, <1>11, <1>12, <1>13

\* One transaction of one database deletes the batch from it.
LEMMA DeleteKeepsInv ==
    ASSUME StoresInv, DeleteFromOne
    PROVE  StoresInv'
<1> USE DEF StoresInv
<1>1. work \in Removal /\ work.at \in Deleting
  BY StagesDiffer DEF DeleteFromOne
<1>2. /\ work.left \in SUBSET StoredAssets /\ work.lib \in Owners /\ work.failed \in BOOLEAN
      /\ work.kind \in {"library", "folder", "prune"} /\ work.initial \in SUBSET StoredAssets
      /\ work.batch \in SUBSET StoredAssets
  BY <1>1 DEF Removal
<1>3. Then[work.at] \in {"textGone", "imagesGone", "thumbsGone", "look"}
  BY <1>1 DEF Then, Deleting
<1>4. /\ work' \in Removal /\ work'.at = Then[work.at] /\ work'.left = work.left /\ work'.batch = work.batch
      /\ work'.failed = work.failed
      /\ work'.kind = work.kind /\ work'.lib = work.lib /\ work'.initial = work.initial
  <2>1. work' = [work EXCEPT !.at = Then[work.at]]
    BY DEF DeleteFromOne
  <2> QED BY <1>1, <1>2, <1>3, <2>1 DEF Removal, Deleting
<1>5. UNCHANGED <<onDisk, covers, edits, keptBy>>
  BY DEF DeleteFromOne, userVars
<1>6. \/ /\ work.at = "delete" /\ work'.at = "textGone" /\ textRows' = textRows \ work.batch
         /\ UNCHANGED <<imageRows, thumbRows, catalog, lateThumbs>>
      \/ /\ work.at = "textGone" /\ work'.at = "imagesGone" /\ imageRows' = imageRows \ work.batch
         /\ UNCHANGED <<textRows, thumbRows, catalog, lateThumbs>>
      \/ /\ work.at = "imagesGone" /\ work'.at = "thumbsGone" /\ thumbRows' = thumbRows \ work.batch
         /\ lateThumbs' = lateThumbs \ work.batch /\ UNCHANGED <<textRows, imageRows, catalog>>
      \/ /\ work.at = "thumbsGone" /\ work'.at = "look" /\ catalog' = catalog \ work.batch
         /\ lateThumbs' = lateThumbs \cup (work.batch \cap thumbRows)
         /\ UNCHANGED <<textRows, imageRows, thumbRows>>
  <2>1. CASE work.at = "delete"
    BY <1>4, <2>1 DEF DeleteFromOne, DeletedAt, Then
  <2>2. CASE work.at = "textGone"
    BY <1>4, <2>2 DEF DeleteFromOne, DeletedAt, Then
  <2>3. CASE work.at = "imagesGone"
    BY <1>4, <2>3 DEF DeleteFromOne, DeletedAt, Then
  <2>4. CASE work.at = "thumbsGone"
    BY <1>4, <2>4 DEF DeleteFromOne, DeletedAt, Then
  <2> QED BY <1>1, <2>1, <2>2, <2>3, <2>4 DEF Deleting
<1>7. catalog' \subseteq catalog /\ catalog \ catalog' \subseteq work.batch
  BY <1>6
<1>8. StoresTypeOK'
  BY <1>4, <1>5, <1>7 DEF StoresTypeOK
<1>9. DerivedHaveCatalog'
  BY <1>6 DEF DerivedHaveCatalog, BatchInv
<1>10. OrphansAreFresh'
  BY <1>6 DEF OrphansAreFresh
<1>11. RemovedLeavesNothing'
  BY <1>3, <1>4 DEF RemovedLeavesNothing
<1>12. BatchInv'
  BY <1>4, <1>6 DEF BatchInv
<1>13. KeptInv'
  BY <1>1, <1>4, <1>5 DEF KeptInv
<1>14. RemovalInv'
  BY <1>1, <1>4, <1>5, <1>6 DEF RemovalInv, Deleting
<1> QED BY <1>8, <1>9, <1>10, <1>11, <1>12, <1>13, <1>14

\* A library is removed after its purge.
LEMMA RemoveKeepsInv ==
    ASSUME StoresInv, RemoveLibrary
    PROVE  StoresInv'
<1> USE DEF StoresInv
<1>1. /\ work \in Removal /\ work.at = "look" /\ work.left = {} /\ work.kind = "library" /\ ~work.failed
      /\ work.lib \in Owners
  BY StagesDiffer DEF RemoveLibrary, MayRemove, Removal
<1>2. /\ covers' = [covers EXCEPT ![work.lib] = {}]
      /\ work' = [at |-> "removed", was |-> covers[work.lib]]
      /\ UNCHANGED <<catalog, textRows, imageRows, thumbRows, onDisk, edits, lateThumbs, keptBy>>
  BY DEF RemoveLibrary, rowVars
<1>3. covers \in [Owners -> SUBSET StoredAssets] /\ edits \in Nat
  BY DEF StoresTypeOK
<1>4. StoresTypeOK'
  BY <1>1, <1>2, <1>3 DEF StoresTypeOK
<1>5. DerivedHaveCatalog' /\ OrphansAreFresh'
  BY <1>2 DEF DerivedHaveCatalog, OrphansAreFresh
<1>6. work' \notin Removal /\ work'.at = "removed"
  BY <1>2 DEF Removal, Deleting
<1>7. BatchInv' /\ KeptInv' /\ RemovalInv'
  BY <1>6 DEF BatchInv, KeptInv, RemovalInv
<1>8. RemovedLeavesNothing'
  <2> SUFFICES ASSUME edits = 0
               PROVE  (covers[work.lib] \cap catalog) \subseteq keptBy \cup UNION {covers'[l] : l \in Owners}
    BY <1>2 DEF RemovedLeavesNothing
  <2>1. covers[work.lib] \cap catalog \subseteq keptBy \cup UNION {covers[o] : o \in Owners \ {work.lib}}
    BY <1>1 DEF RemovalInv, Deleting
  <2>2. \A o \in Owners \ {work.lib} : covers'[o] = covers[o]
    BY <1>2, <1>3
  <2> QED BY <2>1, <2>2
<1> QED BY <1>4, <1>5, <1>7, <1>8

\* A job begins with candidates that nothing has looked at.
LEMMA BeginKeepsInv ==
    ASSUME StoresInv, NEW l \in Owners, PruneBegins(l) \/ \E folder \in BOOLEAN : PurgeBegins(l, folder)
    PROVE  StoresInv'
<1> USE DEF StoresInv
<1>1. /\ UNCHANGED <<catalog, textRows, imageRows, thumbRows, onDisk, covers, edits, lateThumbs>>
      /\ keptBy' = {}
  BY DEF PruneBegins, PurgeBegins, JobStarts, rowVars, userVars
<1>2. /\ work' \in Removal /\ work'.at = "look" /\ work'.batch = {} /\ ~work'.failed
      /\ work'.kind = "library" =>
           /\ work'.lib = l /\ work'.initial = Others(l, FALSE)
           /\ work'.left = (catalog \cap covers[l]) \ Others(l, FALSE)
  <2>1. catalog \subseteq StoredAssets
    BY DEF StoresTypeOK
  <2>2. CASE PruneBegins(l)
    BY <2>1, <2>2 DEF PruneBegins, JobStarts, Removal
  <2>3. ASSUME NEW folder \in BOOLEAN, PurgeBegins(l, folder)
        PROVE  <1>2!1 /\ <1>2!2
    BY <2>1, <2>3, OthersTyped DEF PurgeBegins, JobStarts, Removal
  <2> QED BY <2>2, <2>3
<1>3. StoresTypeOK'
  BY <1>1, <1>2 DEF StoresTypeOK
<1>4. DerivedHaveCatalog' /\ OrphansAreFresh'
  BY <1>1 DEF DerivedHaveCatalog, OrphansAreFresh
<1>5. RemovedLeavesNothing' /\ BatchInv' /\ KeptInv'
  BY <1>1, <1>2 DEF RemovedLeavesNothing, BatchInv, KeptInv
<1>6. RemovalInv'
  BY <1>1, <1>2 DEF RemovalInv, Others
<1> QED BY <1>3, <1>4, <1>5, <1>6

\* What happens beside the worker.
LEMMA BesideKeepsInv ==
    ASSUME StoresInv,
           \/ \E l \in Owners, a \in StoredAssets : EditLibrary(l, a)
           \/ \E a \in StoredAssets : FileGoes(a) \/ EnsureBegins(a) \/ EnsureStores(a)
    PROVE  StoresInv'
<1> USE DEF StoresInv
<1>1. ASSUME NEW l \in Owners, NEW a \in StoredAssets, EditLibrary(l, a)
      PROVE  StoresInv'
  <2>1. /\ UNCHANGED <<catalog, textRows, imageRows, thumbRows, onDisk, work, lateThumbs, keptBy>>
        /\ edits' \in Nat /\ edits' # 0
    BY <1>1 DEF EditLibrary, rowVars, StoresTypeOK
  <2>2. StoresTypeOK'
    BY <1>1, <2>1 DEF EditLibrary, StoresTypeOK
  <2> QED
    BY <2>1, <2>2 DEF DerivedHaveCatalog, OrphansAreFresh, RemovedLeavesNothing, BatchInv, KeptInv, RemovalInv
<1>2. ASSUME NEW a \in StoredAssets, FileGoes(a) \/ EnsureBegins(a)
      PROVE  StoresInv'
  <2>1. /\ UNCHANGED <<catalog, textRows, imageRows, thumbRows, covers, work, lateThumbs, keptBy>>
        /\ edits' \in Nat /\ (edits' = 0 => edits = 0) /\ onDisk' \subseteq onDisk
    BY <1>2 DEF FileGoes, EnsureBegins, rowVars, StoresTypeOK
  <2>2. StoresTypeOK'
    BY <2>1 DEF StoresTypeOK
  <2>3. RemovedLeavesNothing' /\ RemovalInv'
    BY <2>1 DEF RemovedLeavesNothing, RemovalInv
  <2> QED
    BY <2>1, <2>2, <2>3 DEF DerivedHaveCatalog, OrphansAreFresh, BatchInv, KeptInv
<1>3. ASSUME NEW a \in StoredAssets, EnsureStores(a)
      PROVE  StoresInv'
  <2>1. /\ UNCHANGED <<catalog, textRows, imageRows, onDisk, covers, edits, work, keptBy>>
        /\ thumbRows' = thumbRows \cup {a} /\ lateThumbs' = lateThumbs \cup ({a} \ catalog)
    BY <1>3 DEF EnsureStores
  <2>2. OrphansAreFresh'
    BY <2>1 DEF OrphansAreFresh
  <2>3. StoresTypeOK' /\ RemovedLeavesNothing' /\ RemovalInv'
    BY <2>1 DEF StoresTypeOK, RemovedLeavesNothing, RemovalInv
  <2> QED
    BY <2>1, <2>2, <2>3 DEF DerivedHaveCatalog, BatchInv, KeptInv
<1> QED BY <1>1, <1>2, <1>3

\* The end of a job, a crash, and the round of maintenance.
LEMMA EndKeepsInv ==
    ASSUME StoresInv, StoreJobEnds \/ StoresCrash \/ PruneText \/ PruneImages \/ PruneThumbs
    PROVE  StoresInv'
<1> USE DEF StoresInv
<1>1. work' \in Maintenance /\ UNCHANGED <<onDisk, catalog, covers, edits, keptBy>>
  BY DEF StoreJobEnds, StoresCrash, PruneText, PruneImages, PruneThumbs, Maintenance, IdleWork, rowVars, userVars
<1>2. StoresTypeOK'
  BY <1>1 DEF StoresTypeOK, Maintenance
<1>3. work' \notin Removal /\ work'.at \notin Deleting \cup {"removed"}
  BY <1>1 DEF Maintenance, Removal, Deleting
<1>4. RemovedLeavesNothing' /\ BatchInv' /\ KeptInv' /\ RemovalInv'
  BY <1>3 DEF RemovedLeavesNothing, BatchInv, KeptInv, RemovalInv, Deleting
<1>5. textRows' \subseteq textRows /\ imageRows' \subseteq imageRows
  BY DEF StoreJobEnds, StoresCrash, PruneText, PruneImages, PruneThumbs, rowVars
<1>6. DerivedHaveCatalog'
  BY <1>1, <1>5 DEF DerivedHaveCatalog
<1>7. OrphansAreFresh'
  <2>1. CASE PruneThumbs
    BY <1>1, <2>1 DEF PruneThumbs, ThumbOrphans, OrphansAreFresh
  <2>2. CASE ~PruneThumbs
    <3>1. UNCHANGED <<thumbRows, lateThumbs>>
      BY <2>2 DEF StoreJobEnds, StoresCrash, PruneText, PruneImages, rowVars
    <3> QED BY <1>1, <3>1 DEF OrphansAreFresh
  <2> QED BY <2>1, <2>2
<1> QED BY <1>2, <1>4, <1>6, <1>7

\* A batch given up leaves its rows for a retry.
LEMMA FailKeepsInv ==
    ASSUME StoresInv, BatchFails
    PROVE  StoresInv'
<1> USE DEF StoresInv
<1>1. work \in Removal /\ work.at \in Deleting
  BY StagesDiffer DEF BatchFails
<1>2. /\ work' = [work EXCEPT !.at = "look", !.failed = TRUE]
      /\ UNCHANGED <<catalog, textRows, imageRows, thumbRows, onDisk, covers, edits, lateThumbs, keptBy>>
  BY DEF BatchFails, rowVars, userVars
<1>3. /\ work' \in Removal /\ work'.at = "look" /\ work'.left = work.left /\ work'.batch = work.batch
      /\ work'.failed /\ work'.kind = work.kind /\ work'.lib = work.lib /\ work'.initial = work.initial
  BY <1>1, <1>2 DEF Removal
<1>4. StoresTypeOK'
  BY <1>2, <1>3 DEF StoresTypeOK
<1>5. DerivedHaveCatalog' /\ OrphansAreFresh' /\ RemovedLeavesNothing' /\ BatchInv'
  BY <1>2, <1>3 DEF DerivedHaveCatalog, OrphansAreFresh, RemovedLeavesNothing, BatchInv
<1>6. KeptInv' /\ RemovalInv'
  BY <1>1, <1>2, <1>3 DEF KeptInv, RemovalInv
<1> QED BY <1>4, <1>5, <1>6

\* The invariant of removal holds at the start.
LEMMA StoresStart == StoresInit => StoresInv
BY DEF StoresInit, StoresInv, StoresTypeOK, IdleWork, DerivedHaveCatalog, OrphansAreFresh, RemovedLeavesNothing,
       BatchInv, KeptInv, RemovalInv, Removal, Deleting

\* Every step keeps it.
LEMMA StoresStep == StoresInv /\ [StoresNext]_storeVars => StoresInv'
<1> SUFFICES ASSUME StoresInv, [StoresNext]_storeVars
             PROVE  StoresInv'
  OBVIOUS
<1>1. CASE UNCHANGED storeVars
  BY <1>1 DEF storeVars, StoresInv, StoresTypeOK, DerivedHaveCatalog, OrphansAreFresh, RemovedLeavesNothing,
              BatchInv, KeptInv, RemovalInv
<1>2. CASE LookAtBatch
  BY <1>2, LookKeepsInv
<1>3. CASE DeleteFromOne
  BY <1>3, DeleteKeepsInv
<1>4. CASE BatchFails
  BY <1>4, FailKeepsInv
<1>5. CASE RemoveLibrary
  BY <1>5, RemoveKeepsInv
<1>6. CASE StoreJobEnds \/ StoresCrash \/ PruneText \/ PruneImages \/ PruneThumbs
  BY <1>6, EndKeepsInv
<1>7. CASE \E l \in Owners : PruneBegins(l) \/ \E folder \in BOOLEAN : PurgeBegins(l, folder)
  BY <1>7, BeginKeepsInv
<1>8. CASE \/ \E l \in Owners, a \in StoredAssets : EditLibrary(l, a)
           \/ \E a \in StoredAssets : FileGoes(a) \/ EnsureBegins(a) \/ EnsureStores(a)
  BY <1>8, BesideKeepsInv
<1> QED BY <1>1, <1>2, <1>3, <1>4, <1>5, <1>6, <1>7, <1>8 DEF StoresNext

\* Only the last transaction of a batch takes catalog rows, and it takes the
\* batch, which holds nothing that was found covered.
LEMMA DeletionKeepsCovered ==
    ASSUME StoresInv, [StoresNext]_storeVars, work.at \in Deleting, work.kind # "prune"
    PROVE  (catalog \ catalog') \cap keptBy = {}
<1>1. work \in Removal /\ work.batch \cap keptBy = {}
  BY StagesDiffer DEF StoresInv, KeptInv
<1>2. catalog \ catalog' \subseteq work.batch
  <2>1. CASE DeleteFromOne
    BY <1>1, <2>1 DEF DeleteFromOne
  <2>2. CASE ~DeleteFromOne
    BY <2>2 DEF StoresNext, storeVars, rowVars, LookAtBatch, BatchFails, RemoveLibrary, StoreJobEnds, PruneText,
                PruneImages, PruneThumbs, StoresCrash, PruneBegins, PurgeBegins, JobStarts, EditLibrary, FileGoes,
                EnsureBegins, EnsureStores
  <2> QED BY <2>1, <2>2
<1> QED BY <1>1, <1>2

\* The invariant of removal is one.
THEOREM StoresInvariant == StoresSpec => []StoresInv
BY StoresStart, StoresStep, PTL DEF StoresSpec

\* Whatever fails, crashes or is edited between the transactions of the four
\* databases, text and image rows never outlive the catalog row that leads a
\* retry to them, orphaned thumbnails are gone after the next maintenance, a
\* removed library leaves nothing of its own, and no purge takes what another
\* library covered when its batch was read (delete_asset_batch, run_library_purge).
THEOREM RemovalIsAlwaysSafe == StoresSpec => RemovalIsSafe
<1>1. StoresInv => DerivedHaveCatalog /\ OrphansAreFresh /\ RemovedLeavesNothing
  BY DEF StoresInv
<1>2. StoresInv /\ [StoresNext]_storeVars =>
        [work.at \in Deleting /\ work.kind # "prune" => (catalog \ catalog') \cap keptBy = {}]_storeVars
  BY DeletionKeepsCovered
<1> QED BY <1>1, <1>2, StoresInvariant, PTL DEF StoresSpec, RemovalIsSafe, CoveredKept

-----------------------------------------------------------------------------
(* Texts and their vectors.                                                 *)

\* The invariant makes the property: a state row that matches a text stands for
\* a vector of that revision and of the declared model.
LEMMA TextInvSuffices == TextInv => TextsSearchable
<1> SUFFICES ASSUME TextInv
             PROVE  TextsSearchable
  OBVIOUS
<1>1. \A a \in AllAssets : Matches(a) => /\ textVectors[a] # NoVector /\ textVectors[a].model = declared
                                         /\ textVectors[a].fp = ocrRows[a].fp
  BY DEF TextInv, StateHasVector, Matches
<1>2. OneModelSearched /\ VectorOfRevision
  BY <1>1 DEF OneModelSearched, VectorOfRevision, Searchable
<1>3. NothingForgotten
  BY <1>1 DEF NothingForgotten, WithText
<1>4. PassCovers
  BY <1>1 DEF TextInv, PassInv, PassCovers, PendingText, Searchable, WithText
<1> QED BY <1>2, <1>3, <1>4 DEF TextsSearchable

\* A database may start empty, or with the rows of assets the catalog lost.
LEMMA TextStart == TextInit => TextInv
<1> SUFFICES ASSUME TextInit
             PROVE  TextInv
  OBVIOUS
<1>1. TextTypeOK
  BY DEF TextInit, TextTypeOK, NoText, NoVector, IdlePass
<1>2. StateHasVector
  BY DEF TextInit, StateHasVector, NoVector, AllAssets
<1>3. PassInv
  BY DEF TextInit, PassInv, IdlePass
<1> QED BY <1>1, <1>2, <1>3 DEF TextInv

\* A step that leaves the tables alone, and the build or the work it ends.
LEMMA TablesKept ==
    ASSUME TextTypeOK, StateHasVector, UNCHANGED <<ocrRows, embedState, textVectors, declared>>,
           revision' \in [AllAssets -> Nat], build' \in Nat \ {0}, "at" \in DOMAIN pass'
    PROVE  TextTypeOK' /\ StateHasVector'
BY DEF TextTypeOK, StateHasVector

\* Whatever begins, ends or dies between two transactions of the text tables.
LEMMA BetweenTransactions ==
    ASSUME TextInv, \/ TextCrash \/ JobLeaves \/ TextOcrEnds \/ NextBacklog \/ PassDone
                    \/ \E l \in TextLibraries, b \in BOOLEAN : ScanBegins(l, b) \/ EmbedJobBegins(l, b)
                    \/ \E a \in TextAssets : Cataloged(a)
    PROVE  TextInv'
<1> USE TextAssumption DEF TextInv
<1>1. CASE TextCrash
  <2>1. build' \in Nat \ {0}
    BY <1>1 DEF TextCrash, TextTypeOK
  <2> QED BY <1>1, <2>1, TablesKept DEF TextCrash, IdlePass, PassInv, TextTypeOK
<1>2. CASE JobLeaves
  BY <1>2, TablesKept DEF JobLeaves, IdlePass, PassInv, TextTypeOK
<1>3. CASE TextOcrEnds
  BY <1>3, TablesKept DEF TextOcrEnds, PassInv, TextTypeOK
<1>4. CASE NextBacklog
  <2>1. PICK rows \in SUBSET PendingText(pass.lib) :
          pass' = [at |-> "save", lib |-> pass.lib, rows |-> [a \in rows |-> ocrRows[a]]]
    BY <1>4 DEF NextBacklog
  <2>2. DOMAIN pass'.rows = rows /\ \A a \in rows : pass'.rows[a] = ocrRows[a]
    BY <2>1
  <2>3. UNCHANGED <<revision, ocrRows, embedState, textVectors, declared, build>> /\ declared = build
    BY <1>4 DEF NextBacklog, PassInv
  <2>4. pass'.at = "save" /\ "at" \in DOMAIN pass'
    BY <2>1
  <2>5. PassInv'
    BY <2>2, <2>3, <2>4 DEF PassInv
  <2> QED BY <2>3, <2>4, <2>5, TablesKept DEF TextTypeOK
<1>5. CASE PassDone
  <2>1. pass' = [at |-> "done", lib |-> pass.lib] /\ PendingText(pass.lib) = {}
    BY <1>5 DEF PassDone, BacklogEmpty
  <2>2. pass'.at = "done" /\ pass'.lib = pass.lib /\ "at" \in DOMAIN pass'
    BY <2>1
  <2>3. (PendingText(pass.lib))' = {}
    BY <1>5, <2>1, <2>2 DEF PassDone, PendingText, WithText, Matches
  <2> QED BY <1>5, <2>2, <2>3, TablesKept DEF PassDone, PassInv, TextTypeOK
<1>6. CASE \E l \in TextLibraries, b \in BOOLEAN : ScanBegins(l, b) \/ EmbedJobBegins(l, b)
  BY <1>6, TablesKept DEF ScanBegins, EmbedJobBegins, Starts, PassInv, TextTypeOK
<1>7. CASE \E a \in TextAssets : Cataloged(a)
  <2>1. revision' \in [AllAssets -> Nat]
    BY <1>7 DEF Cataloged, TextTypeOK, AllAssets
  <2>2. pass = IdlePass /\ UNCHANGED <<ocrRows, embedState, textVectors, declared, build, pass>>
    BY <1>7 DEF Cataloged
  <2> QED BY <2>1, <2>2, TablesKept DEF IdlePass, PassInv, TextTypeOK
<1> QED BY <1>1, <1>2, <1>3, <1>4, <1>5, <1>6, <1>7

\* A text is recognized anew: its vector stays, with the state row that says for
\* which revision it was made.
LEMMA SaveResultKeepsInv ==
    ASSUME TextInv, SaveResult
    PROVE  TextInv'
<1> USE DEF TextInv
<1>1. PICK a : /\ ocrRows' = [ocrRows EXCEPT ![a] = [fp |-> revision[a], build |-> build]]
               /\ pass' = [pass EXCEPT !.done = @ \cup {a}]
  BY DEF SaveResult
<1>2. a \in AllAssets => [fp |-> revision[a], build |-> build] \in [fp : Nat, build : Nat]
  BY DEF TextTypeOK
<1>3. ocrRows' \in [AllAssets -> [fp : Nat, build : Nat]]
  BY <1>1, <1>2 DEF TextTypeOK
<1>4. pass'.at = "ocr" /\ "at" \in DOMAIN pass'
  BY <1>1 DEF SaveResult, TextTypeOK
<1>5. UNCHANGED <<revision, embedState, textVectors, declared, build>>
  BY DEF SaveResult
<1> QED BY <1>3, <1>4, <1>5 DEF TextTypeOK, StateHasVector, PassInv

\* Another model drops the vectors of the one before with their state rows.
LEMMA SelectKeepsInv ==
    ASSUME TextInv, SelectText
    PROVE  TextInv'
<1> USE DEF TextInv
<1>1. declared' = build /\ UNCHANGED <<revision, ocrRows, build>>
  BY DEF SelectText
<1>2. "at" \in DOMAIN pass' /\ pass'.at \in {"idle", "clear", "embed"}
  BY DEF SelectText, IdlePass
<1>3. CASE ModelChanges
  BY <1>1, <1>2, <1>3 DEF SelectText, NoVectors, NoState, NoVector, TextTypeOK, StateHasVector, PassInv
<1>4. CASE ~ModelChanges
  BY <1>1, <1>2, <1>4 DEF SelectText, ModelChanges, TextTypeOK, StateHasVector, PassInv
<1> QED BY <1>3, <1>4

\* A forced pass clears the vectors of every library with their state rows.
LEMMA ClearKeepsInv ==
    ASSUME TextInv, ClearText
    PROVE  TextInv'
<1> USE DEF TextInv
<1>1. "at" \in DOMAIN pass' /\ pass'.at = "embed"
  BY DEF ClearText, TextTypeOK
<1>2. textVectors' = NoVectors /\ embedState' = NoState /\ UNCHANGED <<revision, ocrRows, declared, build>>
  BY DEF ClearText, ClearedState
<1>3. declared = build
  BY DEF ClearText, PassInv
<1> QED BY <1>1, <1>2, <1>3 DEF NoVectors, NoState, NoVector, TextTypeOK, StateHasVector, PassInv

\* A batch is saved: its texts are still those it was read from, so that the
\* fingerprint copied from the text row is that of the vector.
LEMMA SaveVectorsKeepsInv ==
    ASSUME TextInv, SaveVectors
    PROVE  TextInv'
<1> USE DEF TextInv
<1> DEFINE stored == {a \in DOMAIN pass.rows : ocrRows[a] # NoText}
           vector(a) == [fp |-> pass.rows[a].fp, build |-> pass.rows[a].build, model |-> build]
<1>1. /\ textVectors' = [a \in AllAssets |-> IF a \in stored THEN vector(a) ELSE textVectors[a]]
      /\ embedState' = [a \in AllAssets |-> IF a \in stored THEN ocrRows[a].fp ELSE embedState[a]]
      /\ pass' = IF stored = {} THEN IdlePass ELSE [pass EXCEPT !.at = "embed"]
      /\ UNCHANGED <<revision, ocrRows, declared, build>>
  BY DEF SaveVectors
<1>2. /\ declared = build /\ build \in Nat \ {0}
      /\ \A a \in AllAssets : a \in stored => pass.rows[a] = ocrRows[a]
      /\ \A a \in AllAssets : ocrRows[a] \in [fp : Nat, build : Nat]
  BY DEF SaveVectors, PassInv, TextTypeOK
<1> HIDE DEF stored
<1>3. \A a \in AllAssets : a \in stored => /\ vector(a) \in [fp : Nat, build : Nat, model : Nat]
                                           /\ vector(a).fp = ocrRows[a].fp /\ vector(a).model = declared
                                           /\ vector(a) # NoVector
  BY <1>2 DEF NoVector
<1> HIDE DEF vector
<1>4. "at" \in DOMAIN pass' /\ pass'.at \in {"idle", "embed"}
  BY <1>1 DEF IdlePass, TextTypeOK
<1>5. \A a \in AllAssets : /\ textVectors'[a] = IF a \in stored THEN vector(a) ELSE textVectors[a]
                           /\ embedState'[a] = IF a \in stored THEN ocrRows[a].fp ELSE embedState[a]
  BY <1>1
<1>6. TextTypeOK'
  <2>1. textVectors' \in [AllAssets -> [fp : Nat, build : Nat, model : Nat]]
    BY <1>1, <1>3 DEF TextTypeOK
  <2>2. embedState' \in [AllAssets -> Nat]
    BY <1>1, <1>2 DEF TextTypeOK
  <2> QED BY <1>1, <1>4, <2>1, <2>2 DEF TextTypeOK
<1>7. StateHasVector'
  BY <1>1, <1>2, <1>3, <1>5 DEF StateHasVector
<1>8. PassInv'
  BY <1>1, <1>2, <1>4 DEF PassInv
<1> QED BY <1>6, <1>7, <1>8

\* A purge, the orphans of the idle maintenance, and the sweep of vectors that
\* have no state row: no state row stays without its vector.
LEMMA TextsGo ==
    ASSUME TextInv, (\E a \in TextAssets : DeleteText(a)) \/ PruneOrphanText \/ SweepVectors
    PROVE  TextInv'
<1> USE DEF TextInv
<1>1. CASE \E a \in TextAssets : DeleteText(a)
  <2>1. PICK a \in TextAssets : DeleteText(a)
    BY <1>1
  <2>2. a \in AllAssets /\ UNCHANGED <<declared, build>>
    BY <2>1 DEF AllAssets, DeleteText
  <2>3. ocrRows' \in [AllAssets -> [fp : Nat, build : Nat]] /\ revision' \in [AllAssets -> Nat]
    BY <2>1, <2>2 DEF DeleteText, TextTypeOK, NoText
  <2>4. /\ embedState' = [embedState EXCEPT ![a] = 0] /\ textVectors' = [textVectors EXCEPT ![a] = NoVector]
        /\ NoVector \in [fp : Nat, build : Nat, model : Nat]
    BY <2>1 DEF DeleteText, NoVector
  <2>5. /\ embedState' \in [AllAssets -> Nat] /\ textVectors' \in [AllAssets -> [fp : Nat, build : Nat, model : Nat]]
        /\ \A o \in AllAssets : embedState'[o] # 0 => embedState'[o] = embedState[o] /\ textVectors'[o] = textVectors[o]
    BY <2>2, <2>4 DEF TextTypeOK
  <2>6. pass' = IdlePass
    BY <2>1 DEF DeleteText, Starts
  <2> QED BY <2>2, <2>3, <2>5, <2>6 DEF TextTypeOK, StateHasVector, PassInv, IdlePass
<1>2. CASE PruneOrphanText
  <2>1. /\ UNCHANGED <<revision, textVectors, declared, build>> /\ pass' = [at |-> "sweep"]
        /\ ocrRows' = [a \in AllAssets |-> IF revision[a] = 0 THEN NoText ELSE ocrRows[a]]
        /\ embedState' = [a \in AllAssets |-> IF revision[a] = 0 THEN 0 ELSE embedState[a]]
    BY <1>2 DEF PruneOrphanText
  <2>2. TextTypeOK'
    BY <2>1 DEF TextTypeOK, NoText
  <2> QED BY <2>1, <2>2 DEF TextTypeOK, StateHasVector, PassInv
<1>3. CASE SweepVectors
  <2>1. /\ UNCHANGED <<revision, ocrRows, embedState, declared, build>> /\ pass' = IdlePass
        /\ textVectors' = [a \in AllAssets |-> IF embedState[a] = 0 THEN NoVector ELSE textVectors[a]]
    BY <1>3 DEF SweepVectors
  <2>2. TextTypeOK'
    BY <2>1 DEF TextTypeOK, NoVector, IdlePass
  <2> QED BY <2>1, <2>2 DEF TextTypeOK, StateHasVector, PassInv, IdlePass
<1> QED BY <1>1, <1>2, <1>3

LEMMA TextStep == TextInv /\ [TextNext]_textVars => TextInv'
<1> SUFFICES ASSUME TextInv, [TextNext]_textVars
             PROVE  TextInv'
  OBVIOUS
<1>1. CASE UNCHANGED textVars
  BY <1>1 DEF textVars, TextInv, TextTypeOK, StateHasVector, PassInv, PendingText, WithText, Matches
<1>2. CASE \/ TextCrash \/ JobLeaves \/ TextOcrEnds \/ NextBacklog \/ PassDone
           \/ \E l \in TextLibraries, b \in BOOLEAN : ScanBegins(l, b) \/ EmbedJobBegins(l, b)
           \/ \E a \in TextAssets : Cataloged(a)
  BY <1>2, BetweenTransactions
<1>3. CASE SaveResult \/ SelectText \/ ClearText \/ SaveVectors
  BY <1>3, SaveResultKeepsInv, SelectKeepsInv, ClearKeepsInv, SaveVectorsKeepsInv
<1>4. CASE (\E a \in TextAssets : DeleteText(a)) \/ PruneOrphanText \/ SweepVectors
  BY <1>4, TextsGo
<1> QED BY <1>1, <1>2, <1>3, <1>4 DEF TextNext, TextSteps

\* The invariant of the text database is one.
THEOREM TextInvariant == TextSpec => []TextInv
BY TextStart, TextStep, PTL DEF TextSpec

\* For any assets, libraries and builds, across forced passes cut short, changes
\* of the model, deletions and crashes: the vectors a search compares are of one
\* model and of the revision on record, a text without one is still owed it, and
\* a pass that ran to its end owes none (select and run of the text-embedding
\* job, save_text_embeddings, delete_assets, prune_orphans).
THEOREM TextsAlwaysSearchable == TextSpec => []TextsSearchable
BY TextInvariant, TextInvSuffices, PTL

-----------------------------------------------------------------------------
(* Opening and upgrading the stores.                                         *)

Process == [at : Places, store : Stores, read : Nat, off : BOOLEAN, alone : BOOLEAN, failed : BOOLEAN]
Rows == [id : 1 .. MaxSampleId, asset : 1 .. MaxSampleId, time : Nat]

\* Versions are numbers, and the current one is none of a store yet to be made.
LEMMA VersionsTyped ==
    /\ "catalog" \in Stores /\ "images" \in Stores
    /\ \A s \in Stores : /\ CurrentVersion(s) \in Nat \ {0} /\ OldestMigrated[s] \in Nat \ {0} /\ VacuumFrom[s] \in Nat
                         /\ ~Supported(s, 0)
BY UpgradeAssumption DEF Stores, CurrentVersion, Supported

\* Vectors that are there once each are as many as what they stand for.
LEMMA OncePerPair ==
    ASSUME UpgradeTypeOK, VectorsInv
    PROVE  Cardinality(vectorTable) = Cardinality(owed)
<1> DEFINE f == [v \in vectorTable |-> <<v.asset, v.time>>]
<1>1. f \in Bijection(vectorTable, owed)
  <2>1. f \in [vectorTable -> owed]
    BY DEF VectorsInv
  <2>2. \A v, w \in vectorTable : f[v] = f[w] => v = w
    BY DEF VectorsInv
  <2>3. \A p \in owed : \E v \in vectorTable : f[v] = p
    BY DEF VectorsInv
  <2> QED BY <2>1, <2>2, <2>3 DEF Bijection, Injection, Surjection, IsInjective
<1>2. ExistsBijection(vectorTable, owed)
  BY <1>1 DEF ExistsBijection
<1> QED BY <1>2, FS_Bijection DEF UpgradeTypeOK

\* The invariant makes the property.
LEMMA UpgradeInvSuffices == UpgradeInv => UpgradeIsSafe
<1> SUFFICES ASSUME UpgradeInv
             PROVE  UpgradeIsSafe
  OBVIOUS
<1> USE DEF UpgradeInv
<1>1. VectorsSurvive
  BY OncePerPair DEF VectorsInv, VectorsSurvive
<1>2. ReadersSeeWhole
  BY DEF VectorsInv, ReadersSeeWhole, ReaderAccepts
<1>3. LoneStartSucceeds
  BY DEF OpenerPlaced, Unopenable, LoneStartSucceeds
<1>4. OldChoiceKept
  BY DEF OpenerPlaced, SchemaPlaced, ChoicePlaced, ChoiceKept, ImagePlaces, OldChoiceKept, At
<1> QED BY <1>1, <1>2, <1>3, <1>4 DEF UpgradeIsSafe

\* A new installation, or the stores of an older version.
LEMMA UpgradeStart == UpgradeInit => UpgradeInv
<1> SUFFICES ASSUME UpgradeInit
             PROVE  UpgradeInv
  OBVIOUS
<1>1. /\ version \in [Stores -> Nat] /\ \A s \in Stores : version[s] \in FoundVersions[s]
  BY UpgradeAssumption DEF UpgradeInit, Stores
<1>2. vacuumed \in [Stores -> BOOLEAN] /\ VacuumBeforeVersion
  <2> DEFINE late(s) == version[s] > VacuumFrom[s]
  <2>1. vacuumed = [s \in Stores |-> late(s)]
    BY DEF UpgradeInit
  <2>2. \A s \in Stores : late(s) \in BOOLEAN
    BY <1>1, VersionsTyped
  <2> HIDE DEF late
  <2>3. vacuumed \in [Stores -> BOOLEAN] /\ \A s \in Stores : vacuumed[s] = late(s)
    BY <2>1, <2>2
  <2> QED BY <2>3, Zenon DEF VacuumBeforeVersion, late
<1>3. \A o \in Openers : opener[o] = Closed
  BY DEF UpgradeInit
<1>4. opener \in [Openers -> Process]
  BY DEF UpgradeInit, Closed, Process, Places, Stores
<1>5. vectorTable \subseteq OldVectors
  BY DEF UpgradeInit
<1>6. vectorTable \subseteq Rows /\ IsFiniteSet(vectorTable)
  BY <1>5, UpgradeAssumption, FS_Subset DEF Rows
<1>7. layout \in {"none", "assets", "samples"} /\ fits \in BOOLEAN /\ copied \in BOOLEAN /\ legacyOff \in BOOLEAN
  BY <1>1, UpgradeAssumption DEF UpgradeInit
<1>8. copied <=> version["images"] >= ImagesCurrent
  BY DEF UpgradeInit
<1>9. UpgradeTypeOK
  BY <1>1, <1>2, <1>4, <1>6, <1>7 DEF UpgradeTypeOK, Process, Rows
<1>10. VectorsInv
  <2>1. \A v, w \in vectorTable : v.id = w.id \/ (v.asset = w.asset /\ v.time = w.time) => v = w
    BY <1>5, UpgradeAssumption
  <2>2. layout = "none" => vectorTable = {}
    BY DEF UpgradeInit
  <2>3. layout = "assets" => ~copied /\ \A v \in vectorTable : v.time = 0
    <3>1. layout = "assets" => version["images"] \in 1 .. 3 /\ vectorTable = {v \in OldVectors : v.time = 0}
      BY DEF UpgradeInit
    <3> QED BY <1>8, <3>1, UpgradeAssumption
  <2>4. version["images"] = 0 => layout = "none"
    BY DEF UpgradeInit
  <2> QED BY <2>1, <2>2, <2>3, <2>4 DEF UpgradeInit, VectorsInv
<1>11. ChoiceInv
  BY DEF UpgradeInit, ChoiceInv, ChoiceKept
<1>12. AloneInv /\ \A o \in Openers : OpenerPlaced(opener[o])
  BY <1>3 DEF Closed, AloneInv, OpenerPlaced, SchemaPlaced, IndexPlaced, ChoicePlaced, ImagePlaces
<1> QED BY <1>2, <1>9, <1>10, <1>11, <1>12 DEF UpgradeInv

\* What no step of a process takes from the others.
Monotone ==
    /\ fits' = fits
    /\ \A s \in Stores : /\ version'[s] \in {version[s], CurrentVersion(s)}
                         /\ vacuumed[s] => vacuumed'[s]
                         /\ version[s] # 0 /\ ~Supported(s, version[s]) => version'[s] = version[s]
    /\ layout # "none" => layout' # "none"
    /\ layout # "assets" => layout' # "assets"
    /\ layout = "samples" => layout' = "samples"
    /\ copied => copied'
    /\ ChoiceKept => ChoiceKept'
    /\ IsMoved => IsMoved' \/ \A x \in Openers : opener[x].at # "move"

\* A process that did not move is where it was, whatever moved beside it.
LEMMA OthersStay ==
    ASSUME UpgradeInv, Monotone, NEW x \in Openers,
           opener[x].at = "down" \/ ~opener[x].alone,
           opener'[x].at = opener[x].at, opener'[x].store = opener[x].store, opener'[x].read = opener[x].read,
           opener'[x].off = opener[x].off, opener'[x].failed = opener[x].failed, opener'[x].alone => opener[x].alone
    PROVE  OpenerPlaced(opener[x])'
<1>1. opener[x] \in Process /\ OpenerPlaced(opener[x]) /\ opener[x].store \in Stores
  BY DEF UpgradeInv, UpgradeTypeOK, Process
<1>2. opener[x].at # "down" => ~opener'[x].alone
  OBVIOUS
<1>3. SchemaPlaced(opener[x])'
  BY <1>1, <1>2, VersionsTyped DEF OpenerPlaced, SchemaPlaced, Monotone, NeedsVacuum, ImagePlaces
<1>4. IndexPlaced(opener[x])'
  BY <1>1, <1>2 DEF OpenerPlaced, IndexPlaced, Monotone
<1>5. ChoicePlaced(opener[x])'
  BY <1>1 DEF OpenerPlaced, ChoicePlaced, Monotone
<1>6. Unopenable => Unopenable'
  BY DEF Unopenable, Monotone
<1>7. (opener[x].failed /\ opener[x].alone => Unopenable)'
  BY <1>1, <1>6 DEF OpenerPlaced
<1> QED BY <1>3, <1>4, <1>5, <1>7 DEF OpenerPlaced

\* A step of one process, which is not down.
LEMMA StepOf ==
    ASSUME UpgradeInv, Monotone, NEW o \in Openers, opener[o].at # "down",
           \A x \in Openers \ {o} : opener'[x] = opener[x],
           opener'[o].at # "down" /\ opener'[o].alone => opener[o].alone,
           UpgradeTypeOK', VectorsInv', ChoiceInv', VacuumBeforeVersion', OpenerPlaced(opener[o])'
    PROVE  UpgradeInv'
<1>1. \A x \in Openers \ {o} : opener[x].at = "down" \/ ~opener[x].alone
  BY DEF UpgradeInv, AloneInv
<1>2. \A x \in Openers \ {o} : OpenerPlaced(opener[x])'
  BY <1>1, OthersStay
<1>3. AloneInv'
  BY <1>1 DEF UpgradeInv, AloneInv
<1> QED BY <1>2, <1>3 DEF UpgradeInv

\* Where a step leads.
LEMMA ToPlace ==
    ASSUME UpgradeTypeOK, NEW o \in Openers, NEW place \in Places, To(o, place)
    PROVE  /\ opener' \in [Openers -> Process] /\ \A x \in Openers \ {o} : opener'[x] = opener[x]
           /\ opener'[o] = [opener[o] EXCEPT !.at = place] /\ opener'[o].at = place
           /\ opener'[o].store = opener[o].store /\ opener'[o].read = opener[o].read
           /\ opener'[o].off = opener[o].off /\ opener'[o].alone = opener[o].alone
           /\ opener'[o].failed = opener[o].failed
<1>1. \A r \in Process : LET n == [r EXCEPT !.at = place] IN
        /\ n \in Process /\ n.at = place /\ n.store = r.store /\ n.read = r.read /\ n.off = r.off
        /\ n.alone = r.alone /\ n.failed = r.failed
  BY DEF Process
<1>2. opener[o] \in Process /\ opener' = [opener EXCEPT ![o] = [opener[o] EXCEPT !.at = place]]
  BY DEF To, Goes, UpgradeTypeOK, Process
<1> QED BY <1>1, <1>2 DEF UpgradeTypeOK, Process

\* A process that fails to open the stores is down and leaves nothing behind but
\* its failure.
LEMMA FailsPlaced ==
    ASSUME UpgradeTypeOK, NEW o \in Openers, FailsToOpen(o), opener[o].alone => Unopenable'
    PROVE  /\ opener' \in [Openers -> Process] /\ \A x \in Openers \ {o} : opener'[x] = opener[x]
           /\ opener'[o].alone = opener[o].alone /\ OpenerPlaced(opener[o])'
<1>1. opener[o].alone \in BOOLEAN /\ opener \in [Openers -> Process]
  BY DEF UpgradeTypeOK, Process
<1> DEFINE r == [Closed EXCEPT !.failed = TRUE, !.alone = opener[o].alone]
<1>2. r \in Process /\ r.at = "down" /\ r.alone = opener[o].alone
  BY <1>1 DEF Closed, Process, Places, Stores
<1>3. opener' = [opener EXCEPT ![o] = r]
  BY DEF FailsToOpen, Goes
<1> HIDE DEF r
<1>4. opener' \in [Openers -> Process] /\ opener'[o] = r /\ \A x \in Openers \ {o} : opener'[x] = opener[x]
  BY <1>1, <1>2, <1>3
<1>5. OpenerPlaced(opener[o])'
  BY <1>2, <1>4 DEF OpenerPlaced, SchemaPlaced, IndexPlaced, ChoicePlaced, ImagePlaces
<1> QED BY <1>2, <1>4, <1>5

\* A step that leaves the stores and the choices alone.
LEMMA StoresKept ==
    ASSUME UpgradeInv, UNCHANGED <<version, vacuumed, imageStore, choices, histories>>
    PROVE  /\ Monotone /\ VectorsInv' /\ ChoiceInv' /\ VacuumBeforeVersion' /\ (Unopenable => Unopenable')
           /\ opener' \in [Openers -> Process] => UpgradeTypeOK'
<1> USE DEF UpgradeInv, imageStore, choices, histories
<1>1. Monotone
  BY DEF Monotone, ChoiceKept, IsMoved
<1>2. VectorsInv' /\ ChoiceInv' /\ VacuumBeforeVersion' /\ (Unopenable => Unopenable')
  BY DEF VectorsInv, ChoiceInv, ChoiceKept, VacuumBeforeVersion, Unopenable
<1> QED BY <1>1, <1>2 DEF UpgradeTypeOK, Process

\* The process that moved, when it only looked.
LEMMA LookerPlaced ==
    ASSUME UpgradeTypeOK, NEW o \in Openers, OpenerPlaced(opener[o]),
           \/ At(o, "table") /\ To(o, "create") /\ layout = "none"
           \/ At(o, "table") /\ To(o, "move") /\ layout = "assets"
           \/ At(o, "table") /\ To(o, "marker") /\ layout = "samples"
           \/ At(o, "marker") /\ To(o, IF copied THEN "width" ELSE "keys")
           \/ At(o, "width") /\ To(o, "ready"),
           UNCHANGED <<version, vacuumed, layout, fits, vectorTable, copied, videos, wantedBy>>
    PROVE  /\ opener' \in [Openers -> Process] /\ \A x \in Openers \ {o} : opener'[x] = opener[x]
           /\ opener'[o].alone = opener[o].alone /\ OpenerPlaced(opener[o])'
<1>1. PICK place \in Places : /\ To(o, place)
        /\ \/ opener[o].at = "table" /\ place = "create" /\ layout = "none"
           \/ opener[o].at = "table" /\ place = "move" /\ layout = "assets"
           \/ opener[o].at = "table" /\ place = "marker" /\ layout = "samples"
           \/ opener[o].at = "marker" /\ place = "width" /\ copied
           \/ opener[o].at = "marker" /\ place = "keys" /\ ~copied
           \/ opener[o].at = "width" /\ place = "ready"
  BY DEF At, Places, ImagePlaces
<1>2. /\ opener' \in [Openers -> Process] /\ \A x \in Openers \ {o} : opener'[x] = opener[x]
      /\ opener'[o].at = place
      /\ opener'[o].store = opener[o].store /\ opener'[o].read = opener[o].read
      /\ opener'[o].off = opener[o].off /\ opener'[o].alone = opener[o].alone
      /\ opener'[o].failed = opener[o].failed
  BY <1>1, ToPlace
<1>3. SchemaPlaced(opener[o])'
  BY <1>1, <1>2 DEF OpenerPlaced, SchemaPlaced, ImagePlaces
<1>4. IndexPlaced(opener[o])'
  BY <1>1, <1>2 DEF OpenerPlaced, IndexPlaced, IsMoved
<1>5. ChoicePlaced(opener[o])'
  BY <1>1, <1>2 DEF OpenerPlaced, ChoicePlaced, ChoiceKept
<1>6. (opener[o].failed /\ opener[o].alone => Unopenable)'
  BY <1>1, <1>2 DEF OpenerPlaced, Unopenable
<1> QED BY <1>2, <1>3, <1>4, <1>5, <1>6 DEF OpenerPlaced

\* A process looks at the stores and goes on, gives up or is killed.
LEMMA LooksKeepInv ==
    ASSUME UpgradeInv, NEW o \in Openers,
           Kill(o) \/ ReadVersion(o) \/ LookAtTable(o) \/ LookAtMarker(o) \/ CheckWidth(o)
    PROVE  UpgradeInv'
<1> USE DEF UpgradeInv
<1>1. /\ opener[o].at # "down" /\ opener[o] \in Process /\ OpenerPlaced(opener[o])
      /\ opener \in [Openers -> Process] /\ opener[o].store \in Stores /\ version[opener[o].store] \in Nat
  BY DEF Kill, ReadVersion, LookAtTable, LookAtMarker, CheckWidth, At, UpgradeTypeOK, Process
<1>2. UNCHANGED <<version, vacuumed, imageStore, choices, histories>>
  BY DEF Kill, ReadVersion, LookAtTable, LookAtMarker, CheckWidth
<1>3. UNCHANGED <<version, vacuumed, layout, fits, vectorTable, sampleRows, copied, videos, wantedBy>>
  BY <1>2 DEF imageStore, choices, histories
<1>4. /\ opener' \in [Openers -> Process] /\ \A x \in Openers \ {o} : opener'[x] = opener[x]
      /\ opener'[o].at # "down" /\ opener'[o].alone => opener[o].alone
      /\ OpenerPlaced(opener[o])'
  <2>1. CASE Kill(o)
    <3>1. opener' = [opener EXCEPT ![o] = Closed] /\ Closed \in Process
      BY <2>1 DEF Kill, Goes, Closed, Process, Places, Stores
    <3>2. opener'[o].at = "down" /\ opener'[o].failed = FALSE
      BY <1>1, <3>1 DEF Closed
    <3> QED BY <1>1, <3>1, <3>2 DEF OpenerPlaced, SchemaPlaced, IndexPlaced, ChoicePlaced, ImagePlaces
  <2>2. CASE ReadVersion(o)
    <3> DEFINE seen == version[opener[o].store]
               place == IF NeedsVacuum(opener[o].store, seen) THEN "vacuum" ELSE "schema"
    <3>1. \A r \in Process : LET n == [r EXCEPT !.read = seen, !.at = place] IN
            /\ n \in Process /\ n.at = place /\ n.store = r.store /\ n.read = seen /\ n.off = r.off
            /\ n.alone = r.alone /\ n.failed = r.failed
      BY <1>1 DEF Process, Places
    <3>2. opener[o].at = "version" /\ opener' = [opener EXCEPT ![o] = [opener[o] EXCEPT !.read = seen, !.at = place]]
      BY <2>2 DEF ReadVersion, Goes, At
    <3> HIDE DEF seen, place
    <3>3. /\ opener' \in [Openers -> Process] /\ \A x \in Openers \ {o} : opener'[x] = opener[x]
          /\ opener'[o].at = place /\ opener'[o].store = opener[o].store /\ opener'[o].read = seen
          /\ opener'[o].off = opener[o].off /\ opener'[o].alone = opener[o].alone
          /\ opener'[o].failed = opener[o].failed
      BY <1>1, <3>1, <3>2
    <3>4. SchemaPlaced(opener[o])'
      BY <1>1, <1>3, <3>3, VersionsTyped DEF SchemaPlaced, NeedsVacuum, ImagePlaces, seen, place
    <3>5. IndexPlaced(opener[o])'
      BY <3>3 DEF IndexPlaced, place
    <3>6. ChoicePlaced(opener[o])'
      BY <1>1, <1>3, <3>2, <3>3 DEF OpenerPlaced, ChoicePlaced, ChoiceKept, place
    <3>7. (opener[o].failed /\ opener[o].alone => Unopenable)'
      BY <1>1, <1>3, <3>3 DEF OpenerPlaced, Unopenable
    <3> QED BY <3>3, <3>4, <3>5, <3>6, <3>7 DEF OpenerPlaced
  <2>3. CASE LookAtTable(o)
    <3>1. CASE layout = "assets" /\ ~fits /\ FailsToOpen(o)
      BY <1>3, <3>1, FailsPlaced DEF Unopenable
    <3>2. CASE ~(layout = "assets" /\ ~fits /\ FailsToOpen(o))
      BY <1>1, <1>3, <2>3, <3>2, LookerPlaced DEF LookAtTable
    <3> QED BY <3>1, <3>2
  <2>4. CASE LookAtMarker(o)
    BY <1>1, <1>3, <2>4, LookerPlaced DEF LookAtMarker
  <2>5. CASE CheckWidth(o)
    <3>1. CASE ~fits
      BY <1>3, <2>5, <3>1, FailsPlaced DEF CheckWidth, Unopenable
    <3>2. CASE fits
      BY <1>1, <1>3, <2>5, <3>2, LookerPlaced DEF CheckWidth
    <3> QED BY <3>1, <3>2
  <2> QED BY <2>1, <2>2, <2>3, <2>4, <2>5 DEF Kill
<1> QED BY <1>1, <1>2, <1>4, StepOf, StoresKept

\* The file of a store gets the current layout, before its migrations.
LEMMA VacuumKeepsInv ==
    ASSUME UpgradeInv, NEW o \in Openers, Vacuum(o)
    PROVE  UpgradeInv'
<1> USE DEF UpgradeInv
<1>1. /\ opener[o].at = "vacuum" /\ opener[o] \in Process /\ opener[o].store \in Stores /\ OpenerPlaced(opener[o])
      /\ vacuumed' = [vacuumed EXCEPT ![opener[o].store] = TRUE]
      /\ UNCHANGED <<version, layout, fits, vectorTable, sampleRows, copied, videos, wantedBy, legacyOff, owed>>
  BY DEF Vacuum, At, UpgradeTypeOK, Process, imageStore, choices, histories
<1>2. "schema" \in Places
  BY DEF Places
<1>3. /\ opener' \in [Openers -> Process] /\ \A x \in Openers \ {o} : opener'[x] = opener[x]
      /\ opener'[o].at = "schema" /\ opener'[o].store = opener[o].store /\ opener'[o].read = opener[o].read
      /\ opener'[o].off = opener[o].off /\ opener'[o].alone = opener[o].alone
      /\ opener'[o].failed = opener[o].failed
  BY <1>2, ToPlace DEF Vacuum
<1>4. /\ vacuumed' \in [Stores -> BOOLEAN] /\ vacuumed'[opener[o].store] = TRUE
      /\ \A s \in Stores : vacuumed[s] => vacuumed'[s]
  BY <1>1 DEF UpgradeTypeOK
<1>5. Monotone
  BY <1>1, <1>4 DEF Monotone, ChoiceKept, IsMoved
<1>6. UpgradeTypeOK' /\ VectorsInv' /\ ChoiceInv'
  BY <1>1, <1>3, <1>4 DEF UpgradeTypeOK, Process, VectorsInv, ChoiceInv, ChoiceKept
<1>7. VacuumBeforeVersion'
  BY <1>1, <1>4 DEF VacuumBeforeVersion
<1>8. OpenerPlaced(opener[o])'
  BY <1>1, <1>3, <1>4 DEF OpenerPlaced, SchemaPlaced, IndexPlaced, ChoicePlaced, ChoiceKept, Unopenable, ImagePlaces
<1> QED BY <1>1, <1>3, <1>5, <1>6, <1>7, <1>8, StepOf

\* A store is created, or brought to the current version.
LEMMA SchemaKeepsInv ==
    ASSUME UpgradeInv, NEW o \in Openers, Schema(o)
    PROVE  UpgradeInv'
<1> USE DEF UpgradeInv
<1> DEFINE store == opener[o].store
<1>1. /\ opener[o].at = "schema" /\ opener[o] \in Process /\ store \in Stores /\ OpenerPlaced(opener[o])
      /\ opener[o].read \in Nat /\ version[store] \in Nat
      /\ UNCHANGED <<videos, wantedBy, legacyOff, owed>>
  BY DEF Schema, At, UpgradeTypeOK, Process, choices, histories
<1>2. CASE FailsToOpen(o) /\ UNCHANGED <<version, vacuumed, imageStore>> /\ opener[o].read = 0 /\ version[store] # 0
  <2>1. ~opener[o].alone
    BY <1>1, <1>2 DEF OpenerPlaced, SchemaPlaced
  <2>2. /\ opener' \in [Openers -> Process] /\ \A x \in Openers \ {o} : opener'[x] = opener[x]
        /\ opener'[o].alone = opener[o].alone /\ OpenerPlaced(opener[o])'
    BY <1>2, <2>1, FailsPlaced
  <2>3. UNCHANGED <<version, vacuumed, imageStore, choices, histories>>
    BY <1>2 DEF Schema
  <2> QED BY <1>1, <2>2, <2>3, StepOf, StoresKept
<1>3. CASE /\ FailsToOpen(o) /\ UNCHANGED <<version, vacuumed, imageStore>>
           /\ opener[o].read # 0 /\ ~Supported(store, version[store])
  <2>1. version[store] # 0
    BY <1>1, <1>3, VersionsTyped DEF OpenerPlaced, SchemaPlaced
  <2>2. Unopenable /\ UNCHANGED <<version, fits>>
    BY <1>1, <1>3, <2>1 DEF Unopenable, imageStore
  <2>3. Unopenable'
    BY <2>2 DEF Unopenable
  <2>4. /\ opener' \in [Openers -> Process] /\ \A x \in Openers \ {o} : opener'[x] = opener[x]
        /\ opener'[o].alone = opener[o].alone /\ OpenerPlaced(opener[o])'
    BY <1>3, <2>3, FailsPlaced
  <2>5. UNCHANGED <<version, vacuumed, imageStore, choices, histories>>
    BY <1>3 DEF Schema
  <2> QED BY <1>1, <2>4, <2>5, StepOf, StoresKept
<1>4. CASE /\ To(o, AfterSchema(store)) /\ Migrated(store)
           /\ \/ version[store] = 0 /\ vacuumed' = [vacuumed EXCEPT ![store] = TRUE]
              \/ opener[o].read # 0 /\ Supported(store, version[store]) /\ UNCHANGED vacuumed
  <2>1. AfterSchema(store) \in Places /\ AfterSchema(store) = IF store = "catalog" THEN "copy" ELSE "table"
    BY DEF AfterSchema, Places, ImagePlaces
  <2>2. /\ opener' \in [Openers -> Process] /\ \A x \in Openers \ {o} : opener'[x] = opener[x]
        /\ opener'[o].at = AfterSchema(store) /\ opener'[o].store = store /\ opener'[o].read = opener[o].read
        /\ opener'[o].off = opener[o].off /\ opener'[o].alone = opener[o].alone
        /\ opener'[o].failed = opener[o].failed
    BY <1>4, <2>1, ToPlace
  <2>3. /\ version' = [version EXCEPT ![store] = CurrentVersion(store)]
        /\ copied' = (copied \/ (store = "images" /\ version["images"] = 0))
        /\ UNCHANGED <<layout, fits, vectorTable, sampleRows>>
    BY <1>4 DEF Migrated
  <2> HIDE DEF store
  <2>4. /\ version' \in [Stores -> Nat] /\ version'[store] = CurrentVersion(store)
        /\ \A s \in Stores \ {store} : version'[s] = version[s]
        /\ CurrentVersion(store) \in Nat \ {0} /\ VacuumFrom[store] \in Nat /\ OldestMigrated[store] \in Nat \ {0}
    BY <1>1, <2>3, VersionsTyped DEF UpgradeTypeOK
  <2>5. /\ vacuumed' \in [Stores -> BOOLEAN] /\ \A s \in Stores : vacuumed[s] => vacuumed'[s]
        /\ version[store] = 0 => vacuumed'[store]
    BY <1>1, <1>4, <2>3, VersionsTyped DEF UpgradeTypeOK
  <2>6. VacuumBeforeVersion'
    <3> SUFFICES ASSUME NEW s \in Stores, version'[s] > VacuumFrom[s]
                 PROVE  vacuumed'[s]
      BY DEF VacuumBeforeVersion
    <3>1. CASE s # store
      BY <2>4, <2>5, <3>1 DEF VacuumBeforeVersion
    <3>2. CASE s = store /\ version[store] # 0
      <4>1. /\ opener[o].read # 0 /\ version[store] \in {opener[o].read, CurrentVersion(store)}
            /\ version[store] \in OldestMigrated[store] .. CurrentVersion(store)
        BY <1>1, <1>4, <3>2 DEF OpenerPlaced, SchemaPlaced, Supported, store
      <4>2. CASE version[store] > VacuumFrom[store]
        BY <1>1, <2>5, <3>2, <4>2 DEF VacuumBeforeVersion
      <4>3. CASE version[store] <= VacuumFrom[store]
        <5>1. version[store] = opener[o].read
          BY <2>4, <3>2, <4>1, <4>3
        <5>2. NeedsVacuum(store, opener[o].read)
          BY <1>1, <2>4, <4>1, <4>3, <5>1 DEF NeedsVacuum
        <5> QED BY <1>1, <2>5, <3>2, <5>2 DEF OpenerPlaced, SchemaPlaced, store
      <4> QED BY <1>1, <2>4, <4>2, <4>3
    <3>3. CASE s = store /\ version[store] = 0
      BY <2>5, <3>3
    <3> QED BY <3>1, <3>2, <3>3
  <2>7. version[store] = 0 \/ Supported(store, version[store])
    BY <1>4
  <2>8. Monotone
    BY <1>1, <2>3, <2>4, <2>5, <2>7 DEF Monotone, ChoiceKept, IsMoved
  <2>9. VectorsInv'
    <3>1. version["images"] = 0 => vectorTable = {}
      BY DEF VectorsInv
    <3>2. version'["images"] = 0 => version["images"] = 0
      BY <2>4, VersionsTyped
    <3>3. layout = "assets" => copied' = copied
      BY <2>3 DEF VectorsInv, UpgradeTypeOK
    <3>4. sampleRows = IF copied' THEN vectorTable ELSE {}
      BY <2>3, <3>1 DEF VectorsInv
    <3> QED BY <1>1, <2>3, <3>2, <3>3, <3>4 DEF VectorsInv
  <2>10. UpgradeTypeOK' /\ ChoiceInv'
    BY <1>1, <2>2, <2>3, <2>4, <2>5 DEF UpgradeTypeOK, Process, ChoiceInv, ChoiceKept
  <2>11. OpenerPlaced(opener[o])'
    <3>1. SchemaPlaced(opener[o])'
      BY <1>1, <2>1, <2>2, <2>4 DEF SchemaPlaced, ImagePlaces, Stores
    <3>2. IndexPlaced(opener[o])'
      BY <2>1, <2>2 DEF IndexPlaced
    <3>3. ChoicePlaced(opener[o])'
      BY <1>1, <2>1, <2>2 DEF OpenerPlaced, ChoicePlaced, ChoiceKept, store
    <3>4. (opener[o].failed /\ opener[o].alone => Unopenable)'
      BY <1>1, <2>2, <2>8 DEF OpenerPlaced, Unopenable, Monotone
    <3> QED BY <3>1, <3>2, <3>3, <3>4 DEF OpenerPlaced
  <2> QED BY <1>1, <2>2, <2>6, <2>8, <2>9, <2>10, <2>11, StepOf
<1> QED BY <1>2, <1>3, <1>4 DEF Schema

\* The old choice is copied into the libraries, and forgotten after that.
LEMMA ChoiceKeepsInv ==
    ASSUME UpgradeInv, NEW o \in Openers, CopyChoice(o) \/ ForgetChoice(o)
    PROVE  UpgradeInv'
<1> USE DEF UpgradeInv
<1>1. /\ opener[o].at \in {"copy", "forget"} /\ opener[o] \in Process /\ OpenerPlaced(opener[o])
      /\ opener \in [Openers -> Process]
      /\ UNCHANGED <<version, vacuumed, layout, fits, vectorTable, sampleRows, copied, wantedBy, owed>>
  BY DEF CopyChoice, ForgetChoice, At, UpgradeTypeOK, Process, imageStore, histories
<1>2. CASE CopyChoice(o)
  <2>1. /\ opener[o].at = "copy" /\ UNCHANGED legacyOff /\ videos' = IF opener[o].off THEN {} ELSE videos
    BY <1>2 DEF CopyChoice, At
  <2>2. /\ opener' \in [Openers -> Process] /\ \A x \in Openers \ {o} : opener'[x] = opener[x]
        /\ opener'[o].at = "forget" /\ opener'[o].store = opener[o].store /\ opener'[o].read = opener[o].read
        /\ opener'[o].off = opener[o].off /\ opener'[o].alone = opener[o].alone
        /\ opener'[o].failed = opener[o].failed
    BY <1>2, ToPlace DEF CopyChoice, Places
  <2>3. ChoiceKept => ChoiceKept'
    BY <1>1, <2>1 DEF ChoiceKept
  <2>4. Monotone
    BY <1>1, <2>3 DEF Monotone, IsMoved
  <2>5. UpgradeTypeOK' /\ VectorsInv' /\ ChoiceInv' /\ VacuumBeforeVersion'
    BY <1>1, <2>1, <2>2, <2>3 DEF UpgradeTypeOK, Process, VectorsInv, ChoiceInv, VacuumBeforeVersion
  <2>6. ChoiceKept'
    BY <1>1, <2>1, <2>3 DEF OpenerPlaced, ChoicePlaced, ChoiceKept
  <2>7. OpenerPlaced(opener[o])'
    BY <1>1, <2>1, <2>2, <2>6 DEF OpenerPlaced, SchemaPlaced, IndexPlaced, ChoicePlaced, Unopenable, ImagePlaces
  <2> QED BY <1>1, <2>2, <2>4, <2>5, <2>7, StepOf
<1>3. CASE ForgetChoice(o)
  <2>1. /\ opener[o].at = "forget" /\ UNCHANGED videos /\ legacyOff' = (legacyOff /\ ~opener[o].off)
        /\ opener' = [opener EXCEPT ![o] = [opener[o] EXCEPT !.at = "version", !.store = "images"]]
    BY <1>3 DEF ForgetChoice, At, Goes
  <2>2. \A r \in Process : LET n == [r EXCEPT !.at = "version", !.store = "images"] IN
          /\ n \in Process /\ n.at = "version" /\ n.alone = r.alone /\ n.failed = r.failed
    BY DEF Process, Places, Stores
  <2>3. /\ opener' \in [Openers -> Process] /\ \A x \in Openers \ {o} : opener'[x] = opener[x]
        /\ opener'[o].at = "version" /\ opener'[o].alone = opener[o].alone /\ opener'[o].failed = opener[o].failed
    BY <1>1, <2>1, <2>2
  <2>4. ChoiceKept /\ ChoiceKept' /\ legacyOff' \in BOOLEAN
    BY <1>1, <2>1 DEF OpenerPlaced, ChoicePlaced, ChoiceKept, UpgradeTypeOK, Process
  <2>5. Monotone
    BY <1>1, <2>4 DEF Monotone, IsMoved
  <2>6. UpgradeTypeOK' /\ VectorsInv' /\ ChoiceInv' /\ VacuumBeforeVersion'
    BY <1>1, <2>3, <2>4 DEF UpgradeTypeOK, Process, VectorsInv, ChoiceInv, VacuumBeforeVersion
  <2>7. OpenerPlaced(opener[o])'
    BY <1>1, <2>3, <2>4 DEF OpenerPlaced, SchemaPlaced, IndexPlaced, ChoicePlaced, Unopenable, ImagePlaces
  <2> QED BY <1>1, <2>3, <2>5, <2>6, <2>7, StepOf
<1> QED BY <1>2, <1>3

\* Another process is started: those that run know that they are not alone.
LEMMA LaunchKeepsInv ==
    ASSUME UpgradeInv, NEW o \in Openers, Launch(o)
    PROVE  UpgradeInv'
<1> USE DEF UpgradeInv
<1>1. /\ opener[o].at = "down" /\ opener \in [Openers -> Process] /\ legacyOff \in BOOLEAN
      /\ UNCHANGED <<version, vacuumed, imageStore, choices, histories>>
      /\ opener' = [x \in Openers |-> IF x = o
                      THEN [Closed EXCEPT !.at = "version", !.off = legacyOff, !.alone = Alone(o)]
                      ELSE [opener[x] EXCEPT !.alone = FALSE]]
  BY DEF Launch, At, UpgradeTypeOK, Process
<1>2. UNCHANGED <<version, vacuumed, layout, fits, vectorTable, sampleRows, copied, videos, wantedBy, legacyOff>>
  BY <1>1 DEF imageStore, choices, histories
<1> DEFINE new == [Closed EXCEPT !.at = "version", !.off = legacyOff, !.alone = Alone(o)]
<1>3. /\ new \in Process /\ new.at = "version" /\ new.off = legacyOff /\ new.alone = Alone(o)
      /\ new.failed = FALSE /\ new.store = "catalog"
  <2>1. Alone(o) \in BOOLEAN
    BY DEF Alone
  <2> QED BY <1>1, <2>1 DEF Closed, Process, Places, Stores
<1> DEFINE told(r) == [r EXCEPT !.alone = FALSE]
<1>4. \A r \in Process : /\ told(r) \in Process /\ told(r).at = r.at /\ told(r).store = r.store
                         /\ told(r).read = r.read /\ told(r).off = r.off /\ told(r).failed = r.failed
                         /\ told(r).alone = FALSE
  BY DEF Process
<1> HIDE DEF new
<1>5. /\ opener' \in [Openers -> Process] /\ opener'[o] = new
      /\ \A x \in Openers \ {o} :
           /\ opener'[x].at = opener[x].at /\ opener'[x].store = opener[x].store /\ opener'[x].read = opener[x].read
           /\ opener'[x].off = opener[x].off /\ opener'[x].failed = opener[x].failed /\ opener'[x].alone = FALSE
  <2>1. opener' = [x \in Openers |-> IF x = o THEN new ELSE told(opener[x])]
    BY <1>1 DEF new
  <2> HIDE DEF told
  <2>2. opener'[o] = new /\ \A x \in Openers \ {o} : opener[x] \in Process /\ opener'[x] = told(opener[x])
    BY <1>1, <2>1
  <2>3. opener' \in [Openers -> Process]
    BY <1>3, <1>4, <2>1, <2>2
  <2> QED BY <1>4, <2>2, <2>3
<1>6. Monotone /\ VectorsInv' /\ ChoiceInv' /\ VacuumBeforeVersion' /\ UpgradeTypeOK'
  BY <1>1, <1>5, StoresKept
<1>7. OpenerPlaced(opener[o])'
  BY <1>2, <1>3, <1>5 DEF OpenerPlaced, SchemaPlaced, IndexPlaced, ChoicePlaced, ChoiceInv, ChoiceKept, ImagePlaces
<1>8. \A x \in Openers \ {o} : OpenerPlaced(opener[x])'
  <2> SUFFICES ASSUME NEW x \in Openers \ {o}
               PROVE  OpenerPlaced(opener[x])'
    OBVIOUS
  <2>1. OpenerPlaced(opener[x]) /\ opener'[x].alone = FALSE
    BY <1>5
  <2>2. SchemaPlaced(opener[x])'
    BY <1>2, <1>5, <2>1 DEF OpenerPlaced, SchemaPlaced
  <2>3. IndexPlaced(opener[x])'
    BY <1>2, <1>5, <2>1 DEF OpenerPlaced, IndexPlaced, IsMoved
  <2>4. ChoicePlaced(opener[x])'
    BY <1>2, <1>5, <2>1 DEF OpenerPlaced, ChoicePlaced, ChoiceKept
  <2> QED BY <2>1, <2>2, <2>3, <2>4 DEF OpenerPlaced
<1>9. AloneInv'
  BY <1>3, <1>5 DEF AloneInv, Alone
<1> QED BY <1>6, <1>7, <1>8, <1>9

\* The vector table is created, or moved to one row for each sample.  A table
\* that another process has moved by then stays what it is.
LEMMA TableKeepsInv ==
    ASSUME UpgradeInv, NEW o \in Openers, CreateTable(o) \/ MoveVectors(o)
    PROVE  UpgradeInv'
<1> USE DEF UpgradeInv
<1>1. /\ opener[o].at \in {"create", "move"} /\ opener[o] \in Process /\ OpenerPlaced(opener[o])
      /\ opener[o].store = "images" /\ version["images"] # 0
      /\ UNCHANGED <<version, vacuumed, fits, sampleRows, copied, videos, wantedBy, legacyOff, owed>>
  BY DEF CreateTable, MoveVectors, At, UpgradeTypeOK, Process, OpenerPlaced, SchemaPlaced, ImagePlaces, choices, histories
<1>2. CASE FailsToOpen(o) /\ UNCHANGED <<layout, vectorTable>> /\ ~opener[o].alone
  <2>1. UNCHANGED <<version, vacuumed, imageStore, choices, histories>>
    BY <1>1, <1>2 DEF imageStore, choices, histories
  <2>2. /\ opener' \in [Openers -> Process] /\ \A x \in Openers \ {o} : opener'[x] = opener[x]
        /\ opener'[o].alone = opener[o].alone /\ OpenerPlaced(opener[o])'
    BY <1>2, FailsPlaced
  <2> QED BY <1>1, <2>1, <2>2, StepOf, StoresKept
<1>3. CASE /\ To(o, "marker") /\ layout' = "samples" /\ vectorTable' \subseteq Rows /\ IsFiniteSet(vectorTable')
           /\ \A v, w \in vectorTable' : v.id = w.id \/ (v.asset = w.asset /\ v.time = w.time) => v = w
           /\ owed = {<<v.asset, v.time>> : v \in vectorTable'}
           /\ layout # "assets" => vectorTable' = vectorTable
           /\ IsMoved => IsMoved'
  <2>1. /\ opener' \in [Openers -> Process] /\ \A x \in Openers \ {o} : opener'[x] = opener[x]
        /\ opener'[o].at = "marker" /\ opener'[o].store = opener[o].store /\ opener'[o].read = opener[o].read
        /\ opener'[o].off = opener[o].off /\ opener'[o].alone = opener[o].alone
        /\ opener'[o].failed = opener[o].failed
    BY <1>3, ToPlace DEF Places, ImagePlaces
  <2>2. Monotone
    BY <1>1, <1>3 DEF Monotone, ChoiceKept
  <2>3. UpgradeTypeOK' /\ ChoiceInv' /\ VacuumBeforeVersion'
    BY <1>1, <1>3, <2>1 DEF UpgradeTypeOK, Process, Rows, ChoiceInv, ChoiceKept, VacuumBeforeVersion
  <2>4. copied => layout # "assets"
    BY DEF VectorsInv
  <2>5. VectorsInv'
    BY <1>1, <1>3, <2>4 DEF VectorsInv
  <2>6. OpenerPlaced(opener[o])'
    BY <1>1, <1>3, <2>1 DEF OpenerPlaced, SchemaPlaced, IndexPlaced, ChoicePlaced, ChoiceKept, Unopenable, ImagePlaces
  <2> QED BY <1>1, <2>1, <2>2, <2>3, <2>5, <2>6, StepOf
<1>4. CASE CreateTable(o)
  <2>1. /\ opener[o].at = "create" /\ layout' = "samples" /\ UNCHANGED vectorTable
        /\ IF layout = "none" THEN To(o, "marker") ELSE FailsToOpen(o)
    BY <1>4 DEF CreateTable, At
  <2>2. layout \in {"none", "samples"} /\ (opener[o].alone => layout = "none")
    BY <1>1, <2>1 DEF OpenerPlaced, IndexPlaced, UpgradeTypeOK
  <2>3. CASE layout = "samples"
    BY <1>2, <2>1, <2>2, <2>3
  <2>4. CASE layout = "none"
    BY <1>3, <2>1, <2>4 DEF VectorsInv, UpgradeTypeOK, Rows, IsMoved
  <2> QED BY <2>2, <2>3, <2>4
<1>5. CASE MoveVectors(o)
  <2> DEFINE moved(v) == [id |-> v.asset, asset |-> v.asset, time |-> 0]
             table == {moved(v) : v \in vectorTable}
  <2>1. layout \in {"assets", "samples"} /\ IsMoved
    BY <1>1, <1>5 DEF MoveVectors, At, OpenerPlaced, IndexPlaced, IsMoved, UpgradeTypeOK
  <2>2. \A v \in vectorTable : v \in Rows /\ v.time = 0
    BY <2>1 DEF IsMoved, VectorsInv, UpgradeTypeOK, Rows
  <2>3. \A v, w \in vectorTable : v.asset = w.asset => v = w
    BY <2>2 DEF VectorsInv
  <2>4. To(o, "marker") /\ layout' = "samples" /\ vectorTable' = table
    BY <1>5, <2>3 DEF MoveVectors
  <2>5. \A v \in Rows : moved(v) \in Rows /\ moved(v).id = v.asset /\ moved(v).asset = v.asset /\ moved(v).time = 0
    BY DEF Rows
  <2>6. \A v \in Rows : v.time = 0 /\ v.id = v.asset => moved(v) = v
    BY DEF Rows
  <2> HIDE DEF moved
  <2>7. IsFiniteSet(table)
    <3> DEFINE f == [v \in vectorTable |-> moved(v)]
    <3>1. f \in [vectorTable -> table]
      OBVIOUS
    <3>2. \A v, w \in vectorTable : f[v] = f[w] => v = w
      BY <2>2, <2>3, <2>5
    <3>3. \A p \in table : \E v \in vectorTable : f[v] = p
      OBVIOUS
    <3>4. f \in Bijection(vectorTable, table)
      BY <3>1, <3>2, <3>3 DEF Bijection, Injection, Surjection, IsInjective
    <3>5. ExistsBijection(vectorTable, table)
      BY <3>4 DEF ExistsBijection
    <3> HIDE DEF table
    <3> QED BY <3>5, FS_Bijection DEF UpgradeTypeOK
  <2>8. table \subseteq Rows /\ \A v \in table : v.time = 0 /\ v.id = v.asset
    BY <2>2, <2>5
  <2>9. \A v, w \in table : v.id = w.id \/ (v.asset = w.asset /\ v.time = w.time) => v = w
    BY <2>2, <2>3, <2>5
  <2>10. owed = {<<v.asset, v.time>> : v \in table}
    <3>1. \A v \in vectorTable : <<v.asset, v.time>> = <<moved(v).asset, moved(v).time>>
      BY <2>2, <2>5
    <3> QED BY <3>1 DEF VectorsInv
  <2>11. layout = "samples" => table = vectorTable
    BY <2>1, <2>2, <2>6 DEF IsMoved
  <2>12. IsMoved'
    BY <2>4, <2>8 DEF IsMoved
  <2> QED BY <1>3, <2>1, <2>4, <2>7, <2>8, <2>9, <2>10, <2>11, <2>12
<1> QED BY <1>4, <1>5

\* The keys of the samples are copied once: a process that comes later finds
\* them, and fails unless there are none.
LEMMA KeysKeepInv ==
    ASSUME UpgradeInv, NEW o \in Openers, CopyKeys(o)
    PROVE  UpgradeInv'
<1> USE DEF UpgradeInv
<1>1. /\ opener[o].at = "keys" /\ opener[o] \in Process /\ OpenerPlaced(opener[o]) /\ layout = "samples"
      /\ UNCHANGED <<version, vacuumed, layout, fits, vectorTable, videos, wantedBy, legacyOff, owed>>
  BY DEF CopyKeys, At, UpgradeTypeOK, Process, OpenerPlaced, IndexPlaced, choices, histories
<1>2. CASE \E v \in vectorTable : Collides(v)
  <2>1. UNCHANGED <<sampleRows, copied>> /\ FailsToOpen(o)
    BY <1>2 DEF CopyKeys
  <2>2. copied
    BY <1>2 DEF VectorsInv, Collides
  <2>3. ~opener[o].alone
    BY <1>1, <2>2 DEF OpenerPlaced, IndexPlaced
  <2>4. UNCHANGED <<version, vacuumed, imageStore, choices, histories>>
    BY <1>1, <2>1 DEF imageStore, choices, histories
  <2>5. /\ opener' \in [Openers -> Process] /\ \A x \in Openers \ {o} : opener'[x] = opener[x]
        /\ opener'[o].alone = opener[o].alone /\ OpenerPlaced(opener[o])'
    BY <2>1, <2>3, FailsPlaced
  <2> QED BY <1>1, <2>4, <2>5, StepOf, StoresKept
<1>3. CASE ~\E v \in vectorTable : Collides(v)
  <2>1. sampleRows' = sampleRows \cup vectorTable /\ copied' = TRUE /\ To(o, "width")
    BY <1>3 DEF CopyKeys
  <2>2. sampleRows' = vectorTable
    BY <2>1 DEF VectorsInv
  <2>3. /\ opener' \in [Openers -> Process] /\ \A x \in Openers \ {o} : opener'[x] = opener[x]
        /\ opener'[o].at = "width" /\ opener'[o].store = opener[o].store /\ opener'[o].read = opener[o].read
        /\ opener'[o].off = opener[o].off /\ opener'[o].alone = opener[o].alone
        /\ opener'[o].failed = opener[o].failed
    BY <2>1, ToPlace DEF Places, ImagePlaces
  <2>4. Monotone
    BY <1>1, <2>1 DEF Monotone, ChoiceKept, IsMoved
  <2>5. UpgradeTypeOK' /\ VectorsInv' /\ ChoiceInv' /\ VacuumBeforeVersion'
    BY <1>1, <2>1, <2>2, <2>3 DEF UpgradeTypeOK, Process, VectorsInv, ChoiceInv, ChoiceKept, VacuumBeforeVersion
  <2>6. OpenerPlaced(opener[o])'
    BY <1>1, <2>1, <2>3 DEF OpenerPlaced, SchemaPlaced, IndexPlaced, ChoicePlaced, ChoiceKept, Unopenable, ImagePlaces
  <2> QED BY <1>1, <2>3, <2>4, <2>5, <2>6, StepOf
<1> QED BY <1>2, <1>3

\* A set of numbers with a bound has a greatest.
LEMMA GreatestIsThere ==
    ASSUME NEW S \in SUBSET Nat, S # {}, NEW bound \in Nat, \A n \in S : n <= bound
    PROVE  \E n \in S : \A m \in S : m <= n
<1> DEFINE less == {pair \in Nat \X Nat : pair[1] < pair[2]}
           below == {bound - n : n \in S}
<1>1. IsWellFoundedOn(less, Nat)
  BY NatLessThanWellFounded DEF OpToRel
<1>2. below \subseteq Nat /\ below # {}
  <2>1. \A n \in S : bound - n \in Nat
    OBVIOUS
  <2>2. PICK n : n \in S
    OBVIOUS
  <2> QED BY <2>1, <2>2
<1>3. PICK d \in below : \A e \in below : <<e, d>> \notin less
  <2> HIDE DEF less, below
  <2> QED BY <1>1, <1>2, WFMin
<1>4. \A e \in below : d <= e
  <2>1. \A e \in below : e \in Nat /\ d \in Nat /\ <<e, d>> \notin less
    BY <1>2, <1>3
  <2> HIDE DEF below
  <2>2. \A e \in below : e \in Nat /\ d \in Nat /\ ~(e < d)
    BY <2>1
  <2> HIDE DEF less
  <2> QED BY <2>2
<1>5. PICK n \in S : d = bound - n
  OBVIOUS
<1>6. \A m \in S : d <= bound - m
  BY <1>4
<1> QED BY <1>5, <1>6

\* A new identifier is none of those in use.
LEMMA NextIdIsNew ==
    ASSUME NEW rows, rows \subseteq Rows
    PROVE  NextId(rows) \in Nat \ {0} /\ \A s \in rows : s.id # NextId(rows)
<1>1. CASE rows = {}
  BY <1>1 DEF NextId
<1>2. CASE rows # {}
  <2> DEFINE ids == {s.id : s \in rows}
  <2>1. ids \in SUBSET Nat /\ ids # {} /\ MaxSampleId \in Nat /\ \A i \in ids : i <= MaxSampleId
    BY <1>2, UpgradeAssumption DEF Rows
  <2>2. \E i \in ids : \A j \in ids : j <= i
    <3> HIDE DEF ids
    <3> QED BY <2>1, GreatestIsThere
  <2>3. \E i \in ids : \A s \in rows : s.id <= i
    BY <2>2
  <2> DEFINE top == CHOOSE i \in ids : \A s \in rows : s.id <= i
  <2>4. top \in ids /\ \A s \in rows : s.id <= top
    BY <2>3
  <2>5. NextId(rows) = 1 + top
    BY <1>2 DEF NextId
  <2> HIDE DEF top
  <2>6. \A s \in rows : s.id \in Nat
    BY DEF Rows
  <2> QED BY <2>1, <2>4, <2>5, <2>6
<1> QED BY <1>1, <1>2

\* A ready server replaces the samples of an asset, found by their keys.
LEMMA SaveKeepsInv ==
    ASSUME UpgradeInv, NEW o \in Openers, NEW old \in OldVectors, SaveSample(o, old.asset, old.time)
    PROVE  UpgradeInv'
<1> USE DEF UpgradeInv
<1> DEFINE asset == old.asset
           time == old.time
           kept == {s \in sampleRows : s.asset # asset}
           row == [id |-> NextId(kept), asset |-> asset, time |-> time]
<1>1. /\ opener[o].at = "ready" /\ \A x \in Openers : opener[x].at \in {"down", "ready"}
      /\ UNCHANGED <<version, vacuumed, layout, fits, copied, videos, wantedBy, legacyOff, opener>>
  BY DEF SaveSample, Serving, At, choices
<1>2. OpenerPlaced(opener[o]) /\ copied /\ layout = "samples" /\ sampleRows = vectorTable
  BY <1>1 DEF OpenerPlaced, IndexPlaced, VectorsInv
<1>3. /\ kept = {v \in vectorTable : v.asset # asset} /\ kept \subseteq Rows /\ IsFiniteSet(kept)
      /\ \A v, w \in vectorTable : v.id = w.id => v = w
  BY <1>2, FS_Subset DEF UpgradeTypeOK, Rows, VectorsInv
<1>4. /\ row.id <= MaxSampleId /\ sampleRows' = kept \cup {row}
      /\ vectorTable' = {v \in vectorTable : \A s \in {s \in sampleRows : s.asset = asset} : s.id # v.id} \cup {row}
      /\ owed' = {p \in owed : p[1] # asset} \cup {<<asset, time>>}
  <2>1. sampleRows \ {s \in sampleRows : s.asset = asset} = kept
    OBVIOUS
  <2> QED BY <2>1 DEF SaveSample
<1>5. NextId(kept) \in Nat \ {0} /\ \A s \in kept : s.id # NextId(kept)
  <2> HIDE DEF kept
  <2> QED BY <1>3, NextIdIsNew
<1>6. row.id = NextId(kept) /\ row.asset = asset /\ row.time = time
  OBVIOUS
<1>7. row \in Rows
  BY <1>4, <1>5, UpgradeAssumption DEF Rows
<1>8. vectorTable' = kept \cup {row}
  BY <1>2, <1>3, <1>4
<1>9. \A v \in kept : v \in vectorTable /\ v.asset # asset
  BY <1>3
<1>10. owed' = {<<v.asset, v.time>> : v \in kept \cup {row}}
  <2>1. owed = {<<v.asset, v.time>> : v \in vectorTable}
    BY DEF VectorsInv
  <2>2. {p \in owed : p[1] # asset} = {<<v.asset, v.time>> : v \in kept}
    BY <1>3, <2>1
  <2> HIDE DEF kept, row
  <2> QED BY <1>4, <1>6, <2>2
<1> HIDE DEF kept, row
<1>11. \A v, w \in kept \cup {row} : v.id = w.id \/ (v.asset = w.asset /\ v.time = w.time) => v = w
  BY <1>5, <1>6, <1>9 DEF VectorsInv
<1>12. IsFiniteSet(vectorTable') /\ vectorTable' \subseteq Rows
  BY <1>3, <1>7, <1>8, FS_AddElement
<1>13. UpgradeTypeOK'
  BY <1>1, <1>12 DEF UpgradeTypeOK, Rows
<1>14. VectorsInv'
  BY <1>1, <1>2, <1>4, <1>8, <1>10, <1>11 DEF VectorsInv
<1>15. ChoiceInv' /\ VacuumBeforeVersion' /\ AloneInv'
  BY <1>1 DEF ChoiceInv, ChoiceKept, VacuumBeforeVersion, AloneInv
<1>16. \A x \in Openers : OpenerPlaced(opener[x])'
  BY <1>1 DEF OpenerPlaced, SchemaPlaced, IndexPlaced, ChoicePlaced, ChoiceKept, Unopenable, ImagePlaces
<1> QED BY <1>13, <1>14, <1>15, <1>16

\* A user chooses videos for a library.
LEMMA ChooseKeepsInv ==
    ASSUME UpgradeInv, NEW o \in Openers, NEW l \in OldLibraries, ChooseVideos(o, l)
    PROVE  UpgradeInv'
<1> USE DEF UpgradeInv
<1>1. /\ UNCHANGED <<version, vacuumed, layout, fits, vectorTable, sampleRows, copied, owed, legacyOff, opener>>
      /\ ChoiceKept => ChoiceKept'
  BY DEF ChooseVideos, ChoiceKept, imageStore
<1>2. UpgradeTypeOK' /\ VectorsInv' /\ ChoiceInv' /\ VacuumBeforeVersion' /\ AloneInv'
  BY <1>1 DEF UpgradeTypeOK, VectorsInv, ChoiceInv, VacuumBeforeVersion, AloneInv
<1>3. \A x \in Openers : OpenerPlaced(opener[x])'
  BY <1>1 DEF OpenerPlaced, SchemaPlaced, IndexPlaced, IsMoved, ChoicePlaced, Unopenable
<1> QED BY <1>2, <1>3

LEMMA UpgradeStep == UpgradeInv /\ [UpgradeNext]_upgradeVars => UpgradeInv'
<1> SUFFICES ASSUME UpgradeInv, [UpgradeNext]_upgradeVars
             PROVE  UpgradeInv'
  OBVIOUS
<1>1. CASE UNCHANGED upgradeVars
  <2>1. /\ UNCHANGED <<version, vacuumed, layout, fits, vectorTable, sampleRows, copied, owed, videos, wantedBy>>
        /\ UNCHANGED <<legacyOff, opener>>
    BY <1>1 DEF upgradeVars
  <2>2. UpgradeTypeOK' /\ VectorsInv' /\ ChoiceInv' /\ VacuumBeforeVersion' /\ AloneInv'
    BY <2>1 DEF UpgradeInv, UpgradeTypeOK, VectorsInv, ChoiceInv, ChoiceKept, VacuumBeforeVersion, AloneInv
  <2>3. \A x \in Openers : OpenerPlaced(opener[x])'
    BY <2>1 DEF UpgradeInv, OpenerPlaced, SchemaPlaced, IndexPlaced, IsMoved, ChoicePlaced, ChoiceKept, Unopenable
  <2> QED BY <2>2, <2>3 DEF UpgradeInv
<1>2. CASE UpgradeNext
  <2>1. PICK o \in Openers :
          \/ Launch(o)
          \/ Kill(o) \/ ReadVersion(o) \/ LookAtTable(o) \/ LookAtMarker(o) \/ CheckWidth(o)
          \/ Vacuum(o) \/ Schema(o)
          \/ CopyChoice(o) \/ ForgetChoice(o)
          \/ CreateTable(o) \/ MoveVectors(o) \/ CopyKeys(o)
          \/ \E v \in OldVectors : SaveSample(o, v.asset, v.time)
          \/ \E l \in OldLibraries : ChooseVideos(o, l)
    BY <1>2 DEF UpgradeNext
  <2> QED BY <2>1, LaunchKeepsInv, LooksKeepInv, VacuumKeepsInv, SchemaKeepsInv, ChoiceKeepsInv, TableKeepsInv,
             KeysKeepInv, SaveKeepsInv, ChooseKeepsInv
<1> QED BY <1>1, <1>2

\* The invariant of the upgrade is one.
THEOREM UpgradeInvariant == UpgradeSpec => []UpgradeInv
BY UpgradeStart, UpgradeStep, PTL DEF UpgradeSpec

\* For any number of processes, any older versions and any vectors, wherever an
\* upgrade is killed or overtaken: no vector is lost, doubled or detached from
\* its asset, a store that a reader accepts is whole, a version is recorded only
\* over the layout it promises, a process that has the stores to itself opens
\* them, and videos are on only where a user wants them (open_schema_with_migrations,
\* ensure_vector_table, ensure_sample_rows, main).
THEOREM UpgradeIsAlwaysSafe == UpgradeSpec => []UpgradeIsSafe
BY UpgradeInvariant, UpgradeInvSuffices, PTL

-------------------------------------------------------------------------------
(* Model files.                                                              *)

\* The rest of a sequence has every element but the first, one place earlier.
LEMMA Received ==
    ASSUME NEW S, NEW q \in Seq(S), q # <<>>
    PROVE  /\ Tail(q) \in Seq(S) /\ Head(q) \in S /\ Head(q) = q[1] /\ 1 \in DOMAIN q
           /\ \A k \in DOMAIN Tail(q) : k + 1 \in DOMAIN q /\ k + 1 # 1 /\ Tail(q)[k] = q[k + 1]
           /\ \A k \in DOMAIN q : k = 1 \/ (k - 1 \in DOMAIN Tail(q) /\ Tail(q)[k - 1] = q[k])
           /\ \A k, j \in DOMAIN Tail(q) : k # j => k + 1 # j + 1
  BY HeadTailProperties, LenProperties

\* An empty sequence has no positions.
LEMMA NothingListed == DOMAIN <<>> = {}
<1>1. <<>> \in Seq({}) /\ Len(<<>>) = 0
  OBVIOUS
<1>2. DOMAIN <<>> = 1 .. Len(<<>>)
  BY <1>1, LenProperties
<1>3. 1 .. 0 = {}
  OBVIOUS
<1> QED BY <1>1, <1>2, <1>3

\* What a loader sets, and what it leaves.
LEMMA SetFields ==
    ASSUME DOMAIN loader = Loaders, NEW l \in Loaders, NEW ch, DOMAIN ch \subseteq DOMAIN loader[l], Set(l, ch)
    PROVE  /\ DOMAIN loader' = Loaders /\ \A o \in Loaders \ {l} : loader'[o] = loader[o]
           /\ DOMAIN loader'[l] = DOMAIN loader[l]
           /\ \A k \in DOMAIN loader[l] : loader'[l][k] = IF k \in DOMAIN ch THEN ch[k] ELSE loader[l][k]
  BY DEF Set

\* A request that ends leaves its answer and what was promised.
LEMMA EndFields ==
    ASSUME DOMAIN loader = Loaders, NEW l \in Loaders, NEW ended, End(l, ended)
    PROVE  /\ DOMAIN loader' = Loaders /\ \A o \in Loaders \ {l} : loader'[o] = loader[o]
           /\ DOMAIN loader'[l] = {"at", "ended", "promised"}
           /\ loader'[l].at = "rest" /\ loader'[l].ended = ended /\ loader'[l].promised = loader[l].promised
  BY DEF End

\* The names a request goes through: the first, and the rest of them.
LEMMA ListedRest ==
    ASSUME NEW S, NEW q \in Seq(S), q # <<>>
    PROVE  /\ Tail(q) \in Seq(S) /\ Head(q) \in Listed(q) /\ Head(q) \in S
           /\ Listed(q) = {Head(q)} \cup Listed(Tail(q))
<1>1. ASSUME NEW f \in Listed(q) PROVE f = Head(q) \/ f \in Listed(Tail(q))
  BY <1>1, Received DEF Listed
<1>2. ASSUME NEW f \in Listed(Tail(q)) PROVE f \in Listed(q)
  BY <1>2, Received DEF Listed
<1> QED BY <1>1, <1>2, Received DEF Listed

\* Nothing is listed in an empty sequence.
LEMMA NothingToFind == Listed(<<>>) = {}
  BY NothingListed DEF Listed

\* Names of two sequences, one behind the other.
LEMMA ListedBoth ==
    ASSUME NEW S, NEW q \in Seq(S), NEW x \in Seq(S)
    PROVE  q \o x \in Seq(S) /\ Listed(q) \subseteq Listed(q \o x)
<1>1. /\ q \o x \in Seq(S) /\ Len(q \o x) = Len(q) + Len(x)
      /\ \A i \in 1 .. Len(q) : (q \o x)[i] = q[i]
  BY ConcatProperties
<1>2. /\ DOMAIN q = 1 .. Len(q) /\ DOMAIN (q \o x) = 1 .. Len(q \o x)
      /\ Len(q) \in Nat /\ Len(x) \in Nat
  BY <1>1, LenProperties
<1>3. ASSUME NEW i \in DOMAIN q PROVE i \in DOMAIN (q \o x) /\ (q \o x)[i] = q[i]
  BY <1>1, <1>2, <1>3
<1> QED BY <1>1, <1>3 DEF Listed

\* Names of files are those of the model's source.
LEMMA SourceFiles ==
    ASSUME NEW m \in KnownModels, NEW half \in {"image", "query"}
    PROVE  /\ FilesOf(m, half) \in Seq(FileNames)
           /\ ModelSpec(m).source.kind \in {"export", "gemma", "deepghs", "bge", "ocr"}
           /\ ModelSpec(m).source.kind \in {"export", "gemma"} =>
                 ModelSpec(m).source.files \in Seq(FileNames) /\ FilesOf(m, half) = ModelSpec(m).source.files
           /\ ModelSpec(m).source.kind = "gemma" => ModelSpec(m).source.files = GemmaFiles
<1> USE DEF Model, Export, Gemma, Nothing, FileNames
<1>1. CASE m \in {"metaclip2-b32", "metaclip2-b16"}
  <2>1. ModelSpec(m).source.kind = "export" /\ ModelSpec(m).source.files = Paired
    BY <1>1 DEF ModelSpec
  <2> QED BY <2>1 DEF FilesOf, Paired
<1>2. CASE m = "metaclip2-l14"
  <2>1. ModelSpec(m).source.kind = "export" /\ ModelSpec(m).source.files = PairedWithTextData
    BY <1>2 DEF ModelSpec
  <2>2. PairedWithTextData \in Seq(FileNames)
    BY DEF PairedWithTextData
  <2>3. FilesOf(m, half) = ModelSpec(m).source.files
    BY <2>1 DEF FilesOf
  <2> QED BY <2>1, <2>2, <2>3
<1>3. CASE m \in {"siglip2", "pe-l14", "pe-b16"}
  <2>1. ModelSpec(m).source.kind = "export" /\ ModelSpec(m).source.files = Paired
    BY <1>3 DEF ModelSpec
  <2> QED BY <2>1 DEF FilesOf, Paired
<1>4. CASE m = "siglip-beta"
  <2>1. ModelSpec(m).source.kind = "deepghs"
    BY <1>4 DEF ModelSpec
  <2>2. /\ <<"image_encode", "preprocessor", "meta">> \in Seq(FileNames)
        /\ <<"text_encode", "tokenizer", "meta">> \in Seq(FileNames)
    OBVIOUS
  <2>3. \/ FilesOf(m, half) = <<"image_encode", "preprocessor", "meta">>
        \/ FilesOf(m, half) = <<"text_encode", "tokenizer", "meta">>
    BY <2>1 DEF FilesOf
  <2> QED BY <2>1, <2>2, <2>3
<1>5. CASE m = "dinov3"
  <2>1. ModelSpec(m).source.kind = "export" /\ ModelSpec(m).source.files = ImageOnly
    BY <1>5 DEF ModelSpec
  <2> QED BY <2>1 DEF FilesOf, ImageOnly
<1>6. CASE m \in {"gemma-70", "gemma-140"}
  <2>1. ModelSpec(m).source.kind = "gemma" /\ ModelSpec(m).source.files = GemmaFiles
    BY <1>6 DEF ModelSpec
  <2>2. GemmaFiles \in Seq(FileNames)
    BY DEF GemmaFiles
  <2>3. FilesOf(m, half) = ModelSpec(m).source.files
    BY <2>1 DEF FilesOf
  <2> QED BY <2>1, <2>2, <2>3
<1>7. CASE m = "bge"
  <2>1. ModelSpec(m).source.kind = "bge" /\ ModelSpec(m).source.files = BgeFiles
    BY <1>7 DEF ModelSpec
  <2> QED BY <2>1 DEF FilesOf, BgeFiles
<1>8. CASE m = "ocr"
  <2>1. ModelSpec(m).source.kind = "ocr"
    BY <1>8 DEF ModelSpec
  <2> QED BY <2>1 DEF FilesOf, OcrFiles
<1> QED BY <1>1, <1>2, <1>3, <1>4, <1>5, <1>6, <1>7, <1>8 DEF KnownModels

\* The files beside an export, and those a view links of them.
LEMMA BesideFiles ==
    ASSUME NEW s
    PROVE  ExternalFiles(s) \in Seq(FileNames)
<1>1. <<>> \in Seq(FileNames) /\ <<"patched">> \in Seq(FileNames) /\ <<"image data", "text data">> \in Seq(FileNames)
  BY DEF FileNames
<1> QED BY <1>1, ConcatProperties DEF ExternalFiles

\* A file that a view links beside those of the list.
LEMMA UnlistedFiles ==
    ASSUME NEW l \in Loaders, NEW i \in Nat
    PROVE  Unlisted(l, i) \in Seq(FileNames)
<1> DEFINE x == External(l)
<1>1. x \in Seq(FileNames)
  BY BesideFiles DEF External
<1> HIDE DEF x
<1>2. i \in DOMAIN x => x[i] \in FileNames
  BY <1>1, LenProperties, ElementOfSeq
<1>3. i \in DOMAIN x => <<x[i]>> \in Seq(FileNames)
  BY <1>2
<1>4. <<>> \in Seq(FileNames)
  OBVIOUS
<1> QED BY <1>3, <1>4 DEF Unlisted, x

\* What another loader does leaves a request as it was.
LEMMA LoaderStays ==
    ASSUME NEW o \in Loaders, LoaderInv(o), loader'[o] = loader[o], temps'[o] = temps[o],
           UNCHANGED <<export, override>>, cache \subseteq cache', view \subseteq view', present \subseteq present',
           patched.weights => patched'.weights, patched.graph = "whole" => patched'.graph = "whole"
    PROVE  LoaderInv(o)'
<1>1. LoaderShape(o)'
  BY DEF LoaderInv, LoaderShape
<1>2. \A m, f : Placed(m, f) => Placed(m, f)'
  BY DEF Placed
<1>3. \A m, half : AllPlaced(m, half) => AllPlaced(m, half)'
  BY <1>2 DEF AllPlaced, ExternalFiles
<1>4. FilesFound(o)'
  <2>1. FilesFound(o) /\ \A m, half, checked : Needed(m, half, checked)' = Needed(m, half, checked)
    BY DEF LoaderInv, Needed, ExternalFiles
  <2> QED BY <2>1, <1>2, <1>3 DEF FilesFound
<1>5. PromiseKept(o)'
  BY DEF LoaderInv, PromiseKept
<1>6. ViewHas(o)'
  BY DEF LoaderInv, ViewHas
<1>7. GraphPlaced(o)'
  BY DEF LoaderInv, GraphPlaced
<1>8. SessionsBuilt(o)'
  BY DEF LoaderInv, SessionsBuilt
<1> QED BY <1>1, <1>4, <1>5, <1>6, <1>7, <1>8 DEF LoaderInv

\* A step of one loader keeps the invariant, if it keeps that of its request,
\* reports only what is in place, and compiles or runs alone on DirectML.
LEMMA LoaderMoves ==
    ASSUME FilesInv, NEW l \in Loaders,
           DOMAIN loader' = Loaders, \A o \in Loaders \ {l} : loader'[o] = loader[o],
           DOMAIN temps' = Loaders, \A o \in Loaders \ {l} : temps'[o] = temps[o],
           UNCHANGED <<model, export, override, together>>,
           cache \subseteq cache', view \subseteq view', present \subseteq present',
           patched' \in [weights : BOOLEAN, graph : {"none", "whole"}],
           patched.weights => patched'.weights, patched.graph = "whole" => patched'.graph = "whole",
           \A p \in present' : p \in present \/ AllPlaced(p[1], p[2]),
           DOMAIN held' = Loaders, \A o \in Loaders \ {l} : held'[o] = held[o],
           held'[l] = held[l] \/ \A s \in held'[l].sessions :
               /\ s.provider = held'[l].provider /\ (s.dml => s.provider = "directml")
               /\ s.batch # 0 => s.provider = "directml" /\ s.batch = held'[l].batch,
           AtWork(l)' => (AtWork(l) /\ ProviderOf(l)' = ProviderOf(l)) \/ Free(l, ProviderOf(l)'),
           LoaderInv(l)'
    PROVE  FilesInv'
<1>1. \A o \in Loaders : LoaderInv(o)'
  <2> SUFFICES ASSUME NEW o \in Loaders PROVE LoaderInv(o)'
    OBVIOUS
  <2>1. CASE o = l
    BY <2>1
  <2>2. CASE o # l
    BY <2>2, LoaderStays DEF FilesInv
  <2> QED BY <2>1, <2>2
<1>2. \A p \in present' : AllPlaced(p[1], p[2])'
  <2>1. \A m, f : Placed(m, f) => Placed(m, f)'
    BY DEF Placed
  <2>2. \A m, half : AllPlaced(m, half) => AllPlaced(m, half)'
    BY <2>1 DEF AllPlaced, ExternalFiles
  <2> QED BY <2>2 DEF FilesInv
<1>3. BuiltForProvider'
  <2> SUFFICES ASSUME NEW o \in Loaders, held'[o] # NoSessions, NEW s \in held'[o].sessions
               PROVE  /\ s.provider = held'[o].provider /\ (s.dml => s.provider = "directml")
                      /\ s.batch # 0 => s.provider = "directml" /\ s.batch = held'[o].batch
    BY DEF BuiltForProvider
  <2>1. CASE held'[o] = held[o]
    BY <2>1 DEF FilesInv, SessionsFitProvider, BuiltForProvider
  <2>2. CASE o = l /\ held'[l] # held[l]
    BY <2>2
  <2> QED BY <2>1, <2>2
<1>4. DirectmlAlone'
  <2>1. \A o \in Loaders \ {l} : (AtWork(o)' <=> AtWork(o)) /\ ProviderOf(o)' = ProviderOf(o)
    BY DEF AtWork, ProviderOf, AttemptOf
  <2> SUFFICES ASSUME together', NEW a \in Loaders, NEW b \in Loaders, a # b, AtWork(a)', AtWork(b)',
                      ProviderOf(a)' = "directml", ProviderOf(b)' = "directml"
               PROVE  FALSE
    BY DEF DirectmlAlone
  <2>2. together /\ DirectmlAlone
    BY DEF FilesInv, SessionsFitProvider
  <2>3. CASE a # l /\ b # l
    BY <2>1, <2>2, <2>3 DEF DirectmlAlone
  <2>4. ASSUME NEW o \in Loaders \ {l}, AtWork(o)', ProviderOf(o)' = "directml", AtWork(l)', ProviderOf(l)' = "directml"
        PROVE  FALSE
    <3>1. AtWork(o) /\ ProviderOf(o) = "directml"
      BY <2>1, <2>4
    <3>2. CASE AtWork(l) /\ ProviderOf(l)' = ProviderOf(l)
      <4>1. AtWork(l) /\ ProviderOf(l) = "directml" /\ o \in Loaders /\ o # l
        BY <3>2, <2>4
      <4> QED BY <4>1, <3>1, <2>2 DEF DirectmlAlone
    <3>3. CASE Free(l, ProviderOf(l)')
      BY <3>1, <3>3, <2>2, <2>4 DEF Free
    <3> QED BY <3>2, <3>3, <2>4
  <2> QED BY <2>3, <2>4
<1> QED BY <1>1, <1>2, <1>3, <1>4 DEF FilesInv, SessionsFitProvider

\* The loaders before a step.
LEMMA LoaderNow ==
    ASSUME FilesInv, NEW l \in Loaders
    PROVE  /\ LoaderShape(l) /\ FilesFound(l) /\ PromiseKept(l) /\ ViewHas(l) /\ GraphPlaced(l) /\ SessionsBuilt(l)
           /\ DOMAIN loader = Loaders /\ DOMAIN temps = Loaders /\ DOMAIN held = Loaders
           /\ patched \in [weights : BOOLEAN, graph : {"none", "whole"}]
  BY DEF FilesInv, LoaderInv

\* The fields of a request that a step does not name stay as they were.
LEMMA RequestSet ==
    ASSUME FilesInv, NEW l \in Loaders, loader[l].at \notin RestSteps, NEW ch, DOMAIN ch \subseteq LoadFields, Set(l, ch)
    PROVE  /\ DOMAIN loader' = Loaders /\ \A o \in Loaders \ {l} : loader'[o] = loader[o]
           /\ DOMAIN loader'[l] = LoadFields
           /\ \A k \in LoadFields : loader'[l][k] = IF k \in DOMAIN ch THEN ch[k] ELSE loader[l][k]
<1>1. DOMAIN loader = Loaders /\ DOMAIN loader[l] = LoadFields
  BY LoaderNow DEF LoaderShape
<1> QED BY <1>1, SetFields

\* A request that goes on at another step.
LEMMA RequestGoes ==
    ASSUME FilesInv, NEW l \in Loaders, loader[l].at \notin RestSteps, NEW at, GoesTo(l, at)
    PROVE  /\ DOMAIN loader' = Loaders /\ \A o \in Loaders \ {l} : loader'[o] = loader[o]
           /\ DOMAIN loader'[l] = LoadFields /\ loader'[l].at = at
           /\ \A k \in LoadFields \ {"at"} : loader'[l][k] = loader[l][k]
<1> DEFINE ch == [at |-> at]
<1>1. DOMAIN ch = {"at"} /\ ch["at"] = at /\ Set(l, ch) /\ "at" \in LoadFields
  BY DEF GoesTo, LoadFields
<1> HIDE DEF ch
<1> QED BY <1>1, RequestSet

\* A request that ends is at rest; what it answers was not promised otherwise.
LEMMA RequestEnds ==
    ASSUME FilesInv, NEW l \in Loaders, NEW ended, End(l, ended), ended = "missing" => ~loader[l].promised
    PROVE  /\ DOMAIN loader' = Loaders /\ \A o \in Loaders \ {l} : loader'[o] = loader[o]
           /\ LoaderInv(l)' /\ ~AtWork(l)'
<1>1. /\ DOMAIN loader' = Loaders /\ \A o \in Loaders \ {l} : loader'[o] = loader[o]
      /\ DOMAIN loader'[l] = {"at", "ended", "promised"}
      /\ loader'[l].at = "rest" /\ loader'[l].ended = ended /\ loader'[l].promised = loader[l].promised
  BY LoaderNow, EndFields
<1> QED BY <1>1 DEF LoaderInv, LoaderShape, FilesFound, PromiseKept, ViewHas, GraphPlaced, SessionsBuilt, AtWork,
                    RestSteps, SearchSteps, ViewSteps, PatchSteps, BuildSteps

\* A step of a request that leaves the disk and the other loaders alone.
LEMMA QuietMove ==
    ASSUME FilesInv, NEW l \in Loaders, KeepDisk, KeepRest,
           DOMAIN loader' = Loaders, \A o \in Loaders \ {l} : loader'[o] = loader[o], LoaderInv(l)',
           AtWork(l)' => (AtWork(l) /\ ProviderOf(l)' = ProviderOf(l)) \/ Free(l, ProviderOf(l)')
    PROVE  FilesInv'
<1>1. /\ UNCHANGED <<model, export, override, together, cache, view, present, patched, temps, held>>
      /\ DOMAIN temps' = Loaders /\ DOMAIN held' = Loaders
      /\ patched' \in [weights : BOOLEAN, graph : {"none", "whole"}]
  BY LoaderNow DEF KeepDisk, KeepRest
<1> QED BY <1>1, LoaderMoves

\* What a provider that fails is followed by.
LEMMA TriedInTurn ==
    ASSUME NEW p \in Tried, NEW fallback
    PROVE  Attempts(p, fallback) \in Seq(Tried) /\ Attempts(p, fallback) # <<>>
<1>1. "cpu" \in Tried /\ "openvino" \in Tried
  BY DEF Tried
<1>2. <<p>> \in Seq(Tried) /\ Len(<<p>>) = 1 /\ <<>> \in Seq(Tried) /\ <<"cpu">> \in Seq(Tried) /\ <<"openvino", "cpu">> \in Seq(Tried)
  BY <1>1
<1> DEFINE next == IF ~fallback \/ p = "cpu" THEN <<>> ELSE IF p = "directml" THEN <<"openvino", "cpu">> ELSE <<"cpu">>
<1>3. next \in Seq(Tried)
  BY <1>2
<1>4. Attempts(p, fallback) = <<p>> \o next
  BY DEF Attempts
<1> HIDE DEF next
<1>5. /\ Len(<<p>> \o next) = 1 + Len(next) /\ <<p>> \o next \in Seq(Tried)
  BY <1>2, <1>3, ConcatProperties
<1>6. Len(next) \in Nat
  BY <1>3, LenProperties
<1>7. Len(<<p>> \o next) # 0
  BY <1>5, <1>6
<1> QED BY <1>4, <1>5, <1>7, EmptySeq

\* A request that begins keeps the invariant.
LEMMA RequestOK ==
    ASSUME FilesInv, NEW l \in Loaders, NEW ask \in Asks, Request(l, model, ask)
    PROVE  FilesInv'
<1> DEFINE r == loader'[l]
           tries == IF ask.build THEN Attempts(ask.provider, ask.fallback) ELSE <<>>
<1>1. /\ DOMAIN loader' = Loaders /\ \A o \in Loaders \ {l} : loader'[o] = loader[o]
      /\ r = [at |-> "files", model |-> model, half |-> ask.half, only |-> ask.only, build |-> ask.build, stopped |-> FALSE,
              todo |-> FilesOf(model, ask.half), checked |-> FALSE, viewed |-> FALSE, graph |-> "original",
              promised |-> <<model, ask.half>> \in present, attempts |-> tries, done |-> {}, replicas |-> <<>>]
      /\ held' = [held EXCEPT ![l] = NoSessions]
      /\ UNCHANGED <<model, export, override, together, cache, view, present, patched, temps>>
  BY LoaderNow DEF Request, KeepDisk
<1>2. model \in KnownModels /\ ask.half \in {"image", "query"} /\ ask.build \in BOOLEAN /\ ask.only \in BOOLEAN
  BY FilesAssumption DEF FilesInv
<1>3. tries \in Seq(Tried) /\ (ask.build => tries # <<>>)
  <2>1. ask.provider \in Tried /\ <<>> \in Seq(Tried)
    BY DEF Tried
  <2> QED BY <2>1, TriedInTurn
<1> HIDE DEF tries
<1>4. /\ DOMAIN r = LoadFields /\ r.at = "files" /\ r.model = model /\ r.half = ask.half /\ r.only = ask.only
      /\ r.build = ask.build /\ r.todo = FilesOf(model, ask.half) /\ ~r.checked /\ ~r.viewed /\ r.graph = "original"
      /\ (r.promised => <<model, ask.half>> \in present) /\ r.attempts = tries /\ r.replicas = <<>>
  <2>1. r.promised = (<<model, ask.half>> \in present)
    BY <1>1
  <2>2. DOMAIN r = LoadFields
    BY <1>1 DEF LoadFields
  <2>3. /\ r.at = "files" /\ r.model = model /\ r.half = ask.half /\ r.only = ask.only
        /\ r.build = ask.build /\ r.todo = FilesOf(model, ask.half) /\ ~r.checked /\ ~r.viewed /\ r.graph = "original"
    BY <1>1
  <2>4. r.attempts = tries /\ r.replicas = <<>>
    BY <1>1
  <2> QED BY <2>1, <2>2, <2>3, <2>4
<1>5. Len(<<>>) = 0 /\ <<>> = [i \in 1 .. 0 |-> <<>>[i]]
  OBVIOUS
<1> HIDE DEF r
<1>6. LoaderShape(l)'
  BY <1>2, <1>3, <1>4, <1>5, SourceFiles DEF LoaderShape, SearchSteps, r
<1>7. FilesFound(l)' /\ PromiseKept(l)' /\ ViewHas(l)' /\ GraphPlaced(l)'
  BY <1>1, <1>4 DEF FilesFound, PromiseKept, ViewHas, GraphPlaced, Needed, r, RestSteps, SearchSteps, ViewSteps, PatchSteps, BuildSteps
<1>8. SessionsBuilt(l)' /\ ~AtWork(l)'
  BY <1>3, <1>4, <1>5 DEF SessionsBuilt, AtWork, r, RestSteps, PatchSteps, BuildSteps
<1>9. DOMAIN temps' = Loaders /\ DOMAIN held' = Loaders /\ patched' \in [weights : BOOLEAN, graph : {"none", "whole"}]
      /\ \A s \in held'[l].sessions : FALSE
  BY <1>1, LoaderNow DEF NoSessions
<1>10. \A o \in Loaders \ {l} : held'[o] = held[o]
  BY <1>1, LoaderNow
<1>11. LoaderInv(l)'
  BY <1>6, <1>7, <1>8 DEF LoaderInv
<1> QED BY <1>1, <1>8, <1>9, <1>10, <1>11, LoaderMoves

\* Looking for the files of a request, one after the other.
LEMMA SearchMoves ==
    ASSUME FilesInv, NEW l \in Loaders, loader[l].at \in SearchSteps, NEW m, m = loader[l].model,
           DOMAIN loader'[l] = LoadFields, loader'[l].at \in SearchSteps,
           \A k \in LoadFields \ {"at", "todo", "stopped"} : loader'[l][k] = loader[l][k],
           UNCHANGED <<export, override, present>>, cache \subseteq cache',
           loader'[l].todo \in Seq(FileNames), Listed(loader'[l].todo) \subseteq Listed(loader[l].todo),
           \A f \in Listed(loader[l].todo) : f \in Listed(loader'[l].todo) \/ Placed(m, f)',
           loader'[l].at \in {"download", "powershell"} => loader'[l].todo # <<>> /\ ~Local(l)
    PROVE  LoaderInv(l)' /\ ~AtWork(l)'
<1>0. PICK half, checked, todo, more :
         half = loader[l].half /\ checked = loader[l].checked /\ todo = loader[l].todo /\ more = loader'[l].todo
  OBVIOUS
<1>1. /\ loader'[l].model = m /\ loader'[l].half = half /\ loader'[l].checked = checked /\ loader'[l].todo = more
      /\ loader'[l].only = loader[l].only /\ loader'[l].build = loader[l].build
      /\ loader'[l].viewed = loader[l].viewed /\ loader'[l].graph = loader[l].graph
      /\ loader'[l].promised = loader[l].promised /\ loader'[l].attempts = loader[l].attempts
      /\ loader'[l].done = loader[l].done /\ loader'[l].replicas = loader[l].replicas
  BY <1>0 DEF LoadFields
<1>2. /\ LoaderShape(l) /\ FilesFound(l) /\ PromiseKept(l) /\ ViewHas(l) /\ GraphPlaced(l) /\ SessionsBuilt(l)
  BY LoaderNow
<1>3. /\ loader[l].at \notin RestSteps \cup ViewSteps \cup {"found"} \cup PatchSteps \cup BuildSteps
      /\ loader'[l].at \notin RestSteps \cup ViewSteps \cup {"found"} \cup PatchSteps \cup BuildSteps
      /\ loader'[l].at \notin {"target", "write", "writing", "rename", "compile", "compiled", "run"}
  BY DEF RestSteps, SearchSteps, ViewSteps, PatchSteps, BuildSteps
<1>4. \A f : Placed(m, f) => Placed(m, f)'
  BY DEF Placed
<1>5. Needed(m, half, checked)' = Needed(m, half, checked)
  BY DEF Needed, ExternalFiles
<1>6. LoaderShape(l)'
  BY <1>0, <1>1, <1>2, <1>3 DEF LoaderShape
<1>7. FilesFound(l)'
  <2> DEFINE needed == Listed(Needed(m, half, checked))
  <2>1. Listed(todo) \subseteq needed /\ \A f \in needed : f \in Listed(todo) \/ Placed(m, f)
    BY <1>0, <1>2 DEF FilesFound
  <2>2. Listed(more) \subseteq needed /\ \A f \in needed : f \in Listed(more) \/ Placed(m, f)'
    BY <2>1, <1>0, <1>4
  <2>3. checked => ModelSpec(m).source.kind = "export" /\ \A f \in Listed(FilesOf(m, half)) : Placed(m, f)'
    BY <1>0, <1>2, <1>4 DEF FilesFound
  <2>4. loader'[l].at \in {"download", "powershell"} =>
            more # <<>> /\ ~(override' # {Nothing} /\ ModelSpec(m).source.kind \in {"export", "gemma"})
    BY <1>0 DEF Local, SourceOf
  <2> QED BY <2>2, <2>3, <2>4, <1>1, <1>3, <1>5 DEF FilesFound
<1>8. PromiseKept(l)' /\ ViewHas(l)' /\ GraphPlaced(l)'
  BY <1>0, <1>1, <1>2, <1>3 DEF PromiseKept, ViewHas, GraphPlaced
<1>9. SessionsBuilt(l)'
  BY <1>0, <1>1, <1>2, <1>3 DEF SessionsBuilt
<1> QED BY <1>3, <1>6, <1>7, <1>8, <1>9 DEF LoaderInv, AtWork

\* A file that is in place is one of those a request has found.
LEMMA InPlaceIsPlaced ==
    ASSUME NEW l \in Loaders, NEW f
    PROVE  InPlace(l, f) <=> Placed(loader[l].model, f)
  BY DEF InPlace, Placed, Local, SourceOf

\* What a promised request looks for is in place.
LEMMA PromisedIsPlaced ==
    ASSUME FilesInv, NEW l \in Loaders, loader[l].at \in SearchSteps, loader[l].promised, NEW f \in Listed(loader[l].todo)
    PROVE  Placed(loader[l].model, f)
<1>1. PICK m, half : m = loader[l].model /\ half = loader[l].half
  OBVIOUS
<1>2. <<m, half>> \in present
  BY <1>1, LoaderNow DEF PromiseKept, RestSteps, SearchSteps
<1>3. AllPlaced(m, half)
  <2>1. PICK p \in present : p = <<m, half>>
    BY <1>2
  <2>2. AllPlaced(p[1], p[2]) /\ p[1] = m /\ p[2] = half
    BY <2>1 DEF FilesInv
  <2> QED BY <2>2
<1>4. f \in Listed(Needed(m, half, loader[l].checked)) /\ (loader[l].checked => ModelSpec(m).source.kind = "export")
  BY <1>1, LoaderNow DEF FilesFound
<1>5. CASE loader[l].checked
  BY <1>1, <1>3, <1>4, <1>5 DEF Needed, AllPlaced
<1>6. CASE ~loader[l].checked
  BY <1>1, <1>3, <1>4, <1>6 DEF Needed, AllPlaced
<1> QED BY <1>1, <1>5, <1>6

\* A file that is looked for in the cache keeps the invariant.
LEMMA ResolveFileOK ==
    ASSUME FilesInv, NEW l \in Loaders, ResolveFile(l)
    PROVE  FilesInv'
<1> DEFINE r == loader[l]
           there == InPlace(l, Head(r.todo))
           online == ~r.only /\ ~Local(l)
<1>1. /\ r.at = "files" /\ r.todo # <<>> /\ KeepDisk /\ KeepRest
      /\ \/ there /\ Set(l, [todo |-> Tail(r.todo)])
         \/ ~there /\ ~online /\ End(l, IF r.only THEN "missing" ELSE "failed")
         \/ End(l, "cancelled")
         \/ online /\ GoesTo(l, "download")
  BY DEF ResolveFile
<1>2. /\ r.at \in SearchSteps /\ r.at \notin RestSteps /\ r.todo \in Seq(FileNames)
      /\ UNCHANGED <<export, override, present, cache>>
  BY <1>1, LoaderNow DEF LoaderShape, RestSteps, SearchSteps, KeepDisk, KeepRest
<1>3. Tail(r.todo) \in Seq(FileNames) /\ Head(r.todo) \in Listed(r.todo)
      /\ Listed(r.todo) = {Head(r.todo)} \cup Listed(Tail(r.todo))
  BY <1>1, <1>2, ListedRest
<1>4. CASE there /\ Set(l, [todo |-> Tail(r.todo)])
  <2> DEFINE ch == [todo |-> Tail(r.todo)]
  <2>1. DOMAIN ch = {"todo"} /\ ch["todo"] = Tail(r.todo) /\ Set(l, ch) /\ DOMAIN ch \subseteq LoadFields
    BY <1>4 DEF LoadFields
  <2> HIDE DEF ch
  <2>2. /\ DOMAIN loader' = Loaders /\ \A o \in Loaders \ {l} : loader'[o] = loader[o]
        /\ DOMAIN loader'[l] = LoadFields
        /\ \A k \in LoadFields : loader'[l][k] = IF k \in DOMAIN ch THEN ch[k] ELSE loader[l][k]
    BY <2>1, <1>2, RequestSet
  <2>3. loader'[l].at = "files" /\ loader'[l].todo = Tail(r.todo)
        /\ \A k \in LoadFields \ {"at", "todo", "stopped"} : loader'[l][k] = loader[l][k]
    BY <2>1, <2>2, <1>1 DEF LoadFields
  <2>4. PICK m, f : m = loader[l].model /\ f = Head(loader[l].todo)
    OBVIOUS
  <2>5. Placed(m, f)'
    BY <2>4, <1>2, <1>4, InPlaceIsPlaced DEF Placed
  <2>6. LoaderInv(l)' /\ ~AtWork(l)'
    BY <2>2, <2>3, <2>4, <2>5, <1>2, <1>3, SearchMoves DEF SearchSteps
  <2> QED BY <2>2, <2>6, <1>1, QuietMove
<1>5. CASE ~there /\ ~online /\ End(l, IF r.only THEN "missing" ELSE "failed")
  <2>1. ~r.promised
    BY <1>2, <1>3, <1>5, PromisedIsPlaced, InPlaceIsPlaced
  <2>2. PICK ended : End(l, ended)
    BY <1>5
  <2> QED BY <2>1, <2>2, <1>1, RequestEnds, QuietMove
<1>6. CASE End(l, "cancelled")
  BY <1>1, <1>6, RequestEnds, QuietMove
<1>7. CASE online /\ GoesTo(l, "download")
  <2>1. /\ DOMAIN loader' = Loaders /\ \A o \in Loaders \ {l} : loader'[o] = loader[o]
        /\ DOMAIN loader'[l] = LoadFields /\ loader'[l].at = "download"
        /\ \A k \in LoadFields \ {"at"} : loader'[l][k] = loader[l][k]
    BY <1>2, <1>7, RequestGoes
  <2>2. loader'[l].todo = r.todo
    BY <2>1 DEF LoadFields
  <2>3. LoaderInv(l)' /\ ~AtWork(l)'
    BY <2>1, <2>2, <1>1, <1>2, <1>7, SearchMoves DEF SearchSteps
  <2> QED BY <2>1, <2>3, <1>1, QuietMove
<1> QED BY <1>1, <1>4, <1>5, <1>6, <1>7

\* A transfer publishes the file, or ends the request, or is tried another way.
LEMMA TransferOK ==
    ASSUME FilesInv, NEW l \in Loaders, loader[l].at \in {"download", "powershell"},
           Published(l) \/ NotPublished(l) \/ (GoesTo(l, "powershell") /\ UNCHANGED cache),
           UNCHANGED <<view, patched, temps>>, KeepRest
    PROVE  FilesInv'
<1> DEFINE r == loader[l]
<1>1. /\ r.at \in SearchSteps /\ r.at \notin RestSteps /\ r.todo \in Seq(FileNames) /\ r.todo # <<>> /\ ~Local(l)
      /\ UNCHANGED <<export, override, present>> /\ DOMAIN temps' = Loaders /\ DOMAIN held' = Loaders
      /\ UNCHANGED <<model, together, held, patched, temps, view>>
      /\ patched' \in [weights : BOOLEAN, graph : {"none", "whole"}]
  BY LoaderNow DEF LoaderShape, FilesFound, RestSteps, SearchSteps, KeepRest, Local, SourceOf
<1>2. Tail(r.todo) \in Seq(FileNames) /\ Head(r.todo) \in Listed(r.todo)
      /\ Listed(r.todo) = {Head(r.todo)} \cup Listed(Tail(r.todo))
  BY <1>1, ListedRest
<1>3. CASE Published(l)
  <2> DEFINE ch == [at |-> "files", todo |-> Tail(r.todo)]
  <2>1. DOMAIN ch = {"at", "todo"} /\ ch["at"] = "files" /\ ch["todo"] = Tail(r.todo) /\ Set(l, ch) /\ DOMAIN ch \subseteq LoadFields
    BY <1>3 DEF LoadFields, Published
  <2> HIDE DEF ch
  <2>2. /\ DOMAIN loader' = Loaders /\ \A o \in Loaders \ {l} : loader'[o] = loader[o]
        /\ DOMAIN loader'[l] = LoadFields
        /\ \A k \in LoadFields : loader'[l][k] = IF k \in DOMAIN ch THEN ch[k] ELSE loader[l][k]
    BY <2>1, <1>1, RequestSet
  <2>3. loader'[l].at = "files" /\ loader'[l].todo = Tail(r.todo)
        /\ \A k \in LoadFields \ {"at", "todo", "stopped"} : loader'[l][k] = loader[l][k]
    BY <2>1, <2>2, <1>1 DEF LoadFields
  <2>4. PICK m, f : m = loader[l].model /\ f = Head(loader[l].todo)
    OBVIOUS
  <2>5. Placed(m, f)' /\ cache \subseteq cache'
    BY <2>4, <1>1, <1>3 DEF Placed, Published, Local, SourceOf
  <2>6. LoaderInv(l)' /\ ~AtWork(l)'
    BY <2>2, <2>3, <2>4, <2>5, <1>1, <1>2, SearchMoves DEF SearchSteps
  <2> QED BY <2>2, <2>5, <2>6, <1>1, LoaderMoves
<1>4. CASE NotPublished(l)
  <2>1. PICK ended \in {"cancelled", "failed"} : End(l, ended)
    BY <1>4 DEF NotPublished
  <2>2. cache' = cache
    BY <1>4 DEF NotPublished
  <2>3. /\ DOMAIN loader' = Loaders /\ \A o \in Loaders \ {l} : loader'[o] = loader[o]
        /\ LoaderInv(l)' /\ ~AtWork(l)'
    BY <2>1, RequestEnds
  <2> QED BY <2>2, <2>3, <1>1, LoaderMoves
<1>5. CASE GoesTo(l, "powershell") /\ UNCHANGED cache
  <2>1. /\ DOMAIN loader' = Loaders /\ \A o \in Loaders \ {l} : loader'[o] = loader[o]
        /\ DOMAIN loader'[l] = LoadFields /\ loader'[l].at = "powershell"
        /\ \A k \in LoadFields \ {"at"} : loader'[l][k] = loader[l][k]
    BY <1>1, <1>5, RequestGoes
  <2>2. loader'[l].todo = r.todo
    BY <2>1 DEF LoadFields
  <2>3. LoaderInv(l)' /\ ~AtWork(l)'
    BY <2>1, <2>2, <1>1, <1>5, SearchMoves DEF SearchSteps
  <2> QED BY <2>1, <2>3, <1>1, <1>5, LoaderMoves
<1> QED BY <1>3, <1>4, <1>5

\* A request that has found all it looked for has its files in place.
LEMMA AllAreFound ==
    ASSUME FilesInv, NEW l \in Loaders, loader[l].at = "files", loader[l].todo = <<>>,
           ModelSpec(loader[l].model).source.kind = "export" => loader[l].checked
    PROVE  AllPlaced(loader[l].model, loader[l].half)
<1>1. PICK m, half, checked : m = loader[l].model /\ half = loader[l].half /\ checked = loader[l].checked
  OBVIOUS
<1>2. /\ \A f \in Listed(Needed(m, half, checked)) : Placed(m, f)
      /\ checked => /\ ModelSpec(m).source.kind = "export"
                    /\ \A f \in Listed(FilesOf(m, half)) : Placed(m, f)
  BY <1>1, LoaderNow, NothingToFind DEF FilesFound, SearchSteps
<1>3. CASE checked
  BY <1>1, <1>2, <1>3 DEF AllPlaced, Needed
<1>4. CASE ~checked
  BY <1>1, <1>2, <1>4 DEF AllPlaced, Needed
<1> QED BY <1>1, <1>3, <1>4

\* A request goes on once its files are in place.
LEMMA FoundMoves ==
    ASSUME FilesInv, NEW l \in Loaders, loader[l].at \in SearchSteps \cup ViewSteps,
           DOMAIN loader'[l] = LoadFields, loader'[l].at \in ViewSteps \cup {"found"},
           \A k \in LoadFields \ {"at", "todo", "viewed"} : loader'[l][k] = loader[l][k],
           UNCHANGED <<export, override, present, cache>>, loader'[l].todo \in Seq(FileNames),
           AllPlaced(loader[l].model, loader[l].half), ViewHas(l)'
    PROVE  LoaderInv(l)' /\ ~AtWork(l)'
<1>0. PICK m, half : m = loader[l].model /\ half = loader[l].half
  OBVIOUS
<1>1. /\ loader'[l].model = m /\ loader'[l].half = half
      /\ loader'[l].only = loader[l].only /\ loader'[l].build = loader[l].build /\ loader'[l].graph = loader[l].graph
      /\ loader'[l].promised = loader[l].promised /\ loader'[l].attempts = loader[l].attempts
      /\ loader'[l].replicas = loader[l].replicas
  BY <1>0 DEF LoadFields
<1>2. LoaderShape(l) /\ PromiseKept(l) /\ GraphPlaced(l) /\ SessionsBuilt(l)
  BY LoaderNow
<1>3. /\ loader[l].at \notin RestSteps \cup {"found"} \cup PatchSteps \cup BuildSteps
      /\ loader'[l].at \notin RestSteps \cup SearchSteps \cup PatchSteps \cup BuildSteps
      /\ loader'[l].at \notin {"target", "write", "writing", "rename", "compile", "compiled", "run", "download", "powershell"}
  BY DEF RestSteps, SearchSteps, ViewSteps, PatchSteps, BuildSteps
<1>4. AllPlaced(m, half)'
  BY <1>0 DEF AllPlaced, Placed, ExternalFiles
<1>5. LoaderShape(l)'
  BY <1>0, <1>1, <1>2, <1>3 DEF LoaderShape
<1>6. FilesFound(l)'
  BY <1>1, <1>3, <1>4 DEF FilesFound
<1>7. PromiseKept(l)' /\ GraphPlaced(l)'
  BY <1>0, <1>1, <1>2, <1>3 DEF PromiseKept, GraphPlaced
<1>8. SessionsBuilt(l)'
  BY <1>0, <1>1, <1>2, <1>3 DEF SessionsBuilt
<1> QED BY <1>3, <1>5, <1>6, <1>7, <1>8 DEF LoaderInv, AtWork

\* The manifest, read or checked, keeps the invariant.
LEMMA ReadManifestOK ==
    ASSUME FilesInv, NEW l \in Loaders, ReadManifest(l)
    PROVE  FilesInv'
<1>0. PICK m, half, origin, beside : m = loader[l].model /\ half = loader[l].half /\ origin = ModelSpec(m).source
                                   /\ beside = origin.files \o Unlisted(l, 1) \o Unlisted(l, 2) \o Unlisted(l, 3)
  OBVIOUS
<1>1. /\ loader[l].at = "files" /\ loader[l].todo = <<>> /\ KeepDisk /\ KeepRest
      /\ \/ origin.kind # "export" /\ GoesTo(l, "found")
         \/ origin.kind = "gemma" /\ Set(l, [at |-> "view", todo |-> GemmaFiles])
         \/ End(l, "failed")
         \/ origin.kind = "export" /\ ~loader[l].checked /\ Set(l, [todo |-> External(l), checked |-> TRUE])
         \/ origin.kind = "export" /\ loader[l].checked /\ Set(l, [at |-> "view", todo |-> beside])
  <2>1. m \in KnownModels /\ half \in {"image", "query"}
    BY <1>0, LoaderNow DEF ReadManifest, LoaderShape, RestSteps
  <2>2. origin.kind \in {"export", "gemma", "deepghs", "bge", "ocr"}
    BY <1>0, <2>1, SourceFiles
  <2>3. SourceOf(l) = origin
    BY <1>0 DEF SourceOf
  <2> QED BY <1>0, <2>2, <2>3 DEF ReadManifest
<1>2. /\ loader[l].at \in SearchSteps /\ loader[l].at \in SearchSteps \cup ViewSteps /\ loader[l].at \notin RestSteps
      /\ UNCHANGED <<export, override, present, cache, view>>
      /\ LoaderShape(l) /\ FilesFound(l) /\ PromiseKept(l) /\ ViewHas(l) /\ GraphPlaced(l) /\ SessionsBuilt(l)
      /\ m \in KnownModels /\ half \in {"image", "query"} /\ ~loader[l].viewed
  BY <1>0, <1>1, LoaderNow DEF LoaderShape, ViewHas, RestSteps, SearchSteps, KeepDisk, KeepRest
<1>3. CASE origin.kind # "export" /\ GoesTo(l, "found")
  <2>1. /\ DOMAIN loader' = Loaders /\ \A o \in Loaders \ {l} : loader'[o] = loader[o]
        /\ DOMAIN loader'[l] = LoadFields /\ loader'[l].at = "found"
        /\ \A k \in LoadFields \ {"at"} : loader'[l][k] = loader[l][k]
    BY <1>2, <1>3, RequestGoes
  <2>2. loader'[l].viewed = loader[l].viewed /\ loader'[l].todo = loader[l].todo
    BY <2>1 DEF LoadFields
  <2>3. AllPlaced(loader[l].model, loader[l].half)
    BY <1>0, <1>1, <1>3, AllAreFound
  <2>4. ViewHas(l)'
    BY <2>1, <2>2, <1>2 DEF ViewHas, SearchSteps, ViewSteps
  <2>5. loader'[l].todo \in Seq(FileNames)
    BY <2>2, <1>2 DEF LoaderShape
  <2>6. LoaderInv(l)' /\ ~AtWork(l)'
    BY <2>1, <2>3, <2>4, <2>5, <1>2, FoundMoves
  <2> QED BY <2>1, <2>6, <1>1, QuietMove
<1>4. ASSUME NEW todo \in Seq(FileNames), Listed(origin.files) \subseteq Listed(todo), origin.kind \in {"export", "gemma"},
             origin.kind = "export" => loader[l].checked, Set(l, [at |-> "view", todo |-> todo])
      PROVE  FilesInv'
  <2> DEFINE ch == [at |-> "view", todo |-> todo]
  <2>1. DOMAIN ch = {"at", "todo"} /\ ch["at"] = "view" /\ ch["todo"] = todo /\ Set(l, ch) /\ DOMAIN ch \subseteq LoadFields
    BY <1>4 DEF LoadFields
  <2> HIDE DEF ch
  <2>2. /\ DOMAIN loader' = Loaders /\ \A o \in Loaders \ {l} : loader'[o] = loader[o]
        /\ DOMAIN loader'[l] = LoadFields
        /\ \A k \in LoadFields : loader'[l][k] = IF k \in DOMAIN ch THEN ch[k] ELSE loader[l][k]
    BY <2>1, <1>2, RequestSet
  <2>3. /\ loader'[l].at = "view" /\ loader'[l].todo = todo /\ loader'[l].viewed = loader[l].viewed /\ loader'[l].model = m
        /\ \A k \in LoadFields \ {"at", "todo", "viewed"} : loader'[l][k] = loader[l][k]
    BY <2>1, <2>2, <1>0 DEF LoadFields
  <2>4. AllPlaced(loader[l].model, loader[l].half)
    BY <1>0, <1>1, <1>4, AllAreFound
  <2>5. ViewHas(l)'
    BY <2>3, <1>0, <1>2, <1>4 DEF ViewHas, SearchSteps, ViewSteps
  <2>6. LoaderInv(l)' /\ ~AtWork(l)'
    BY <2>2, <2>3, <2>4, <2>5, <1>2, <1>4, FoundMoves DEF ViewSteps
  <2> QED BY <2>2, <2>6, <1>1, QuietMove
<1>5. CASE origin.kind = "gemma" /\ Set(l, [at |-> "view", todo |-> GemmaFiles])
  <2>1. GemmaFiles \in Seq(FileNames) /\ origin.files = GemmaFiles
    BY <1>0, <1>2, <1>5, SourceFiles
  <2> QED BY <2>1, <1>4, <1>5
<1>6. CASE End(l, "failed")
  BY <1>1, <1>6, RequestEnds, QuietMove
<1>7. CASE origin.kind = "export" /\ ~loader[l].checked /\ Set(l, [todo |-> External(l), checked |-> TRUE])
  <2>0. PICK files : files = External(l) /\ files = ExternalFiles(origin)
    BY <1>0 DEF External, SourceOf
  <2> DEFINE ch == [todo |-> files, checked |-> TRUE]
  <2>1. DOMAIN ch = {"todo", "checked"} /\ ch["checked"] = TRUE /\ ch["todo"] = files /\ Set(l, ch) /\ DOMAIN ch \subseteq LoadFields
    BY <2>0, <1>7 DEF LoadFields
  <2> HIDE DEF ch
  <2>2. /\ DOMAIN loader' = Loaders /\ \A o \in Loaders \ {l} : loader'[o] = loader[o]
        /\ DOMAIN loader'[l] = LoadFields
        /\ \A k \in LoadFields : loader'[l][k] = IF k \in DOMAIN ch THEN ch[k] ELSE loader[l][k]
    BY <2>1, <1>2, RequestSet
  <2>3. /\ loader'[l].at = "files" /\ loader'[l].todo = files /\ loader'[l].checked
        /\ loader'[l].model = m /\ loader'[l].half = half
        /\ loader'[l].viewed = loader[l].viewed /\ loader'[l].only = loader[l].only /\ loader'[l].build = loader[l].build
        /\ loader'[l].graph = loader[l].graph /\ loader'[l].promised = loader[l].promised
        /\ loader'[l].attempts = loader[l].attempts /\ loader'[l].replicas = loader[l].replicas
    BY <2>1, <2>2, <1>0, <1>1 DEF LoadFields
  <2>4. files \in Seq(FileNames)
    BY <2>0, BesideFiles
  <2>5. \A f \in Listed(FilesOf(m, half)) : Placed(m, f)'
    <3>1. \A f \in Listed(FilesOf(m, half)) : Placed(m, f)
      BY <1>0, <1>1, <1>2, <1>7, NothingToFind DEF FilesFound, Needed
    <3> QED BY <3>1, <1>2 DEF Placed
  <2>6. Needed(m, half, TRUE)' = files
    BY <2>0, <1>0, <1>2 DEF Needed, ExternalFiles
  <2>7. FilesFound(l)'
    <3>1. loader'[l].checked = TRUE
      BY <2>1, <2>2 DEF LoadFields
    <3> QED BY <3>1, <2>3, <2>5, <2>6, <1>0, <1>7 DEF FilesFound, SearchSteps, ViewSteps
  <2>8. LoaderShape(l)'
    BY <2>2, <2>3, <2>4, <1>0, <1>2 DEF LoaderShape, SearchSteps, RestSteps
  <2>9. PromiseKept(l)' /\ ViewHas(l)' /\ GraphPlaced(l)'
    BY <2>3, <1>0, <1>2 DEF PromiseKept, ViewHas, GraphPlaced, RestSteps, SearchSteps, ViewSteps, PatchSteps, BuildSteps
  <2>10. SessionsBuilt(l)' /\ ~AtWork(l)'
    BY <2>3, <1>0, <1>2 DEF SessionsBuilt, AtWork, RestSteps, SearchSteps, PatchSteps, BuildSteps
  <2>11. LoaderInv(l)'
    BY <2>7, <2>8, <2>9, <2>10 DEF LoaderInv
  <2> QED BY <2>2, <2>10, <2>11, <1>1, QuietMove
<1>8. CASE origin.kind = "export" /\ loader[l].checked /\ Set(l, [at |-> "view", todo |-> beside])
  <2>1. origin.files \in Seq(FileNames)
    BY <1>0, <1>2, <1>8, SourceFiles
  <2>2. Unlisted(l, 1) \in Seq(FileNames) /\ Unlisted(l, 2) \in Seq(FileNames) /\ Unlisted(l, 3) \in Seq(FileNames)
    BY UnlistedFiles
  <2>3. PICK a, b : a = origin.files \o Unlisted(l, 1) /\ b = a \o Unlisted(l, 2) /\ beside = b \o Unlisted(l, 3)
    BY <1>0
  <2>4. a \in Seq(FileNames) /\ Listed(origin.files) \subseteq Listed(a)
    BY <2>1, <2>2, <2>3, ListedBoth
  <2>5. b \in Seq(FileNames) /\ Listed(a) \subseteq Listed(b)
    BY <2>2, <2>3, <2>4, ListedBoth
  <2>6. beside \in Seq(FileNames) /\ Listed(b) \subseteq Listed(beside)
    BY <2>2, <2>3, <2>5, ListedBoth
  <2>7. Listed(origin.files) \subseteq Listed(beside)
    BY <2>4, <2>5, <2>6
  <2> QED BY <2>6, <2>7, <1>4, <1>8
<1> QED BY <1>1, <1>3, <1>5, <1>6, <1>7, <1>8

\* A link that is made, or is there, keeps the invariant.
LEMMA LinkFileOK ==
    ASSUME FilesInv, NEW l \in Loaders, LinkFile(l)
    PROVE  FilesInv'
<1>0. PICK m, half, todo : m = loader[l].model /\ half = loader[l].half /\ todo = loader[l].todo
  OBVIOUS
<1>1. /\ loader[l].at \in ViewSteps /\ loader[l].at \in SearchSteps \cup ViewSteps /\ loader[l].at \notin RestSteps
      /\ UNCHANGED <<model, export, override, together, held, present, cache, patched, temps>>
      /\ ViewHas(l) /\ todo \in Seq(FileNames) /\ AllPlaced(loader[l].model, loader[l].half)
      /\ ModelSpec(m).source.kind \in {"export", "gemma"}
      /\ DOMAIN temps' = Loaders /\ DOMAIN held' = Loaders /\ patched' \in [weights : BOOLEAN, graph : {"none", "whole"}]
  BY <1>0, LoaderNow DEF LinkFile, LoaderShape, FilesFound, ViewHas, RestSteps, ViewSteps, KeepRest
<1>2. CASE Set(l, [at |-> "found", viewed |-> loader[l].at = "linking"]) /\ view' = view
           /\ (loader[l].at = "linking" => todo = <<>>)
  <2>1. PICK v \in BOOLEAN : v = (loader[l].at = "linking")
    OBVIOUS
  <2> DEFINE ch == [at |-> "found", viewed |-> v]
  <2>2. DOMAIN ch = {"at", "viewed"} /\ ch["at"] = "found" /\ ch["viewed"] = v /\ Set(l, ch) /\ DOMAIN ch \subseteq LoadFields
    BY <2>1, <1>2 DEF LoadFields
  <2> HIDE DEF ch
  <2>3. /\ DOMAIN loader' = Loaders /\ \A o \in Loaders \ {l} : loader'[o] = loader[o]
        /\ DOMAIN loader'[l] = LoadFields
        /\ \A k \in LoadFields : loader'[l][k] = IF k \in DOMAIN ch THEN ch[k] ELSE loader[l][k]
    BY <2>2, <1>1, RequestSet
  <2>4. /\ loader'[l].at = "found" /\ loader'[l].todo = todo /\ loader'[l].viewed = v /\ loader'[l].model = m
        /\ \A k \in LoadFields \ {"at", "todo", "viewed"} : loader'[l][k] = loader[l][k]
    BY <2>2, <2>3, <1>0 DEF LoadFields
  <2>5. v => Listed(ModelSpec(m).source.files) \subseteq view
    BY <2>1, <1>0, <1>1, <1>2, NothingToFind DEF ViewHas
  <2>6. ViewHas(l)'
    BY <2>4, <2>5, <1>2 DEF ViewHas, SearchSteps, ViewSteps
  <2>7. LoaderInv(l)' /\ ~AtWork(l)'
    BY <2>3, <2>4, <2>6, <1>1, FoundMoves
  <2> QED BY <2>3, <2>7, <1>1, <1>2, LoaderMoves
<1>3. CASE todo # <<>> /\ Set(l, [at |-> "linking", todo |-> Tail(todo)]) /\ view' = view \cup {Head(todo)}
  <2> DEFINE ch == [at |-> "linking", todo |-> Tail(todo)]
  <2>1. DOMAIN ch = {"at", "todo"} /\ ch["at"] = "linking" /\ ch["todo"] = Tail(todo) /\ Set(l, ch) /\ DOMAIN ch \subseteq LoadFields
    BY <1>3 DEF LoadFields
  <2> HIDE DEF ch
  <2>2. /\ DOMAIN loader' = Loaders /\ \A o \in Loaders \ {l} : loader'[o] = loader[o]
        /\ DOMAIN loader'[l] = LoadFields
        /\ \A k \in LoadFields : loader'[l][k] = IF k \in DOMAIN ch THEN ch[k] ELSE loader[l][k]
    BY <2>1, <1>1, RequestSet
  <2>3. /\ loader'[l].at = "linking" /\ loader'[l].todo = Tail(todo) /\ loader'[l].viewed = loader[l].viewed
        /\ loader'[l].model = m
        /\ \A k \in LoadFields \ {"at", "todo", "viewed"} : loader'[l][k] = loader[l][k]
    BY <2>1, <2>2, <1>0 DEF LoadFields
  <2>4. Tail(todo) \in Seq(FileNames) /\ Listed(todo) = {Head(todo)} \cup Listed(Tail(todo))
    BY <1>1, <1>3, ListedRest
  <2>5. ~loader[l].viewed /\ Listed(ModelSpec(m).source.files) \subseteq Listed(Tail(todo)) \cup view'
    BY <2>4, <1>0, <1>1, <1>3 DEF ViewHas
  <2>6. ViewHas(l)'
    BY <2>3, <2>5, <1>1 DEF ViewHas, SearchSteps, ViewSteps
  <2>7. LoaderInv(l)' /\ ~AtWork(l)'
    BY <2>2, <2>3, <2>4, <2>6, <1>1, FoundMoves DEF ViewSteps
  <2> QED BY <2>2, <2>7, <1>1, <1>3, LoaderMoves
<1> QED BY <1>0, <1>2, <1>3 DEF LinkFile, ExistingLink

\* What a fetch reports is in place.
LEMMA FetchEndsOK ==
    ASSUME FilesInv, NEW l \in Loaders, FetchEnds(l)
    PROVE  FilesInv'
<1>1. /\ AllPlaced(loader[l].model, loader[l].half) /\ End(l, "present")
      /\ present' = present \cup {<<loader[l].model, loader[l].half>>}
      /\ UNCHANGED <<model, export, override, together, held, cache, view, patched, temps>>
      /\ DOMAIN temps' = Loaders /\ DOMAIN held' = Loaders /\ patched' \in [weights : BOOLEAN, graph : {"none", "whole"}]
  BY LoaderNow DEF FetchEnds, FilesFound, KeepDisk
<1>2. \A p \in present' : p \in present \/ AllPlaced(p[1], p[2])
  BY <1>1
<1>3. /\ DOMAIN loader' = Loaders /\ \A o \in Loaders \ {l} : loader'[o] = loader[o]
      /\ LoaderInv(l)' /\ ~AtWork(l)'
  BY <1>1, RequestEnds
<1> QED BY <1>1, <1>2, <1>3, LoaderMoves

\* A search that is stopped keeps the invariant.
LEMMA StopLoaderOK ==
    ASSUME FilesInv, NEW l \in Loaders, StopLoader(l)
    PROVE  FilesInv'
<1> DEFINE ch == [stopped |-> TRUE]
<1>1. /\ loader[l].at \in SearchSteps /\ loader[l].at \notin RestSteps /\ KeepDisk /\ KeepRest
      /\ DOMAIN ch = {"stopped"} /\ Set(l, ch) /\ DOMAIN ch \subseteq LoadFields
      /\ UNCHANGED <<export, override, present, cache>>
  BY DEF StopLoader, SearchSteps, RestSteps, LoadFields, KeepDisk, KeepRest
<1> HIDE DEF ch
<1>2. /\ DOMAIN loader' = Loaders /\ \A o \in Loaders \ {l} : loader'[o] = loader[o]
      /\ DOMAIN loader'[l] = LoadFields
      /\ \A k \in LoadFields : loader'[l][k] = IF k \in DOMAIN ch THEN ch[k] ELSE loader[l][k]
  BY <1>1, RequestSet
<1>3. /\ loader'[l].at = loader[l].at /\ loader'[l].todo = loader[l].todo
      /\ \A k \in LoadFields \ {"at", "todo", "stopped"} : loader'[l][k] = loader[l][k]
  BY <1>1, <1>2 DEF LoadFields
<1>4. /\ loader[l].todo \in Seq(FileNames)
      /\ loader[l].at \in {"download", "powershell"} => loader[l].todo # <<>> /\ ~Local(l)
  BY <1>1, LoaderNow DEF LoaderShape, FilesFound, Local, SourceOf
<1>5. LoaderInv(l)' /\ ~AtWork(l)'
  BY <1>1, <1>2, <1>3, <1>4, SearchMoves
<1> QED BY <1>1, <1>2, <1>5, QuietMove

\* A request that has its files goes on to a graph, its own or a derived one.
LEMMA GraphMoves ==
    ASSUME FilesInv, NEW l \in Loaders, loader[l].at \in {"found"} \cup PatchSteps, loader[l].build,
           DOMAIN loader'[l] = LoadFields, loader'[l].at \in {"plan"} \cup PatchSteps,
           \A k \in LoadFields \ {"at", "graph"} : loader'[l][k] = loader[l][k],
           UNCHANGED <<export, override, present, cache>>, GraphPlaced(l)'
    PROVE  LoaderInv(l)' /\ ~AtWork(l)'
<1>1. /\ loader'[l].model = loader[l].model /\ loader'[l].half = loader[l].half /\ loader'[l].todo = loader[l].todo
      /\ loader'[l].only = loader[l].only /\ loader'[l].build = loader[l].build
      /\ loader'[l].promised = loader[l].promised /\ loader'[l].attempts = loader[l].attempts
      /\ loader'[l].replicas = loader[l].replicas
  BY DEF LoadFields
<1>2. LoaderShape(l) /\ PromiseKept(l) /\ SessionsBuilt(l)
  BY LoaderNow
<1>3. /\ loader[l].at \notin RestSteps \cup SearchSteps \cup ViewSteps \cup BuildSteps
      /\ loader'[l].at \notin RestSteps \cup SearchSteps \cup ViewSteps \cup {"found"}
      /\ loader'[l].at \notin {"compile", "compiled", "run", "download", "powershell"}
      /\ loader'[l].at \in PatchSteps \cup BuildSteps
  BY DEF RestSteps, SearchSteps, ViewSteps, PatchSteps, BuildSteps
<1>4. LoaderShape(l)'
  BY <1>1, <1>2, <1>3 DEF LoaderShape
<1>5. FilesFound(l)' /\ PromiseKept(l)' /\ ViewHas(l)'
  BY <1>1, <1>2, <1>3 DEF FilesFound, PromiseKept, ViewHas
<1>6. SessionsBuilt(l)'
  BY <1>1, <1>2, <1>3 DEF SessionsBuilt
<1> QED BY <1>3, <1>4, <1>5, <1>6 DEF LoaderInv, AtWork

\* The steps of a request that only move it on.
LEMMA GraphGoes ==
    ASSUME FilesInv, NEW l \in Loaders, loader[l].at \in {"found"} \cup PatchSteps, loader[l].build,
           NEW at \in {"plan"} \cup PatchSteps, GoesTo(l, at),
           UNCHANGED <<export, override, present, cache>>,
           at \in {"target", "write", "writing", "rename"} => patched'.weights,
           at = "rename" => temps'[l] = "whole"
    PROVE  /\ DOMAIN loader' = Loaders /\ \A o \in Loaders \ {l} : loader'[o] = loader[o]
           /\ LoaderInv(l)' /\ ~AtWork(l)'
<1>1. loader[l].at \notin RestSteps
  BY DEF RestSteps, PatchSteps
<1>2. /\ DOMAIN loader' = Loaders /\ \A o \in Loaders \ {l} : loader'[o] = loader[o]
      /\ DOMAIN loader'[l] = LoadFields /\ loader'[l].at = at
      /\ \A k \in LoadFields \ {"at"} : loader'[l][k] = loader[l][k]
  BY <1>1, RequestGoes
<1>3. loader'[l].graph = "original"
  BY <1>2, LoaderNow DEF LoadFields, GraphPlaced
<1>4. GraphPlaced(l)'
  BY <1>2, <1>3 DEF GraphPlaced
<1> QED BY <1>2, <1>4, GraphMoves

\* A request that has its graph.
LEMMA GraphTaken ==
    ASSUME FilesInv, NEW l \in Loaders, loader[l].at \in {"found"} \cup PatchSteps, loader[l].build,
           NEW graph, Set(l, [at |-> "plan", graph |-> graph]),
           UNCHANGED <<export, override, present, cache>>,
           graph = "file" => patched'.weights /\ patched'.graph = "whole"
    PROVE  /\ DOMAIN loader' = Loaders /\ \A o \in Loaders \ {l} : loader'[o] = loader[o]
           /\ LoaderInv(l)' /\ ~AtWork(l)'
<1> DEFINE ch == [at |-> "plan", graph |-> graph]
<1>1. /\ loader[l].at \notin RestSteps
      /\ DOMAIN ch = {"at", "graph"} /\ ch["at"] = "plan" /\ ch["graph"] = graph /\ Set(l, ch) /\ DOMAIN ch \subseteq LoadFields
  BY DEF RestSteps, PatchSteps, LoadFields
<1> HIDE DEF ch
<1>2. /\ DOMAIN loader' = Loaders /\ \A o \in Loaders \ {l} : loader'[o] = loader[o]
      /\ DOMAIN loader'[l] = LoadFields
      /\ \A k \in LoadFields : loader'[l][k] = IF k \in DOMAIN ch THEN ch[k] ELSE loader[l][k]
  BY <1>1, RequestSet
<1>3. /\ loader'[l].at = "plan" /\ loader'[l].graph = graph
      /\ \A k \in LoadFields \ {"at", "graph"} : loader'[l][k] = loader[l][k]
  BY <1>1, <1>2 DEF LoadFields
<1>4. GraphPlaced(l)'
  BY <1>3 DEF GraphPlaced, SearchSteps, ViewSteps, PatchSteps
<1> QED BY <1>2, <1>3, <1>4, GraphMoves

\* A request that begins to build, or to derive its graph, keeps the invariant.
LEMMA FoundOK ==
    ASSUME FilesInv, NEW l \in Loaders, QueryFound(l) \/ ImageFound(l)
    PROVE  FilesInv'
<1>1. /\ loader[l].at = "found" /\ loader[l].build /\ KeepDisk /\ KeepRest
      /\ UNCHANGED <<export, override, present, cache>>
      /\ \/ \E at \in {"plan", "weights"} : GoesTo(l, at)
         \/ \E graph : graph # "file" /\ Set(l, [at |-> "plan", graph |-> graph])
  BY DEF QueryFound, ImageFound, KeepDisk, KeepRest
<1>2. CASE \E at \in {"plan", "weights"} : GoesTo(l, at)
  <2>1. PICK at \in {"plan", "weights"} : GoesTo(l, at)
    BY <1>2
  <2>2. at \in {"plan"} \cup PatchSteps /\ at \notin {"target", "write", "writing", "rename"}
    BY DEF PatchSteps
  <2>3. /\ DOMAIN loader' = Loaders /\ \A o \in Loaders \ {l} : loader'[o] = loader[o]
        /\ LoaderInv(l)' /\ ~AtWork(l)'
    BY <2>1, <2>2, <1>1, GraphGoes
  <2> QED BY <2>3, <1>1, QuietMove
<1>3. CASE \E graph : graph # "file" /\ Set(l, [at |-> "plan", graph |-> graph])
  <2>1. PICK graph : graph # "file" /\ Set(l, [at |-> "plan", graph |-> graph])
    BY <1>3
  <2>2. /\ DOMAIN loader' = Loaders /\ \A o \in Loaders \ {l} : loader'[o] = loader[o]
        /\ LoaderInv(l)' /\ ~AtWork(l)'
    BY <2>1, <1>1, GraphTaken
  <2> QED BY <2>2, <1>1, QuietMove
<1> QED BY <1>1, <1>2, <1>3

\* The steps of the patched graph.
LEMMA StepsOfPatch ==
    /\ "target" \in {"plan"} \cup PatchSteps /\ "link weights" \in {"plan"} \cup PatchSteps
    /\ "write" \in {"plan"} \cup PatchSteps /\ "writing" \in {"plan"} \cup PatchSteps
    /\ "rename" \in {"plan"} \cup PatchSteps
  BY DEF PatchSteps

\* A graph that is written, or found written, keeps the invariant.
LEMMA DeriveGraphOK ==
    ASSUME FilesInv, NEW l \in Loaders, DeriveGraph(l)
    PROVE  FilesInv'
<1>1. /\ loader[l].at \in PatchSteps /\ loader[l].at \in {"found"} \cup PatchSteps /\ loader[l].build
      /\ UNCHANGED <<model, export, override, together, held, cache, view, present>> /\ DOMAIN held' = Loaders
      /\ patched \in [weights : BOOLEAN, graph : {"none", "whole"}] /\ DOMAIN temps = Loaders /\ GraphPlaced(l)
  BY LoaderNow DEF DeriveGraph, LinkWeights, WriteGraph, RenameGraph, PatchSteps, SessionsBuilt, KeepRest
<1>2. SUFFICES /\ DOMAIN temps' = Loaders /\ \A o \in Loaders \ {l} : temps'[o] = temps[o]
               /\ patched' \in [weights : BOOLEAN, graph : {"none", "whole"}]
               /\ patched.weights => patched'.weights
               /\ patched.graph = "whole" => patched'.graph = "whole"
               /\ \/ \E at \in {"plan"} \cup PatchSteps :
                        /\ GoesTo(l, at)
                        /\ at \in {"target", "write", "writing", "rename"} => patched'.weights
                        /\ at = "rename" => temps'[l] = "whole"
                  \/ \E graph :
                        /\ Set(l, [at |-> "plan", graph |-> graph])
                        /\ graph = "file" => patched'.weights /\ patched'.graph = "whole"
  <2>1. /\ DOMAIN loader' = Loaders /\ \A o \in Loaders \ {l} : loader'[o] = loader[o]
        /\ LoaderInv(l)' /\ ~AtWork(l)'
    <3>1. CASE \E at \in {"plan"} \cup PatchSteps :
                  /\ GoesTo(l, at)
                  /\ at \in {"target", "write", "writing", "rename"} => patched'.weights
                  /\ at = "rename" => temps'[l] = "whole"
      BY <3>1, <1>1, GraphGoes
    <3>2. CASE \E graph :
                  /\ Set(l, [at |-> "plan", graph |-> graph])
                  /\ graph = "file" => patched'.weights /\ patched'.graph = "whole"
      BY <3>2, <1>1, GraphTaken
    <3> QED BY <1>2, <3>1, <3>2
  <2> QED BY <2>1, <1>1, <1>2, LoaderMoves
<1>3. CASE LinkWeights(l) /\ UNCHANGED temps
  <2>1. CASE patched' = patched /\ GoesTo(l, "target") /\ patched.weights
    BY <2>1, <1>1, <1>3, StepsOfPatch
  <2>2. CASE patched' = patched /\ GoesTo(l, "link weights")
    BY <2>2, <1>1, <1>3, StepsOfPatch
  <2>3. CASE patched' = [patched EXCEPT !.weights = TRUE] /\ GoesTo(l, "target")
    BY <2>3, <1>1, <1>3, StepsOfPatch
  <2>4. CASE patched' = patched /\ Set(l, [at |-> "plan", graph |-> "original"])
    BY <2>4, <1>1, <1>3
  <2> QED BY <1>3, <2>1, <2>2, <2>3, <2>4 DEF LinkWeights
<1>4. CASE WriteGraph(l)
  <2>1. CASE /\ loader[l].at = "target" /\ UNCHANGED <<patched, temps>>
             /\ patched.graph # "none" /\ Set(l, [at |-> "plan", graph |-> "file"])
    <3>1. patched'.weights /\ patched'.graph = "whole"
      BY <2>1, <1>1 DEF GraphPlaced
    <3> QED BY <3>1, <2>1, <1>1
  <2>2. CASE loader[l].at = "target" /\ UNCHANGED <<patched, temps>> /\ GoesTo(l, "write")
    <3>1. patched'.weights
      BY <2>2, <1>1 DEF GraphPlaced
    <3> QED BY <3>1, <2>2, <1>1, StepsOfPatch
  <2>3. CASE loader[l].at = "write" /\ GoesTo(l, "writing") /\ UNCHANGED patched /\ temps' = [temps EXCEPT ![l] = "part"]
    <3>1. patched'.weights
      BY <2>3, <1>1 DEF GraphPlaced
    <3> QED BY <3>1, <2>3, <1>1, StepsOfPatch
  <2>4. CASE loader[l].at = "writing" /\ GoesTo(l, "rename") /\ UNCHANGED patched /\ temps' = [temps EXCEPT ![l] = "whole"]
    <3>1. patched'.weights /\ temps'[l] = "whole"
      BY <2>4, <1>1 DEF GraphPlaced
    <3> QED BY <3>1, <2>4, <1>1, StepsOfPatch
  <2>5. CASE UNCHANGED <<patched, temps>> /\ Set(l, [at |-> "plan", graph |-> "original"])
    BY <2>5, <1>1
  <2> QED BY <1>4, <2>1, <2>2, <2>3, <2>4, <2>5 DEF WriteGraph, TempName
<1>5. CASE RenameGraph(l)
  <2>1. temps[l] = "whole" /\ patched.weights /\ temps' = [temps EXCEPT ![l] = "none"]
    BY <1>1, <1>5 DEF RenameGraph, GraphPlaced, TempName
  <2>2. CASE patched' = [patched EXCEPT !.graph = "whole"] /\ Set(l, [at |-> "plan", graph |-> "file"])
    <3>1. patched'.weights /\ patched'.graph = "whole" /\ patched' \in [weights : BOOLEAN, graph : {"none", "whole"}]
      BY <2>1, <2>2, <1>1
    <3> QED BY <3>1, <2>1, <2>2, <1>1
  <2>3. CASE patched' = patched /\ Set(l, [at |-> "plan", graph |-> IF patched.graph = "none" THEN "original" ELSE "file"])
    <3>1. PICK graph : graph = IF patched.graph = "none" THEN "original" ELSE "file"
      OBVIOUS
    <3>2. graph = "file" => patched'.weights /\ patched'.graph = "whole"
      BY <3>1, <2>1, <2>3, <1>1
    <3> QED BY <3>1, <3>2, <2>1, <2>3, <1>1
  <2> QED BY <1>5, <2>1, <2>2, <2>3 DEF RenameGraph, TempName
<1> QED BY <1>3, <1>4, <1>5 DEF DeriveGraph

\* A load goes from one provider, and one replica, to the next.
LEMMA BuildMoves ==
    ASSUME FilesInv, NEW l \in Loaders, loader[l].at \in BuildSteps,
           DOMAIN loader'[l] = LoadFields, loader'[l].at \in BuildSteps,
           \A k \in LoadFields \ {"at", "attempts", "done", "replicas"} : loader'[l][k] = loader[l][k],
           UNCHANGED <<present, patched>>,
           loader'[l].attempts \in Seq(Tried), Len(loader'[l].replicas) \in Nat,
           loader'[l].replicas = [i \in 1 .. Len(loader'[l].replicas) |-> loader'[l].replicas[i]],
           SessionsBuilt(l)'
    PROVE  LoaderInv(l)'
<1>1. /\ loader'[l].model = loader[l].model /\ loader'[l].half = loader[l].half /\ loader'[l].todo = loader[l].todo
      /\ loader'[l].only = loader[l].only /\ loader'[l].build = loader[l].build /\ loader'[l].graph = loader[l].graph
      /\ loader'[l].promised = loader[l].promised
  BY DEF LoadFields
<1>2. LoaderShape(l) /\ PromiseKept(l) /\ GraphPlaced(l)
  BY LoaderNow
<1>3. /\ loader[l].at \notin RestSteps
      /\ loader'[l].at \notin RestSteps \cup SearchSteps \cup ViewSteps \cup {"found"} \cup PatchSteps
      /\ loader'[l].at \notin {"download", "powershell", "target", "write", "writing", "rename"}
  BY DEF RestSteps, SearchSteps, ViewSteps, PatchSteps, BuildSteps
<1>4. LoaderShape(l)'
  BY <1>1, <1>2, <1>3 DEF LoaderShape
<1>5. FilesFound(l)' /\ PromiseKept(l)' /\ ViewHas(l)'
  BY <1>1, <1>2, <1>3 DEF FilesFound, PromiseKept, ViewHas
<1>6. GraphPlaced(l)'
  BY <1>1, <1>2, <1>3 DEF GraphPlaced
<1> QED BY <1>4, <1>5, <1>6 DEF LoaderInv

\* A load that compiles nothing yet keeps the invariant.
LEMMA StartAttemptOK ==
    ASSUME FilesInv, NEW l \in Loaders, StartAttempt(l)
    PROVE  FilesInv'
<1> DEFINE ch == [at |-> "compile", done |-> {}]
<1>1. /\ loader[l].at = "plan" /\ loader[l].at \in BuildSteps /\ loader[l].at \notin RestSteps /\ KeepDisk /\ KeepRest
      /\ DOMAIN ch = {"at", "done"} /\ ch["at"] = "compile" /\ ch["done"] = {} /\ Set(l, ch) /\ DOMAIN ch \subseteq LoadFields
      /\ UNCHANGED <<present, patched>> /\ Free(l, Head(loader[l].attempts))
  BY DEF StartAttempt, AttemptOf, BuildSteps, RestSteps, LoadFields, KeepDisk, KeepRest
<1> HIDE DEF ch
<1>2. /\ DOMAIN loader' = Loaders /\ \A o \in Loaders \ {l} : loader'[o] = loader[o]
      /\ DOMAIN loader'[l] = LoadFields
      /\ \A k \in LoadFields : loader'[l][k] = IF k \in DOMAIN ch THEN ch[k] ELSE loader[l][k]
  BY <1>1, RequestSet
<1>3. /\ loader'[l].at = "compile" /\ loader'[l].done = {} /\ loader'[l].build = loader[l].build
      /\ loader'[l].model = loader[l].model /\ loader'[l].half = loader[l].half
      /\ loader'[l].attempts = loader[l].attempts /\ loader'[l].replicas = loader[l].replicas
      /\ \A k \in LoadFields \ {"at", "attempts", "done", "replicas"} : loader'[l][k] = loader[l][k]
  BY <1>1, <1>2 DEF LoadFields
<1>4. LoaderShape(l) /\ SessionsBuilt(l)
  BY LoaderNow
<1>5. SessionsBuilt(l)'
  BY <1>1, <1>3, <1>4 DEF SessionsBuilt, RestSteps, BuildSteps
<1>6. /\ loader'[l].attempts \in Seq(Tried) /\ Len(loader'[l].replicas) \in Nat
      /\ loader'[l].replicas = [i \in 1 .. Len(loader'[l].replicas) |-> loader'[l].replicas[i]]
  BY <1>1, <1>3, <1>4 DEF LoaderShape
<1>7. LoaderInv(l)'
  BY <1>1, <1>2, <1>3, <1>5, <1>6, BuildMoves DEF BuildSteps
<1>8. ProviderOf(l)' = Head(loader[l].attempts)
  BY <1>3 DEF ProviderOf, AttemptOf
<1> QED BY <1>1, <1>2, <1>7, <1>8, QuietMove

\* A session is built for the provider it is compiled on.
LEMMA SessionIsBuilt ==
    ASSUME NEW l \in Loaders, NEW g
    PROVE  BuiltFor(loader[l].model, loader[l].half, Session(l, g), Head(loader[l].attempts))
  BY DEF BuiltFor, Session, DmlGraph, FixedFor, AttemptOf

\* A graph that is compiled, or that its provider refuses, keeps the invariant.
LEMMA CompileGraphOK ==
    ASSUME FilesInv, NEW l \in Loaders, CompileGraph(l)
    PROVE  FilesInv'
<1>0. PICK m, half, p : m = loader[l].model /\ half = loader[l].half /\ p = Head(loader[l].attempts)
  OBVIOUS
<1>1. /\ loader[l].at = "compile" /\ loader[l].at \in BuildSteps /\ loader[l].at \notin RestSteps /\ KeepDisk /\ KeepRest
      /\ UNCHANGED <<present, patched>> /\ AtWork(l)
      /\ \/ \E g, at : at \in {"compiled", "compile"} /\ Set(l, [done |-> loader[l].done \cup {Session(l, g)}, at |-> at])
         \/ /\ Len(loader[l].attempts) > 1
            /\ Set(l, [at |-> "plan", attempts |-> Tail(loader[l].attempts), done |-> {}])
         \/ End(l, "failed")
  BY DEF CompileGraph, AttemptOf, AtWork, BuildSteps, RestSteps, KeepDisk, KeepRest
<1>2. LoaderShape(l) /\ SessionsBuilt(l)
  BY LoaderNow
<1>3. /\ loader[l].attempts \in Seq(Tried) /\ Len(loader[l].replicas) \in Nat
      /\ loader[l].replicas = [i \in 1 .. Len(loader[l].replicas) |-> loader[l].replicas[i]]
  BY <1>1, <1>2 DEF LoaderShape
<1>4. ASSUME NEW g, NEW at \in {"compiled", "compile"}, Set(l, [done |-> loader[l].done \cup {Session(l, g)}, at |-> at])
      PROVE  FilesInv'
  <2>0. PICK more : more = loader[l].done \cup {Session(l, g)}
    OBVIOUS
  <2> DEFINE ch == [done |-> more, at |-> at]
  <2>1. DOMAIN ch = {"at", "done"} /\ ch["at"] = at /\ ch["done"] = more /\ Set(l, ch) /\ DOMAIN ch \subseteq LoadFields
    BY <2>0, <1>4 DEF LoadFields
  <2> HIDE DEF ch
  <2>2. /\ DOMAIN loader' = Loaders /\ \A o \in Loaders \ {l} : loader'[o] = loader[o]
        /\ DOMAIN loader'[l] = LoadFields
        /\ \A k \in LoadFields : loader'[l][k] = IF k \in DOMAIN ch THEN ch[k] ELSE loader[l][k]
    BY <2>1, <1>1, RequestSet
  <2>3. /\ loader'[l].at = at /\ loader'[l].done = more /\ loader'[l].build = loader[l].build
        /\ loader'[l].model = m /\ loader'[l].half = half
        /\ loader'[l].attempts = loader[l].attempts /\ loader'[l].replicas = loader[l].replicas
        /\ \A k \in LoadFields \ {"at", "attempts", "done", "replicas"} : loader'[l][k] = loader[l][k]
    BY <2>1, <2>2, <1>0 DEF LoadFields
  <2>4. more # {} /\ \A s \in more : BuiltFor(m, half, s, p)
    <3>1. \A s \in loader[l].done : BuiltFor(m, half, s, p)
      BY <1>0, <1>1, <1>2 DEF SessionsBuilt
    <3>2. BuiltFor(m, half, Session(l, g), p)
      BY <1>0, SessionIsBuilt
    <3> QED BY <3>1, <3>2, <2>0
  <2>5. SessionsBuilt(l)'
    BY <2>3, <2>4, <1>0, <1>1, <1>2 DEF SessionsBuilt, RestSteps, BuildSteps
  <2>6. LoaderInv(l)'
    BY <2>2, <2>3, <2>5, <1>1, <1>3, BuildMoves DEF BuildSteps
  <2>7. AtWork(l)' => ProviderOf(l)' = ProviderOf(l)
    BY <2>3, <1>1 DEF AtWork, ProviderOf, AttemptOf
  <2> QED BY <2>2, <2>6, <2>7, <1>1, QuietMove
<1>5. CASE /\ Len(loader[l].attempts) > 1
           /\ Set(l, [at |-> "plan", attempts |-> Tail(loader[l].attempts), done |-> {}])
  <2>0. PICK rest : rest = Tail(loader[l].attempts)
    OBVIOUS
  <2> DEFINE ch == [at |-> "plan", attempts |-> rest, done |-> {}]
  <2>1. /\ DOMAIN ch = {"at", "attempts", "done"} /\ ch["at"] = "plan" /\ ch["attempts"] = rest
        /\ Set(l, ch) /\ DOMAIN ch \subseteq LoadFields
    BY <2>0, <1>5 DEF LoadFields
  <2> HIDE DEF ch
  <2>2. /\ DOMAIN loader' = Loaders /\ \A o \in Loaders \ {l} : loader'[o] = loader[o]
        /\ DOMAIN loader'[l] = LoadFields
        /\ \A k \in LoadFields : loader'[l][k] = IF k \in DOMAIN ch THEN ch[k] ELSE loader[l][k]
    BY <2>1, <1>1, RequestSet
  <2>3. /\ loader'[l].at = "plan" /\ loader'[l].build = loader[l].build
        /\ loader'[l].model = m /\ loader'[l].half = half
        /\ loader'[l].attempts = rest /\ loader'[l].replicas = loader[l].replicas
        /\ \A k \in LoadFields \ {"at", "attempts", "done", "replicas"} : loader'[l][k] = loader[l][k]
    BY <2>1, <2>2, <1>0 DEF LoadFields
  <2>4. rest \in Seq(Tried) /\ Len(rest) = Len(loader[l].attempts) - 1 /\ Len(loader[l].attempts) \in Nat
    <3>1. loader[l].attempts # <<>>
      BY <1>3, <1>5, EmptySeq
    <3> QED BY <3>1, <2>0, <1>3, HeadTailProperties, LenProperties
  <2>5. rest # <<>>
    BY <2>4, <1>5, EmptySeq
  <2>6. Len(loader[l].replicas) = 0
    <3>1. Len(loader[l].replicas) # 0 => Len(loader[l].attempts) = 1
      BY <1>1, <1>2 DEF SessionsBuilt
    <3> QED BY <3>1, <2>4, <1>5
  <2>7. SessionsBuilt(l)'
    BY <2>3, <2>5, <2>6, <1>1, <1>2 DEF SessionsBuilt, RestSteps, BuildSteps
  <2>8. LoaderInv(l)'
    BY <2>2, <2>3, <2>4, <2>7, <1>1, <1>3, BuildMoves DEF BuildSteps
  <2>9. ~AtWork(l)'
    BY <2>3 DEF AtWork
  <2> QED BY <2>2, <2>8, <2>9, <1>1, QuietMove
<1>6. CASE End(l, "failed")
  BY <1>1, <1>6, RequestEnds, QuietMove
<1> QED BY <1>1, <1>4, <1>5, <1>6

\* Sessions that are compiled are handed out, or are a replica among others.
LEMMA CompiledOK ==
    ASSUME FilesInv, NEW l \in Loaders, Compiled(l)
    PROVE  FilesInv'
<1>0. PICK m, half, p, replicas :
         /\ m = loader[l].model /\ half = loader[l].half /\ p = Head(loader[l].attempts)
         /\ replicas = Append(loader[l].replicas, loader[l].done)
  OBVIOUS
<1>1. /\ loader[l].at = "compiled" /\ loader[l].at \in BuildSteps /\ loader[l].at \notin RestSteps
      /\ UNCHANGED <<model, export, override, together, cache, view, present, patched, temps>>
      /\ LoaderShape(l) /\ SessionsBuilt(l) /\ DOMAIN temps' = Loaders /\ DOMAIN held = Loaders
      /\ patched' \in [weights : BOOLEAN, graph : {"none", "whole"}]
  BY LoaderNow DEF Compiled, BuildSteps, RestSteps, KeepDisk
<1>2. /\ loader[l].attempts \in Seq(Tried) /\ loader[l].attempts # <<>> /\ p \in Tried
      /\ Len(loader[l].replicas) \in Nat
      /\ loader[l].replicas = [i \in 1 .. Len(loader[l].replicas) |-> loader[l].replicas[i]]
      /\ loader[l].done # {} /\ \A s \in loader[l].done : BuiltFor(m, half, s, p)
  <2>1. /\ loader[l].attempts \in Seq(Tried) /\ loader[l].attempts # <<>>
    BY <1>1 DEF LoaderShape, SessionsBuilt, PatchSteps, BuildSteps
  <2>2. p \in Tried
    BY <2>1, <1>0, HeadTailProperties
  <2> QED BY <2>1, <2>2, <1>0, <1>1 DEF LoaderShape, SessionsBuilt
<1>3. /\ Len(replicas) \in Nat /\ Len(replicas) # 0 /\ DOMAIN replicas = 1 .. Len(replicas)
      /\ replicas = [i \in 1 .. Len(replicas) |-> replicas[i]]
      /\ \A i \in DOMAIN replicas : replicas[i] # {} /\ \A s \in replicas[i] : BuiltFor(m, half, s, p)
  <2>1. PICK q, d : q = loader[l].replicas /\ d = loader[l].done /\ replicas = Append(q, d)
    BY <1>0
  <2> DEFINE S == {q[i] : i \in 1 .. Len(q)} \cup {d}
  <2>2. Len(q) \in Nat /\ q = [i \in 1 .. Len(q) |-> q[i]] /\ d # {} /\ \A s \in d : BuiltFor(m, half, s, p)
    BY <2>1, <1>2
  <2>3. q \in Seq(S) /\ d \in S
    BY <2>2
  <2>4. \A i \in DOMAIN q : q[i] # {} /\ \A s \in q[i] : BuiltFor(m, half, s, p)
    BY <2>1, <2>2, <1>0, <1>1 DEF SessionsBuilt
  <2> HIDE DEF S
  <2>5. /\ replicas \in Seq(S) /\ Len(replicas) = Len(q) + 1
        /\ \A i \in 1 .. Len(q) : replicas[i] = q[i]
        /\ replicas[Len(q) + 1] = d
    BY <2>1, <2>3, AppendProperties
  <2>6. DOMAIN replicas = 1 .. Len(replicas) /\ replicas = [i \in 1 .. Len(replicas) |-> replicas[i]]
        /\ DOMAIN q = 1 .. Len(q)
    BY <2>3, <2>5, LenProperties
  <2>7. \A i \in DOMAIN replicas : i \in DOMAIN q \/ i = Len(q) + 1
    BY <2>2, <2>5, <2>6
  <2> QED BY <2>2, <2>4, <2>5, <2>6, <2>7
<1>4. AttemptOf(l) = p /\ ReplicaAttempts(l) = <<p>>
  BY <1>0 DEF AttemptOf, ReplicaAttempts
<1>5. CASE /\ Set(l, [at |-> "plan", attempts |-> ReplicaAttempts(l), replicas |-> Append(loader[l].replicas, loader[l].done)])
           /\ UNCHANGED held
  <2> DEFINE ch == [at |-> "plan", attempts |-> <<p>>, replicas |-> replicas]
  <2>1. /\ DOMAIN ch = {"at", "attempts", "replicas"} /\ ch["at"] = "plan" /\ ch["attempts"] = <<p>> /\ ch["replicas"] = replicas
        /\ Set(l, ch) /\ DOMAIN ch \subseteq LoadFields
    BY <1>0, <1>4, <1>5 DEF LoadFields
  <2> HIDE DEF ch
  <2>2. /\ DOMAIN loader' = Loaders /\ \A o \in Loaders \ {l} : loader'[o] = loader[o]
        /\ DOMAIN loader'[l] = LoadFields
        /\ \A k \in LoadFields : loader'[l][k] = IF k \in DOMAIN ch THEN ch[k] ELSE loader[l][k]
    BY <2>1, <1>1, RequestSet
  <2>3. /\ loader'[l].at = "plan" /\ loader'[l].build = loader[l].build
        /\ loader'[l].model = m /\ loader'[l].half = half
        /\ loader'[l].attempts = <<p>> /\ loader'[l].replicas = replicas
        /\ \A k \in LoadFields \ {"at", "attempts", "done", "replicas"} : loader'[l][k] = loader[l][k]
    BY <2>1, <2>2, <1>0 DEF LoadFields
  <2>4. <<p>> \in Seq(Tried) /\ Len(<<p>>) = 1 /\ Head(<<p>>) = p /\ <<p>> # <<>>
    BY <1>2
  <2>5. loader'[l].build
    BY <2>3, <1>1 DEF SessionsBuilt
  <2>6. SessionsBuilt(l)'
    BY <2>3, <2>4, <2>5, <1>3 DEF SessionsBuilt, RestSteps
  <2>7. LoaderInv(l)'
    BY <2>2, <2>3, <2>4, <2>6, <1>1, <1>3, BuildMoves DEF BuildSteps
  <2>8. ~AtWork(l)'
    BY <2>3 DEF AtWork
  <2> QED BY <2>2, <2>7, <2>8, <1>1, <1>5, LoaderMoves
<1>6. CASE /\ held' = [held EXCEPT ![l] =
                  [sessions |-> UNION {Append(loader[l].replicas, loader[l].done)[i] :
                                          i \in DOMAIN Append(loader[l].replicas, loader[l].done)},
                   provider |-> IF SourceOf(l).kind = "ocr"
                                THEN (CHOOSE s \in Append(loader[l].replicas, loader[l].done)[1] : TRUE).provider
                                ELSE AttemptOf(l),
                   batch |-> FixedFor(l, AttemptOf(l))]]
           /\ End(l, "built")
  <2>1. (CHOOSE s \in replicas[1] : TRUE).provider = p
    <3>1. 1 \in DOMAIN replicas
      BY <1>3
    <3>2. PICK s : s \in replicas[1]
      BY <3>1, <1>3
    <3>3. (CHOOSE x \in replicas[1] : TRUE) \in replicas[1]
      BY <3>2
    <3> QED BY <3>1, <3>3, <1>3 DEF BuiltFor
  <2>2. /\ DOMAIN held' = Loaders /\ \A o \in Loaders \ {l} : held'[o] = held[o]
        /\ held'[l].sessions = UNION {replicas[i] : i \in DOMAIN replicas}
        /\ held'[l].provider = p /\ held'[l].batch = FixedFor(l, p)
    BY <2>1, <1>0, <1>1, <1>4, <1>6
  <2>3. ASSUME NEW s \in held'[l].sessions
        PROVE  /\ s.provider = p /\ (s.dml => s.provider = "directml")
               /\ s.batch # 0 => s.provider = "directml" /\ s.batch = held'[l].batch
    <3>1. PICK i \in DOMAIN replicas : s \in replicas[i]
      BY <2>2, <2>3
    <3>2. BuiltFor(m, half, s, p)
      BY <3>1, <1>3
    <3> QED BY <3>2, <2>2, <1>0 DEF BuiltFor, FixedFor
  <2>4. /\ DOMAIN loader' = Loaders /\ \A o \in Loaders \ {l} : loader'[o] = loader[o]
        /\ LoaderInv(l)' /\ ~AtWork(l)'
    BY <1>6, RequestEnds
  <2> QED BY <2>2, <2>3, <2>4, <1>1, LoaderMoves
<1> QED BY <1>5, <1>6 DEF Compiled

\* Sessions run, beside no other of DirectML's.
LEMMA RunsOK ==
    ASSUME FilesInv, NEW l \in Loaders, Runs(l)
    PROVE  FilesInv'
<1>1. /\ KeepDisk /\ KeepRest /\ DOMAIN loader = Loaders /\ LoaderShape(l) /\ PromiseKept(l) /\ held' = held
      /\ \/ loader[l].at = "rest" /\ Free(l, held[l].provider) /\ GoesTo(l, "run")
         \/ loader[l].at = "run" /\ GoesTo(l, "rest")
  BY LoaderNow DEF Runs, KeepRest
<1>2. loader[l].at \in RestSteps /\ DOMAIN loader[l] = {"at", "ended", "promised"}
  BY <1>1 DEF LoaderShape, RestSteps, SearchSteps, ViewSteps, PatchSteps, BuildSteps
<1>3. ASSUME NEW at \in RestSteps, GoesTo(l, at), at = "run" => Free(l, held[l].provider)
      PROVE  FilesInv'
  <2> DEFINE ch == [at |-> at]
  <2>1. DOMAIN ch = {"at"} /\ ch["at"] = at /\ Set(l, ch) /\ DOMAIN ch \subseteq DOMAIN loader[l]
    BY <1>2, <1>3 DEF GoesTo
  <2> HIDE DEF ch
  <2>2. /\ DOMAIN loader' = Loaders /\ \A o \in Loaders \ {l} : loader'[o] = loader[o]
        /\ DOMAIN loader'[l] = DOMAIN loader[l]
        /\ \A k \in DOMAIN loader[l] : loader'[l][k] = IF k \in DOMAIN ch THEN ch[k] ELSE loader[l][k]
    BY <2>1, <1>1, SetFields
  <2>3. /\ DOMAIN loader'[l] = {"at", "ended", "promised"} /\ loader'[l].at = at
        /\ loader'[l].ended = loader[l].ended /\ loader'[l].promised = loader[l].promised
    BY <2>1, <2>2, <1>2
  <2>4. /\ at \notin SearchSteps \cup ViewSteps \cup {"found"} \cup PatchSteps \cup BuildSteps
        /\ at \notin {"download", "powershell", "target", "write", "writing", "rename", "compile", "compiled"}
    BY DEF RestSteps, SearchSteps, ViewSteps, PatchSteps, BuildSteps
  <2>5. LoaderShape(l)' /\ FilesFound(l)' /\ PromiseKept(l)'
    BY <2>3, <2>4, <1>1, <1>2 DEF LoaderShape, FilesFound, PromiseKept
  <2>6. ViewHas(l)' /\ GraphPlaced(l)' /\ SessionsBuilt(l)'
    BY <2>3, <2>4 DEF ViewHas, GraphPlaced, SessionsBuilt
  <2>7. AtWork(l)' => Free(l, ProviderOf(l)')
    BY <2>3, <2>4, <1>1, <1>3 DEF AtWork, ProviderOf, RestSteps
  <2>8. LoaderInv(l)'
    BY <2>5, <2>6 DEF LoaderInv
  <2> QED BY <2>2, <2>7, <2>8, <1>1, QuietMove
<1> QED BY <1>1, <1>3 DEF RestSteps

\* Loaders that die leave what is on the disk.
LEMMA LoadersDieOK ==
    ASSUME FilesInv, NEW l \in Loaders, LoadersDie(l)
    PROVE  FilesInv'
<1> DEFINE dead == IF together THEN Loaders ELSE {l}
<1>1. /\ loader' = [o \in Loaders |-> IF o \in dead THEN Resting ELSE loader[o]]
      /\ held' = [o \in Loaders |-> IF o \in dead THEN NoSessions ELSE held[o]]
      /\ UNCHANGED <<model, export, override, together, cache, view, present, patched, temps>>
  BY DEF LoadersDie, KeepDisk
<1>2. ASSUME NEW o \in Loaders PROVE LoaderInv(o)'
  <2>1. CASE o \in dead
    <3>1. /\ DOMAIN loader'[o] = {"at", "ended", "promised"} /\ loader'[o].at = "rest"
          /\ loader'[o].promised = FALSE
      BY <2>1, <1>1 DEF Resting
    <3> QED BY <3>1 DEF LoaderInv, LoaderShape, FilesFound, PromiseKept, ViewHas, GraphPlaced, SessionsBuilt,
                        RestSteps, SearchSteps, ViewSteps, PatchSteps, BuildSteps
  <2>2. CASE o \notin dead
    <3>1. LoaderInv(o) /\ loader'[o] = loader[o]
      BY <2>2, <1>1 DEF FilesInv
    <3> QED BY <3>1, <1>1, LoaderStays
  <2> QED BY <2>1, <2>2
<1>3. \A p \in present' : AllPlaced(p[1], p[2])'
  BY <1>1 DEF FilesInv, AllPlaced, Placed, ExternalFiles
<1>4. BuiltForProvider'
  BY <1>1 DEF FilesInv, SessionsFitProvider, BuiltForProvider, NoSessions
<1>5. DirectmlAlone'
  <2>1. CASE together
    <3>1. \A o \in Loaders : loader'[o].at = "rest"
      BY <2>1, <1>1 DEF Resting
    <3> QED BY <3>1 DEF DirectmlAlone, AtWork
  <2>2. CASE ~together
    BY <2>2, <1>1 DEF DirectmlAlone
  <2> QED BY <2>1, <2>2
<1> QED BY <1>1, <1>2, <1>3, <1>4, <1>5 DEF FilesInv, SessionsFitProvider

\* Nothing is loaded yet.
LEMMA FilesStart ==
    ASSUME FilesInit
    PROVE  FilesInv
<1>1. model \in KnownModels /\ DOMAIN loader = Loaders /\ DOMAIN held = Loaders /\ DOMAIN temps = Loaders /\ present = {}
  BY FilesAssumption DEF FilesInit
<1>2. patched \in [weights : BOOLEAN, graph : {"none", "whole"}]
  BY DEF FilesInit
<1>3. ASSUME NEW l \in Loaders PROVE LoaderInv(l)
  <2>1. DOMAIN loader[l] = {"at", "ended", "promised"} /\ loader[l].at = "rest" /\ loader[l].promised = FALSE
    BY DEF FilesInit, Resting
  <2> QED BY <2>1 DEF LoaderInv, LoaderShape, FilesFound, PromiseKept, ViewHas, GraphPlaced, SessionsBuilt,
                      RestSteps, SearchSteps, ViewSteps, PatchSteps, BuildSteps
<1>4. SessionsFitProvider
  <2>1. \A l \in Loaders : held[l] = NoSessions /\ loader[l].at = "rest"
    BY DEF FilesInit, Resting
  <2> QED BY <2>1 DEF SessionsFitProvider, BuiltForProvider, DirectmlAlone, AtWork
<1> QED BY <1>1, <1>2, <1>3, <1>4 DEF FilesInv

\* Every step keeps the invariant.
LEMMA FilesStep ==
    ASSUME FilesInv, [FilesNext]_fileVars
    PROVE  FilesInv'
<1>1. CASE UNCHANGED fileVars
  <2>1. UNCHANGED <<model, export, override, together, cache, view, present, patched, temps, loader, held>>
    BY <1>1 DEF fileVars
  <2>2. \A o \in Loaders : LoaderInv(o)'
    BY <2>1, LoaderStays DEF FilesInv
  <2>3. \A p \in present' : AllPlaced(p[1], p[2])'
    BY <2>1 DEF FilesInv, AllPlaced, Placed, ExternalFiles
  <2>4. BuiltForProvider' /\ DirectmlAlone'
    BY <2>1 DEF FilesInv, SessionsFitProvider, BuiltForProvider, DirectmlAlone, AtWork, ProviderOf, AttemptOf
  <2> QED BY <2>1, <2>2, <2>3, <2>4 DEF FilesInv, SessionsFitProvider
<1>2. ASSUME NEW l \in Loaders, NEW ask \in Asks, Request(l, model, ask) PROVE FilesInv'
  BY <1>2, RequestOK
<1>3. ASSUME NEW l \in Loaders, ResolveFile(l) \/ ReadManifest(l) \/ LinkFile(l) \/ FetchEnds(l) \/ StopLoader(l) PROVE FilesInv'
  BY <1>3, ResolveFileOK, ReadManifestOK, LinkFileOK, FetchEndsOK, StopLoaderOK
<1>4. ASSUME NEW l \in Loaders, HubDownloads(l) \/ PowershellDownloads(l) PROVE FilesInv'
  <2>1. /\ loader[l].at \in {"download", "powershell"}
        /\ Published(l) \/ NotPublished(l) \/ (GoesTo(l, "powershell") /\ UNCHANGED cache)
        /\ UNCHANGED <<view, patched, temps>> /\ KeepRest
    BY <1>4 DEF HubDownloads, PowershellDownloads
  <2> QED BY <2>1, TransferOK
<1>5. ASSUME NEW l \in Loaders, QueryFound(l) \/ ImageFound(l) \/ DeriveGraph(l) PROVE FilesInv'
  BY <1>5, FoundOK, DeriveGraphOK
<1>6. ASSUME NEW l \in Loaders, StartAttempt(l) \/ CompileGraph(l) \/ Compiled(l) \/ Runs(l) \/ LoadersDie(l) PROVE FilesInv'
  BY <1>6, StartAttemptOK, CompileGraphOK, CompiledOK, RunsOK, LoadersDieOK
<1> QED BY <1>1, <1>2, <1>3, <1>4, <1>5, <1>6 DEF FilesNext

\* The invariant holds of every state: what a request has found is in place,
\* what it links is in the view, and what it compiles is for one provider.
THEOREM FilesInvariant == FilesSpec => []FilesInv
<1>1. FilesInit => FilesInv
  BY FilesStart
<1>2. FilesInv /\ [FilesNext]_fileVars => FilesInv'
  BY FilesStep
<1> QED BY <1>1, <1>2, PTL DEF FilesSpec

\* What a loader finds in the shared cache is whole: a load that fetch had
\* promised misses no file, no session is built from a part of a patched graph,
\* and no loader leaves a view without its files.
THEOREM FilesAlwaysWhole == FilesSpec => []FilesAreWhole
<1>1. FilesInv => FilesAreWhole
  <2> SUFFICES ASSUME FilesInv PROVE FilesAreWhole
    OBVIOUS
  <2>1. \A l \in Loaders : PromiseKept(l) /\ GraphPlaced(l) /\ ViewHas(l)
    BY LoaderNow
  <2>2. FetchedIsLoadable
    BY <2>1 DEF FetchedIsLoadable, PromiseKept, RestSteps
  <2>3. GraphsAreWhole
    BY <2>1 DEF GraphsAreWhole, GraphPlaced, BuildSteps
  <2>4. ViewsAreComplete
    BY <2>1 DEF ViewsAreComplete, ViewHas, Listed, SourceOf
  <2> QED BY <2>2, <2>3, <2>4 DEF FilesAreWhole
<1> QED BY <1>1, FilesInvariant, PTL

\* Sessions are built for the provider they run on, after every fallback, and no
\* two of DirectML build or run at once in a process.
THEOREM SessionsAlwaysFit == FilesSpec => []SessionsFitProvider
<1>1. FilesInv => SessionsFitProvider
  BY DEF FilesInv
<1> QED BY <1>1, FilesInvariant, PTL

-----------------------------------------------------------------------------
(* The gallery.                                                             *)

\* A set of numbers has a least.
LEMMA LeastIsThere ==
    ASSUME NEW S \in SUBSET Nat, S # {}
    PROVE  \E n \in S : \A m \in S : n <= m
<1> DEFINE less == {pair \in Nat \X Nat : pair[1] < pair[2]}
<1>1. IsWellFoundedOn(less, Nat)
  BY NatLessThanWellFounded DEF OpToRel
<1>2. PICK n \in S : \A m \in S : <<m, n>> \notin less
  <2> HIDE DEF less
  <2> QED BY <1>1, WFMin
<1>3. \A m \in S : n <= m
  <2> SUFFICES ASSUME NEW m \in S PROVE n <= m
    OBVIOUS
  <2>1. <<m, n>> \notin less
    BY <1>2
  <2> QED BY <2>1
<1> QED BY <1>3

\* A finite set of numbers has a largest and a smallest one.
LEMMA FiniteSetHasEnds ==
    ASSUME NEW S, IsFiniteSet(S), S \subseteq Nat, S # {}
    PROVE  Max(S) \in S /\ Min(S) \in S
<1> DEFINE Above(x) == {y \in S : y > x}
<1> DEFINE N == {Cardinality(Above(x)) : x \in S}
<1>1. \A x \in S : IsFiniteSet(Above(x)) /\ Cardinality(Above(x)) \in Nat
  BY FS_Subset, FS_CardinalityType
<1>2. PICK n \in N : \A m \in N : n <= m
  <2>1. N \in SUBSET Nat /\ N # {}
    BY <1>1
  <2> HIDE DEF N
  <2> QED BY <2>1, LeastIsThere
<1>3. PICK x \in S : n = Cardinality(Above(x))
  BY <1>2
<1>4. \A y \in S : x >= y
  <2> SUFFICES ASSUME NEW y \in S, ~(x >= y) PROVE FALSE
    OBVIOUS
  <2>1. x \in Nat /\ y \in Nat /\ y > x
    OBVIOUS
  <2>2. Above(y) \in SUBSET Above(x) /\ y \in Above(x) /\ y \notin Above(y)
    <3>1. \A z \in S : z > y => z > x
      BY <2>1
    <3>2. Above(y) \subseteq Above(x)
      BY <3>1
    <3>3. y \in Above(x) /\ y \notin Above(y)
      BY <2>1
    <3> HIDE DEF Above
    <3> QED BY <3>2, <3>3
  <2>3. Above(x) # Above(y)
    BY <2>2
  <2>4. Cardinality(Above(y)) <= Cardinality(Above(x)) /\ Cardinality(Above(x)) # Cardinality(Above(y))
    <3> HIDE DEF Above
    <3> QED BY <1>1, <2>2, <2>3, FS_Subset
  <2>5. Cardinality(Above(y)) \in N /\ Cardinality(Above(y)) \in Nat /\ n \in Nat
    BY <1>1, <1>3
  <2> HIDE DEF Above, N
  <2> QED BY <1>2, <1>3, <2>4, <2>5
<1>5. Max(S) \in S
  BY <1>4 DEF Max
<1>6. PICK z \in S : \A y \in S : z <= y
  BY LeastIsThere
<1>7. Min(S) \in S
  BY <1>6 DEF Min
<1> QED BY <1>5, <1>7

\* The variant that is served is one of the variants to choose from.
LEMMA BestBucketIsStored ==
    ASSUME NEW sizes \in SUBSET Buckets, sizes # {}, NEW wanted
    PROVE  BestBucket(sizes, wanted) \in sizes
<1>1. IsFiniteSet(sizes) /\ sizes \subseteq Nat
  BY GalleryAssumption, FS_Subset
<1> DEFINE covering == {b \in sizes : b >= wanted}
<1>2. IsFiniteSet(covering) /\ covering \subseteq sizes
  BY <1>1, FS_Subset
<1>3. covering # {} => Min(covering) \in covering
  BY <1>1, <1>2, FiniteSetHasEnds
<1>4. Max(sizes) \in sizes
  BY <1>1, FiniteSetHasEnds
<1> QED BY <1>2, <1>3, <1>4 DEF BestBucket

\* The row of an identifier is the row of the path that has it.
LEMMA RowOfPath ==
    ASSUME NEW id, RowOf(id) # NoAsset
    PROVE  /\ PathOf(id) \in GalleryPaths /\ RowOf(id) = assetRow[PathOf(id)]
           /\ assetRow[PathOf(id)].id = id
BY DEF RowOf, PathOf

\* What a step that leaves the catalog alone keeps of it.
LEMMA CatalogUnmoved ==
    ASSUME GalleryInv, UNCHANGED <<catalogRows, preparedRows>>
    PROVE  RowsNumbered' /\ BatchFits'
BY DEF GalleryInv, RowsNumbered, BatchFits, catalogRows

\* A window that is left alone stays behind a catalog that does not move.
LEMMA WindowUnmoved ==
    ASSUME GalleryInv, UNCHANGED <<catalogRows, window>>
    PROVE  WindowBehind'
BY DEF GalleryInv, WindowBehind, QuietPollIsCurrent, catalogRows

\* A request that is left alone keeps what it found.
LEMMA RequestUnmoved ==
    ASSUME GalleryInv, UNCHANGED asking
    PROVE  DescribedSoFar' /\ (asking.at \in AskingSteps)' /\ (DOMAIN asking = DOMAIN NotAsking)'
BY DEF GalleryInv, GalleryTypeOK, DescribedSoFar, Asked, AskingSteps, ReadStatesOfAssets, Details, NotAsking

LEMMA ThumbnailUnmoved ==
    ASSUME GalleryInv, UNCHANGED <<source, catalogRows, asking>>
    PROVE  ThumbnailSoFar'
BY DEF GalleryInv, ThumbnailSoFar, catalogRows

\* The beginning.
LEMMA GalleryInitInv == GalleryInit => GalleryInv
<1> SUFFICES ASSUME GalleryInit PROVE GalleryInv
  OBVIOUS
<1>1. assetRow \in [GalleryPaths -> [id : Nat, edition : Nat, created : BOOLEAN]] /\ lastAsset \in Nat /\ RowsNumbered
  <2>1. CASE assetRow = [p \in GalleryPaths |-> NoAsset] /\ lastAsset = 0
    BY <2>1 DEF RowsNumbered, NoAsset
  <2>2. ASSUME NEW p \in GalleryPaths, lastAsset = 1,
               assetRow = [q \in GalleryPaths |-> IF q = p THEN Upgraded ELSE NoAsset]
        PROVE  assetRow \in [GalleryPaths -> [id : Nat, edition : Nat, created : BOOLEAN]] /\ lastAsset \in Nat /\ RowsNumbered
    <3>1. \A q \in GalleryPaths : assetRow[q] = IF q = p THEN Upgraded ELSE NoAsset
      BY <2>2
    <3>2. Upgraded.id = 1 /\ Upgraded.edition = 1 /\ NoAsset.id = 0
      BY DEF Upgraded, NoAsset
    <3>3. \A q \in GalleryPaths : assetRow[q] # NoAsset => q = p
      BY <3>1
    <3>4. RowsNumbered
      BY <2>2, <3>1, <3>2, <3>3 DEF RowsNumbered
    <3>5. assetRow \in [GalleryPaths -> [id : Nat, edition : Nat, created : BOOLEAN]]
      BY <2>2 DEF Upgraded, NoAsset
    <3> QED BY <2>2, <3>4, <3>5
  <2> QED BY <2>1, <2>2 DEF GalleryInit
<1>2. preparedRows = <<>> /\ BatchFits
  BY DEF GalleryInit, BatchFits
<1>3. WindowBehind
  BY DEF GalleryInit, WindowBehind, QuietPollIsCurrent, FreshWindow
<1>4. asking.at \in AskingSteps /\ DescribedSoFar /\ ThumbnailSoFar
  BY DEF GalleryInit, AskingSteps, NotAsking, DescribedSoFar, ThumbnailSoFar, ReadStatesOfAssets, Details
<1>5. GalleryTypeOK
  BY <1>1, <1>2 DEF GalleryInit, GalleryTypeOK
<1> QED BY <1>1, <1>2, <1>3, <1>4, <1>5 DEF GalleryInv

\* The window.
LEMMA PollKeeps == GalleryInv /\ Poll => GalleryInv'
<1> SUFFICES ASSUME GalleryInv, Poll PROVE GalleryInv'
  OBVIOUS
<1>1. RowsNumbered' /\ BatchFits' /\ DescribedSoFar' /\ (asking.at \in AskingSteps)' /\ ThumbnailSoFar'
  BY CatalogUnmoved, RequestUnmoved, ThumbnailUnmoved DEF Poll, catalogRows
<1>2. GalleryTypeOK'
  BY DEF Poll, catalogRows, GalleryInv, GalleryTypeOK, NotAsking
<1>3. WindowBehind'
  BY DEF Poll, catalogRows, GalleryInv, GalleryTypeOK, WindowBehind, QuietPollIsCurrent, FreshWindow
<1> QED BY <1>1, <1>2, <1>3 DEF GalleryInv

LEMMA ReadScopeKeeps == GalleryInv /\ ReadScope => GalleryInv'
<1> SUFFICES ASSUME GalleryInv, ReadScope PROVE GalleryInv'
  OBVIOUS
<1>1. RowsNumbered' /\ BatchFits' /\ DescribedSoFar' /\ (asking.at \in AskingSteps)' /\ ThumbnailSoFar'
  BY CatalogUnmoved, RequestUnmoved, ThumbnailUnmoved DEF ReadScope, catalogRows
<1>2. GalleryTypeOK'
  BY DEF ReadScope, catalogRows, GalleryInv, GalleryTypeOK, NotAsking
<1>3. WindowBehind'
  BY DEF ReadScope, catalogRows, GalleryInv, GalleryTypeOK, WindowBehind, QuietPollIsCurrent, FreshWindow
<1> QED BY <1>1, <1>2, <1>3 DEF GalleryInv

\* What is listed is what the catalog holds, or the window will notice.
LEMMA ListGalleryKeeps == GalleryInv /\ ListGallery => GalleryInv'
<1> SUFFICES ASSUME GalleryInv, ListGallery PROVE GalleryInv'
  OBVIOUS
<1>1. RowsNumbered' /\ BatchFits' /\ DescribedSoFar' /\ (asking.at \in AskingSteps)' /\ ThumbnailSoFar'
  BY CatalogUnmoved, RequestUnmoved, ThumbnailUnmoved DEF ListGallery, catalogRows
<1>2. GalleryTypeOK'
  BY DEF ListGallery, catalogRows, GalleryInv, GalleryTypeOK, NotAsking
<1>3. WindowBehind'
  BY DEF ListGallery, catalogRows, GalleryInv, GalleryTypeOK, WindowBehind, QuietPollIsCurrent, FreshWindow
<1> QED BY <1>1, <1>2, <1>3 DEF GalleryInv

\* A prepared file is in the batch once, with the edition it has.
LEMMA PrepareKeeps == GalleryInv /\ (\E p \in GalleryPaths : PrepareUpsert(p)) => GalleryInv'
<1> SUFFICES ASSUME GalleryInv, NEW p \in GalleryPaths, PrepareUpsert(p) PROVE GalleryInv'
  OBVIOUS
<1>1. WindowBehind' /\ DescribedSoFar' /\ (asking.at \in AskingSteps)' /\ ThumbnailSoFar'
  BY WindowUnmoved, RequestUnmoved, ThumbnailUnmoved DEF PrepareUpsert, catalogRows, viewers
<1> DEFINE old == assetRow[p]
           kind == IF old.edition # source[p] THEN "changed" ELSE IF old.created THEN "unchanged" ELSE "metadata"
           row == [path |-> p, kind |-> kind, edition |-> source[p], id |-> old.id]
           Prepared == [path : GalleryPaths, kind : {"unchanged", "metadata", "changed"}, edition : Nat \ {0}, id : Nat]
<1>2. preparedRows \in Seq(Prepared) /\ preparedRows' = Append(preparedRows, row)
  BY DEF PrepareUpsert, GalleryInv, GalleryTypeOK
<1>3. row \in Prepared
  BY DEF PrepareUpsert, GalleryInv, GalleryTypeOK
<1>4. row.path = p /\ (row.kind = "metadata" => row.id # 0)
  <2>1. kind = "metadata" => old.edition # 0
    BY DEF PrepareUpsert
  <2>2. old.edition # 0 => old # NoAsset
    BY DEF NoAsset
  <2> QED BY <2>1, <2>2 DEF GalleryInv, RowsNumbered, GalleryTypeOK
<1>5. \A i \in DOMAIN preparedRows : preparedRows[i].path # p
  BY DEF PrepareUpsert
<1>6. preparedRows' \in Seq(Prepared)
  <2> HIDE DEF row, Prepared
  <2> QED BY <1>2, <1>3
<1>7. BatchFits'
  <2>1. /\ Len(preparedRows) \in Nat /\ DOMAIN preparedRows = 1 .. Len(preparedRows)
        /\ DOMAIN preparedRows' = 1 .. Len(preparedRows) + 1
        /\ \A i \in DOMAIN preparedRows : preparedRows'[i] = preparedRows[i]
        /\ preparedRows'[Len(preparedRows) + 1] = row
    <3> HIDE DEF row, Prepared
    <3> QED BY <1>2, <1>3
  <2>2. \A i \in DOMAIN preparedRows' : i \in DOMAIN preparedRows \/ i = Len(preparedRows) + 1
    BY <2>1
  <2> HIDE DEF row, Prepared
  <2> QED BY <1>4, <1>5, <2>1, <2>2 DEF GalleryInv, BatchFits
<1>8. RowsNumbered'
  BY DEF PrepareUpsert, catalogRows, GalleryInv, RowsNumbered
<1>9. GalleryTypeOK'
  BY <1>6 DEF PrepareUpsert, catalogRows, viewers, GalleryInv, GalleryTypeOK
<1> QED BY <1>1, <1>7, <1>8, <1>9 DEF GalleryInv

\* A request remembers every edition its file has while it is under way.
LEMMA FileChangesKeeps == GalleryInv /\ (\E p \in GalleryPaths : FileChanges(p)) => GalleryInv'
<1> SUFFICES ASSUME GalleryInv, NEW p \in GalleryPaths, FileChanges(p) PROVE GalleryInv'
  OBVIOUS
<1>1. RowsNumbered' /\ BatchFits' /\ WindowBehind'
  BY CatalogUnmoved, WindowUnmoved DEF FileChanges, catalogRows
<1>2. source' \in [GalleryPaths -> Nat] /\ \A q \in GalleryPaths \ {p} : source'[q] = source[q]
  <2>1. source \in [GalleryPaths -> Nat]
    BY DEF GalleryInv, GalleryTypeOK
  <2>2. \E e \in Nat : source' = [source EXCEPT ![p] = e]
    <3>1. source[p] + 1 \in Nat
      BY <2>1
    <3> QED BY <3>1 DEF FileChanges
  <2> QED BY <2>1, <2>2
<1>3. CASE asking.kind = "thumbnail" /\ asking.path = p
  <2>1. asking' = [asking EXCEPT !.had = @ \cup {source'[p]}]
    BY <1>3 DEF FileChanges
  <2>2. /\ asking'.at = asking.at /\ asking'.kind = asking.kind /\ asking'.path = asking.path /\ asking'.id = asking.id
        /\ asking'.stamp = asking.stamp /\ asking'.served = asking.served
        /\ asking'.had = asking.had \cup {source'[p]} /\ DOMAIN asking' = DOMAIN asking
    BY <2>1 DEF GalleryInv, GalleryTypeOK, NotAsking
  <2>3. DescribedSoFar' /\ (asking.at \in AskingSteps)'
    BY <1>3, <2>2 DEF GalleryInv, DescribedSoFar, ReadStatesOfAssets, Details, AskingSteps
  <2>4. ThumbnailSoFar'
    BY <1>2, <1>3, <2>2 DEF FileChanges, catalogRows, GalleryInv, ThumbnailSoFar
  <2>5. GalleryTypeOK'
    BY <1>2, <2>2 DEF FileChanges, catalogRows, GalleryInv, GalleryTypeOK, NotAsking
  <2> QED BY <1>1, <2>3, <2>4, <2>5 DEF GalleryInv
<1>4. CASE ~(asking.kind = "thumbnail" /\ asking.path = p)
  <2>1. UNCHANGED asking
    BY <1>4 DEF FileChanges
  <2>2. ThumbnailSoFar'
    BY <1>2, <1>4, <2>1 DEF FileChanges, catalogRows, GalleryInv, ThumbnailSoFar
  <2>3. GalleryTypeOK'
    BY <1>2, <2>1 DEF FileChanges, catalogRows, GalleryInv, GalleryTypeOK, NotAsking
  <2> QED BY <1>1, <2>1, <2>2, <2>3, RequestUnmoved DEF GalleryInv
<1> QED BY <1>3, <1>4

\* What jobs derive and what the user chooses is no part of it.
LEMMA ElsewhereKeeps ==
    /\ GalleryInv /\ (\E id \in 1 .. GalleryIds : Derive(id)) => GalleryInv'
    /\ GalleryInv /\ (\E folders \in SUBSET GalleryFolders : EditIncluded(folders)) => GalleryInv'
<1> SUFFICES ASSUME GalleryInv, UNCHANGED <<source, catalogRows, preparedRows, viewers>> PROVE GalleryInv'
  BY DEF Derive, EditIncluded
<1>1. RowsNumbered' /\ BatchFits' /\ WindowBehind' /\ DescribedSoFar' /\ (asking.at \in AskingSteps)' /\ ThumbnailSoFar'
  BY CatalogUnmoved, WindowUnmoved, RequestUnmoved, ThumbnailUnmoved DEF catalogRows, viewers
<1>2. GalleryTypeOK'
  BY DEF catalogRows, viewers, GalleryInv, GalleryTypeOK, NotAsking
<1> QED BY <1>1, <1>2 DEF GalleryInv

\* Steps of a request leave everything else alone.
LEMMA RequestSteps ==
    ASSUME GalleryInv, UNCHANGED <<source, catalogRows, preparedRows, settled, window>>,
           DOMAIN asking' = DOMAIN NotAsking, asking'.at \in AskingSteps, DescribedSoFar', ThumbnailSoFar'
    PROVE  GalleryInv'
<1>1. RowsNumbered' /\ BatchFits' /\ WindowBehind'
  BY CatalogUnmoved, WindowUnmoved DEF catalogRows
<1>2. GalleryTypeOK'
  BY DEF catalogRows, GalleryInv, GalleryTypeOK
<1>3. AskingSteps' = AskingSteps
  BY DEF AskingSteps, ReadStatesOfAssets
<1> QED BY <1>1, <1>2, <1>3 DEF GalleryInv

\* A request that found nothing, and one that was answered, say nothing.
LEMMA SaysNothing ==
    ASSUME GalleryInv, UNCHANGED <<source, catalogRows, preparedRows, settled, window>>,
           asking' = NotFound \/ asking' = NotAsking
    PROVE  GalleryInv'
<1>1. /\ DOMAIN asking' = DOMAIN NotAsking /\ asking'.at \in {"idle", "answered"} /\ asking'.kind \in {"none", "not_found"}
  <2>1. CASE asking' = NotAsking
    BY <2>1 DEF NotAsking
  <2>2. CASE asking' = NotFound
    <3>1. DOMAIN NotFound = DOMAIN NotAsking /\ NotFound.at = "answered" /\ NotFound.kind = "not_found"
      BY DEF NotFound, NotAsking
    <3> QED BY <2>2, <3>1
  <2> QED BY <2>1, <2>2
<1>2. asking'.at \in AskingSteps /\ DescribedSoFar' /\ ThumbnailSoFar'
  BY <1>1 DEF AskingSteps, ReadStatesOfAssets, Details, DescribedSoFar, ThumbnailSoFar
<1> QED BY <1>1, <1>2, RequestSteps

\* A request describes rows of the catalog.
LEMMA DescribingRows ==
    ASSUME GalleryInv, UNCHANGED <<source, catalogRows, preparedRows, settled, window>>,
           NEW kind \in Details, NEW assets, NEW missing,
           \A i \in DOMAIN assets : assets[i].edition # 0, kind = "metadata" => DOMAIN assets = {1},
           asking' = Describing(kind, assets, missing)
    PROVE  GalleryInv'
<1>1. /\ DOMAIN asking' = DOMAIN NotAsking /\ asking'.at = "states" /\ asking'.kind = kind /\ asking'.assets = assets
  BY DEF Describing, NotAsking
<1>2. asking'.at \in AskingSteps /\ ThumbnailSoFar'
  BY <1>1 DEF AskingSteps, ReadStatesOfAssets, Details, ThumbnailSoFar
<1>3. DescribedSoFar'
  BY <1>1 DEF DescribedSoFar, ReadStatesOfAssets, Details
<1> QED BY <1>1, <1>2, <1>3, RequestSteps

LEMMA RowIsOfAnEdition ==
    ASSUME GalleryInv
    PROVE  /\ \A p \in GalleryPaths : assetRow[p] # NoAsset => assetRow[p].edition # 0
           /\ \A id : RowOf(id) # NoAsset => RowOf(id).edition # 0
BY RowOfPath DEF GalleryInv, RowsNumbered

LEMMA AskByPathKeeps ==
    GalleryInv /\ (\E spelling \in GalleryPaths \cup DOMAIN LinkSpelling : AskByPath(spelling)) => GalleryInv'
<1> SUFFICES ASSUME GalleryInv, NEW spelling \in GalleryPaths \cup DOMAIN LinkSpelling, AskByPath(spelling) PROVE GalleryInv'
  OBVIOUS
<1> DEFINE canonical == IF spelling \in GalleryPaths THEN spelling ELSE LinkSpelling[spelling]
           asGiven == IF spelling \in GalleryPaths THEN assetRow[spelling] ELSE NoAsset
<1>1. canonical \in GalleryPaths
  BY GalleryAssumption
<1>2. \/ asGiven # NoAsset /\ asking' = Describing("path", <<asGiven>>, {})
      \/ assetRow[canonical] # NoAsset /\ asking' = Describing("path", <<assetRow[canonical]>>, {})
      \/ asking' = NotFound
  BY DEF AskByPath
<1>3. ASSUME NEW row, row # NoAsset, row = asGiven \/ row = assetRow[canonical], asking' = Describing("path", <<row>>, {})
      PROVE  GalleryInv'
  <2>1. row.edition # 0
    BY <1>1, <1>3, RowIsOfAnEdition
  <2>2. \A i \in DOMAIN <<row>> : <<row>>[i].edition # 0
    BY <2>1
  <2>3. "path" \in Details /\ "path" # "metadata"
    BY DEF Details
  <2> QED BY <1>3, <2>2, <2>3, DescribingRows DEF AskByPath
<1> QED BY <1>2, <1>3, SaysNothing DEF AskByPath

LEMMA AskByIdsKeeps == \A ids : GalleryInv /\ AskByIds(ids) => GalleryInv'
<1> SUFFICES ASSUME NEW ids, GalleryInv, AskByIds(ids) PROVE GalleryInv'
  OBVIOUS
<1> DEFINE found == [i \in {j \in DOMAIN ids : RowOf(ids[j]) # NoAsset} |-> RowOf(ids[i])]
           missing == {ids[i] : i \in DOMAIN ids} \ {found[i].id : i \in DOMAIN found}
<1>1. asking' = Describing("batch", found, missing)
  BY DEF AskByIds
<1>2. \A i \in DOMAIN found : found[i].edition # 0
  BY RowIsOfAnEdition
<1>3. "batch" \in Details /\ "batch" # "metadata"
  BY DEF Details
<1> HIDE DEF found, missing
<1> QED BY <1>1, <1>2, <1>3, DescribingRows DEF AskByIds

LEMMA AskMetadataKeeps == GalleryInv /\ (\E id \in 1 .. GalleryIds : AskMetadata(id)) => GalleryInv'
<1> SUFFICES ASSUME GalleryInv, NEW id \in 1 .. GalleryIds, AskMetadata(id) PROVE GalleryInv'
  OBVIOUS
<1>1. CASE RowOf(id) = NoAsset
  BY <1>1, SaysNothing DEF AskMetadata
<1>2. CASE RowOf(id) # NoAsset
  <2> DEFINE assets == <<RowOf(id)>>
  <2>1. asking' = Describing("metadata", assets, {})
    BY <1>2 DEF AskMetadata
  <2>2. DOMAIN assets = {1} /\ \A i \in DOMAIN assets : assets[i].edition # 0
    BY <1>2, RowIsOfAnEdition
  <2>3. "metadata" \in Details
    BY DEF Details
  <2> HIDE DEF assets
  <2> QED BY <2>1, <2>2, <2>3, DescribingRows DEF AskMetadata
<1> QED BY <1>1, <1>2

\* The state of an asset is "indexed" exactly when its text is of its edition.
LEMMA ReadStatesKeeps == GalleryInv /\ ReadStates => GalleryInv'
<1> SUFFICES ASSUME GalleryInv, ReadStates PROVE GalleryInv'
  OBVIOUS
<1>1. /\ asking.kind \in Details /\ \A i \in DOMAIN asking.assets : asking.assets[i].edition # 0
      /\ asking.kind = "metadata" => DOMAIN asking.assets = {1}
  BY DEF ReadStates, GalleryInv, DescribedSoFar
<1>2. /\ DOMAIN asking' = DOMAIN NotAsking /\ asking'.kind = asking.kind /\ asking'.assets = asking.assets
      /\ asking'.at = IF asking.kind = "metadata" THEN "text" ELSE "answered"
      /\ asking'.states = [i \in DOMAIN asking.assets |-> IndexState(asking.assets[i])]
      /\ asking'.labels = [i \in DOMAIN asking.assets |-> derivedRow[asking.assets[i].id].text]
  BY DEF ReadStates, GalleryInv, GalleryTypeOK, NotAsking
<1>3. \A i \in DOMAIN asking'.assets : asking'.states[i] = "indexed" <=> asking'.labels[i] = asking'.assets[i].edition
  BY <1>1, <1>2 DEF IndexState
<1>4. asking'.at \in AskingSteps /\ ThumbnailSoFar'
  BY <1>1, <1>2 DEF AskingSteps, ReadStatesOfAssets, Details, ThumbnailSoFar
<1>5. DescribedSoFar'
  BY <1>1, <1>2, <1>3 DEF DescribedSoFar, ReadStatesOfAssets, Details
<1> QED BY <1>2, <1>4, <1>5, RequestSteps DEF ReadStates

\* What the later statements of the details read.
LEMMA ReadTextKeeps == GalleryInv /\ ReadText => GalleryInv'
<1> SUFFICES ASSUME GalleryInv, ReadText PROVE GalleryInv'
  OBVIOUS
<1>1. /\ DOMAIN asking' = DOMAIN NotAsking /\ asking'.kind = asking.kind /\ asking'.assets = asking.assets
      /\ asking'.at = "broken" /\ asking'.states = asking.states /\ asking'.labels = asking.labels
      /\ asking'.text = CurrentText(Asked)
  BY DEF ReadText, GalleryInv, GalleryTypeOK, NotAsking
<1>2. asking'.text \in {0, asking'.assets[1].edition}
  BY <1>1 DEF CurrentText, Asked
<1>3. asking.kind = "metadata" /\ asking.at = "text"
  BY DEF ReadText, GalleryInv, DescribedSoFar, ReadStatesOfAssets
<1>4. asking'.at \in AskingSteps /\ ThumbnailSoFar'
  BY <1>1, <1>3 DEF AskingSteps, ReadStatesOfAssets, ThumbnailSoFar
<1>5. DescribedSoFar'
  BY <1>1, <1>2, <1>3 DEF GalleryInv, DescribedSoFar, ReadStatesOfAssets, Details, Asked
<1> QED BY <1>1, <1>4, <1>5, RequestSteps DEF ReadText

LEMMA ReadFailureKeeps == GalleryInv /\ ReadFailure => GalleryInv'
<1> SUFFICES ASSUME GalleryInv, ReadFailure PROVE GalleryInv'
  OBVIOUS
<1>1. /\ DOMAIN asking' = DOMAIN NotAsking /\ asking'.kind = asking.kind /\ asking'.assets = asking.assets
      /\ asking'.at = "embedded" /\ asking'.states = asking.states /\ asking'.labels = asking.labels
      /\ asking'.text = asking.text /\ asking'.failed \in {0, Asked.edition}
  BY DEF ReadFailure, GalleryInv, GalleryTypeOK, NotAsking
<1>2. asking.kind = "metadata" /\ asking.at = "broken"
  BY DEF ReadFailure, GalleryInv, DescribedSoFar, ReadStatesOfAssets
<1>3. asking'.at \in AskingSteps /\ ThumbnailSoFar'
  BY <1>1, <1>2 DEF AskingSteps, ReadStatesOfAssets, ThumbnailSoFar
<1>4. DescribedSoFar'
  BY <1>1, <1>2 DEF GalleryInv, DescribedSoFar, ReadStatesOfAssets, Details, Asked
<1> QED BY <1>1, <1>3, <1>4, RequestSteps DEF ReadFailure

LEMMA ReadTextStatusKeeps == GalleryInv /\ ReadTextStatus => GalleryInv'
<1> SUFFICES ASSUME GalleryInv, ReadTextStatus PROVE GalleryInv'
  OBVIOUS
<1>1. /\ DOMAIN asking' = DOMAIN NotAsking /\ asking'.kind = asking.kind /\ asking'.assets = asking.assets
      /\ asking'.at = "vector" /\ asking'.states = asking.states /\ asking'.labels = asking.labels
      /\ asking'.text = asking.text /\ asking'.failed = asking.failed
      /\ asking'.textState = TextStatus(Asked) /\ asking'.embeddedOf = derivedRow[Asked.id].embedded
  BY DEF ReadTextStatus, GalleryInv, GalleryTypeOK, NotAsking
<1>2. TextStatus(Asked) = "embedded" => derivedRow[Asked.id].embedded = Asked.edition
  BY DEF TextStatus
<1>3. asking.kind = "metadata" /\ asking.at = "embedded"
  BY DEF ReadTextStatus, GalleryInv, DescribedSoFar, ReadStatesOfAssets
<1>4. asking'.at \in AskingSteps /\ ThumbnailSoFar'
  BY <1>1, <1>3 DEF AskingSteps, ReadStatesOfAssets, ThumbnailSoFar
<1>5. DescribedSoFar'
  BY <1>1, <1>2, <1>3 DEF GalleryInv, DescribedSoFar, ReadStatesOfAssets, Details, Asked
<1> QED BY <1>1, <1>4, <1>5, RequestSteps DEF ReadTextStatus

LEMMA ReadVectorKeeps == GalleryInv /\ ReadVector => GalleryInv'
<1> SUFFICES ASSUME GalleryInv, ReadVector PROVE GalleryInv'
  OBVIOUS
<1>1. /\ DOMAIN asking' = DOMAIN NotAsking /\ asking'.kind = asking.kind /\ asking'.assets = asking.assets
      /\ asking'.at = "answered" /\ asking'.states = asking.states /\ asking'.labels = asking.labels
      /\ asking'.text = asking.text /\ asking'.failed = asking.failed
      /\ asking'.textState = asking.textState /\ asking'.embeddedOf = asking.embeddedOf
  BY DEF ReadVector, GalleryInv, GalleryTypeOK, NotAsking
<1>2. asking.kind = "metadata" /\ asking.at = "vector"
  BY DEF ReadVector, GalleryInv, DescribedSoFar, ReadStatesOfAssets
<1>3. asking'.at \in AskingSteps /\ ThumbnailSoFar'
  BY <1>1, <1>2 DEF AskingSteps, ReadStatesOfAssets, ThumbnailSoFar
<1>4. DescribedSoFar'
  BY <1>1, <1>2 DEF GalleryInv, DescribedSoFar, ReadStatesOfAssets, Details, Asked
<1> QED BY <1>1, <1>3, <1>4, RequestSteps DEF ReadVector

\* A thumbnail is asked for by an identifier, which is of one path.
LEMMA AskThumbnailKeeps ==
    GalleryInv /\ (\E id \in 1 .. GalleryIds, size \in Buckets : AskThumbnail(id, size)) => GalleryInv'
<1> SUFFICES ASSUME GalleryInv, NEW id \in 1 .. GalleryIds, NEW size \in Buckets, AskThumbnail(id, size) PROVE GalleryInv'
  OBVIOUS
<1>1. CASE RowOf(id) = NoAsset
  BY <1>1, SaysNothing DEF AskThumbnail
<1>2. CASE RowOf(id) # NoAsset
  <2>1. PathOf(id) \in GalleryPaths /\ assetRow[PathOf(id)] # NoAsset /\ assetRow[PathOf(id)].id = id
    BY <1>2, RowOfPath
  <2>2. id \in 1 .. lastAsset /\ \A p \in GalleryPaths : assetRow[p].id = id => p = PathOf(id)
    BY <2>1 DEF GalleryInv, RowsNumbered
  <2>3. /\ DOMAIN asking' = DOMAIN NotAsking /\ asking'.at = "fingerprint" /\ asking'.kind = "thumbnail"
        /\ asking'.id = id /\ asking'.path = PathOf(id) /\ asking'.had = {source[PathOf(id)]}
    BY <1>2 DEF AskThumbnail, NotAsking
  <2>4. asking'.at \in AskingSteps /\ DescribedSoFar'
    BY <2>3 DEF AskingSteps, ReadStatesOfAssets, Details, DescribedSoFar
  <2>5. ThumbnailSoFar'
    BY <2>1, <2>2, <2>3 DEF AskThumbnail, catalogRows, ThumbnailSoFar
  <2> QED BY <2>3, <2>4, <2>5, RequestSteps DEF AskThumbnail
<1> QED BY <1>1, <1>2

\* The fingerprint that is read is one the file had.
LEMMA ReadFingerprintKeeps == GalleryInv /\ ReadFingerprint => GalleryInv'
<1> SUFFICES ASSUME GalleryInv, ReadFingerprint PROVE GalleryInv'
  OBVIOUS
<1> DEFINE e == CurrentFingerprint(asking.id)
<1>1. CASE e = 0
  BY <1>1, SaysNothing DEF ReadFingerprint
<1>2. CASE e # 0
  <2>1. /\ asking.kind = "thumbnail" /\ asking.path \in GalleryPaths /\ asking.id \in 1 .. lastAsset
        /\ \A p \in GalleryPaths : assetRow[p].id = asking.id => p = asking.path
        /\ source[asking.path] \in asking.had
    BY DEF ReadFingerprint, GalleryInv, ThumbnailSoFar
  <2>2. RowOf(asking.id) # NoAsset /\ e = source[PathOf(asking.id)]
    BY <1>2 DEF CurrentFingerprint
  <2>3. e = source[asking.path]
    BY <2>1, <2>2, RowOfPath
  <2> HIDE DEF e
  <2>4. /\ DOMAIN asking' = DOMAIN NotAsking /\ asking'.at = "variant" /\ asking'.kind = asking.kind
        /\ asking'.id = asking.id /\ asking'.path = asking.path /\ asking'.had = asking.had /\ asking'.stamp = e
    BY <1>2 DEF e, ReadFingerprint, GalleryInv, GalleryTypeOK, NotAsking
  <2>5. asking'.at \in AskingSteps /\ DescribedSoFar'
    BY <2>1, <2>4 DEF AskingSteps, ReadStatesOfAssets, Details, DescribedSoFar
  <2>6. ThumbnailSoFar'
    BY <2>1, <2>3, <2>4 DEF ReadFingerprint, catalogRows, ThumbnailSoFar
  <2> QED BY <2>4, <2>5, <2>6, RequestSteps DEF ReadFingerprint
<1> QED BY <1>1, <1>2

\* The variant that is served carries that fingerprint.
LEMMA ReadVariantKeeps == GalleryInv /\ ReadVariant => GalleryInv'
<1> SUFFICES ASSUME GalleryInv, ReadVariant PROVE GalleryInv'
  OBVIOUS
<1> DEFINE variants == derivedRow[asking.id].variants
           current == {b \in Buckets : variants[b] = asking.stamp}
           best == BestBucket(current, asking.size)
<1>1. CASE current = {}
  BY <1>1, SaysNothing DEF ReadVariant
<1>2. CASE current # {}
  <2>1. best \in current
    BY <1>2, BestBucketIsStored
  <2>2. variants[best] = asking.stamp
    BY <2>1
  <2>3. asking.kind = "thumbnail" /\ asking.stamp \in asking.had
    BY DEF ReadVariant, GalleryInv, ThumbnailSoFar
  <2>4. asking' = [asking EXCEPT !.at = "answered", !.bucket = best, !.served = variants[best]]
    BY <1>2 DEF ReadVariant
  <2> HIDE DEF variants, current, best
  <2>5. /\ DOMAIN asking' = DOMAIN NotAsking /\ asking'.at = "answered" /\ asking'.kind = asking.kind
        /\ asking'.id = asking.id /\ asking'.path = asking.path /\ asking'.had = asking.had /\ asking'.served = asking.stamp
    BY <2>2, <2>4 DEF GalleryInv, GalleryTypeOK, NotAsking
  <2>6. asking'.at \in AskingSteps /\ DescribedSoFar'
    BY <2>3, <2>5 DEF AskingSteps, ReadStatesOfAssets, Details, DescribedSoFar
  <2>7. ThumbnailSoFar'
    BY <2>3, <2>5 DEF ReadVariant, catalogRows, GalleryInv, ThumbnailSoFar
  <2> QED BY <2>5, <2>6, <2>7, RequestSteps DEF ReadVariant
<1> QED BY <1>1, <1>2

\* A deletion takes rows; no identifier comes back.
LEMMA DeleteKeeps == GalleryInv /\ (\E ids \in SUBSET (1 .. lastAsset) : DeleteAssets(ids)) => GalleryInv'
<1> SUFFICES ASSUME GalleryInv, NEW ids \in SUBSET (1 .. lastAsset), DeleteAssets(ids) PROVE GalleryInv'
  OBVIOUS
<1> DEFINE gone == {p \in GalleryPaths : assetRow[p].id \in ids}
           CatalogRow == [id : Nat, edition : Nat, created : BOOLEAN]
<1>1. /\ assetRow \in [GalleryPaths -> CatalogRow] /\ assetRow' = [p \in GalleryPaths |-> IF p \in gone THEN NoAsset ELSE assetRow[p]]
      /\ UNCHANGED <<source, lastAsset, preparedRows, viewers>>
  BY DEF DeleteAssets, GalleryInv, GalleryTypeOK
<1>2. NoAsset \in CatalogRow /\ NoAsset.id = 0
  BY DEF NoAsset
<1> HIDE DEF CatalogRow
<1>3. assetRow' \in [GalleryPaths -> CatalogRow] /\ \A p \in GalleryPaths : assetRow'[p] = NoAsset \/ assetRow'[p] = assetRow[p]
  BY <1>1, <1>2
<1>4. RowsNumbered'
  BY <1>1, <1>2, <1>3 DEF GalleryInv, RowsNumbered
<1>5. BatchFits'
  BY <1>1 DEF GalleryInv, BatchFits
<1>6. /\ catalogRevision' \in Nat
      /\ \/ assetRow' = assetRow /\ catalogRevision' = catalogRevision
         \/ catalogRevision' = catalogRevision + 1
  <2>1. CASE gone = {}
    <3>1. assetRow' = assetRow
      BY <1>1, <2>1
    <3> QED BY <2>1, <3>1 DEF DeleteAssets, GalleryInv, GalleryTypeOK
  <2>2. CASE gone # {}
    BY <2>2 DEF DeleteAssets, GalleryInv, GalleryTypeOK
  <2> QED BY <2>1, <2>2
<1>7. WindowBehind'
  <2>1. UNCHANGED window /\ catalogRevision \in Nat
    BY <1>1 DEF viewers, GalleryInv, GalleryTypeOK
  <2> HIDE DEF gone
  <2> QED BY <1>6, <2>1 DEF GalleryInv, WindowBehind, QuietPollIsCurrent
<1>8. ThumbnailSoFar'
  <2>1. asking.kind = "thumbnail" => asking.id # 0
    BY DEF GalleryInv, ThumbnailSoFar
  <2> QED BY <1>1, <1>2, <1>3, <2>1 DEF viewers, GalleryInv, ThumbnailSoFar
<1>9. GalleryTypeOK'
  BY <1>1, <1>3, <1>6 DEF CatalogRow, viewers, GalleryInv, GalleryTypeOK, NotAsking
<1> QED BY <1>1, <1>4, <1>5, <1>7, <1>8, <1>9, RequestUnmoved DEF viewers, GalleryInv

\* The identifiers of a batch are new, and of one row each.
LEMMA NewIdentifiers ==
    ASSUME GalleryInv
    PROVE  /\ IsFiniteSet(NewRows(preparedRows)) /\ Cardinality(NewRows(preparedRows)) \in Nat
           /\ \A i \in NewRows(preparedRows) :
                  IdAfter(preparedRows, i) \in lastAsset + 1 .. lastAsset + Cardinality(NewRows(preparedRows))
           /\ \A i, j \in NewRows(preparedRows) : IdAfter(preparedRows, i) = IdAfter(preparedRows, j) => i = j
<1> DEFINE new == NewRows(preparedRows)
           UpTo(i) == {j \in new : j <= i}
<1>1. lastAsset \in Nat /\ Len(preparedRows) \in Nat /\ DOMAIN preparedRows = 1 .. Len(preparedRows)
  BY DEF GalleryInv, GalleryTypeOK
<1>2. new \subseteq 1 .. Len(preparedRows)
  BY <1>1 DEF NewRows
<1>3. IsFiniteSet(new) /\ Cardinality(new) \in Nat
  <2>1. IsFiniteSet(1 .. Len(preparedRows))
    BY <1>1, FS_Interval
  <2> HIDE DEF new
  <2> QED BY <1>2, <2>1, FS_Subset, FS_CardinalityType
<1>4. \A i \in new : IdAfter(preparedRows, i) = lastAsset + Cardinality(UpTo(i))
  BY DEF IdAfter
<1> HIDE DEF new
<1>5. ASSUME NEW i \in new
      PROVE  /\ IsFiniteSet(UpTo(i)) /\ Cardinality(UpTo(i)) \in Nat
             /\ Cardinality(UpTo(i)) <= Cardinality(new) /\ Cardinality(UpTo(i)) # 0
  <2>1. UpTo(i) \subseteq new /\ i \in UpTo(i)
    BY <1>1, <1>2
  <2> HIDE DEF UpTo
  <2> QED BY <1>3, <2>1, FS_Subset, FS_CardinalityType, FS_EmptySet
<1>6. ASSUME NEW i \in new, NEW j \in new, i < j
      PROVE  Cardinality(UpTo(i)) # Cardinality(UpTo(j))
  <2>1. UpTo(i) \subseteq UpTo(j) /\ j \in UpTo(j) /\ j \notin UpTo(i)
    <3>1. \A k \in new : k \in Nat
      BY <1>1, <1>2
    <3>2. \A k \in new : k <= i => k <= j
      BY <1>6, <3>1
    <3>3. j <= j /\ ~(j <= i)
      BY <1>6, <3>1
    <3> QED BY <3>2, <3>3
  <2> HIDE DEF UpTo
  <2> QED BY <1>5, <2>1, FS_Subset
<1>7. \A i \in new : IdAfter(preparedRows, i) \in lastAsset + 1 .. lastAsset + Cardinality(new)
  <2> HIDE DEF UpTo
  <2> QED BY <1>1, <1>3, <1>4, <1>5
<1>8. ASSUME NEW i \in new, NEW j \in new, IdAfter(preparedRows, i) = IdAfter(preparedRows, j)
      PROVE  i = j
  <2>1. Cardinality(UpTo(i)) = Cardinality(UpTo(j))
    <3> HIDE DEF UpTo
    <3> QED BY <1>1, <1>4, <1>5, <1>8
  <2>2. i \in Nat /\ j \in Nat
    BY <1>1, <1>2
  <2> HIDE DEF UpTo
  <2> QED BY <1>6, <2>1, <2>2
<1> QED BY <1>3, <1>7, <1>8 DEF new

\* A row keeps its identifier and stays; what appears has a new one.
LEMMA UpsertedRow ==
    ASSUME GalleryInv, NEW p \in GalleryPaths
    PROVE  LET row == Upserted(preparedRows, p) IN
           /\ row \in [id : Nat, edition : Nat, created : BOOLEAN]
           /\ assetRow[p] # NoAsset => row # NoAsset /\ row.id = assetRow[p].id /\ row.edition # 0
           /\ assetRow[p] = NoAsset /\ row # NoAsset =>
                  /\ row.edition # 0
                  /\ \E i \in NewRows(preparedRows) : preparedRows[i].path = p /\ row.id = IdAfter(preparedRows, i)
           /\ ~WritesRows(preparedRows) => row = assetRow[p]
<1> DEFINE row == Upserted(preparedRows, p)
           CatalogRow == [id : Nat, edition : Nat, created : BOOLEAN]
<1>1. /\ assetRow[p] \in CatalogRow /\ lastAsset \in Nat
      /\ assetRow[p] # NoAsset => assetRow[p].edition # 0
  BY DEF GalleryInv, GalleryTypeOK, RowsNumbered
<1>2. NoAsset.edition = 0 /\ NoAsset.id = 0
  BY DEF NoAsset
<1>3. CASE \E i \in DOMAIN preparedRows : preparedRows[i].kind = "changed" /\ preparedRows[i].path = p
  <2> DEFINE i == CHOOSE i \in DOMAIN preparedRows : preparedRows[i].kind = "changed" /\ preparedRows[i].path = p
  <2>1. i \in DOMAIN preparedRows /\ preparedRows[i].kind = "changed" /\ preparedRows[i].path = p
    BY <1>3
  <2>2. row = [id |-> IdAfter(preparedRows, i), edition |-> preparedRows[i].edition, created |-> TRUE]
    BY <1>3 DEF Upserted
  <2> HIDE DEF i, row
  <2>3. preparedRows[i].edition \in Nat \ {0}
    <3> DEFINE Prepared == [path : GalleryPaths, kind : {"unchanged", "metadata", "changed"}, edition : Nat \ {0}, id : Nat]
    <3>1. preparedRows \in Seq(Prepared)
      BY DEF GalleryInv, GalleryTypeOK
    <3>2. preparedRows[i] \in Prepared
      <4> HIDE DEF Prepared
      <4> QED BY <2>1, <3>1, ElementOfSeq
    <3> QED BY <3>2
  <2>4. i \in NewRows(preparedRows) <=> assetRow[p] = NoAsset
    BY <2>1 DEF NewRows
  <2>5. IdAfter(preparedRows, i) \in Nat
    BY <1>1, <2>1, <2>4, NewIdentifiers DEF IdAfter
  <2>6. assetRow[p] # NoAsset => IdAfter(preparedRows, i) = assetRow[p].id
    BY <2>1, <2>4 DEF IdAfter
  <2>7. row \in CatalogRow /\ row.id = IdAfter(preparedRows, i) /\ row.edition # 0
    BY <2>2, <2>3, <2>5
  <2>8. row # NoAsset /\ WritesRows(preparedRows)
    BY <1>2, <2>1, <2>7 DEF WritesRows
  <2> QED BY <2>1, <2>4, <2>6, <2>7, <2>8 DEF row
<1>4. CASE /\ ~\E i \in DOMAIN preparedRows : preparedRows[i].kind = "changed" /\ preparedRows[i].path = p
           /\ \E i \in DOMAIN preparedRows : preparedRows[i].kind = "metadata" /\ preparedRows[i].id = assetRow[p].id
  <2>1. row = [assetRow[p] EXCEPT !.created = TRUE]
    BY <1>4 DEF Upserted
  <2>2. assetRow[p].id # 0 /\ WritesRows(preparedRows)
    BY <1>4 DEF GalleryInv, BatchFits, WritesRows
  <2>3. assetRow[p] # NoAsset
    BY <1>2, <2>2
  <2> HIDE DEF row
  <2>4. row \in CatalogRow /\ row.id = assetRow[p].id /\ row.edition = assetRow[p].edition
    BY <1>1, <2>1
  <2> QED BY <1>1, <1>2, <2>2, <2>3, <2>4 DEF row
<1>5. CASE /\ ~\E i \in DOMAIN preparedRows : preparedRows[i].kind = "changed" /\ preparedRows[i].path = p
           /\ ~\E i \in DOMAIN preparedRows : preparedRows[i].kind = "metadata" /\ preparedRows[i].id = assetRow[p].id
  <2>1. row = assetRow[p]
    BY <1>5 DEF Upserted
  <2> QED BY <1>1, <2>1
<1> QED BY <1>3, <1>4, <1>5

\* A batch moves the revision with the rows, and numbers new ones after the rest.
LEMMA StoreKeeps == GalleryInv /\ StorePrepared => GalleryInv'
<1> SUFFICES ASSUME GalleryInv, StorePrepared PROVE GalleryInv'
  OBVIOUS
<1> DEFINE CatalogRow == [id : Nat, edition : Nat, created : BOOLEAN]
           new == NewRows(preparedRows)
<1>1. /\ assetRow' = [p \in GalleryPaths |-> Upserted(preparedRows, p)] /\ assetRow \in [GalleryPaths -> CatalogRow]
      /\ preparedRows' = <<>> /\ lastAsset \in Nat /\ catalogRevision \in Nat
      /\ UNCHANGED <<source, viewers>>
  BY DEF StorePrepared, GalleryInv, GalleryTypeOK
<1>2. lastAsset' \in Nat /\ lastAsset <= lastAsset' /\ lastAsset' = lastAsset + Cardinality(new)
  BY <1>1, NewIdentifiers DEF StorePrepared
<1>3. ASSUME NEW p \in GalleryPaths
      PROVE  /\ assetRow'[p] \in CatalogRow
             /\ assetRow[p] # NoAsset => assetRow'[p] # NoAsset /\ assetRow'[p].id = assetRow[p].id /\ assetRow'[p].edition # 0
             /\ assetRow[p] = NoAsset /\ assetRow'[p] # NoAsset =>
                    /\ assetRow'[p].edition # 0
                    /\ \E i \in new : preparedRows[i].path = p /\ assetRow'[p].id = IdAfter(preparedRows, i)
             /\ ~WritesRows(preparedRows) => assetRow'[p] = assetRow[p]
  <2>1. assetRow'[p] = Upserted(preparedRows, p)
    BY <1>1
  <2> QED BY <2>1, UpsertedRow
<1> HIDE DEF CatalogRow
<1>4. assetRow' \in [GalleryPaths -> CatalogRow]
  BY <1>1, <1>3
<1>5. ASSUME NEW p \in GalleryPaths, assetRow'[p] # NoAsset
      PROVE  \/ assetRow[p] # NoAsset /\ assetRow'[p].id = assetRow[p].id /\ assetRow'[p].id \in 1 .. lastAsset
             \/ assetRow[p] = NoAsset /\ assetRow'[p].id \in lastAsset + 1 .. lastAsset'
  <2>1. CASE assetRow[p] # NoAsset
    BY <1>3, <2>1 DEF GalleryInv, RowsNumbered
  <2>2. CASE assetRow[p] = NoAsset
    BY <1>2, <1>3, <1>5, <2>2, NewIdentifiers
  <2> QED BY <2>1, <2>2
<1>6. ASSUME NEW p \in GalleryPaths, NEW q \in GalleryPaths, assetRow'[p] # NoAsset, assetRow'[p].id = assetRow'[q].id
      PROVE  p = q
  <2>1. assetRow'[p].id # 0 /\ assetRow'[p].id \in Nat
    BY <1>1, <1>2, <1>5, <1>6
  <2>2. assetRow'[q] # NoAsset
    BY <1>6, <2>1 DEF NoAsset
  <2>3. CASE assetRow[p] # NoAsset
    <3>1. assetRow[q] # NoAsset /\ assetRow[q].id = assetRow[p].id
      BY <1>1, <1>2, <1>5, <1>6, <2>2, <2>3
    <3> QED BY <2>3, <3>1 DEF GalleryInv, RowsNumbered
  <2>4. CASE assetRow[p] = NoAsset
    <3>1. assetRow[q] = NoAsset
      BY <1>1, <1>2, <1>5, <1>6, <2>2, <2>4
    <3>2. PICK i \in new : preparedRows[i].path = p /\ assetRow'[p].id = IdAfter(preparedRows, i)
      BY <1>3, <1>6, <2>4
    <3>3. PICK j \in new : preparedRows[j].path = q /\ assetRow'[q].id = IdAfter(preparedRows, j)
      BY <1>3, <2>2, <3>1
    <3>4. i = j
      BY <1>6, <3>2, <3>3, NewIdentifiers
    <3> QED BY <3>2, <3>3, <3>4
  <2> QED BY <2>3, <2>4
<1>7. RowsNumbered'
  <2>1. \A p \in GalleryPaths : assetRow'[p] # NoAsset => assetRow'[p].id \in 1 .. lastAsset' /\ assetRow'[p].edition # 0
    BY <1>1, <1>2, <1>3, <1>5
  <2> QED BY <1>6, <2>1 DEF RowsNumbered
<1>8. BatchFits'
  BY <1>1 DEF BatchFits
<1>9. /\ catalogRevision' \in Nat
      /\ \/ assetRow' = assetRow /\ catalogRevision' = catalogRevision
         \/ catalogRevision' = catalogRevision + 1
  <2>1. CASE ~WritesRows(preparedRows)
    <3>1. assetRow' = assetRow
      BY <1>1, <1>3, <1>4, <2>1
    <3> QED BY <1>1, <2>1, <3>1 DEF StorePrepared
  <2>2. CASE WritesRows(preparedRows)
    BY <1>1, <2>2 DEF StorePrepared
  <2> QED BY <2>1, <2>2
<1>10. WindowBehind'
  BY <1>1, <1>9 DEF viewers, GalleryInv, WindowBehind, QuietPollIsCurrent
<1>11. ThumbnailSoFar'
  <2> SUFFICES ASSUME asking.kind = "thumbnail" PROVE ThumbnailSoFar'
    BY <1>1 DEF viewers, GalleryInv, ThumbnailSoFar
  <2>1. asking.id \in 1 .. lastAsset /\ \A p \in GalleryPaths : assetRow[p].id = asking.id => p = asking.path
    BY DEF GalleryInv, ThumbnailSoFar
  <2>2. \A p \in GalleryPaths : assetRow'[p].id = asking.id => p = asking.path
    <3> SUFFICES ASSUME NEW p \in GalleryPaths, assetRow'[p].id = asking.id PROVE p = asking.path
      OBVIOUS
    <3>1. assetRow'[p] # NoAsset
      BY <2>1 DEF NoAsset
    <3> QED BY <1>1, <1>2, <1>5, <2>1, <3>1
  <2>3. asking.id \in 1 .. lastAsset'
    BY <1>1, <1>2, <2>1
  <2> QED BY <1>1, <2>2, <2>3 DEF viewers, GalleryInv, ThumbnailSoFar
<1>12. GalleryTypeOK'
  <2>1. preparedRows' \in Seq([path : GalleryPaths, kind : {"unchanged", "metadata", "changed"}, edition : Nat \ {0}, id : Nat])
    BY <1>1
  <2> QED BY <1>1, <1>2, <1>4, <1>9, <2>1 DEF CatalogRow, viewers, GalleryInv, GalleryTypeOK, NotAsking
<1> QED BY <1>1, <1>7, <1>8, <1>10, <1>11, <1>12, RequestUnmoved DEF viewers, GalleryInv

\* Every state the catalog, its writers and its readers reach satisfies the
\* invariant.
THEOREM GalleryInvariant == GallerySpec => []GalleryInv
<1>1. GalleryInv /\ [GalleryNext]_galleryVars => GalleryInv'
  <2> SUFFICES ASSUME GalleryInv, [GalleryNext]_galleryVars PROVE GalleryInv'
    OBVIOUS
  <2>1. CASE StorePrepared \/ Poll \/ ReadScope \/ ListGallery
    BY <2>1, StoreKeeps, PollKeeps, ReadScopeKeeps, ListGalleryKeeps
  <2>2. CASE ReadStates \/ ReadText \/ ReadFailure \/ ReadTextStatus \/ ReadVector
    BY <2>2, ReadStatesKeeps, ReadTextKeeps, ReadFailureKeeps, ReadTextStatusKeeps, ReadVectorKeeps
  <2>3. CASE ReadFingerprint \/ ReadVariant
    BY <2>3, ReadFingerprintKeeps, ReadVariantKeeps
  <2>4. CASE AnswerDetails
    BY <2>4, SaysNothing DEF AnswerDetails
  <2>5. CASE \E p \in GalleryPaths : PrepareUpsert(p) \/ FileChanges(p)
    BY <2>5, PrepareKeeps, FileChangesKeeps
  <2>6. CASE \E ids \in SUBSET (1 .. lastAsset) : DeleteAssets(ids)
    BY <2>6, DeleteKeeps
  <2>7. CASE \E id \in 1 .. GalleryIds : Derive(id) \/ AskMetadata(id) \/ \E size \in Buckets : AskThumbnail(id, size)
    BY <2>7, ElsewhereKeeps, AskMetadataKeeps, AskThumbnailKeeps
  <2>8. CASE \E folders \in SUBSET GalleryFolders : EditIncluded(folders)
    BY <2>8, ElsewhereKeeps
  <2>9. CASE \E spelling \in GalleryPaths \cup DOMAIN LinkSpelling : AskByPath(spelling)
    BY <2>9, AskByPathKeeps
  <2>10. CASE \E ids : AskByIds(ids)
    BY <2>10, AskByIdsKeeps
  <2>11. CASE UNCHANGED galleryVars
    <3>1. UNCHANGED <<source, catalogRows, preparedRows, viewers>>
      BY <2>11 DEF galleryVars, catalogRows, viewers
    <3>2. RowsNumbered' /\ BatchFits' /\ WindowBehind' /\ DescribedSoFar' /\ (asking.at \in AskingSteps)' /\ ThumbnailSoFar'
      BY <3>1, CatalogUnmoved, WindowUnmoved, RequestUnmoved, ThumbnailUnmoved DEF catalogRows, viewers
    <3>3. GalleryTypeOK'
      BY <3>1 DEF catalogRows, viewers, GalleryInv, GalleryTypeOK, NotAsking
    <3> QED BY <3>2, <3>3 DEF GalleryInv
  <2>12. GalleryNext \/ UNCHANGED galleryVars
    OBVIOUS
  <2> QED BY <2>1, <2>2, <2>3, <2>4, <2>5, <2>6, <2>7, <2>8, <2>9, <2>10, <2>11, <2>12 DEF GalleryNext
<1> QED BY <1>1, GalleryInitInv, PTL DEF GallerySpec

\* A window that finds no new revision shows the catalog as it is, whatever was
\* stored and deleted between its polls; what the details say of an asset is of
\* the edition they describe; and a thumbnail shows an edition its file had while
\* it was asked for.
THEOREM GalleryAlwaysCurrent == GallerySpec => []GalleryIsCurrent
<1>1. GalleryInv => GalleryIsCurrent
  <2> SUFFICES ASSUME GalleryInv PROVE GalleryIsCurrent
    OBVIOUS
  <2>1. QuietPollIsCurrent
    BY DEF GalleryInv, WindowBehind
  <2>2. DetailsOfOneEdition
    BY DEF GalleryInv, DescribedSoFar, DetailsOfOneEdition, ReadStatesOfAssets, Details
  <2>3. ServedWasCurrent
    BY DEF GalleryInv, ThumbnailSoFar, ServedWasCurrent
  <2> QED BY <2>1, <2>2, <2>3 DEF GalleryIsCurrent
<1> QED BY <1>1, GalleryInvariant, PTL
===============================================================================
