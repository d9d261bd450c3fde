----------------------------- MODULE StoreUpgrade -----------------------------
(***************************************************************************)
(* How the server opens its stores: the schema migrations, the two steps that *)
(* bring an older image index to one row per sample, and the old choice not   *)
(* to index videos, which moves from the settings file into the libraries.    *)
(* A process may be killed between any two of these steps and be started      *)
(* again, and another process may open the same stores at the same time.      *)
(* The catalog and the image index stand for the four stores: the other two   *)
(* go through the same migrations and nothing else.                          *)
(***************************************************************************)
EXTENDS Integers, FiniteSets

CONSTANTS
    Openers,            \* processes that open the stores
    CatalogCurrent,     \* SCHEMA_VERSION of the catalog
    ImagesCurrent,      \* SCHEMA_VERSION of the image index
    FoundVersions,      \* store -> the versions it may have, 0 for no store yet
    OldestMigrated,     \* store -> the first version of MIGRATIONS
    VacuumFrom,         \* store -> the version whose migration is "VACUUM;"
    LibrariesFrom,      \* the first version of the catalog with libraries
    OldVectors,         \* rows of an older image index: [id, asset, time], time 0 for a picture
    OldLibraries,       \* libraries of an older catalog
    MaxLaunches,        \* bound
    MaxSampleId         \* bound

Stores == {"catalog", "images"}
CurrentVersion(store) == IF store = "catalog" THEN CatalogCurrent ELSE ImagesCurrent

\* A store has a version from its creation on, and no vector is there twice.
ASSUME UpgradeAssumption ==
    /\ CatalogCurrent \in Nat \ {0} /\ ImagesCurrent \in Nat /\ ImagesCurrent > 3 /\ MaxSampleId \in Nat
    /\ \A s \in Stores : FoundVersions[s] \subseteq Nat /\ OldestMigrated[s] \in Nat \ {0} /\ VacuumFrom[s] \in Nat
    /\ IsFiniteSet(OldVectors) /\ OldVectors \subseteq [id : 1 .. MaxSampleId, asset : 1 .. MaxSampleId, time : Nat]
    /\ \A v, w \in OldVectors : v.id = w.id \/ (v.asset = w.asset /\ v.time = w.time) => v = w

VARIABLES
    version,            \* store -> PRAGMA user_version
    vacuumed,           \* store -> its file has the layout of the current policy
    layout,             \* the vector table: "none", by "assets" or by "samples"
    fits,               \* its width is the one of the model
    vectorTable,        \* its rows, whose id is the asset in the old layout
    sampleRows,         \* image_embedding_samples
    copied,             \* image_embedding_sample_migration.complete
    owed,               \* history: the <<asset, time>> saved in the image index
    videos,             \* the libraries that index videos
    wantedBy,           \* history: the libraries whose user wants videos
    legacyOff,          \* the settings file still says that no videos are indexed
    opener,             \* a process
    launches            \* bound

upgradeVars == <<version, vacuumed, layout, fits, vectorTable, sampleRows, copied, owed, videos, wantedBy,
                 legacyOff, opener, launches>>
imageStore == <<layout, fits, vectorTable, sampleRows, copied>>
choices == <<videos, legacyOff>>
histories == <<owed, wantedBy>>

Closed == [at |-> "down", store |-> "catalog", read |-> 0, off |-> FALSE, alone |-> TRUE, failed |-> FALSE]

\* A new installation, or stores an older version left behind: vectors by asset,
\* or by sample without their keys.
UpgradeInit ==
    /\ version \in {v \in [Stores -> FoundVersions["catalog"] \cup FoundVersions["images"]] :
                      \A s \in Stores : v[s] \in FoundVersions[s]}
    /\ vacuumed = [s \in Stores |-> version[s] > VacuumFrom[s]]
    /\ copied = (version["images"] >= ImagesCurrent)
    /\ fits \in BOOLEAN
    /\ \/ version["images"] = 0 /\ fits /\ layout = "none" /\ vectorTable = {}
       \/ version["images"] \in 1 .. 3 /\ layout = "assets" /\ vectorTable = {v \in OldVectors : v.time = 0}
       \/ version["images"] >= 3 /\ layout = "samples" /\ vectorTable = OldVectors
    /\ sampleRows = IF copied THEN vectorTable ELSE {}
    /\ owed = {<<v.asset, v.time>> : v \in vectorTable}
    /\ legacyOff \in {b \in BOOLEAN : b => version["catalog"] < CatalogCurrent}
    /\ videos = IF version["catalog"] < LibrariesFrom THEN {} ELSE OldLibraries
    /\ wantedBy = IF legacyOff THEN {} ELSE videos
    /\ opener = [o \in Openers |-> Closed] /\ launches = 0

Alone(o) == \A other \in Openers \ {o} : opener[other].at = "down"
At(o, place) == opener[o].at = place

\* Where o goes next; every step of another process is remembered.
Goes(o, with) == opener' = [opener EXCEPT ![o] = with]
To(o, place) == Goes(o, [opener[o] EXCEPT !.at = place])
FailsToOpen(o) == Goes(o, [Closed EXCEPT !.failed = TRUE, !.alone = opener[o].alone])

\* RuntimeSettings::load, before any store.
Launch(o) ==
    /\ At(o, "down") /\ launches < MaxLaunches /\ launches' = launches + 1
    /\ opener' = [x \in Openers |->
                    IF x = o THEN [Closed EXCEPT !.at = "version", !.off = legacyOff, !.alone = Alone(o)]
                    ELSE [opener[x] EXCEPT !.alone = FALSE]]
    /\ UNCHANGED <<version, vacuumed, imageStore, choices, histories>>

Kill(o) ==
    /\ ~At(o, "down") /\ Goes(o, Closed)
    /\ UNCHANGED <<version, vacuumed, imageStore, choices, histories, launches>>

-----------------------------------------------------------------------------
(* open_schema_with_migrations.                                              *)

NeedsVacuum_Below(store, v) == v \in OldestMigrated[store] .. VacuumFrom[store] - 1
NeedsVacuum(store, v) == v \in OldestMigrated[store] .. VacuumFrom[store]

ReadVersion(o) ==
    /\ At(o, "version")
    /\ LET store == opener[o].store IN
       Goes(o, [opener[o] EXCEPT !.read = version[store],
                                 !.at = IF NeedsVacuum(store, version[store]) THEN "vacuum" ELSE "schema"])
    /\ UNCHANGED <<version, vacuumed, imageStore, choices, histories, launches>>

\* SQLite forbids VACUUM in the transaction of the migrations.
Vacuum(o) ==
    /\ At(o, "vacuum") /\ To(o, "schema")
    /\ vacuumed' = [vacuumed EXCEPT ![opener[o].store] = TRUE]
    /\ UNCHANGED <<version, imageStore, choices, histories, launches>>

AfterSchema(store) == IF store = "catalog" THEN "copy" ELSE "table"

\* The image index gets its table of samples with the last migration; the
\* catalog gets its libraries, which index videos, with an earlier one.
Migrated_Marked(store) ==
    /\ version' = [version EXCEPT ![store] = CurrentVersion(store)]
    /\ copied' = (copied \/ store = "images")
    /\ UNCHANGED <<layout, fits, vectorTable, sampleRows>>
Migrated(store) ==
    /\ version' = [version EXCEPT ![store] = CurrentVersion(store)]
    /\ copied' = (copied \/ (store = "images" /\ version["images"] = 0))
    /\ UNCHANGED <<layout, fits, vectorTable, sampleRows>>

Supported(store, v) == v \in OldestMigrated[store] .. CurrentVersion(store)

\* A new store is created in one transaction, which fails when another process
\* was faster; an older one is migrated from the version it has by then.
Schema(o) ==
    /\ At(o, "schema") /\ UNCHANGED <<choices, histories, launches>>
    /\ LET store == opener[o].store IN
       \/ /\ opener[o].read = 0 /\ version[store] = 0 /\ To(o, AfterSchema(store))
          /\ Migrated(store) /\ vacuumed' = [vacuumed EXCEPT ![store] = TRUE]
       \/ /\ opener[o].read = 0 /\ version[store] # 0 /\ FailsToOpen(o)
          /\ UNCHANGED <<version, vacuumed, imageStore>>
       \/ /\ opener[o].read # 0 /\ Supported(store, version[store]) /\ To(o, AfterSchema(store))
          /\ Migrated(store) /\ UNCHANGED vacuumed
       \/ /\ opener[o].read # 0 /\ ~Supported(store, version[store]) /\ FailsToOpen(o)
          /\ UNCHANGED <<version, vacuumed, imageStore>>

-----------------------------------------------------------------------------
(* main: copy the old choice before forgetting it.                            *)

CopyChoice_Forgotten(o) ==
    /\ At(o, "copy") /\ UNCHANGED <<version, vacuumed, imageStore, histories, launches>>
    /\ \/ opener[o].off /\ legacyOff /\ legacyOff' = FALSE /\ UNCHANGED <<videos, opener>>
       \/ opener[o].off /\ ~legacyOff /\ videos' = {} /\ To(o, "forget") /\ UNCHANGED legacyOff
       \/ ~opener[o].off /\ To(o, "forget") /\ UNCHANGED choices
CopyChoice(o) ==
    /\ At(o, "copy") /\ To(o, "forget")
    /\ videos' = IF opener[o].off THEN {} ELSE videos
    /\ UNCHANGED <<version, vacuumed, imageStore, legacyOff, histories, launches>>

ForgetChoice(o) ==
    /\ At(o, "forget") /\ Goes(o, [opener[o] EXCEPT !.at = "version", !.store = "images"])
    /\ legacyOff' = (legacyOff /\ ~opener[o].off)
    /\ UNCHANGED <<version, vacuumed, imageStore, videos, histories, launches>>

-----------------------------------------------------------------------------
(* ImageIndexDb::new: ensure_vector_table, ensure_sample_rows and             *)
(* check_vector_width.  Each looks before its transaction begins.            *)

LookAtTable_Moves(o) ==
    /\ At(o, "table")
    /\ \/ layout = "none" /\ To(o, "create")
       \/ layout # "none" /\ fits /\ To(o, "move")
       \/ layout # "none" /\ ~fits /\ FailsToOpen(o)
    /\ UNCHANGED <<version, vacuumed, imageStore, choices, histories, launches>>
LookAtTable(o) ==
    /\ At(o, "table")
    /\ \/ layout = "none" /\ To(o, "create")
       \/ layout = "samples" /\ To(o, "marker")
       \/ layout = "assets" /\ fits /\ To(o, "move")
       \/ layout = "assets" /\ ~fits /\ FailsToOpen(o)
    /\ UNCHANGED <<version, vacuumed, imageStore, choices, histories, launches>>

CreateTable(o) ==
    /\ At(o, "create") /\ layout' = "samples" /\ IF layout = "none" THEN To(o, "marker") ELSE FailsToOpen(o)
    /\ UNCHANGED <<version, vacuumed, fits, vectorTable, sampleRows, copied, choices, histories, launches>>

\* The new table is filled from whatever the table holds by then, a row for each
\* asset, whose identifier becomes the key.
MoveVectors(o) ==
    /\ At(o, "move") /\ UNCHANGED <<version, vacuumed, fits, sampleRows, copied, choices, histories, launches>>
    /\ IF \A v, w \in vectorTable : v.asset = w.asset => v = w
       THEN /\ layout' = "samples" /\ To(o, "marker")
            /\ vectorTable' = {[id |-> v.asset, asset |-> v.asset, time |-> 0] : v \in vectorTable}
       ELSE FailsToOpen(o) /\ UNCHANGED <<layout, vectorTable>>

LookAtMarker(o) ==
    /\ At(o, "marker") /\ To(o, IF copied THEN "width" ELSE "keys")
    /\ UNCHANGED <<version, vacuumed, imageStore, choices, histories, launches>>

Collides(v) == \E s \in sampleRows : s.id = v.id

\* The keys and the marker in one transaction, which a key already there undoes.
CopyKeys_InTwo(o) ==
    /\ UNCHANGED <<version, vacuumed, layout, fits, vectorTable, choices, histories, launches>>
    /\ \/ /\ At(o, "keys") /\ ~\E v \in vectorTable : Collides(v)
          /\ sampleRows' = sampleRows \cup vectorTable /\ To(o, "marking") /\ UNCHANGED copied
       \/ At(o, "marking") /\ copied' = TRUE /\ To(o, "width") /\ UNCHANGED sampleRows
       \/ /\ At(o, "keys") /\ \E v \in vectorTable : Collides(v)
          /\ UNCHANGED <<sampleRows, copied>> /\ FailsToOpen(o)
CopyKeys(o) ==
    /\ At(o, "keys") /\ UNCHANGED <<version, vacuumed, layout, fits, vectorTable, choices, histories, launches>>
    /\ \/ /\ ~\E v \in vectorTable : Collides(v)
          /\ sampleRows' = sampleRows \cup vectorTable /\ copied' = TRUE /\ To(o, "width")
       \/ /\ \E v \in vectorTable : Collides(v)
          /\ UNCHANGED <<sampleRows, copied>> /\ FailsToOpen(o)

CheckWidth(o) ==
    /\ At(o, "width") /\ IF fits THEN To(o, "ready") ELSE FailsToOpen(o)
    /\ UNCHANGED <<version, vacuumed, imageStore, choices, histories, launches>>

-----------------------------------------------------------------------------
(* A server that is ready.  Neither its jobs nor its user act while another   *)
(* process opens the stores: see the README.                                 *)

Serving(o) == At(o, "ready") /\ \A x \in Openers : opener[x].at \in {"down", "ready"}

\* The next identifier of a table without AUTOINCREMENT.
NextId(rows) == IF rows = {} THEN 1 ELSE 1 + (CHOOSE i \in {s.id : s \in rows} : \A s \in rows : s.id <= i)

\* save_embeddings and save_video_embeddings: the rows of the asset are found by
\* their keys and replaced.
SaveSample(o, asset, time) ==
    /\ Serving(o)
    /\ LET old == {s \in sampleRows : s.asset = asset}
           kept == sampleRows \ old
           row == [id |-> NextId(kept), asset |-> asset, time |-> time]
       IN /\ row.id <= MaxSampleId
          /\ vectorTable' = {v \in vectorTable : \A s \in old : s.id # v.id} \cup {row}
          /\ sampleRows' = kept \cup {row}
          /\ owed' = {p \in owed : p[1] # asset} \cup {<<asset, time>>}
    /\ UNCHANGED <<version, vacuumed, layout, fits, copied, choices, wantedBy, opener, launches>>

ChooseVideos(o, library) ==
    /\ Serving(o) /\ videos' = videos \cup {library} /\ wantedBy' = wantedBy \cup {library}
    /\ UNCHANGED <<version, vacuumed, imageStore, legacyOff, owed, opener, launches>>

UpgradeNext ==
    \E o \in Openers :
        \/ Launch(o) \/ Kill(o) \/ ReadVersion(o) \/ Vacuum(o) \/ Schema(o)
        \/ CopyChoice(o) \/ ForgetChoice(o)
        \/ LookAtTable(o) \/ CreateTable(o) \/ MoveVectors(o) \/ LookAtMarker(o) \/ CopyKeys(o) \/ CheckWidth(o)
        \/ \E v \in OldVectors : SaveSample(o, v.asset, v.time)
        \/ \E l \in OldLibraries : ChooseVideos(o, l)

UpgradeSpec == UpgradeInit /\ [][UpgradeNext]_upgradeVars

-----------------------------------------------------------------------------
(* Properties.                                                              *)

\* No vector of an older version is lost, doubled or detached from its asset,
\* wherever an upgrade is interrupted or overtaken.
VectorsSurvive ==
    /\ {<<v.asset, v.time>> : v \in vectorTable} = owed
    /\ Cardinality(vectorTable) = Cardinality(owed)

\* new_read_only checks version, marker and table.
ReaderAccepts == version["images"] = ImagesCurrent /\ copied /\ layout = "samples" /\ fits

\* A store a reader accepts has the key of every vector and of nothing else:
\* search finds vectors through these keys.
ReadersSeeWhole == ReaderAccepts => sampleRows = vectorTable

\* A version that promises the current file layout is recorded only over a file
\* that has it.
VacuumBeforeVersion == \A s \in Stores : version[s] > VacuumFrom[s] => vacuumed[s]

\* "The marker makes an interrupted copy safe to retry": a process that has the
\* stores to itself opens them, whatever happened to the ones before it, unless
\* they are of another model or of a version this one cannot migrate.
LoneStartSucceeds ==
    \A o \in Openers : opener[o].failed /\ opener[o].alone =>
        ~fits \/ \E s \in Stores : version[s] # 0 /\ ~Supported(s, version[s])

\* "so a crash between the two steps repeats the copy": no server is ever ready
\* with videos on in a library whose user had them off.
OldChoiceKept == \A o \in Openers : At(o, "ready") => videos \subseteq wantedBy

\* Opening older stores loses no vector and no choice, shows no reader half an
\* index, and succeeds in the end, wherever it is killed or overtaken.
UpgradeIsSafe ==
    /\ VectorsSurvive
    /\ ReadersSeeWhole
    /\ VacuumBeforeVersion
    /\ LoneStartSucceeds
    /\ OldChoiceKept

-----------------------------------------------------------------------------
(* The inductive invariant.                                                  *)

ImagePlaces == {"table", "create", "move", "marker", "keys", "width", "ready"}
Places == {"down", "version", "vacuum", "schema", "copy", "forget"} \cup ImagePlaces

\* Type invariant.
UpgradeTypeOK ==
    /\ version \in [Stores -> Nat] /\ vacuumed \in [Stores -> BOOLEAN]
    /\ layout \in {"none", "assets", "samples"} /\ fits \in BOOLEAN /\ copied \in BOOLEAN /\ legacyOff \in BOOLEAN
    /\ vectorTable \subseteq [id : 1 .. MaxSampleId, asset : 1 .. MaxSampleId, time : Nat] /\ IsFiniteSet(vectorTable)
    /\ opener \in [Openers -> [at : Places, store : Stores, read : Nat, off : BOOLEAN, alone : BOOLEAN, failed : BOOLEAN]]

\* The vectors are those that are owed, each of them once, and each with a key
\* of its own, which the samples have as soon as the copy is marked.
VectorsInv ==
    /\ \A v, w \in vectorTable : v.id = w.id \/ (v.asset = w.asset /\ v.time = w.time) => v = w
    /\ owed = {<<v.asset, v.time>> : v \in vectorTable}
    /\ sampleRows = IF copied THEN vectorTable ELSE {}
    /\ layout = "none" => vectorTable = {}
    /\ layout = "assets" => ~copied /\ \A v \in vectorTable : v.time = 0
    /\ version["images"] = 0 => layout = "none"

\* Videos are on where a user wants them, as soon as the old choice is forgotten.
ChoiceKept == videos \subseteq wantedBy
ChoiceInv == ~legacyOff => ChoiceKept

\* What the process r knows of the stores, when others may have overtaken it.
SchemaPlaced(r) ==
    /\ r.at \in {"vacuum", "schema"} =>
           /\ r.read # 0 => version[r.store] \in {r.read, CurrentVersion(r.store)}
           /\ r.alone => version[r.store] = r.read
    /\ r.at = "vacuum" => r.read # 0
    /\ r.at = "schema" /\ NeedsVacuum(r.store, r.read) => vacuumed[r.store]
    /\ r.at \in {"copy", "forget"} => r.store = "catalog"
    /\ r.at \in ImagePlaces => r.store = "images" /\ version["images"] # 0

\* A table that was moved already is moved again to what it is.
IsMoved == layout # "none" /\ (layout = "samples" => \A v \in vectorTable : v.time = 0 /\ v.id = v.asset)

IndexPlaced(r) ==
    /\ r.at = "create" => layout # "assets" /\ (r.alone => layout = "none")
    /\ r.at = "move" => IsMoved
    /\ r.at \in {"marker", "keys", "width", "ready"} => layout = "samples"
    /\ r.at = "keys" /\ r.alone => ~copied
    /\ r.at \in {"width", "ready"} => copied

ChoicePlaced(r) == r.at # "down" /\ (~r.off \/ r.at = "forget" \/ r.store = "images") => ChoiceKept

Unopenable == ~fits \/ \E s \in Stores : version[s] # 0 /\ ~Supported(s, version[s])

OpenerPlaced(r) ==
    SchemaPlaced(r) /\ IndexPlaced(r) /\ ChoicePlaced(r) /\ (r.failed /\ r.alone => Unopenable)

\* A process that has the stores to itself really has.
AloneInv ==
    \A o \in Openers : opener[o].at # "down" /\ opener[o].alone => \A x \in Openers \ {o} : opener[x].at = "down"

UpgradeInv ==
    /\ UpgradeTypeOK /\ VectorsInv /\ ChoiceInv /\ VacuumBeforeVersion /\ AloneInv
    /\ \A o \in Openers : OpenerPlaced(opener[o])
===============================================================================
