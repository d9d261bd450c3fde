------------------------------- MODULE TextIndex -------------------------------
(***************************************************************************)
(* The text database and the jobs that fill it: recognized text, one vector   *)
(* per text, and a state row that says for which revision of the text the     *)
(* vector was made.  Every action is one transaction, or one read, of that    *)
(* database; a crash may come between any two, and the server may come back   *)
(* as another build, with another text model and another recognizer.          *)
(***************************************************************************)
EXTENDS Naturals, FiniteSets
LOCAL INSTANCE FiniteSetsExt

CONSTANTS
    TextAssets,     \* assets of the catalog
    LostAssets,     \* assets the catalog has lost, with rows left in the text database
    Blank,          \* assets whose images hold no text
    TextLibraries, TextScope,   \* libraries, and the assets each covers
    EmbedBatch,     \* rows per embedder call
    MaxRevision, MaxTextJobs, MaxBuilds     \* bounds

ASSUME TextAssumption == MaxRevision \in Nat /\ MaxBuilds \in Nat

VARIABLES
    revision,   \* asset -> fingerprint of its catalog row, 0 for none
    ocrRows,    \* ocr_results: asset -> [fp, build] of the recognition, or NoText
    embedState, \* ocr_embedding_state: asset -> fingerprint, 0 for no row
    textVectors,\* the vec0 table: asset -> [fp, build, model] embedded, or NoVector
    declared,   \* ocr_embedding_model: the model of the vectors, 0 for none
    build,      \* the running build: its text model and its recognizer
    pass,       \* what the worker does
    textJobs

textVars == <<revision, ocrRows, embedState, textVectors, declared, build, pass, textJobs>>

AllAssets == TextAssets \cup LostAssets
NoText == [fp |-> 0, build |-> 0]
NoVector == [fp |-> 0, build |-> 0, model |-> 0]
IdlePass == [at |-> "idle"]

TextInit ==
    /\ revision = [a \in AllAssets |-> IF a \in LostAssets THEN 0 ELSE 1]
    /\ ocrRows = [a \in AllAssets |-> IF a \in LostAssets THEN [fp |-> 1, build |-> 1] ELSE NoText]
    /\ embedState = [a \in AllAssets |-> IF a \in LostAssets THEN 1 ELSE 0]
    /\ textVectors = [a \in AllAssets |-> IF a \in LostAssets THEN [fp |-> 1, build |-> 1, model |-> 1] ELSE NoVector]
    /\ declared = IF LostAssets = {} THEN 0 ELSE 1
    /\ build = 1 /\ pass = IdlePass /\ textJobs = 0

WithText == {a \in AllAssets : ocrRows[a] # NoText /\ a \notin Blank}

\* Mutant: any state row counts, whatever the revision it was made for.
Matches_Any(a) == embedState[a] # 0

\* The join of search, coverage and backlog: the state row has the fingerprint
\* of the text row as it is now.
Matches(a) == embedState[a] # 0 /\ embedState[a] = ocrRows[a].fp

\* text_embedding_coverage and pending_text_embeddings.
PendingText(l) == {a \in WithText \cap TextScope[l] : ~Matches(a)}

\* search_text_vectors: vectors joined to text and state.
Searchable == {a \in AllAssets : ocrRows[a] # NoText /\ textVectors[a] # NoVector /\ Matches(a)}

-----------------------------------------------------------------------------
\* A scan catalogs a new revision of a file, before any job of the text stages.
Cataloged(a) ==
    /\ pass = IdlePass /\ revision[a] \in 1..(MaxRevision - 1)
    /\ revision' = [revision EXCEPT ![a] = @ + 1]
    /\ UNCHANGED <<ocrRows, embedState, textVectors, declared, build, pass, textJobs>>

\* The process dies between two transactions; the next may be a newer build.
TextCrash ==
    /\ pass' = IdlePass /\ build' \in build..MaxBuilds /\ build' <= build + 1
    /\ <<pass, build>>' # <<pass, build>>
    /\ UNCHANGED <<revision, ocrRows, embedState, textVectors, declared, textJobs>>

Starts(work) == pass = IdlePass /\ textJobs < MaxTextJobs /\ textJobs' = textJobs + 1 /\ pass' = work

\* The text stages of a library scan; rescan is its force option.
ScanBegins(l, rescan) ==
    /\ Starts([at |-> "ocr", lib |-> l, rescan |-> rescan, done |-> {}])
    /\ UNCHANGED <<revision, ocrRows, embedState, textVectors, declared, build>>

\* current_asset_ids: without rescan, text of this revision is not recognized again.
SelectedText(a) == pass.rescan \/ ocrRows[a].fp # revision[a]

\* save_results, for an image that could be recognized.
SaveResult ==
    /\ pass.at = "ocr"
    /\ \E a \in {a \in TextScope[pass.lib] \ pass.done : revision[a] # 0 /\ SelectedText(a)} :
        /\ ocrRows' = [ocrRows EXCEPT ![a] = [fp |-> revision[a], build |-> build]]
        /\ pass' = [pass EXCEPT !.done = @ \cup {a}]
    /\ UNCHANGED <<revision, embedState, textVectors, declared, build, textJobs>>

\* recognize_text is over, embed_text begins; a scan never forces it.
TextOcrEnds ==
    /\ pass.at = "ocr" /\ pass' = [at |-> "select", lib |-> pass.lib, force |-> FALSE]
    /\ UNCHANGED <<revision, ocrRows, embedState, textVectors, declared, build, textJobs>>

\* POST /v1/text-embeddings/jobs.
EmbedJobBegins(l, force) ==
    /\ Starts([at |-> "select", lib |-> l, force |-> force])
    /\ UNCHANGED <<revision, ocrRows, embedState, textVectors, declared, build>>

NoVectors == [a \in AllAssets |-> NoVector]
NoState == [a \in AllAssets |-> 0]

\* Mutant: a new model keeps the vectors of the one before.
ModelChanges_Kept == FALSE

\* set_text_embedding_model: another model drops the table and its state rows.
ModelChanges == declared \notin {0, build}

\* select declares the model, then counts.
SelectText ==
    /\ pass.at = "select" /\ declared' = build
    /\ IF ModelChanges THEN textVectors' = NoVectors /\ embedState' = NoState
       ELSE UNCHANGED <<textVectors, embedState>>
    /\ LET rows == WithText \cap TextScope[pass.lib]
           count == IF pass.force \/ ModelChanges THEN rows ELSE PendingText(pass.lib)
       IN pass' = IF count = {} THEN IdlePass
                  ELSE [at |-> IF pass.force THEN "clear" ELSE "embed", lib |-> pass.lib]
    /\ UNCHANGED <<revision, ocrRows, build, textJobs>>

\* Mutant: the state rows stay when the vectors are cleared.
ClearedState_Kept == embedState

\* clear_text_embeddings clears the space: the vectors of every library.
ClearedState == NoState

ClearText ==
    /\ pass.at = "clear" /\ textVectors' = NoVectors /\ embedState' = ClearedState
    /\ pass' = [pass EXCEPT !.at = "embed"]
    /\ UNCHANGED <<revision, ocrRows, declared, build, textJobs>>

\* Mutant: the pass ends after its first batch.
BacklogEmpty_OneBatch == pass.at = "embed" /\ "rows" \in DOMAIN pass

\* A pass ends when nothing in its library is pending.
BacklogEmpty == pass.at = "embed" /\ PendingText(pass.lib) = {}

NextBacklog ==
    /\ pass.at = "embed" /\ ~BacklogEmpty
    /\ \E rows \in SUBSET PendingText(pass.lib) :
        /\ Cardinality(rows) = Min({EmbedBatch, Cardinality(PendingText(pass.lib))})
        /\ pass' = [at |-> "save", lib |-> pass.lib, rows |-> [a \in rows |-> ocrRows[a]]]
    /\ UNCHANGED <<revision, ocrRows, embedState, textVectors, declared, build, textJobs>>

\* save_text_embeddings: the state copies the fingerprint of the text row as it
\* is now; a row that has lost its text is skipped.
SaveVectors ==
    /\ pass.at = "save"
    /\ LET stored == {a \in DOMAIN pass.rows : ocrRows[a] # NoText} IN
       /\ textVectors' = [a \in AllAssets |-> IF a \in stored
              THEN [fp |-> pass.rows[a].fp, build |-> pass.rows[a].build, model |-> build] ELSE textVectors[a]]
       /\ embedState' = [a \in AllAssets |-> IF a \in stored THEN ocrRows[a].fp ELSE embedState[a]]
       /\ pass' = IF stored = {} THEN IdlePass ELSE [pass EXCEPT !.at = "embed"]
    /\ UNCHANGED <<revision, ocrRows, declared, build, textJobs>>

\* The pass is over; history remembers what it leaves covered.
PassDone ==
    /\ BacklogEmpty /\ pass' = [at |-> "done", lib |-> pass.lib]
    /\ UNCHANGED <<revision, ocrRows, embedState, textVectors, declared, build, textJobs>>

\* A job ends, fails or is cancelled between two of its transactions.
JobLeaves ==
    /\ pass.at \notin {"idle", "sweep"} /\ pass' = IdlePass
    /\ UNCHANGED <<revision, ocrRows, embedState, textVectors, declared, build, textJobs>>

\* delete_assets, by a purge: text, vectors and state in one transaction, and
\* the catalog row after it.
DeleteText(a) ==
    /\ Starts(IdlePass) /\ revision[a] # 0
    /\ ocrRows' = [ocrRows EXCEPT ![a] = NoText] /\ embedState' = [embedState EXCEPT ![a] = 0]
    /\ textVectors' = [textVectors EXCEPT ![a] = NoVector]
    /\ revision' \in {revision, [revision EXCEPT ![a] = 0]}
    /\ UNCHANGED <<declared, build>>

\* prune_orphans of the idle maintenance: text rows without a catalog row go,
\* their state rows cascade; the vectors follow in a statement of their own.
PruneOrphanText ==
    /\ pass = IdlePass /\ \E a \in AllAssets : revision[a] = 0 /\ (ocrRows[a] # NoText \/ textVectors[a] # NoVector)
    /\ pass' = [at |-> "sweep"]
    /\ ocrRows' = [a \in AllAssets |-> IF revision[a] = 0 THEN NoText ELSE ocrRows[a]]
    /\ embedState' = [a \in AllAssets |-> IF revision[a] = 0 THEN 0 ELSE embedState[a]]
    /\ UNCHANGED <<revision, textVectors, declared, build, textJobs>>

\* sweep_text_embeddings: vectors without a state row.
SweepVectors ==
    /\ pass.at = "sweep" /\ pass' = IdlePass
    /\ textVectors' = [a \in AllAssets |-> IF embedState[a] = 0 THEN NoVector ELSE textVectors[a]]
    /\ UNCHANGED <<revision, ocrRows, embedState, declared, build, textJobs>>

TextSteps ==
    \/ SaveResult \/ TextOcrEnds \/ SelectText \/ ClearText \/ NextBacklog \/ SaveVectors \/ PassDone
    \/ JobLeaves \/ PruneOrphanText \/ SweepVectors

TextNext ==
    \/ TextSteps \/ TextCrash
    \/ \E l \in TextLibraries, b \in BOOLEAN : ScanBegins(l, b) \/ EmbedJobBegins(l, b)
    \/ \E a \in TextAssets : Cataloged(a) \/ DeleteText(a)

TextSpec == TextInit /\ [][TextNext]_textVars

-----------------------------------------------------------------------------
(* Properties.                                                              *)

\* A semantic search compares vectors of one model: across upgrades, crashes
\* between declaring a model and embedding with it, and forced passes.
OneModelSearched == \A a \in Searchable : textVectors[a].model = declared

\* A vector that answers a search was made from the text of the revision on
\* record, whatever was recognized again since.
VectorOfRevision == \A a \in Searchable : textVectors[a].fp = ocrRows[a].fp

\* A text is pending or searchable: no clear, sweep, deletion or model change
\* leaves a state row without its vector, which no later pass would redo.
NothingForgotten == \A a \in WithText : Matches(a) => textVectors[a] # NoVector

\* A pass that runs to its end leaves every text of its library searchable,
\* also after a forced pass cut short had cleared the vectors of all libraries.
PassCovers == pass.at = "done" => WithText \cap TextScope[pass.lib] \subseteq Searchable

\* "A later re-OCR silently retires the vector": a vector that answers a search
\* was made from the text that is on record now.
ReOcrRetires == \A a \in Searchable : textVectors[a].build = ocrRows[a].build

\* A vector that answers a search is of the declared model and of the revision
\* on record, a text without one is still owed it, and a pass that ends owes
\* none: across forced passes cut short, upgrades, deletions and crashes.
TextsSearchable == OneModelSearched /\ VectorOfRevision /\ NothingForgotten /\ PassCovers

\* Type invariant.  The stages of the worker are records of several shapes; a
\* proof needs no more of them than that each has a name.
TextTypeOK ==
    /\ revision \in [AllAssets -> Nat]
    /\ ocrRows \in [AllAssets -> [fp : Nat, build : Nat]]
    /\ embedState \in [AllAssets -> Nat]
    /\ textVectors \in [AllAssets -> [fp : Nat, build : Nat, model : Nat]]
    /\ declared \in Nat /\ build \in Nat \ {0} /\ "at" \in DOMAIN pass

\* A state row, whether or not it still matches its text, stands for a vector
\* made from its revision with the declared model.
StateHasVector ==
    \A a \in AllAssets : embedState[a] # 0 =>
        /\ declared # 0 /\ textVectors[a] # NoVector
        /\ textVectors[a].fp = embedState[a] /\ textVectors[a].model = declared

\* From its selection to its end a pass runs under the model it declared, and
\* the texts of a batch are those on record until the batch is saved.
PassInv ==
    /\ pass.at \in {"clear", "embed", "save"} => declared = build
    /\ pass.at = "save" => \A a \in DOMAIN pass.rows : a \in AllAssets => pass.rows[a] = ocrRows[a]
    /\ pass.at = "done" => PendingText(pass.lib) = {}

\* The inductive invariant of the text database.
TextInv == TextTypeOK /\ StateHasVector /\ PassInv
===============================================================================
