------------------------------ MODULE PatchCache ------------------------------
(***************************************************************************)
(* The patch features of recently inspected pictures, kept within a byte    *)
(* budget, and the requests that fill the cache.  A request takes the       *)
(* fingerprint from the catalog, decodes the file later, and caches what it *)
(* computed under that fingerprint, while files change and scans catch up.  *)
(* A fingerprint, and the contents a decode saw, are the version number of  *)
(* the file; recency replaces the tick counter of the code.                 *)
(***************************************************************************)
EXTENDS Integers, Sequences, FiniteSetsExt, SequencesExt

CONSTANTS
    Pictures, Frames,   \* assets, and timestamps of the sampled frames of a video
    Inspectors,         \* requests in flight at once
    Weight,             \* picture -> bytes of its features
    Budget,             \* BYTE_BUDGET, 256 MiB in the code
    MaxVersion          \* bound: versions of a file

VARIABLES
    file, cataloged,    \* picture -> version on disk, version in the catalog
    entries,            \* key -> [bytes, seen]: seen is the version that was decoded
    bytes,              \* the running total
    recency,            \* keys, least recently used first
    inspector           \* request -> [pc, key, seen, current]

patchVars == <<file, cataloged, entries, bytes, recency, inspector>>

PatchInit ==
    /\ file = [p \in Pictures |-> 1] /\ cataloged = [p \in Pictures |-> 1]
    /\ entries = [k \in {} |-> 0] /\ bytes = 0 /\ recency = <<>>
    /\ inspector = [i \in Inspectors |-> [pc |-> "idle"]]

FileChanges(p) ==
    /\ file[p] < MaxVersion
    /\ file' = [file EXCEPT ![p] = @ + 1]
    /\ UNCHANGED <<cataloged, entries, bytes, recency, inspector>>

ScanCatalogs(p) ==
    /\ cataloged' = [cataloged EXCEPT ![p] = file[p]]
    /\ UNCHANGED <<file, entries, bytes, recency, inspector>>

\* Mutant: a frame of a picture is one entry, whatever version it was made of.
KeyOf_Unversioned(p, t) == <<p, t, 0>>

\* (asset_id, timestamp_ms, fingerprint) as the catalog has it.
KeyOf(p, t) == <<p, t, cataloged[p]>>

\* Mutant: an entry that is used goes to the old end.
Used_First(key) == <<key>> \o Remove(recency, key)

\* Both get and insert give an entry the newest tick.
Used(key) == Append(Remove(recency, key), key)

\* Cache::get, on a hit; what is answered is judged against the catalog row.
Lookup(i, p, t) ==
    LET key == KeyOf(p, t) IN
    /\ inspector[i].pc = "idle"
    /\ IF key \in DOMAIN entries
       THEN /\ recency' = Used(key)
            /\ inspector' = [inspector EXCEPT ![i] = [pc |-> "answered", picture |-> p,
                   seen |-> entries[key].seen, row |-> cataloged[p]]]
       ELSE /\ inspector' = [inspector EXCEPT ![i] = [pc |-> "decode", key |-> key,
                   picture |-> p, row |-> cataloged[p]]]
            /\ UNCHANGED recency
    /\ UNCHANGED <<file, cataloged, entries, bytes>>

\* The file is read and decoded, as it is now; or it cannot be.
Decode(i) ==
    /\ inspector[i].pc = "decode"
    /\ inspector' = [inspector EXCEPT ![i] =
           [pc |-> "insert", key |-> @.key, picture |-> @.picture, row |-> @.row,
            seen |-> file[@.picture]]]
    /\ UNCHANGED <<file, cataloged, entries, bytes, recency>>

DecodeFails(i) ==
    /\ inspector[i].pc \in {"decode", "insert"}
    /\ inspector' = [inspector EXCEPT ![i] = [pc |-> "idle"]]
    /\ UNCHANGED <<file, cataloged, entries, bytes, recency>>

\* Mutant: the bytes of an entry that is replaced stay in the total.
Replaced_Forgotten(kept, key) == 0

\* The bytes a second insert of a key gives back.
Replaced(kept, key) == IF key \in DOMAIN kept THEN kept[key].bytes ELSE 0

Total(kept) == FoldSet(LAMBDA k, sum : sum + kept[k].bytes, 0, DOMAIN kept)

\* The least recently used entries, as few as bring the total into the budget.
Evicted(order, kept, total) ==
    LET Prefix(m) == [k \in ToSet(SubSeq(order, 1, m)) |-> kept[k]]
        n == CHOOSE m \in 0..Len(order) :
                /\ total - Total(Prefix(m)) <= Budget
                /\ \A l \in 0..(m - 1) : total - Total(Prefix(l)) > Budget
    IN ToSet(SubSeq(order, 1, n))

\* Cache::insert: nothing for features beyond the whole budget; otherwise other
\* versions of the picture go first, then the oldest entries.
InsertFeatures(i) ==
    LET key == inspector[i].key
        size == Weight[key[1]]
        kept == [k \in {k \in DOMAIN entries : k[1] # key[1] \/ k[3] = key[3]} |-> entries[k]]
        base == bytes - (Total(entries) - Total(kept))
        held == [k \in DOMAIN kept \cup {key} |->
                    IF k = key THEN [bytes |-> size, seen |-> inspector[i].seen] ELSE kept[k]]
        order == SelectSeq(Used(key), LAMBDA k : k \in DOMAIN held)
        total == base - Replaced(kept, key) + size
        gone == Evicted(order, held, total)
    IN
    /\ inspector[i].pc = "insert"
    /\ IF size > Budget THEN UNCHANGED <<entries, bytes, recency>>
       ELSE /\ entries' = [k \in DOMAIN held \ gone |-> held[k]]
            /\ bytes' = total - Total([k \in gone |-> held[k]])
            /\ recency' = SelectSeq(order, LAMBDA k : k \notin gone)
    /\ inspector' = [inspector EXCEPT ![i] = [pc |-> "answered", picture |-> @.picture,
           seen |-> @.seen, row |-> @.row]]
    /\ UNCHANGED <<file, cataloged>>

Answered(i) ==
    /\ inspector[i].pc = "answered"
    /\ inspector' = [inspector EXCEPT ![i] = [pc |-> "idle"]]
    /\ UNCHANGED <<file, cataloged, entries, bytes, recency>>

PatchNext ==
    \/ \E p \in Pictures : FileChanges(p) \/ ScanCatalogs(p)
    \/ \E i \in Inspectors :
        \/ \E p \in Pictures, t \in Frames : Lookup(i, p, t)
        \/ Decode(i) \/ DecodeFails(i) \/ InsertFeatures(i) \/ Answered(i)

PatchSpec == PatchInit /\ [][PatchNext]_patchVars

-----------------------------------------------------------------------------
(* Safety.                                                                  *)

\* The running total is what the entries weigh and never exceeds the budget,
\* also when two requests insert the same key.
BudgetExact == bytes = Total(entries) /\ bytes <= Budget /\ ToSet(recency) = DOMAIN entries

\* An inspected picture whose catalog row is that of the file on disk is
\* answered with features of that file, though the decode came after the look.
InspectionsCurrent ==
    \A i \in Inspectors : inspector[i].pc = "answered" /\ inspector[i].row = file[inspector[i].picture]
        => inspector[i].seen = inspector[i].row

\* The picture inspected last stays cached unless it alone exceeds the budget.
NewestKept ==
    [][\A i \in Inspectors : InsertFeatures(i) /\ Weight[inspector[i].key[1]] <= Budget
        => inspector[i].key \in DOMAIN entries']_patchVars

\* The cache answers with features of the file it was asked about and stays
\* within its budget, although requests compute at once while files change.
PatchesCurrent ==
    /\ [](BudgetExact /\ InspectionsCurrent)
    /\ NewestKept

-----------------------------------------------------------------------------
(* What every step keeps.                                                   *)

PatchKeys == Pictures \X Frames \X Nat

Looking == [pc : {"idle"}]
Decoding == [pc : {"decode"}, key : PatchKeys, picture : Pictures, row : Nat]
Inserting == [pc : {"insert"}, key : PatchKeys, picture : Pictures, row : Nat, seen : Nat]
Answering == [pc : {"answered"}, picture : Pictures, row : Nat, seen : Nat]

\* What a decode saw is no older than the row it was asked with, and no newer
\* than the file.
SeenBetween(row, seen, version) == row <= seen /\ seen <= version

PatchTypeOK ==
    /\ file \in [Pictures -> Nat] /\ cataloged \in [Pictures -> Nat]
    /\ inspector \in [Inspectors -> Looking \cup Decoding \cup Inserting \cup Answering]

EntriesAgree ==
    \A k \in DOMAIN entries :
        k \in PatchKeys /\ entries[k].seen \in Nat /\ SeenBetween(k[3], entries[k].seen, file[k[1]])

RequestsAgree ==
    \A i \in Inspectors :
        /\ inspector[i].pc \in {"decode", "insert"} =>
               inspector[i].key[1] = inspector[i].picture /\ inspector[i].key[3] = inspector[i].row
        /\ inspector[i].pc = "decode" => inspector[i].row <= file[inspector[i].picture]
        /\ inspector[i].pc \in {"insert", "answered"} =>
               SeenBetween(inspector[i].row, inspector[i].seen, file[inspector[i].picture])

PatchInv ==
    /\ PatchTypeOK /\ EntriesAgree /\ RequestsAgree
    /\ \A p \in Pictures : cataloged[p] <= file[p]
===============================================================================
