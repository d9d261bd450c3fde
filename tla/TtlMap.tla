-------------------------------- MODULE TtlMap --------------------------------
(***************************************************************************)
(* Client-keyed state that is swept lazily, by whoever touches the map      *)
(* next.  A map is a partial function from keys to entries; the age of an   *)
(* entry is reduced to what sweep reads of it: `aged` says that its last    *)
(* touch is ENTRY_RETENTION or more ago.                                    *)
(***************************************************************************)
EXTENDS Naturals, FiniteSets, Functions

NoEntries == [k \in {} |-> 0]

\* TtlMap::sweep drops the aged entries whose owner has not pinned them.
Sweep(entries, pinned) ==
    Restrict(entries, {k \in DOMAIN entries : k \in pinned \/ ~entries[k].aged})

\* A known key always has room; a new one is refused rather than evicting another.
HasRoomFor(entries, key, maxEntries) ==
    key \in DOMAIN entries \/ Cardinality(DOMAIN entries) < maxEntries

Insert(entries, key, entry) ==
    [k \in DOMAIN entries \cup {key} |-> IF k = key THEN entry ELSE entries[k]]

\* Time passes the retention of an entry.
Aged(entries, key) == [entries EXCEPT ![key].aged = TRUE]
===============================================================================
