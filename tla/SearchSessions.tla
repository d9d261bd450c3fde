---------------------------- MODULE SearchSessions ----------------------------
(***************************************************************************)
(* The searches of interactive clients.  A client numbers the state of its  *)
(* search box with a generation and keeps one search per lane; a newer       *)
(* generation, a newer search of the lane, an explicit cancellation and an   *)
(* abandoned request each cancel a search that already runs on a blocking    *)
(* worker, between two of its SQLite statements or inside one.               *)
(***************************************************************************)
EXTENDS TtlMap

CONSTANTS
    Clients, Lanes,     \* names the headers carry
    Searches,           \* requests in flight at once
    Generations,        \* u64 generations clients use
    MaxSessions,        \* MAX_ENTRIES, 4096 in the code
    MaxSearches         \* bound: requests one session numbers

\* The names in a lease without headers, and in no lease, are no client's.
ASSUME SessionsAssumption ==
    Generations \subseteq Nat /\ 0 \in Generations /\ "none" \notin Clients /\ "unkeyed" \notin Clients

VARIABLES
    sessions,           \* TtlMap<Session>: client -> [generation, closed, lanes, next, aged]
    lease,              \* search -> SearchLease its handler holds
    task,               \* search -> where its blocking task is
    cancelled,          \* searches whose SearchCancellation flag is set
    watched,            \* searches whose connection has the progress handler
    interrupted,        \* searches whose running statement was interrupted
    floor               \* history: client -> the oldest generation that may still run

sessionVars == <<sessions, lease, task, cancelled, watched, interrupted, floor>>

NoLease == [client |-> "none"]
Keyed(s) == lease[s] # NoLease /\ lease[s].client # "unkeyed"

SessionsInit ==
    /\ sessions = NoEntries
    /\ lease = [s \in Searches |-> NoLease]
    /\ task = [s \in Searches |-> "none"]
    /\ cancelled = {} /\ watched = {} /\ interrupted = {}
    /\ floor = [c \in Clients |-> 0]

NewSession == [generation |-> 0, closed |-> FALSE, lanes |-> NoEntries, next |-> 0, aged |-> FALSE]

\* Retained::pinned: a session with a search in flight outlives its retention.
PinnedSessions == {c \in DOMAIN sessions : DOMAIN sessions[c].lanes # {}}

KeptSessions == Sweep(sessions, PinnedSessions)

\* session(): the entry of the client, made when there is room for it.
SessionOf(c) == IF c \in DOMAIN KeptSessions THEN KeptSessions[c] ELSE NewSession
Room(c) == HasRoomFor(KeptSessions, c, MaxSessions)

KeptFloor == [c \in Clients |-> IF c \in DOMAIN sessions \ DOMAIN KeptSessions THEN 0 ELSE floor[c]]

\* SearchCancellation::cancel of a set of searches: the flag, then every
\* registered handle; an interrupt reaches only a statement that is running.
CancelAll(S) ==
    /\ cancelled' = cancelled \cup S
    /\ interrupted' = interrupted \cup {s \in S : task[s] = "statement"}

InFlight(session) == {session.lanes[l].search : l \in DOMAIN session.lanes}

\* Session::cancel.
ClosedSession(session) == [session EXCEPT !.lanes = NoEntries, !.closed = TRUE]

\* Mutant: a generation that was cancelled may be searched again.
Superseded_OnlyOlder(session, g) == g < session.generation

Superseded(session, g) == g < session.generation \/ (g = session.generation /\ session.closed)

IdleSearch(s) == lease[s] = NoLease /\ task[s] = "none"

\* The searches begin cancels: all of an older generation, or the lane's last.
Displaced(session, g, l) ==
    IF g > session.generation THEN InFlight(session)
    ELSE {session.lanes[k].search : k \in DOMAIN session.lanes \cap {l}}

\* A newer generation cancels and opens the session again.
Renewed(session, g) ==
    IF g > session.generation
    THEN [ClosedSession(session) EXCEPT !.generation = g, !.closed = FALSE] ELSE session

\* The session numbers a search and gives it the lane.
LaneGiven(session, l, s) ==
    [session EXCEPT !.next = @ + 1, !.aged = FALSE,
                    !.lanes = Insert(@, l, [request |-> session.next + 1, search |-> s])]

\* begin with the three headers.
Begin(s, c, g, l) ==
    LET old == SessionOf(c)
        accepted == LaneGiven(Renewed(old, g), l, s)
    IN
    /\ IdleSearch(s)
    /\ old.next < MaxSearches
    /\ IF Room(c) /\ ~Superseded(old, g)
       THEN /\ sessions' = Insert(KeptSessions, c, accepted)
            /\ lease' = [lease EXCEPT ![s] =
                   [client |-> c, lane |-> l, request |-> accepted.next, generation |-> g]]
            /\ task' = [task EXCEPT ![s] = "queued"]
            /\ cancelled' = (cancelled \cup Displaced(old, g, l)) \ {s}
            /\ interrupted' = (interrupted \cup
                   {t \in Displaced(old, g, l) : task[t] = "statement"}) \ {s}
            /\ floor' = [KeptFloor EXCEPT ![c] = IF g > @ THEN g ELSE @]
       ELSE /\ sessions' = IF Room(c) THEN Insert(KeptSessions, c, old) ELSE KeptSessions
            /\ floor' = KeptFloor
            /\ UNCHANGED <<lease, task, cancelled, interrupted>>
    /\ UNCHANGED watched

\* begin without headers: a lease no session knows.
BeginUnkeyed(s) ==
    /\ IdleSearch(s)
    /\ lease' = [lease EXCEPT ![s] = [client |-> "unkeyed"]]
    /\ task' = [task EXCEPT ![s] = "queued"]
    /\ cancelled' = cancelled \ {s} /\ interrupted' = interrupted \ {s}
    /\ UNCHANGED <<sessions, watched, floor>>

\* POST /v1/search/session: cancel everything through a generation.
CancelSession(c, through) ==
    LET old == SessionOf(c) IN
    /\ IF ~Room(c) THEN sessions' = KeptSessions /\ floor' = KeptFloor /\ CancelAll({})
       ELSE IF old.generation <= through
       THEN /\ CancelAll(InFlight(old))
            /\ sessions' = Insert(KeptSessions, c,
                   [ClosedSession(old) EXCEPT !.generation = through, !.aged = FALSE])
            /\ floor' = [KeptFloor EXCEPT ![c] = through + 1]
       ELSE /\ sessions' = Insert(KeptSessions, c, [old EXCEPT !.aged = FALSE])
            /\ floor' = KeptFloor /\ CancelAll({})
    /\ UNCHANGED <<lease, task, watched>>

\* Mutant: a finished lease frees its lane whoever holds it now.
OwnsLane_Any(session, held) == held.lane \in DOMAIN session.lanes

\* The lane is freed only by the request it was given to.
OwnsLane(session, held) ==
    held.lane \in DOMAIN session.lanes /\ session.lanes[held.lane].request = held.request

Freed(session, lane) == [l \in DOMAIN session.lanes \ {lane} |-> session.lanes[l]]

\* Drop for SearchLease, and CancelOnDrop when the handler is dropped while its
\* blocking task still runs: an answer is sent, or the client goes away.
DropLease(s) ==
    /\ lease[s] # NoLease
    /\ lease' = [lease EXCEPT ![s] = NoLease]
    /\ CancelAll({s})
    /\ sessions' =
        IF ~Keyed(s) \/ lease[s].client \notin DOMAIN sessions THEN sessions
        ELSE LET c == lease[s].client  session == sessions[c] IN
             [sessions EXCEPT ![c].aged = FALSE,
                 ![c].lanes = IF OwnsLane(session, lease[s]) THEN Freed(session, lease[s].lane) ELSE @]
    /\ UNCHANGED <<task, watched, floor>>

\* run_cancellable_with: the worker looks at the flag before it does anything.
TaskStarts(s) ==
    /\ task[s] = "queued"
    /\ task' = [task EXCEPT ![s] = IF s \in cancelled THEN "none" ELSE "opening"]
    /\ UNCHANGED <<sessions, lease, cancelled, watched, interrupted, floor>>

\* Mutant: a connection relies on its interrupt handle alone.
Watching_Not(s) == {}

\* register installs a progress handler that reads the flag, for a cancellation
\* that falls between two statements.
Watching(s) == {s}

\* register: the handle is pushed under the lock that cancel walks the handles
\* under, after another look at the flag.
Register(s) ==
    /\ task[s] = "opening"
    /\ watched' = IF s \in cancelled THEN watched ELSE watched \cup Watching(s)
    /\ task' = [task EXCEPT ![s] = IF s \in cancelled THEN "none" ELSE "between"]
    /\ UNCHANGED <<sessions, lease, cancelled, interrupted, floor>>

\* A statement starts; an interrupt of an earlier one is forgotten.
StatementStarts(s) ==
    /\ task[s] = "between"
    /\ task' = [task EXCEPT ![s] = "statement"]
    /\ interrupted' = interrupted \ {s}
    /\ UNCHANGED <<sessions, lease, cancelled, watched, floor>>

\* It ends with its rows, or is stopped by an interrupt or the progress handler.
StatementEnds(s) ==
    /\ task[s] = "statement"
    /\ \E next \in {"between", "none"} :
        /\ next = "none" => s \in interrupted \/ (s \in cancelled /\ s \in watched)
        /\ task' = [task EXCEPT ![s] = next]
        /\ watched' = IF next = "none" THEN watched \ {s} ELSE watched
    /\ UNCHANGED <<sessions, lease, cancelled, interrupted, floor>>

\* All statements are done: the connection closes and the worker returns.
TaskDone(s) ==
    /\ task[s] = "between"
    /\ task' = [task EXCEPT ![s] = "none"]
    /\ watched' = watched \ {s}
    /\ UNCHANGED <<sessions, lease, cancelled, interrupted, floor>>

\* ENTRY_RETENTION passes over a session.  Searches end long before that, so
\* none of the client's leases is left over from before.
SessionAges(c) ==
    /\ c \in DOMAIN sessions /\ ~sessions[c].aged
    /\ \A s \in Searches : Keyed(s) => lease[s].client # c
    /\ sessions' = Aged(sessions, c)
    /\ UNCHANGED <<lease, task, cancelled, watched, interrupted, floor>>

SessionsNext ==
    \/ \E s \in Searches, c \in Clients, g \in Generations, l \in Lanes : Begin(s, c, g, l)
    \/ \E c \in Clients, g \in Generations : CancelSession(c, g)
    \/ \E c \in Clients : SessionAges(c)
    \/ \E s \in Searches :
        \/ BeginUnkeyed(s) \/ DropLease(s) \/ TaskStarts(s) \/ Register(s)
        \/ StatementStarts(s) \/ StatementEnds(s) \/ TaskDone(s)

SessionsSpec == SessionsInit /\ [][SessionsNext]_sessionVars

-----------------------------------------------------------------------------
(* Safety.                                                                  *)

Live(s) == Keyed(s) /\ s \notin cancelled

\* begin cancels the search that had the lane: however leases are dropped and
\* lanes taken over, a client never has two searches of a lane running.
OneLivePerLane ==
    \A s, t \in Searches : s # t /\ Live(s) /\ Live(t) =>
        lease[s].client # lease[t].client \/ lease[s].lane # lease[t].lane

\* "Ordering belongs to the search service": no search of a generation that
\* was overtaken or cancelled is running, in whatever order requests arrive.
SupersededSearchesStop ==
    \A s \in Searches : Live(s) => lease[s].generation >= floor[lease[s].client]

\* "cancellation between statements must also be observed by future
\* statements": a statement of a cancelled search is always stopped.
NoDeafStatement ==
    \A s \in cancelled : task[s] = "statement" => s \in interrupted \/ s \in watched

\* Of the searches of a client only the newest of each lane, and none of an
\* overtaken generation, goes on: in whatever order requests, cancellations,
\* dropped leases and statements come, and wherever between two statements the
\* flag is set (SearchSessions, SearchCancellation).
SearchesObey == OneLivePerLane /\ SupersededSearchesStop /\ NoDeafStatement

-----------------------------------------------------------------------------
(* The inductive invariant of the proofs.                                   *)

IsLanes(lanes) ==
    /\ DOMAIN lanes \subseteq Lanes
    /\ \A l \in DOMAIN lanes : lanes[l] \in [request : Nat, search : Searches]
IsSession(session) ==
    /\ DOMAIN session = {"generation", "closed", "lanes", "next", "aged"}
    /\ session.generation \in Nat /\ session.closed \in BOOLEAN /\ IsLanes(session.lanes)
    /\ session.next \in Nat /\ session.aged \in BOOLEAN
KeyedLease == [client : Clients, lane : Lanes, request : Nat, generation : Nat]

SessionsTypeOK ==
    /\ DOMAIN sessions \subseteq Clients /\ \A c \in DOMAIN sessions : IsSession(sessions[c])
    /\ lease \in [Searches -> {NoLease, [client |-> "unkeyed"]} \cup KeyedLease]
    /\ task \in [Searches -> {"none", "queued", "opening", "between", "statement"}]
    /\ floor \in [Clients -> Nat]

\* A session outlives the leases it gave, and numbered each of them.
LeasesNumbered ==
    \A s \in Searches : Keyed(s) =>
        /\ lease[s].client \in DOMAIN sessions
        /\ ~sessions[lease[s].client].aged
        /\ lease[s].request <= sessions[lease[s].client].next

RequestsDistinct ==
    \A s, t \in Searches : s # t /\ Keyed(s) /\ Keyed(t) /\ lease[s].client = lease[t].client =>
        lease[s].request # lease[t].request

\* A search that was not cancelled holds its lane, in the generation it began with.
LiveHoldsLane ==
    \A s \in Searches : Live(s) =>
        LET session == sessions[lease[s].client] IN
        /\ ~session.closed /\ session.generation = lease[s].generation
        /\ lease[s].lane \in DOMAIN session.lanes
        /\ session.lanes[lease[s].lane] = [request |-> lease[s].request, search |-> s]

\* The oldest generation a session still lets in; one that was swept refuses nothing.
Oldest(session) == IF session.closed THEN session.generation + 1 ELSE session.generation
FloorInv ==
    \A c \in Clients : IF c \in DOMAIN sessions THEN floor[c] <= Oldest(sessions[c]) ELSE floor[c] = 0

StatementsWatched == \A s \in Searches : task[s] \in {"between", "statement"} => s \in watched

SessionsInv ==
    /\ SessionsTypeOK /\ LeasesNumbered /\ RequestsDistinct /\ LiveHoldsLane /\ FloorInv
    /\ StatementsWatched
===============================================================================
