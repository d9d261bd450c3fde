---------------------------- MODULE ServicesProofs ----------------------------
(***************************************************************************)
(* Theorems about the services of the server.                               *)
(* Searches of interactive clients: only the newest search of a lane goes   *)
(* on, none of an overtaken generation, and no statement of a cancelled      *)
(* search runs unwatched.                                                    *)
(* Model slots: one provider for all sessions of a process, one build per   *)
(* slot, sessions that stay while they are used.                             *)
(* Thumbnails: a variant has one owner and one decode, a row is never older  *)
(* than its fingerprint, what is acknowledged was committed, and a sweep     *)
(* takes only what was replaced.                                             *)
(* Inspections: features are of a version from the row asked about to the   *)
(* file.                                                                    *)
(* Progress: a job is in its stage or loads a model for it, and its rate is *)
(* over the window, from samples that are few.                              *)
(***************************************************************************)
EXTENDS SearchSessions, ModelSlots, ThumbnailFlights, PatchCache, JobProgress,
        FiniteSetTheorems, SequenceTheorems, WellFoundedInduction, TLAPS

(* Searches.                                                                 *)

\* A keyed lease names its client, lane, request and generation.
LEMMA KeyedHasFields ==
    ASSUME SessionsTypeOK, NEW s \in Searches, Keyed(s)
    PROVE  /\ lease[s] \in KeyedLease
           /\ lease[s].client \in Clients /\ lease[s].lane \in Lanes
           /\ lease[s].request \in Nat /\ lease[s].generation \in Nat
<1>1. lease[s] \in KeyedLease
  BY DEF SessionsTypeOK, Keyed
<1> QED BY <1>1 DEF KeyedLease

\* A lease of a client is keyed.
LEMMA LeaseIsKeyed ==
    ASSUME NEW held \in KeyedLease
    PROVE  held # NoLease /\ held.client # "unkeyed"
BY SessionsAssumption DEF KeyedLease, NoLease

\* A sweep drops sessions or leaves them alone; it drops none that has leases.
LEMMA SweptSessions ==
    ASSUME SessionsInv
    PROVE  /\ DOMAIN KeptSessions \subseteq DOMAIN sessions
           /\ \A c \in DOMAIN KeptSessions : KeptSessions[c] = sessions[c]
           /\ \A s \in Searches : Keyed(s) => lease[s].client \in DOMAIN KeptSessions
BY DEF SessionsInv, LeasesNumbered, KeptSessions, Sweep, Restrict

\* What a new session is like.
LEMMA NewSessionIsOpen ==
    /\ IsSession(NewSession) /\ NewSession.generation = 0 /\ ~NewSession.closed /\ NewSession.next = 0
    /\ DOMAIN NewSession.lanes = {}
BY DEF NewSession, IsSession, IsLanes, NoEntries

\* The entry of a client is a session that refuses what was overtaken.
LEMMA SessionOfClient ==
    ASSUME SessionsInv, NEW c \in Clients
    PROVE  /\ IsSession(SessionOf(c))
           /\ KeptFloor \in [Clients -> Nat]
           /\ KeptFloor[c] <= Oldest(SessionOf(c))
           /\ c \notin DOMAIN KeptSessions => KeptFloor[c] = 0
           /\ c \in DOMAIN KeptSessions => SessionOf(c) = sessions[c] /\ KeptFloor[c] = floor[c]
<1>1. floor \in [Clients -> Nat] /\ \A k \in DOMAIN sessions : IsSession(sessions[k])
  BY DEF SessionsInv, SessionsTypeOK
<1>2. KeptFloor \in [Clients -> Nat]
  BY <1>1 DEF KeptFloor
<1>3. CASE c \in DOMAIN KeptSessions
  <2>1. SessionOf(c) = sessions[c] /\ c \in DOMAIN sessions
    BY <1>3, SweptSessions DEF SessionOf
  <2>2. KeptFloor[c] = floor[c]
    BY <1>3 DEF KeptFloor
  <2> QED BY <1>1, <1>2, <1>3, <2>1, <2>2 DEF SessionsInv, FloorInv
<1>4. CASE c \notin DOMAIN KeptSessions
  <2>1. SessionOf(c) = NewSession
    BY <1>4 DEF SessionOf
  <2>2. KeptFloor[c] = 0
    BY <1>4 DEF KeptFloor, SessionsInv, FloorInv
  <2> QED BY <1>2, <1>4, <2>1, <2>2, NewSessionIsOpen DEF Oldest
<1> QED BY <1>3, <1>4

\* A session that is swept, inserted or updated for one client leaves those of
\* the others that have leases alone.
LEMMA OthersUntouched ==
    ASSUME SessionsInv, NEW c \in Clients, NEW x, IsSession(x), sessions' = Insert(KeptSessions, c, x)
    PROVE  /\ sessions'[c] = x /\ c \in DOMAIN sessions'
           /\ DOMAIN sessions' \subseteq Clients
           /\ \A k \in DOMAIN sessions' : IsSession(sessions'[k])
           /\ \A k \in DOMAIN sessions' \ {c} : k \in DOMAIN KeptSessions /\ sessions'[k] = sessions[k]
           /\ \A s \in Searches : Keyed(s) /\ lease[s].client # c =>
                lease[s].client \in DOMAIN sessions' /\ sessions'[lease[s].client] = sessions[lease[s].client]
<1>1. DOMAIN sessions' = DOMAIN KeptSessions \cup {c}
  BY DEF Insert
<1>2. \A k \in DOMAIN KeptSessions \ {c} : sessions'[k] = KeptSessions[k]
  BY DEF Insert
<1>3. sessions'[c] = x
  BY DEF Insert
<1>4. DOMAIN sessions \subseteq Clients /\ \A k \in DOMAIN sessions : IsSession(sessions[k])
  BY DEF SessionsInv, SessionsTypeOK
<1>5. \A k \in DOMAIN sessions' \ {c} : k \in DOMAIN KeptSessions /\ sessions'[k] = sessions[k]
  BY <1>1, <1>2, SweptSessions
<1>6. \A k \in DOMAIN sessions' : IsSession(sessions'[k])
  BY <1>3, <1>4, <1>5, SweptSessions
<1> QED BY <1>1, <1>3, <1>4, <1>5, <1>6, SweptSessions

\* The session of an accepted search.
LEMMA AcceptedSession ==
    ASSUME NEW old, IsSession(old), NEW g \in Nat, NEW l \in Lanes, NEW s \in Searches, ~Superseded(old, g)
    PROVE  /\ IsSession(LaneGiven(Renewed(old, g), l, s))
           /\ LaneGiven(Renewed(old, g), l, s).generation = g
           /\ ~LaneGiven(Renewed(old, g), l, s).closed
           /\ ~LaneGiven(Renewed(old, g), l, s).aged
           /\ LaneGiven(Renewed(old, g), l, s).next = old.next + 1
           /\ l \in DOMAIN LaneGiven(Renewed(old, g), l, s).lanes
           /\ LaneGiven(Renewed(old, g), l, s).lanes[l] = [request |-> old.next + 1, search |-> s]
           /\ \A k \in DOMAIN old.lanes \ {l} :
                 g = old.generation => /\ k \in DOMAIN LaneGiven(Renewed(old, g), l, s).lanes
                                       /\ LaneGiven(Renewed(old, g), l, s).lanes[k] = old.lanes[k]
<1> DEFINE base == Renewed(old, g)
           entry == [request |-> old.next + 1, search |-> s]
           x == LaneGiven(base, l, s)
<1>1. g >= old.generation /\ (g = old.generation => ~old.closed)
  BY DEF Superseded, IsSession
<1> DEFINE lanes == IF g > old.generation THEN NoEntries ELSE old.lanes
           fields == {"generation", "closed", "lanes", "next", "aged"}
<1>2. /\ DOMAIN base = fields
      /\ base.generation = g /\ ~base.closed /\ base.closed \in BOOLEAN
      /\ base.lanes = lanes /\ base.next = old.next /\ base.aged = old.aged
  <2>1. CASE g > old.generation
    <3>1. /\ DOMAIN ClosedSession(old) = fields /\ ClosedSession(old).lanes = NoEntries
          /\ ClosedSession(old).next = old.next /\ ClosedSession(old).aged = old.aged
      BY DEF ClosedSession, IsSession
    <3> QED BY <2>1, <3>1 DEF Renewed
  <2>2. CASE ~(g > old.generation)
    <3>1. g = old.generation
      BY <1>1, <2>2 DEF IsSession
    <3> QED BY <1>1, <2>2, <3>1 DEF IsSession, Renewed
  <2> QED BY <2>1, <2>2
<1> HIDE DEF base
<1>3. IsLanes(lanes)
  BY DEF IsLanes, NoEntries, IsSession
<1>4. entry \in [request : Nat, search : Searches]
  BY <1>2 DEF IsSession
<1> HIDE DEF entry, lanes
<1>5. /\ l \in DOMAIN Insert(lanes, l, entry) /\ Insert(lanes, l, entry)[l] = entry
      /\ \A k \in DOMAIN lanes \ {l} : k \in DOMAIN Insert(lanes, l, entry) /\ Insert(lanes, l, entry)[k] = lanes[k]
      /\ IsLanes(Insert(lanes, l, entry))
  BY <1>3, <1>4 DEF Insert, IsLanes
<1>6. /\ DOMAIN x = fields /\ x.generation = g /\ ~x.closed /\ x.closed \in BOOLEAN
      /\ ~x.aged /\ x.aged \in BOOLEAN /\ x.next = old.next + 1 /\ x.lanes = Insert(lanes, l, entry)
  BY <1>2 DEF LaneGiven, entry
<1>7. \A k \in DOMAIN old.lanes \ {l} :
        g = old.generation => k \in DOMAIN x.lanes /\ x.lanes[k] = old.lanes[k]
  BY <1>5, <1>6 DEF lanes, IsSession
<1>8. IsSession(x)
  BY <1>5, <1>6 DEF IsSession
<1>9. l \in DOMAIN x.lanes /\ x.lanes[l] = entry
  BY <1>5, <1>6
<1> HIDE DEF x
<1> QED BY <1>6, <1>7, <1>8, <1>9 DEF base, entry, x

-----------------------------------------------------------------------------

\* A step that puts x in the place of the session of c respects the floors,
\* when the floor of c respects x.
LEMMA FloorsKept ==
    ASSUME SessionsInv, NEW c \in Clients, NEW x, IsSession(x), sessions' = Insert(KeptSessions, c, x),
           \A k \in Clients \ {c} : floor'[k] = KeptFloor[k],
           floor'[c] <= Oldest(x)
    PROVE  FloorInv'
<1> SUFFICES ASSUME NEW k \in Clients
             PROVE  IF k \in DOMAIN sessions' THEN floor'[k] <= Oldest(sessions'[k]) ELSE floor'[k] = 0
  BY DEF FloorInv, Oldest
<1>1. CASE k = c
  BY <1>1, OthersUntouched
<1>2. CASE k # c /\ k \in DOMAIN sessions'
  <2>1. k \in DOMAIN KeptSessions /\ sessions'[k] = sessions[k]
    BY <1>2, OthersUntouched
  <2>2. SessionOf(k) = sessions[k] /\ KeptFloor[k] <= Oldest(SessionOf(k))
    BY <2>1, SessionOfClient
  <2>3. floor'[k] = KeptFloor[k]
    BY <1>2
  <2> QED BY <1>2, <2>1, <2>2, <2>3
<1>3. CASE k # c /\ k \notin DOMAIN sessions'
  <2>1. k \notin DOMAIN KeptSessions
    BY <1>3 DEF Insert
  <2> QED BY <1>3, <2>1, SessionOfClient
<1> QED BY <1>1, <1>2, <1>3

\* A search that begins takes its lane, above every number given before.
LEMMA AcceptKeepsInv ==
    ASSUME SessionsInv, NEW s \in Searches, NEW c \in Clients, NEW g \in Generations, NEW l \in Lanes,
           Begin(s, c, g, l), Room(c), ~Superseded(SessionOf(c), g)
    PROVE  SessionsInv'
<1> DEFINE old == SessionOf(c)
           entry == [request |-> old.next + 1, search |-> s]
           held == [client |-> c, lane |-> l, request |-> old.next + 1, generation |-> g]
<1>1. IsSession(old) /\ g \in Nat
  BY SessionOfClient, SessionsAssumption
<1>2. old.generation \in Nat /\ old.next \in Nat /\ old.closed \in BOOLEAN
  BY <1>1 DEF IsSession
<1>3. PICK x : /\ sessions' = Insert(KeptSessions, c, x)
               /\ IsSession(x) /\ x.generation = g /\ ~x.closed /\ ~x.aged /\ x.next = old.next + 1
               /\ l \in DOMAIN x.lanes /\ x.lanes[l] = entry
               /\ \A k \in DOMAIN old.lanes \ {l} :
                     g = old.generation => k \in DOMAIN x.lanes /\ x.lanes[k] = old.lanes[k]
               /\ lease' = [lease EXCEPT ![s] = held]
  <2> DEFINE y == LaneGiven(Renewed(old, g), l, s)
  <2>1. /\ IsSession(y) /\ y.generation = g /\ ~y.closed /\ ~y.aged /\ y.next = old.next + 1
        /\ l \in DOMAIN y.lanes /\ y.lanes[l] = entry
        /\ \A k \in DOMAIN old.lanes \ {l} :
              g = old.generation => k \in DOMAIN y.lanes /\ y.lanes[k] = old.lanes[k]
    BY <1>1, AcceptedSession
  <2>2. /\ sessions' = Insert(KeptSessions, c, y)
        /\ lease' = [lease EXCEPT ![s] = [client |-> c, lane |-> l, request |-> y.next, generation |-> g]]
    BY DEF Begin
  <2> HIDE DEF y
  <2> QED BY <2>1, <2>2
<1>4. /\ task' = [task EXCEPT ![s] = "queued"]
      /\ cancelled' = (cancelled \cup Displaced(old, g, l)) \ {s}
      /\ floor' = [KeptFloor EXCEPT ![c] = IF g > @ THEN g ELSE @]
      /\ watched' = watched /\ lease[s] = NoLease /\ task[s] = "none"
  BY DEF Begin, IdleSearch
<1>5. held \in KeyedLease
  BY <1>1, <1>2 DEF KeyedLease
<1>6. held # NoLease /\ held.client # "unkeyed"
  BY <1>5, LeaseIsKeyed
<1>7. /\ lease \in [Searches -> {NoLease, [client |-> "unkeyed"]} \cup KeyedLease]
      /\ task \in [Searches -> {"none", "queued", "opening", "between", "statement"}]
  BY DEF SessionsInv, SessionsTypeOK
<1>8. /\ lease'[s] = held /\ Keyed(s)'
      /\ \A t \in Searches \ {s} : lease'[t] = lease[t] /\ (Keyed(t)' <=> Keyed(t)) /\ task'[t] = task[t]
  <2> HIDE DEF held
  <2> QED BY <1>3, <1>4, <1>6, <1>7 DEF Keyed
<1>9. c \in DOMAIN sessions' /\ sessions'[c] = x
  BY <1>3, OthersUntouched
<1>10. \A t \in Searches : Keyed(t) /\ lease[t].client # c =>
         lease[t].client \in DOMAIN sessions' /\ sessions'[lease[t].client] = sessions[lease[t].client]
  BY <1>3, OthersUntouched
<1>11. \A t \in Searches : Keyed(t) /\ lease[t].client = c =>
         old = sessions[c] /\ lease[t].request \in Nat /\ lease[t].request <= old.next
  <2> SUFFICES ASSUME NEW t \in Searches, Keyed(t), lease[t].client = c
               PROVE  old = sessions[c] /\ lease[t].request \in Nat /\ lease[t].request <= old.next
    OBVIOUS
  <2>1. old = sessions[c]
    BY SweptSessions, SessionOfClient
  <2>2. lease[t].request <= sessions[c].next
    BY DEF SessionsInv, LeasesNumbered
  <2> QED BY <2>1, <2>2, KeyedHasFields DEF SessionsInv
<1>12. KeptFloor \in [Clients -> Nat] /\ KeptFloor[c] <= Oldest(old)
  BY SessionOfClient
<1> HIDE DEF old
<1>13. SessionsTypeOK'
  <2>1. lease' \in [Searches -> {NoLease, [client |-> "unkeyed"]} \cup KeyedLease]
    BY <1>3, <1>5, <1>7
  <2>2. task' \in [Searches -> {"none", "queued", "opening", "between", "statement"}]
    BY <1>4, <1>7
  <2>3. floor' \in [Clients -> Nat]
    BY <1>1, <1>4, <1>12
  <2>4. DOMAIN sessions' \subseteq Clients /\ \A k \in DOMAIN sessions' : IsSession(sessions'[k])
    BY <1>3, OthersUntouched
  <2> QED BY <2>1, <2>2, <2>3, <2>4 DEF SessionsTypeOK, IsSession, IsLanes
<1>14. LeasesNumbered'
  <2> SUFFICES ASSUME NEW t \in Searches, Keyed(t)'
               PROVE  /\ lease'[t].client \in DOMAIN sessions'
                      /\ ~sessions'[lease'[t].client].aged
                      /\ lease'[t].request <= sessions'[lease'[t].client].next
    BY DEF LeasesNumbered
  <2>1. CASE t = s
    BY <1>2, <1>3, <1>8, <1>9, <2>1
  <2>2. CASE t # s /\ lease[t].client = c
    BY <1>2, <1>3, <1>8, <1>9, <1>11, <2>2
  <2>3. CASE t # s /\ lease[t].client # c
    BY <1>8, <1>10, <2>3 DEF SessionsInv, LeasesNumbered
  <2> QED BY <2>1, <2>2, <2>3
<1>15. RequestsDistinct'
  <2> SUFFICES ASSUME NEW t \in Searches, NEW u \in Searches, t # u, Keyed(t)', Keyed(u)',
                      lease'[t].client = lease'[u].client
               PROVE  lease'[t].request # lease'[u].request
    BY DEF RequestsDistinct
  <2>1. CASE t = s
    BY <1>2, <1>8, <1>11, <2>1
  <2>2. CASE u = s
    BY <1>2, <1>8, <1>11, <2>2
  <2>3. CASE t # s /\ u # s
    BY <1>8, <2>3 DEF SessionsInv, RequestsDistinct
  <2> QED BY <2>1, <2>2, <2>3
<1>16. LiveHoldsLane'
  <2> SUFFICES ASSUME NEW t \in Searches, Live(t)'
               PROVE  LET session == sessions'[lease'[t].client] IN
                      /\ ~session.closed /\ session.generation = lease'[t].generation
                      /\ lease'[t].lane \in DOMAIN session.lanes
                      /\ session.lanes[lease'[t].lane] = [request |-> lease'[t].request, search |-> t]
    BY DEF LiveHoldsLane
  <2>1. Keyed(t)' /\ t \notin cancelled'
    BY DEF Live
  <2>2. CASE t = s
    BY <1>3, <1>8, <1>9, <2>2
  <2>3. CASE t # s
    <3>1. Live(t) /\ t \notin Displaced(old, g, l)
      BY <1>4, <1>8, <2>1, <2>3 DEF Live
    <3>2. LET session == sessions[lease[t].client] IN
          /\ ~session.closed /\ session.generation = lease[t].generation
          /\ lease[t].lane \in DOMAIN session.lanes
          /\ session.lanes[lease[t].lane] = [request |-> lease[t].request, search |-> t]
      BY <3>1 DEF SessionsInv, LiveHoldsLane
    <3>3. CASE lease[t].client # c
      BY <1>8, <1>10, <2>3, <3>1, <3>2, <3>3 DEF Live
    <3>4. CASE lease[t].client = c
      <4>1. /\ old = sessions[c] /\ lease[t].lane \in DOMAIN old.lanes
            /\ old.lanes[lease[t].lane].search = t /\ old.generation = lease[t].generation
            /\ old.lanes[lease[t].lane] = [request |-> lease[t].request, search |-> t]
        BY <1>11, <3>1, <3>2, <3>4 DEF Live
      <4>2. ~(g > old.generation) /\ lease[t].lane # l
        BY <3>1, <4>1 DEF Displaced, InFlight
      <4>3. g = old.generation
        BY <1>1, <1>2, <4>2 DEF Superseded, old
      <4>4. lease[t].lane \in DOMAIN x.lanes /\ x.lanes[lease[t].lane] = old.lanes[lease[t].lane]
        BY <1>3, <4>1, <4>2, <4>3
      <4> QED BY <1>3, <1>8, <1>9, <2>3, <3>4, <4>1, <4>3, <4>4
    <3> QED BY <3>3, <3>4
  <2> QED BY <2>2, <2>3
<1>17. FloorInv'
  <2>1. Oldest(x) = g
    BY <1>3 DEF Oldest
  <2>2. Oldest(old) <= g
    BY <1>1, <1>2 DEF Oldest, Superseded, old
  <2>3. floor'[c] <= Oldest(x)
    <3>1. Oldest(old) \in Nat
      BY <1>2 DEF Oldest
    <3> QED BY <1>1, <1>4, <1>12, <2>1, <2>2, <3>1
  <2>4. \A k \in Clients \ {c} : floor'[k] = KeptFloor[k]
    BY <1>4, <1>12
  <2> QED BY <1>3, <2>3, <2>4, FloorsKept
<1>18. StatementsWatched'
  BY <1>4, <1>7 DEF SessionsInv, StatementsWatched
<1> QED BY <1>13, <1>14, <1>15, <1>16, <1>17, <1>18 DEF SessionsInv

\* Nothing but the sweep happens to the sessions, and searches may be cancelled.
LEMMA SweepKeepsInv ==
    ASSUME SessionsInv, sessions' = KeptSessions, floor' = KeptFloor, UNCHANGED <<lease, task, watched>>,
           cancelled \subseteq cancelled'
    PROVE  SessionsInv'
<1>1. /\ DOMAIN KeptSessions \subseteq DOMAIN sessions
      /\ \A k \in DOMAIN KeptSessions : KeptSessions[k] = sessions[k]
      /\ \A s \in Searches : Keyed(s) => lease[s].client \in DOMAIN KeptSessions
  BY SweptSessions
<1>2. \A s \in Searches : (Keyed(s)' <=> Keyed(s)) /\ (Live(s)' => Live(s)) /\ lease'[s] = lease[s]
  BY DEF Keyed, Live
<1>3. SessionsTypeOK'
  <2>1. floor' \in [Clients -> Nat]
    <3>1. floor \in [Clients -> Nat]
      BY DEF SessionsInv, SessionsTypeOK
    <3> QED BY <3>1 DEF KeptFloor
  <2>2. DOMAIN sessions' \subseteq Clients /\ \A k \in DOMAIN sessions' : IsSession(sessions'[k])
    BY <1>1 DEF SessionsInv, SessionsTypeOK
  <2> QED BY <2>1, <2>2 DEF SessionsInv, SessionsTypeOK, IsSession, IsLanes
<1>4. LeasesNumbered' /\ RequestsDistinct'
  BY <1>1, <1>2 DEF SessionsInv, LeasesNumbered, RequestsDistinct
<1>5. LiveHoldsLane'
  <2> SUFFICES ASSUME NEW s \in Searches, Live(s)'
               PROVE  LET session == sessions'[lease'[s].client] IN
                      /\ ~session.closed /\ session.generation = lease'[s].generation
                      /\ lease'[s].lane \in DOMAIN session.lanes
                      /\ session.lanes[lease'[s].lane] = [request |-> lease'[s].request, search |-> s]
    BY DEF LiveHoldsLane
  <2>1. Live(s) /\ sessions'[lease[s].client] = sessions[lease[s].client] /\ lease'[s] = lease[s]
    BY <1>1, <1>2 DEF Live
  <2> QED BY <2>1 DEF SessionsInv, LiveHoldsLane
<1>6. FloorInv'
  <2> SUFFICES ASSUME NEW k \in Clients
               PROVE  IF k \in DOMAIN sessions' THEN floor'[k] <= Oldest(sessions'[k]) ELSE floor'[k] = 0
    BY DEF FloorInv, Oldest
  <2>1. CASE k \in DOMAIN sessions'
    <3>1. floor'[k] = floor[k] /\ k \in DOMAIN sessions /\ sessions'[k] = sessions[k]
      BY <1>1, <2>1 DEF KeptFloor
    <3> QED BY <2>1, <3>1 DEF SessionsInv, FloorInv
  <2>2. CASE k \notin DOMAIN sessions'
    BY <2>2, SessionOfClient
  <2> QED BY <2>1, <2>2
<1>7. StatementsWatched'
  BY DEF SessionsInv, StatementsWatched
<1> QED BY <1>3, <1>4, <1>5, <1>6, <1>7 DEF SessionsInv

\* The session of a client is looked at, or closed and its searches cancelled.
LEMMA UpdateKeepsInv ==
    ASSUME SessionsInv, NEW c \in Clients, NEW x, IsSession(x), sessions' = Insert(KeptSessions, c, x),
           x.next = SessionOf(c).next, x.aged => SessionOf(c).aged,
           UNCHANGED <<lease, task, watched>>, cancelled \subseteq cancelled',
           \/ /\ x.generation = SessionOf(c).generation /\ x.closed = SessionOf(c).closed
              /\ x.lanes = SessionOf(c).lanes
           \/ InFlight(SessionOf(c)) \subseteq cancelled',
           floor' \in [Clients -> Nat],
           \A k \in Clients \ {c} : floor'[k] = KeptFloor[k],
           floor'[c] <= Oldest(x)
    PROVE  SessionsInv'
<1> DEFINE old == SessionOf(c)
<1>1. \A s \in Searches : (Keyed(s)' <=> Keyed(s)) /\ (Live(s)' => Live(s)) /\ lease'[s] = lease[s]
  BY DEF Keyed, Live
<1>2. c \in DOMAIN sessions' /\ sessions'[c] = x
  BY OthersUntouched
<1>3. \A t \in Searches : Keyed(t) /\ lease[t].client # c =>
         lease[t].client \in DOMAIN sessions' /\ sessions'[lease[t].client] = sessions[lease[t].client]
  BY OthersUntouched
<1>4. \A t \in Searches : Keyed(t) /\ lease[t].client = c => old = sessions[c]
  BY SweptSessions, SessionOfClient
<1> HIDE DEF old
<1>5. SessionsTypeOK'
  <2>1. DOMAIN sessions' \subseteq Clients /\ \A k \in DOMAIN sessions' : IsSession(sessions'[k])
    BY OthersUntouched
  <2> QED BY <2>1 DEF SessionsInv, SessionsTypeOK, IsSession, IsLanes
<1>6. LeasesNumbered'
  <2> SUFFICES ASSUME NEW t \in Searches, Keyed(t)
               PROVE  /\ lease[t].client \in DOMAIN sessions'
                      /\ ~sessions'[lease[t].client].aged
                      /\ lease[t].request <= sessions'[lease[t].client].next
    BY <1>1 DEF LeasesNumbered
  <2>1. ~sessions[lease[t].client].aged /\ lease[t].request <= sessions[lease[t].client].next
    BY DEF SessionsInv, LeasesNumbered
  <2>2. CASE lease[t].client = c
    BY <1>2, <1>4, <2>1, <2>2 DEF old
  <2>3. CASE lease[t].client # c
    BY <1>3, <2>1, <2>3
  <2> QED BY <2>2, <2>3
<1>7. RequestsDistinct'
  BY <1>1 DEF SessionsInv, RequestsDistinct
<1>8. LiveHoldsLane'
  <2> SUFFICES ASSUME NEW t \in Searches, Live(t)'
               PROVE  LET session == sessions'[lease'[t].client] IN
                      /\ ~session.closed /\ session.generation = lease'[t].generation
                      /\ lease'[t].lane \in DOMAIN session.lanes
                      /\ session.lanes[lease'[t].lane] = [request |-> lease'[t].request, search |-> t]
    BY DEF LiveHoldsLane
  <2>1. Live(t) /\ Keyed(t) /\ t \notin cancelled' /\ lease'[t] = lease[t]
    BY <1>1 DEF Live
  <2>2. LET session == sessions[lease[t].client] IN
        /\ ~session.closed /\ session.generation = lease[t].generation
        /\ lease[t].lane \in DOMAIN session.lanes
        /\ session.lanes[lease[t].lane] = [request |-> lease[t].request, search |-> t]
    BY <2>1 DEF SessionsInv, LiveHoldsLane
  <2>3. CASE lease[t].client # c
    BY <1>3, <2>1, <2>2, <2>3
  <2>4. CASE lease[t].client = c
    <3>1. old = sessions[c]
      BY <1>4, <2>1, <2>4
    <3>2. t \in InFlight(old)
      BY <2>2, <2>4, <3>1 DEF InFlight
    <3>3. x.generation = old.generation /\ x.closed = old.closed /\ x.lanes = old.lanes
      BY <2>1, <3>2 DEF old
    <3> QED BY <1>2, <2>1, <2>2, <2>4, <3>1, <3>3
  <2> QED BY <2>3, <2>4
<1>9. FloorInv'
  BY FloorsKept
<1>10. StatementsWatched'
  BY DEF SessionsInv, StatementsWatched
<1> QED BY <1>5, <1>6, <1>7, <1>8, <1>9, <1>10 DEF SessionsInv

\* A search that is refused leaves the sessions swept, or its own looked at.
LEMMA RefuseKeepsInv ==
    ASSUME SessionsInv, NEW s \in Searches, NEW c \in Clients, NEW g \in Generations, NEW l \in Lanes,
           Begin(s, c, g, l), ~(Room(c) /\ ~Superseded(SessionOf(c), g))
    PROVE  SessionsInv'
<1>1. /\ sessions' = IF Room(c) THEN Insert(KeptSessions, c, SessionOf(c)) ELSE KeptSessions
      /\ floor' = KeptFloor /\ UNCHANGED <<lease, task, watched, cancelled>>
  BY DEF Begin
<1>2. CASE Room(c)
  <2>1. /\ IsSession(SessionOf(c)) /\ KeptFloor \in [Clients -> Nat]
        /\ KeptFloor[c] <= Oldest(SessionOf(c))
    BY SessionOfClient
  <2> QED BY <1>1, <1>2, <2>1, UpdateKeepsInv
<1>3. CASE ~Room(c)
  BY <1>1, <1>3, SweepKeepsInv
<1> QED BY <1>2, <1>3

\* A cancellation through a generation closes the session and its searches, or
\* comes too late and only touches it.
LEMMA CancelKeepsInv ==
    ASSUME SessionsInv, NEW c \in Clients, NEW through \in Generations, CancelSession(c, through)
    PROVE  SessionsInv'
<1> DEFINE old == SessionOf(c)
<1>1. /\ IsSession(old) /\ KeptFloor \in [Clients -> Nat] /\ KeptFloor[c] <= Oldest(old) /\ through \in Nat
  BY SessionOfClient, SessionsAssumption
<1>2. UNCHANGED <<lease, task, watched>>
  BY DEF CancelSession
<1>3. CASE ~Room(c)
  BY <1>2, <1>3, SweepKeepsInv DEF CancelSession, CancelAll
<1>4. CASE Room(c) /\ old.generation <= through
  <2> DEFINE x == [ClosedSession(old) EXCEPT !.generation = through, !.aged = FALSE]
  <2>1. /\ sessions' = Insert(KeptSessions, c, x) /\ floor' = [KeptFloor EXCEPT ![c] = through + 1]
        /\ cancelled \subseteq cancelled' /\ InFlight(old) \subseteq cancelled'
    BY <1>4 DEF CancelSession, CancelAll
  <2> HIDE DEF old
  <2>2. /\ DOMAIN ClosedSession(old) = {"generation", "closed", "lanes", "next", "aged"}
        /\ ClosedSession(old).lanes = NoEntries /\ ClosedSession(old).next = old.next /\ ClosedSession(old).closed
        /\ ClosedSession(old).closed \in BOOLEAN
    BY <1>1 DEF ClosedSession, IsSession
  <2>3. /\ DOMAIN x = {"generation", "closed", "lanes", "next", "aged"} /\ x.generation = through
        /\ x.closed /\ x.closed \in BOOLEAN /\ x.lanes = NoEntries /\ x.next = old.next
        /\ ~x.aged /\ x.aged \in BOOLEAN
    BY <2>2
  <2> HIDE DEF x
  <2>4. IsSession(x)
    BY <1>1, <2>3 DEF IsSession, IsLanes, NoEntries
  <2>5. Oldest(x) = through + 1
    BY <2>3 DEF Oldest
  <2>6. /\ floor' \in [Clients -> Nat] /\ floor'[c] <= Oldest(x)
        /\ \A k \in Clients \ {c} : floor'[k] = KeptFloor[k]
    BY <1>1, <2>1, <2>5
  <2> QED BY <1>2, <2>1, <2>3, <2>4, <2>6, UpdateKeepsInv DEF old
<1>5. CASE Room(c) /\ ~(old.generation <= through)
  <2> DEFINE x == [old EXCEPT !.aged = FALSE]
  <2>1. sessions' = Insert(KeptSessions, c, x) /\ floor' = KeptFloor /\ cancelled \subseteq cancelled'
    BY <1>5 DEF CancelSession, CancelAll
  <2> HIDE DEF old
  <2>2. /\ DOMAIN x = {"generation", "closed", "lanes", "next", "aged"} /\ x.generation = old.generation
        /\ x.closed = old.closed /\ x.lanes = old.lanes /\ x.next = old.next /\ ~x.aged /\ x.aged \in BOOLEAN
    BY <1>1 DEF IsSession
  <2> HIDE DEF x
  <2>3. IsSession(x) /\ Oldest(x) = Oldest(old)
    BY <1>1, <2>2 DEF IsSession, Oldest
  <2> QED BY <1>1, <1>2, <2>1, <2>2, <2>3, UpdateKeepsInv DEF old
<1> QED BY <1>3, <1>4, <1>5

\* A lease that ends frees its lane only where no newer search has taken it.
LEMMA DropKeepsInv ==
    ASSUME SessionsInv, NEW s \in Searches, DropLease(s)
    PROVE  SessionsInv'
<1>1. /\ lease' = [lease EXCEPT ![s] = NoLease] /\ cancelled' = cancelled \cup {s}
      /\ UNCHANGED <<task, watched, floor>> /\ lease[s] # NoLease
  BY DEF DropLease, CancelAll
<1>2. /\ lease \in [Searches -> {NoLease, [client |-> "unkeyed"]} \cup KeyedLease]
      /\ DOMAIN sessions \subseteq Clients /\ \A k \in DOMAIN sessions : IsSession(sessions[k])
  BY DEF SessionsInv, SessionsTypeOK
<1>3. /\ lease'[s] = NoLease /\ ~Keyed(s)' /\ lease' \in [Searches -> {NoLease, [client |-> "unkeyed"]} \cup KeyedLease]
      /\ \A t \in Searches \ {s} : lease'[t] = lease[t] /\ (Keyed(t)' <=> Keyed(t)) /\ (Live(t)' => Live(t))
  BY <1>1, <1>2 DEF Keyed, Live
<1>4. StatementsWatched'
  BY <1>1 DEF SessionsInv, StatementsWatched
<1>5. RequestsDistinct'
  BY <1>3 DEF SessionsInv, RequestsDistinct
<1>6. CASE ~Keyed(s)
  <2>1. sessions' = sessions
    BY <1>6 DEF DropLease
  <2>2. SessionsTypeOK'
    BY <1>1, <1>3, <2>1 DEF SessionsInv, SessionsTypeOK, IsSession, IsLanes
  <2>3. LeasesNumbered' /\ LiveHoldsLane'
    BY <1>3, <2>1 DEF SessionsInv, LeasesNumbered, LiveHoldsLane, Live
  <2>4. FloorInv'
    BY <1>1, <2>1 DEF SessionsInv, FloorInv, Oldest
  <2> QED BY <1>4, <1>5, <2>2, <2>3, <2>4 DEF SessionsInv
<1>7. CASE Keyed(s)
  <2> DEFINE c == lease[s].client
             session == sessions[c]
             lanes == IF OwnsLane(session, lease[s]) THEN Freed(session, lease[s].lane) ELSE session.lanes
  <2>1. c \in DOMAIN sessions /\ IsSession(session)
    BY <1>2, <1>7 DEF SessionsInv, LeasesNumbered
  <2>2. sessions' = [sessions EXCEPT ![c].aged = FALSE, ![c].lanes = lanes]
    BY <1>7, <2>1 DEF DropLease
  <2> HIDE DEF lanes, c
  <2>3. /\ DOMAIN sessions' = DOMAIN sessions
        /\ \A k \in DOMAIN sessions \ {c} : sessions'[k] = sessions[k]
        /\ sessions'[c].generation = session.generation /\ sessions'[c].closed = session.closed
        /\ sessions'[c].next = session.next /\ ~sessions'[c].aged /\ sessions'[c].aged \in BOOLEAN
        /\ sessions'[c].lanes = lanes
        /\ DOMAIN sessions'[c] = {"generation", "closed", "lanes", "next", "aged"}
    BY <2>1, <2>2 DEF IsSession
  <2>4. IsLanes(lanes)
    BY <2>1 DEF lanes, Freed, IsLanes, IsSession
  <2>5. IsSession(sessions'[c]) /\ Oldest(sessions'[c]) = Oldest(session)
    BY <2>1, <2>3, <2>4 DEF IsSession, Oldest
  <2>6. SessionsTypeOK'
    <3>1. DOMAIN sessions' \subseteq Clients /\ \A k \in DOMAIN sessions' : IsSession(sessions'[k])
      BY <1>2, <2>3, <2>5
    <3> QED BY <1>1, <1>3, <3>1 DEF SessionsInv, SessionsTypeOK, IsSession, IsLanes
  <2>7. LeasesNumbered'
    BY <1>3, <2>1, <2>3 DEF SessionsInv, LeasesNumbered
  <2>8. FloorInv'
    <3> SUFFICES ASSUME NEW k \in Clients
                 PROVE  IF k \in DOMAIN sessions' THEN floor'[k] <= Oldest(sessions'[k]) ELSE floor'[k] = 0
      BY DEF FloorInv, Oldest
    <3>1. IF k \in DOMAIN sessions THEN floor[k] <= Oldest(sessions[k]) ELSE floor[k] = 0
      BY DEF SessionsInv, FloorInv
    <3> QED BY <1>1, <2>1, <2>3, <2>5, <3>1
  <2>9. LiveHoldsLane'
    <3> SUFFICES ASSUME NEW t \in Searches, Live(t)'
                 PROVE  LET after == sessions'[lease'[t].client] IN
                        /\ ~after.closed /\ after.generation = lease'[t].generation
                        /\ lease'[t].lane \in DOMAIN after.lanes
                        /\ after.lanes[lease'[t].lane] = [request |-> lease'[t].request, search |-> t]
      BY DEF LiveHoldsLane
    <3>1. t # s /\ Live(t) /\ Keyed(t) /\ lease'[t] = lease[t]
      BY <1>3 DEF Live
    <3>2. LET before == sessions[lease[t].client] IN
          /\ ~before.closed /\ before.generation = lease[t].generation
          /\ lease[t].lane \in DOMAIN before.lanes
          /\ before.lanes[lease[t].lane] = [request |-> lease[t].request, search |-> t]
      BY <3>1 DEF SessionsInv, LiveHoldsLane
    <3>3. lease[t].client \in DOMAIN sessions
      BY <3>1 DEF SessionsInv, LeasesNumbered
    <3>4. CASE lease[t].client # c
      BY <2>3, <3>1, <3>2, <3>3, <3>4
    <3>5. CASE lease[t].client = c
      <4>1. lease[t].request # lease[s].request
        BY <1>7, <3>1, <3>5 DEF SessionsInv, RequestsDistinct, c
      <4>2. lease[t].lane \in DOMAIN lanes /\ lanes[lease[t].lane] = session.lanes[lease[t].lane]
        BY <3>2, <3>5, <4>1 DEF lanes, OwnsLane, Freed
      <4> QED BY <2>3, <3>1, <3>2, <3>5, <4>2
    <3> QED BY <3>4, <3>5
  <2> QED BY <1>4, <1>5, <2>6, <2>7, <2>8, <2>9 DEF SessionsInv
<1> QED BY <1>6, <1>7

\* A search without headers is no session's.
LEMMA UnkeyedKeepsInv ==
    ASSUME SessionsInv, NEW s \in Searches, BeginUnkeyed(s)
    PROVE  SessionsInv'
<1>1. /\ lease' = [lease EXCEPT ![s] = [client |-> "unkeyed"]] /\ cancelled' = cancelled \ {s}
      /\ task' = [task EXCEPT ![s] = "queued"] /\ UNCHANGED <<sessions, watched, floor>>
  BY DEF BeginUnkeyed
<1>2. /\ lease \in [Searches -> {NoLease, [client |-> "unkeyed"]} \cup KeyedLease]
      /\ task \in [Searches -> {"none", "queued", "opening", "between", "statement"}]
  BY DEF SessionsInv, SessionsTypeOK
<1>3. /\ lease'[s] = [client |-> "unkeyed"] /\ ~Keyed(s)'
      /\ \A t \in Searches \ {s} : lease'[t] = lease[t] /\ (Keyed(t)' <=> Keyed(t)) /\ (Live(t)' => Live(t))
  <2>1. lease'[s] = [client |-> "unkeyed"] /\ \A t \in Searches \ {s} : lease'[t] = lease[t]
    BY <1>1, <1>2
  <2> QED BY <1>1, <2>1 DEF Keyed, Live
<1>4. SessionsTypeOK'
  <2>1. /\ lease' \in [Searches -> {NoLease, [client |-> "unkeyed"]} \cup KeyedLease]
        /\ task' \in [Searches -> {"none", "queued", "opening", "between", "statement"}]
    BY <1>1, <1>2
  <2> QED BY <1>1, <2>1 DEF SessionsInv, SessionsTypeOK, IsSession, IsLanes
<1>5. LeasesNumbered' /\ RequestsDistinct'
  BY <1>1, <1>3 DEF SessionsInv, LeasesNumbered, RequestsDistinct
<1>6. LiveHoldsLane'
  BY <1>1, <1>3 DEF SessionsInv, LiveHoldsLane, Live
<1>7. FloorInv'
  BY <1>1 DEF SessionsInv, FloorInv, Oldest
<1>8. StatementsWatched'
  BY <1>1, <1>2 DEF SessionsInv, StatementsWatched
<1> QED BY <1>4, <1>5, <1>6, <1>7, <1>8 DEF SessionsInv

\* The blocking worker of a search: a connection has its progress handler
\* before the first statement.
LEMMA TaskKeepsInv ==
    ASSUME SessionsInv, NEW s \in Searches,
           TaskStarts(s) \/ Register(s) \/ StatementStarts(s) \/ StatementEnds(s) \/ TaskDone(s)
    PROVE  SessionsInv'
<1>1. UNCHANGED <<sessions, lease, cancelled, floor>>
  BY DEF TaskStarts, Register, StatementStarts, StatementEnds, TaskDone
<1>2. task \in [Searches -> {"none", "queued", "opening", "between", "statement"}]
  BY DEF SessionsInv, SessionsTypeOK
<1>3. /\ task' \in [Searches -> {"none", "queued", "opening", "between", "statement"}]
      /\ \A t \in Searches \ {s} : task'[t] = task[t] /\ (t \in watched' <=> t \in watched)
      /\ task'[s] \in {"between", "statement"} => s \in watched'
  <2>1. CASE TaskStarts(s)
    BY <1>2, <2>1 DEF TaskStarts
  <2>2. CASE Register(s)
    BY <1>2, <2>2 DEF Register, Watching
  <2>3. CASE StatementStarts(s)
    BY <1>2, <2>3 DEF StatementStarts, SessionsInv, StatementsWatched
  <2>4. CASE StatementEnds(s)
    BY <1>2, <2>4 DEF StatementEnds, SessionsInv, StatementsWatched
  <2>5. CASE TaskDone(s)
    BY <1>2, <2>5 DEF TaskDone
  <2> QED BY <2>1, <2>2, <2>3, <2>4, <2>5
<1>4. SessionsTypeOK'
  BY <1>1, <1>3 DEF SessionsInv, SessionsTypeOK, IsSession, IsLanes
<1>5. LeasesNumbered' /\ RequestsDistinct' /\ LiveHoldsLane'
  BY <1>1 DEF SessionsInv, LeasesNumbered, RequestsDistinct, LiveHoldsLane, Live, Keyed
<1>6. FloorInv'
  BY <1>1 DEF SessionsInv, FloorInv, Oldest
<1>7. StatementsWatched'
  BY <1>3 DEF SessionsInv, StatementsWatched
<1> QED BY <1>4, <1>5, <1>6, <1>7 DEF SessionsInv

\* Only a session without leases passes its retention.
LEMMA AgeKeepsInv ==
    ASSUME SessionsInv, NEW c \in Clients, SessionAges(c)
    PROVE  SessionsInv'
<1>1. /\ c \in DOMAIN sessions /\ sessions' = [sessions EXCEPT ![c].aged = TRUE]
      /\ UNCHANGED <<lease, task, cancelled, watched, floor>>
      /\ \A s \in Searches : Keyed(s) => lease[s].client # c
  BY DEF SessionAges, Aged
<1>2. DOMAIN sessions \subseteq Clients /\ \A k \in DOMAIN sessions : IsSession(sessions[k])
  BY DEF SessionsInv, SessionsTypeOK
<1>3. /\ DOMAIN sessions' = DOMAIN sessions
      /\ \A k \in DOMAIN sessions \ {c} : sessions'[k] = sessions[k]
      /\ DOMAIN sessions'[c] = {"generation", "closed", "lanes", "next", "aged"}
      /\ sessions'[c].generation = sessions[c].generation /\ sessions'[c].closed = sessions[c].closed
      /\ sessions'[c].next = sessions[c].next /\ sessions'[c].aged \in BOOLEAN
      /\ sessions'[c].lanes = sessions[c].lanes
  BY <1>1, <1>2 DEF IsSession
<1>4. \A k \in DOMAIN sessions' : IsSession(sessions'[k]) /\ Oldest(sessions'[k]) = Oldest(sessions[k])
  BY <1>1, <1>2, <1>3 DEF IsSession, Oldest
<1>5. SessionsTypeOK'
  <2>1. DOMAIN sessions' \subseteq Clients /\ \A k \in DOMAIN sessions' : IsSession(sessions'[k])
    BY <1>2, <1>3, <1>4
  <2> QED BY <1>1, <2>1 DEF SessionsInv, SessionsTypeOK, IsSession, IsLanes
<1>6. LeasesNumbered' /\ RequestsDistinct' /\ LiveHoldsLane'
  <2>1. \A s \in Searches : (Keyed(s)' <=> Keyed(s)) /\ (Live(s)' <=> Live(s)) /\ lease'[s] = lease[s]
    BY <1>1 DEF Keyed, Live
  <2>2. \A s \in Searches : Keyed(s) =>
          lease[s].client \in DOMAIN sessions' /\ sessions'[lease[s].client] = sessions[lease[s].client]
    BY <1>1, <1>3 DEF SessionsInv, LeasesNumbered
  <2>3. LeasesNumbered' /\ RequestsDistinct'
    BY <2>1, <2>2 DEF SessionsInv, LeasesNumbered, RequestsDistinct
  <2>4. LiveHoldsLane'
    <3> SUFFICES ASSUME NEW s \in Searches, Live(s)'
                 PROVE  LET session == sessions'[lease'[s].client] IN
                        /\ ~session.closed /\ session.generation = lease'[s].generation
                        /\ lease'[s].lane \in DOMAIN session.lanes
                        /\ session.lanes[lease'[s].lane] = [request |-> lease'[s].request, search |-> s]
      BY DEF LiveHoldsLane
    <3>1. Live(s) /\ Keyed(s)
      BY <2>1 DEF Live
    <3> QED BY <2>1, <2>2, <3>1 DEF SessionsInv, LiveHoldsLane
  <2> QED BY <2>3, <2>4
<1>7. FloorInv'
  <2> SUFFICES ASSUME NEW k \in Clients
               PROVE  IF k \in DOMAIN sessions' THEN floor'[k] <= Oldest(sessions'[k]) ELSE floor'[k] = 0
    BY DEF FloorInv, Oldest
  <2> QED BY <1>1, <1>3, <1>4 DEF SessionsInv, FloorInv
<1>8. StatementsWatched'
  BY <1>1 DEF SessionsInv, StatementsWatched
<1> QED BY <1>5, <1>6, <1>7, <1>8 DEF SessionsInv

-----------------------------------------------------------------------------

\* The invariant of sessions holds at the start.
LEMMA SessionsStart == SessionsInit => SessionsInv
<1> SUFFICES ASSUME SessionsInit PROVE SessionsInv
  OBVIOUS
<1>1. SessionsTypeOK
  <2>1. DOMAIN sessions = {}
    BY DEF SessionsInit, NoEntries
  <2>2. /\ lease = [s \in Searches |-> NoLease] /\ task = [s \in Searches |-> "none"]
        /\ floor = [c \in Clients |-> 0]
    BY DEF SessionsInit
  <2> QED BY <2>1, <2>2 DEF SessionsTypeOK
<1>2. \A s \in Searches : ~Keyed(s)
  BY DEF SessionsInit, Keyed
<1> QED
  BY <1>1, <1>2 DEF SessionsInit, SessionsInv, LeasesNumbered, RequestsDistinct, LiveHoldsLane, Live, FloorInv,
                    StatementsWatched, NoEntries

\* Every step keeps it.
LEMMA SessionsStep == SessionsInv /\ [SessionsNext]_sessionVars => SessionsInv'
<1> SUFFICES ASSUME SessionsInv, [SessionsNext]_sessionVars
             PROVE  SessionsInv'
  OBVIOUS
<1>1. CASE UNCHANGED sessionVars
  BY <1>1 DEF sessionVars, SessionsInv, SessionsTypeOK, IsSession, IsLanes, LeasesNumbered, RequestsDistinct,
              LiveHoldsLane, Live, Keyed, FloorInv, Oldest, StatementsWatched
<1>2. ASSUME NEW s \in Searches, NEW c \in Clients, NEW g \in Generations, NEW l \in Lanes, Begin(s, c, g, l)
      PROVE  SessionsInv'
  BY <1>2, AcceptKeepsInv, RefuseKeepsInv
<1>3. ASSUME NEW c \in Clients, NEW g \in Generations, CancelSession(c, g)
      PROVE  SessionsInv'
  BY <1>3, CancelKeepsInv
<1>4. ASSUME NEW c \in Clients, SessionAges(c)
      PROVE  SessionsInv'
  BY <1>4, AgeKeepsInv
<1>5. ASSUME NEW s \in Searches, BeginUnkeyed(s) \/ DropLease(s)
      PROVE  SessionsInv'
  BY <1>5, UnkeyedKeepsInv, DropKeepsInv
<1>6. ASSUME NEW s \in Searches,
             TaskStarts(s) \/ Register(s) \/ StatementStarts(s) \/ StatementEnds(s) \/ TaskDone(s)
      PROVE  SessionsInv'
  BY <1>6, TaskKeepsInv
<1> QED BY <1>1, <1>2, <1>3, <1>4, <1>5, <1>6 DEF SessionsNext

\* What is cancelled is a search: lanes hold nothing else.
LEMMA CancelledStep ==
    ASSUME SessionsInv, cancelled \subseteq Searches, [SessionsNext]_sessionVars
    PROVE  cancelled' \subseteq Searches
<1>1. \A c \in Clients : InFlight(SessionOf(c)) \subseteq Searches
  <2> TAKE c \in Clients
  <2>1. IsLanes(SessionOf(c).lanes)
    BY SessionOfClient DEF IsSession
  <2> QED BY <2>1 DEF IsLanes, InFlight
<1>2. ASSUME NEW s \in Searches, NEW c \in Clients, NEW g \in Generations, NEW l \in Lanes, Begin(s, c, g, l)
      PROVE  cancelled' \subseteq Searches
  <2>1. Displaced(SessionOf(c), g, l) \subseteq InFlight(SessionOf(c))
    BY DEF Displaced, InFlight
  <2>2. cancelled' \subseteq cancelled \cup Displaced(SessionOf(c), g, l)
    BY <1>2 DEF Begin
  <2> QED BY <1>1, <2>1, <2>2
<1>3. ASSUME NEW c \in Clients, NEW g \in Generations, CancelSession(c, g)
      PROVE  cancelled' \subseteq Searches
  <2>1. cancelled' \subseteq cancelled \cup InFlight(SessionOf(c))
    BY <1>3 DEF CancelSession, CancelAll
  <2> QED BY <1>1, <2>1
<1>4. ASSUME NEW s \in Searches, BeginUnkeyed(s) \/ DropLease(s)
      PROVE  cancelled' \subseteq Searches
  BY <1>4 DEF BeginUnkeyed, DropLease, CancelAll
<1>5. ASSUME NEW s \in Searches,
             TaskStarts(s) \/ Register(s) \/ StatementStarts(s) \/ StatementEnds(s) \/ TaskDone(s)
      PROVE  cancelled' \subseteq Searches
  BY <1>5 DEF TaskStarts, Register, StatementStarts, StatementEnds, TaskDone
<1>6. ASSUME NEW c \in Clients, SessionAges(c)
      PROVE  cancelled' \subseteq Searches
  BY <1>6 DEF SessionAges
<1>7. CASE UNCHANGED sessionVars
  BY <1>7 DEF sessionVars
<1> QED BY <1>2, <1>3, <1>4, <1>5, <1>6, <1>7 DEF SessionsNext

\* A lane has one entry, so one search that goes on; its generation is the
\* session's, which the floor has not passed; and its statements are watched.
LEMMA InvObeys ==
    ASSUME SessionsInv, cancelled \subseteq Searches
    PROVE  SearchesObey
<1>1. OneLivePerLane
  <2> SUFFICES ASSUME NEW s \in Searches, NEW t \in Searches, s # t, Live(s), Live(t),
                      lease[s].client = lease[t].client, lease[s].lane = lease[t].lane
               PROVE  FALSE
    BY DEF OneLivePerLane
  <2> DEFINE entry == sessions[lease[s].client].lanes[lease[s].lane]
  <2>1. /\ entry = [request |-> lease[s].request, search |-> s]
        /\ entry = [request |-> lease[t].request, search |-> t]
    BY DEF SessionsInv, LiveHoldsLane
  <2> HIDE DEF entry
  <2> QED BY <2>1
<1>2. SupersededSearchesStop
  <2> SUFFICES ASSUME NEW s \in Searches, Live(s)
               PROVE  lease[s].generation >= floor[lease[s].client]
    BY DEF SupersededSearchesStop
  <2>1. lease[s].client \in Clients /\ lease[s].generation \in Nat
    BY KeyedHasFields DEF SessionsInv, Live
  <2>2. /\ lease[s].client \in DOMAIN sessions
        /\ ~sessions[lease[s].client].closed /\ sessions[lease[s].client].generation = lease[s].generation
    BY DEF SessionsInv, LeasesNumbered, LiveHoldsLane, Live
  <2>3. floor[lease[s].client] <= lease[s].generation /\ floor[lease[s].client] \in Nat
    BY <2>1, <2>2 DEF SessionsInv, SessionsTypeOK, FloorInv, Oldest
  <2> QED BY <2>1, <2>3
<1>3. NoDeafStatement
  BY DEF SessionsInv, StatementsWatched, NoDeafStatement
<1> QED BY <1>1, <1>2, <1>3 DEF SearchesObey

\* The invariant of sessions is one.
THEOREM SessionsInvariant == SessionsSpec => []SessionsInv
BY SessionsStart, SessionsStep, PTL DEF SessionsSpec

\* For any number of clients, lanes and searches, and in whatever order
\* requests, cancellations, dropped leases and statements come: one search of a
\* lane goes on, none of a generation that was overtaken or cancelled, and a
\* statement of a cancelled search is always stopped (SearchSessions::begin and
\* cancel, SearchLease::drop, SearchCancellation::register).
THEOREM SearchesAlwaysObey == SessionsSpec => []SearchesObey
<1>1. SessionsInit => cancelled \subseteq Searches
  BY DEF SessionsInit
<1>2. SessionsInv /\ cancelled \subseteq Searches /\ [SessionsNext]_sessionVars => (cancelled \subseteq Searches)'
  BY CancelledStep
<1>3. SessionsInv /\ cancelled \subseteq Searches => SearchesObey
  BY InvObeys
<1> QED BY <1>1, <1>2, <1>3, SessionsInvariant, PTL DEF SessionsSpec

-----------------------------------------------------------------------------
(* The model slots.                                                          *)

USE SlotsAssumption

\* The fields of a user in each of its states.
LEMMA UserShape ==
    ASSUME NEW r \in SlotUser
    PROVE  /\ r.pc \in {"idle", "gate", "using", "fetch", "options", "load", "accept", "publish"}
           /\ r.pc # "idle" => r.slot \in Slots
           /\ r.pc \in {"options", "load", "accept", "publish"} => r.previous \in SlotStates
           /\ r.pc = "load" => r.options \subseteq Providers
           /\ r.pc = "accept" => r.result \in Providers
           /\ r.pc = "publish" => r.result \in Providers \cup {"missing", "cancelled", "failed"}
BY DEF SlotUser

LEMMA UserMade ==
    /\ Idle \in SlotUser
    /\ \A s \in Slots, pc \in {"gate", "using", "fetch"} : [pc |-> pc, slot |-> s] \in SlotUser
    /\ \A s \in Slots, p \in SlotStates :
          /\ [pc |-> "options", slot |-> s, previous |-> p] \in SlotUser
          /\ \A o \in SUBSET Providers :
                [pc |-> "load", slot |-> s, previous |-> p, options |-> o] \in SlotUser
          /\ \A x \in Providers :
                [pc |-> "accept", slot |-> s, previous |-> p, result |-> x] \in SlotUser
          /\ \A x \in Providers \cup {"missing", "cancelled", "failed"} :
                [pc |-> "publish", slot |-> s, previous |-> p, result |-> x] \in SlotUser
BY DEF SlotUser, Idle

LEMMA UserTyped ==
    ASSUME SlotsTypeOK, NEW u \in Users PROVE user[u] \in SlotUser
BY DEF SlotsTypeOK

\* A session and a result of a build are on providers, which NoProvider is not.
LEMMA NoProviderIsNone == NoProvider \notin Providers
BY DEF NoProvider, Providers

SlotRecord == [state : SlotStates, session : Providers \cup {NoProvider}, idle : BOOLEAN]

\* A slot whose session is dropped is a slot.
LEMMA SessionGone ==
    ASSUME NEW f \in [Slots -> SlotRecord], NEW s \in Slots
    PROVE  LET g == [f EXCEPT ![s].session = NoProvider, ![s].idle = FALSE] IN
           /\ g \in [Slots -> SlotRecord]
           /\ \A x \in Slots : /\ g[x].state = f[x].state
                               /\ g[x].session = IF x = s THEN NoProvider ELSE f[x].session
<1> DEFINE n == [f[s] EXCEPT !.session = NoProvider, !.idle = FALSE]
           g == [f EXCEPT ![s].session = NoProvider, ![s].idle = FALSE]
<1>1. f[s] \in SlotRecord
  OBVIOUS
<1>2. \A r \in SlotRecord :
         LET e == [r EXCEPT !.session = NoProvider, !.idle = FALSE] IN
         e \in SlotRecord /\ e.state = r.state /\ e.session = NoProvider
  <2> DEFINE P == Providers \cup {NoProvider}
  <2> SUFFICES ASSUME NEW r \in [state : SlotStates, session : P, idle : BOOLEAN]
               PROVE  LET e == [r EXCEPT !.session = NoProvider, !.idle = FALSE] IN
                      /\ e \in [state : SlotStates, session : P, idle : BOOLEAN]
                      /\ e.state = r.state /\ e.session = NoProvider
    BY DEF SlotRecord
  <2> NoProvider \in P
    OBVIOUS
  <2> HIDE DEF P
  <2> QED
    OBVIOUS
<1>3. n \in SlotRecord /\ n.state = f[s].state /\ n.session = NoProvider
  BY <1>1, <1>2, Zenon
<1>4. g = [f EXCEPT ![s] = n]
  OBVIOUS
<1> HIDE DEF n, g
<1>5. g \in [Slots -> SlotRecord]
  BY <1>3, <1>4
<1>6. \A x \in Slots : g[x] = IF x = s THEN n ELSE f[x]
  BY <1>4
<1> QED
  BY <1>3, <1>5, <1>6 DEF g

RuntimeRecord == [up : BOOLEAN, active : Providers, provider : Providers,
                  working : SUBSET Providers, loaded : Providers \cup {NoProvider}]

\* What the first accepted result makes of the settings in memory.
Known(f, p) == [f EXCEPT !.working = f.working \cup {p}, !.loaded = p]
Loaded(f, p) == [f EXCEPT !.loaded = p]
Moved(f, p) == [f EXCEPT !.provider = "openvino", !.loaded = p]

LEMMA RuntimeSettled ==
    ASSUME NEW f \in RuntimeRecord, NEW p \in Providers
    PROVE  /\ Known(f, p) \in RuntimeRecord /\ Known(f, p).up = f.up
           /\ Known(f, p).loaded = p /\ Known(f, p).active = f.active
           /\ Loaded(f, p) \in RuntimeRecord /\ Loaded(f, p).up = f.up
           /\ Loaded(f, p).loaded = p /\ Loaded(f, p).active = f.active
           /\ Moved(f, p) \in RuntimeRecord /\ Moved(f, p).up = f.up
           /\ Moved(f, p).loaded = p /\ Moved(f, p).active = f.active
           /\ Loaded(f, p).working = f.working /\ Moved(f, p).working = f.working
<1> DEFINE P == Providers \cup {NoProvider}
           w == f.working \cup {p}
           Record == [up : BOOLEAN, active : Providers, provider : Providers,
                      working : SUBSET Providers, loaded : P]
<1>0. f \in Record /\ p \in P /\ w \in SUBSET Providers /\ "openvino" \in Providers
  BY DEF RuntimeRecord, Providers
<1>5. Record = RuntimeRecord /\ Known(f, p) = [f EXCEPT !.working = w, !.loaded = p]
  BY DEF RuntimeRecord, Known
<1> HIDE DEF P, w
<1>1. /\ Known(f, p) \in Record /\ Known(f, p).up = f.up
      /\ Known(f, p).loaded = p /\ Known(f, p).active = f.active
  BY <1>0, <1>5
<1>2. /\ Loaded(f, p) \in Record /\ Loaded(f, p).up = f.up
      /\ Loaded(f, p).loaded = p /\ Loaded(f, p).active = f.active
  BY <1>0 DEF Loaded
<1>3. /\ Moved(f, p) \in Record /\ Moved(f, p).up = f.up
      /\ Moved(f, p).loaded = p /\ Moved(f, p).active = f.active
  BY <1>0 DEF Moved
<1>4. Loaded(f, p).working = f.working /\ Moved(f, p).working = f.working
  BY <1>0 DEF Loaded, Moved
<1> HIDE DEF Record
<1> QED
  BY <1>1, <1>2, <1>3, <1>4, <1>5

\* No step but a build makes a failed slot usable.
FailureKept ==
    runtime.up /\ runtime'.up => \A s \in Slots :
        slots[s].state = "failed" => slots'[s].state \in {"failed", "preparing"}

\* One user moves, and no build begins or ends, no session comes or goes.
LEMMA UserMoves ==
    ASSUME SlotsInv, NEW u \in Users, NEW r \in SlotUser, user' = [user EXCEPT ![u] = r],
           gate' = gate, UNCHANGED <<runtime, saved>>,
           slots' \in [Slots -> [state : SlotStates, session : Providers \cup {NoProvider}, idle : BOOLEAN]],
           \A s \in Slots : /\ slots'[s].session = slots[s].session
                            /\ slots'[s].state = "preparing" <=> slots[s].state = "preparing",
           r.pc \in {"options", "load", "accept", "publish"} <=> Building(u),
           Building(u) => r.slot = user[u].slot,
           r.pc = "publish" /\ r.result \in Providers => r.result = runtime.loaded,
           runtime.up \/ user[u].pc # "idle",
           runtime.loaded = NoProvider /\ runtime.active \in runtime.working =>
              /\ r.pc = "load" => r.options \subseteq {runtime.active}
              /\ r.pc = "accept" => r.result = runtime.active,
           r.pc = "using" => slots[r.slot].session # NoProvider
    PROVE  SlotsInv'
<1>t. user \in [Users -> SlotUser] /\ \A v \in Users : user[v] \in SlotUser
  BY DEF SlotsInv, SlotsTypeOK
<1>0. user'[u] = r /\ \A v \in Users : v # u => user'[v] = user[v]
  BY <1>t
<1>1. SlotsTypeOK'
  BY <1>t DEF SlotsInv, SlotsTypeOK
<1>2. \A v \in Users : /\ Building(v)' <=> Building(v)
                       /\ Building(v) => user'[v].slot = user[v].slot
  BY <1>0 DEF Building
<1>3. GateInv'
  BY <1>2 DEF SlotsInv, SlotsTypeOK, GateInv
<1>4. ResultInv' /\ OptionsInv'
  BY <1>0 DEF SlotsInv, ResultInv, OptionsInv
<1>5. ProvidersNeverMix' /\ WorkingProviderKept'
  BY DEF SlotsInv, ProvidersNeverMix, WorkingProviderKept
<1>6. OneSessionPerSlot'
  <2>1. \A v \in Users : Building(v) => user[v].slot \in Slots
    BY <1>t, UserShape DEF Building
  <2> QED
    BY <1>2, <2>1 DEF SlotsInv, OneSessionPerSlot
<1>7. HeldSessionsStay'
  <2>1. \A v \in Users : user'[v].pc = "using" => user'[v].slot \in Slots
    BY <1>1, UserShape DEF SlotsTypeOK
  <2> QED
    BY <1>0, <2>1 DEF SlotsInv, HeldSessionsStay
<1>8. DownInv'
  BY DEF SlotsInv, DownInv
<1> QED
  BY <1>1, <1>3, <1>4, <1>5, <1>6, <1>7, <1>8 DEF SlotsInv

\* Nobody moves, and no session comes or goes.
LEMMA NobodyMoves ==
    ASSUME SlotsInv, UNCHANGED <<user, gate, slots>>,
           saved' \in [provider : Providers \cup {NoProvider}, working : SUBSET Providers],
           runtime' \in [up : BOOLEAN, active : Providers, provider : Providers,
                         working : SUBSET Providers, loaded : Providers \cup {NoProvider}],
           runtime'.loaded = runtime.loaded, runtime'.active = runtime.active,
           runtime'.working = runtime.working, runtime'.up = runtime.up
    PROVE  SlotsInv'
BY DEF SlotsInv, SlotsTypeOK, DownInv, GateInv, Building, ResultInv, OptionsInv, ProvidersNeverMix,
       WorkingProviderKept, OneSessionPerSlot, HeldSessionsStay

-----------------------------------------------------------------------------
(* The process.                                                             *)

LEMMA NewSlotType ==
    /\ NewSlot \in [state : SlotStates, session : Providers \cup {NoProvider}, idle : BOOLEAN]
    /\ Down \in [up : BOOLEAN, active : Providers, provider : Providers,
                 working : SUBSET Providers, loaded : Providers \cup {NoProvider}]
BY DEF NewSlot, Down, SlotStates, NoProvider

\* A process begins with nothing loaded and nobody at work.
LEMMA FreshProcess ==
    ASSUME SlotsTypeOK', slots' = [s \in Slots |-> NewSlot], gate' = [s \in Slots |-> NoUser],
           user' = [u \in Users |-> Idle], runtime'.loaded = NoProvider
    PROVE  SlotsInv'
BY DEF SlotsInv, DownInv, GateInv, Building, ResultInv, OptionsInv, ProvidersNeverMix,
       WorkingProviderKept, OneSessionPerSlot, HeldSessionsStay, NewSlot, Idle

LEMMA SlotsInitial == SlotsInit => SlotsInv
<1> SUFFICES ASSUME SlotsInit PROVE SlotsInv
  OBVIOUS
<1>1. SlotsTypeOK
  BY NewSlotType, UserMade DEF SlotsInit, SlotsTypeOK
<1> QED
  BY <1>1 DEF SlotsInit, SlotsInv, DownInv, GateInv, Building, ResultInv, OptionsInv, ProvidersNeverMix,
     WorkingProviderKept, OneSessionPerSlot, HeldSessionsStay, NewSlot, Idle, Down

LEMMA ProcessEndsKeeps ==
    ASSUME SlotsInv, ProcessEnds PROVE SlotsInv' /\ FailureKept
<1>1. SlotsTypeOK'
  BY NewSlotType, UserMade DEF ProcessEnds, SlotsTypeOK, SlotsInv
<1>2. runtime'.loaded = NoProvider /\ ~runtime'.up
  BY DEF ProcessEnds, Down
<1> QED
  BY <1>1, <1>2, FreshProcess DEF ProcessEnds, FailureKept

LEMMA BootKeeps ==
    ASSUME SlotsInv, Boot PROVE SlotsInv' /\ FailureKept
<1>0. ~runtime.up /\ UNCHANGED <<slots, gate, user>>
  BY DEF Boot
<1>1. Chosen \in Providers
  BY DEF Chosen
<1>2. SlotsTypeOK' /\ runtime'.loaded = NoProvider
  BY <1>1 DEF Boot, SlotsTypeOK, SlotsInv
<1>3. runtime.loaded = NoProvider /\ \A u \in Users : user[u].pc = "idle"
  BY <1>0 DEF SlotsInv, DownInv
<1> QED
  BY <1>0, <1>2, <1>3 DEF SlotsInv, DownInv, GateInv, Building, ResultInv, OptionsInv,
     ProvidersNeverMix, WorkingProviderKept, OneSessionPerSlot, HeldSessionsStay, FailureKept

LEMMA RuntimeKeeps ==
    ASSUME SlotsInv, NEW p \in Providers, UpdateRuntime(p) PROVE SlotsInv' /\ FailureKept
<1>1. /\ UNCHANGED <<user, gate, slots>>
      /\ saved' = [provider |-> p, working |-> runtime.working]
      /\ runtime' = [runtime EXCEPT !.provider = p, !.working = runtime.working]
  BY DEF UpdateRuntime, Persist
<1>2. saved' \in [provider : Providers \cup {NoProvider}, working : SUBSET Providers]
  BY <1>1 DEF SlotsInv, SlotsTypeOK
<1>3. /\ runtime' \in [up : BOOLEAN, active : Providers, provider : Providers,
                       working : SUBSET Providers, loaded : Providers \cup {NoProvider}]
      /\ runtime'.loaded = runtime.loaded /\ runtime'.active = runtime.active
      /\ runtime'.working = runtime.working /\ runtime'.up = runtime.up
  BY <1>1 DEF SlotsInv, SlotsTypeOK
<1> QED
  BY <1>1, <1>2, <1>3, NobodyMoves DEF FailureKept

-----------------------------------------------------------------------------
(* The users of a slot.                                                     *)

\* A user that asks, gives up, or is done.
LEMMA PrepareKeeps ==
    ASSUME SlotsInv, NEW u \in Users, NEW s \in Slots, PrepareBegins(u, s)
    PROVE  SlotsInv' /\ FailureKept
<1>t. SlotsTypeOK
  BY DEF SlotsInv
<1>0. runtime.up /\ user[u].pc = "idle" /\ UNCHANGED <<gate, runtime, saved>>
  BY DEF PrepareBegins
<1>1. CASE u \in stopped
  BY <1>0, <1>1, NobodyMoves, <1>t DEF PrepareBegins, SlotsTypeOK, FailureKept
<1>2. CASE u \notin stopped /\ slots[s].session # NoProvider
  <2> DEFINE r == [pc |-> "using", slot |-> s]
  <2>1. user' = [user EXCEPT ![u] = r] /\ slots' = [slots EXCEPT ![s].idle = FALSE]
    BY <1>2 DEF PrepareBegins, Use
  <2>2. r \in SlotUser /\ r.pc = "using" /\ r.slot = s
    BY UserMade
  <2>3. /\ slots' \in [Slots -> [state : SlotStates, session : Providers \cup {NoProvider}, idle : BOOLEAN]]
        /\ \A x \in Slots : slots'[x].session = slots[x].session /\ slots'[x].state = slots[x].state
    BY <1>t, <2>1 DEF SlotsTypeOK
  <2> HIDE DEF r
  <2>4. SlotsInv'
    BY <1>0, <1>2, <2>1, <2>2, <2>3, UserMoves DEF Building
  <2> QED
    BY <2>3, <2>4 DEF FailureKept
<1>3. CASE u \notin stopped /\ slots[s].session = NoProvider
  <2> DEFINE r == [pc |-> "gate", slot |-> s]
  <2>1. user' = [user EXCEPT ![u] = r] /\ slots' = slots
    BY <1>3 DEF PrepareBegins
  <2>2. r \in SlotUser /\ r.pc = "gate" /\ r.slot = s
    BY UserMade
  <2> HIDE DEF r
  <2>4. SlotsInv'
    BY <1>t, <1>0, <2>1, <2>2, UserMoves DEF Building, SlotsTypeOK
  <2> QED
    BY <2>1, <2>4 DEF FailureKept
<1> QED
  BY <1>1, <1>2, <1>3

LEMMA EnsureKeeps ==
    ASSUME SlotsInv, NEW u \in Users, NEW s \in Slots, EnsureBegins(u, s)
    PROVE  SlotsInv' /\ FailureKept
<1> DEFINE r == [pc |-> "fetch", slot |-> s]
<1>0. /\ runtime.up /\ user[u].pc = "idle" /\ UNCHANGED <<slots, gate, runtime, saved>>
      /\ user' = [user EXCEPT ![u] = r]
  BY DEF EnsureBegins
<1>1. r \in SlotUser /\ r.pc = "fetch" /\ r.slot = s
  BY UserMade
<1> HIDE DEF r
<1> QED
  BY <1>0, <1>1, UserMoves DEF Building, SlotsInv, SlotsTypeOK, FailureKept

LEMMA LeaveKeeps ==
    ASSUME SlotsInv, NEW u \in Users, Leave(u), ~Building(u), user[u].pc # "idle",
           UNCHANGED <<gate, runtime, saved>>,
           slots' \in [Slots -> [state : SlotStates, session : Providers \cup {NoProvider}, idle : BOOLEAN]],
           \A s \in Slots : /\ slots'[s].session = slots[s].session
                            /\ slots'[s].state = "preparing" <=> slots[s].state = "preparing"
    PROVE  SlotsInv'
<1>1. user' = [user EXCEPT ![u] = Idle] /\ Idle \in SlotUser /\ Idle.pc = "idle"
  BY UserMade DEF Leave, Idle
<1> QED
  BY <1>1, UserMoves

LEMMA FetchedKeeps ==
    ASSUME SlotsInv, NEW u \in Users, Fetched(u) PROVE SlotsInv' /\ FailureKept
<1>t. SlotsTypeOK
  BY DEF SlotsInv
<1> DEFINE s == user[u].slot
<1>0. user[u].pc = "fetch" /\ Leave(u) /\ UNCHANGED <<gate, runtime, saved>>
  BY DEF Fetched
<1>1. s \in Slots
  BY <1>t, <1>0, UserTyped, UserShape
<1>2. slots' = slots \/ MarkAvailable(s)
  BY DEF Fetched
<1> HIDE DEF s
<1>3. CASE slots' = slots
  BY <1>t, <1>0, <1>3, LeaveKeeps DEF Building, SlotsTypeOK, FailureKept
<1>4. CASE MarkAvailable(s)
  <2> DEFINE state == IF slots[s].state = "notLoaded" THEN "ready" ELSE slots[s].state
  <2>1. slots' = [slots EXCEPT ![s].state = state]
    BY <1>4 DEF MarkAvailable
  <2>2. state \in SlotStates
    BY <1>t, <1>1 DEF SlotsTypeOK, SlotStates
  <2>3. state = "preparing" <=> slots[s].state = "preparing"
    OBVIOUS
  <2>4. slots[s].state = "failed" => state = "failed"
    OBVIOUS
  <2> HIDE DEF state
  <2>5. /\ slots' \in [Slots -> [state : SlotStates, session : Providers \cup {NoProvider}, idle : BOOLEAN]]
        /\ \A x \in Slots : /\ slots'[x].session = slots[x].session
                            /\ slots'[x].state = IF x = s THEN state ELSE slots[x].state
    BY <1>t, <1>1, <2>1, <2>2 DEF SlotsTypeOK
  <2>6. SlotsInv'
    BY <1>0, <2>3, <2>5, LeaveKeeps DEF Building
  <2> QED
    BY <2>4, <2>5, <2>6 DEF FailureKept
<1> QED
  BY <1>2, <1>3, <1>4

\* The gate is passed, or taken for a build.
LEMMA GateKeeps ==
    ASSUME SlotsInv, NEW u \in Users, GateAcquired(u) PROVE SlotsInv' /\ FailureKept
<1>t. SlotsTypeOK
  BY DEF SlotsInv
<1> DEFINE s == user[u].slot
<1>0. user[u].pc = "gate" /\ gate[s] = NoUser /\ UNCHANGED <<runtime, saved>>
  BY DEF GateAcquired
<1>1. s \in Slots
  BY <1>t, <1>0, UserTyped, UserShape
<1>2. CASE u \in stopped
  BY <1>t, <1>0, <1>2, LeaveKeeps DEF GateAcquired, Building, SlotsTypeOK, FailureKept
<1>3. CASE u \notin stopped /\ SomeoneBuilt(s)
  <2> DEFINE r == [pc |-> "using", slot |-> s]
  <2>1. user' = [user EXCEPT ![u] = r] /\ slots' = [slots EXCEPT ![s].idle = FALSE] /\ gate' = gate
    BY <1>3 DEF GateAcquired, Use
  <2>2. r \in SlotUser /\ r.pc = "using" /\ r.slot = s
    BY <1>1, UserMade
  <2>3. /\ slots' \in [Slots -> [state : SlotStates, session : Providers \cup {NoProvider}, idle : BOOLEAN]]
        /\ \A x \in Slots : slots'[x].session = slots[x].session /\ slots'[x].state = slots[x].state
    BY <1>t, <1>1, <2>1 DEF SlotsTypeOK
  <2> HIDE DEF r
  <2>4. SlotsInv'
    BY <1>0, <1>3, <2>1, <2>2, <2>3, UserMoves DEF Building, SomeoneBuilt
  <2> QED
    BY <2>3, <2>4 DEF FailureKept
<1>4. CASE u \notin stopped /\ ~SomeoneBuilt(s)
  <2> DEFINE r == [pc |-> "options", slot |-> s, previous |-> slots[s].state]
  <2>1. /\ user' = [user EXCEPT ![u] = r] /\ slots' = [slots EXCEPT ![s].state = "preparing"]
        /\ gate' = [gate EXCEPT ![s] = u] /\ slots[s].session = NoProvider
    BY <1>4 DEF GateAcquired, SomeoneBuilt
  <2>2. r \in SlotUser /\ r.pc = "options" /\ r.slot = s
    BY <1>t, <1>1, UserMade DEF SlotsTypeOK
  <2> HIDE DEF r, s
  <2>3. /\ slots' \in [Slots -> [state : SlotStates, session : Providers \cup {NoProvider}, idle : BOOLEAN]]
        /\ \A x \in Slots : /\ slots'[x].session = slots[x].session
                            /\ slots'[x].state = IF x = s THEN "preparing" ELSE slots[x].state
    BY <1>t, <1>1, <2>1 DEF SlotsTypeOK, SlotStates
  <2>4. user'[u] = r /\ \A v \in Users : v # u => user'[v] = user[v]
    BY <1>t, <2>1 DEF SlotsTypeOK
  <2>5. \A x \in Slots : gate'[x] = IF x = s THEN u ELSE gate[x]
    BY <1>t, <2>1 DEF SlotsTypeOK
  <2>6. SlotsTypeOK'
    BY <1>t, <1>0, <1>1, <2>1, <2>2, <2>3 DEF SlotsTypeOK
  <2>7. \A v \in Users : Building(v)' <=> v = u \/ Building(v)
    BY <2>2, <2>4 DEF Building
  <2>8. ~Building(u) /\ \A v \in Users : Building(v) => user[v].slot \in Slots /\ user[v].slot # s
    <3>1. \A v \in Users : Building(v) => user[v].slot \in Slots /\ gate[user[v].slot] = v
      BY <1>t, UserTyped, UserShape DEF Building, SlotsInv, GateInv
    <3> QED
      BY <1>0, <3>1 DEF Building, s
  <2>9. GateInv'
    <3>0. u # NoUser
      OBVIOUS
    <3>1. \A v \in Users : Building(v)' => gate'[user'[v].slot] = v
      BY <1>1, <2>2, <2>4, <2>5, <2>7, <2>8 DEF SlotsInv, GateInv
    <3>2. \A x \in Slots, v \in Users : gate'[x] = v => Building(v)' /\ user'[v].slot = x
      <4> SUFFICES ASSUME NEW x \in Slots, NEW v \in Users, gate'[x] = v
                   PROVE  Building(v)' /\ user'[v].slot = x
        OBVIOUS
      <4>1. CASE x = s
        BY <4>1, <2>2, <2>4, <2>5, <2>7
      <4>2. CASE x # s
        <5>1. Building(v) /\ user[v].slot = x
          BY <4>2, <2>5 DEF SlotsInv, GateInv
        <5> QED
          BY <5>1, <2>4, <2>7, <2>8
      <4> QED
        BY <4>1, <4>2
    <3>3. \A x \in Slots : slots'[x].state = "preparing" <=> gate'[x] # NoUser
      BY <2>3, <2>5, <3>0 DEF SlotsInv, GateInv
    <3> QED
      BY <3>1, <3>2, <3>3 DEF GateInv
  <2>10. DownInv' /\ ResultInv' /\ OptionsInv'
    BY <1>0, <2>2, <2>4 DEF SlotsInv, DownInv, ResultInv, OptionsInv
  <2>11. ProvidersNeverMix' /\ WorkingProviderKept'
    BY <1>0, <2>3 DEF SlotsInv, ProvidersNeverMix, WorkingProviderKept
  <2>12. OneSessionPerSlot'
    BY <1>1, <2>1, <2>2, <2>3, <2>4, <2>7, <2>8 DEF SlotsInv, OneSessionPerSlot
  <2>13. HeldSessionsStay'
    <3>1. \A v \in Users : user[v].pc = "using" => user[v].slot \in Slots
      BY <1>t, UserTyped, UserShape
    <3> QED
      BY <2>2, <2>3, <2>4, <3>1 DEF SlotsInv, HeldSessionsStay
  <2> QED
    BY <2>3, <2>6, <2>9, <2>10, <2>11, <2>12, <2>13 DEF SlotsInv, FailureKept
<1> QED
  BY <1>2, <1>3, <1>4

-----------------------------------------------------------------------------
(* A build.                                                                 *)

\* The builder of a slot is alone, and finds it without a session.
LEMMA BuilderAlone ==
    ASSUME SlotsInv, NEW u \in Users, Building(u)
    PROVE  /\ user[u].slot \in Slots /\ gate[user[u].slot] = u
           /\ user[u].previous \in SlotStates /\ runtime.up
           /\ slots[user[u].slot].state = "preparing" /\ slots[user[u].slot].session = NoProvider
           /\ \A v \in Users : Building(v) /\ user[v].slot = user[u].slot => v = u
<1>1. user[u].slot \in Slots /\ user[u].previous \in SlotStates
  BY UserTyped, UserShape DEF Building, SlotsInv
<1>2. u # NoUser
  OBVIOUS
<1>3. gate[user[u].slot] = u /\ slots[user[u].slot].session = NoProvider
  BY DEF SlotsInv, GateInv, OneSessionPerSlot
<1>4. slots[user[u].slot].state = "preparing"
  BY <1>1, <1>2, <1>3 DEF SlotsInv, GateInv
<1>5. runtime.up
  BY DEF SlotsInv, DownInv, Building
<1>6. \A v \in Users : Building(v) /\ user[v].slot = user[u].slot => v = u
  BY <1>3 DEF SlotsInv, GateInv
<1> QED
  BY <1>1, <1>3, <1>4, <1>5, <1>6

LEMMA OptionsKeeps ==
    ASSUME SlotsInv, NEW u \in Users, OptionsRead(u) PROVE SlotsInv' /\ FailureKept
<1>t. SlotsTypeOK
  BY DEF SlotsInv
<1> DEFINE wanted == IF runtime.loaded = NoProvider THEN runtime.active ELSE runtime.loaded
           options == {wanted} \cup (IF FallbackAllowed THEN FallbackChain(wanted) ELSE {})
           r == [pc |-> "load", slot |-> user[u].slot, previous |-> user[u].previous,
                 options |-> options]
<1>0. /\ user[u].pc = "options" /\ UNCHANGED <<slots, gate, runtime, saved>>
      /\ user' = [user EXCEPT ![u] = r]
  BY DEF OptionsRead
<1>1. Building(u)
  BY <1>0 DEF Building
<1>2. user[u].slot \in Slots /\ user[u].previous \in SlotStates
  BY <1>1, BuilderAlone
<1>3. wanted \in Providers
  BY <1>t DEF SlotsTypeOK
<1>4. options \subseteq Providers
  BY <1>3 DEF FallbackChain, Providers
<1>5. runtime.loaded = NoProvider /\ runtime.active \in runtime.working =>
         options \subseteq {runtime.active}
  BY DEF FallbackAllowed
<1> HIDE DEF wanted, options
<1>6. /\ r \in SlotUser /\ r.pc = "load" /\ r.slot = user[u].slot /\ r.options = options
  BY <1>2, <1>4, UserMade
<1> HIDE DEF r
<1>7. SlotsInv'
  BY <1>t, <1>0, <1>1, <1>5, <1>6, UserMoves DEF Building, SlotsTypeOK
<1> QED
  BY <1>0, <1>7 DEF FailureKept

\* The loader returns with a provider from its options, or with none.
LEMMA LoadsKeeps ==
    ASSUME SlotsInv, NEW u \in Users, Loads(u) PROVE SlotsInv' /\ FailureKept
<1>t. SlotsTypeOK
  BY DEF SlotsInv
<1> DEFINE Accepting(p) == [pc |-> "accept", slot |-> user[u].slot,
                            previous |-> user[u].previous, result |-> p]
           Ending(x) == [pc |-> "publish", slot |-> user[u].slot,
                         previous |-> user[u].previous, result |-> x]
<1>0. user[u].pc = "load" /\ UNCHANGED <<slots, gate, runtime, saved>>
  BY DEF Loads
<1>1. Building(u) /\ user[u].options \subseteq Providers
  BY <1>t, <1>0, UserTyped, UserShape DEF Building
<1>2. user[u].slot \in Slots /\ user[u].previous \in SlotStates
  BY <1>1, BuilderAlone
<1>3. \/ \E p \in user[u].options : user' = [user EXCEPT ![u] = Accepting(p)]
      \/ \E x \in {"missing", "cancelled", "failed"} : user' = [user EXCEPT ![u] = Ending(x)]
  BY DEF Loads, Finished
<1>4. SlotsInv'
  <2>1. ASSUME NEW p \in user[u].options, user' = [user EXCEPT ![u] = Accepting(p)] PROVE SlotsInv'
    <3> DEFINE r == Accepting(p)
    <3>1. /\ r \in SlotUser /\ r.pc = "accept" /\ r.slot = user[u].slot /\ r.result = p
      BY <1>1, <1>2, UserMade
    <3>2. user' = [user EXCEPT ![u] = r]
      BY <2>1
    <3>3. runtime.loaded = NoProvider /\ runtime.active \in runtime.working => p = runtime.active
      BY <1>0 DEF SlotsInv, OptionsInv
    <3> HIDE DEF r
    <3> QED
      BY <1>t, <1>0, <1>1, <3>1, <3>2, <3>3, UserMoves DEF Building, SlotsTypeOK
  <2>2. ASSUME NEW x \in {"missing", "cancelled", "failed"}, user' = [user EXCEPT ![u] = Ending(x)]
        PROVE  SlotsInv'
    <3> DEFINE r == Ending(x)
    <3>1. /\ r \in SlotUser /\ r.pc = "publish" /\ r.slot = user[u].slot /\ r.result = x
      BY <1>2, UserMade
    <3>2. user' = [user EXCEPT ![u] = r] /\ x \notin Providers
      BY <2>2 DEF Providers
    <3> HIDE DEF r
    <3> QED
      BY <1>t, <1>0, <1>1, <3>1, <3>2, UserMoves DEF Building, SlotsTypeOK
  <2> QED
    BY <1>3, <2>1, <2>2
<1> QED
  BY <1>0, <1>4 DEF FailureKept

\* The first result to be accepted settles the provider of the process: the
\* active one if it worked before.
LEMMA FirstAccepted ==
    ASSUME SlotsInv, SlotsTypeOK', NEW u \in Users, NEW p \in Providers, NEW r \in SlotUser,
           user[u].pc = "accept", user[u].result = p, runtime.loaded = NoProvider,
           user' = [user EXCEPT ![u] = r], r.pc = "publish", r.slot = user[u].slot, r.result = p,
           UNCHANGED <<slots, gate>>, runtime'.up = runtime.up,
           runtime'.loaded = p, runtime'.active = runtime.active,
           p = runtime.active \/ runtime'.working = runtime.working
    PROVE  SlotsInv'
<1>t. SlotsTypeOK
  BY DEF SlotsInv
<1>0. user'[u] = r /\ \A v \in Users : v # u => user'[v] = user[v]
  BY <1>t DEF SlotsTypeOK
<1>1. p # NoProvider
  BY NoProviderIsNone
<1>2. \A s \in Slots : slots[s].session = NoProvider
  BY DEF SlotsInv, ProvidersNeverMix
<1>3. \A v \in Users : /\ Building(v)' <=> Building(v)
                       /\ Building(v) => user'[v].slot = user[v].slot
  BY <1>0 DEF Building
<1>4. GateInv' /\ OneSessionPerSlot'
  BY <1>3 DEF SlotsInv, GateInv, OneSessionPerSlot
<1>5. DownInv'
  <2>1. runtime.up
    BY BuilderAlone DEF Building
  <2> QED
    BY <2>1 DEF DownInv
<1>6. ResultInv' /\ OptionsInv'
  BY <1>0, <1>1, NoProviderIsNone DEF SlotsInv, ResultInv, OptionsInv
<1>7. WorkingProviderKept'
  BY DEF SlotsInv, OptionsInv, WorkingProviderKept
<1>8. ProvidersNeverMix' /\ HeldSessionsStay'
  BY <1>0, <1>2 DEF SlotsInv, ProvidersNeverMix, HeldSessionsStay
<1> QED
  BY <1>4, <1>5, <1>6, <1>7, <1>8 DEF SlotsInv

LEMMA AcceptsKeeps ==
    ASSUME SlotsInv, NEW u \in Users, Accepts(u) PROVE SlotsInv' /\ FailureKept
<1>t. SlotsTypeOK
  BY DEF SlotsInv
<1> DEFINE p == user[u].result
           Ending(x) == [pc |-> "publish", slot |-> user[u].slot,
                         previous |-> user[u].previous, result |-> x]
<1>0. user[u].pc = "accept" /\ UNCHANGED <<slots, gate>>
  BY DEF Accepts
<1>1. Building(u) /\ p \in Providers
  BY <1>t, <1>0, UserTyped, UserShape DEF Building
<1>2. user[u].slot \in Slots /\ user[u].previous \in SlotStates
  BY <1>1, BuilderAlone
<1>3. ASSUME NEW x \in {"failed", p}, user' = [user EXCEPT ![u] = Ending(x)],
             x = p => runtime.loaded = p, UNCHANGED <<runtime, saved>>
      PROVE  SlotsInv'
  <2> DEFINE r == Ending(x)
  <2>1. /\ r \in SlotUser /\ r.pc = "publish" /\ r.slot = user[u].slot /\ r.result = x
    BY <1>1, <1>2, <1>3, UserMade
  <2>2. user' = [user EXCEPT ![u] = r] /\ (x \in Providers => x = runtime.loaded)
    BY <1>3 DEF Providers
  <2>3. /\ UNCHANGED <<slots, gate, runtime, saved>> /\ user[u].pc = "accept" /\ Building(u)
        /\ slots' \in [Slots -> [state : SlotStates, session : Providers \cup {NoProvider}, idle : BOOLEAN]]
    BY <1>t, <1>0, <1>1, <1>3 DEF SlotsTypeOK
  <2> HIDE DEF r, p, Ending
  <2> QED
    BY <2>1, <2>2, <2>3, UserMoves
<1>4. ASSUME user' = [user EXCEPT ![u] = Ending(p)], runtime.loaded = NoProvider,
             saved' \in [provider : Providers \cup {NoProvider}, working : SUBSET Providers],
             runtime' \in [up : BOOLEAN, active : Providers, provider : Providers,
                           working : SUBSET Providers, loaded : Providers \cup {NoProvider}],
             runtime'.up = runtime.up, runtime'.loaded = p, runtime'.active = runtime.active,
             p = runtime.active \/ runtime'.working = runtime.working
      PROVE  SlotsInv'
  <2> DEFINE r == Ending(p)
  <2>1. /\ r \in SlotUser /\ r.pc = "publish" /\ r.slot = user[u].slot /\ r.result = p
    BY <1>1, <1>2, UserMade
  <2>2. user' = [user EXCEPT ![u] = r]
    BY <1>4
  <2> HIDE DEF r, p
  <2>3. SlotsTypeOK'
    BY <1>t, <1>0, <1>4, <2>1, <2>2 DEF SlotsTypeOK
  <2>4. user[u].result = p
    BY DEF p
  <2> QED
    <3>1. p \in Providers /\ user[u].pc = "accept"
      BY <1>0, <1>1
    <3>2. /\ runtime.loaded = NoProvider /\ UNCHANGED <<slots, gate>> /\ runtime'.up = runtime.up
          /\ runtime'.loaded = p /\ runtime'.active = runtime.active
          /\ p = runtime.active \/ runtime'.working = runtime.working
      BY <1>0, <1>4
    <3> QED
      BY <2>1, <2>2, <2>3, <2>4, <3>1, <3>2, FirstAccepted
<1>5. CASE Mixes(p)
  <2>1. user' = [user EXCEPT ![u] = Ending("failed")] /\ UNCHANGED <<runtime, saved>>
    BY <1>5 DEF Accepts, Finished
  <2>2. "failed" # p
    BY <1>1 DEF Providers
  <2> QED
    BY <1>0, <1>3, <2>1, <2>2 DEF FailureKept
<1>6. CASE ~Mixes(p) /\ runtime.loaded # NoProvider
  <2>1. user' = [user EXCEPT ![u] = Ending(p)] /\ UNCHANGED <<runtime, saved>>
    BY <1>6 DEF Accepts, Finished
  <2>2. runtime.loaded = p
    BY <1>6 DEF Mixes
  <2> QED
    BY <1>0, <1>3, <2>1, <2>2 DEF FailureKept
<1>7. CASE ~Mixes(p) /\ runtime.loaded = NoProvider /\ p = runtime.active
  <2>1. user' = [user EXCEPT ![u] = Ending(p)]
    BY <1>7 DEF Accepts, Finished
  <2>2. \/ /\ saved' = [provider |-> runtime.provider, working |-> runtime.working \cup {p}]
           /\ runtime' = [runtime EXCEPT !.working = runtime.working \cup {p}, !.loaded = p]
        \/ runtime' = [runtime EXCEPT !.loaded = p] /\ saved' = saved
    BY <1>7 DEF Accepts
  <2> HIDE DEF p
  <2>3. /\ saved' \in [provider : Providers \cup {NoProvider}, working : SUBSET Providers]
        /\ runtime' \in [up : BOOLEAN, active : Providers, provider : Providers,
                         working : SUBSET Providers, loaded : Providers \cup {NoProvider}]
        /\ runtime'.up = runtime.up /\ runtime'.loaded = p /\ runtime'.active = runtime.active
    <3>1. p \in Providers /\ runtime \in RuntimeRecord
      BY <1>t, <1>1 DEF SlotsTypeOK, RuntimeRecord
    <3>2. /\ runtime' \in RuntimeRecord /\ runtime'.up = runtime.up
          /\ runtime'.loaded = p /\ runtime'.active = runtime.active
      <4>1. runtime' = Known(runtime, p) \/ runtime' = Loaded(runtime, p)
        BY <2>2 DEF Known, Loaded
      <4> QED
        <5>1. /\ Known(runtime, p) \in RuntimeRecord /\ Known(runtime, p).up = runtime.up
              /\ Known(runtime, p).loaded = p /\ Known(runtime, p).active = runtime.active
          BY <3>1, RuntimeSettled
        <5>2. /\ Loaded(runtime, p) \in RuntimeRecord /\ Loaded(runtime, p).up = runtime.up
              /\ Loaded(runtime, p).loaded = p /\ Loaded(runtime, p).active = runtime.active
          BY <3>1, RuntimeSettled
        <5> QED
          BY <4>1, <5>1, <5>2
    <3>3. saved' \in [provider : Providers \cup {NoProvider}, working : SUBSET Providers]
      <4>1. CASE saved' = saved
        BY <1>t, <4>1 DEF SlotsTypeOK
      <4>2. CASE saved' = [provider |-> runtime.provider, working |-> runtime.working \cup {p}]
        BY <3>1, <4>2 DEF RuntimeRecord
      <4> QED
        BY <2>2, <4>1, <4>2
    <3> QED
      BY <3>2, <3>3 DEF RuntimeRecord
  <2> QED
    BY <1>0, <1>4, <1>7, <2>1, <2>3 DEF FailureKept
<1>8. CASE ~Mixes(p) /\ runtime.loaded = NoProvider /\ p # runtime.active
  <2>1. \/ user' = [user EXCEPT ![u] = Ending("failed")] /\ UNCHANGED <<runtime, saved>>
        \/ /\ user' = [user EXCEPT ![u] = Ending(p)]
           /\ saved' = [provider |-> "openvino", working |-> runtime.working]
           /\ runtime' = [runtime EXCEPT !.provider = "openvino", !.loaded = p]
        \/ /\ user' = [user EXCEPT ![u] = Ending(p)]
           /\ runtime' = [runtime EXCEPT !.loaded = p] /\ saved' = saved
    BY <1>8 DEF Accepts, Finished
  <2>2. "failed" # p /\ "openvino" \in Providers
    BY <1>1 DEF Providers
  <2>3. CASE user' = [user EXCEPT ![u] = Ending("failed")] /\ UNCHANGED <<runtime, saved>>
    BY <1>0, <1>3, <2>2, <2>3 DEF FailureKept
  <2>4. CASE /\ user' = [user EXCEPT ![u] = Ending(p)]
             /\ \/ /\ saved' = [provider |-> "openvino", working |-> runtime.working]
                   /\ runtime' = [runtime EXCEPT !.provider = "openvino", !.loaded = p]
                \/ runtime' = [runtime EXCEPT !.loaded = p] /\ saved' = saved
    <3> HIDE DEF p
    <3>1. /\ saved' \in [provider : Providers \cup {NoProvider}, working : SUBSET Providers]
          /\ runtime' \in [up : BOOLEAN, active : Providers, provider : Providers,
                           working : SUBSET Providers, loaded : Providers \cup {NoProvider}]
          /\ runtime'.up = runtime.up /\ runtime'.loaded = p /\ runtime'.active = runtime.active
          /\ runtime'.working = runtime.working
      <4>1. p \in Providers /\ runtime \in RuntimeRecord
        BY <1>t, <1>1 DEF SlotsTypeOK, RuntimeRecord
      <4>2. /\ runtime' \in RuntimeRecord /\ runtime'.up = runtime.up
            /\ runtime'.loaded = p /\ runtime'.active = runtime.active
            /\ runtime'.working = runtime.working
        <5>1. runtime' = Loaded(runtime, p) \/ runtime' = Moved(runtime, p)
          BY <2>4 DEF Loaded, Moved
        <5>2. /\ Loaded(runtime, p) \in RuntimeRecord /\ Loaded(runtime, p).up = runtime.up
              /\ Loaded(runtime, p).loaded = p /\ Loaded(runtime, p).active = runtime.active
              /\ Loaded(runtime, p).working = runtime.working
          BY <4>1, RuntimeSettled
        <5>3. /\ Moved(runtime, p) \in RuntimeRecord /\ Moved(runtime, p).up = runtime.up
              /\ Moved(runtime, p).loaded = p /\ Moved(runtime, p).active = runtime.active
              /\ Moved(runtime, p).working = runtime.working
          BY <4>1, RuntimeSettled
        <5> QED
          BY <5>1, <5>2, <5>3
      <4>3. saved' \in [provider : Providers \cup {NoProvider}, working : SUBSET Providers]
        <5>1. CASE saved' = saved
          BY <1>t, <5>1 DEF SlotsTypeOK
        <5>2. CASE saved' = [provider |-> "openvino", working |-> runtime.working]
          BY <2>2, <4>1, <5>2 DEF RuntimeRecord
        <5> QED
          BY <2>4, <5>1, <5>2
      <4> QED
        BY <4>2, <4>3 DEF RuntimeRecord
    <3> QED
      BY <1>0, <1>4, <1>8, <2>4, <3>1 DEF FailureKept
  <2> QED
    BY <2>1, <2>3, <2>4
<1> QED
  BY <1>5, <1>6, <1>7, <1>8

\* The build ends: its slot is left with a state of its own, and its gate open.
LEMMA PublishesKeeps ==
    ASSUME SlotsInv, NEW u \in Users, Publishes(u) PROVE SlotsInv' /\ FailureKept
<1>t. SlotsTypeOK
  BY DEF SlotsInv
<1> DEFINE s == user[u].slot
           result == user[u].result
           state == PublishedState(s, result, user[u].previous)
           session == IF result \in Providers THEN result ELSE slots[s].session
           idle == IF result \in Providers THEN FALSE ELSE slots[s].idle
           r == IF result \in Providers /\ u \notin stopped THEN [pc |-> "using", slot |-> s] ELSE Idle
<1>0. /\ user[u].pc = "publish" /\ UNCHANGED <<runtime, saved>>
      /\ slots' = [slots EXCEPT ![s].state = state, ![s].session = session, ![s].idle = idle]
      /\ gate' = [gate EXCEPT ![s] = NoUser]
      /\ user' = [user EXCEPT ![u] = r]
  BY DEF Publishes, Leave
<1>1. Building(u)
  BY <1>0 DEF Building
<1>2. /\ s \in Slots /\ user[u].previous \in SlotStates /\ gate[s] = u /\ runtime.up
      /\ slots[s].state = "preparing" /\ slots[s].session = NoProvider
      /\ \A v \in Users : Building(v) /\ user[v].slot = s => v = u
  BY <1>1, BuilderAlone
<1>3. state \in SlotStates /\ state # "preparing"
  BY <1>2 DEF PublishedState, Rested, SlotStates
<1>4. /\ session \in Providers \cup {NoProvider} /\ idle \in BOOLEAN
      /\ session # NoProvider => session = runtime.loaded
      /\ result \in Providers => session # NoProvider
  BY <1>t, <1>0, <1>2, NoProviderIsNone DEF SlotsInv, ResultInv, SlotsTypeOK
<1>5. /\ r \in SlotUser /\ r.pc \in {"using", "idle"}
      /\ r.pc = "using" => r.slot = s /\ result \in Providers
  BY <1>2, UserMade DEF Idle
<1> HIDE DEF s, result, state, session, idle, r
<1>6. /\ slots' \in [Slots -> [state : SlotStates, session : Providers \cup {NoProvider}, idle : BOOLEAN]]
      /\ \A x \in Slots : /\ slots'[x].state = IF x = s THEN state ELSE slots[x].state
                          /\ slots'[x].session = IF x = s THEN session ELSE slots[x].session
  <2>1. slots \in [Slots -> SlotRecord]
    BY <1>t DEF SlotsTypeOK, SlotRecord
  <2> DEFINE n == [slots[s] EXCEPT !.state = state, !.session = session, !.idle = idle]
  <2>2. \A t \in SlotRecord :
           LET e == [t EXCEPT !.state = state, !.session = session, !.idle = idle] IN
           e \in SlotRecord /\ e.state = state /\ e.session = session
    <3> DEFINE P == Providers \cup {NoProvider}
    <3> SUFFICES ASSUME NEW t \in [state : SlotStates, session : P, idle : BOOLEAN]
                 PROVE  LET e == [t EXCEPT !.state = state, !.session = session, !.idle = idle] IN
                        /\ e \in [state : SlotStates, session : P, idle : BOOLEAN]
                        /\ e.state = state /\ e.session = session
      BY DEF SlotRecord
    <3>1. state \in SlotStates /\ session \in P /\ idle \in BOOLEAN
      BY <1>3, <1>4
    <3> HIDE DEF P
    <3> QED
      BY <3>1
  <2>3. n \in SlotRecord /\ n.state = state /\ n.session = session
    BY <1>2, <2>1, <2>2, Zenon
  <2>4. slots' = [slots EXCEPT ![s] = n]
    BY <1>0
  <2> HIDE DEF n
  <2>5. slots' \in [Slots -> SlotRecord] /\ \A x \in Slots : slots'[x] = IF x = s THEN n ELSE slots[x]
    BY <2>1, <2>3, <2>4
  <2> QED
    BY <2>3, <2>5 DEF SlotRecord
<1>7. \A x \in Slots : gate'[x] = IF x = s THEN NoUser ELSE gate[x]
  BY <1>t, <1>0 DEF SlotsTypeOK
<1>8. user'[u] = r /\ \A v \in Users : v # u => user'[v] = user[v]
  BY <1>t, <1>0 DEF SlotsTypeOK
<1>9. SlotsTypeOK'
  BY <1>t, <1>0, <1>5, <1>6 DEF SlotsTypeOK
<1>10. \A v \in Users : Building(v)' => v # u /\ Building(v) /\ user'[v] = user[v] /\ user[v].slot # s
  BY <1>2, <1>5, <1>8 DEF Building
<1>11. \A v \in Users : Building(v) \/ user[v].pc = "using" => user[v].slot \in Slots
  BY <1>t, UserTyped, UserShape DEF Building
<1>12. GateInv'
  <2>1. \A v \in Users : Building(v)' => gate'[user'[v].slot] = v
    BY <1>7, <1>10, <1>11 DEF SlotsInv, GateInv
  <2>2. \A x \in Slots, v \in Users : gate'[x] = v => Building(v)' /\ user'[v].slot = x
    <3> SUFFICES ASSUME NEW x \in Slots, NEW v \in Users, gate'[x] = v
                 PROVE  Building(v)' /\ user'[v].slot = x
      OBVIOUS
    <3>1. x # s /\ gate[x] = v
      BY <1>7
    <3>2. Building(v) /\ user[v].slot = x
      BY <3>1 DEF SlotsInv, GateInv
    <3>3. v # u
      BY <3>1, <3>2 DEF s
    <3> QED
      BY <1>8, <3>2, <3>3 DEF Building
  <2>3. \A x \in Slots : slots'[x].state = "preparing" <=> gate'[x] # NoUser
    BY <1>3, <1>6, <1>7 DEF SlotsInv, GateInv
  <2> QED
    BY <2>1, <2>2, <2>3 DEF GateInv
<1>13. DownInv' /\ WorkingProviderKept'
  BY <1>0, <1>2 DEF SlotsInv, DownInv, WorkingProviderKept
<1>14. ResultInv' /\ OptionsInv'
  BY <1>0, <1>5, <1>8 DEF SlotsInv, ResultInv, OptionsInv
<1>15. ProvidersNeverMix'
  BY <1>0, <1>4, <1>6 DEF SlotsInv, ProvidersNeverMix
<1>16. OneSessionPerSlot'
  BY <1>6, <1>10, <1>11 DEF SlotsInv, OneSessionPerSlot
<1>17. HeldSessionsStay'
  BY <1>2, <1>4, <1>5, <1>6, <1>8, <1>11 DEF SlotsInv, HeldSessionsStay
<1>18. FailureKept
  BY <1>2, <1>6 DEF FailureKept
<1> QED
  BY <1>9, <1>12, <1>13, <1>14, <1>15, <1>16, <1>17, <1>18 DEF SlotsInv

\* An idle session goes, if nobody uses it and nobody builds its slot.
LEMMA UnloadKeeps ==
    ASSUME SlotsInv, NEW s \in Slots, UnloadIdle(s) PROVE SlotsInv' /\ FailureKept
<1>t. SlotsTypeOK
  BY DEF SlotsInv
<1>0. gate[s] = NoUser /\ UNCHANGED <<gate, user, runtime, saved>>
  BY DEF UnloadIdle
<1>1. /\ slots' \in [Slots -> [state : SlotStates, session : Providers \cup {NoProvider}, idle : BOOLEAN]]
      /\ \A x \in Slots : /\ slots'[x].state = slots[x].state
                          /\ \/ slots'[x].session = slots[x].session
                             \/ x = s /\ ~Held(s) /\ slots'[x].session = NoProvider
  <2>1. CASE slots' = [slots EXCEPT ![s].idle = FALSE]
    BY <1>t, <2>1 DEF SlotsTypeOK
  <2>2. CASE slots' = [slots EXCEPT ![s].idle = TRUE]
    BY <1>t, <2>2 DEF SlotsTypeOK
  <2>3. CASE ~Held(s) /\ slots' = [slots EXCEPT ![s].session = NoProvider, ![s].idle = FALSE]
    <3>1. slots \in [Slots -> SlotRecord]
      BY <1>t DEF SlotsTypeOK, SlotRecord
    <3>2. LET g == [slots EXCEPT ![s].session = NoProvider, ![s].idle = FALSE] IN
             /\ g \in [Slots -> SlotRecord]
             /\ \A x \in Slots : /\ g[x].state = slots[x].state
                                 /\ g[x].session = IF x = s THEN NoProvider ELSE slots[x].session
      BY <3>1, SessionGone
    <3> QED
      BY <2>3, <3>2 DEF SlotRecord
  <2> QED
    BY <2>1, <2>2, <2>3 DEF UnloadIdle
<1>2. SlotsTypeOK'
  BY <1>t, <1>0, <1>1 DEF SlotsTypeOK
<1>3. \A v \in Users : Building(v) \/ user[v].pc = "using" => user[v].slot \in Slots
  BY <1>t, UserTyped, UserShape DEF Building
<1>4. DownInv' /\ GateInv' /\ ResultInv' /\ OptionsInv' /\ WorkingProviderKept'
  BY <1>0, <1>1 DEF SlotsInv, DownInv, GateInv, Building, ResultInv, OptionsInv, WorkingProviderKept
<1>5. ProvidersNeverMix'
  BY <1>0, <1>1 DEF SlotsInv, ProvidersNeverMix
<1>6. OneSessionPerSlot'
  BY <1>0, <1>1, <1>3 DEF SlotsInv, OneSessionPerSlot, Building
<1>7. HeldSessionsStay'
  BY <1>0, <1>1, <1>3 DEF SlotsInv, HeldSessionsStay, Held
<1> QED
  BY <1>1, <1>2, <1>4, <1>5, <1>6, <1>7 DEF SlotsInv, FailureKept

LEMMA SlotsStep == SlotsInv /\ [SlotsNext]_slotVars => SlotsInv' /\ FailureKept
<1> SUFFICES ASSUME SlotsInv, [SlotsNext]_slotVars PROVE SlotsInv' /\ FailureKept
  OBVIOUS
<1>t. SlotsTypeOK
  BY DEF SlotsInv
<1>1. CASE UNCHANGED <<slots, gate, user, runtime, saved>>
  BY <1>t, <1>1, NobodyMoves DEF SlotsTypeOK, FailureKept
<1>2. ASSUME NEW u \in Users, RequestCancel(u) \/ NextJob(u) PROVE SlotsInv' /\ FailureKept
  BY <1>1, <1>2 DEF RequestCancel, NextJob
<1>3. ASSUME NEW u \in Users, Releases(u) PROVE SlotsInv' /\ FailureKept
  BY <1>t, <1>3, LeaveKeeps DEF Releases, Building, SlotsTypeOK, FailureKept
<1>4. CASE UNCHANGED slotVars
  BY <1>1, <1>4 DEF slotVars
<1> QED
  BY <1>2, <1>3, <1>4, BootKeeps, ProcessEndsKeeps, RuntimeKeeps, PrepareKeeps, EnsureKeeps,
     GateKeeps, OptionsKeeps, LoadsKeeps, AcceptsKeeps, PublishesKeeps, FetchedKeeps, UnloadKeeps
     DEF SlotsNext

-----------------------------------------------------------------------------
\* The inductive invariant of the slots, for any slots and users and across any
\* number of process starts: types, gates held by builders, results and options
\* that agree with the provider the process has settled on.
THEOREM SlotsInvariant == SlotsSpec => []SlotsInv
BY SlotsInitial, SlotsStep, PTL DEF SlotsSpec

\* All sessions of a process are on the provider of its first successful build,
\* and a provider that worked before is never given up for a fallback, though
\* any number of builds read their options and load at once, and the choice may
\* be edited meanwhile (accept_loaded_provider, model_runtime_options).
THEOREM ProvidersAlwaysAgree == SlotsSpec => []ProvidersAgree
<1>1. SlotsInv => ProvidersAgree
  BY DEF SlotsInv, ProvidersAgree
<1> QED
  BY <1>1, SlotsInvariant, PTL

\* A slot is preparing exactly while somebody builds it, nobody builds beside a
\* session, a session that is used stays, and only another build makes a failed
\* slot usable (ModelSlot::prepare, unload_idle, mark_available).
THEOREM SlotsAlwaysHold == SlotsSpec => SlotsHold
<1>1. SlotsInv => PreparingIsBuilt /\ OneSessionPerSlot /\ HeldSessionsStay
  <2> SUFFICES ASSUME SlotsInv PROVE PreparingIsBuilt
    BY DEF SlotsInv
  <2> SUFFICES ASSUME NEW s \in Slots
               PROVE  slots[s].state = "preparing" <=>
                         \E u \in Users : Building(u) /\ user[u].slot = s /\ gate[s] = u
    BY DEF PreparingIsBuilt
  <2>1. gate[s] \in Users \cup {NoUser} /\ (slots[s].state = "preparing" <=> gate[s] # NoUser)
    BY DEF SlotsInv, SlotsTypeOK, GateInv
  <2>2. \A u \in Users : gate[s] = u => Building(u) /\ user[u].slot = s
    BY DEF SlotsInv, GateInv
  <2> QED
    BY <2>1, <2>2
<1>2. SlotsInv /\ [SlotsNext]_slotVars =>
         (runtime.up /\ runtime'.up => \A s \in Slots :
             slots[s].state = "failed" => slots'[s].state \in {"failed", "preparing"})
  BY SlotsStep DEF FailureKept
<1> QED
  BY <1>1, <1>2, SlotsInvariant, PTL DEF SlotsSpec, SlotsHold, FailureNeedsBuild

(* Thumbnails.                                                               *)

\* What a send adds to a channel, and what a receive takes from it.
LEMMA Sent ==
    ASSUME NEW S, NEW q \in Seq(S), NEW e \in S
    PROVE  /\ Append(q, e) \in Seq(S) /\ DOMAIN Append(q, e) = DOMAIN q \cup {Len(q) + 1}
           /\ Len(q) + 1 \notin DOMAIN q /\ Append(q, e)[Len(q) + 1] = e
           /\ \A k \in DOMAIN q : Append(q, e)[k] = q[k]
  BY AppendProperties, LenProperties

\* What a receive takes from a channel, and what it leaves there.
LEMMA Received ==
    ASSUME NEW S, NEW q \in Seq(S), q # <<>>
    PROVE  /\ Tail(q) \in Seq(S) /\ Head(q) \in S /\ Head(q) = q[1] /\ 1 \in DOMAIN q
           /\ \A k \in DOMAIN Tail(q) : k + 1 \in DOMAIN q /\ k + 1 # 1 /\ Tail(q)[k] = q[k + 1]
           /\ \A k \in DOMAIN q : k = 1 \/ (k - 1 \in DOMAIN Tail(q) /\ Tail(q)[k - 1] = q[k])
           /\ \A k, j \in DOMAIN Tail(q) : k # j => k + 1 # j + 1
  BY HeadTailProperties, LenProperties

-----------------------------------------------------------------------------
(* Recognition.                                                             *)

\* An empty sequence has no positions.
LEMMA NothingListed == DOMAIN <<>> = {}
<1>1. <<>> \in Seq({}) /\ Len(<<>>) = 0
  OBVIOUS
<1>2. DOMAIN <<>> = 1 .. Len(<<>>)
  BY <1>1, LenProperties
<1>3. 1 .. 0 = {}
  OBVIOUS
<1> QED BY <1>1, <1>2, <1>3

-----------------------------------------------------------------------------
(* The thumbnail service.                                                    *)

\* A nonempty set of numbers has a least one.
LEMMA LeastOf ==
    ASSUME NEW S \in SUBSET Nat, S # {}
    PROVE  \E n \in S : \A m \in S : n <= m
<1> DEFINE less == {pair \in Nat \X Nat : pair[1] < pair[2]}
<1>1. IsWellFoundedOn(less, Nat)
  BY NatLessThanWellFounded DEF OpToRel
<1>2. PICK n \in S : \A m \in S : <<m, n>> \notin less
  <2> HIDE DEF less
  <2> QED BY <1>1, WFMin
<1>3. \A m \in S : ~(m < n)
  BY <1>2
<1> QED BY <1>3

\* A call that has keys to claim takes the first of them, by asset and bucket.
LEMMA FirstToClaim ==
    ASSUME NEW todo \in SUBSET ThumbKeys, todo # {}
    PROVE  \E k \in todo : \A o \in todo : o[1] > k[1] \/ (o[1] = k[1] /\ o[2] >= k[2])
<1> DEFINE assets == {k[1] : k \in todo}
<1>1. \A k \in todo : k[1] \in Nat /\ k[2] \in Nat
  BY ThumbAssumption DEF ThumbKeys
<1>0. assets \in SUBSET Nat /\ assets # {}
  BY <1>1
<1>2. PICK a \in assets : \A o \in assets : a <= o
  <2> HIDE DEF assets
  <2> QED BY <1>0, LeastOf
<1> DEFINE buckets == {k[2] : k \in {j \in todo : j[1] = a}}
<1>3. buckets \subseteq Nat /\ buckets # {}
  BY <1>1
<1>4. PICK b \in buckets : \A o \in buckets : b <= o
  BY <1>3, LeastOf
<1>5. PICK k \in todo : k[1] = a /\ k[2] = b
  BY <1>4
<1>6. ASSUME NEW o \in todo
      PROVE  o[1] > k[1] \/ (o[1] = k[1] /\ o[2] >= k[2])
  <2>1. o[1] \in Nat /\ o[2] \in Nat /\ a \in Nat /\ b \in Nat /\ a <= o[1]
    BY <1>1, <1>2, <1>3, <1>4
  <2>2. o[1] = a => b <= o[2]
    BY <1>4
  <2> QED BY <1>5, <2>1, <2>2
<1> QED BY <1>5, <1>6

USE ThumbAssumption

\* A chunk of a nonempty set of assets is not empty.
LEMMA ChunkTakes ==
    ASSUME NEW S \in SUBSET ThumbAssets, S # {}
    PROVE  Least(S, ThumbChunk) # {} /\ Least(S, ThumbChunk) \subseteq S
<1>1. PICK n \in S : \A m \in S : n <= m
  <2>1. S \in SUBSET Nat
    OBVIOUS
  <2> QED BY <2>1, LeastOf
<1>2. {o \in S : o < n} = {}
  <2>1. n \in Nat /\ \A o \in S : o \in Nat /\ n <= o
    BY <1>1
  <2>2. \A o \in S : ~(o < n)
    BY <2>1
  <2> QED BY <2>2, Zenon
<1>3. Cardinality({o \in S : o < n}) = 0
  BY <1>2, FS_EmptySet
<1>4. n \in Least(S, ThumbChunk)
  BY <1>3 DEF Least
<1> QED BY <1>4 DEF Least

\* The fields of a call.
LEMMA CallShape ==
    ASSUME NEW r \in CallerStates
    PROVE  /\ r.rest \in SUBSET ThumbAssets /\ r.fp \in [ThumbAssets -> Nat] /\ r.todo \in SUBSET ThumbKeys
           /\ r.buckets \in SUBSET Buckets /\ r.force \in BOOLEAN /\ r.sweep \in BOOLEAN
           /\ r.waits \in SUBSET (ThumbKeys \X Nat) /\ r.owned \in SUBSET (ThumbKeys \X Nat)
           /\ r.current \in SUBSET ThumbKeys /\ r.decoded \in SUBSET (ThumbKeys \X Nat)
           /\ r.broken \in BOOLEAN /\ r.bad \in BOOLEAN /\ r.had \in SUBSET ThumbKeys
BY DEF CallerStates

\* A caller that is idle holds nothing.
LEMMA IdleOK ==
    ASSUME NEW disk, NEW ends, NEW stored
    PROVE  IdleCaller \in CallerStates /\ CallInv(IdleCaller, disk, ends, stored)
<1>1. IdleCaller \in CallerStates
  BY DEF IdleCaller, CallerStates
<1>3. CallDated(IdleCaller, disk)
  BY DEF CallDated, IdleCaller
<1>4. CallJoined(IdleCaller, ends, stored)
  BY DEF CallJoined, IdleCaller
<1>5. CallStored(IdleCaller, stored)
  BY DEF CallStored, IdleCaller
<1>6. CallCovers(IdleCaller)
  BY DEF CallCovers, IdleCaller
<1> QED BY <1>1, <1>3, <1>4, <1>5, <1>6 DEF CallInv

\* Only one call moves: the others go on waiting for the flights they joined.
LEMMA CallsKept ==
    ASSUME ThumbInv, NEW c \in Callers, NEW r \in CallerStates, caller' = [caller EXCEPT ![c] = r],
           UNCHANGED source, everStored \subseteq everStored',
           \A d \in Callers \ {c} : \A w \in caller[d].waits : Landing(w, results', everStored'),
           CallInv(r, source, results', everStored')
    PROVE  /\ caller' \in [Callers -> CallerStates] /\ caller'[c] = r
           /\ \A d \in Callers \ {c} : caller'[d] = caller[d]
           /\ \A d \in Callers : CallInv(caller'[d], source', results', everStored')
<1>1. /\ caller \in [Callers -> CallerStates] /\ caller' \in [Callers -> CallerStates] /\ caller'[c] = r
      /\ \A d \in Callers \ {c} : caller'[d] = caller[d]
  BY DEF ThumbInv, ThumbTypeOK
<1>2. ASSUME NEW d \in Callers \ {c}
      PROVE  CallInv(caller[d], source, results', everStored')
  <2>1. CallInv(caller[d], source, results, everStored)
    BY DEF ThumbInv
  <2>2. CallJoined(caller[d], results', everStored')
    BY <2>1 DEF CallInv, CallJoined
  <2>3. CallStored(caller[d], everStored')
    BY <2>1 DEF CallInv, CallStored
  <2> QED BY <2>1, <2>2, <2>3 DEF CallInv
<1> QED BY <1>1, <1>2

\* Flights that are completed with what was stored: whoever joined them has what
\* it waited for.
LEMMA ResolvedLanding ==
    ASSUME ThumbInv, NEW c \in Callers, NEW completed \in SUBSET caller[c].owned, NEW outcome,
           Resolved(completed, outcome),
           \A o \in completed : /\ outcome[o] \in {"stored", "cached", "failed"}
                                /\ outcome[o] # "failed" => o[1] \in everStored
    PROVE  /\ results' \in Seq(FlightStates)
           /\ \A d \in Callers : \A w \in caller[d].waits : Landing(w, results', everStored)
<1> DEFINE at(n) == CHOOSE o \in completed : o[2] = n
<1>1. results \in Seq(FlightStates) /\ DOMAIN results = 1 .. Len(results) /\ Len(results) \in Nat
  BY LenProperties DEF ThumbInv, ThumbTypeOK
<1>2. results' = [n \in DOMAIN results |-> IF \E o \in completed : o[2] = n THEN outcome[at(n)] ELSE results[n]]
  BY DEF Resolved
<1>3. ASSUME NEW n \in DOMAIN results, \E o \in completed : o[2] = n
      PROVE  at(n) \in completed /\ at(n)[2] = n
  BY <1>3
<1>4. \A n \in DOMAIN results : results[n] \in FlightStates
  BY <1>1
<1> HIDE DEF at
<1>5. ASSUME NEW n \in DOMAIN results
      PROVE  results'[n] \in FlightStates
  BY <1>2, <1>3, <1>4 DEF FlightStates
<1>6. results' \in [1 .. Len(results) -> FlightStates]
  BY <1>1, <1>2, <1>5
<1>7. results' \in Seq(FlightStates)
  BY <1>1, <1>6
<1>8. ASSUME NEW d \in Callers, NEW w \in caller[d].waits
      PROVE  Landing(w, results', everStored)
  <2>1. Landing(w, results, everStored)
    BY DEF ThumbInv, CallInv, CallJoined
  <2>2. w[2] \in DOMAIN results /\ DOMAIN results' = DOMAIN results
    BY <2>1, <1>2 DEF Landing
  <2>3. CASE \E o \in completed : o[2] = w[2]
    <3>1. at(w[2]) \in completed /\ at(w[2])[2] = w[2] /\ results'[w[2]] = outcome[at(w[2])]
      BY <1>2, <1>3, <2>2, <2>3
    <3>2. at(w[2]) \in caller[c].waits
      BY <3>1 DEF ThumbInv, CallInv, CallJoined
    <3>3. at(w[2])[1] = w[1]
      BY <3>1, <3>2 DEF ThumbInv, RegistryInv
    <3> QED BY <2>2, <3>1, <3>3 DEF Landing
  <2>4. CASE ~\E o \in completed : o[2] = w[2]
    BY <1>2, <2>1, <2>2, <2>4 DEF Landing
  <2> QED BY <2>3, <2>4
<1> QED BY <1>7, <1>8

\* Keys keep one owner and flights one key when a call completes some of what it
\* owns, or nothing, and goes on waiting for some of its flights.
LEMMA RegistryMoves ==
    ASSUME ThumbInv, NEW c \in Callers, NEW r \in CallerStates, caller' = [caller EXCEPT ![c] = r],
           NEW completed \in SUBSET caller[c].owned, r.owned = caller[c].owned \ completed,
           r.waits \subseteq caller[c].waits,
           DOMAIN flights' = {k \in DOMAIN flights : <<k, flights[k]>> \notin completed},
           \A k \in DOMAIN flights' : flights'[k] = flights[k]
    PROVE  RegistryInv'
<1>1. /\ caller \in [Callers -> CallerStates] /\ caller'[c] = r /\ RegistryInv
      /\ \A d \in Callers \ {c} : caller'[d] = caller[d]
  BY DEF ThumbInv, ThumbTypeOK
<1>2. \A d \in Callers : caller'[d].owned \subseteq caller[d].owned /\ caller'[d].waits \subseteq caller[d].waits
  BY <1>1
<1>3. FlightsOwned'
  <2> SUFFICES ASSUME NEW k \in DOMAIN flights'
               PROVE  \E d \in Callers : <<k, flights'[k]>> \in caller'[d].owned
    BY DEF FlightsOwned
  <2>1. k \in DOMAIN flights /\ <<k, flights[k]>> \notin completed /\ flights'[k] = flights[k]
    OBVIOUS
  <2>2. PICK d \in Callers : <<k, flights[k]>> \in caller[d].owned
    BY <1>1, <2>1 DEF RegistryInv, FlightsOwned
  <2> QED BY <1>1, <2>1, <2>2
<1>4. ASSUME NEW d \in Callers, NEW o \in caller'[d].owned
      PROVE  o[1] \in DOMAIN flights' /\ flights'[o[1]] = o[2]
  <2>1. o \in caller[d].owned /\ o[1] \in DOMAIN flights /\ flights[o[1]] = o[2]
    BY <1>1, <1>2, <1>4 DEF RegistryInv
  <2>2. o = <<o[1], o[2]>>
    <3>1. caller[d].owned \in SUBSET (ThumbKeys \X Nat)
      BY <1>1, CallShape
    <3> QED BY <2>1, <3>1
  <2>3. o \notin completed
    BY <1>1, <1>4, <2>1 DEF RegistryInv
  <2> QED BY <2>1, <2>2, <2>3
<1>5. \A d, e \in Callers : d # e => caller'[d].owned \cap caller'[e].owned = {}
  BY <1>1, <1>2 DEF RegistryInv
<1>6. \A d, e \in Callers : \A v \in caller'[d].waits, w \in caller'[e].waits : v[2] = w[2] => v[1] = w[1]
  BY <1>1, <1>2 DEF RegistryInv
<1> QED BY <1>3, <1>4, <1>5, <1>6 DEF RegistryInv

\* The fields of a command.
LEMMA CommandShape ==
    ASSUME NEW m \in Commands
    PROVE  /\ m.kind \in {"current", "sweep", "store", "put", "delete"}
           /\ m.kind \in Asking => m.from \in Callers
           /\ m.kind \in {"store", "put"} => m.rows \in SUBSET PlacedRows
           /\ m.kind = "delete" => m.asset \in ThumbAssets
BY DEF Commands, Asking

\* A caller that is not asking has no command in the queue.
LEMMA NoneAsked ==
    ASSUME ThumbInv, NEW c \in Callers, caller[c].pc \notin {"asked", "storing", "sweeping"},
           NEW i \in DOMAIN queue, queue[i].kind \in Asking
    PROVE  queue[i].from # c
BY DEF ThumbInv, QueueInv, CommandOK, Asking

\* A command stays in order while other callers move.
LEMMA CommandKept ==
    ASSUME NEW m, CommandOK(m), m.kind \in Asking => caller'[m.from] = caller[m.from], UNCHANGED source
    PROVE  CommandOK(m)'
<1>1. CASE m.kind = "store"
  <2>1. caller'[m.from] = caller[m.from] /\ m.rows = Decoded(m.from) /\ caller[m.from].pc = "storing"
    BY <1>1 DEF Asking, CommandOK
  <2>2. Decoded(m.from)' = Decoded(m.from)
    BY <2>1 DEF Decoded, Labelled
  <2> QED BY <1>1, <2>1, <2>2 DEF CommandOK
<1>2. CASE m.kind # "store"
  BY <1>2 DEF CommandOK, Asking, TrueRow
<1> QED BY <1>1, <1>2

\* The queue stays in order when a caller that is not asking moves.
LEMMA QueueKept ==
    ASSUME ThumbInv, NEW c \in Callers, NEW r \in CallerStates, caller' = [caller EXCEPT ![c] = r],
           caller[c].pc \notin {"asked", "storing", "sweeping"}, UNCHANGED <<source, queue>>
    PROVE  QueueInv' /\ queue' \in Seq(Commands)
<1>1. caller \in [Callers -> CallerStates] /\ queue \in Seq(Commands) /\ QueueInv
  BY DEF ThumbInv, ThumbTypeOK
<1>2. \A d \in Callers : d # c => caller'[d] = caller[d]
  BY <1>1
<1>3. ASSUME NEW i \in DOMAIN queue
      PROVE  CommandOK(queue[i])'
  <2>0. queue[i] \in Commands /\ (queue[i].kind \in Asking => queue[i].from \in Callers)
    BY <1>1, CommandShape
  <2>1. queue[i].kind \in Asking => caller'[queue[i].from] = caller[queue[i].from]
    BY <1>2, <2>0, NoneAsked
  <2>2. CommandOK(queue[i])
    BY <1>1 DEF QueueInv
  <2> DEFINE m == queue[i]
  <2>3. m' = m
    OBVIOUS
  <2> QED BY <2>1, <2>2, <2>3, CommandKept
<1> QED BY <1>1, <1>3 DEF QueueInv

\* The queue stays in order when a caller that has no command in it sends one.
LEMMA QueueSent ==
    ASSUME ThumbInv, NEW c \in Callers, NEW r \in CallerStates, caller' = [caller EXCEPT ![c] = r],
           caller[c].pc \notin {"asked", "storing", "sweeping"}, UNCHANGED source,
           NEW m \in Commands, queue' = Append(queue, m), m.kind \in Asking, m.from = c, CommandOK(m)'
    PROVE  QueueInv' /\ queue' \in Seq(Commands)
<1>1. caller \in [Callers -> CallerStates] /\ queue \in Seq(Commands) /\ QueueInv
  BY DEF ThumbInv, ThumbTypeOK
<1>2. \A d \in Callers : d # c => caller'[d] = caller[d]
  BY <1>1
<1>3. /\ queue' \in Seq(Commands) /\ DOMAIN queue' = DOMAIN queue \cup {Len(queue) + 1}
      /\ Len(queue) + 1 \notin DOMAIN queue /\ queue'[Len(queue) + 1] = m
      /\ \A k \in DOMAIN queue : queue'[k] = queue[k]
  BY <1>1, Sent
<1>4. ASSUME NEW i \in DOMAIN queue
      PROVE  CommandOK(queue[i])' /\ (queue[i].kind \in Asking => queue[i].from # c)
  <2>0. queue[i] \in Commands /\ (queue[i].kind \in Asking => queue[i].from \in Callers)
    BY <1>1, CommandShape
  <2>1. queue[i].kind \in Asking => queue[i].from # c
    BY NoneAsked
  <2>2. CommandOK(queue[i])
    BY <1>1 DEF QueueInv
  <2> DEFINE b == queue[i]
  <2>3. PICK x : x = b
    OBVIOUS
  <2>4. CommandOK(x)'
    BY <1>2, <2>0, <2>1, <2>2, <2>3, CommandKept
  <2>5. queue'[i] = x
    BY <1>3, <2>3
  <2> QED BY <2>1, <2>4, <2>5
<1>5. ASSUME NEW i \in DOMAIN queue'
      PROVE  CommandOK(queue[i])'
  BY <1>3, <1>4
<1>6. ASSUME NEW i \in DOMAIN queue', NEW j \in DOMAIN queue', i # j, queue'[i].kind \in Asking, queue'[j].kind \in Asking
      PROVE  queue'[i].from # queue'[j].from
  <2>1. CASE i \in DOMAIN queue /\ j \in DOMAIN queue
    BY <1>1, <1>3, <1>6, <2>1 DEF QueueInv
  <2>2. CASE i \notin DOMAIN queue
    BY <1>3, <1>4, <1>6, <2>2
  <2>3. CASE j \notin DOMAIN queue
    BY <1>3, <1>4, <1>6, <2>3
  <2> QED BY <2>1, <2>2, <2>3
<1> QED BY <1>3, <1>5, <1>6 DEF QueueInv

\* A caller has at most one command in the queue: when the writer answers it, none.
LEMMA QueueAnswered ==
    ASSUME ThumbInv, NEW c \in Callers, NEW r \in CallerStates, caller' = [caller EXCEPT ![c] = r],
           queue # <<>>, queue' = Tail(queue), Head(queue).kind \in Asking, Head(queue).from = c, UNCHANGED source
    PROVE  QueueInv' /\ queue' \in Seq(Commands)
<1>1. caller \in [Callers -> CallerStates] /\ queue \in Seq(Commands) /\ QueueInv
  BY DEF ThumbInv, ThumbTypeOK
<1>2. \A d \in Callers : d # c => caller'[d] = caller[d]
  BY <1>1
<1>3. /\ queue' \in Seq(Commands) /\ Head(queue) = queue[1] /\ 1 \in DOMAIN queue
      /\ \A k \in DOMAIN queue' : k + 1 \in DOMAIN queue /\ k + 1 # 1 /\ queue'[k] = queue[k + 1]
      /\ \A k, j \in DOMAIN queue' : k # j => k + 1 # j + 1
  BY <1>1, Received
<1>4. ASSUME NEW i \in DOMAIN queue'
      PROVE  CommandOK(queue[i])'
  <2>0. queue'[i] = queue[i + 1] /\ i + 1 \in DOMAIN queue /\ i + 1 # 1
    BY <1>3
  <2>1. PICK x : x = queue[i + 1]
    OBVIOUS
  <2>2. x \in Commands /\ (x.kind \in Asking => x.from \in Callers) /\ CommandOK(x)
    BY <1>1, <2>0, <2>1, CommandShape DEF QueueInv
  <2>3. x.kind \in Asking => x.from # c
    BY <1>1, <1>3, <2>0, <2>1 DEF QueueInv
  <2>4. CommandOK(x)'
    BY <1>2, <2>2, <2>3, CommandKept
  <2> QED BY <2>0, <2>1, <2>4
<1>5. ASSUME NEW i \in DOMAIN queue', NEW j \in DOMAIN queue', i # j, queue'[i].kind \in Asking, queue'[j].kind \in Asking
      PROVE  queue'[i].from # queue'[j].from
  BY <1>1, <1>3, <1>5 DEF QueueInv
<1> QED BY <1>3, <1>4, <1>5 DEF QueueInv

\* A command that nobody waits for enters the queue, or leaves it.
LEMMA QueuePlain ==
    ASSUME ThumbInv, UNCHANGED <<source, caller>>,
           \/ \E m \in Commands : queue' = Append(queue, m) /\ m.kind \notin Asking /\ CommandOK(m)'
           \/ queue # <<>> /\ queue' = Tail(queue)
    PROVE  QueueInv' /\ queue' \in Seq(Commands)
<1>1. caller \in [Callers -> CallerStates] /\ queue \in Seq(Commands) /\ QueueInv
  BY DEF ThumbInv, ThumbTypeOK
<1>2. ASSUME NEW i \in DOMAIN queue
      PROVE  \A x : x = queue[i] => CommandOK(x)'
  <2> SUFFICES ASSUME NEW x, x = queue[i]
               PROVE  CommandOK(x)'
    OBVIOUS
  <2>1. CommandOK(x)
    BY <1>1 DEF QueueInv
  <2> QED BY <2>1, CommandKept
<1>3. CASE \E m \in Commands : queue' = Append(queue, m) /\ m.kind \notin Asking /\ CommandOK(m)'
  <2>1. PICK m \in Commands : queue' = Append(queue, m) /\ m.kind \notin Asking /\ CommandOK(m)'
    BY <1>3
  <2>2. /\ queue' \in Seq(Commands) /\ DOMAIN queue' = DOMAIN queue \cup {Len(queue) + 1}
        /\ Len(queue) + 1 \notin DOMAIN queue /\ queue'[Len(queue) + 1] = m
        /\ \A k \in DOMAIN queue : queue'[k] = queue[k]
    BY <1>1, <2>1, Sent
  <2>3. \A i \in DOMAIN queue' : CommandOK(queue[i])'
    BY <1>2, <2>1, <2>2
  <2>4. \A i, j \in DOMAIN queue' : i # j /\ queue'[i].kind \in Asking /\ queue'[j].kind \in Asking => queue'[i].from # queue'[j].from
    BY <1>1, <2>1, <2>2 DEF QueueInv
  <2> QED BY <2>2, <2>3, <2>4 DEF QueueInv
<1>4. CASE queue # <<>> /\ queue' = Tail(queue)
  <2>1. /\ queue' \in Seq(Commands)
        /\ \A k \in DOMAIN queue' : k + 1 \in DOMAIN queue /\ k + 1 # 1 /\ queue'[k] = queue[k + 1]
        /\ \A k, j \in DOMAIN queue' : k # j => k + 1 # j + 1
    BY <1>1, <1>4, Received
  <2>2. \A i \in DOMAIN queue' : CommandOK(queue[i])'
    BY <1>2, <2>1
  <2>3. \A i, j \in DOMAIN queue' : i # j /\ queue'[i].kind \in Asking /\ queue'[j].kind \in Asking => queue'[i].from # queue'[j].from
    BY <1>1, <2>1 DEF QueueInv
  <2> QED BY <2>1, <2>2, <2>3 DEF QueueInv
<1> QED BY <1>3, <1>4

\* What was missing is still missing while no row is stored.
LEMMA OnceKept ==
    ASSUME ThumbInv, NEW c \in Callers, NEW r \in CallerStates, caller' = [caller EXCEPT ![c] = r], UNCHANGED thumbs,
           ~r.force /\ r.pc \in {"decode", "persist", "storing"} =>
               \A k \in {o[1] : o \in r.owned} \ r.current : NotYetShared(k)
    PROVE  SharedOnce'
<1>1. /\ caller \in [Callers -> CallerStates] /\ caller'[c] = r /\ SharedOnce
      /\ \A d \in Callers \ {c} : caller'[d] = caller[d]
  BY DEF ThumbInv, ThumbTypeOK
<1>2. \A k : NotYetShared(k)' <=> NotYetShared(k)
  BY DEF NotYetShared
<1>3. ASSUME NEW d \in Callers \ {c}, ~caller'[d].force, caller'[d].pc \in {"decode", "persist", "storing"},
             NEW k \in Missing(d)'
      PROVE  NotYetShared(k)
  BY <1>1, <1>3 DEF SharedOnce, Missing
<1>4. ASSUME ~caller'[c].force, caller'[c].pc \in {"decode", "persist", "storing"}, NEW k \in Missing(c)'
      PROVE  NotYetShared(k)
  BY <1>1, <1>4 DEF Missing
<1> QED BY <1>2, <1>3, <1>4 DEF SharedOnce

\* A step of one call keeps the invariant when it leaves the rows alone and what
\* it does to the registry and the queue is in order.
LEMMA CallMoves ==
    ASSUME ThumbInv, NEW c \in Callers, NEW r \in CallerStates, caller' = [caller EXCEPT ![c] = r],
           UNCHANGED <<source, thumbs, everStored>>, oldRows' \subseteq oldRows,
           results' \in Seq(FlightStates),
           \A d \in Callers \ {c} : \A w \in caller[d].waits : Landing(w, results', everStored),
           CallInv(r, source, results', everStored),
           RegistryInv', QueueInv' /\ queue' \in Seq(Commands),
           ~r.force /\ r.pc \in {"decode", "persist", "storing"} =>
               \A k \in {o[1] : o \in r.owned} \ r.current : NotYetShared(k)
    PROVE  ThumbInv'
<1>1. SharedOnce'
  BY OnceKept
<1>2. /\ caller' \in [Callers -> CallerStates]
      /\ \A d \in Callers : CallInv(caller'[d], source', results', everStored')
  BY CallsKept
<1>3. RowsInv'
  BY DEF ThumbInv, RowsInv, TrueRow
<1>4. ThumbTypeOK'
  BY <1>2 DEF ThumbInv, ThumbTypeOK
<1> QED BY <1>1, <1>2, <1>3, <1>4 DEF ThumbInv

\* A call that goes on with its next chunk has its keys to claim.
LEMMA ChunkOK ==
    ASSUME NEW call \in CallerStates, call.rest # {}, call.owned = {}, call.buckets # {},
           NEW disk \in [ThumbAssets -> {1, 2}], NEW ends, NEW stored, ~call.bad => call.had \subseteq stored,
           \A a \in call.rest : 0 < call.fp[a] /\ call.fp[a] <= disk[a],
           call.sweep => call.buckets = Buckets /\ \A a \in ThumbAssets, b \in Buckets :
                             a \in call.rest \/ <<a, b, call.fp[a]>> \in call.had
    PROVE  /\ WithChunk(call) \in CallerStates /\ CallInv(WithChunk(call), disk, ends, stored)
           /\ WithChunk(call).owned = {} /\ WithChunk(call).waits = {} /\ WithChunk(call).pc = "claim"
<1> DEFINE chunk == Least(call.rest, ThumbChunk)
           keys == {<<a, b, call.fp[a]>> : a \in chunk, b \in call.buckets}
           next == [call EXCEPT !.pc = "claim", !.rest = @ \ chunk, !.waits = {}, !.current = {}, !.decoded = {},
                        !.broken = FALSE, !.todo = keys]
<1>1. /\ call.rest \in SUBSET ThumbAssets /\ call.fp \in [ThumbAssets -> Nat] /\ call.buckets \in SUBSET Buckets
      /\ call.had \in SUBSET ThumbKeys
  BY CallShape
<1>2. chunk # {} /\ chunk \subseteq call.rest
  BY <1>1, ChunkTakes
<1> HIDE DEF chunk
<1>3. keys \in SUBSET ThumbKeys /\ keys # {}
  <2>1. ASSUME NEW a \in chunk, NEW b \in call.buckets
        PROVE  <<a, b, call.fp[a]>> \in ThumbKeys
    BY <1>1, <1>2 DEF ThumbKeys
  <2>2. PICK a \in chunk, y \in call.buckets : TRUE
    BY <1>2
  <2>3. <<a, y, call.fp[a]>> \in keys
    OBVIOUS
  <2>4. ASSUME NEW k \in keys
        PROVE  k \in ThumbKeys
    <3>1. PICK x \in chunk, b \in call.buckets : k = <<x, b, call.fp[x]>>
      BY DEF keys
    <3> QED BY <2>1, <3>1
  <2>5. keys \in SUBSET ThumbKeys
    <3> HIDE DEF keys
    <3> QED BY <2>4
  <2>6. keys # {}
    <3> HIDE DEF keys
    <3> QED BY <2>3
  <2> HIDE DEF keys
  <2> QED BY <2>5, <2>6
<1>4. \A k \in keys : 0 < k[3] /\ k[3] <= disk[k[1]]
  BY <1>1, <1>2 DEF keys
<1>5. \A a \in chunk, b \in call.buckets : <<a, b, call.fp[a]>> \in keys
  OBVIOUS
<1> HIDE DEF keys
<1>6. next \in CallerStates
  BY <1>1, <1>3 DEF CallerStates
<1>7. /\ next.pc = "claim" /\ next.rest = call.rest \ chunk /\ next.waits = {} /\ next.current = {} /\ next.decoded = {}
      /\ next.broken = FALSE /\ next.todo = keys /\ next.owned = {} /\ next.fp = call.fp /\ next.had = call.had
      /\ next.bad = call.bad /\ next.sweep = call.sweep /\ next.buckets = call.buckets
  BY DEF CallerStates
<1>8. WithChunk(call) = next
  BY DEF WithChunk, chunk, keys
<1> HIDE DEF next
<1>9. CallDated(next, disk)
  BY <1>1, <1>4, <1>7 DEF CallDated
<1>10. CallJoined(next, ends, stored)
  BY <1>7 DEF CallJoined
<1>11. CallStored(next, stored)
  BY <1>7 DEF CallStored
<1>12. ASSUME next.sweep, NEW a \in ThumbAssets, NEW b \in Buckets
       PROVE  a \in next.rest \/ <<a, b, next.fp[a]>> \in next.todo \cup next.had \cup {w[1] : w \in next.waits}
  BY <1>5, <1>7, <1>12
<1>13. CallCovers(next)
  <2>1. next.pc = "claim" <=> next.todo # {}
    BY <1>3, <1>7
  <2>2. next.buckets # {} /\ (next.sweep => next.buckets = Buckets)
    BY <1>7
  <2> QED BY <1>7, <1>12, <2>1, <2>2 DEF CallCovers
<1> QED BY <1>6, <1>7, <1>8, <1>9, <1>10, <1>11, <1>13 DEF CallInv

\* A call of generate that begins keeps the invariant.
LEMMA StartOK ==
    ASSUME ThumbInv, NEW c \in Callers, NEW assets \in SUBSET ThumbAssets, assets # {}, NEW buckets \in SUBSET Buckets,
           buckets # {}, NEW fp \in [ThumbAssets -> Nat], \A a \in ThumbAssets : 0 < fp[a] /\ fp[a] <= source[a],
           NEW force \in BOOLEAN, NEW sweep \in BOOLEAN, sweep => assets = ThumbAssets /\ buckets = Buckets,
           Start(c, assets, buckets, fp, force, sweep)
    PROVE  ThumbInv'
<1> DEFINE call == [IdleCaller EXCEPT !.rest = assets, !.buckets = buckets, !.fp = fp, !.force = force, !.sweep = sweep]
           r == WithChunk(call)
<1>1. /\ caller[c].pc = "idle" /\ caller' = [caller EXCEPT ![c] = r]
      /\ UNCHANGED <<source, thumbs, oldRows, flights, results, queue, everStored>>
  BY DEF Start
<1>2. /\ call \in CallerStates /\ call.rest = assets /\ call.owned = {} /\ call.buckets = buckets /\ call.had = {}
      /\ call.fp = fp /\ call.sweep = sweep
  BY DEF IdleCaller, CallerStates
<1> HIDE DEF call
<1>3. source \in [ThumbAssets -> {1, 2}] /\ results \in Seq(FlightStates) /\ caller[c] \in CallerStates
  BY DEF ThumbInv, ThumbTypeOK
<1>4. /\ r \in CallerStates /\ CallInv(r, source, results, everStored)
      /\ r.owned = {} /\ r.waits = {} /\ r.pc = "claim"
  BY <1>2, <1>3, ChunkOK
<1> HIDE DEF r
<1>5. caller[c].owned = {}
  BY <1>1 DEF ThumbInv, CallInv, CallJoined
<1>6. RegistryInv'
  <2>1. {} \in SUBSET caller[c].owned /\ r.owned = caller[c].owned \ {} /\ r.waits \subseteq caller[c].waits
    BY <1>4, <1>5
  <2>2. DOMAIN flights' = {k \in DOMAIN flights : <<k, flights[k]>> \notin {}} /\ \A k \in DOMAIN flights' : flights'[k] = flights[k]
    BY <1>1
  <2> QED BY <1>1, <1>4, <2>1, <2>2, RegistryMoves
<1>7. QueueInv' /\ queue' \in Seq(Commands)
  BY <1>1, <1>4, QueueKept
<1>8. \A d \in Callers \ {c} : \A w \in caller[d].waits : Landing(w, results', everStored)
  BY <1>1 DEF ThumbInv, CallInv, CallJoined
<1> QED BY <1>1, <1>3, <1>4, <1>6, <1>7, <1>8, CallMoves

\* A request begins with the fingerprints on disk.
LEMMA EnsureOK ==
    ASSUME ThumbInv, NEW c \in Callers, Ensure(c)
    PROVE  ThumbInv'
<1>1. PICK assets \in Requested, b \in Buckets : Start(c, assets, {b}, source, FALSE, FALSE)
  BY DEF Ensure
<1>2. assets \in SUBSET ThumbAssets /\ assets # {} /\ {b} \in SUBSET Buckets /\ {b} # {}
  OBVIOUS
<1>3. source \in [ThumbAssets -> {1, 2}]
  BY DEF ThumbInv, ThumbTypeOK
<1>4. source \in [ThumbAssets -> Nat] /\ \A a \in ThumbAssets : 0 < source[a] /\ source[a] <= source[a]
  BY <1>3
<1> QED BY <1>1, <1>2, <1>4, StartOK

\* The job begins with the fingerprints of some earlier scan.
LEMMA BackfillOK ==
    ASSUME ThumbInv, Backfill
    PROVE  ThumbInv'
<1>1. PICK fp \in [ThumbAssets -> 1 .. 2], o \in JobOptions :
          /\ \A a \in ThumbAssets : fp[a] <= source[a]
          /\ Start(BackfillJob, ThumbAssets, Buckets, fp, o[1], o[2])
  BY DEF Backfill
<1>2. o[1] \in BOOLEAN /\ o[2] \in BOOLEAN
  OBVIOUS
<1>3. fp \in [ThumbAssets -> Nat] /\ \A a \in ThumbAssets : 0 < fp[a] /\ fp[a] <= source[a]
  BY <1>1
<1> QED BY <1>1, <1>2, <1>3, StartOK

\* A call that only moves on, with what it holds, keeps what holds of it.
LEMMA CallTurns ==
    ASSUME NEW r \in CallerStates, NEW disk, NEW ends, NEW stored, CallInv(r, disk, ends, stored),
           NEW pc \in {"claim", "check", "asked", "decode", "persist", "storing", "complete", "wait",
                       "sweep", "sweeping", "answered"},
           pc = "claim" <=> r.todo # {}, r.pc # "idle",
           pc \in {"wait", "sweep", "sweeping", "answered"} => r.owned = {},
           pc \in {"persist", "storing"} => {d[1] : d \in r.decoded} = {o[1] : o \in r.owned} \ r.current,
           pc = "complete" /\ ~r.broken => {o[1] : o \in r.owned} \subseteq stored,
           pc \in {"sweep", "sweeping"} => r.sweep /\ ~r.bad /\ r.rest = {} /\ r.waits = {}
    PROVE  [r EXCEPT !.pc = pc] \in CallerStates /\ CallInv([r EXCEPT !.pc = pc], disk, ends, stored)
<1> DEFINE s == [r EXCEPT !.pc = pc]
<1>1. s \in CallerStates
  BY DEF CallerStates
<1>2. /\ s.pc = pc /\ s.rest = r.rest /\ s.fp = r.fp /\ s.todo = r.todo /\ s.buckets = r.buckets /\ s.sweep = r.sweep
      /\ s.waits = r.waits /\ s.owned = r.owned /\ s.current = r.current /\ s.decoded = r.decoded
      /\ s.broken = r.broken /\ s.bad = r.bad /\ s.had = r.had
  BY DEF CallerStates
<1> HIDE DEF s
<1>3. CallDated(s, disk)
  BY <1>2 DEF CallInv, CallDated
<1>4. CallJoined(s, ends, stored)
  BY <1>2 DEF CallInv, CallJoined
<1>5. CallStored(s, stored)
  BY <1>2 DEF CallInv, CallStored
<1>6. CallCovers(s)
  BY <1>2 DEF CallInv, CallCovers
<1> QED BY <1>1, <1>3, <1>4, <1>5, <1>6 DEF s, CallInv

\* A call that asks the writer, or returns to its client, keeps the invariant:
\* the registry and the results are left alone.
LEMMA CallAlone ==
    ASSUME ThumbInv, NEW c \in Callers, NEW r \in CallerStates, caller' = [caller EXCEPT ![c] = r],
           UNCHANGED <<source, thumbs, flights, results, everStored>>, oldRows' \subseteq oldRows,
           CallInv(r, source, results, everStored), r.owned = caller[c].owned, r.waits \subseteq caller[c].waits,
           QueueInv' /\ queue' \in Seq(Commands),
           ~r.force /\ r.pc \in {"decode", "persist", "storing"} =>
               \A k \in {o[1] : o \in r.owned} \ r.current : NotYetShared(k)
    PROVE  ThumbInv'
<1>1. RegistryInv'
  <2>1. {} \in SUBSET caller[c].owned /\ r.owned = caller[c].owned \ {}
    OBVIOUS
  <2>2. DOMAIN flights' = {k \in DOMAIN flights : <<k, flights[k]>> \notin {}} /\ \A k \in DOMAIN flights' : flights'[k] = flights[k]
    OBVIOUS
  <2> QED BY <2>1, <2>2, RegistryMoves
<1>2. \A d \in Callers \ {c} : \A w \in caller[d].waits : Landing(w, results', everStored)
  BY DEF ThumbInv, CallInv, CallJoined
<1>3. results' \in Seq(FlightStates)
  BY DEF ThumbInv, ThumbTypeOK
<1> QED BY <1>1, <1>2, <1>3, CallMoves

\* A call that asks what is current keeps the invariant.
LEMMA AskCurrentOK ==
    ASSUME ThumbInv, NEW c \in Callers, AskCurrent(c)
    PROVE  ThumbInv'
<1> DEFINE r == [caller[c] EXCEPT !.pc = "asked"]
           m == [kind |-> "current", from |-> c]
<1>1. /\ caller[c].pc = "check" /\ caller' = [caller EXCEPT ![c] = r] /\ queue' = Append(queue, m)
      /\ UNCHANGED <<source, thumbs, oldRows, flights, results, everStored>>
  BY DEF AskCurrent, Send
<1>2. caller[c] \in CallerStates /\ CallInv(caller[c], source, results, everStored) /\ caller \in [Callers -> CallerStates]
  BY DEF ThumbInv, ThumbTypeOK
<1>3. caller[c].todo = {}
  BY <1>1, <1>2 DEF CallInv, CallCovers
<1>4. r \in CallerStates /\ CallInv(r, source, results, everStored)
  BY <1>1, <1>2, <1>3, CallTurns
<1>5. r.pc = "asked" /\ r.owned = caller[c].owned /\ r.waits = caller[c].waits
  BY <1>2 DEF CallerStates
<1> HIDE DEF r
<1>6. m \in Commands /\ m.kind \in Asking /\ m.from = c /\ m.kind = "current"
  BY DEF Commands, Asking
<1>7. CommandOK(m)'
  BY <1>1, <1>2, <1>4, <1>5, <1>6 DEF CommandOK
<1> HIDE DEF m
<1>8. QueueInv' /\ queue' \in Seq(Commands)
  BY <1>1, <1>4, <1>6, <1>7, QueueSent
<1> QED BY <1>1, <1>4, <1>5, <1>8, CallAlone

\* A call that sends its batch keeps the invariant.
LEMMA SendBatchOK ==
    ASSUME ThumbInv, NEW c \in Callers, SendBatch(c)
    PROVE  ThumbInv'
<1> DEFINE r == [caller[c] EXCEPT !.pc = "storing"]
<1>0. PICK m : m = [kind |-> "store", from |-> c, rows |-> Decoded(c)]
  OBVIOUS
<1>1. /\ caller[c].pc = "persist" /\ caller' = [caller EXCEPT ![c] = r] /\ queue' = Append(queue, m)
      /\ UNCHANGED <<source, thumbs, oldRows, flights, results, everStored>>
  BY <1>0 DEF SendBatch
<1>2. caller[c] \in CallerStates /\ CallInv(caller[c], source, results, everStored) /\ caller \in [Callers -> CallerStates]
  BY DEF ThumbInv, ThumbTypeOK
<1>3. caller[c].todo = {} /\ {d[1] : d \in caller[c].decoded} = {o[1] : o \in caller[c].owned} \ caller[c].current
  BY <1>1, <1>2 DEF CallInv, CallCovers, CallStored
<1>4. r \in CallerStates /\ CallInv(r, source, results, everStored)
  BY <1>1, <1>2, <1>3, CallTurns
<1>5. /\ r.pc = "storing" /\ r.owned = caller[c].owned /\ r.waits = caller[c].waits /\ r.decoded = caller[c].decoded
      /\ r.force = caller[c].force /\ r.current = caller[c].current
  BY <1>2 DEF CallerStates
<1> HIDE DEF r
<1>6. Decoded(c) \in SUBSET PlacedRows
  <2>1. caller[c].decoded \in SUBSET (ThumbKeys \X Nat)
    BY <1>2, CallShape
  <2>2. ASSUME NEW d \in caller[c].decoded
        PROVE  [at |-> <<d[1][1], d[1][2]>>, row |-> [fp |-> d[1][3], seen |-> d[2], shared |-> TRUE]] \in PlacedRows
    <3>1. d[1] \in ThumbKeys /\ d[2] \in Nat
      BY <2>1
    <3>2. <<d[1][1], d[1][2]>> \in ThumbAssets \X Buckets /\ d[1][3] \in Nat
      BY <3>1 DEF ThumbKeys
    <3> QED BY <3>1, <3>2 DEF PlacedRows, ThumbRow
  <2> QED BY <2>2, Zenon DEF Decoded, Labelled
<1>7. m \in Commands /\ m.kind \in Asking /\ m.from = c /\ m.kind = "store" /\ m.rows = Decoded(c)
  BY <1>0, <1>6 DEF Commands, Asking
<1>8. Decoded(c)' = Decoded(c) /\ caller'[c] = r
  BY <1>1, <1>2, <1>4, <1>5 DEF Decoded, Labelled
<1>9. CommandOK(m)'
  BY <1>5, <1>7, <1>8 DEF CommandOK
<1>10. QueueInv' /\ queue' \in Seq(Commands)
  BY <1>1, <1>4, <1>7, <1>9, QueueSent
<1>11. ~r.force => \A k \in {o[1] : o \in r.owned} \ r.current : NotYetShared(k)
  BY <1>1, <1>5 DEF ThumbInv, SharedOnce, Missing
<1> QED BY <1>1, <1>4, <1>5, <1>10, <1>11, CallAlone

\* A backfill that asks for the sweep keeps the invariant.
LEMMA SendSweepOK ==
    ASSUME ThumbInv, NEW c \in Callers, SendSweep(c)
    PROVE  ThumbInv'
<1> DEFINE r == [caller[c] EXCEPT !.pc = "sweeping"]
           m == [kind |-> "sweep", from |-> c]
<1>1. /\ caller[c].pc = "sweep" /\ caller' = [caller EXCEPT ![c] = r] /\ queue' = Append(queue, m)
      /\ UNCHANGED <<source, thumbs, oldRows, flights, results, everStored>>
  BY DEF SendSweep, Send
<1>2. caller[c] \in CallerStates /\ CallInv(caller[c], source, results, everStored) /\ caller \in [Callers -> CallerStates]
  BY DEF ThumbInv, ThumbTypeOK
<1>3. /\ caller[c].todo = {} /\ caller[c].owned = {} /\ caller[c].sweep /\ ~caller[c].bad
      /\ caller[c].rest = {} /\ caller[c].waits = {}
  BY <1>1, <1>2 DEF CallInv, CallCovers, CallJoined
<1>4. r \in CallerStates /\ CallInv(r, source, results, everStored)
  BY <1>1, <1>2, <1>3, CallTurns
<1>5. r.pc = "sweeping" /\ r.owned = caller[c].owned /\ r.waits = caller[c].waits
  BY <1>2 DEF CallerStates
<1> HIDE DEF r
<1>6. m \in Commands /\ m.kind \in Asking /\ m.from = c /\ m.kind = "sweep"
  BY DEF Commands, Asking
<1>7. CommandOK(m)'
  BY <1>1, <1>2, <1>4, <1>5, <1>6 DEF CommandOK
<1> HIDE DEF m
<1>8. QueueInv' /\ queue' \in Seq(Commands)
  BY <1>1, <1>4, <1>6, <1>7, QueueSent
<1> QED BY <1>1, <1>4, <1>5, <1>8, CallAlone

\* A call that returns keeps the invariant.
LEMMA ReturnOK ==
    ASSUME ThumbInv, NEW c \in Callers, Return(c)
    PROVE  ThumbInv'
<1>1. /\ caller[c].pc = "answered" /\ caller' = [caller EXCEPT ![c] = IdleCaller]
      /\ UNCHANGED <<source, thumbs, oldRows, flights, results, queue, everStored>>
  BY DEF Return
<1>2. IdleCaller \in CallerStates /\ CallInv(IdleCaller, source, results, everStored)
  BY IdleOK
<1>3. caller[c].owned = {} /\ IdleCaller.owned = {} /\ IdleCaller.waits = {} /\ IdleCaller.pc = "idle"
  BY <1>1 DEF ThumbInv, CallInv, CallJoined, IdleCaller
<1>4. QueueInv' /\ queue' \in Seq(Commands)
  BY <1>1, <1>2, QueueKept
<1> QED BY <1>1, <1>2, <1>3, <1>4, CallAlone

\* What a call that completes some of its flights leaves in the registry.
LEMMA CallCompletes ==
    ASSUME ThumbInv, NEW c \in Callers, NEW r \in CallerStates, caller' = [caller EXCEPT ![c] = r],
           NEW completed \in SUBSET caller[c].owned, NEW outcome, Resolved(completed, outcome),
           r.owned = caller[c].owned \ completed, r.waits \subseteq caller[c].waits
    PROVE  RegistryInv'
<1>1. /\ DOMAIN flights' = {k \in DOMAIN flights : <<k, flights[k]>> \notin completed}
      /\ \A k \in DOMAIN flights' : flights'[k] = flights[k]
  BY DEF Resolved
<1> QED BY <1>1, RegistryMoves

\* A call whose flights landed, or go on, keeps what holds of it.
LEMMA CallLanded ==
    ASSUME NEW r, NEW disk, NEW ends, NEW stored, NEW waits, r.waits \subseteq waits,
           \A w \in waits : Landing(w, ends, stored), r.owned \subseteq r.waits,
           r.pc \in {"idle", "wait", "answered", "sweep", "sweeping"} => r.owned = {},
           CallDated(r, disk), CallStored(r, stored), CallCovers(r)
    PROVE  CallInv(r, disk, ends, stored)
<1>1. CallJoined(r, ends, stored)
  BY DEF CallJoined
<1> QED BY <1>1 DEF CallInv

\* A call that completes its flights keeps the invariant: what it files as stored
\* or cached was committed.
LEMMA CompleteOK ==
    ASSUME ThumbInv, NEW c \in Callers, Complete(c)
    PROVE  ThumbInv'
<1> DEFINE r == [caller[c] EXCEPT !.pc = "wait", !.owned = {}]
           outcome == [o \in caller[c].owned |-> Outcome(c, o[1])]
<1>1. /\ caller[c].pc = "complete" /\ caller' = [caller EXCEPT ![c] = r] /\ Resolved(caller[c].owned, outcome)
      /\ UNCHANGED <<source, thumbs, oldRows, queue, everStored>>
  BY DEF Complete
<1>2. caller[c] \in CallerStates /\ CallInv(caller[c], source, results, everStored) /\ caller \in [Callers -> CallerStates]
  BY DEF ThumbInv, ThumbTypeOK
<1>3. r \in CallerStates
  BY <1>2 DEF CallerStates
<1>4. /\ r.pc = "wait" /\ r.owned = {} /\ r.waits = caller[c].waits /\ r.rest = caller[c].rest /\ r.fp = caller[c].fp
      /\ r.todo = caller[c].todo /\ r.buckets = caller[c].buckets /\ r.sweep = caller[c].sweep
      /\ r.current = caller[c].current /\ r.decoded = caller[c].decoded /\ r.bad = caller[c].bad /\ r.had = caller[c].had
  BY <1>2 DEF CallerStates
<1>5. ASSUME NEW o \in caller[c].owned
      PROVE  /\ outcome[o] \in {"stored", "cached", "failed"}
             /\ outcome[o] # "failed" => o[1] \in everStored
  BY <1>1, <1>2, <1>5 DEF Outcome, CallInv, CallStored
<1> HIDE DEF r, outcome
<1>6. CallDated(r, source) /\ CallStored(r, everStored) /\ CallCovers(r)
  <2>1. CallDated(r, source)
    BY <1>2, <1>4 DEF CallInv, CallDated
  <2>2. CallStored(r, everStored)
    BY <1>2, <1>4 DEF CallInv, CallStored
  <2>3. CallCovers(r)
    BY <1>1, <1>2, <1>4 DEF CallInv, CallCovers
  <2> QED BY <2>1, <2>2, <2>3
<1>7. QueueInv' /\ queue' \in Seq(Commands)
  BY <1>1, <1>3, QueueKept
<1>8. caller[c].owned \in SUBSET caller[c].owned /\ r.owned = caller[c].owned \ caller[c].owned /\ r.owned \subseteq r.waits
  BY <1>4
<1>9. /\ results' \in Seq(FlightStates)
      /\ \A d \in Callers : \A w \in caller[d].waits : Landing(w, results', everStored)
  BY <1>1, <1>5, <1>8, ResolvedLanding
<1>10. RegistryInv'
  BY <1>1, <1>3, <1>4, <1>8, CallCompletes
<1>11. CallInv(r, source, results', everStored)
  BY <1>4, <1>6, <1>8, <1>9, CallLanded
<1> QED BY <1>1, <1>3, <1>4, <1>7, <1>9, <1>10, <1>11, CallMoves

\* A call that a panic takes keeps the invariant: all it owns fails.
LEMMA DecodePanicsOK ==
    ASSUME ThumbInv, NEW c \in Callers, DecodePanics(c)
    PROVE  ThumbInv'
<1> DEFINE outcome == [o \in caller[c].owned |-> "failed"]
<1>1. /\ caller[c].pc = "decode" /\ caller' = [caller EXCEPT ![c] = IdleCaller] /\ Resolved(caller[c].owned, outcome)
      /\ UNCHANGED <<source, thumbs, oldRows, queue, everStored>>
  BY DEF DecodePanics, Unwinds, FailAll
<1>2. IdleCaller \in CallerStates /\ CallInv(IdleCaller, source, results, everStored)
  BY IdleOK
<1>4. IdleCaller.owned = {} /\ IdleCaller.waits = {} /\ IdleCaller.pc = "idle"
  BY DEF IdleCaller
<1>5. \A o \in caller[c].owned : outcome[o] = "failed"
  OBVIOUS
<1> HIDE DEF outcome
<1>6. QueueInv' /\ queue' \in Seq(Commands)
  BY <1>1, <1>2, QueueKept
<1>7. /\ caller[c].owned \in SUBSET caller[c].owned /\ IdleCaller.owned = caller[c].owned \ caller[c].owned
      /\ IdleCaller.owned \subseteq IdleCaller.waits /\ IdleCaller.waits \subseteq caller[c].waits
  BY <1>4
<1>8. /\ results' \in Seq(FlightStates)
      /\ \A d \in Callers : \A w \in caller[d].waits : Landing(w, results', everStored)
  BY <1>1, <1>5, <1>7, ResolvedLanding
<1>9. RegistryInv'
  BY <1>1, <1>2, <1>7, CallCompletes
<1>10. CallInv(IdleCaller, source, results', everStored)
  BY IdleOK
<1> QED BY <1>1, <1>2, <1>4, <1>6, <1>8, <1>9, <1>10, CallMoves

\* A call that decodes what it found missing keeps the invariant: the flights of
\* an asset that cannot be decoded fail.
LEMMA DecodeClaimedOK ==
    ASSUME ThumbInv, NEW c \in Callers, DecodeClaimed(c)
    PROVE  ThumbInv'
<1>1. PICK bad \in SUBSET {k[1] : k \in Missing(c)} :
        LET lost == {o \in caller[c].owned : o[1][1] \in bad}
            good == {k \in Missing(c) : k[1] \notin bad}
        IN /\ caller' = [caller EXCEPT ![c].owned = @ \ lost,
                            ![c].decoded = {<<k, source[k[1]]>> : k \in good},
                            ![c].pc = IF good = {} THEN "complete" ELSE "persist"]
           /\ FailAll(lost)
  BY DEF DecodeClaimed
<1> DEFINE lost == {o \in caller[c].owned : o[1][1] \in bad}
           good == {k \in Missing(c) : k[1] \notin bad}
           new == {<<k, source[k[1]]>> : k \in good}
           r == [caller[c] EXCEPT !.owned = @ \ lost, !.decoded = new, !.pc = IF good = {} THEN "complete" ELSE "persist"]
           outcome == [o \in lost |-> "failed"]
<1>2. /\ caller[c].pc = "decode" /\ caller' = [caller EXCEPT ![c] = r] /\ Resolved(lost, outcome)
      /\ UNCHANGED <<source, thumbs, oldRows, queue, everStored>>
  <2>1. caller' = [caller EXCEPT ![c] = r] /\ FailAll(lost)
    BY <1>1, Zenon
  <2>2. Resolved(lost, outcome)
    BY <2>1 DEF FailAll
  <2> QED BY <2>1, <2>2 DEF DecodeClaimed
<1>3. caller[c] \in CallerStates /\ CallInv(caller[c], source, results, everStored) /\ caller \in [Callers -> CallerStates]
  BY DEF ThumbInv, ThumbTypeOK
<1>4. /\ source \in [ThumbAssets -> {1, 2}] /\ caller[c].owned \in SUBSET (ThumbKeys \X Nat)
      /\ \A k \in ThumbKeys : source[k[1]] \in Nat /\ k[3] \in Nat
  <2>1. source \in [ThumbAssets -> {1, 2}] /\ caller[c].owned \in SUBSET (ThumbKeys \X Nat)
    BY <1>3, CallShape DEF ThumbInv, ThumbTypeOK
  <2>2. ASSUME NEW k \in ThumbKeys
        PROVE  source[k[1]] \in Nat /\ k[3] \in Nat
    <3>1. k[1] \in ThumbAssets /\ k[3] \in Nat
      BY DEF ThumbKeys
    <3>2. source[k[1]] \in {1, 2}
      BY <2>1, <3>1
    <3> QED BY <3>1, <3>2
  <2> QED BY <2>1, <2>2
<1>5. /\ good \subseteq Missing(c) /\ Missing(c) \subseteq ThumbKeys
      /\ {o[1] : o \in caller[c].owned \ lost} \ caller[c].current = good
      /\ {o[1] : o \in caller[c].owned \ lost} \subseteq caller[c].current \cup good
  BY <1>4 DEF Missing
<1>6. new \in SUBSET (ThumbKeys \X Nat) /\ {d[1] : d \in new} = good
  <2>0. good \subseteq ThumbKeys
    BY <1>5
  <2> HIDE DEF good
  <2>1. ASSUME NEW k \in good
        PROVE  <<k, source[k[1]]>> \in ThumbKeys \X Nat /\ <<k, source[k[1]]>>[1] = k
    BY <1>4, <2>0
  <2>2. new \in SUBSET (ThumbKeys \X Nat)
    BY <2>1
  <2>3. ASSUME NEW k \in good
        PROVE  k \in {d[1] : d \in new}
    BY <2>1
  <2>4. ASSUME NEW d \in new
        PROVE  d[1] \in good
    <3>1. PICK k \in good : d = <<k, source[k[1]]>>
      OBVIOUS
    <3> QED BY <2>1, <3>1
  <2> HIDE DEF new
  <2>5. {d[1] : d \in new} \subseteq good
    BY <2>4
  <2>6. good \subseteq {d[1] : d \in new}
    BY <2>3
  <2> QED BY <2>2, <2>5, <2>6
<1>7. \A d \in new : d[1][3] <= d[2] /\ d[2] <= source[d[1][1]]
  <2>1. ASSUME NEW k \in Missing(c)
        PROVE  k[3] <= source[k[1]] /\ source[k[1]] \in Nat
    <3>1. PICK o \in caller[c].owned : k = o[1]
      BY DEF Missing
    <3>2. o[1][3] <= source[o[1][1]]
      BY <1>3 DEF CallInv, CallDated
    <3> QED BY <1>4, <1>5, <3>1, <3>2
  <2>2. ASSUME NEW k \in good
        PROVE  k[3] <= source[k[1]] /\ source[k[1]] <= source[k[1]]
    BY <2>1, <1>5
  <2> HIDE DEF good
  <2> QED BY <2>2
<1>8. lost \subseteq caller[c].owned /\ \A o \in lost : outcome[o] = "failed"
  OBVIOUS
<1> HIDE DEF new, good, lost, outcome
<1>9. r \in CallerStates
  BY <1>3, <1>4, <1>6 DEF CallerStates
<1>10. /\ r.pc = (IF good = {} THEN "complete" ELSE "persist") /\ r.owned = caller[c].owned \ lost /\ r.decoded = new
       /\ r.waits = caller[c].waits /\ r.rest = caller[c].rest /\ r.fp = caller[c].fp
       /\ r.todo = caller[c].todo /\ r.buckets = caller[c].buckets /\ r.sweep = caller[c].sweep /\ r.force = caller[c].force
       /\ r.current = caller[c].current /\ r.bad = caller[c].bad /\ r.had = caller[c].had
  BY <1>3 DEF CallerStates
<1> HIDE DEF r
<1>11. CallDated(r, source)
  BY <1>3, <1>7, <1>10 DEF CallInv, CallDated
<1>12. CallStored(r, everStored)
  <2>1. caller[c].current \subseteq everStored /\ (~caller[c].bad => caller[c].had \subseteq everStored)
    BY <1>3 DEF CallInv, CallStored
  <2>2. r.pc \in {"persist", "storing"} => {d[1] : d \in r.decoded} = {o[1] : o \in r.owned} \ r.current
    BY <1>5, <1>6, <1>10
  <2>3. r.pc = "complete" => {o[1] : o \in r.owned} \subseteq everStored
    BY <1>5, <1>10, <2>1
  <2> QED BY <1>10, <2>1, <2>2, <2>3 DEF CallStored
<1>13. CallCovers(r)
  <2>1. r.pc \in {"complete", "persist"}
    BY <1>10
  <2> QED BY <1>2, <1>3, <1>10, <2>1 DEF CallInv, CallCovers
<1>14. QueueInv' /\ queue' \in Seq(Commands)
  BY <1>2, <1>9, QueueKept
<1>15. ~r.force => \A k \in {o[1] : o \in r.owned} \ r.current : NotYetShared(k)
  BY <1>2, <1>5, <1>10 DEF ThumbInv, SharedOnce
<1>16. r.owned \subseteq r.waits /\ r.waits \subseteq caller[c].waits /\ r.pc \notin {"idle", "wait", "answered", "sweep", "sweeping"}
  BY <1>3, <1>10 DEF CallInv, CallJoined
<1>17. /\ results' \in Seq(FlightStates)
       /\ \A d \in Callers : \A w \in caller[d].waits : Landing(w, results', everStored)
  BY <1>2, <1>8, ResolvedLanding
<1>18. RegistryInv'
  BY <1>2, <1>8, <1>9, <1>10, <1>16, CallCompletes
<1>19. CallInv(r, source, results', everStored)
  BY <1>11, <1>12, <1>13, <1>16, <1>17, CallLanded
<1> QED BY <1>2, <1>9, <1>14, <1>15, <1>17, <1>18, <1>19, CallMoves

\* Flights that nobody else waits for are dropped; all others go on.
LEMMA DroppedLanding ==
    ASSUME ThumbInv, NEW c \in Callers, Dropped(c)
    PROVE  /\ results' \in Seq(FlightStates)
           /\ \A d \in Callers \ {c} : \A w \in caller[d].waits : Landing(w, results', everStored)
<1>1. results \in Seq(FlightStates) /\ DOMAIN results = 1 .. Len(results) /\ Len(results) \in Nat
  BY LenProperties DEF ThumbInv, ThumbTypeOK
<1>2. results' = [n \in DOMAIN results |->
          IF \E o \in Callers \ {c} : \E w \in caller[o].waits : w[2] = n THEN results[n] ELSE "dropped"]
  BY DEF Dropped
<1>3. \A n \in DOMAIN results : results[n] \in FlightStates
  BY <1>1
<1>4. \A n \in DOMAIN results : results'[n] \in FlightStates
  BY <1>2, <1>3 DEF FlightStates
<1>5. results' \in [1 .. Len(results) -> FlightStates]
  BY <1>1, <1>2, <1>4
<1>6. results' \in Seq(FlightStates)
  BY <1>1, <1>5
<1>7. ASSUME NEW d \in Callers \ {c}, NEW w \in caller[d].waits
      PROVE  Landing(w, results', everStored)
  <2>1. Landing(w, results, everStored)
    BY DEF ThumbInv, CallInv, CallJoined
  <2>2. w[2] \in DOMAIN results /\ DOMAIN results' = DOMAIN results /\ results'[w[2]] = results[w[2]]
    BY <1>2, <2>1 DEF Landing
  <2> QED BY <2>1, <2>2 DEF Landing
<1> QED BY <1>6, <1>7

\* A call whose flights have all landed keeps the invariant: without a failure
\* all it waited for is stored; then it goes on, sweeps or answers.
LEMMA FinishWaiterOK ==
    ASSUME ThumbInv, NEW c \in Callers, FinishWaiter(c)
    PROVE  ThumbInv'
<1> DEFINE bad == caller[c].bad \/ \E w \in caller[c].waits : results[w[2]] = "failed"
           had == caller[c].had \cup {w[1] : w \in caller[c].waits}
           pc == IF MaySweep(c, bad) THEN "sweep" ELSE "answered"
           done == [caller[c] EXCEPT !.bad = bad, !.waits = {}, !.had = had, !.pc = pc]
           next == IF done.rest = {} THEN done ELSE WithChunk(done)
<1>1. /\ caller[c].pc = "wait" /\ Landed(c) /\ Dropped(c)
      /\ UNCHANGED <<source, thumbs, oldRows, flights, queue, everStored>>
      /\ caller' = [caller EXCEPT ![c] = next] \/ caller' = [caller EXCEPT ![c] = IdleCaller]
  BY DEF FinishWaiter
<1>2. caller[c] \in CallerStates /\ CallInv(caller[c], source, results, everStored) /\ caller \in [Callers -> CallerStates]
  BY DEF ThumbInv, ThumbTypeOK
<1>3. /\ caller[c].rest \in SUBSET ThumbAssets /\ caller[c].waits \in SUBSET (ThumbKeys \X Nat)
      /\ caller[c].had \in SUBSET ThumbKeys /\ source \in [ThumbAssets -> {1, 2}]
      /\ caller[c].sweep \in BOOLEAN /\ caller[c].bad \in BOOLEAN
  BY <1>2, CallShape DEF ThumbInv, ThumbTypeOK
<1>4. had \in SUBSET ThumbKeys /\ bad \in BOOLEAN
  BY <1>3
<1>5. ~bad => had \subseteq everStored
  <2> SUFFICES ASSUME ~bad, NEW w \in caller[c].waits
               PROVE  w[1] \in everStored /\ caller[c].had \subseteq everStored
    BY <1>2 DEF CallInv, CallStored
  <2>1. Landing(w, results, everStored) /\ results[w[2]] # "running" /\ results[w[2]] # "failed"
    BY <1>1, <1>2 DEF CallInv, CallJoined, Landed
  <2>2. results[w[2]] \in FlightStates
    BY <2>1 DEF Landing, ThumbInv, ThumbTypeOK
  <2>3. caller[c].had \subseteq everStored
    BY <1>2 DEF CallInv, CallStored
  <2> QED BY <2>1, <2>2, <2>3 DEF Landing, FlightStates
<1>6. pc \in {"sweep", "answered"} /\ (pc = "sweep" => caller[c].sweep /\ ~bad)
  BY DEF MaySweep
<1>7. caller[c].todo = {} /\ caller[c].owned = {} /\ caller[c].buckets # {}
  BY <1>1, <1>2 DEF CallInv, CallCovers, CallJoined
<1>8. caller[c].sweep =>
          /\ caller[c].buckets = Buckets
          /\ \A a \in ThumbAssets, b \in Buckets : a \in caller[c].rest \/ <<a, b, caller[c].fp[a]>> \in had
  BY <1>1, <1>2, <1>7 DEF CallInv, CallCovers
<1> HIDE DEF bad, had, pc
<1>9. done \in CallerStates
  BY <1>2, <1>4, <1>6 DEF CallerStates
<1>10. /\ done.pc = pc /\ done.waits = {} /\ done.had = had /\ done.bad = bad /\ done.rest = caller[c].rest
       /\ done.fp = caller[c].fp /\ done.todo = {} /\ done.buckets = caller[c].buckets /\ done.sweep = caller[c].sweep
       /\ done.owned = {} /\ done.current = caller[c].current /\ done.decoded = caller[c].decoded
  BY <1>2, <1>7 DEF CallerStates
<1> HIDE DEF done
<1>11. ASSUME NEW r \in {IdleCaller, next}
       PROVE  /\ r \in CallerStates /\ CallInv(r, source, results', everStored)
              /\ r.owned = {} /\ r.waits = {} /\ r.pc \notin {"decode", "persist", "storing"}
  <2>1. CASE r = IdleCaller
    <3>1. r.owned = {} /\ r.waits = {} /\ r.pc = "idle"
      BY <2>1 DEF IdleCaller
    <3> QED BY <2>1, <3>1, IdleOK
  <2>2. CASE r = next /\ done.rest = {}
    <3>1. r = done
      BY <2>2
    <3>2. CallDated(done, source)
      BY <1>2, <1>10 DEF CallInv, CallDated
    <3>3. CallJoined(done, results', everStored)
      BY <1>10 DEF CallJoined
    <3>4. CallStored(done, everStored)
      BY <1>2, <1>5, <1>6, <1>10 DEF CallInv, CallStored
    <3>5. CallCovers(done)
      BY <1>6, <1>7, <1>8, <1>10, <2>2 DEF CallCovers
    <3> QED BY <1>6, <1>9, <1>10, <3>1, <3>2, <3>3, <3>4, <3>5 DEF CallInv
  <2>3. CASE r = next /\ done.rest # {}
    <3>1. r = WithChunk(done)
      BY <2>3
    <3>2. \A a \in done.rest : 0 < done.fp[a] /\ done.fp[a] <= source[a]
      BY <1>2, <1>10 DEF CallInv, CallDated
    <3>4. /\ done.rest # {} /\ done.owned = {} /\ done.buckets # {} /\ (~done.bad => done.had \subseteq everStored)
          /\ done.sweep => done.buckets = Buckets /\ \A a \in ThumbAssets, b \in Buckets :
                              a \in done.rest \/ <<a, b, done.fp[a]>> \in done.had
      BY <1>5, <1>7, <1>8, <1>10, <2>3
    <3>3. /\ r \in CallerStates /\ CallInv(r, source, results', everStored)
          /\ r.owned = {} /\ r.waits = {} /\ r.pc = "claim"
      BY <1>3, <1>9, <3>1, <3>2, <3>4, ChunkOK
    <3> QED BY <3>3
  <2> QED BY <2>1, <2>2, <2>3
<1>12. PICK r \in {IdleCaller, next} : caller' = [caller EXCEPT ![c] = r]
  BY <1>1
<1>13. r \in CallerStates /\ CallInv(r, source, results', everStored)
       /\ r.owned = {} /\ r.waits = {} /\ r.pc \notin {"decode", "persist", "storing"}
  BY <1>11
<1>14. RegistryInv'
  <2>1. {} \in SUBSET caller[c].owned /\ r.owned = caller[c].owned \ {} /\ r.waits \subseteq caller[c].waits
    BY <1>7, <1>13
  <2>2. DOMAIN flights' = {k \in DOMAIN flights : <<k, flights[k]>> \notin {}} /\ \A k \in DOMAIN flights' : flights'[k] = flights[k]
    BY <1>1
  <2> QED BY <1>12, <1>13, <2>1, <2>2, RegistryMoves
<1>15. QueueInv' /\ queue' \in Seq(Commands)
  BY <1>1, <1>12, <1>13, QueueKept
<1>16. /\ results' \in Seq(FlightStates)
       /\ \A d \in Callers \ {c} : \A w \in caller[d].waits : Landing(w, results', everStored)
  BY <1>1, DroppedLanding
<1> QED BY <1>1, <1>12, <1>13, <1>14, <1>15, <1>16, CallMoves

\* A call that claims its next key keeps the invariant: it owns a new flight, or
\* joins the flight of another owner.
LEMMA ClaimKeyOK ==
    ASSUME ThumbInv, NEW c \in Callers, ClaimKey(c)
    PROVE  ThumbInv'
<1> DEFINE k0 == CHOOSE k \in caller[c].todo : \A o \in caller[c].todo : o[1] > k[1] \/ (o[1] = k[1] /\ o[2] >= k[2])
<1>1. caller[c] \in CallerStates /\ CallInv(caller[c], source, results, everStored) /\ caller \in [Callers -> CallerStates]
  BY DEF ThumbInv, ThumbTypeOK
<1>2. /\ caller[c].pc = "claim" /\ caller[c].todo # {} /\ caller[c].todo \in SUBSET ThumbKeys
      /\ caller[c].waits \in SUBSET (ThumbKeys \X Nat) /\ caller[c].owned \in SUBSET (ThumbKeys \X Nat)
  BY <1>1, CallShape DEF ClaimKey, CallInv, CallCovers
<1>3. k0 \in caller[c].todo
  BY <1>2, FirstToClaim
<1> HIDE DEF k0
<1>4. PICK k \in caller[c].todo : k = k0
  BY <1>3
<1> DEFINE new == Len(results) + 1
           free == k \notin DOMAIN flights
           owned == caller[c].owned \cup (IF free THEN {<<k, new>>} ELSE {})
           pc == IF caller[c].todo # {k} THEN "claim" ELSE IF owned = {} THEN "wait"
                   ELSE IF caller[c].force THEN "decode" ELSE "check"
           n == IF free THEN new ELSE flights[k]
           r == [caller[c] EXCEPT !.todo = @ \ {k}, !.owned = owned, !.pc = pc, !.waits = @ \cup {<<k, n>>}]
<1>5. /\ IF free
         THEN /\ flights' = [f \in DOMAIN flights \cup {k} |-> IF f = k THEN new ELSE flights[f]]
              /\ results' = Append(results, "running")
         ELSE UNCHANGED <<flights, results>>
      /\ caller' = [caller EXCEPT ![c] = r]
      /\ UNCHANGED <<source, thumbs, oldRows, queue, everStored>>
  <2>1. /\ IF k0 \notin DOMAIN flights
           THEN /\ flights' = [f \in DOMAIN flights \cup {k0} |-> IF f = k0 THEN new ELSE flights[f]]
                /\ results' = Append(results, "running")
           ELSE UNCHANGED <<flights, results>>
        /\ caller' = [caller EXCEPT
              ![c].todo = @ \ {k0},
              ![c].owned = caller[c].owned \cup (IF k0 \notin DOMAIN flights THEN {<<k0, new>>} ELSE {}),
              ![c].pc = IF caller[c].todo # {k0} THEN "claim"
                        ELSE IF caller[c].owned \cup (IF k0 \notin DOMAIN flights THEN {<<k0, new>>} ELSE {}) = {} THEN "wait"
                        ELSE IF caller[c].force THEN "decode" ELSE "check",
              ![c].waits = @ \cup {<<k0, IF k0 \notin DOMAIN flights THEN new ELSE flights[k0]>>}]
        /\ UNCHANGED <<source, thumbs, oldRows, queue, everStored>>
    BY DEF ClaimKey, Claimable, k0
  <2> QED BY <1>1, <1>4, <2>1
<1>6. /\ k \in ThumbKeys /\ results \in Seq(FlightStates) /\ Len(results) \in Nat /\ DOMAIN results = 1 .. Len(results)
      /\ RegistryInv
  BY <1>2, LenProperties DEF ThumbInv, ThumbTypeOK
<1>7. /\ results' \in Seq(FlightStates) /\ \A i \in DOMAIN results : i \in DOMAIN results' /\ results'[i] = results[i]
      /\ free => new \in DOMAIN results' /\ results'[new] = "running" /\ new \notin DOMAIN results
  <2>1. CASE free
    <3>1. results' = Append(results, "running") /\ "running" \in FlightStates
      BY <1>5, <2>1 DEF FlightStates
    <3>2. /\ results' \in Seq(FlightStates) /\ DOMAIN results' = DOMAIN results \cup {new}
          /\ new \notin DOMAIN results /\ results'[new] = "running"
          /\ \A i \in DOMAIN results : results'[i] = results[i]
      BY <1>6, <3>1, Sent
    <3> QED BY <3>2
  <2>2. CASE ~free
    BY <1>5, <1>6, <2>2
  <2> QED BY <2>1, <2>2
<1>8. ASSUME ~free
      PROVE  \E d \in Callers : <<k, n>> \in caller[d].waits
  <2>1. PICK d \in Callers : <<k, flights[k]>> \in caller[d].owned
    BY <1>6, <1>8 DEF RegistryInv, FlightsOwned
  <2> QED BY <1>8, <2>1 DEF ThumbInv, CallInv, CallJoined
<1>9. <<k, n>> \in ThumbKeys \X Nat
  <2>1. CASE free
    BY <1>6, <2>1
  <2>2. CASE ~free
    <3>1. PICK d \in Callers : <<k, n>> \in caller[d].waits
      BY <1>8, <2>2
    <3>2. caller[d].waits \in SUBSET (ThumbKeys \X Nat)
      BY <1>1, CallShape
    <3> QED BY <3>1, <3>2
  <2> QED BY <2>1, <2>2
<1>10. \A d \in Callers : \A w \in caller[d].waits : Landing(w, results', everStored)
  <2> SUFFICES ASSUME NEW d \in Callers, NEW w \in caller[d].waits
               PROVE  Landing(w, results', everStored)
    OBVIOUS
  <2>1. Landing(w, results, everStored)
    BY DEF ThumbInv, CallInv, CallJoined
  <2> QED BY <1>7, <2>1 DEF Landing
<1>11. Landing(<<k, n>>, results', everStored)
  <2>1. CASE free
    BY <1>7, <2>1 DEF Landing
  <2>2. CASE ~free
    BY <1>8, <1>10, <2>2
  <2> QED BY <2>1, <2>2
<1>12. /\ owned \in SUBSET (ThumbKeys \X Nat) /\ owned \subseteq caller[c].owned \cup {<<k, n>>}
       /\ pc \in {"claim", "wait", "decode", "check"} /\ (pc = "claim" <=> caller[c].todo \ {k} # {})
       /\ pc = "wait" => owned = {}
       /\ pc = "decode" => caller[c].force
  BY <1>2, <1>4, <1>9
<1>13. /\ free => owned = caller[c].owned \cup {<<k, new>>} /\ n = new
       /\ ~free => owned = caller[c].owned /\ n = flights[k]
  OBVIOUS
<1> HIDE DEF owned, pc, n, free, new
<1>14. r \in CallerStates
  BY <1>1, <1>2, <1>9, <1>12 DEF CallerStates
<1>15. /\ r.pc = pc /\ r.owned = owned /\ r.waits = caller[c].waits \cup {<<k, n>>} /\ r.todo = caller[c].todo \ {k}
       /\ r.rest = caller[c].rest /\ r.fp = caller[c].fp /\ r.buckets = caller[c].buckets /\ r.sweep = caller[c].sweep
       /\ r.force = caller[c].force /\ r.current = caller[c].current /\ r.decoded = caller[c].decoded
       /\ r.bad = caller[c].bad /\ r.had = caller[c].had
  BY <1>1 DEF CallerStates
<1> HIDE DEF r
<1>16. CallDated(r, source)
  <2>1. 0 < k[3] /\ k[3] <= source[k[1]]
    BY <1>1, <1>4 DEF CallInv, CallDated
  <2>2. \A o \in owned : 0 < o[1][3] /\ o[1][3] <= source[o[1][1]]
    BY <1>1, <1>12, <2>1 DEF CallInv, CallDated
  <2> QED BY <1>1, <1>15, <2>2 DEF CallInv, CallDated
<1>17. CallStored(r, everStored)
  BY <1>1, <1>12, <1>15 DEF CallInv, CallStored
<1>18. CallCovers(r)
  <2>1. ASSUME r.sweep, NEW a \in ThumbAssets, NEW b \in Buckets
        PROVE  a \in r.rest \/ <<a, b, r.fp[a]>> \in r.todo \cup r.had \cup {w[1] : w \in r.waits}
    <3>1. a \in caller[c].rest \/ <<a, b, caller[c].fp[a]>> \in caller[c].todo \cup caller[c].had \cup {w[1] : w \in caller[c].waits}
      BY <1>1, <1>2, <1>15, <2>1 DEF CallInv, CallCovers
    <3>2. <<k, n>> \in r.waits /\ <<k, n>>[1] = k /\ caller[c].waits \subseteq r.waits
      BY <1>15
    <3>3. k \in {w[1] : w \in r.waits}
      BY <3>2
    <3>4. \A w \in caller[c].waits : w[1] \in {v[1] : v \in r.waits}
      BY <3>2
    <3> QED BY <1>15, <3>1, <3>3, <3>4
  <2>2. r.buckets # {} /\ (r.sweep => r.buckets = Buckets)
    BY <1>1, <1>2, <1>15 DEF CallInv, CallCovers
  <2>3. r.pc = "claim" <=> r.todo # {}
    BY <1>12, <1>15
  <2>4. r.pc \notin {"sweep", "sweeping"}
    BY <1>12, <1>15
  <2> QED BY <2>1, <2>2, <2>3, <2>4 DEF CallCovers
<1>19. CallInv(r, source, results', everStored)
  <2>1. r.owned \subseteq r.waits
    BY <1>1, <1>12, <1>15 DEF CallInv, CallJoined
  <2>2. r.pc \in {"idle", "wait", "answered", "sweep", "sweeping"} => r.owned = {}
    BY <1>12, <1>15
  <2>3. \A w \in r.waits : Landing(w, results', everStored)
    BY <1>10, <1>11, <1>15
  <2>4. r.waits \subseteq r.waits
    OBVIOUS
  <2> QED BY <1>16, <1>17, <1>18, <2>1, <2>2, <2>3, <2>4, CallLanded
<1>20. caller'[c] = r /\ \A d \in Callers \ {c} : caller'[d] = caller[d]
  BY <1>1, <1>5
<1>21. FlightsOwned'
  <2> SUFFICES ASSUME NEW f \in DOMAIN flights'
               PROVE  \E d \in Callers : <<f, flights'[f]>> \in caller'[d].owned
    BY DEF FlightsOwned
  <2>1. CASE free /\ f = k
    BY <1>5, <1>13, <1>15, <1>20, <2>1
  <2>2. CASE ~(free /\ f = k)
    <3>1. f \in DOMAIN flights /\ flights'[f] = flights[f]
      BY <1>5, <2>2 DEF free
    <3>2. PICK d \in Callers : <<f, flights[f]>> \in caller[d].owned
      BY <1>6, <3>1 DEF RegistryInv, FlightsOwned
    <3>3. caller[d].owned \subseteq caller'[d].owned
      BY <1>13, <1>15, <1>20
    <3> QED BY <3>1, <3>2, <3>3
  <2> QED BY <2>1, <2>2
<1>22. ASSUME NEW d \in Callers, NEW o \in caller'[d].owned
       PROVE  o[1] \in DOMAIN flights' /\ flights'[o[1]] = o[2]
  <2>1. CASE o \in caller[d].owned
    <3>1. o[1] \in DOMAIN flights /\ flights[o[1]] = o[2]
      BY <1>6, <2>1 DEF RegistryInv
    <3> QED BY <1>5, <3>1 DEF free
  <2>2. CASE o \notin caller[d].owned
    <3>1. free /\ o = <<k, new>>
      BY <1>13, <1>15, <1>20, <1>22, <2>2
    <3> QED BY <1>5, <3>1
  <2> QED BY <2>1, <2>2
<1>23. ASSUME NEW d \in Callers, NEW e \in Callers, d # e
       PROVE  caller'[d].owned \cap caller'[e].owned = {}
  <2>1. ASSUME NEW f \in Callers \ {c}
        PROVE  owned \cap caller[f].owned = {}
    <3>1. caller[c].owned \cap caller[f].owned = {}
      BY <1>6 DEF RegistryInv
    <3>2. free => <<k, new>> \notin caller[f].owned
      BY <1>6 DEF RegistryInv, free
    <3> QED BY <1>13, <3>1, <3>2
  <2> QED BY <1>6, <1>15, <1>20, <1>23, <2>1 DEF RegistryInv
<1>24. ASSUME NEW d \in Callers, NEW e \in Callers, NEW v \in caller'[d].waits, NEW w \in caller'[e].waits, v[2] = w[2]
       PROVE  v[1] = w[1]
  <2>1. ASSUME NEW f \in Callers, NEW x \in caller[f].waits, x[2] = n
        PROVE  x[1] = k
    <3>1. CASE free
      BY <1>7, <1>13, <2>1, <3>1 DEF ThumbInv, CallInv, CallJoined, Landing
    <3>2. CASE ~free
      <4>1. PICK g \in Callers : <<k, n>> \in caller[g].waits
        BY <1>8, <3>2
      <4> QED BY <1>6, <2>1, <4>1 DEF RegistryInv
    <3> QED BY <3>1, <3>2
  <2>2. v \in caller[d].waits \/ v = <<k, n>>
    BY <1>15, <1>20, <1>24
  <2>3. w \in caller[e].waits \/ w = <<k, n>>
    BY <1>15, <1>20, <1>24
  <2>4. CASE v \in caller[d].waits /\ w \in caller[e].waits
    BY <1>6, <1>24, <2>4 DEF RegistryInv
  <2>5. CASE v = <<k, n>>
    BY <1>24, <2>1, <2>3, <2>5
  <2>6. CASE w = <<k, n>>
    BY <1>24, <2>1, <2>2, <2>6
  <2> QED BY <2>2, <2>3, <2>4, <2>5, <2>6
<1>25. RegistryInv'
  BY <1>21, <1>22, <1>23, <1>24 DEF RegistryInv
<1>26. QueueInv' /\ queue' \in Seq(Commands)
  BY <1>2, <1>5, <1>14, QueueKept
<1>27. r.pc \notin {"persist", "storing"} /\ (r.pc = "decode" => r.force)
  BY <1>12, <1>15
<1> QED BY <1>5, <1>7, <1>10, <1>14, <1>19, <1>25, <1>26, <1>27, CallMoves

-----------------------------------------------------------------------------
(* The writer, the files and the commands of others.                         *)

\* The command that the writer serves is in order.
LEMMA HeadInOrder ==
    ASSUME ThumbInv, queue # <<>>
    PROVE  Head(queue) \in Commands /\ CommandOK(Head(queue))
<1>1. queue \in Seq(Commands) /\ QueueInv
  BY DEF ThumbInv, ThumbTypeOK
<1>2. Head(queue) \in Commands /\ Head(queue) = queue[1] /\ 1 \in DOMAIN queue
  BY <1>1, Received
<1> QED BY <1>1, <1>2 DEF QueueInv

\* What holds of a call goes on holding while rows are committed.
LEMMA StoredGrows ==
    ASSUME NEW r, NEW disk, NEW ends, NEW stored, NEW more, CallInv(r, disk, ends, stored), stored \subseteq more
    PROVE  CallInv(r, disk, ends, more)
<1>1. CallJoined(r, ends, more)
  BY DEF CallInv, CallJoined, Landing
<1>2. CallStored(r, more)
  BY DEF CallInv, CallStored
<1> QED BY <1>1, <1>2 DEF CallInv

\* A batch of true rows leaves true rows, and its keys committed.
LEMMA StoresOK ==
    ASSUME ThumbInv, NEW new \in SUBSET PlacedRows, Stores(new), \A x \in new : TrueRow(x.at[1], x.row), UNCHANGED source
    PROVE  /\ thumbs' \in [ThumbAssets \X Buckets -> ThumbRow] /\ everStored' \subseteq ThumbKeys
           /\ everStored \subseteq everStored' /\ RowsInv'
           /\ \A v \in ThumbAssets \X Buckets :
                  thumbs'[v] = thumbs[v] \/ \E x \in new : x.at = v /\ thumbs'[v] = x.row
           /\ \A x \in new : <<x.at[1], x.at[2], x.row.fp>> \in everStored'
<1> DEFINE at(v) == CHOOSE x \in new : x.at = v
<1>1. thumbs \in [ThumbAssets \X Buckets -> ThumbRow] /\ everStored \subseteq ThumbKeys /\ RowsInv
  BY DEF ThumbInv, ThumbTypeOK
<1>2. /\ thumbs' = [v \in DOMAIN thumbs |-> IF \E x \in new : x.at = v THEN at(v).row ELSE thumbs[v]]
      /\ everStored' = everStored \cup {<<x.at[1], x.at[2], x.row.fp>> : x \in new}
  BY DEF Stores, Upserted
<1>3. ASSUME NEW v, \E x \in new : x.at = v
      PROVE  at(v) \in new /\ at(v).at = v
  BY <1>3
<1> HIDE DEF at
<1>4. ASSUME NEW x \in new
      PROVE  /\ x.at \in ThumbAssets \X Buckets /\ x.row \in ThumbRow /\ x.row.fp \in Nat
             /\ <<x.at[1], x.at[2], x.row.fp>> \in ThumbKeys
  <2>1. x.at \in ThumbAssets \X Buckets /\ x.row \in ThumbRow
    BY DEF PlacedRows
  <2>2. x.row.fp \in Nat
    BY <2>1 DEF ThumbRow
  <2> QED BY <2>1, <2>2 DEF ThumbKeys
<1>5. ASSUME NEW v \in ThumbAssets \X Buckets
      PROVE  thumbs'[v] = thumbs[v] \/ \E x \in new : x.at = v /\ thumbs'[v] = x.row
  BY <1>1, <1>2, <1>3
<1>6. thumbs' \in [ThumbAssets \X Buckets -> ThumbRow]
  <2>1. ASSUME NEW v \in ThumbAssets \X Buckets
        PROVE  thumbs'[v] \in ThumbRow
    BY <1>1, <1>4, <1>5
  <2>2. DOMAIN thumbs' = ThumbAssets \X Buckets /\ thumbs' = [v \in DOMAIN thumbs' |-> thumbs'[v]]
    BY <1>1, <1>2
  <2> QED BY <2>1, <2>2
<1>7. everStored' \subseteq ThumbKeys /\ everStored \subseteq everStored' /\ \A x \in new : <<x.at[1], x.at[2], x.row.fp>> \in everStored'
  BY <1>1, <1>2, <1>4
<1>8. ASSUME NEW v \in ThumbAssets \X Buckets
      PROVE  TrueRow(v[1], thumbs[v])' /\ (thumbs'[v].fp # 0 => <<v[1], v[2], thumbs'[v].fp>> \in everStored')
  <2>1. CASE thumbs'[v] = thumbs[v]
    BY <1>1, <1>7, <2>1 DEF RowsInv, TrueRow
  <2>2. CASE \E x \in new : x.at = v /\ thumbs'[v] = x.row
    BY <1>7, <2>2 DEF TrueRow
  <2> QED BY <1>5, <2>1, <2>2
<1> QED BY <1>5, <1>6, <1>7, <1>8 DEF RowsInv

\* A file that changes keeps the invariant: what was read is of an older version.
LEMMA SwapSourceOK ==
    ASSUME ThumbInv, NEW a \in Touched, SwapSource(a)
    PROVE  ThumbInv'
<1>1. /\ source[a] = 1 /\ source' = [source EXCEPT ![a] = 2]
      /\ UNCHANGED <<thumbs, oldRows, flights, results, caller, queue, everStored>>
  BY DEF SwapSource
<1>2. source \in [ThumbAssets -> {1, 2}] /\ caller \in [Callers -> CallerStates] /\ thumbs \in [ThumbAssets \X Buckets -> ThumbRow]
      /\ queue \in Seq(Commands)
  BY DEF ThumbInv, ThumbTypeOK
<1>3. source' \in [ThumbAssets -> {1, 2}]
  BY <1>1, <1>2
<1>4. ASSUME NEW x \in ThumbAssets
      PROVE  source[x] \in Nat /\ source'[x] \in Nat /\ source[x] <= source'[x]
  <2>1. source[x] \in {1, 2} /\ source'[x] \in {1, 2} /\ (source'[x] = source[x] \/ (source[x] = 1 /\ source'[x] = 2))
    BY <1>1, <1>2, <1>3
  <2> QED BY <2>1
<1>5. ASSUME NEW x \in ThumbAssets, NEW n \in Nat, n <= source[x]
      PROVE  n <= source'[x]
  BY <1>4, <1>5
<1>6. ASSUME NEW c \in Callers
      PROVE  CallInv(caller[c], source', results, everStored)
  <2>1. CallInv(caller[c], source, results, everStored) /\ caller[c] \in CallerStates
    BY <1>2 DEF ThumbInv
  <2>2. /\ caller[c].rest \in SUBSET ThumbAssets /\ caller[c].fp \in [ThumbAssets -> Nat]
        /\ \A k \in caller[c].todo : k[1] \in ThumbAssets /\ k[3] \in Nat
        /\ \A o \in caller[c].owned : o[1][1] \in ThumbAssets /\ o[1][3] \in Nat
        /\ \A d \in caller[c].decoded : d[1][1] \in ThumbAssets /\ d[2] \in Nat
    BY <2>1, CallShape DEF ThumbKeys
  <2>3. CallDated(caller[c], source')
    BY <1>5, <2>1, <2>2 DEF CallInv, CallDated
  <2> QED BY <2>1, <2>3 DEF CallInv
<1>7. ASSUME NEW x \in ThumbAssets, NEW row \in ThumbRow, TrueRow(x, row)
      PROVE  TrueRow(x, row)'
  <2>1. row.seen \in Nat
    BY DEF ThumbRow
  <2> QED BY <1>5, <1>7, <2>1 DEF TrueRow
<1>8. ASSUME NEW m \in Commands, CommandOK(m)
      PROVE  CommandOK(m)'
  <2>1. CASE m.kind = "store"
    <3>1. Decoded(m.from)' = Decoded(m.from)
      BY <1>1 DEF Decoded, Labelled
    <3> QED BY <1>1, <1>8, <2>1, <3>1 DEF CommandOK
  <2>2. CASE m.kind = "put"
    <3>1. \A x \in m.rows : x.at[1] \in ThumbAssets /\ x.row \in ThumbRow
      BY <2>2, CommandShape DEF PlacedRows
    <3> QED BY <1>7, <1>8, <2>2, <3>1 DEF CommandOK
  <2>3. CASE m.kind \notin {"store", "put"}
    BY <1>1, <1>8, <2>3 DEF CommandOK
  <2> QED BY <2>1, <2>2, <2>3
<1>9. QueueInv'
  <2>1. ASSUME NEW i \in DOMAIN queue
        PROVE  CommandOK(queue[i])'
    <3>1. PICK m : m = queue[i]
      OBVIOUS
    <3>2. m \in Commands /\ CommandOK(m)
      BY <1>2, <3>1 DEF ThumbInv, QueueInv
    <3> QED BY <1>1, <1>8, <3>1, <3>2
  <2> QED BY <1>1, <2>1 DEF ThumbInv, QueueInv
<1>10. RowsInv'
  <2>1. ASSUME NEW v \in ThumbAssets \X Buckets
        PROVE  TrueRow(v[1], thumbs[v])'
    <3>1. PICK row \in ThumbRow : row = thumbs[v]
      BY <1>2
    <3>2. v[1] \in ThumbAssets /\ TrueRow(v[1], row)
      BY <3>1 DEF ThumbInv, RowsInv
    <3> QED BY <1>1, <1>7, <3>1, <3>2
  <2> QED BY <1>1, <2>1 DEF ThumbInv, RowsInv
<1>11. RegistryInv' /\ SharedOnce'
  BY <1>1 DEF ThumbInv, RegistryInv, FlightsOwned, SharedOnce, Missing, NotYetShared
<1>12. ThumbTypeOK'
  BY <1>1, <1>3 DEF ThumbInv, ThumbTypeOK
<1> QED BY <1>1, <1>6, <1>9, <1>10, <1>11, <1>12 DEF ThumbInv

\* A command of nobody's call keeps the invariant as it enters the queue.
LEMMA OutsideOK ==
    ASSUME ThumbInv, NEW m \in Commands, Outside(m), m.kind \notin Asking, CommandOK(m)'
    PROVE  ThumbInv'
<1>1. /\ queue' = Append(queue, m)
      /\ UNCHANGED <<source, thumbs, oldRows, flights, results, caller, everStored>>
  BY DEF Outside
<1>2. QueueInv' /\ queue' \in Seq(Commands)
  BY <1>1, QueuePlain
<1>3. RegistryInv' /\ SharedOnce' /\ RowsInv'
  BY <1>1 DEF ThumbInv, RegistryInv, FlightsOwned, SharedOnce, Missing, NotYetShared, RowsInv, TrueRow
<1>4. ThumbTypeOK'
  BY <1>1, <1>2 DEF ThumbInv, ThumbTypeOK
<1> QED BY <1>1, <1>2, <1>3, <1>4 DEF ThumbInv

\* An image that is put, samples that are stored and a deletion enter the queue.
LEMMA OthersOK ==
    ASSUME ThumbInv,
           \/ \E a \in Touched : StoreVideoSamples(a) \/ DeleteAsset(a)
           \/ \E v \in Touched \X Buckets : Put(v)
    PROVE  ThumbInv'
<1>1. \A a \in ThumbAssets : source[a] \in Nat
  <2>1. source \in [ThumbAssets -> {1, 2}]
    BY DEF ThumbInv, ThumbTypeOK
  <2> SUFFICES ASSUME NEW a \in ThumbAssets
               PROVE  source[a] \in Nat
    OBVIOUS
  <2>2. source[a] \in {1, 2}
    BY <2>1
  <2> QED BY <2>2
<1>2. ASSUME NEW a \in Touched, DeleteAsset(a)
      PROVE  ThumbInv'
  <2> DEFINE m == [kind |-> "delete", asset |-> a]
  <2>1. m \in Commands /\ m.kind = "delete" /\ Outside(m)
    BY <1>2 DEF Commands, DeleteAsset
  <2>2. m.kind \notin Asking /\ CommandOK(m)'
    BY <2>1 DEF Asking, CommandOK
  <2> HIDE DEF m
  <2> QED BY <2>1, <2>2, OutsideOK
<1>3. ASSUME NEW rows \in SUBSET PlacedRows, Outside([kind |-> "put", rows |-> rows]),
             \A x \in rows : ~x.row.shared /\ TrueRow(x.at[1], x.row)
      PROVE  ThumbInv'
  <2> DEFINE m == [kind |-> "put", rows |-> rows]
  <2>1. m \in Commands /\ m.kind = "put" /\ m.rows = rows /\ Outside(m)
    BY <1>3 DEF Commands
  <2>2. m.kind \notin Asking /\ source' = source
    BY <2>1 DEF Asking, Outside
  <2> HIDE DEF m
  <2>3. CommandOK(m)'
    BY <1>3, <2>1, <2>2 DEF CommandOK, TrueRow
  <2> QED BY <2>1, <2>2, <2>3, OutsideOK
<1>4. ASSUME NEW v \in Touched \X Buckets, Put(v)
      PROVE  ThumbInv'
  <2>1. PICK rows : rows = {[at |-> v, row |-> [fp |-> source[v[1]], seen |-> 0, shared |-> FALSE]]}
    OBVIOUS
  <2>2. v \in ThumbAssets \X Buckets /\ source[v[1]] \in Nat
    BY <1>1
  <2>3. rows \in SUBSET PlacedRows
    BY <2>1, <2>2 DEF PlacedRows, ThumbRow
  <2>4. \A x \in rows : ~x.row.shared /\ TrueRow(x.at[1], x.row)
    BY <2>1 DEF TrueRow
  <2> QED BY <1>3, <1>4, <2>1, <2>3, <2>4 DEF Put
<1>5. ASSUME NEW a \in Touched, StoreVideoSamples(a)
      PROVE  ThumbInv'
  <2>1. PICK fp \in 1 .. source[a] : Outside([kind |-> "put", rows |->
            {[at |-> <<a, b>>, row |-> [fp |-> fp, seen |-> source[a], shared |-> FALSE]] : b \in Buckets}])
    BY <1>5 DEF StoreVideoSamples
  <2>2. PICK rows : rows = {[at |-> <<a, b>>, row |-> [fp |-> fp, seen |-> source[a], shared |-> FALSE]] : b \in Buckets}
    OBVIOUS
  <2>3. a \in ThumbAssets /\ source[a] \in Nat /\ fp \in Nat /\ fp <= source[a]
    BY <1>1, <2>1
  <2>4. rows \in SUBSET PlacedRows
    <3>1. ASSUME NEW b \in Buckets
          PROVE  [at |-> <<a, b>>, row |-> [fp |-> fp, seen |-> source[a], shared |-> FALSE]] \in PlacedRows
      BY <2>3 DEF PlacedRows, ThumbRow
    <3> QED BY <2>2, <3>1
  <2>5. \A x \in rows : ~x.row.shared /\ TrueRow(x.at[1], x.row)
    BY <2>2, <2>3 DEF TrueRow
  <2> QED BY <1>3, <2>1, <2>2, <2>4, <2>5
<1> QED BY <1>2, <1>4, <1>5

\* The writer that looks up what is current keeps the invariant; an error fails
\* all that its caller owns.
LEMMA WriteCurrentOK ==
    ASSUME ThumbInv, WriteCurrent
    PROVE  ThumbInv'
<1>1. /\ queue # <<>> /\ Head(queue).kind = "current" /\ queue' = Tail(queue)
      /\ UNCHANGED <<source, thumbs, oldRows, everStored>>
  BY DEF WriteCurrent, Serves
<1>2. Head(queue) \in Commands /\ CommandOK(Head(queue)) /\ Head(queue).kind \in Asking
  BY <1>1, HeadInOrder DEF Asking
<1>3. PICK c \in Callers : c = Head(queue).from
  BY <1>2, CommandShape
<1>4. caller[c].pc = "asked"
  BY <1>1, <1>2, <1>3 DEF CommandOK
<1>5. caller[c] \in CallerStates /\ CallInv(caller[c], source, results, everStored) /\ caller \in [Callers -> CallerStates]
  BY DEF ThumbInv, ThumbTypeOK
<1>6. caller[c].todo = {} /\ caller[c].buckets # {} /\ caller[c].owned \in SUBSET (ThumbKeys \X Nat)
  BY <1>4, <1>5, CallShape DEF CallInv, CallCovers
<1> DEFINE current == {k \in {o[1] : o \in caller[c].owned} : thumbs[<<k[1], k[2]>>].fp = k[3]}
           found == [caller[c] EXCEPT !.pc = "decode", !.current = current]
           failed == [caller[c] EXCEPT !.pc = "wait", !.owned = {}]
           outcome == [o \in caller[c].owned |-> "failed"]
<1>7. CASE caller' = [caller EXCEPT ![c] = found] /\ UNCHANGED <<flights, results>>
  <2>1. current \in SUBSET ThumbKeys /\ current \subseteq everStored
    <3>1. ASSUME NEW o \in caller[c].owned, thumbs[<<o[1][1], o[1][2]>>].fp = o[1][3]
          PROVE  o[1] \in ThumbKeys /\ o[1] \in everStored
      <4>1. o[1] \in ThumbKeys
        BY <1>6
      <4>2. <<o[1][1], o[1][2]>> \in ThumbAssets \X Buckets /\ o[1] = <<o[1][1], o[1][2], o[1][3]>>
        BY <4>1 DEF ThumbKeys
      <4>3. o[1][3] # 0
        <5>1. 0 < o[1][3] /\ o[1][3] \in Nat
          BY <1>5, <4>1 DEF CallInv, CallDated, ThumbKeys
        <5> QED BY <5>1
      <4>4. PICK v \in ThumbAssets \X Buckets : v = <<o[1][1], o[1][2]>> /\ v[1] = o[1][1] /\ v[2] = o[1][2]
        BY <4>2
      <4>5. thumbs[v].fp # 0 => <<v[1], v[2], thumbs[v].fp>> \in everStored
        BY DEF ThumbInv, RowsInv
      <4> QED BY <3>1, <4>1, <4>2, <4>3, <4>4, <4>5
    <3> QED BY <3>1
  <2>2. \A k \in {o[1] : o \in caller[c].owned} \ current : NotYetShared(k)
    BY DEF NotYetShared
  <2> HIDE DEF current
  <2>3. found \in CallerStates
    BY <1>5, <2>1 DEF CallerStates
  <2>4. /\ found.pc = "decode" /\ found.owned = caller[c].owned /\ found.waits = caller[c].waits /\ found.todo = caller[c].todo
        /\ found.rest = caller[c].rest /\ found.fp = caller[c].fp /\ found.buckets = caller[c].buckets
        /\ found.sweep = caller[c].sweep /\ found.current = current /\ found.decoded = caller[c].decoded
        /\ found.bad = caller[c].bad /\ found.had = caller[c].had
    BY <1>5 DEF CallerStates
  <2> DEFINE r == found
  <2> HIDE DEF found
  <2>5. CallDated(found, source) /\ CallJoined(found, results, everStored)
    BY <1>4, <1>5, <2>4 DEF CallInv, CallDated, CallJoined
  <2>6. CallStored(found, everStored)
    BY <1>5, <2>1, <2>4 DEF CallInv, CallStored
  <2>7. CallCovers(found)
    BY <1>4, <1>5, <1>6, <2>4 DEF CallInv, CallCovers
  <2>8. CallInv(found, source, results, everStored)
    BY <2>5, <2>6, <2>7 DEF CallInv
  <2>9. QueueInv' /\ queue' \in Seq(Commands)
    BY <1>1, <1>2, <1>3, <1>7, <2>3, QueueAnswered
  <2>10. \A k \in {o[1] : o \in found.owned} \ found.current : NotYetShared(k)
    BY <2>2, <2>4
  <2> QED BY <1>1, <1>7, <2>3, <2>4, <2>8, <2>9, <2>10, CallAlone
<1>8. CASE caller' = [caller EXCEPT ![c] = failed] /\ Resolved(caller[c].owned, outcome)
  <2>1. failed \in CallerStates
    BY <1>5 DEF CallerStates
  <2>2. /\ failed.pc = "wait" /\ failed.owned = {} /\ failed.waits = caller[c].waits /\ failed.todo = caller[c].todo
        /\ failed.rest = caller[c].rest /\ failed.fp = caller[c].fp /\ failed.buckets = caller[c].buckets
        /\ failed.sweep = caller[c].sweep /\ failed.current = caller[c].current /\ failed.decoded = caller[c].decoded
        /\ failed.bad = caller[c].bad /\ failed.had = caller[c].had
    BY <1>5 DEF CallerStates
  <2>3. \A o \in caller[c].owned : outcome[o] = "failed"
    OBVIOUS
  <2> HIDE DEF failed, outcome
  <2>4. CallDated(failed, source) /\ CallStored(failed, everStored)
    BY <1>4, <1>5, <2>2 DEF CallInv, CallDated, CallStored
  <2>5. CallCovers(failed)
    BY <1>4, <1>5, <1>6, <2>2 DEF CallInv, CallCovers
  <2>6. /\ caller[c].owned \in SUBSET caller[c].owned /\ failed.owned = caller[c].owned \ caller[c].owned
        /\ failed.owned \subseteq failed.waits /\ failed.waits \subseteq caller[c].waits
    BY <2>2
  <2>7. /\ results' \in Seq(FlightStates)
        /\ \A d \in Callers : \A w \in caller[d].waits : Landing(w, results', everStored)
    BY <1>8, <2>3, <2>6, ResolvedLanding
  <2>8. RegistryInv'
    BY <1>8, <2>1, <2>6, CallCompletes
  <2>9. CallInv(failed, source, results', everStored)
    BY <2>2, <2>4, <2>5, <2>6, <2>7, CallLanded
  <2>10. QueueInv' /\ queue' \in Seq(Commands)
    BY <1>1, <1>2, <1>3, <1>8, <2>1, QueueAnswered
  <2> QED BY <1>1, <1>8, <2>1, <2>2, <2>7, <2>8, <2>9, <2>10, CallMoves
<1> QED BY <1>3, <1>7, <1>8 DEF WriteCurrent, FailAll

\* The writer that sweeps keeps the invariant, whether or not the sweep fails.
LEMMA WriteSweepOK ==
    ASSUME ThumbInv, WriteSweep
    PROVE  ThumbInv'
<1>1. /\ queue # <<>> /\ Head(queue).kind = "sweep" /\ queue' = Tail(queue)
      /\ UNCHANGED <<source, thumbs, flights, results, everStored>> /\ oldRows' \subseteq oldRows
  BY DEF WriteSweep, Serves
<1>2. Head(queue) \in Commands /\ CommandOK(Head(queue)) /\ Head(queue).kind \in Asking
  BY <1>1, HeadInOrder DEF Asking
<1>3. PICK c \in Callers : c = Head(queue).from
  BY <1>2, CommandShape
<1> DEFINE r == [caller[c] EXCEPT !.pc = "answered"]
<1>4. caller[c].pc = "sweeping" /\ caller' = [caller EXCEPT ![c] = r]
  BY <1>1, <1>2, <1>3 DEF CommandOK, WriteSweep
<1>5. caller[c] \in CallerStates /\ CallInv(caller[c], source, results, everStored) /\ caller \in [Callers -> CallerStates]
  BY DEF ThumbInv, ThumbTypeOK
<1>6. caller[c].todo = {} /\ caller[c].owned = {}
  BY <1>4, <1>5 DEF CallInv, CallCovers, CallJoined
<1>7. r \in CallerStates /\ CallInv(r, source, results, everStored)
  BY <1>4, <1>5, <1>6, CallTurns
<1>8. r.pc = "answered" /\ r.owned = caller[c].owned /\ r.waits = caller[c].waits
  BY <1>5 DEF CallerStates
<1> HIDE DEF r
<1>9. QueueInv' /\ queue' \in Seq(Commands)
  BY <1>1, <1>2, <1>3, <1>4, <1>7, QueueAnswered
<1> QED BY <1>1, <1>4, <1>7, <1>8, <1>9, CallAlone

\* The writer that deletes an asset keeps the invariant.
LEMMA WriteDeleteOK ==
    ASSUME ThumbInv, WriteDelete
    PROVE  ThumbInv'
<1>1. PICK a : a = Head(queue).asset
  OBVIOUS
<1>2. /\ queue # <<>> /\ queue' = Tail(queue)
      /\ thumbs' = [v \in DOMAIN thumbs |-> IF v[1] = a THEN NoThumb ELSE thumbs[v]] /\ oldRows' = oldRows \ {a}
      /\ UNCHANGED <<source, flights, results, caller, everStored>>
  BY <1>1 DEF WriteDelete, Serves
<1>3. thumbs \in [ThumbAssets \X Buckets -> ThumbRow] /\ NoThumb \in ThumbRow
  BY DEF ThumbInv, ThumbTypeOK, NoThumb, ThumbRow
<1>4. thumbs' \in [ThumbAssets \X Buckets -> ThumbRow]
  BY <1>2, <1>3
<1>5. \A v \in ThumbAssets \X Buckets : thumbs'[v] = NoThumb \/ thumbs'[v] = thumbs[v]
  BY <1>2, <1>3
<1>6. QueueInv' /\ queue' \in Seq(Commands)
  BY <1>2, QueuePlain
<1>7. RowsInv'
  <2> SUFFICES ASSUME NEW v \in ThumbAssets \X Buckets
               PROVE  TrueRow(v[1], thumbs[v])' /\ (thumbs'[v].fp # 0 => <<v[1], v[2], thumbs'[v].fp>> \in everStored')
    BY DEF RowsInv
  <2>1. TrueRow(v[1], thumbs[v]) /\ (thumbs[v].fp # 0 => <<v[1], v[2], thumbs[v].fp>> \in everStored)
    BY DEF ThumbInv, RowsInv
  <2>4. source' = source /\ everStored' = everStored
    BY <1>2
  <2>2. CASE thumbs'[v] = thumbs[v]
    BY <2>1, <2>2, <2>4 DEF TrueRow
  <2>3. CASE thumbs'[v] = NoThumb
    BY <2>3 DEF TrueRow, NoThumb
  <2> QED BY <1>5, <2>2, <2>3
<1>8. SharedOnce'
  <2> SUFFICES ASSUME NEW c \in Callers, ~caller[c].force, caller[c].pc \in {"decode", "persist", "storing"}, NEW k \in Missing(c)
               PROVE  NotYetShared(k)'
    BY <1>2 DEF SharedOnce, Missing
  <2>1. NotYetShared(k)
    BY DEF ThumbInv, SharedOnce
  <2>2. <<k[1], k[2]>> \in ThumbAssets \X Buckets
    <3>1. caller[c].owned \in SUBSET (ThumbKeys \X Nat)
      BY CallShape DEF ThumbInv, ThumbTypeOK
    <3>2. k \in ThumbKeys
      BY <3>1 DEF Missing
    <3> QED BY <3>2 DEF ThumbKeys
  <2> QED BY <1>5, <2>1, <2>2 DEF NotYetShared, NoThumb
<1>9. RegistryInv'
  BY <1>2 DEF ThumbInv, RegistryInv, FlightsOwned
<1>10. ThumbTypeOK'
  BY <1>2, <1>4, <1>6 DEF ThumbInv, ThumbTypeOK
<1> QED BY <1>2, <1>6, <1>7, <1>8, <1>9, <1>10 DEF ThumbInv

\* The writer that puts an image or samples keeps the invariant.
LEMMA WritePutOK ==
    ASSUME ThumbInv, WritePut
    PROVE  ThumbInv'
<1>1. /\ queue # <<>> /\ Head(queue).kind = "put" /\ queue' = Tail(queue)
      /\ UNCHANGED <<source, oldRows, flights, results, caller>>
      /\ Stores(Head(queue).rows) \/ UNCHANGED <<thumbs, everStored>>
  BY DEF WritePut, Serves
<1>2. PICK rows : rows = Head(queue).rows
  OBVIOUS
<1>3. rows \in SUBSET PlacedRows /\ \A x \in rows : ~x.row.shared /\ TrueRow(x.at[1], x.row)
  BY <1>1, <1>2, HeadInOrder, CommandShape DEF CommandOK
<1>4. QueueInv' /\ queue' \in Seq(Commands)
  BY <1>1, QueuePlain
<1>5. RegistryInv'
  BY <1>1 DEF ThumbInv, RegistryInv, FlightsOwned
<1>6. CASE UNCHANGED <<thumbs, everStored>>
  <2>1. SharedOnce' /\ RowsInv'
    BY <1>1, <1>6 DEF ThumbInv, SharedOnce, Missing, NotYetShared, RowsInv, TrueRow
  <2>2. ThumbTypeOK'
    BY <1>1, <1>4, <1>6 DEF ThumbInv, ThumbTypeOK
  <2> QED BY <1>1, <1>4, <1>5, <1>6, <2>1, <2>2 DEF ThumbInv
<1>7. CASE Stores(rows)
  <2>1. /\ thumbs' \in [ThumbAssets \X Buckets -> ThumbRow] /\ everStored' \subseteq ThumbKeys
        /\ everStored \subseteq everStored' /\ RowsInv'
        /\ \A v \in ThumbAssets \X Buckets : thumbs'[v] = thumbs[v] \/ \E x \in rows : x.at = v /\ thumbs'[v] = x.row
    BY <1>1, <1>3, <1>7, StoresOK
  <2>2. SharedOnce'
    <3> SUFFICES ASSUME NEW c \in Callers, ~caller[c].force, caller[c].pc \in {"decode", "persist", "storing"}, NEW k \in Missing(c)
                 PROVE  NotYetShared(k)'
      BY <1>1 DEF SharedOnce, Missing
    <3>1. NotYetShared(k)
      BY DEF ThumbInv, SharedOnce
    <3>2. <<k[1], k[2]>> \in ThumbAssets \X Buckets
      <4>1. caller[c].owned \in SUBSET (ThumbKeys \X Nat)
        BY CallShape DEF ThumbInv, ThumbTypeOK
      <4>2. k \in ThumbKeys
        BY <4>1 DEF Missing
      <4> QED BY <4>2 DEF ThumbKeys
    <3> QED BY <1>3, <2>1, <3>1, <3>2 DEF NotYetShared
  <2>3. ThumbTypeOK'
    BY <1>1, <1>4, <2>1 DEF ThumbInv, ThumbTypeOK
  <2>4. ASSUME NEW c \in Callers
        PROVE  CallInv(caller[c], source, results, everStored')
    BY <2>1, StoredGrows DEF ThumbInv
  <2> QED BY <1>1, <1>4, <1>5, <2>1, <2>2, <2>3, <2>4 DEF ThumbInv
<1> QED BY <1>1, <1>2, <1>6, <1>7

\* The writer that commits a batch, or fails to, keeps the invariant: no other
\* call has decoded these variants, since one owner has each of them.
LEMMA WriteBatchOK ==
    ASSUME ThumbInv, WriteBatch
    PROVE  ThumbInv'
<1>1. /\ queue # <<>> /\ Head(queue).kind = "store" /\ queue' = Tail(queue)
      /\ UNCHANGED <<source, oldRows, flights, results>>
  BY DEF WriteBatch, Serves
<1>2. Head(queue) \in Commands /\ CommandOK(Head(queue)) /\ Head(queue).kind \in Asking
  BY <1>1, HeadInOrder DEF Asking
<1>3. PICK c \in Callers : c = Head(queue).from
  BY <1>2, CommandShape
<1>4. PICK rows : rows = Head(queue).rows
  OBVIOUS
<1>5. caller[c].pc = "storing" /\ rows = Decoded(c) /\ rows \in SUBSET PlacedRows
  BY <1>1, <1>2, <1>3, <1>4, CommandShape DEF CommandOK
<1>6. caller[c] \in CallerStates /\ CallInv(caller[c], source, results, everStored) /\ caller \in [Callers -> CallerStates]
  BY DEF ThumbInv, ThumbTypeOK
<1>7. /\ caller[c].todo = {} /\ caller[c].owned \in SUBSET (ThumbKeys \X Nat) /\ caller[c].decoded \in SUBSET (ThumbKeys \X Nat)
      /\ {d[1] : d \in caller[c].decoded} = {o[1] : o \in caller[c].owned} \ caller[c].current
      /\ caller[c].current \subseteq everStored
  BY <1>5, <1>6, CallShape DEF CallInv, CallCovers, CallStored
<1> DEFINE stored == [caller[c] EXCEPT !.pc = "complete"]
           broken == [caller[c] EXCEPT !.pc = "complete", !.broken = TRUE]
<1>8. CASE caller' = [caller EXCEPT ![c] = broken] /\ UNCHANGED <<thumbs, everStored>>
  <2>1. broken \in CallerStates
    BY <1>6 DEF CallerStates
  <2>2. /\ broken.pc = "complete" /\ broken.owned = caller[c].owned /\ broken.waits = caller[c].waits
        /\ broken.todo = caller[c].todo /\ broken.broken = TRUE
        /\ broken.rest = caller[c].rest /\ broken.fp = caller[c].fp /\ broken.buckets = caller[c].buckets
        /\ broken.sweep = caller[c].sweep /\ broken.current = caller[c].current /\ broken.decoded = caller[c].decoded
        /\ broken.bad = caller[c].bad /\ broken.had = caller[c].had
    BY <1>6 DEF CallerStates
  <2> HIDE DEF broken
  <2>3. CallDated(broken, source) /\ CallJoined(broken, results, everStored)
    BY <1>6, <2>2 DEF CallInv, CallDated, CallJoined
  <2>4. CallStored(broken, everStored)
    BY <1>6, <2>2 DEF CallInv, CallStored
  <2>5. CallCovers(broken)
    BY <1>5, <1>6, <1>7, <2>2 DEF CallInv, CallCovers
  <2>6. CallInv(broken, source, results, everStored)
    BY <2>3, <2>4, <2>5 DEF CallInv
  <2>7. QueueInv' /\ queue' \in Seq(Commands)
    BY <1>1, <1>2, <1>3, <1>8, <2>1, QueueAnswered
  <2> QED BY <1>1, <1>8, <2>1, <2>2, <2>6, <2>7, CallAlone
<1>9. CASE caller' = [caller EXCEPT ![c] = stored] /\ Stores(rows)
  <2>1. \A x \in rows : \E d \in caller[c].decoded :
            /\ x.at = <<d[1][1], d[1][2]>> /\ x.row.fp = d[1][3] /\ x.row.seen = d[2]
    BY <1>5 DEF Decoded, Labelled
  <2>2. ASSUME NEW d \in caller[c].decoded
        PROVE  \E x \in rows : x.at = <<d[1][1], d[1][2]>> /\ x.row.fp = d[1][3]
    <3> DEFINE x == [at |-> <<d[1][1], d[1][2]>>, row |-> [fp |-> d[1][3], seen |-> d[2], shared |-> TRUE]]
    <3>1. x \in rows
      BY <1>5 DEF Decoded, Labelled
    <3>2. x.at = <<d[1][1], d[1][2]>> /\ x.row.fp = d[1][3]
      OBVIOUS
    <3> HIDE DEF x
    <3> QED BY <3>1, <3>2
  <2>3. \A x \in rows : TrueRow(x.at[1], x.row)
    BY <1>6, <2>1 DEF TrueRow, CallInv, CallDated
  <2>4. /\ thumbs' \in [ThumbAssets \X Buckets -> ThumbRow] /\ everStored' \subseteq ThumbKeys
        /\ everStored \subseteq everStored' /\ RowsInv'
        /\ \A v \in ThumbAssets \X Buckets : thumbs'[v] = thumbs[v] \/ \E x \in rows : x.at = v /\ thumbs'[v] = x.row
        /\ \A x \in rows : <<x.at[1], x.at[2], x.row.fp>> \in everStored'
    BY <1>1, <1>5, <1>9, <2>3, StoresOK
  <2>5. ASSUME NEW d \in caller[c].decoded
        PROVE  d[1] \in everStored'
    <3>1. PICK x \in rows : x.at = <<d[1][1], d[1][2]>> /\ x.row.fp = d[1][3]
      BY <2>2
    <3>2. <<x.at[1], x.at[2], x.row.fp>> \in everStored' /\ x.at[1] = d[1][1] /\ x.at[2] = d[1][2]
      BY <2>4, <3>1
    <3>3. d[1] = <<d[1][1], d[1][2], d[1][3]>>
      BY <1>7 DEF ThumbKeys
    <3> QED BY <3>1, <3>2, <3>3
  <2>6. {o[1] : o \in caller[c].owned} \subseteq everStored'
    <3>1. {d[1] : d \in caller[c].decoded} \subseteq everStored'
      BY <2>5
    <3> QED BY <1>7, <2>4, <3>1
  <2>7. CallInv(caller[c], source, results, everStored')
    BY <1>6, <2>4, StoredGrows
  <2>8. stored \in CallerStates /\ CallInv(stored, source, results, everStored')
    BY <1>5, <1>6, <1>7, <2>6, <2>7, CallTurns
  <2>9. stored.pc = "complete" /\ stored.owned = caller[c].owned /\ stored.waits = caller[c].waits
    BY <1>6 DEF CallerStates
  <2> HIDE DEF stored
  <2>10. \A d \in Callers \ {c} : \A w \in caller[d].waits : Landing(w, results', everStored')
    <3> SUFFICES ASSUME NEW d \in Callers \ {c}, NEW w \in caller[d].waits
                 PROVE  Landing(w, results, everStored')
      BY <1>1
    <3>1. Landing(w, results, everStored)
      BY DEF ThumbInv, CallInv, CallJoined
    <3> QED BY <2>4, <3>1 DEF Landing
  <2>11. CallInv(stored, source, results', everStored')
    BY <1>1, <2>8
  <2>12. /\ caller' \in [Callers -> CallerStates] /\ caller'[c] = stored
         /\ \A d \in Callers \ {c} : caller'[d] = caller[d]
         /\ \A d \in Callers : CallInv(caller'[d], source', results', everStored')
    BY <1>1, <1>9, <2>4, <2>8, <2>10, <2>11, CallsKept
  <2>13. RegistryInv'
    <3>1. {} \in SUBSET caller[c].owned /\ stored.owned = caller[c].owned \ {} /\ stored.waits \subseteq caller[c].waits
      BY <2>9
    <3>2. DOMAIN flights' = {k \in DOMAIN flights : <<k, flights[k]>> \notin {}} /\ \A k \in DOMAIN flights' : flights'[k] = flights[k]
      BY <1>1
    <3> QED BY <1>9, <2>8, <3>1, <3>2, RegistryMoves
  <2>14. QueueInv' /\ queue' \in Seq(Commands)
    BY <1>1, <1>2, <1>3, <1>9, <2>8, QueueAnswered
  <2>15. SharedOnce'
    <3> SUFFICES ASSUME NEW e \in Callers, ~caller'[e].force, caller'[e].pc \in {"decode", "persist", "storing"}, NEW k \in Missing(e)'
                 PROVE  NotYetShared(k)'
      BY DEF SharedOnce
    <3>1. e # c /\ caller'[e] = caller[e]
      BY <2>9, <2>12
    <3>2. k \in Missing(e) /\ NotYetShared(k)
      BY <3>1 DEF ThumbInv, SharedOnce, Missing
    <3>3. PICK o \in caller[e].owned : o[1] = k /\ o = <<k, o[2]>>
      <4>1. caller[e].owned \in SUBSET (ThumbKeys \X Nat)
        BY <1>6, CallShape
      <4> QED BY <3>2, <4>1 DEF Missing
    <3>4. k \in ThumbKeys
      <4>1. caller[e].owned \in SUBSET (ThumbKeys \X Nat)
        BY <1>6, CallShape
      <4> QED BY <3>3, <4>1
    <3>5. <<k[1], k[2]>> \in ThumbAssets \X Buckets /\ k = <<k[1], k[2], k[3]>>
      BY <3>4 DEF ThumbKeys
    <3>6. ASSUME NEW x \in rows, x.at = <<k[1], k[2]>>, x.row.fp = k[3]
          PROVE  FALSE
      <4>1. PICK d \in caller[c].decoded : x.at = <<d[1][1], d[1][2]>> /\ x.row.fp = d[1][3]
        BY <2>1
      <4>2. d[1] = <<d[1][1], d[1][2], d[1][3]>>
        BY <1>7 DEF ThumbKeys
      <4>3. d[1] = k
        BY <3>5, <3>6, <4>1, <4>2
      <4>4. PICK p \in caller[c].owned : p[1] = k /\ p = <<k, p[2]>>
        BY <1>7, <4>3
      <4>5. flights[k] = p[2] /\ flights[k] = o[2]
        BY <3>3, <4>4 DEF ThumbInv, RegistryInv
      <4>6. caller[c].owned \cap caller[e].owned = {}
        BY <3>1 DEF ThumbInv, RegistryInv
      <4> QED BY <3>3, <4>4, <4>5, <4>6
    <3>7. CASE thumbs'[<<k[1], k[2]>>] = thumbs[<<k[1], k[2]>>]
      BY <3>2, <3>7 DEF NotYetShared
    <3>8. CASE \E x \in rows : x.at = <<k[1], k[2]>> /\ thumbs'[<<k[1], k[2]>>] = x.row
      BY <3>6, <3>8 DEF NotYetShared
    <3> QED BY <2>4, <3>5, <3>7, <3>8
  <2>16. ThumbTypeOK'
    BY <1>1, <2>4, <2>12, <2>14 DEF ThumbInv, ThumbTypeOK
  <2> QED BY <2>4, <2>12, <2>13, <2>14, <2>15, <2>16 DEF ThumbInv
<1> QED BY <1>3, <1>4, <1>8, <1>9 DEF WriteBatch

-----------------------------------------------------------------------------
(* The invariant of the thumbnail service.                                   *)

\* The invariant holds at the start of the process.
LEMMA ThumbStart == ThumbInit => ThumbInv
<1> SUFFICES ASSUME ThumbInit PROVE ThumbInv
  OBVIOUS
<1>1. \A c \in Callers : caller[c] = IdleCaller
  BY DEF ThumbInit, ThumbFresh
<1>2. IdleCaller \in CallerStates /\ CallInv(IdleCaller, source, results, everStored)
      /\ IdleCaller.owned = {} /\ IdleCaller.waits = {} /\ IdleCaller.pc = "idle"
  BY IdleOK DEF IdleCaller
<1>3. ThumbTypeOK
  <2>1. caller \in [Callers -> CallerStates]
    BY <1>2 DEF ThumbInit, ThumbFresh
  <2>2. NoThumb \in ThumbRow
    BY DEF NoThumb, ThumbRow
  <2>3. thumbs \in [ThumbAssets \X Buckets -> ThumbRow]
    BY <2>2 DEF ThumbInit, ThumbFresh
  <2>4. source \in [ThumbAssets -> {1, 2}] /\ oldRows \subseteq ThumbAssets /\ everStored \subseteq ThumbKeys
    BY DEF ThumbInit, ThumbFresh
  <2>5. results \in Seq(FlightStates) /\ queue \in Seq(Commands)
    BY EmptySeq DEF ThumbInit, ThumbFresh
  <2> QED BY <2>1, <2>3, <2>4, <2>5 DEF ThumbTypeOK
<1>4. RegistryInv
  <2>1. FlightsOwned
    BY DEF ThumbInit, ThumbFresh, FlightsOwned
  <2> QED BY <1>1, <1>2, <2>1 DEF RegistryInv
<1>5. RowsInv
  <2>1. \A v \in ThumbAssets \X Buckets : thumbs[v] = NoThumb
    BY DEF ThumbInit, ThumbFresh
  <2> QED BY <2>1 DEF RowsInv, TrueRow, NoThumb
<1>6. QueueInv
  <2>1. DOMAIN queue = {}
    BY NothingListed DEF ThumbInit, ThumbFresh
  <2> QED BY <2>1 DEF QueueInv
<1>7. SharedOnce
  BY <1>1, <1>2 DEF SharedOnce
<1> QED BY <1>1, <1>2, <1>3, <1>4, <1>5, <1>6, <1>7 DEF ThumbInv

\* Every step of the thumbnail service keeps its invariant.
LEMMA ThumbStep ==
    ASSUME ThumbInv, [ThumbNext]_thumbVars
    PROVE  ThumbInv'
<1>1. CASE WriterServes
  BY <1>1, WriteCurrentOK, WriteBatchOK, WritePutOK, WriteSweepOK, WriteDeleteOK DEF WriterServes
<1>2. ASSUME NEW c \in Callers, CallerSteps(c)
      PROVE  ThumbInv'
  BY <1>2, ClaimKeyOK, AskCurrentOK, DecodeClaimedOK, DecodePanicsOK, SendBatchOK, CompleteOK, FinishWaiterOK,
     SendSweepOK, ReturnOK DEF CallerSteps
<1>3. ASSUME NEW c \in Callers, Ensure(c)
      PROVE  ThumbInv'
  BY <1>3, EnsureOK
<1>4. CASE UNCHANGED thumbVars
  <2>1. UNCHANGED <<source, thumbs, oldRows, flights, results, caller, queue, everStored>>
    BY <1>4 DEF thumbVars
  <2>2. ThumbTypeOK'
    BY <2>1 DEF ThumbInv, ThumbTypeOK
  <2>3. RegistryInv' /\ RowsInv' /\ SharedOnce'
    BY <2>1 DEF ThumbInv, RegistryInv, FlightsOwned, RowsInv, TrueRow, SharedOnce, Missing, NotYetShared
  <2>4. QueueInv'
    BY <2>1 DEF ThumbInv, QueueInv, CommandOK, Decoded, Labelled, TrueRow
  <2> QED BY <2>1, <2>2, <2>3, <2>4 DEF ThumbInv
<1> QED BY <1>1, <1>2, <1>3, <1>4, BackfillOK, SwapSourceOK, OthersOK DEF ThumbNext

\* The thumbnail service keeps its inductive invariant (thumbs.rs).
THEOREM ThumbInvariant == ThumbSpec => []ThumbInv
<1>1. ThumbInit => ThumbInv
  BY ThumbStart
<1>2. ThumbInv /\ [ThumbNext]_thumbVars => ThumbInv'
  BY ThumbStep
<1> QED BY <1>1, <1>2, PTL DEF ThumbSpec

\* A variant that is stored by an unforced call was not stored by another one.
LEMMA OnceHolds ==
    ASSUME ThumbInv, queue # <<>>, Head(queue).kind = "store"
    PROVE  caller[Head(queue).from].force
           \/ \A n \in Head(queue).rows : thumbs[n.at].shared => thumbs[n.at].fp # n.row.fp
<1>1. Head(queue) \in Commands /\ CommandOK(Head(queue))
  BY HeadInOrder
<1>2. PICK c \in Callers : c = Head(queue).from
  BY <1>1, CommandShape DEF Asking
<1>3. caller[c].pc = "storing" /\ Head(queue).rows = Decoded(c)
  BY <1>1, <1>2 DEF CommandOK
<1>4. {d[1] : d \in caller[c].decoded} = Missing(c)
  BY <1>3 DEF ThumbInv, CallInv, CallStored, Missing
<1>5. ASSUME ~caller[c].force, NEW n \in Decoded(c)
      PROVE  thumbs[n.at].shared => thumbs[n.at].fp # n.row.fp
  <2>1. PICK d \in caller[c].decoded : n.at = <<d[1][1], d[1][2]>> /\ n.row.fp = d[1][3]
    BY DEF Decoded, Labelled
  <2>2. NotYetShared(d[1])
    BY <1>3, <1>4, <1>5 DEF ThumbInv, SharedOnce
  <2> QED BY <2>1, <2>2 DEF NotYetShared
<1> QED BY <1>2, <1>3, <1>5

\* A sweep takes the rows of an asset only when all its variants were committed.
LEMMA SweepHolds ==
    ASSUME ThumbInv, [ThumbNext]_thumbVars, NEW a \in oldRows \ oldRows', Head(queue).kind = "sweep", NEW b \in Buckets
    PROVE  <<a, b, caller[Head(queue).from].fp[a]>> \in everStored
<1>1. a \in ThumbAssets
  BY DEF ThumbInv, ThumbTypeOK
<1>2. oldRows' # oldRows
  OBVIOUS
<1>3. WriteSweep \/ WriteDelete
  <2>1. ASSUME NEW c \in Callers, CallerSteps(c)
        PROVE  oldRows' = oldRows
    BY <2>1 DEF CallerSteps, ClaimKey, AskCurrent, DecodeClaimed, DecodePanics, SendBatch, Complete, FinishWaiter, SendSweep, Return
  <2>2. ASSUME NEW c \in Callers, Ensure(c)
        PROVE  oldRows' = oldRows
    BY <2>2 DEF Ensure, Start
  <2>3. ASSUME Backfill
        PROVE  oldRows' = oldRows
    BY <2>3 DEF Backfill, Start
  <2>4. ASSUME \/ \E x \in Touched : SwapSource(x) \/ StoreVideoSamples(x) \/ DeleteAsset(x)
               \/ \E v \in Touched \X Buckets : Put(v)
        PROVE  oldRows' = oldRows
    BY <2>4 DEF SwapSource, StoreVideoSamples, DeleteAsset, Put, Outside
  <2>5. ASSUME UNCHANGED thumbVars
        PROVE  oldRows' = oldRows
    BY <2>5 DEF thumbVars
  <2>6. ASSUME WriteCurrent \/ WriteBatch \/ WritePut
        PROVE  oldRows' = oldRows
    BY <2>6 DEF WriteCurrent, WriteBatch, WritePut
  <2> QED BY <1>2, <2>1, <2>2, <2>3, <2>4, <2>5, <2>6 DEF ThumbNext, WriterServes
<1>4. queue # <<>>
  BY <1>3 DEF WriteSweep, WriteDelete, Serves
<1>5. Head(queue) \in Commands /\ CommandOK(Head(queue))
  BY <1>4, HeadInOrder
<1>6. PICK c \in Callers : c = Head(queue).from
  BY <1>5, CommandShape DEF Asking
<1>7. caller[c].pc = "sweeping"
  BY <1>5, <1>6 DEF CommandOK
<1>8. CallCovers(caller[c]) /\ CallStored(caller[c], everStored)
  BY DEF ThumbInv, CallInv
<1>9. caller[c].sweep /\ ~caller[c].bad /\ caller[c].rest = {} /\ caller[c].waits = {} /\ caller[c].todo = {}
  BY <1>7, <1>8 DEF CallCovers
<1>10. <<a, b, caller[c].fp[a]>> \in caller[c].had
  BY <1>1, <1>7, <1>8, <1>9 DEF CallCovers
<1>11. caller[c].had \subseteq everStored
  BY <1>8, <1>9 DEF CallStored
<1> QED BY <1>6, <1>10, <1>11

\* The thumbnail service (thumbs.rs) never leaves a flight without an owner,
\* never shows a row that is older than its fingerprint, acknowledges only what
\* was committed, decodes a variant once, and sweeps only what was replaced.
THEOREM ThumbnailsAlwaysHold == ThumbSpec => ThumbnailsHold
<1>1. ThumbInv => FlightsOwned /\ NeverStale /\ AnswersDurable
  <2> SUFFICES ASSUME ThumbInv PROVE FlightsOwned /\ NeverStale /\ AnswersDurable
    OBVIOUS
  <2>1. FlightsOwned
    BY DEF ThumbInv, RegistryInv
  <2>2. NeverStale
    <3> SUFFICES ASSUME NEW v \in DOMAIN thumbs, thumbs[v].fp = source[v[1]], thumbs[v].seen # 0
                 PROVE  thumbs[v].seen = source[v[1]]
      BY DEF NeverStale
    <3>1. v \in ThumbAssets \X Buckets /\ thumbs[v] \in ThumbRow
      BY DEF ThumbInv, ThumbTypeOK
    <3>2. thumbs[v].fp \in Nat /\ thumbs[v].seen \in Nat
      BY <3>1 DEF ThumbRow
    <3>3. thumbs[v].fp <= thumbs[v].seen /\ thumbs[v].seen <= source[v[1]]
      BY <3>1 DEF ThumbInv, RowsInv, TrueRow
    <3> QED BY <3>2, <3>3
  <2>3. AnswersDurable
    BY DEF ThumbInv, CallInv, CallStored, AnswersDurable
  <2> QED BY <2>1, <2>2, <2>3
<1>2. ThumbInv /\ [ThumbNext]_thumbVars =>
          [queue # <<>> /\ Head(queue).kind = "store" /\ thumbs' # thumbs =>
             caller[Head(queue).from].force
             \/ \A n \in Head(queue).rows : thumbs[n.at].shared => thumbs[n.at].fp # n.row.fp]_thumbVars
  BY OnceHolds
<1>3. ThumbInv /\ [ThumbNext]_thumbVars =>
          [\A a \in oldRows \ oldRows' : Head(queue).kind = "sweep" =>
             \A b \in Buckets : <<a, b, caller[Head(queue).from].fp[a]>> \in everStored]_thumbVars
  BY SweepHolds
<1> QED BY <1>1, <1>2, <1>3, ThumbInvariant, PTL DEF ThumbSpec, ThumbnailsHold, DecodedOnce, SweepSafe

(* Inspected pictures and their features.                                    *)

LEMMA PatchesInitially == PatchInit => PatchInv
<1> SUFFICES ASSUME PatchInit PROVE PatchInv
  OBVIOUS
<1>1. [pc |-> "idle"] \in Looking
  BY DEF Looking
<1>2. PatchTypeOK
  BY <1>1 DEF PatchInit, PatchTypeOK
<1>3. DOMAIN entries = {}
  BY DEF PatchInit
<1>4. \A i \in Inspectors : inspector[i].pc = "idle"
  BY DEF PatchInit
<1> QED BY <1>2, <1>3, <1>4 DEF PatchInit, PatchInv, EntriesAgree, RequestsAgree

\* What a request holds, by the place it is at.
LEMMA RequestHolds ==
    ASSUME PatchInv, NEW i \in Inspectors
    PROVE  /\ inspector[i].pc = "decode" => inspector[i] \in Decoding
           /\ inspector[i].pc = "insert" => inspector[i] \in Inserting
           /\ inspector[i].pc = "answered" => inspector[i] \in Answering
BY DEF PatchInv, PatchTypeOK, Looking, Decoding, Inserting, Answering

\* A request that moves on and leaves files, catalog and entries alone.
LEMMA RequestMoves ==
    ASSUME PatchInv, NEW i \in Inspectors, NEW next \in Looking \cup Decoding \cup Inserting \cup Answering,
           inspector' = [inspector EXCEPT ![i] = next], UNCHANGED <<file, cataloged>>, EntriesAgree',
           next.pc \in {"decode", "insert"} => next.key[1] = next.picture /\ next.key[3] = next.row,
           next.pc = "decode" => next.row <= file[next.picture],
           next.pc \in {"insert", "answered"} => SeenBetween(next.row, next.seen, file[next.picture])
    PROVE  PatchInv'
<1>1. PatchTypeOK'
  BY DEF PatchInv, PatchTypeOK
<1>2. inspector'[i] = next /\ \A j \in Inspectors : j # i => inspector'[j] = inspector[j]
  BY DEF PatchInv, PatchTypeOK
<1>3. RequestsAgree'
  BY <1>2 DEF PatchInv, RequestsAgree
<1> QED BY <1>1, <1>3 DEF PatchInv

\* Entries that are left alone still agree while no file changes.
LEMMA EntriesStay ==
    ASSUME PatchInv, UNCHANGED <<file, entries>>
    PROVE  EntriesAgree'
BY DEF PatchInv, EntriesAgree, SeenBetween

\* Versions only grow.
LEMMA FileChangesKeeps ==
    ASSUME PatchInv, NEW p \in Pictures, FileChanges(p)
    PROVE  PatchInv'
<1>1. /\ file' = [file EXCEPT ![p] = @ + 1] /\ cataloged' = cataloged /\ entries' = entries /\ inspector' = inspector
  BY DEF FileChanges
<1>2. \A q \in Pictures : file[q] \in Nat /\ file'[q] \in Nat /\ file[q] <= file'[q] /\ cataloged[q] \in Nat
  BY <1>1 DEF PatchInv, PatchTypeOK
<1>3. PatchTypeOK'
  BY <1>1 DEF PatchInv, PatchTypeOK
<1>4. ASSUME NEW row \in Nat, NEW seen \in Nat, NEW q \in Pictures, SeenBetween(row, seen, file[q])
      PROVE  SeenBetween(row, seen, file'[q])
  BY <1>2, <1>4 DEF SeenBetween
<1>5. EntriesAgree'
  <2> SUFFICES ASSUME NEW k \in DOMAIN entries
               PROVE  k \in PatchKeys /\ entries[k].seen \in Nat /\ SeenBetween(k[3], entries[k].seen, file'[k[1]])
    BY <1>1 DEF EntriesAgree
  <2>1. k \in PatchKeys /\ entries[k].seen \in Nat /\ SeenBetween(k[3], entries[k].seen, file[k[1]])
    BY DEF PatchInv, EntriesAgree
  <2>2. k[3] \in Nat /\ k[1] \in Pictures
    BY <2>1 DEF PatchKeys
  <2> QED BY <1>4, <2>1, <2>2
<1>6. RequestsAgree'
  <2> SUFFICES ASSUME NEW i \in Inspectors
               PROVE  /\ inspector[i].pc \in {"decode", "insert"} =>
                             inspector[i].key[1] = inspector[i].picture /\ inspector[i].key[3] = inspector[i].row
                      /\ inspector[i].pc = "decode" => inspector[i].row <= file'[inspector[i].picture]
                      /\ inspector[i].pc \in {"insert", "answered"} =>
                             SeenBetween(inspector[i].row, inspector[i].seen, file'[inspector[i].picture])
    BY <1>1 DEF RequestsAgree
  <2>1. inspector[i].pc = "decode" => inspector[i].row \in Nat /\ inspector[i].picture \in Pictures
    BY RequestHolds DEF Decoding
  <2>2. inspector[i].pc \in {"insert", "answered"} =>
            inspector[i].row \in Nat /\ inspector[i].seen \in Nat /\ inspector[i].picture \in Pictures
    BY RequestHolds DEF Inserting, Answering
  <2>3. inspector[i].pc = "decode" => inspector[i].row <= file'[inspector[i].picture]
    <3> SUFFICES ASSUME inspector[i].pc = "decode" PROVE inspector[i].row <= file'[inspector[i].picture]
      OBVIOUS
    <3>1. inspector[i].row <= file[inspector[i].picture]
      BY DEF PatchInv, RequestsAgree
    <3> QED BY <1>2, <2>1, <3>1
  <2>4. inspector[i].pc \in {"insert", "answered"} =>
            SeenBetween(inspector[i].row, inspector[i].seen, file[inspector[i].picture])
    BY DEF PatchInv, RequestsAgree
  <2> QED BY <1>4, <2>2, <2>3, <2>4 DEF PatchInv, RequestsAgree
<1>7. \A q \in Pictures : cataloged'[q] <= file'[q]
  BY <1>1, <1>2 DEF PatchInv
<1> QED BY <1>3, <1>5, <1>6, <1>7 DEF PatchInv

LEMMA ScanCatalogsKeeps ==
    ASSUME PatchInv, NEW p \in Pictures, ScanCatalogs(p)
    PROVE  PatchInv'
<1>1. /\ cataloged' = [cataloged EXCEPT ![p] = file[p]] /\ file' = file /\ entries' = entries /\ inspector' = inspector
  BY DEF ScanCatalogs
<1>2. PatchTypeOK' /\ \A q \in Pictures : cataloged'[q] <= file'[q]
  BY <1>1 DEF PatchInv, PatchTypeOK
<1>3. EntriesAgree' /\ RequestsAgree'
  BY <1>1 DEF PatchInv, EntriesAgree, RequestsAgree, SeenBetween
<1> QED BY <1>2, <1>3 DEF PatchInv

LEMMA LookupKeeps ==
    ASSUME PatchInv, NEW i \in Inspectors, NEW p \in Pictures, NEW t \in Frames, Lookup(i, p, t)
    PROVE  PatchInv'
<1> DEFINE key == KeyOf(p, t)
<1>1. /\ key \in PatchKeys /\ key[1] = p /\ key[3] = cataloged[p]
      /\ cataloged[p] \in Nat /\ file[p] \in Nat /\ cataloged[p] <= file[p]
  BY DEF KeyOf, PatchKeys, PatchInv, PatchTypeOK
<1>2. UNCHANGED <<file, cataloged, entries>>
  BY DEF Lookup
<1>3. EntriesAgree'
  BY <1>2, EntriesStay
<1>4. CASE key \in DOMAIN entries
  <2> DEFINE next == [pc |-> "answered", picture |-> p, seen |-> entries[key].seen, row |-> cataloged[p]]
  <2>1. inspector' = [inspector EXCEPT ![i] = next]
    BY <1>4 DEF Lookup
  <2>2. entries[key].seen \in Nat /\ SeenBetween(cataloged[p], entries[key].seen, file[p])
    BY <1>1, <1>4 DEF PatchInv, EntriesAgree
  <2> HIDE DEF key
  <2>3. next \in Answering /\ next.pc = "answered" /\ next.row = cataloged[p] /\ next.seen = entries[key].seen /\ next.picture = p
    BY <1>1, <2>2 DEF Answering
  <2> HIDE DEF next
  <2> QED BY <1>2, <1>3, <2>1, <2>2, <2>3, RequestMoves
<1>5. CASE key \notin DOMAIN entries
  <2> DEFINE next == [pc |-> "decode", key |-> key, picture |-> p, row |-> cataloged[p]]
  <2>1. inspector' = [inspector EXCEPT ![i] = next]
    BY <1>5 DEF Lookup
  <2> HIDE DEF key
  <2>2. next \in Decoding /\ next.pc = "decode" /\ next.row = cataloged[p] /\ next.key = key /\ next.picture = p
    BY <1>1 DEF Decoding
  <2> HIDE DEF next
  <2> QED BY <1>1, <1>2, <1>3, <2>1, <2>2, RequestMoves
<1> QED BY <1>4, <1>5

LEMMA DecodeKeeps ==
    ASSUME PatchInv, NEW i \in Inspectors, Decode(i)
    PROVE  PatchInv'
<1> DEFINE asked == inspector[i]
           next == [pc |-> "insert", key |-> asked.key, picture |-> asked.picture, row |-> asked.row,
                    seen |-> file[asked.picture]]
<1>1. inspector' = [inspector EXCEPT ![i] = next] /\ UNCHANGED <<file, cataloged, entries>> /\ asked.pc = "decode"
  BY DEF Decode
<1>2. asked \in Decoding
  BY <1>1, RequestHolds
<1>3. asked.key \in PatchKeys /\ asked.picture \in Pictures /\ asked.row \in Nat /\ file[asked.picture] \in Nat
  BY <1>2 DEF Decoding, PatchInv, PatchTypeOK
<1>4. asked.key[1] = asked.picture /\ asked.key[3] = asked.row /\ asked.row <= file[asked.picture]
  BY <1>1 DEF PatchInv, RequestsAgree
<1> HIDE DEF asked
<1>5. /\ next \in Inserting /\ next.pc = "insert" /\ next.key = asked.key /\ next.picture = asked.picture
      /\ next.row = asked.row /\ next.seen = file[asked.picture]
  BY <1>3 DEF Inserting
<1>6. SeenBetween(next.row, next.seen, file[next.picture])
  BY <1>3, <1>4, <1>5 DEF SeenBetween
<1> HIDE DEF next
<1> QED BY <1>1, <1>4, <1>5, <1>6, EntriesStay, RequestMoves

\* A request that ends keeps nothing.
LEMMA RequestEnds ==
    ASSUME PatchInv, NEW i \in Inspectors, DecodeFails(i) \/ Answered(i)
    PROVE  PatchInv'
<1>1. inspector' = [inspector EXCEPT ![i] = [pc |-> "idle"]] /\ UNCHANGED <<file, cataloged, entries>>
  BY DEF DecodeFails, Answered
<1> DEFINE next == [pc |-> "idle"]
<1>2. next \in Looking /\ next.pc = "idle"
  BY DEF Looking
<1>3. inspector' = [inspector EXCEPT ![i] = next]
  BY <1>1
<1> HIDE DEF next
<1> QED BY <1>1, <1>2, <1>3, EntriesStay, RequestMoves

\* What is inserted is what the decode saw, under the row it was asked with.
LEMMA InsertKeeps ==
    ASSUME PatchInv, NEW i \in Inspectors, InsertFeatures(i)
    PROVE  PatchInv'
<1> DEFINE asked == inspector[i]
           key == asked.key
           size == Weight[key[1]]
           kept == [k \in {k \in DOMAIN entries : k[1] # key[1] \/ k[3] = key[3]} |-> entries[k]]
           base == bytes - (Total(entries) - Total(kept))
           held == [k \in DOMAIN kept \cup {key} |->
                       IF k = key THEN [bytes |-> size, seen |-> asked.seen] ELSE kept[k]]
           order == SelectSeq(Used(key), LAMBDA k : k \in DOMAIN held)
           total == base - Replaced(kept, key) + size
           gone == Evicted(order, held, total)
           next == [pc |-> "answered", picture |-> asked.picture, seen |-> asked.seen, row |-> asked.row]
<1>1. /\ asked.pc = "insert" /\ inspector' = [inspector EXCEPT ![i] = next] /\ UNCHANGED <<file, cataloged>>
      /\ entries' = entries \/ entries' = [k \in DOMAIN held \ gone |-> held[k]]
  BY DEF InsertFeatures
<1>2. asked \in Inserting
  BY <1>1, RequestHolds
<1>3. /\ key \in PatchKeys /\ asked.picture \in Pictures /\ asked.row \in Nat /\ asked.seen \in Nat
      /\ key[1] = asked.picture /\ key[3] = asked.row /\ SeenBetween(asked.row, asked.seen, file[asked.picture])
  BY <1>1, <1>2 DEF Inserting, PatchInv, RequestsAgree
<1> HIDE DEF gone, order, total, base, size
<1>4. /\ DOMAIN held \subseteq DOMAIN entries \cup {key}
      /\ held[key].seen = asked.seen
      /\ \A k \in DOMAIN held : k # key => held[k] = entries[k]
  OBVIOUS
<1> HIDE DEF held, kept
<1>5. EntriesAgree'
  <2>1. CASE entries' = entries
    BY <1>1, <2>1, EntriesStay
  <2>2. CASE entries' = [k \in DOMAIN held \ gone |-> held[k]]
    <3> SUFFICES ASSUME NEW k \in DOMAIN entries'
                 PROVE  k \in PatchKeys /\ entries'[k].seen \in Nat /\ SeenBetween(k[3], entries'[k].seen, file'[k[1]])
      BY DEF EntriesAgree
    <3>1. k \in DOMAIN held /\ entries'[k] = held[k]
      BY <2>2
    <3>2. CASE k = key
      <4>1. entries'[k].seen = asked.seen
        BY <1>4, <3>1, <3>2
      <4> HIDE DEF key, asked
      <4> QED BY <1>1, <1>3, <3>2, <4>1
    <3>3. CASE k # key
      <4>1. k \in DOMAIN entries /\ entries'[k] = entries[k]
        BY <1>4, <3>1, <3>3
      <4>2. k \in PatchKeys /\ entries[k].seen \in Nat /\ SeenBetween(k[3], entries[k].seen, file[k[1]])
        BY <4>1 DEF PatchInv, EntriesAgree
      <4> QED BY <1>1, <4>1, <4>2
    <3> QED BY <3>2, <3>3
  <2> QED BY <1>1, <2>1, <2>2
<1> HIDE DEF key, asked
<1>6. /\ next \in Answering /\ next.pc = "answered" /\ next.picture = asked.picture /\ next.seen = asked.seen
      /\ next.row = asked.row
  BY <1>3 DEF Answering
<1> HIDE DEF next
<1> QED BY <1>1, <1>3, <1>5, <1>6, RequestMoves

LEMMA PatchStep ==
    ASSUME PatchInv, [PatchNext]_patchVars
    PROVE  PatchInv'
<1>1. ASSUME NEW p \in Pictures, FileChanges(p) \/ ScanCatalogs(p) PROVE PatchInv'
  BY <1>1, FileChangesKeeps, ScanCatalogsKeeps
<1>2. ASSUME NEW i \in Inspectors, NEW p \in Pictures, NEW t \in Frames, Lookup(i, p, t) PROVE PatchInv'
  BY <1>2, LookupKeeps
<1>3. ASSUME NEW i \in Inspectors, Decode(i) \/ DecodeFails(i) \/ InsertFeatures(i) \/ Answered(i) PROVE PatchInv'
  BY <1>3, DecodeKeeps, RequestEnds, InsertKeeps
<1>4. CASE UNCHANGED patchVars
  BY <1>4 DEF patchVars, PatchInv, PatchTypeOK, EntriesAgree, RequestsAgree, SeenBetween
<1> QED BY <1>1, <1>2, <1>3, <1>4 DEF PatchNext

\* What is cached and what a request holds is always of a version from the row
\* it was asked with to that of the file (patch_cache.rs and image_patches.rs).
THEOREM PatchInvariant == PatchSpec => []PatchInv
BY PatchesInitially, PatchStep, PTL DEF PatchSpec

\* An inspected picture whose catalog row is that of the file on disk is always
\* answered with features of that file.
THEOREM InspectionsAlwaysCurrent == PatchSpec => []InspectionsCurrent
<1>1. PatchInv => InspectionsCurrent
  <2> SUFFICES ASSUME PatchInv, NEW i \in Inspectors, inspector[i].pc = "answered",
                      inspector[i].row = file[inspector[i].picture]
               PROVE  inspector[i].seen = inspector[i].row
    BY DEF InspectionsCurrent
  <2>1. inspector[i].row \in Nat /\ inspector[i].seen \in Nat
    BY RequestHolds DEF Answering
  <2>2. SeenBetween(inspector[i].row, inspector[i].seen, file[inspector[i].picture])
    BY DEF PatchInv, RequestsAgree
  <2> QED BY <2>1, <2>2 DEF SeenBetween
<1> QED BY <1>1, PatchInvariant, PTL

(* What a job shows.                                                         *)

\* Arithmetic of intervals and shares.
LEMMA Distrib == \A a \in Nat, b \in Nat : (a + 1) * b = a * b + b
OBVIOUS

LEMMA MulMono == \A a \in Nat, b \in Nat, c \in Nat : a <= b => a * c <= b * c
OBVIOUS

LEMMA DivMod == \A w \in Nat, i \in Nat \ {0} : w \div i \in Nat /\ w = i * (w \div i) + (w % i) /\ w % i \in 0 .. i - 1
OBVIOUS

\* So many whole intervals fit.
LEMMA DivBound ==
    ASSUME NEW w \in Nat, NEW i \in Nat \ {0}, NEW k \in Nat, k * i <= w
    PROVE  k <= w \div i
<1> DEFINE q == w \div i
           r == w % i
<1>1. q \in Nat /\ w = i * q + r /\ r \in 0 .. i - 1
  BY DivMod
<1> HIDE DEF q, r
<1>2. ASSUME k >= q + 1 PROVE FALSE
  <2>1. (q + 1) * i <= k * i
    BY <1>1, <1>2, MulMono
  <2>2. (q + 1) * i = q * i + i
    BY <1>1, Distrib
  <2>3. q * i = i * q
    BY <1>1
  <2> QED BY <1>1, <2>1, <2>2, <2>3
<1>3. k <= q
  BY <1>1, <1>2
<1> QED BY <1>3 DEF q

\* A share of x is no more than x.
LEMMA DivLess ==
    ASSUME NEW x \in Nat, NEW y \in Nat, NEW z \in Nat \ {0}, y <= z
    PROVE  (x * y) \div z \in Nat /\ (x * y) \div z <= x
<1> DEFINE p == x * y
           q == p \div z
           r == p % z
<1>1. p \in Nat /\ p <= x * z
  BY MulMono
<1>2. q \in Nat /\ p = z * q + r /\ r \in 0 .. z - 1
  BY <1>1, DivMod
<1> HIDE DEF p, q, r
<1>3. ASSUME q >= x + 1 PROVE FALSE
  <2>1. (x + 1) * z <= q * z
    BY <1>2, <1>3, MulMono
  <2>2. (x + 1) * z = x * z + z
    BY Distrib
  <2>3. q * z = z * q /\ x * z \in Nat
    BY <1>2
  <2> QED BY <1>1, <1>2, <2>1, <2>2, <2>3
<1>4. q <= x
  BY <1>2, <1>3
<1> QED BY <1>2, <1>4 DEF p, q

\* A set of numbers with a bound has a greatest.
LEMMA GreatestWithin ==
    ASSUME NEW bound \in Nat, NEW S, S \subseteq 1 .. bound, S # {}
    PROVE  \E n \in S : \A m \in S : m <= n
<1> DEFINE less == {pair \in Nat \X Nat : pair[1] < pair[2]}
           below == {bound - n : n \in S}
<1>1. IsWellFoundedOn(less, Nat)
  BY NatLessThanWellFounded DEF OpToRel
<1>2. below \subseteq Nat /\ below # {}
  <2>1. \A n \in S : bound - n \in Nat
    OBVIOUS
  <2> QED BY <2>1
<1>3. PICK d \in below : \A e \in below : <<e, d>> \notin less
  <2> HIDE DEF less, below
  <2> QED BY <1>1, <1>2, WFMin
<1>4. \A e \in below : d <= e
  <2>1. \A e \in below : e \in Nat /\ d \in Nat /\ <<e, d>> \notin less
    BY <1>2, <1>3
  <2> HIDE DEF below
  <2>2. \A e \in below : e \in Nat /\ d \in Nat /\ ~(e < d)
    BY <2>1
  <2> HIDE DEF less
  <2> QED BY <2>2
<1>5. PICK n \in S : d = bound - n
  BY <1>3
<1>6. \A m \in S : m <= n
  <2> SUFFICES ASSUME NEW m \in S PROVE m <= n
    OBVIOUS
  <2>1. bound - m \in below
    OBVIOUS
  <2>2. d <= bound - m
    BY <1>4, <2>1
  <2> QED BY <1>5, <2>2
<1> QED BY <1>6

\* Samples of a phase: in order, an interval apart, and behind its work.
Samples(s, started, work) ==
    /\ s \in Seq(Nat \X Nat)
    /\ \A i \in 1..Len(s) : s[i][1] \in started..now /\ s[i][2] <= work
    /\ \A i, j \in 1..Len(s) : i <= j => s[i][1] + (j - i) * Interval <= s[j][1] /\ s[i][2] <= s[j][2]

\* What is kept is a tail, of which only the first may be before the window.
LEMMA DropOldKeeps ==
    ASSUME NEW s, NEW started \in Nat, NEW work \in Nat, NEW cutoff \in Nat, now \in Nat, Samples(s, started, work), s # <<>>
    PROVE  LET kept == DropOld(s, cutoff) IN
           /\ Samples(kept, started, work) /\ kept # <<>> /\ Len(kept) <= Len(s)
           /\ kept[1] = s[1] \/ kept[1][1] <= cutoff
           /\ Len(kept) > 1 => kept[2][1] > cutoff
<1> DEFINE old == {k \in 1..Len(s) : s[k][1] <= cutoff}
           kept == DropOld(s, cutoff)
<1>0. /\ s \in Seq(Nat \X Nat) /\ Len(s) \in Nat \ {0} /\ Interval \in Nat
      /\ \A i \in 1..Len(s) : s[i] \in Nat \X Nat /\ s[i][1] \in Nat /\ s[i][2] \in Nat
  <2>1. \A i \in 1..Len(s) : s[i] \in Nat \X Nat
    BY ElementOfSeq DEF Samples
  <2> QED BY <2>1, ProgressAssumption, EmptySeq DEF Samples
<1>1. CASE old = {}
  <2>1. kept = s
    BY <1>1 DEF DropOld
  <2>2. ASSUME NEW k \in 1..Len(s) PROVE s[k][1] > cutoff
    <3>1. k \notin old
      BY <1>1
    <3>2. ~(s[k][1] <= cutoff) /\ s[k][1] \in Nat
      BY <1>0, <3>1
    <3> QED BY <3>2
  <2> HIDE DEF kept, old
  <2> QED BY <1>0, <2>1, <2>2 DEF kept
<1>2. CASE old # {}
  <2> DEFINE k == CHOOSE k \in old : \A l \in old : l <= k
  <2>1. k \in old /\ \A l \in old : l <= k
    <3>1. \E n \in old : \A l \in old : l <= n
      <4>1. old \subseteq 1..Len(s)
        OBVIOUS
      <4> HIDE DEF old
      <4> QED BY <1>0, <1>2, <4>1, GreatestWithin
    <3> HIDE DEF old
    <3> QED BY <3>1
  <2>2. kept = SubSeq(s, k, Len(s))
    BY <1>2 DEF DropOld
  <2>3. k \in 1..Len(s) /\ s[k][1] <= cutoff /\ \A l \in 1..Len(s) : l > k => s[l][1] > cutoff
    <3>1. k \in 1..Len(s) /\ s[k][1] <= cutoff
      <4> HIDE DEF k
      <4> QED BY <2>1
    <3>2. ASSUME NEW l \in 1..Len(s), l > k, s[l][1] <= cutoff PROVE FALSE
      <4>1. l \in old
        BY <3>2
      <4> HIDE DEF k, old
      <4>2. l <= k /\ k \in Nat
        BY <1>0, <2>1, <3>1, <4>1
      <4> QED BY <3>2, <4>2
    <3> HIDE DEF k, old
    <3>3. ASSUME NEW l \in 1..Len(s), l > k PROVE s[l][1] > cutoff
      <4>1. s[l][1] \in Nat /\ ~(s[l][1] <= cutoff)
        BY <1>0, <3>2, <3>3
      <4> QED BY <4>1
    <3> QED BY <3>1, <3>3
  <2> HIDE DEF k, kept, old
  <2>4. /\ kept \in Seq(Nat \X Nat) /\ Len(kept) = Len(s) - k + 1
        /\ \A i \in 1..Len(kept) : kept[i] = s[k + i - 1] /\ k + i - 1 \in 1..Len(s)
    <3>1. \A i \in k..Len(s) : s[i] \in Nat \X Nat
      BY <1>0, <2>3
    <3>2. k \in Int /\ Len(s) \in Int /\ k <= Len(s)
      BY <1>0, <2>3
    <3>3. /\ kept \in Seq(Nat \X Nat) /\ Len(kept) = Len(s) - k + 1
          /\ \A i \in 1 .. Len(s) - k + 1 : kept[i] = s[k + i - 1]
      BY <2>2, <3>1, <3>2, SubSeqProperties
    <3>4. \A i \in 1 .. Len(s) - k + 1 : k + i - 1 \in 1..Len(s)
      BY <1>0, <2>3, <3>2
    <3> QED BY <3>3, <3>4
  <2>5. Samples(kept, started, work)
    <3>1. \A i \in 1..Len(kept) : kept[i][1] \in started..now /\ kept[i][2] <= work
      BY <2>4 DEF Samples
    <3>2. ASSUME NEW i \in 1..Len(kept), NEW j \in 1..Len(kept), i <= j
          PROVE  kept[i][1] + (j - i) * Interval <= kept[j][1] /\ kept[i][2] <= kept[j][2]
      <4> DEFINE a == k + i - 1
                 b == k + j - 1
      <4>1. a \in 1..Len(s) /\ b \in 1..Len(s) /\ kept[i] = s[a] /\ kept[j] = s[b]
        BY <2>4
      <4>2. i \in Nat /\ j \in Nat /\ k \in Nat
        <5>1. k \in Nat
          <6>1. k \in 1..Len(s) /\ Len(s) \in Nat
            BY <1>0, <2>3
          <6> QED BY <6>1
        <5>2. Len(kept) \in Nat
          BY <2>4
        <5>3. i \in Nat /\ j \in Nat
          BY <5>2
        <5> QED BY <5>1, <5>3
      <4>3. b - a = j - i /\ a <= b
        BY <3>2, <4>2
      <4> HIDE DEF a, b
      <4>4. s[a][1] + (b - a) * Interval <= s[b][1] /\ s[a][2] <= s[b][2]
        BY <4>1, <4>3 DEF Samples
      <4> QED BY <4>1, <4>3, <4>4
    <3> QED BY <2>4, <3>1, <3>2 DEF Samples
  <2>6. kept # <<>> /\ Len(kept) <= Len(s) /\ kept[1] = s[k]
    <3> DEFINE total == Len(s)
               rest == Len(kept)
    <3>1. k \in 1..total /\ total \in Nat /\ rest = total - k + 1
      BY <1>0, <2>3, <2>4
    <3>2. kept # <<>> <=> rest # 0
      BY <2>4, EmptySeq
    <3> HIDE DEF total, rest
    <3>3. k \in Nat /\ rest \in Nat \ {0} /\ rest <= total /\ 1 \in 1..rest /\ k + 1 - 1 = k
      BY <3>1
    <3>4. kept[1] = s[k]
      BY <2>4, <3>3 DEF rest
    <3> QED BY <3>2, <3>3, <3>4 DEF total, rest
  <2>7. Len(kept) > 1 => kept[2][1] > cutoff
    <3> SUFFICES ASSUME Len(kept) > 1 PROVE kept[2][1] > cutoff
      OBVIOUS
    <3>1. 2 \in 1..Len(kept) /\ k + 2 - 1 = k + 1 /\ k + 1 > k
      BY <1>0, <2>3, <2>4
    <3>2. kept[2] = s[k + 1] /\ k + 1 \in 1..Len(s)
      BY <2>4, <3>1
    <3> QED BY <2>3, <3>1, <3>2
  <2> QED BY <2>3, <2>5, <2>6, <2>7 DEF kept
<1> QED BY <1>1, <1>2

\* The last sample is now, an interval after the ones before it.
LEMMA SampledOrdered ==
    ASSUME NEW s, NEW started \in Nat, NEW work \in Nat, now \in Nat, started <= now, Samples(s, started, work), s # <<>>
    PROVE  LET next == Sampled(s, work) IN
           /\ Samples(next, started, work) /\ next # <<>> /\ next[1] = s[1]
           /\ next = s \/ (Len(next) = Len(s) + 1 /\ s[Len(s)][1] + Interval <= now)
<1> DEFINE next == Sampled(s, work)
           n == Len(s)
<1>0. /\ s \in Seq(Nat \X Nat) /\ n \in Nat \ {0} /\ Interval \in Nat /\ <<now, work>> \in Nat \X Nat
      /\ \A i \in 1..n : s[i] \in Nat \X Nat /\ s[i][1] \in Nat /\ s[i][2] \in Nat
      /\ n \in 1..n /\ 1 \in 1..n /\ Last(s) = s[n]
  <2>1. \A i \in 1..n : s[i] \in Nat \X Nat
    BY ElementOfSeq DEF Samples
  <2> QED BY <2>1, ProgressAssumption, EmptySeq DEF Samples, Last
<1>1. CASE now - s[n][1] >= Interval
  <2>1. next = Append(s, <<now, work>>)
    BY <1>0, <1>1 DEF Sampled
  <2>2. /\ next \in Seq(Nat \X Nat) /\ Len(next) = n + 1 /\ next[n + 1] = <<now, work>>
        /\ \A i \in 1..n : next[i] = s[i]
    BY <1>0, <2>1, AppendProperties
  <2> HIDE DEF next, n
  <2>3. s[n][1] + Interval <= now
    BY <1>0, <1>1
  <2>4. \A i \in 1..Len(next) : next[i][1] \in started..now /\ next[i][2] <= work
    <3> SUFFICES ASSUME NEW i \in 1..Len(next) PROVE next[i][1] \in started..now /\ next[i][2] <= work
      OBVIOUS
    <3>1. CASE i = n + 1
      BY <1>0, <2>2, <3>1
    <3>2. CASE i # n + 1
      <4>1. i \in 1..n
        BY <1>0, <2>2, <3>2
      <4> QED BY <2>2, <4>1 DEF Samples, n
    <3> QED BY <3>1, <3>2
  <2>5. ASSUME NEW i \in 1..Len(next), NEW j \in 1..Len(next), i <= j
        PROVE  next[i][1] + (j - i) * Interval <= next[j][1] /\ next[i][2] <= next[j][2]
    <3>1. CASE j # n + 1
      <4>0. Len(next) = n + 1 /\ n \in Nat
        BY <1>0, <2>2
      <4>1. i \in 1..n /\ j \in 1..n
        BY <2>5, <3>1, <4>0
      <4>2. s[i][1] + (j - i) * Interval <= s[j][1] /\ s[i][2] <= s[j][2]
        BY <2>5, <4>1 DEF Samples, n
      <4>3. next[i] = s[i] /\ next[j] = s[j]
        BY <2>2, <4>1
      <4> QED BY <4>2, <4>3
    <3>2. CASE j = n + 1 /\ i = n + 1
      <4>1. n \in Nat /\ Interval \in Nat /\ now \in Nat /\ work \in Nat
        BY <1>0
      <4>2. next[i] = <<now, work>> /\ next[j] = <<now, work>>
        BY <2>2, <3>2
      <4>3. j - i = 0 /\ 0 * Interval = 0 /\ now + 0 <= now /\ work <= work
        BY <3>2, <4>1
      <4> QED BY <4>2, <4>3
    <3>3. CASE j = n + 1 /\ i # n + 1
      <4>1. i \in 1..n /\ i <= n
        BY <1>0, <2>2, <3>3
      <4>2. s[i][1] + (n - i) * Interval <= s[n][1] /\ s[i][2] <= work
        BY <1>0, <4>1 DEF Samples, n
      <4>3. (j - i) * Interval = (n - i) * Interval + Interval
        <5>1. n - i \in Nat /\ j - i = (n - i) + 1
          BY <1>0, <3>3, <4>1
        <5> QED BY <1>0, <5>1, Distrib
      <4>4. (n - i) * Interval \in Nat
        BY <1>0, <4>1
      <4>5. s[i][1] \in Nat /\ s[n][1] \in Nat
        BY <1>0, <4>1
      <4>6. s[i][1] + (j - i) * Interval <= now
        <5>1. (j - i) * Interval \in Nat
          BY <1>0, <4>3, <4>4
        <5> DEFINE before == (n - i) * Interval
                   all == (j - i) * Interval
        <5>2. /\ s[i][1] \in Nat /\ s[n][1] \in Nat /\ Interval \in Nat /\ now \in Nat /\ before \in Nat /\ all \in Nat
              /\ s[i][1] + before <= s[n][1] /\ all = before + Interval
          BY <1>0, <4>2, <4>3, <4>4, <4>5, <5>1
        <5> DEFINE from == s[i][1]
                   to == s[n][1]
        <5>3. /\ from \in Nat /\ to \in Nat /\ Interval \in Nat /\ now \in Nat /\ before \in Nat /\ all \in Nat
              /\ from + before <= to /\ all = before + Interval /\ to + Interval <= now
          BY <2>3, <5>2
        <5> HIDE DEF before, all, from, to
        <5>4. from + all <= now
          BY <5>3
        <5> QED BY <5>4 DEF all, from
      <4> QED BY <2>2, <3>3, <4>1, <4>2, <4>6
    <3> QED BY <3>1, <3>2, <3>3
  <2>6. Samples(next, started, work)
    BY <2>2, <2>4, <2>5 DEF Samples
  <2>7. next # <<>> /\ next[1] = s[1]
    BY <1>0, <2>2
  <2> QED BY <2>2, <2>3, <2>6, <2>7 DEF next, n
<1>2. CASE ~(now - s[n][1] >= Interval)
  BY <1>0, <1>2 DEF Sampled
<1> QED BY <1>1, <1>2

\* Samples within a window are few enough to leave room for one more.
LEMMA WindowHolds ==
    ASSUME NEW s, NEW started \in Nat, NEW work \in Nat, now \in Nat, Samples(s, started, work), Len(s) > 1,
           s[2][1] + Window >= now, s[Len(s)][1] + Interval <= now
    PROVE  Len(s) + 1 <= Window \div Interval + 2
<1> DEFINE n == Len(s)
<1>0. /\ n \in Nat /\ n > 1 /\ Interval \in Nat \ {0} /\ Window \in Nat /\ 2 \in 1..n /\ n \in 1..n
      /\ s[2][1] \in Nat /\ s[n][1] \in Nat
  <2>1. s \in Seq(Nat \X Nat) /\ n \in Nat
    BY DEF Samples
  <2>2. 2 \in 1..n /\ n \in 1..n
    BY <2>1
  <2>3. \A i \in 1..n : s[i] \in Nat \X Nat
    BY <2>1, ElementOfSeq
  <2> QED BY <2>1, <2>2, <2>3, ProgressAssumption
<1>1. s[2][1] + (n - 2) * Interval <= s[n][1]
  BY <1>0 DEF Samples
<1>2. (n - 1) * Interval = (n - 2) * Interval + Interval
  <2>1. n - 2 \in Nat /\ n - 1 = (n - 2) + 1
    BY <1>0
  <2> QED BY <1>0, <2>1, Distrib
<1>3. (n - 2) * Interval \in Nat /\ n - 1 \in Nat
  <2>1. n \in Nat /\ n > 1 /\ Interval \in Nat
    BY <1>0
  <2> HIDE DEF n
  <2>2. n - 2 \in Nat /\ n - 1 \in Nat
    BY <2>1
  <2>3. \A a \in Nat, b \in Nat : a * b \in Nat
    OBVIOUS
  <2> QED BY <2>1, <2>2, <2>3
<1>4. (n - 1) * Interval <= Window
  BY <1>0, <1>1, <1>2, <1>3
<1>5. n - 1 <= Window \div Interval
  BY <1>0, <1>3, <1>4, DivBound
<1>6. Window \div Interval \in Nat
  BY <1>0, DivMod
<1> QED BY <1>0, <1>5, <1>6

\* An update leaves samples of the phase behind the work, and a rate over
\* the window or over the phase while it is younger.
LEMMA PublishFits ==
    ASSUME NEW d \in JobData, now \in Nat, SamplesFit(d), rate \in [span : Int, baseline : Nat], Publish(d)
    PROVE  /\ data' \in JobData /\ data' = [d EXCEPT !.samples = data'.samples]
           /\ rate' \in [span : Int, baseline : Nat]
           /\ d.startedAt <= now /\ Samples(data'.samples, d.startedAt, d.work)
           /\ Len(data'.samples) <= Window \div Interval + 2
           /\ data'.samples # <<>> => data'.samples[1][1] = d.startedAt \/ data'.samples[1][1] + Window <= now
           /\ rate'.baseline <= d.work \/ d.phase = "finished"
           /\ rate' # NoRate /\ d.phase # "finished" =>
                  rate'.span = (IF now - d.startedAt > Window THEN Window ELSE now - d.startedAt)
<1> DEFINE seeded == IF d.samples = <<>> THEN <<<<d.startedAt, 0>>>> ELSE d.samples
           cutoff == IF now > Window THEN now - Window ELSE 0
           kept == IF now < Window THEN seeded ELSE DropOld(seeded, cutoff)
           first == IF kept = <<>> THEN <<now, d.work>> ELSE kept[1]
           second == IF Len(kept) > 1 THEN kept[2] ELSE <<now, d.work>>
           cut == now >= Window /\ first[1] < cutoff
           next == Sampled(kept, d.work)
           quiet == d.phase \in {"queued", "finished"} \/ d.work = 0
<1>1. /\ d.startedAt \in Nat /\ d.work \in Nat /\ d.samples \in Seq(Nat \X Nat) /\ d.startedAt <= now
      /\ Window \in Nat /\ Interval \in Nat \ {0} /\ Interval <= Window /\ Window > 0 /\ cutoff \in Nat
      /\ cutoff + Window >= now /\ (now >= Window => cutoff + Window = now) /\ cutoff <= now
  <2>1. Window \in Nat /\ Interval \in 1..Window
    BY ProgressAssumption
  <2>2. d.startedAt \in Nat /\ d.work \in Nat /\ d.samples \in Seq(Nat \X Nat)
    BY DEF JobData
  <2> QED BY <2>1, <2>2 DEF SamplesFit
<1>2. Samples(d.samples, d.startedAt, d.work)
  BY <1>1 DEF SamplesFit, Samples
<1>3. CASE quiet
  <2>1. data' = d /\ rate' = (IF d.phase = "finished" THEN rate ELSE NoRate)
    BY <1>3 DEF Publish
  <2>2. NoRate \in [span : Int, baseline : Nat] /\ NoRate.baseline = 0
    BY DEF NoRate
  <2>3. d = [d EXCEPT !.samples = d.samples]
    BY DEF JobData
  <2> QED BY <1>1, <1>2, <2>1, <2>2, <2>3 DEF SamplesFit
<1>4. CASE ~quiet
  <2>1. /\ data' = [d EXCEPT !.samples = next]
        /\ rate' = [span |-> now - (IF cut THEN cutoff ELSE first[1]),
                    baseline |-> IF cut THEN first[2] + ((second[2] - first[2]) *
                                      (cutoff - first[1])) \div (second[1] - first[1])
                                 ELSE first[2]]
    BY <1>4 DEF Publish
  <2>2. /\ Samples(seeded, d.startedAt, d.work) /\ seeded # <<>>
        /\ Len(seeded) <= Window \div Interval + 2
        /\ seeded[1][1] = d.startedAt \/ seeded[1][1] + Window <= now
    <3>1. CASE d.samples = <<>>
      <4>1. /\ seeded = <<<<d.startedAt, 0>>>> /\ seeded # <<>> /\ seeded \in Seq(Nat \X Nat) /\ Len(seeded) = 1
            /\ seeded[1] = <<d.startedAt, 0>>
        BY <1>1, <3>1
      <4> HIDE DEF seeded
      <4>2. \A i \in 1..Len(seeded) : i = 1
        BY <4>1
      <4>3. 0 * Interval = 0
        BY <1>1
      <4>4. Samples(seeded, d.startedAt, d.work)
        <5>1. \A i \in 1..Len(seeded) : seeded[i][1] \in d.startedAt..now /\ seeded[i][2] <= d.work
          BY <1>1, <4>1, <4>2
        <5>2. ASSUME NEW i \in 1..Len(seeded), NEW j \in 1..Len(seeded)
              PROVE  seeded[i][1] + (j - i) * Interval <= seeded[j][1] /\ seeded[i][2] <= seeded[j][2]
          <6>1. i = 1 /\ j = 1 /\ j - i = 0
            BY <4>2
          <6> QED BY <1>1, <4>1, <4>3, <6>1
        <5> QED BY <4>1, <5>1, <5>2 DEF Samples
      <4>5. Window \div Interval \in Nat
        BY <1>1, DivMod
      <4> QED BY <4>1, <4>4, <4>5
    <3>2. CASE d.samples # <<>>
      BY <1>2, <3>2 DEF SamplesFit
    <3> QED BY <3>1, <3>2
  <2> HIDE DEF seeded
  <2>3. /\ Samples(kept, d.startedAt, d.work) /\ kept # <<>> /\ Len(kept) <= Len(seeded)
        /\ kept[1][1] = d.startedAt \/ kept[1][1] + Window <= now
        /\ now < Window => kept[1][1] = d.startedAt
        /\ Len(kept) > 1 => kept[2][1] + Window >= now
        /\ now >= Window /\ Len(kept) > 1 => kept[2][1] > cutoff
    <3>1. seeded \in Seq(Nat \X Nat) /\ \A i \in 1..Len(seeded) : seeded[i] \in Nat \X Nat
      BY <2>2, ElementOfSeq DEF Samples
    <3>2. Len(seeded) \in Nat \ {0} /\ seeded[1][1] \in Nat
      BY <2>2, <3>1, EmptySeq
    <3>3. CASE now < Window
      <4>1. kept = seeded
        BY <3>3
      <4>2. Len(seeded) > 1 => seeded[2][1] \in Nat
        <5>1. Len(seeded) > 1 => 2 \in 1..Len(seeded)
          BY <3>2
        <5> QED BY <3>1, <5>1
      <4> HIDE DEF kept
      <4>3. kept[1][1] = d.startedAt
        BY <1>1, <2>2, <3>2, <3>3, <4>1
      <4> QED BY <1>1, <2>2, <3>2, <3>3, <4>1, <4>2, <4>3
    <3>4. CASE now >= Window
      <4>1. kept = DropOld(seeded, cutoff)
        BY <1>1, <3>4
      <4> HIDE DEF kept, cutoff
      <4>2. /\ Samples(kept, d.startedAt, d.work) /\ kept # <<>> /\ Len(kept) <= Len(seeded)
            /\ kept[1] = seeded[1] \/ kept[1][1] <= cutoff
            /\ Len(kept) > 1 => kept[2][1] > cutoff
        BY <1>1, <2>2, <4>1, DropOldKeeps
      <4>3. kept \in Seq(Nat \X Nat) /\ \A i \in 1..Len(kept) : kept[i] \in Nat \X Nat
        BY <4>2, ElementOfSeq DEF Samples
      <4>4. Len(kept) \in Nat \ {0}
        BY <4>2, <4>3, EmptySeq
      <4>5. kept[1][1] \in Nat /\ (Len(kept) > 1 => kept[2][1] \in Nat)
        <5>1. 1 \in 1..Len(kept) /\ (Len(kept) > 1 => 2 \in 1..Len(kept))
          BY <4>4
        <5> QED BY <4>3, <5>1
      <4>6. kept[1][1] = d.startedAt \/ kept[1][1] + Window <= now
        BY <1>1, <2>2, <3>4, <4>2, <4>5
      <4>7. Len(kept) > 1 => kept[2][1] + Window >= now
        BY <1>1, <3>4, <4>2, <4>5
      <4> QED BY <1>1, <3>4, <4>2, <4>6, <4>7
    <3> QED BY <1>1, <3>3, <3>4
  <2> HIDE DEF kept
  <2>4. /\ kept \in Seq(Nat \X Nat) /\ Len(kept) \in Nat \ {0} /\ first = kept[1] /\ kept[1] \in Nat \X Nat
        /\ kept[1][1] \in Nat /\ kept[1][2] \in Nat /\ kept[1][2] <= d.work /\ kept[1][1] \in d.startedAt..now
    <3>1. kept \in Seq(Nat \X Nat) /\ Len(kept) \in Nat \ {0}
      BY <2>3, EmptySeq DEF Samples
    <3>2. 1 \in 1..Len(kept) /\ kept[1] \in Nat \X Nat
      BY <3>1, ElementOfSeq
    <3> QED BY <2>3, <3>1, <3>2 DEF Samples
  <2>5. /\ Samples(next, d.startedAt, d.work) /\ next # <<>> /\ next[1] = kept[1]
        /\ next = kept \/ (Len(next) = Len(kept) + 1 /\ kept[Len(kept)][1] + Interval <= now)
    BY <1>1, <2>3, SampledOrdered
  <2> HIDE DEF next
  <2>6. Len(next) <= Window \div Interval + 2
    <3>1. Window \div Interval \in Nat
      BY <1>1, DivMod
    <3>2. Len(seeded) \in Nat
      BY <2>2 DEF Samples
    <3>3. CASE next = kept
      BY <2>2, <2>3, <2>4, <3>1, <3>2, <3>3
    <3>4. CASE next # kept /\ Len(kept) = 1
      <4> DEFINE room == Window \div Interval
      <4>1. Len(next) = 2 /\ room \in Nat
        BY <2>5, <3>1, <3>4
      <4> HIDE DEF room
      <4>2. Len(next) <= room + 2
        BY <4>1
      <4> QED BY <4>2 DEF room
    <3>5. CASE next # kept /\ Len(kept) # 1
      <4>0. Len(kept) \in Nat \ {0} /\ Len(kept) # 1
        BY <2>4, <3>5
      <4>1. Len(kept) > 1
        <5>1. \A l \in Nat \ {0} : l # 1 => l > 1
          OBVIOUS
        <5> QED BY <4>0, <5>1
      <4>2. Len(kept) + 1 <= Window \div Interval + 2
        BY <1>1, <2>3, <2>5, <3>5, <4>1, WindowHolds
      <4> QED BY <2>5, <3>5, <4>2
    <3> QED BY <3>3, <3>4, <3>5
  <2>7. /\ rate'.baseline \in Nat /\ rate'.baseline <= d.work
    <3>1. CASE cut
      <4>1. rate'.baseline = first[2] + ((second[2] - first[2]) * (cutoff - first[1])) \div (second[1] - first[1])
        BY <2>1, <3>1
      <4>2. now >= Window /\ kept[1][1] < cutoff
        BY <2>4, <3>1
      <4>3. /\ second[1] \in Nat /\ second[1] > cutoff /\ second[2] \in Nat
            /\ kept[1][2] <= second[2] /\ second[2] <= d.work
        <5>1. CASE Len(kept) > 1
          <6>1. 1 \in 1..Len(kept) /\ 2 \in 1..Len(kept) /\ second = kept[2] /\ 1 <= 2
            BY <2>4, <5>1
          <6>2. kept[2] \in Nat \X Nat
            BY <2>4, <6>1, ElementOfSeq
          <6>3. kept[1][2] <= kept[2][2] /\ kept[2][2] <= d.work
            BY <2>3, <6>1 DEF Samples
          <6> QED BY <2>3, <4>2, <5>1, <6>1, <6>2, <6>3
        <5>2. CASE ~(Len(kept) > 1)
          <6>1. second = <<now, d.work>>
            BY <5>2
          <6> HIDE DEF second, cutoff
          <6> QED BY <1>1, <2>4, <4>2, <6>1
        <5> QED BY <5>1, <5>2
      <4> DEFINE x == second[2] - first[2]
                 y == cutoff - first[1]
                 z == second[1] - first[1]
                 share == (x * y) \div z
      <4> HIDE DEF second, cutoff
      <4>4. x \in Nat /\ y \in Nat /\ z \in Nat \ {0} /\ y <= z
        <5>1. /\ first[1] \in Nat /\ first[1] < cutoff /\ cutoff \in Nat /\ first[2] \in Nat
              /\ first[2] <= second[2] /\ second[2] \in Nat /\ second[1] \in Nat /\ second[1] > cutoff
          BY <1>1, <2>4, <4>2, <4>3
        <5> HIDE DEF first
        <5> QED BY <5>1
      <4>5. share \in Nat /\ share <= x
        <5> HIDE DEF x, y, z
        <5> QED BY <4>4, DivLess
      <4>6. rate'.baseline = first[2] + share
        BY <4>1
      <4> HIDE DEF share
      <4>7. first[2] + x = second[2]
        <5> HIDE DEF first
        <5> QED BY <2>4, <4>3
      <4>8. first[2] \in Nat /\ second[2] \in Nat
        BY <2>4, <4>3
      <4> DEFINE base == first[2]
                 top == second[2]
                 all == d.work
      <4>9. /\ x \in Nat /\ share \in Nat /\ share <= x /\ rate'.baseline = base + share /\ base + x = top
            /\ base \in Nat /\ top \in Nat /\ top <= all /\ all \in Nat
        BY <1>1, <4>3, <4>4, <4>5, <4>6, <4>7, <4>8
      <4> HIDE DEF x, first, base, top, all
      <4>10. rate'.baseline \in Nat /\ rate'.baseline <= all
        BY <4>9
      <4> QED BY <4>10 DEF all
    <3>2. CASE ~cut
      <4>1. rate'.baseline = first[2]
        BY <2>1, <3>2
      <4> QED BY <2>4, <4>1
    <3> QED BY <3>1, <3>2
  <2>8. rate'.span \in Int /\ rate'.span = (IF now - d.startedAt > Window THEN Window ELSE now - d.startedAt)
    <3>1. CASE cut
      <4>1. rate'.span = now - cutoff
        BY <2>1, <3>1
      <4>2. now >= Window /\ kept[1][1] < cutoff
        BY <2>4, <3>1
      <4> DEFINE begun == kept[1][1]
      <4>3. /\ rate'.span = now - cutoff /\ begun \in Nat /\ d.startedAt <= begun /\ begun < cutoff
            /\ cutoff + Window = now
        BY <1>1, <2>4, <4>1, <4>2
      <4>4. /\ now \in Nat /\ Window \in Nat /\ d.startedAt \in Nat /\ cutoff \in Nat
        BY <1>1
      <4> HIDE DEF cutoff, begun
      <4> QED BY <4>3, <4>4
    <3>2. CASE ~cut
      <4>1. rate'.span = now - kept[1][1]
        BY <2>1, <2>4, <3>2
      <4>2. now < Window \/ kept[1][1] >= cutoff
        BY <1>1, <2>4, <3>2
      <4> DEFINE begun == kept[1][1]
      <4>3. /\ rate'.span = now - begun /\ begun \in Nat /\ begun <= now /\ d.startedAt <= begun
            /\ now < Window => begun = d.startedAt
            /\ now >= Window => begun >= cutoff /\ cutoff + Window = now
            /\ begun = d.startedAt \/ begun + Window <= now
        BY <1>1, <2>3, <2>4, <4>1, <4>2
      <4>4. /\ now \in Nat /\ Window \in Nat /\ d.startedAt \in Nat /\ cutoff \in Nat
        BY <1>1
      <4> HIDE DEF cutoff, begun
      <4> QED BY <4>3, <4>4
    <3> QED BY <3>1, <3>2
  <2>9. /\ data' \in JobData /\ data'.samples = next /\ data' = [d EXCEPT !.samples = data'.samples]
    <3>1. next \in Seq(Nat \X Nat)
      BY <2>5 DEF Samples
    <3> QED BY <2>1, <3>1 DEF JobData
  <2>10. rate' \in [span : Int, baseline : Nat]
    BY <2>1, <2>7, <2>8
  <2> QED BY <1>1, <2>3, <2>4, <2>5, <2>6, <2>7, <2>8, <2>9, <2>10
<1> QED BY <1>3, <1>4

\* The rate an update leaves spans the window, or the phase while it is younger.
RateSpans ==
    data' # data /\ rate' # NoRate /\ data'.phase # "finished" =>
        rate'.span = (IF now - data'.startedAt > Window THEN Window ELSE now - data'.startedAt)

\* The same of a step that publishes: the clock stands still.
LEMMA PublishKeeps ==
    ASSUME ProgressInv, NEW d \in JobData, SamplesFit(d), Publish(d), now' = now
    PROVE  /\ data' \in JobData /\ data' = [d EXCEPT !.samples = data'.samples]
           /\ now' \in Nat /\ rate' \in [span : Int, baseline : Nat] /\ SamplesFit(data)'
           /\ rate'.baseline <= data'.work \/ data'.phase = "finished"
           /\ RateSpans
<1>1. now \in Nat /\ rate \in [span : Int, baseline : Nat]
  BY DEF ProgressInv, ProgressTypeOK
<1>2. /\ data' \in JobData /\ data' = [d EXCEPT !.samples = data'.samples]
      /\ rate' \in [span : Int, baseline : Nat]
      /\ d.startedAt <= now /\ Samples(data'.samples, d.startedAt, d.work)
      /\ Len(data'.samples) <= Window \div Interval + 2
      /\ data'.samples # <<>> => data'.samples[1][1] = d.startedAt \/ data'.samples[1][1] + Window <= now
      /\ rate'.baseline <= d.work \/ d.phase = "finished"
      /\ rate' # NoRate /\ d.phase # "finished" =>
             rate'.span = (IF now - d.startedAt > Window THEN Window ELSE now - d.startedAt)
  BY <1>1, PublishFits
<1>3. data'.startedAt = d.startedAt /\ data'.work = d.work /\ data'.phase = d.phase
  BY <1>2 DEF JobData
<1>4. SamplesFit(data)'
  BY <1>2, <1>3 DEF SamplesFit, Samples
<1>5. RateSpans
  BY <1>2, <1>3 DEF RateSpans
<1> QED BY <1>1, <1>2, <1>3, <1>4, <1>5

\* What is published shows but the samples of d.
LEMMA PublishedFields ==
    ASSUME NEW d \in JobData, data' \in JobData, data' = [d EXCEPT !.samples = data'.samples]
    PROVE  /\ data'.status = d.status /\ data'.phase = d.phase /\ data'.loadingFor = d.loadingFor
           /\ data'.loading = d.loading /\ data'.work = d.work /\ data'.startedAt = d.startedAt
BY DEF JobData

\* A phase that is set again is left alone; a new one has no samples yet.
LEMMA PhaseBegins ==
    ASSUME NEW d \in JobData, now \in Nat, SamplesFit(d), NEW next \in Stages \cup NoStages
    PROVE  LET e == InPhase(d, next) IN
           /\ e \in JobData /\ SamplesFit(e) /\ e.phase = next /\ e.status = d.status
           /\ next = "loadingModels" => e.loadingFor = d.loadingFor /\ e.loading = d.loading
           /\ next # "loadingModels" /\ d.phase # next => e.loadingFor = NoPhase /\ ~e.loading
           /\ d.phase = next => e = d
<1> DEFINE e == InPhase(d, next)
<1>1. CASE d.phase = next
  BY <1>1 DEF InPhase
<1>2. CASE d.phase # next
  <2>1. e = [d EXCEPT !.phase = next,
                      !.loadingFor = IF next = "loadingModels" THEN @ ELSE NoPhase,
                      !.loading = IF next = "loadingModels" THEN @ ELSE FALSE,
                      !.completed = 0, !.total = 0, !.work = 0, !.startedAt = now, !.samples = <<>>]
    BY <1>2 DEF InPhase
  <2> HIDE DEF e
  <2>2. <<>> \in Seq(Nat \X Nat) /\ Len(<<>>) = 0
    BY EmptySeq
  <2>3. /\ e \in JobData /\ e.phase = next /\ e.status = d.status /\ e.startedAt = now /\ e.work = 0 /\ e.samples = <<>>
        /\ next = "loadingModels" => e.loadingFor = d.loadingFor /\ e.loading = d.loading
        /\ next # "loadingModels" => e.loadingFor = NoPhase /\ ~e.loading
    BY <2>1, <2>2 DEF JobData
  <2>4. Window \div Interval \in Nat
    BY ProgressAssumption, DivMod
  <2>5. SamplesFit(e)
    <3>1. 1..Len(e.samples) = {}
      BY <2>2, <2>3
    <3>2. Len(e.samples) <= Window \div Interval + 2
      BY <2>2, <2>3, <2>4
    <3> QED BY <2>3, <3>1, <3>2 DEF SamplesFit
  <2> QED BY <1>2, <2>3, <2>5 DEF e
<1> QED BY <1>1, <1>2

\* Samples stay behind work that grows.
LEMMA WorkGrows ==
    ASSUME NEW d \in JobData, NEW e \in JobData, now \in Nat, SamplesFit(d), e.samples = d.samples,
           e.startedAt = d.startedAt, e.work >= d.work
    PROVE  SamplesFit(e)
<1>1. d.samples \in Seq(Nat \X Nat) /\ d.work \in Nat /\ e.work \in Nat
  BY DEF JobData
<1>2. \A i \in 1..Len(d.samples) : d.samples[i][2] \in Nat
  <2>1. \A i \in 1..Len(d.samples) : d.samples[i] \in Nat \X Nat
    BY <1>1, ElementOfSeq
  <2> QED BY <2>1
<1>3. \A i \in 1..Len(d.samples) : d.samples[i][2] <= d.work
  BY DEF SamplesFit
<1>4. \A a \in Nat : a <= d.work => a <= e.work
  BY <1>1
<1>5. \A i \in 1..Len(e.samples) : e.samples[i][2] <= e.work
  BY <1>2, <1>3, <1>4
<1> QED BY <1>5 DEF SamplesFit

\* A step that publishes keeps the invariant with what it does to the phase.
LEMMA PublishInv ==
    ASSUME ProgressInv, NEW d \in JobData, SamplesFit(d), Publish(d), now' = now, stage' \in Stages \cup {NoPhase}, StageInv'
    PROVE  ProgressInv' /\ RateSpans
BY PublishKeeps DEF ProgressInv, ProgressTypeOK

\* What the invariant says of the job.
LEMMA ProgressFacts ==
    ASSUME ProgressInv
    PROVE  /\ now \in Nat /\ data \in JobData /\ SamplesFit(data) /\ StageInv /\ stage \in Stages \cup {NoPhase}
           /\ data.work \in Nat /\ data.completed \in Nat /\ data.total \in Nat /\ data.loading \in BOOLEAN
           /\ data.phase \in Stages \cup NoStages /\ data.loadingFor \in Stages \cup {NoPhase}
           /\ NoPhase \notin Stages /\ "loadingModels" \notin Stages /\ "queued" \notin Stages /\ "finished" \notin Stages
<1>1. data \in JobData
  BY DEF ProgressInv, ProgressTypeOK
<1>2. /\ data.work \in Nat /\ data.completed \in Nat /\ data.total \in Nat /\ data.loading \in BOOLEAN
      /\ data.phase \in Stages \cup NoStages /\ data.loadingFor \in Stages \cup {NoPhase}
  BY <1>1 DEF JobData
<1>3. /\ NoPhase \notin Stages /\ "loadingModels" \notin Stages /\ "queued" \notin Stages /\ "finished" \notin Stages
  BY ProgressAssumption DEF NoStages
<1> QED BY <1>1, <1>2, <1>3 DEF ProgressInv, ProgressTypeOK

LEMMA BeginJobKeeps ==
    ASSUME ProgressInv, BeginJob
    PROVE  ProgressInv' /\ RateSpans
<1> DEFINE d == [data EXCEPT !.status = "running"]
<1>1. /\ d \in JobData /\ d.status = "running" /\ d.phase = data.phase /\ d.loadingFor = data.loadingFor
      /\ d.loading = data.loading /\ d.samples = data.samples /\ d.startedAt = data.startedAt /\ d.work = data.work
  BY ProgressFacts DEF JobData
<1>2. SamplesFit(d) /\ Publish(d) /\ now' = now /\ stage' = stage
  BY <1>1, ProgressFacts DEF SamplesFit, BeginJob
<1> HIDE DEF d
<1>3. data' \in JobData /\ data' = [d EXCEPT !.samples = data'.samples]
  BY <1>1, <1>2, PublishKeeps
<1>4. /\ data'.status = d.status /\ data'.phase = d.phase /\ data'.loadingFor = d.loadingFor /\ data'.loading = d.loading
  BY <1>1, <1>3, PublishedFields
<1>5. data.status = "queued" /\ data.phase = "queued" /\ stage = NoPhase
  BY ProgressFacts DEF BeginJob, StageInv
<1>6. ~data.loading
  BY <1>5, ProgressFacts DEF StageInv, JobRunning
<1>7. StageInv'
  BY <1>1, <1>2, <1>4, <1>5, <1>6, ProgressFacts DEF StageInv, StageResumed, JobRunning
<1> QED BY <1>1, <1>2, <1>7, ProgressFacts, PublishInv

LEMMA EnterStageKeeps ==
    ASSUME ProgressInv, NEW p \in Stages, EnterStage(p)
    PROVE  ProgressInv' /\ RateSpans
<1> DEFINE d == InPhase(data, p)
<1>1. p \in Stages \cup NoStages /\ p # "loadingModels" /\ p # "finished" /\ p # NoPhase
  BY ProgressFacts
<1>2. /\ d \in JobData /\ SamplesFit(d) /\ d.phase = p /\ d.status = data.status
      /\ data.phase # p => d.loadingFor = NoPhase /\ ~d.loading
      /\ data.phase = p => d = data
  BY <1>1, ProgressFacts, PhaseBegins
<1>3. Publish(d) /\ now' = now /\ stage' = p /\ ~data.loading /\ data.status = "running"
  BY DEF EnterStage, JobRunning
<1> HIDE DEF d
<1>4. data' \in JobData /\ data' = [d EXCEPT !.samples = data'.samples]
  BY <1>2, <1>3, PublishKeeps
<1>5. /\ data'.status = d.status /\ data'.phase = d.phase /\ data'.loadingFor = d.loadingFor /\ data'.loading = d.loading
  BY <1>2, <1>4, PublishedFields
<1>6. ~d.loading
  BY <1>2, <1>3
<1>7. StageInv'
  BY <1>1, <1>2, <1>3, <1>5, <1>6 DEF StageInv, StageResumed, JobRunning
<1> QED BY <1>2, <1>3, <1>7, PublishInv

LEMMA ExpectModelsKeeps ==
    ASSUME ProgressInv, NEW n \in Nat, ExpectModels(n)
    PROVE  ProgressInv' /\ RateSpans
<1> DEFINE e == InPhase(data, "loadingModels")
           d == [e EXCEPT !.total = n]
<1>1. "loadingModels" \in Stages \cup NoStages
  BY DEF NoStages
<1>2. /\ e \in JobData /\ SamplesFit(e) /\ e.phase = "loadingModels" /\ e.status = data.status
      /\ e.loadingFor = data.loadingFor /\ e.loading = data.loading
  BY <1>1, ProgressFacts, PhaseBegins
<1> HIDE DEF e
<1>3. /\ d \in JobData /\ d.phase = e.phase /\ d.status = e.status /\ d.loadingFor = e.loadingFor /\ d.loading = e.loading
      /\ d.samples = e.samples /\ d.startedAt = e.startedAt /\ d.work = e.work
  BY <1>2 DEF JobData
<1>4. Publish(d) /\ now' = now /\ stage' = stage /\ data.status = "running" /\ stage = NoPhase /\ data.phase = "queued"
  BY DEF ExpectModels, JobRunning, e
<1> HIDE DEF d
<1>5. SamplesFit(d)
  BY <1>2, <1>3 DEF SamplesFit
<1>6. data' \in JobData /\ data' = [d EXCEPT !.samples = data'.samples]
  BY <1>3, <1>4, <1>5, PublishKeeps
<1>7. /\ data'.status = d.status /\ data'.phase = d.phase /\ data'.loadingFor = d.loadingFor /\ data'.loading = d.loading
  BY <1>3, <1>6, PublishedFields
<1>8. data.loadingFor = NoPhase
  BY <1>4, ProgressFacts DEF StageInv
<1>9. StageInv'
  BY <1>2, <1>3, <1>4, <1>7, <1>8, ProgressFacts DEF StageInv, StageResumed, JobRunning, NoStages
<1> QED BY <1>3, <1>4, <1>5, <1>9, ProgressFacts, PublishInv

LEMMA LoadBeginsKeeps ==
    ASSUME ProgressInv, LoadBegins
    PROVE  ProgressInv' /\ RateSpans
<1> DEFINE b == [data EXCEPT !.loadingFor = DetourFrom(data)]
           e == InPhase(b, "loadingModels")
           total == IF e.total > e.completed + 1 THEN e.total ELSE e.completed + 1
           d == [e EXCEPT !.loading = TRUE, !.total = total]
<1>1. "loadingModels" \in Stages \cup NoStages
  BY DEF NoStages
<1>2. Publish(d) /\ now' = now /\ stage' = stage /\ data.status = "running" /\ ~data.loading
  BY DEF LoadBegins, JobRunning
<1>3. DetourFrom(data) = stage
  <2>1. CASE stage # NoPhase
    <3>1. data.phase = stage
      BY <1>2, <2>1, ProgressFacts DEF StageInv, StageResumed, JobRunning
    <3>2. data.phase \notin {"queued", "loadingModels"}
      BY <2>1, <3>1, ProgressFacts
    <3> QED BY <3>1, <3>2 DEF DetourFrom
  <2>2. CASE stage = NoPhase
    <3>1. data.loadingFor = NoPhase /\ data.phase \in NoStages /\ data.phase # "finished"
      BY <1>2, <2>2, ProgressFacts DEF StageInv, JobRunning
    <3>2. data.phase \in {"queued", "loadingModels"}
      BY <3>1 DEF NoStages
    <3> QED BY <2>2, <3>1, <3>2 DEF DetourFrom
  <2> QED BY <2>1, <2>2
<1>4. /\ b \in JobData /\ b.status = data.status /\ b.phase = data.phase /\ b.loadingFor = stage /\ b.loading = data.loading
      /\ b.samples = data.samples /\ b.startedAt = data.startedAt /\ b.work = data.work
  BY <1>3, ProgressFacts DEF JobData
<1> HIDE DEF b
<1>5. SamplesFit(b)
  BY <1>4, ProgressFacts DEF SamplesFit
<1>6. /\ e \in JobData /\ SamplesFit(e) /\ e.phase = "loadingModels" /\ e.status = b.status /\ e.loadingFor = b.loadingFor
  BY <1>1, <1>4, <1>5, ProgressFacts, PhaseBegins
<1> HIDE DEF e
<1>7. total \in Nat
  <2>1. e.total \in Nat /\ e.completed \in Nat
    BY <1>6 DEF JobData
  <2> QED BY <2>1
<1> HIDE DEF total
<1>8. /\ d \in JobData /\ d.phase = e.phase /\ d.status = e.status /\ d.loadingFor = e.loadingFor /\ d.loading
      /\ d.samples = e.samples /\ d.startedAt = e.startedAt /\ d.work = e.work
  BY <1>6, <1>7 DEF JobData
<1> HIDE DEF d
<1>9. SamplesFit(d)
  BY <1>6, <1>8 DEF SamplesFit
<1>10. data' \in JobData /\ data' = [d EXCEPT !.samples = data'.samples]
  BY <1>2, <1>8, <1>9, PublishKeeps
<1>11. /\ data'.status = d.status /\ data'.phase = d.phase /\ data'.loadingFor = d.loadingFor /\ data'.loading = d.loading
  BY <1>8, <1>10, PublishedFields
<1>12. StageInv'
  BY <1>2, <1>4, <1>6, <1>8, <1>11, ProgressFacts DEF StageInv, StageResumed, JobRunning, NoStages
<1> QED BY <1>2, <1>8, <1>9, <1>12, ProgressFacts, PublishInv

LEMMA LoadEndsKeeps ==
    ASSUME ProgressInv, LoadEnds
    PROVE  ProgressInv' /\ RateSpans
<1>1. now' = now /\ stage' = stage /\ data.status = "running" /\ data.loading /\ data.phase = "loadingModels"
  BY ProgressFacts DEF LoadEnds, JobRunning, StageInv
<1>2. data.loadingFor = stage
  <2>1. CASE stage # NoPhase
    BY <1>1, <2>1, ProgressFacts DEF StageInv, StageResumed, JobRunning
  <2>2. CASE stage = NoPhase
    BY <2>2, ProgressFacts DEF StageInv
  <2> QED BY <2>1, <2>2
<1>3. CASE stage # NoPhase
  <2> DEFINE b == [data EXCEPT !.loading = FALSE]
             d == InPhase(b, stage)
  <2>1. /\ b \in JobData /\ b.status = data.status /\ b.phase = data.phase
        /\ b.samples = data.samples /\ b.startedAt = data.startedAt /\ b.work = data.work
    BY ProgressFacts DEF JobData
  <2>2. Publish(d)
    BY <1>2, <1>3 DEF LoadEnds
  <2> HIDE DEF b
  <2>3. SamplesFit(b)
    BY <2>1, ProgressFacts DEF SamplesFit
  <2>4. stage \in Stages \cup NoStages /\ stage \in Stages /\ stage # "loadingModels" /\ stage # "finished"
    BY <1>3, ProgressFacts
  <2>5. /\ d \in JobData /\ SamplesFit(d) /\ d.phase = stage /\ d.status = b.status /\ d.loadingFor = NoPhase /\ ~d.loading
    BY <1>1, <2>1, <2>3, <2>4, ProgressFacts, PhaseBegins
  <2> HIDE DEF d
  <2>6. data' \in JobData /\ data' = [d EXCEPT !.samples = data'.samples]
    BY <1>1, <2>2, <2>5, PublishKeeps
  <2>7. /\ data'.status = d.status /\ data'.phase = d.phase /\ data'.loadingFor = d.loadingFor /\ data'.loading = d.loading
    BY <2>5, <2>6, PublishedFields
  <2>8. StageInv'
    BY <1>1, <1>3, <2>1, <2>4, <2>5, <2>7 DEF StageInv, StageResumed, JobRunning
  <2> QED BY <1>1, <2>2, <2>4, <2>5, <2>8, PublishInv
<1>4. CASE stage = NoPhase
  <2> DEFINE d == [data EXCEPT !.loading = FALSE, !.completed = @ + 1, !.work = @ + 1]
  <2>1. Publish(d)
    BY <1>2, <1>4 DEF LoadEnds
  <2>2. /\ d \in JobData /\ d.status = data.status /\ d.phase = data.phase /\ d.loadingFor = data.loadingFor /\ ~d.loading
        /\ d.samples = data.samples /\ d.startedAt = data.startedAt /\ d.work = data.work + 1
    <3>1. data \in JobData /\ data.work + 1 \in Nat /\ data.completed + 1 \in Nat
      BY ProgressFacts
    <3> QED BY <3>1 DEF JobData
  <2> HIDE DEF d
  <2>3. d.work >= data.work
    BY <2>2, ProgressFacts
  <2>4. SamplesFit(d)
    BY <2>2, <2>3, ProgressFacts, WorkGrows
  <2>5. data' \in JobData /\ data' = [d EXCEPT !.samples = data'.samples]
    BY <1>1, <2>1, <2>2, <2>4, PublishKeeps
  <2>6. /\ data'.status = d.status /\ data'.phase = d.phase /\ data'.loadingFor = d.loadingFor /\ data'.loading = d.loading
    BY <2>2, <2>5, PublishedFields
  <2>7. StageInv'
    BY <1>1, <1>2, <1>4, <2>2, <2>6, ProgressFacts DEF StageInv, StageResumed, JobRunning, NoStages
  <2> QED BY <1>1, <2>1, <2>2, <2>4, <2>7, ProgressFacts, PublishInv
<1> QED BY <1>3, <1>4

LEMMA WorkDoneKeeps ==
    ASSUME ProgressInv, NEW n \in Nat, WorkDone(n)
    PROVE  ProgressInv' /\ RateSpans
<1> DEFINE d == [data EXCEPT !.completed = @ + n, !.work = @ + n]
<1>1. Publish(d) /\ now' = now /\ stage' = stage /\ data.status = "running" /\ data.phase \in Stages
  BY DEF WorkDone, JobRunning
<1>2. /\ d \in JobData /\ d.status = data.status /\ d.phase = data.phase /\ d.loadingFor = data.loadingFor
      /\ d.loading = data.loading /\ d.samples = data.samples /\ d.startedAt = data.startedAt /\ d.work = data.work + n
  <2>1. data \in JobData /\ data.work + n \in Nat /\ data.completed + n \in Nat
    BY ProgressFacts
  <2> QED BY <2>1 DEF JobData
<1> HIDE DEF d
<1>3. d.work >= data.work
  BY <1>2, ProgressFacts
<1>4. SamplesFit(d)
  BY <1>2, <1>3, ProgressFacts, WorkGrows
<1>5. data' \in JobData /\ data' = [d EXCEPT !.samples = data'.samples]
  BY <1>1, <1>2, <1>4, PublishKeeps
<1>6. /\ data'.status = d.status /\ data'.phase = d.phase /\ data'.loadingFor = d.loadingFor /\ data'.loading = d.loading
  BY <1>2, <1>5, PublishedFields
<1>7. StageInv'
  BY <1>1, <1>2, <1>6, ProgressFacts DEF StageInv, StageResumed, JobRunning
<1> QED BY <1>1, <1>2, <1>4, <1>7, ProgressFacts, PublishInv

LEMMA FinishKeeps ==
    ASSUME ProgressInv, NEW status \in {"completed", "failed", "cancelled"}, Finish(status)
    PROVE  ProgressInv' /\ RateSpans
<1> DEFINE d == [data EXCEPT !.status = status, !.phase = "finished", !.loading = FALSE, !.loadingFor = NoPhase]
<1>1. Publish(d) /\ now' = now /\ stage' = stage
  BY DEF Finish
<1>2. /\ d \in JobData /\ d.status = status /\ d.phase = "finished" /\ d.loadingFor = NoPhase /\ ~d.loading
      /\ d.samples = data.samples /\ d.startedAt = data.startedAt /\ d.work = data.work
  BY ProgressFacts DEF JobData, NoStages
<1> HIDE DEF d
<1>3. SamplesFit(d)
  BY <1>2, ProgressFacts DEF SamplesFit
<1>4. data' \in JobData /\ data' = [d EXCEPT !.samples = data'.samples]
  BY <1>1, <1>2, <1>3, PublishKeeps
<1>5. /\ data'.status = d.status /\ data'.phase = d.phase /\ data'.loadingFor = d.loadingFor /\ data'.loading = d.loading
  BY <1>2, <1>4, PublishedFields
<1>6. StageInv'
  BY <1>1, <1>2, <1>5, ProgressFacts DEF StageInv, StageResumed, JobRunning, NoStages
<1> QED BY <1>1, <1>2, <1>3, <1>6, ProgressFacts, PublishInv

LEMMA TickKeeps ==
    ASSUME ProgressInv, Tick
    PROVE  ProgressInv' /\ RateSpans
<1>1. now \in Nat /\ now' = now + 1 /\ data' = data /\ rate' = rate /\ stage' = stage
  BY ProgressFacts DEF Tick
<1>2. data.startedAt \in Nat /\ data.samples \in Seq(Nat \X Nat)
  BY ProgressFacts DEF JobData
<1>3. \A i \in 1..Len(data.samples) : data.samples[i][1] \in Nat
  <2>1. \A i \in 1..Len(data.samples) : data.samples[i] \in Nat \X Nat
    BY <1>2, ElementOfSeq
  <2> QED BY <2>1
<1>4. SamplesFit(data)'
  <2>1. data.startedAt <= now + 1
    BY <1>1, <1>2, ProgressFacts DEF SamplesFit
  <2>2. \A i \in 1..Len(data.samples) : data.samples[i][1] \in data.startedAt..now + 1
    <3>1. \A i \in 1..Len(data.samples) : data.samples[i][1] \in data.startedAt..now
      <4>1. SamplesFit(data)
        BY ProgressFacts
      <4> QED BY ONLY <4>1 DEF SamplesFit
    <3>2. \A t \in data.startedAt..now : t \in data.startedAt..now + 1
      BY <1>1, <1>2
    <3> QED BY ONLY <3>1, <3>2
  <2>3. data.samples # <<>> => data.samples[1][1] = data.startedAt \/ data.samples[1][1] + Window <= now + 1
    <3>1. data.samples # <<>> => 1 \in 1..Len(data.samples)
      BY <1>2, EmptySeq
    <3>2. Window \in Nat
      BY ProgressAssumption
    <3> QED BY <1>1, <1>3, <3>1, <3>2, ProgressFacts DEF SamplesFit
  <2> QED BY <1>1, <2>1, <2>2, <2>3, ProgressFacts DEF SamplesFit
<1>5. StageInv'
  BY <1>1, ProgressFacts DEF StageInv, StageResumed, JobRunning
<1> QED BY <1>1, <1>4, <1>5 DEF ProgressInv, ProgressTypeOK, RateSpans

\* Every change of what a job shows is an update at the time it is made.
LEMMA ProgressStep ==
    ASSUME ProgressInv, ProgressNext
    PROVE  ProgressInv' /\ RateSpans
<1>1. CASE BeginJob
  BY <1>1, BeginJobKeeps
<1>2. CASE LoadBegins
  BY <1>2, LoadBeginsKeeps
<1>3. CASE LoadEnds
  BY <1>3, LoadEndsKeeps
<1>4. CASE Tick
  BY <1>4, TickKeeps
<1>5. ASSUME NEW p \in Stages, EnterStage(p) PROVE ProgressInv' /\ RateSpans
  BY <1>5, EnterStageKeeps
<1>6. ASSUME NEW n \in 1..2, ExpectModels(n) \/ WorkDone(n) PROVE ProgressInv' /\ RateSpans
  <2>1. n \in Nat
    OBVIOUS
  <2> QED BY <1>6, <2>1, ExpectModelsKeeps, WorkDoneKeeps
<1>7. ASSUME NEW status \in {"completed", "failed", "cancelled"}, Finish(status) PROVE ProgressInv' /\ RateSpans
  BY <1>7, FinishKeeps
<1> QED BY <1>1, <1>2, <1>3, <1>4, <1>5, <1>6, <1>7 DEF ProgressNext

LEMMA ProgressInitially == ProgressInit => ProgressInv
<1> SUFFICES ASSUME ProgressInit PROVE ProgressInv
  OBVIOUS
<1>1. <<>> \in Seq(Nat \X Nat) /\ Len(<<>>) = 0 /\ 1..0 = {}
  BY EmptySeq
<1>2. /\ data \in JobData /\ data.status = "queued" /\ data.phase = "queued" /\ data.loadingFor = NoPhase /\ ~data.loading
      /\ data.samples = <<>> /\ data.startedAt = 0 /\ data.work = 0
  BY <1>1 DEF ProgressInit, JobData, NoStages
<1>3. Window \div Interval \in Nat
  BY ProgressAssumption, DivMod
<1>4. SamplesFit(data)
  <2>1. 1..Len(data.samples) = {} /\ Len(data.samples) = 0
    BY <1>1, <1>2
  <2> QED BY <1>2, <1>3, <2>1 DEF SamplesFit, ProgressInit
<1>5. StageInv
  BY <1>2 DEF StageInv, StageResumed, JobRunning, ProgressInit, NoStages
<1>6. ProgressTypeOK /\ rate.baseline <= data.work
  BY <1>2 DEF ProgressTypeOK, ProgressInit, NoRate
<1> QED BY <1>4, <1>5, <1>6 DEF ProgressInv

\* What the invariant says of the samples is what a step of the window may hold.
LEMMA FitIsBounded == ProgressInv => StageResumed /\ SamplesBounded
<1> SUFFICES ASSUME ProgressInv PROVE StageResumed /\ SamplesBounded
  OBVIOUS
<1>1. SamplesFit(data) /\ data.samples \in Seq(Nat \X Nat) /\ Interval \in Nat
  BY ProgressFacts, ProgressAssumption DEF JobData
<1>2. ASSUME NEW k \in 2..Len(data.samples)
      PROVE  data.samples[k - 1][1] + Interval <= data.samples[k][1] /\ data.samples[k - 1][2] <= data.samples[k][2]
  <2>1. Len(data.samples) \in Nat
    BY <1>1
  <2>2. k - 1 \in 1..Len(data.samples) /\ k \in 1..Len(data.samples) /\ k - 1 <= k /\ k - (k - 1) = 1
    BY <2>1
  <2>3. (k - (k - 1)) * Interval = Interval
    BY <1>1, <2>2
  <2>4. /\ data.samples[k - 1][1] + (k - (k - 1)) * Interval <= data.samples[k][1]
        /\ data.samples[k - 1][2] <= data.samples[k][2]
    BY <1>1, <2>2 DEF SamplesFit
  <2> QED BY <2>3, <2>4
<1> QED BY <1>1, <1>2, ProgressFacts DEF ProgressInv, SamplesFit, SamplesBounded, StageInv

\* A step that keeps everything keeps the invariant.
LEMMA ProgressStutters ==
    ASSUME ProgressInv, UNCHANGED progressVars
    PROVE  ProgressInv'
BY DEF ProgressInv, ProgressTypeOK, StageInv, StageResumed, JobRunning, SamplesFit, progressVars

\* What a job shows always keeps its invariant (job_event.rs: set_phase,
\* loading_model, refresh_phase_throughput_at, publish).
THEOREM ProgressInvariant == ProgressSpec => []ProgressInv
<1>1. ProgressInv /\ [ProgressNext]_progressVars => ProgressInv'
  <2>1. ProgressInv /\ ProgressNext => ProgressInv'
    BY ProgressStep
  <2>2. ProgressInv /\ UNCHANGED progressVars => ProgressInv'
    BY ProgressStutters
  <2> QED BY <2>1, <2>2
<1> QED BY <1>1, ProgressInitially, PTL DEF ProgressSpec

\* A job is always in the stage it entered last or loads a model for it, and
\* its rate is over the whole window or over the phase while it is younger,
\* from samples an interval apart that are never more than a window of them.
THEOREM ProgressAlwaysTrue == ProgressSpec => ProgressIsTrue
<1>1. ProgressInv /\ [ProgressNext]_progressVars =>
          [data' # data /\ rate' # NoRate /\ data'.phase # "finished" =>
              rate'.span = (IF now - data'.startedAt > Window THEN Window ELSE now - data'.startedAt)]_progressVars
  BY ProgressStep DEF RateSpans
<1>2. ProgressSpec => []ProgressInv
  BY ProgressInvariant
<1> QED BY <1>1, <1>2, FitIsBounded, PTL DEF ProgressSpec, ProgressIsTrue, RateSpansWindow
===============================================================================
