----------------------------- MODULE LibraryViews -----------------------------
(***************************************************************************)
(* The libraries client windows show, which drive automatic scans.  A view  *)
(* update holds the mutex `view_changes` throughout but takes the registry  *)
(* four times: to decide, inside start, to commit, and to list the scans of *)
(* a library nobody shows any more, which it then cancels one by one.       *)
(***************************************************************************)
EXTENDS JobManager, TtlMap

CONSTANTS
    Windows,            \* client windows
    MaxGeneration,      \* bound: generations a window counts up to
    MaxViews,           \* MAX_ENTRIES, 4096 in the code
    ViewThread          \* the thread inside set_view, one of Callers

FastScan(library, pendingOnly) ==
    [kind |-> "libraryScan", library |-> library, pendingOnly |-> pendingOnly,
     full |-> FALSE, limited |-> FALSE]

ASSUME ViewAssumption ==
    /\ MaxGeneration \in Nat /\ MaxViews \in Nat /\ ViewThread \in Callers
    /\ 0 \notin Libraries
    /\ \A l \in Libraries, pendingOnly \in BOOLEAN : FastScan(l, pendingOnly) \in Requests

VARIABLES
    views,              \* TtlMap<LibraryView>: window -> [generation, library, aged]
    visited,            \* libraries whose first view has scheduled its scan
    viewer,             \* the update that holds view_changes
    wanted,             \* history: the scans a client asked for itself
    served              \* history: library -> the scan its views asked for and none cancelled

viewVars == <<views, visited, viewer, wanted, served>>

NoLibrary == 0
Released  == MaxGeneration + 1      \* u64::MAX, the generation of a release
NoUpdate  == [pc |-> "idle", window |-> None, generation |-> 0, library |-> NoLibrary,
              start |-> NoLibrary, stop |-> NoLibrary, todo |-> {}]

ViewsInit ==
    /\ views = NoEntries
    /\ visited = {}
    /\ viewer = NoUpdate
    /\ wanted = {}
    /\ served = [l \in Libraries |-> None]

PinnedViews == {w \in DOMAIN views : views[w].library # NoLibrary}
KeptViews == Sweep(views, PinnedViews)
Viewed(library) == \E w \in DOMAIN views : views[w].library = library

\* The scan a schedule_scan of the library lands in.
ScanOf(library) ==
    IF QueuedFor(library) # {} THEN CHOOSE id \in QueuedFor(library) : TRUE ELSE nextId

\* Mutant: the library left is not looked for in other windows.
StopOf_Alone(kept, w, library) ==
    IF w \in DOMAIN kept /\ kept[w].library # library THEN kept[w].library ELSE NoLibrary

\* The library this update leaves without a viewer.
StopOf(kept, w, library) ==
    IF /\ w \in DOMAIN kept /\ kept[w].library # library
       /\ \A v \in DOMAIN kept \ {w} : kept[v].library # kept[w].library
    THEN kept[w].library ELSE NoLibrary

\* The library it shows as the only one.
StartOf(kept, library) ==
    IF \E v \in DOMAIN kept : kept[v].library = library THEN NoLibrary ELSE library

\* Mutant: an update is not compared with the generation of the view it replaces.
Stale_Never(kept, w, generation) == FALSE

Stale(kept, w, generation) == w \in DOMAIN kept /\ generation <= kept[w].generation

\* set_view, first section: ignore a late update, refuse a window too many,
\* decide what to start and what to stop.
SetView(w, generation, library) ==
    /\ booted /\ viewer.pc = "idle" /\ caller[ViewThread].pc = "idle"
    /\ views' = KeptViews
    /\ viewer' = IF Stale(KeptViews, w, generation) \/ ~HasRoomFor(KeptViews, w, MaxViews)
                 THEN viewer
                 ELSE [NoUpdate EXCEPT !.pc = "decided", !.window = w,
                          !.generation = generation, !.library = library,
                          !.start = StartOf(KeptViews, library),
                          !.stop = StopOf(KeptViews, w, library)]
    /\ UNCHANGED <<vars, visited, wanted, served>>

\* Mutant: an update whose scan could not be scheduled is committed all the same.
ViewSchedule_IgnoresError ==
    /\ viewer.pc = "decided"
    /\ viewer' = [viewer EXCEPT !.pc = "commit"]
    /\ IF viewer.start = NoLibrary \/ ShuttingDown THEN UNCHANGED <<vars, served>>
       ELSE /\ Start(FastScan(viewer.start, viewer.start \in visited))
            /\ served' = [served EXCEPT ![viewer.start] = ScanOf(viewer.start)]
    /\ UNCHANGED <<views, visited, wanted>>

\* The scan is scheduled before the view is committed; when that fails the
\* update is dropped.
ViewSchedule ==
    /\ viewer.pc = "decided"
    /\ \/ /\ viewer.start = NoLibrary
          /\ viewer' = [viewer EXCEPT !.pc = "commit"]
          /\ UNCHANGED <<vars, served>>
       \/ /\ viewer.start # NoLibrary /\ ~ShuttingDown
          /\ Start(FastScan(viewer.start, viewer.start \in visited))
          /\ served' = [served EXCEPT ![viewer.start] = ScanOf(viewer.start)]
          /\ viewer' = [viewer EXCEPT !.pc = "commit"]
       \/ /\ viewer.start # NoLibrary /\ ShuttingDown
          /\ viewer' = NoUpdate
          /\ UNCHANGED <<vars, served>>
    /\ UNCHANGED <<views, visited, wanted>>

ViewCommit ==
    /\ viewer.pc = "commit"
    /\ views' = Insert(views, viewer.window,
           [generation |-> viewer.generation, library |-> viewer.library, aged |-> FALSE])
    /\ visited' = visited \cup ({viewer.start} \ {NoLibrary})
    /\ viewer' = IF viewer.stop = NoLibrary THEN NoUpdate ELSE [viewer EXCEPT !.pc = "list"]
    /\ UNCHANGED <<vars, wanted, served>>

ScansOf(library) ==
    {id \in jobs : spec[id].kind = "libraryScan" /\ spec[id].library = library /\ ~IsTerminal(id)}

\* Mutant: only the scan that runs is listed.
Listed_Active(library) == ScansOf(library) \cap {active}

Listed(library) == ScansOf(library)

\* Mutant: the listed scans are marked cancelled in the listing.
ViewList_CancelsAtOnce ==
    /\ viewer.pc = "list"
    /\ viewer' = NoUpdate
    /\ status' = [id \in JobIds |-> IF id \in Listed(viewer.stop) THEN "cancelled" ELSE status[id]]
    /\ UNCHANGED <<registry, spec, cancelRequested, worker, caller, process, record>>
    /\ UNCHANGED <<views, visited, wanted, served>>

ViewList ==
    /\ viewer.pc = "list"
    /\ viewer' = IF Listed(viewer.stop) = {} THEN NoUpdate
                 ELSE [viewer EXCEPT !.pc = "cancel", !.todo = Listed(viewer.stop)]
    /\ UNCHANGED <<vars, views, visited, wanted, served>>

\* cancel(id) for each scan listed, in the order of the ids; one that was
\* evicted meanwhile is skipped.  The steps of cancel are the manager's.
ViewCancel ==
    LET id == CHOOSE i \in viewer.todo : \A j \in viewer.todo : i <= j IN
    /\ viewer.pc = "cancel" /\ caller[ViewThread].pc = "idle"
    /\ viewer' = IF viewer.todo = {} THEN NoUpdate ELSE [viewer EXCEPT !.todo = @ \ {id}]
    /\ IF viewer.todo # {} /\ id \in jobs
       THEN CancelLookup(ViewThread, id)
       ELSE UNCHANGED vars
    /\ served' = [l \in Libraries |->
           IF viewer.todo # {} /\ served[l] = id THEN None ELSE served[l]]
    /\ UNCHANGED <<views, visited, wanted>>

\* schedule_viewed_scan, after a library was created or edited.  Its two looks
\* at the registry are one step: only holders of view_changes change the views.
ScheduleViewedScan(library) ==
    /\ viewer.pc = "idle" /\ caller[ViewThread].pc = "idle"
    /\ Viewed(library) /\ ~ShuttingDown
    /\ Start(FastScan(library, TRUE))
    /\ served' = [served EXCEPT ![library] = ScanOf(library)]
    /\ UNCHANGED <<views, visited, viewer, wanted>>

ViewAges(w) ==
    /\ w \in DOMAIN views /\ ~views[w].aged
    /\ views' = Aged(views, w)
    /\ UNCHANGED <<vars, visited, viewer, wanted, served>>

ViewsNext ==
    \/ \E w \in Windows, generation \in 1..MaxGeneration, l \in Libraries \cup {NoLibrary} :
           SetView(w, generation, l)
    \/ \E w \in Windows : SetView(w, Released, NoLibrary) \/ ViewAges(w)
    \/ ViewSchedule \/ ViewCommit \/ ViewList \/ ViewCancel
    \/ \E l \in Libraries : ScheduleViewedScan(l)

-----------------------------------------------------------------------------
(* Safety.  What a view promises holds whenever no update is under way.     *)

ViewsTypeOK ==
    /\ DOMAIN views \subseteq Windows
    /\ \A w \in DOMAIN views : views[w] \in
           [generation : 1..Released, library : Libraries \cup {NoLibrary}, aged : BOOLEAN]
    /\ visited \subseteq Libraries
    /\ viewer.todo \subseteq JobIds

Settled == viewer.pc = "idle" /\ caller[ViewThread].pc = "idle"

\* A library on screen has been given a scan by its views that no view has
\* cancelled since: an update that fails, arrives late, or leaves the library
\* in one window while another shows it, never costs it that scan.
ViewedLibraryServed ==
    Settled => \A l \in Libraries : Viewed(l) =>
        served[l] # None

\* Once the last window has left a library, no scan that only views asked
\* for is left to run for it.
UnviewedScansStopped ==
    Settled => \A l \in Libraries : ~Viewed(l) =>
        \A id \in ScansOf(l) : id \in wanted \/ cancelRequested[id]

\* "Rust ignores older view generations": as long as a view is retained it
\* only moves to newer generations.
GenerationsOnlyGrow ==
    [][ \A w \in DOMAIN views \cap DOMAIN views' :
            \/ views'[w].generation > views[w].generation
            \/ /\ views'[w].generation = views[w].generation
               /\ views'[w].library = views[w].library ]_<<vars, viewVars>>

\* A library on screen keeps the scan its views asked for and one that nobody
\* shows keeps none, although updates arrive late, fail and overlap with the
\* scans clients ask for themselves (views.rs).
ViewsHonoured ==
    /\ [](ViewedLibraryServed /\ UnviewedScansStopped)
    /\ GenerationsOnlyGrow

-----------------------------------------------------------------------------
(* The inductive invariant of the proofs.                                   *)

ViewerState ==
    [pc : {"idle", "decided", "commit", "list", "cancel"}, window : Windows \cup {None},
     generation : 0..Released, library : Libraries \cup {NoLibrary},
     start : Libraries \cup {NoLibrary}, stop : Libraries \cup {NoLibrary}, todo : SUBSET JobIds]

ViewsStateOK == viewer \in ViewerState /\ ViewsTypeOK /\ DOMAIN served = Libraries

ViewedBeside(library) == \E v \in DOMAIN views \ {viewer.window} : views[v].library = library

\* What an update decided still fits the views when it commits: it is newer than
\* the view it replaces, starts the library nobody shows, and stops the one that
\* only its window shows.
UpdateFits ==
    viewer.pc \in {"decided", "commit"} =>
        /\ viewer.window \in Windows /\ viewer.generation # 0
        /\ viewer.window \in DOMAIN views => views[viewer.window].generation < viewer.generation
        /\ viewer.start \in {viewer.library, NoLibrary}
        /\ Viewed(viewer.library) \/ viewer.start = viewer.library
        /\ \A l \in Libraries \ {viewer.library} : Viewed(l) => ViewedBeside(l) \/ viewer.stop = l
        /\ viewer.stop # NoLibrary => viewer.stop # viewer.library /\ ~ViewedBeside(viewer.stop)

\* The library an update is stopping is on no screen, and what it has still to
\* cancel are scans of that library.
StopUnviewed ==
    /\ viewer.pc \in {"list", "cancel"} => viewer.stop \in Libraries /\ ~Viewed(viewer.stop)
    /\ viewer.pc = "cancel" =>
           \A id \in viewer.todo : id < nextId /\ spec[id].library = viewer.stop

\* The scan a library's views asked for is a scan of that library, and a library
\* on screen or about to be has one.
ServedInv ==
    /\ \A l \in Libraries :
           served[l] # None =>
               served[l] \in 1..(nextId - 1) /\ spec[served[l]].library = l
    /\ \A l \in Libraries :
           Viewed(l) \/ (viewer.pc = "commit" /\ viewer.start = l) => served[l] # None

\* Whoever is bound to keep a scan or to stop it: its client, a view that is on
\* screen or about to be, the update that has it still to list or to cancel, and
\* the cancellation that has it still to flag.
Accounted(l, id) ==
    \/ id \in wanted \/ cancelRequested[id]
    \/ Viewed(l) \/ (viewer.pc = "commit" /\ viewer.start = l)
    \/ viewer.pc = "list" /\ viewer.stop = l
    \/ viewer.pc = "cancel" /\ viewer.stop = l /\ id \in viewer.todo
    \/ caller[ViewThread].pc \in {"lookedUp", "store"} /\ caller[ViewThread].id = id

ScansAccounted == \A l \in Libraries : \A id \in ScansOf(l) : Accounted(l, id)

ViewsInv == ViewsStateOK /\ UpdateFits /\ StopUnviewed /\ ServedInv /\ ScansAccounted
===============================================================================
