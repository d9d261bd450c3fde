------------------------------ MODULE ClientJobs ------------------------------
(***************************************************************************)
(* The job manager with the two parts of the server that submit jobs to it  *)
(* on behalf of clients: the job routes with their request keys, and the    *)
(* viewed libraries.  Every step of either is a step of the manager or      *)
(* leaves it alone.                                                         *)
(***************************************************************************)
EXTENDS JobRequests, LibraryViews

clientVars == <<vars, requestVars, viewVars>>

Clients == Callers \ {ViewThread}

ClientInit == Init /\ RequestsInit /\ ViewsInit

\* The worker tasks, the shutdown task, threads inside cancel or stop, and
\* cancel_job, which takes no mutex of the routes.
ManagerStep ==
    /\ \/ \E id \in JobIds : WorkerStep(id)
       \/ \E c \in Callers : CallerStep(c)
       \/ \E c \in Clients, id \in JobIds : CancelLookup(c, id)
       \/ ShutdownFlag \/ ShutdownStep \/ Recover
    /\ UNCHANGED <<requestVars, viewVars>>

\* The legacy thumbnail and text routes start their job without a request key.
LegacyStart ==
    /\ \E r \in Requests : r.kind = "thumbnailGenerate" /\ Start(r)
    /\ UNCHANGED <<requestVars, viewVars>>

RequestStep ==
    /\ \/ \E key \in Keys \cup {NoKey}, body \in Requests : CreateBegin(key, body)
       \/ CreateFails
       \/ \E c \in Clients, ids \in SUBSET Keys : CancelJobs(c, ids)
       \/ \E key \in Keys : RequestAges(key)
    /\ UNCHANGED viewVars

\* A scan a client asks for stays wanted when nobody views its library.
CreateStep ==
    /\ CreateStarts
    /\ wanted' = IF creating.body.kind = "libraryScan" THEN wanted \cup {JobOf(creating.body)}
                 ELSE wanted
    /\ UNCHANGED <<views, visited, viewer, served>>

ViewStep == ViewsNext /\ UNCHANGED requestVars

ProcessEnds == Restart /\ RequestsInit' /\ ViewsInit'

ClientNext ==
    ManagerStep \/ LegacyStart \/ RequestStep \/ CreateStep \/ ViewStep \/ ProcessEnds

ClientSpec == ClientInit /\ [][ClientNext]_clientVars

\* The manager is used only through its own operations, so everything shown
\* of JobManager holds of it here: the composition implements its specification.
ManagerRespected == Spec

-----------------------------------------------------------------------------
(* The inductive invariant of the proofs.                                   *)

\* A create that is under way submits one of the requests, and a view update
\* starts a scan of a library or none.
CallsInv ==
    /\ creating = NoCall \/ creating.body \in Requests
    /\ "start" \in DOMAIN viewer /\ viewer.start \in Libraries \cup {NoLibrary}

ClientInv == RegistryInv /\ CallsInv
===============================================================================
