------------------------------ MODULE MCIndexing ------------------------------
(***************************************************************************)
(* The stores and the stages that fill them, side by side: `part` is the one  *)
(* that moves.  The thumbnail service is checked in three slices, by what     *)
(* happens beside its calls: nothing, files that change, and commands of      *)
(* others in its writer's queue; fewer flights are left for the latter two.   *)
(* The catalog thread and the inspector have a part each; so have the folder  *)
(* requests of a library.                                                    *)
(***************************************************************************)
EXTENDS ThumbnailFlights, ImagePipeline, OcrPipeline, TextIndex, IndexStores, CatalogPipeline,
        MCFolderRequests

VARIABLE part

MCRequested == {{1}, {1, 2}}
MCJobOptions == {<<FALSE, TRUE>>, <<TRUE, FALSE>>}
MCCorrupt == {<<"a", 2>>}
MCHindered == {<<"a", 1>>, <<"v", 1>>}
MCUndecodable == {<<"b", 1>>}
MCPassOptions ==
    {[force |-> FALSE, retry |-> FALSE, videos |-> TRUE, limit |-> 0],
     [force |-> TRUE, retry |-> FALSE, videos |-> FALSE, limit |-> 0],
     [force |-> FALSE, retry |-> TRUE, videos |-> TRUE, limit |-> 1]}
MCListing == <<"v", "p", "w">>
MCNoFile == {}
MCZeroPhoto == {<<"p", 1>>}
MCUnprobed == {<<"w", 1>>}
MCTextScope == [l \in TextLibraries |-> IF l = "p" THEN {1, 2} ELSE {2, 3}]

ThumbParts == {"calls", "swaps", "outside"}

MCInit ==
    /\ part \in ThumbParts \cup {"images", "ocr", "text", "stores", "folders", "catalog", "inspect"}
    /\ ThumbFresh
    /\ results = CASE part = "swaps" -> <<"dropped">> [] part = "outside" -> <<"dropped", "dropped">> [] OTHER -> <<>>
    /\ outside = IF part = "swaps" THEN MaxOutside ELSE 0
    /\ ImageInit /\ OcrInit /\ TextInit /\ StoresInit /\ Init
    /\ CatalogInit /\ (part \notin {"catalog", "inspect"} => mediaRow = [f \in MediaFiles |-> NoMedia])
    /\ part # "stores" => covers = [l \in Owners |-> {}]

MCNext ==
    /\ UNCHANGED part
    /\ \/ /\ part = "calls" /\ ThumbNext /\ UNCHANGED <<source, outside>>
          /\ UNCHANGED <<imageVars, ocrVars, textVars, storeVars, vars, catalogVars>>
       \/ /\ part = "swaps" /\ ThumbNext /\ UNCHANGED outside
          /\ UNCHANGED <<imageVars, ocrVars, textVars, storeVars, vars, catalogVars>>
       \/ /\ part = "outside" /\ ThumbNext /\ UNCHANGED source
          /\ UNCHANGED <<imageVars, ocrVars, textVars, storeVars, vars, catalogVars>>
       \/ part = "images" /\ ImageNext /\ UNCHANGED <<thumbVars, ocrVars, textVars, storeVars, vars, catalogVars>>
       \/ part = "ocr" /\ OcrNext /\ UNCHANGED <<thumbVars, imageVars, textVars, storeVars, vars, catalogVars>>
       \/ part = "text" /\ TextNext /\ UNCHANGED <<thumbVars, imageVars, ocrVars, storeVars, vars, catalogVars>>
       \/ part = "stores" /\ StoresNext /\ UNCHANGED <<thumbVars, imageVars, ocrVars, textVars, vars, catalogVars>>
       \/ /\ part = "folders" /\ Next
          /\ UNCHANGED <<thumbVars, imageVars, ocrVars, textVars, storeVars, catalogVars>>
       \/ /\ part = "catalog" /\ CatalogNext /\ UNCHANGED inspector
          /\ UNCHANGED <<thumbVars, imageVars, ocrVars, textVars, storeVars, vars>>
       \/ /\ part = "inspect" /\ CatalogNext /\ UNCHANGED cataloger
          /\ UNCHANGED <<thumbVars, imageVars, ocrVars, textVars, storeVars, vars>>

indexingVars == <<part, thumbVars, imageVars, ocrVars, textVars, storeVars, catalogVars, vars>>

MCSpec == MCInit /\ [][MCNext]_indexingVars

\* One part alone, for what the code does otherwise than it says.
MCTextInit == part = "text" /\ MCInit
MCTextSpec == MCTextInit /\ [][MCNext]_indexingVars
MCCatalogInit == part = "catalog" /\ MCInit
MCCatalogSpec == MCCatalogInit /\ [][MCNext]_indexingVars

MCEndsInit == part \in {"calls", "images", "ocr", "catalog"} /\ MCInit

\* The callers, the writer and the threads of a pass run; what clients, users
\* and crashes do is never fair.
MCFairSpec ==
    /\ MCEndsInit /\ [][MCNext]_indexingVars
    /\ WF_thumbVars(part = "calls" /\ WriterServes)
    /\ \A c \in Callers :
        SF_thumbVars(part = "calls" /\ CallerSteps(c))
    /\ WF_imageVars(part = "images" /\ ImageSteps)
    /\ WF_ocrVars(part = "ocr" /\ OcrSteps)
    /\ WF_catalogVars(part = "catalog" /\ CatalogSteps)

\* Bounded queues and shared flights strand nobody: every thumbnail call and
\* every pass ends, whatever fails, panics or is cancelled around it.
CallsAndPassesEnd == CallersReturn /\ PassEnds /\ OcrEnds /\ CatalogEnds
===============================================================================
