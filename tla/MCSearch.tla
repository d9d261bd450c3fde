------------------------------- MODULE MCSearch -------------------------------
(***************************************************************************)
(* Search requests against changing stores, and the decisions that search,  *)
(* recognition, embedding and decoding make without one; the frames that are *)
(* read from a video; what a window shows of the catalog while jobs write,   *)
(* and the details it asks for; and processes that open the stores: `part`   *)
(* is what is checked.                                                       *)
(***************************************************************************)
EXTENDS PathFilters, SearchRun, OcrLayout, ImageBatches, VideoReader, Pictures,
        GalleryView, StoreUpgrade, TLC

VARIABLE part

\* Directories that are prefixes of one another in every way: "/", "/a",
\* "/a/a", "/a0"; 48 follows the separator, 46 precedes it.
MCDirectories == {<<47>>, <<47, 97>>, <<47, 97, 47, 97>>, <<47, 97, 48>>}

MCFilePaths ==
    {<<47, 98>>} \cup {d \o s : d \in MCDirectories \ {<<47>>},
                       s \in {<<>>, <<48>>, <<46>>, <<47, 97>>, <<47, 97, 47, 97>>, <<255>>}}

\* Asset 3 is a video; the second version of 1 looks like another picture.
MCFrames(a, v) ==
    CASE a = 1 -> <<IF v = 1 THEN <<1, 0>> ELSE <<0, 1>>>>
      [] a = 2 -> <<<<0, 1>>>>
      [] OTHER -> <<<<0, -1>>, IF v = 1 THEN <<1, 0>> ELSE <<0, 1>>>>

MCWords(a, v) == IF a + v \in {2, 4, 5} THEN "cat" ELSE "dog"
MCDirection == "cat" :> <<1, 0>> @@ "dog" :> <<0, 1>>
MCTaken == <<0, 1, 1>>
MCScope == "all" :> Assets @@ "some" :> {1, 2}

Example(a, w) == [source |-> "asset", of |-> a, weight |-> w]
Span(a, b) == [after |-> a, before |-> b]
Look(key, components) ==
    [key |-> key, kind |-> "image", text |-> NoText, components |-> components,
     limit |-> 0, ceiling |-> NoCeiling, weight |-> 1, time |-> NoTime]
Ask(key, kind, text) == [Look(key, <<>>) EXCEPT !.kind = kind, !.text = text]
Send(queries) ==
    [library |-> "all", files |-> Assets, time |-> NoTime, limit |-> 3, queries |-> queries, fuse |-> NoFuse]
FuseBy(k, limit) == [k |-> k, limit |-> limit]

\* A request for each way to combine queries: two examples, a repeated key, a
\* text against an example, components that cancel out, ranges that meet, texts
\* that repeat, all stores fused; and requests that are refused.
MCRequests == {
    Send(<<Look(NoKey, <<Example(1, 1)>>), Look("b", <<Example(3, 1)>>)>>),
    [Send(<<Look(NoKey, <<Example(1, 1)>>), Look(NoKey, <<Example(2, 1)>>)>>) EXCEPT !.library = "some"],
    [Send(<<[Look("a", <<Example(3, -1)>>) EXCEPT !.text = "cat"], [Look("b", <<Example(1, 1)>>) EXCEPT !.limit = 1]>>)
        EXCEPT !.fuse = FuseBy(1, 3)],
    Send(<<[Look("a", <<Example(1, 1), Example(2, -1)>>) EXCEPT !.ceiling = 1],
           [Look("b", <<Example(1, 1)>>) EXCEPT !.ceiling = 0, !.time = Span(0, 1)]>>),
    Send(<<[Ask("a", "simple", "cat") EXCEPT !.time = Span(0, 1)], [Ask("b", "simple", "cat") EXCEPT !.time = Span(1, 2)],
           [Ask("c", "simple", "cat") EXCEPT !.time = Span(0, 2)]>>),
    [Send(<<Ask("a", "vector", "cat"), [Ask("b", "vector", "cat") EXCEPT !.limit = 1, !.weight = 2],
            [Ask("c", "vector", "dog") EXCEPT !.ceiling = 1]>>) EXCEPT !.fuse = FuseBy(1, 2)],
    [Send(<<Ask(NoKey, "simple", "cat"), Ask(NoKey, "vector", "cat"), Look(NoKey, <<Example(2, 2)>>)>>)
        EXCEPT !.fuse = FuseBy(2, 3), !.files = {1, 2}],
    [Send(<<Ask(NoKey, "simple", "dog"), [Ask(NoKey, "name", NoText) EXCEPT !.time = Always], [Ask(NoKey, "image", "dog") EXCEPT !.weight = 3]>>)
        EXCEPT !.fuse = FuseBy(1, 3), !.time = Span(0, 2)],
    [Send(<<[Look("a", <<Example(1, 1)>>) EXCEPT !.weight = 3], [Ask("b", "name", NoText) EXCEPT !.time = Span(0, 1)]>>)
        EXCEPT !.fuse = FuseBy(1, 3)],
    Send(<<Ask(NoKey, "simple", NoText)>>),
    Send(<<[Ask(NoKey, "simple", "cat") EXCEPT !.ceiling = 1]>>),
    [Send(<<Ask(NoKey, "name", NoText)>>) EXCEPT !.library = "gone"]}

\* Crops that cannot be, that are turned, and on either side of the limit.
Crop(w, h) == [width |-> w, height |-> h]
MCShapes == {Crop(1, 40), Crop(40, 40), Crop(20, 60), Crop(700, 20), Crop(700, 10)}
MCCharacters == <<"a", "b">>

MCGeometries ==
    {[kind |-> "shortest", edge |-> e, crop |-> 4, max |-> 0] : e \in {4, 5}}
    \cup {[kind |-> "deepghs", edge |-> 4, crop |-> 5, max |-> 6], [kind |-> "deepghs", edge |-> 5, crop |-> 4, max |-> 9]}

MCNode(name, op, inputs, layer) ==
    [name |-> name, op |-> op, inputs |-> inputs, output |-> <<name, layer>>, layer |-> layer]

\* A layer of an encoder, whose bias is on one side or the other, and whose
\* scaled product reads what it should or something else.
MCLayer(n, left, reads) ==
    <<MCNode("q", "Add", <<<<"x", n>>, <<"bias of q", n>>>>, n),
      MCNode("k", "Add", <<<<"x", n>>, <<"bias of k", n>>>>, n),
      MCNode("v", "Add", <<<<"x", n>>, <<"bias of v", n>>>>, n),
      MCNode("reshape", "Reshape", <<<<"q", n>>, <<"shape", n>>>>, n),
      MCNode("transpose", "Transpose", <<<<"reshape", n>>>>, n),
      MCNode("scale", "Mul", <<<<reads, n>>, <<"scale of q", n>>>>, n),
      MCNode("key_scale", "Mul", <<<<"k", n>>, <<"scale of q", n>>>>, n),
      MCNode("v_reshape", "Reshape", <<<<"v", n>>, <<"shape", n>>>>, n),
      MCNode("v_transpose", "Transpose", <<<<"v_reshape", n>>>>, n),
      MCNode("attention", "MatMul", <<<<"scale", n>>, <<"key_scale", n>>, <<"v_transpose", n>>>>, n),
      MCNode("out", "MatMul", <<<<"attention", n>>, <<"weight of out", n>>>>, n),
      MCNode("out_add", "Add", IF left THEN <<<<"bias of out", n>>, <<"out", n>>>> ELSE <<<<"out", n>>, <<"bias of out", n>>>>, n)>>
MCHead ==
    <<MCNode("norm", "LayerNormalization", <<<<"x", 3>>, <<"gain", 0>>, <<"shift", 0>>>>, 0),
      MCNode("projection", "MatMul", <<<<"norm", 0>>, <<"weight", 0>>>>, 0)>>
MCExports ==
    {MCLayer(1, TRUE, "transpose") \o MCLayer(2, left, reads) \o MCHead : left \in BOOLEAN, reads \in {"transpose", "k"}}
    \cup {RemoveAt(MCLayer(2, left, "transpose") \o MCHead, i) : left \in BOOLEAN, i \in 1..14}
    \cup {MCLayer(2, TRUE, "transpose") \o MCLayer(1, FALSE, "transpose") \o MCHead}

\* Fields of every wire, one whose bytes look like a graph, and two graphs.
MCField(n, w, v) == [number |-> n, wire |-> w, value |-> v]
MCGraph(n) ==
    Message([i \in 1..n |-> MCField(1, 2, Message(<<MCField(1, 2, <<i>>)>>))] \o <<MCField(5, 2, <<9>>)>>)
MCMessages ==
    SeqsUpTo({MCField(1, 0, 300), MCField(2, 1, [i \in 1..8 |-> i]), MCField(3, 5, <<58, 1, 2, 3>>),
              MCField(8, 2, <<58, 0>>), MCField(7, 2, MCGraph(1)), MCField(7, 2, MCGraph(2)), MCField(7, 0, 5)}, 3)

\* A film with a key frame in every segment of its duration, frames between
\* them, and a packet of another stream.
MCPacket(t, k) == [time |-> t, key |-> k, ours |-> TRUE, sound |-> TRUE]
MCFilm ==
    <<MCPacket(5, TRUE), MCPacket(6, FALSE), [MCPacket(0, TRUE) EXCEPT !.ours = FALSE], MCPacket(8, FALSE),
      MCPacket(9, TRUE), MCPacket(11, FALSE), MCPacket(13, TRUE), MCPacket(14, FALSE)>>
MCWhole == [packets |-> MCFilm, start |-> 5, duration |-> 10, seekable |-> TRUE, opens |-> TRUE]

\* The film, and each way in which something of it is missing.
MCRecordings ==
    {MCWhole, [MCWhole EXCEPT !.seekable = FALSE], [MCWhole EXCEPT !.opens = FALSE], [MCWhole EXCEPT !.duration = 0],
     [MCWhole EXCEPT !.duration = 30], [MCWhole EXCEPT !.start = 9], [MCWhole EXCEPT !.packets = Tail(MCFilm)]}
    \cup {[MCWhole EXCEPT !.packets[i].sound = FALSE] : i \in DOMAIN MCFilm}
    \cup {[MCWhole EXCEPT !.packets[i].time = NoTimestamp] : i \in {1, 2, 5}}

MCBucketLists == {<<4, 16>>, <<16, 4>>, <<10>>}

MCFolderHolding == "p" :> "f" @@ "q" :> "g"
MCLinkSpelling == "l" :> "q"

\* Versions on both sides of a vacuum, of the libraries and of what is supported;
\* a picture and two samples of a video.
MCFoundVersions == "catalog" :> {0, 1, 5, 6, 7, 10, 11, 12} @@ "images" :> 0 .. 4
MCOldestMigrated == "catalog" :> 2 @@ "images" :> 1
MCVacuumFrom == "catalog" :> 5 @@ "images" :> 1
MCVector(i, a, t) == [id |-> i, asset |-> a, time |-> t]
MCOldVectors == {MCVector(1, 1, 0), MCVector(3, 2, 1), MCVector(2, 2, 2)}

MCNothing == [about |-> "nothing"]

MCNoDecision == asked = MCNothing /\ scanned = MCNothing /\ inferred = MCNothing /\ picture = MCNothing
MCNoSearch == cataloged = <<>> /\ imaged = <<>> /\ read = <<>> /\ worded = <<>> /\ written = 0 /\ search = Idle
MCNoVideo ==
    /\ recording = MCWhole /\ reader = Idling /\ halted = [g \in Goals |-> {}]
    /\ posters = NoSamples /\ samples = NoSamples
MCNoGallery ==
    /\ source = <<>> /\ assetRow = <<>> /\ lastAsset = 0 /\ catalogRevision = 0 /\ preparedRows = <<>>
    /\ derivedRow = <<>> /\ included = {} /\ window = FreshWindow /\ asking = NotAsking /\ changes = 0
MCNoUpgrade ==
    /\ version = [s \in Stores |-> 0] /\ vacuumed = [s \in Stores |-> FALSE] /\ layout = "none" /\ fits = TRUE
    /\ vectorTable = {} /\ sampleRows = {} /\ copied = FALSE /\ owed = {} /\ videos = {} /\ wantedBy = {}
    /\ legacyOff = FALSE /\ opener = [o \in Openers |-> Closed] /\ launches = 0

MCDecisionInit ==
    \/ FilterInit /\ scanned = MCNothing /\ inferred = MCNothing /\ picture = MCNothing
    \/ OcrInit /\ asked = MCNothing /\ inferred = MCNothing /\ picture = MCNothing
    \/ BatchInit /\ asked = MCNothing /\ scanned = MCNothing /\ picture = MCNothing
    \/ PictureInit /\ asked = MCNothing /\ scanned = MCNothing /\ inferred = MCNothing

MCInit ==
    \/ part = "request" /\ SearchInit /\ MCNoDecision /\ MCNoVideo /\ MCNoGallery /\ MCNoUpgrade
    \/ part = "video" /\ VideoInit /\ MCNoDecision /\ MCNoSearch /\ MCNoGallery /\ MCNoUpgrade
    \/ part = "decisions" /\ MCDecisionInit /\ MCNoSearch /\ MCNoVideo /\ MCNoGallery /\ MCNoUpgrade
    \/ part = "window" /\ GalleryInit /\ MCNoDecision /\ MCNoSearch /\ MCNoVideo /\ MCNoUpgrade
    \/ /\ part = "details" /\ GalleryInit /\ included = GalleryFolders
       /\ MCNoDecision /\ MCNoSearch /\ MCNoVideo /\ MCNoUpgrade
    \/ part = "opening" /\ UpgradeInit /\ MCNoDecision /\ MCNoSearch /\ MCNoVideo /\ MCNoGallery

MCNext ==
    /\ UNCHANGED <<part, asked, scanned, inferred, picture>>
    /\ \/ part = "request" /\ SearchNext /\ UNCHANGED <<videoVars, galleryVars, upgradeVars>>
       \/ part = "video" /\ VideoNext /\ UNCHANGED <<searchVars, galleryVars, upgradeVars>>
       \/ /\ part = "window" /\ UNCHANGED <<searchVars, videoVars, upgradeVars, asking, derivedRow>>
          /\ GalleryNext
       \/ /\ part = "details" /\ UNCHANGED <<searchVars, videoVars, upgradeVars, included, window>>
          /\ GalleryNext
       \/ part = "opening" /\ UpgradeNext /\ UNCHANGED <<searchVars, videoVars, galleryVars>>

MCSpec ==
    MCInit /\ [][MCNext]_<<part, asked, scanned, inferred, picture, searchVars, videoVars, galleryVars, upgradeVars>>
===============================================================================
