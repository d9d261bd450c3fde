---------------------------- MODULE ImageBatches ----------------------------
(***************************************************************************)
(* What surrounds a run of an image or text model: short batches that are   *)
(* filled up, the patches that are cut out of one output, the part of the   *)
(* picture they stand for, texts that are cut to a length, and the branch   *)
(* that is appended to an image graph, in ONNX and in its bytes.  What the  *)
(* networks compute is an input; a byte is a number.                        *)
(***************************************************************************)
EXTENDS Integers, Sequences, FiniteSets, SequencesExt

CONSTANTS
    MaxBatch,               \* bound: pictures in a batch
    MaxTokens,              \* bound: tokens of a picture
    Sizes,                  \* sides of pictures
    Geometries,             \* how a model resizes and crops its input
    MaxCharacters,                \* bound: characters of a text
    Exports,                \* image graphs: sequences of nodes
    Numbers,                \* numbers that are encoded
    Messages,               \* encoded image graphs, by their fields
    Refused                 \* an error in place of an answer

VARIABLE inferred   \* the computation and what it is about

Least(a, b) == IF a <= b THEN a ELSE b
Most(a, b) == IF a >= b THEN a ELSE b

-----------------------------------------------------------------------------
(* Batches.                                                                 *)

\* embed_preprocessed_images: a fixed batch is filled with its last picture.
Submitted(pictures, fixed, size) ==
    IF fixed THEN pictures \o [i \in 1..(size - Len(pictures)) |-> Last(pictures)] ELSE pictures

\* The model answers one vector for each picture it is given.
Vectors(pictures) == [i \in DOMAIN pictures |-> <<"vector", pictures[i]>>]

Embedded(pictures, fixed, size) ==
    IF Len(pictures) > size THEN Refused
    ELSE IF pictures = <<>> THEN <<>>
    ELSE SubSeq(Vectors(Submitted(pictures, fixed, size)), 1, Len(pictures))

\* One output holds the tokens of every picture, one after the other.
Tokens(pictures, each) ==
    [t \in 1..(Len(pictures) * each) |-> <<pictures[((t - 1) \div each) + 1], ((t - 1) % each) + 1>>]

\* patch_grid: a square of patches follows the tokens that stand for no place;
\* without such tokens the shape of the output names rows and columns.
IsGrid(each, prefix) == prefix = 0 \/ \E side \in 1..each : side * side + prefix = each

\* Mutant: the tokens without a place lead the output and not each picture.
PatchGrids_PrefixOnce(tokens, batch, prefix) ==
    LET each == (Len(tokens) \div batch) - prefix
    IN [i \in 1..batch |-> SubSeq(tokens, prefix + (i - 1) * each + 1, prefix + i * each)]

\* patch_grids: the output is cut by picture, then each picture's patches.
PatchGrids(tokens, batch, prefix) ==
    LET each == Len(tokens) \div batch
    IN [i \in 1..batch |-> SubSeq(tokens, (i - 1) * each + prefix + 1, i * each)]

\* patch_features_batch: the grids of the padding are dropped.
Patches(pictures, fixed, size, prefix, each) ==
    LET submitted == Submitted(pictures, fixed, size)
    IN IF Len(pictures) > size THEN Refused
       ELSE IF pictures = <<>> THEN <<>>
       ELSE IF ~IsGrid(each, prefix) THEN Refused
       ELSE SubSeq(PatchGrids(Tokens(submitted, each), Len(submitted), prefix), 1, Len(pictures))

-----------------------------------------------------------------------------
(* The part of a picture that a model's input covers, in resized pixels.     *)

\* Mutant: the long side is cut first, and then stands for the old one.
Capped_InPlace(w, h, max) ==
    IF Most(w, h) <= max THEN <<w, h>>
    ELSE IF h > w THEN <<(max * w) \div max, max>> ELSE <<max, (max * h) \div max>>

\* DeepGHS caps the long side and shortens the other one with it.
Capped(w, h, max) ==
    IF Most(w, h) <= max THEN <<w, h>>
    ELSE IF h > w THEN <<(max * w) \div h, max>> ELSE <<max, (max * h) \div w>>

\* InputGeometry::region up to the crop: the resized picture.
Resized(g, w, h) ==
    CASE g.kind = "shortest" -> IF w <= h THEN <<g.edge, (g.edge * h) \div w>> ELSE <<(g.edge * w) \div h, g.edge>>
      [] g.kind = "deepghs" ->
           IF w < h THEN Capped(g.edge, (g.edge * h) \div w, g.max) ELSE Capped((g.edge * w) \div h, g.edge, g.max)

\* crop_axis: the start of a centred crop, before the picture where it pads.
CropStart(resized, crop) == IF resized >= crop THEN (resized - crop) \div 2 ELSE -((crop - resized) \div 2)

\* The model's input on each axis: a crop out of the resized picture's middle.
Region(g, w, h) ==
    LET resized == Resized(g, Most(w, 1), Most(h, 1))
    IN [axis \in 1..2 |-> LET size == Most(resized[axis], 1) IN [size |-> size, start |-> CropStart(size, g.crop)]]

-----------------------------------------------------------------------------
(* Texts are sequences of characters, each the number of its bytes.          *)

Bytes(text) == FoldLeft(LAMBDA n, c : n + c, 0, text)
Boundary(text, at) == \E n \in 0..Len(text) : Bytes(SubSeq(text, 1, n)) = at

\* Mutant: the text is cut one character after the limit is reached.
Truncated_After(text, limit) ==
    IF Bytes(text) <= limit THEN text
    ELSE SubSeq(text, 1, CHOOSE n \in 0..Len(text) :
            Bytes(SubSeq(text, 1, n)) >= limit /\ \A o \in 0..(n - 1) : Bytes(SubSeq(text, 1, o)) < limit)

\* truncate_on_boundary: back from the limit to the nearest boundary.
Truncated(text, limit) ==
    IF Bytes(text) <= limit THEN text
    ELSE LET end == CHOOSE e \in 0..limit : Boundary(text, e) /\ \A o \in (e + 1)..limit : ~Boundary(text, o)
             n == CHOOSE n \in 0..Len(text) : Bytes(SubSeq(text, 1, n)) = end
         IN SubSeq(text, 1, n)

-----------------------------------------------------------------------------
(* The ClearCLIP branch.  A node is [name, op, inputs, output, layer]; the   *)
(* layer is 0 outside of the encoder.                                       *)

Branch == "/nicegal_clearclip/"
PatchOutput == <<"nicegal_patch_embeds", 0>>
Own(name) == <<Branch, name>>

LastLayer(nodes) ==
    LET layers == {nodes[i].layer : i \in DOMAIN nodes} \ {0}
    IN IF layers = {} THEN 0 ELSE CHOOSE n \in layers : \A o \in layers : o <= n

\* clearclip_fragment looks nodes up by name, in the last layer and at the end.
Required ==
    [q |-> "Add", reshape |-> "Reshape", transpose |-> "Transpose", scale |-> "Mul", key_scale |-> "Mul",
     v |-> "Add", v_reshape |-> "Reshape", v_transpose |-> "Transpose", out |-> "MatMul", out_add |-> "Add",
     norm |-> "LayerNormalization", projection |-> "MatMul"]
LayerOf(name, nodes) == IF name \in {"norm", "projection"} THEN 0 ELSE LastLayer(nodes)
Has(nodes, name) ==
    \E i \in DOMAIN nodes : nodes[i].name = name /\ nodes[i].layer = LayerOf(name, nodes)
NodeOf(nodes, name) ==
    nodes[CHOOSE i \in DOMAIN nodes :
            /\ nodes[i].name = name /\ nodes[i].layer = LayerOf(name, nodes)
            /\ \A j \in 1..(i - 1) : ~(nodes[j].name = name /\ nodes[j].layer = LayerOf(name, nodes))]

\* Mutant: the bias is the second input of the output projection.
OutBias_Second(nodes) == NodeOf(nodes, "out_add").inputs[2]

\* The bias is the input that is not the product, on either side of the sum.
OutBias(nodes) ==
    LET inputs == NodeOf(nodes, "out_add").inputs
    IN inputs[CHOOSE i \in DOMAIN inputs :
                inputs[i] # NodeOf(nodes, "out").output /\ \A j \in 1..(i - 1) : inputs[j] = NodeOf(nodes, "out").output]

ExpectedLayout(nodes) ==
    /\ LastLayer(nodes) # 0
    /\ \A name \in DOMAIN Required : Has(nodes, name) /\ NodeOf(nodes, name).op = Required[name]
    /\ NodeOf(nodes, "reshape").inputs[1] = NodeOf(nodes, "q").output
    /\ NodeOf(nodes, "transpose").inputs[1] = NodeOf(nodes, "reshape").output
    /\ NodeOf(nodes, "scale").inputs[1] = NodeOf(nodes, "transpose").output
    /\ NodeOf(nodes, "v_reshape").inputs[1] = NodeOf(nodes, "v").output
    /\ NodeOf(nodes, "v_transpose").inputs[1] = NodeOf(nodes, "v_reshape").output
    /\ \E i \in DOMAIN NodeOf(nodes, "out_add").inputs : NodeOf(nodes, "out_add").inputs[i] # NodeOf(nodes, "out").output

Appended(op, inputs, output) == [name |-> <<Branch, op, output>>, op |-> op, inputs |-> inputs, output |-> output, layer |-> 0]

\* clearclip_fragment: attention of the queries to themselves, without the
\* residual connection and the MLP of the block.
Fragment(nodes) ==
    IF ~ExpectedLayout(nodes) THEN Refused
    ELSE LET heads == NodeOf(nodes, "transpose").output
             scale == NodeOf(nodes, "scale").inputs[2]
         IN <<Appended("Mul", <<scale, scale>>, Own("logit_scale")),
              Appended("Transpose", <<heads>>, Own("query_t")),
              Appended("MatMul", <<heads, Own("query_t")>>, Own("query_logits")),
              Appended("Mul", <<Own("query_logits"), Own("logit_scale")>>, Own("logits")),
              Appended("Softmax", <<Own("logits")>>, Own("attention")),
              Appended("MatMul", <<Own("attention"), NodeOf(nodes, "v_transpose").output>>, Own("context")),
              Appended("Transpose", <<Own("context")>>, Own("context_t")),
              Appended("Reshape", <<Own("context_t"), Own("merged_shape")>>, Own("merged")),
              Appended("MatMul", <<Own("merged"), NodeOf(nodes, "out").inputs[2]>>, Own("attended")),
              Appended("Add", <<Own("attended"), OutBias(nodes)>>, Own("biased")),
              Appended("LayerNormalization", <<Own("biased")>> \o Tail(NodeOf(nodes, "norm").inputs), Own("normalized")),
              Appended("MatMul", <<Own("normalized"), NodeOf(nodes, "projection").inputs[2]>>, PatchOutput)>>

-----------------------------------------------------------------------------
(* Protobuf.  A field is [number, wire, value]; a value is a number, or the  *)
(* bytes of a name or of another message.                                   *)

\* Mutant: 128 is taken for a number of seven bits.
RECURSIVE PutVarint_Short(_)
PutVarint_Short(n) == IF n > 128 THEN <<128 + (n % 128)>> \o PutVarint_Short(n \div 128) ELSE <<n>>

\* put_varint: seven bits a byte, the lowest first, all but the last marked.
RECURSIVE PutVarint(_)
PutVarint(n) == IF n >= 128 THEN <<128 + (n % 128)>> \o PutVarint(n \div 128) ELSE <<n>>

\* put_varint_field and put_bytes; wires 1 and 5 hold eight and four bytes and
\* are never written.
PutField(f) ==
    PutVarint(f.number * 8 + f.wire)
        \o (CASE f.wire = 0 -> PutVarint(f.value)
              [] f.wire = 2 -> PutVarint(Len(f.value)) \o f.value
              [] OTHER -> f.value)
Message(fields) == FlattenSeq([i \in DOMAIN fields |-> PutField(fields[i])])

\* take_varint: [value, rest], or refused.
RECURSIVE TakeVarint(_, _)
TakeVarint(bytes, taken) ==
    IF bytes = <<>> \/ taken = 10 THEN Refused
    ELSE IF Head(bytes) < 128 THEN [value |-> Head(bytes), rest |-> Tail(bytes)]
    ELSE LET more == TakeVarint(Tail(bytes), taken + 1)
         IN IF more = Refused THEN Refused
            ELSE [value |-> Head(bytes) - 128 + 128 * more.value, rest |-> more.rest]

TakeBytes(bytes, n) ==
    IF Len(bytes) < n THEN Refused ELSE [value |-> SubSeq(bytes, 1, n), rest |-> SubSeq(bytes, n + 1, Len(bytes))]

TakeValue(wire, bytes) ==
    CASE wire = 0 -> TakeVarint(bytes, 0)
      [] wire = 1 -> TakeBytes(bytes, 8)
      [] wire = 5 -> TakeBytes(bytes, 4)
      [] wire = 2 -> LET length == TakeVarint(bytes, 0)
                     IN IF length = Refused THEN Refused ELSE TakeBytes(length.rest, length.value)
      [] OTHER -> Refused

\* Fields: the fields of a message, or refused at the first that is broken.
RECURSIVE FieldsOf(_)
FieldsOf(bytes) ==
    IF bytes = <<>> THEN <<>>
    ELSE LET key == TakeVarint(bytes, 0)
             value == IF key = Refused THEN Refused ELSE TakeValue(key.value % 8, key.rest)
             rest == IF value = Refused THEN Refused ELSE FieldsOf(value.rest)
         IN IF rest = Refused THEN Refused
            ELSE <<[number |-> key.value \div 8, wire |-> key.value % 8, value |-> value.value]>> \o rest

GraphField == 7
NodeField == 1

\* The fields of one number that hold bytes.
Nested(fields, number) == SelectSeq(fields, LAMBDA f : f.number = number /\ f.wire = 2)

\* graph_nodes: the nodes of every graph field, in order; the rest is skipped.
GraphNodes(bytes) ==
    LET fields == FieldsOf(bytes)
        graphs == LET all == Nested(fields, GraphField) IN [i \in DOMAIN all |-> FieldsOf(all[i].value)]
        encoded == FlattenSeq([i \in DOMAIN graphs |-> Nested(graphs[i], NodeField)])
        nodes == [i \in DOMAIN encoded |-> FieldsOf(encoded[i].value)]
    IN IF fields = Refused \/ Refused \in Range(graphs) THEN Refused
       ELSE IF nodes = <<>> \/ Refused \in Range(nodes) THEN Refused
       ELSE nodes

\* with_patch_output: the branch's nodes and the declaration of its output.
WithPatchOutput(nodes) ==
    LET element == Message(<<[number |-> 1, wire |-> 0, value |-> 1]>>)
        type == Message(<<[number |-> 1, wire |-> 2, value |-> element]>>)
        info == Message(<<[number |-> 1, wire |-> 2, value |-> <<112>>], [number |-> 2, wire |-> 2, value |-> type]>>)
        graph == Message([i \in DOMAIN nodes |-> [number |-> NodeField, wire |-> 2, value |-> Message(nodes[i])]]
                            \o <<[number |-> 12, wire |-> 2, value |-> info]>>)
    IN Message(<<[number |-> GraphField, wire |-> 2, value |-> graph]>>)

-----------------------------------------------------------------------------
BatchInit ==
    \/ \E n \in 0..(MaxBatch + 1), fixed \in BOOLEAN, prefix \in {0, 1, 5}, each \in 1..MaxTokens :
        inferred = [about |-> "batch", pictures |-> [i \in 1..n |-> i], fixed |-> fixed, prefix |-> prefix, each |-> each]
    \/ \E geometry \in Geometries, w, h \in Sizes : inferred = [about |-> "region", geometry |-> geometry, w |-> w, h |-> h]
    \/ \E n \in 0..MaxCharacters : \E text \in [1..n -> 1..4], limit \in 1..(2 * MaxCharacters) :
        inferred = [about |-> "truncate", text |-> text, limit |-> limit]
    \/ \E nodes \in Exports : inferred = [about |-> "branch", nodes |-> nodes]
    \/ \E fields \in Messages, n \in Numbers : inferred = [about |-> "bytes", fields |-> fields, length |-> n]

-----------------------------------------------------------------------------
(* Properties.                                                              *)

\* A batch that is not refused answers for each picture with what the model
\* computed from that picture, also where the batch is filled up: the padding
\* is neither an answer nor shifts one (embed_preprocessed_images,
\* patch_features_batch, patch_grids).
AnswersAreOwn ==
    inferred.about = "batch" /\ Len(inferred.pictures) <= MaxBatch =>
        LET pictures == inferred.pictures
            vectors == Embedded(pictures, inferred.fixed, MaxBatch)
            patches == Patches(pictures, inferred.fixed, MaxBatch, inferred.prefix, inferred.each)
        IN /\ vectors = [i \in DOMAIN pictures |-> <<"vector", pictures[i]>>]
           /\ patches = Refused \/ patches =
                [i \in DOMAIN pictures |-> [p \in 1..(inferred.each - inferred.prefix) |-> <<pictures[i], inferred.prefix + p>>]]

\* The region that is shown for the patches is what the model saw: the picture
\* keeps its shape when it is resized, to a pixel, and the crop lies in its
\* middle, to a pixel, on the picture or around it (region, crop_axis).
RegionIsSeen ==
    inferred.about = "region" =>
        LET g == inferred.geometry
            region == Region(g, inferred.w, inferred.h)
            \* The axis of the picture's short side, and the other one.
            s == IF inferred.w <= inferred.h THEN 1 ELSE 2
            short == region[s].size
            long == region[3 - s].size
            w == Most(Least(inferred.w, inferred.h), 1)
            h == Most(Most(inferred.w, inferred.h), 1)
        IN /\ g.kind = "deepghs" => long <= Most(g.max, g.edge)
           \* Less than a pixel is lost at either of two divisions.
           /\ long * w <= (short + 1) * h /\ (short - 1) * h < (long + 2) * w
           /\ \A axis \in 1..2 :
                LET before == region[axis].start
                    after == region[axis].size - g.crop - before
                IN before - after \in -1..1

\* A text that is cut is the longest beginning that fits, and no character is
\* split, whatever the limit cuts through (truncate_on_boundary).
TruncatedIsLongest ==
    inferred.about = "truncate" =>
        LET text == Truncated(inferred.text, inferred.limit)
        IN /\ IsPrefix(text, inferred.text) /\ Bytes(text) <= inferred.limit
           /\ \A n \in (Len(text) + 1)..Len(inferred.text) : Bytes(SubSeq(inferred.text, 1, n)) > inferred.limit

\* The tensors an output is computed from.
Sources(nodes, output) ==
    LET reach[n \in Nat] ==
            IF n = 0 THEN {output}
            ELSE LET before == reach[n - 1]
                 IN before \cup UNION {Range(nodes[i].inputs) : i \in {k \in DOMAIN nodes : nodes[k].output \in before}}
    IN reach[Len(nodes)]

\* The branch that is appended to an accepted graph uses tensors that exist and
\* defines new ones, once, in order; its output comes from the queries and the
\* values of the last layer, with the scale of the queries, and from no
\* attention of the graph itself (clearclip_fragment).
BranchIsClosed ==
    inferred.about = "branch" /\ Fragment(inferred.nodes) # Refused =>
        LET old == inferred.nodes
            new == Fragment(old)
            known == UNION {Range(old[i].inputs) \cup {old[i].output} : i \in DOMAIN old}
            sources == Sources(old \o new, PatchOutput)
            layer == LastLayer(old)
        IN /\ \A i \in DOMAIN new :
                /\ Range(new[i].inputs) \subseteq known \cup {Own("merged_shape")} \cup {new[j].output : j \in 1..(i - 1)}
                /\ new[i].output \notin known \cup {new[j].output : j \in 1..(i - 1)}
           /\ Last(new).output = PatchOutput
           /\ {<<"q", layer>>, <<"v", layer>>, <<"scale of q", layer>>, <<"bias of out", layer>>} \subseteq sources
           /\ {<<"k", layer>>, <<"out", layer>>} \cap sources = {}

\* A model with the branch behind it holds the nodes it held and then those of
\* the branch, whatever fields it has and whatever their lengths; a model that
\* is cut short is refused and not misread (Fields, put_bytes, graph_nodes).
AppendedIsMerged ==
    inferred.about = "bytes" =>
        LET model == Message(inferred.fields)
            node == <<[number |-> 1, wire |-> 2, value |-> [i \in 1..inferred.length |-> 10]]>>
            scalar == <<[number |-> inferred.length + 1, wire |-> 0, value |-> inferred.length]>>
            before == GraphNodes(model)
        IN /\ FieldsOf(model) = inferred.fields /\ FieldsOf(Message(scalar)) = scalar
           /\ GraphNodes(model \o WithPatchOutput(<<node, scalar>>))
                = (IF before = Refused THEN <<>> ELSE before) \o <<node, scalar>>
           /\ \A n \in 1..(Len(model) - 1) :
                FieldsOf(SubSeq(model, 1, n)) \in {Refused} \cup {SubSeq(inferred.fields, 1, k) : k \in DOMAIN inferred.fields}

\* Every picture and text gets its own answer from a padded batch, a patch is
\* shown where the model saw it, and a graph that is extended by appended bytes
\* is the graph it was with a closed branch behind it.
BatchesAreOwn ==
    /\ AnswersAreOwn
    /\ RegionIsSeen
    /\ TruncatedIsLongest
    /\ BranchIsClosed
    /\ AppendedIsMerged
===============================================================================
