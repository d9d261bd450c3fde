------------------------------ MODULE OcrLayout ------------------------------
(***************************************************************************)
(* What the OCR engine decides around its two networks: the size of the     *)
(* detector's input, the regions of its probability map, the reading order  *)
(* of the boxes, the batches of the recognizer and the text of its classes. *)
(* What the networks answer is an input.  Fractions are exact here and f32  *)
(* in the code; the angle of a region and the pixels of a crop are left out.*)
(***************************************************************************)
EXTENDS Integers, Sequences, FiniteSets, SequencesExt

CONSTANTS
    Sides, Limits,          \* sides of pictures, values of detection_max_side
    Columns, Rows, Weak,    \* the probability map; pixels that are barely text
    Tops, Lefts, MaxBoxes,  \* corners of boxes, boxes in a picture
    Shapes, BatchSizes,     \* width and height of crops, recognition_batch_size
    Characters, MaxSteps    \* character_dict, steps of the recognizer's output

VARIABLE scanned   \* the decision and what it is about

LeastOf(a, b) == IF a <= b THEN a ELSE b
MostOf(a, b) == IF a >= b THEN a ELSE b
Clamped(n, low, high) == LeastOf(MostOf(n, low), high)
Ceiling(a, b) == (a + b - 1) \div b
SeqsUpTo(set, n) == UNION {[1..m -> set] : m \in 0..n}

-----------------------------------------------------------------------------
(* The detector's input.                                                    *)

TargetSide == 736
Grid == 32

\* PaddleOcrOptions::validate.
ValidLimits == {limit \in Limits : 320 <= limit /\ limit <= 8192}

\* Mutant: the limit is asked of the picture before it is enlarged.
DetectorScale_Unenlarged(width, height, limit) ==
    LET short == LeastOf(width, height)
        long == MostOf(width, height)
    IN IF long > limit THEN <<limit, long>> ELSE IF short < TargetSide THEN <<TargetSide, short>> ELSE <<1, 1>>

\* detection_input: a small picture is enlarged until its short side is the
\* target, unless its long side gets past the limit. A scale is a fraction.
DetectorScale(width, height, limit) ==
    LET short == LeastOf(width, height)
        long == MostOf(width, height)
        enlarge == IF short < TargetSide THEN <<TargetSide, short>> ELSE <<1, 1>>
    IN IF long * enlarge[1] > limit * enlarge[2] THEN <<limit, long>> ELSE enlarge

\* aligned_dimension: to the nearest multiple of the grid, and at least one.
AlignedSide(side, scale) ==
    Grid * MostOf(1, (2 * side * scale[1] + Grid * scale[2]) \div (2 * Grid * scale[2]))

-----------------------------------------------------------------------------
(* Regions of the probability map; pixels are numbered row by row from 0.    *)

Pixels == 0..(Columns * Rows - 1)

\* Mutant: a neighbour is looked for across the end of a row.
Near_Wrapped(i) ==
    SelectSeq(<<i - Columns - 1, i - Columns, i - Columns + 1, i - 1, i + 1, i + Columns - 1, i + Columns, i + Columns + 1>>,
              LAMBDA n : n \in Pixels)

\* The eight neighbours of a pixel, in the order they are visited.
Near(i) ==
    LET x == i % Columns
        y == i \div Columns
        offsets == <<<<-1, -1>>, <<0, -1>>, <<1, -1>>, <<-1, 0>>, <<1, 0>>, <<-1, 1>>, <<0, 1>>, <<1, 1>>>>
        inside == SelectSeq(offsets, LAMBDA o : x + o[1] \in 0..(Columns - 1) /\ y + o[2] \in 0..(Rows - 1))
    IN [k \in DOMAIN inside |-> (y + inside[k][2]) * Columns + x + inside[k][1]]

\* A region grows by the pixel at the head of the queue, whose neighbours leave
\* the mask as they are queued.
RECURSIVE Flood(_, _, _)
Flood(queue, left, region) ==
    IF queue = <<>> THEN [region |-> region, left |-> left]
    ELSE LET found == SelectSeq(Near(Head(queue)), LAMBDA n : n \in left)
         IN Flood(Tail(queue) \o found, left \ Range(found), Append(region, Head(queue)))

\* Three pixels and a mean probability make a region text; a pixel counts two,
\* one that is barely text counts one, and a mean of three halves is asked for.
\* A region too thin for a box (oriented_component_box) is none.
Text(region, thin) ==
    /\ Cardinality(region) >= 3
    /\ 2 * (2 * Cardinality(region) - Cardinality(region \cap Weak)) >= 3 * Cardinality(region)
    /\ ~(thin /\ 0 \in region)

\* boxes_from_probability_map, up to the order: max_candidates counts boxes.
RECURSIVE RegionsFrom(_, _, _, _, _)
RegionsFrom(start, left, thin, most, boxes) ==
    IF start \notin Pixels THEN boxes
    ELSE IF start \notin left \/ Len(boxes) >= most THEN RegionsFrom(start + 1, left, thin, most, boxes)
    ELSE LET flood == Flood(<<start>>, left \ {start}, <<>>)
             region == Range(flood.region)
         IN RegionsFrom(start + 1, flood.left, thin, most,
                IF Text(region, thin) THEN Append(boxes, region) ELSE boxes)

-----------------------------------------------------------------------------
(* The reading order of boxes; a box is its first corner.                    *)

RowTolerance == 10

ByTop(boxes) ==
    {p \in Range(boxes) \X Range(boxes) : p[1].y < p[2].y \/ (p[1].y = p[2].y /\ p[1].x < p[2].x)}
ByLeft(boxes) == {p \in Range(boxes) \X Range(boxes) : p[1].x < p[2].x}

\* slice::sort_by is stable; `less` is the order as a set of pairs.
Sorted(boxes, less) ==
    LET place[i \in Nat] ==
            IF i = 0 THEN <<>>
            ELSE LET before == place[i - 1]
                     behind == Cardinality({j \in DOMAIN before : <<boxes[i], before[j]>> \notin less})
                 IN InsertAt(before, behind + 1, boxes[i])
    IN place[Len(boxes)]

\* Mutant: a box belongs to the row when it is near the box before it.
RowEnd_Chained(boxes, start) ==
    CHOOSE end \in start..Len(boxes) :
        /\ \A k \in (start + 1)..end : boxes[k].y - boxes[k - 1].y < RowTolerance
        /\ end = Len(boxes) \/ boxes[end + 1].y - boxes[end].y >= RowTolerance

\* The last box of the row that starts here: those near the row's first box.
RowEnd(boxes, start) ==
    CHOOSE end \in start..Len(boxes) :
        /\ \A k \in start..end : boxes[k].y - boxes[start].y < RowTolerance
        /\ end = Len(boxes) \/ boxes[end + 1].y - boxes[start].y >= RowTolerance

\* sort_into_reading_order.
ReadingOrder(boxes) ==
    LET sorted == Sorted(boxes, ByTop(boxes))
        rows[start \in Nat] ==
            IF start > Len(sorted) THEN <<>>
            ELSE LET end == RowEnd(sorted, start)
                 IN Sorted(SubSeq(sorted, start, end), ByLeft(boxes)) \o rows[end + 1]
    IN rows[1]

-----------------------------------------------------------------------------
(* Crops and the batches of the recognizer.                                 *)

RecHeight == 48      \* RecResizeImg of the recognizer's configuration
BaseWidth == 320
MaxWidth == 3200

\* crop_text_line: a crop of one pixel is dropped, an upright one is turned.
Cropped(shape) == shape.width > 1 /\ shape.height > 1
Turned(shape) ==
    IF 2 * shape.height >= 3 * shape.width THEN [width |-> shape.height, height |-> shape.width] ELSE shape

\* aspect_ratio, compared without dividing.
Flatter(a, b) == a.width * b.height < b.width * a.height
WidthAt(crop) == Ceiling(RecHeight * crop.width, crop.height)

\* Mutant: the first crop of a batch gives its width.
BatchWidth_First(crops) == Clamped(WidthAt(Head(crops)), BaseWidth, MaxWidth)

\* The widest crop of a batch gives its width.
BatchWidth(crops) ==
    LET widest == CHOOSE c \in Range(crops) : \A o \in Range(crops) : ~Flatter(c, o)
    IN Clamped(WidthAt(widest), BaseWidth, MaxWidth)

\* recognition_input: the columns of its batch that a crop fills.
ItemWidth(crop, width) == Clamped(WidthAt(crop), 1, width)

\* recognize: crops go through the network by their aspect ratio.
Order(crops) == Sorted([i \in DOMAIN crops |-> i],
                       {p \in (DOMAIN crops) \X (DOMAIN crops) : Flatter(crops[p[1]], crops[p[2]])})
Batches(crops, size) ==
    [n \in 1..Ceiling(Len(crops), size) |->
        SubSeq(Order(crops), (n - 1) * size + 1, LeastOf(n * size, Len(crops)))]

\* Mutant: texts are kept in the order the crops went through the network.
Recognized_InOrder(crops, size) == [i \in DOMAIN crops |-> crops[Order(crops)[i]].text]

\* What is recognized at the place of a crop.
Recognized(crops, size) ==
    [i \in DOMAIN crops |->
        LET n == CHOOSE n \in DOMAIN Batches(crops, size) : i \in Range(Batches(crops, size)[n])
            at == CHOOSE at \in DOMAIN Batches(crops, size)[n] : Batches(crops, size)[n][at] = i
        IN crops[Batches(crops, size)[n][at]].text]

\* scan: what can be cropped is recognized, what is blank or unsure is dropped.
Contents(boxes, size) ==
    LET kept == SelectSeq(boxes, Cropped)
        crops == [i \in DOMAIN kept |-> Turned(kept[i]) @@ [text |-> kept[i].text]]
    IN SelectSeq(Recognized(crops, size), LAMBDA text : text # "")

-----------------------------------------------------------------------------
(* Text of the recognizer's classes; class 0 is the blank.                   *)

Blank == 0

\* The class of the space: behind the characters, where there is one.
SpaceClass(classes) == IF classes - Len(Characters) = 2 THEN classes - 1 ELSE Blank
Readable(classes) == classes - Len(Characters) \in {1, 2}

Symbol(class, classes) == IF class = SpaceClass(classes) THEN " " ELSE Characters[class]

\* Mutant: the blank does not part two characters that are alike.
Says_AcrossBlanks(best, i) ==
    /\ best[i] # Blank
    /\ \A j \in 1..(i - 1) : best[j] = best[i] => \E k \in j..i : best[k] \notin {Blank, best[i]}

\* A step says a character unless it is blank or repeats the step before it.
Says(best, i) == best[i] # Blank /\ (i = 1 \/ best[i - 1] # best[i])

\* decode_ctc, for the most likely class of each step.
Decoded(best, classes) ==
    LET says == SelectSeq([i \in DOMAIN best |-> i], LAMBDA i : Says(best, i))
    IN [k \in DOMAIN says |-> Symbol(best[says[k]], classes)]

-----------------------------------------------------------------------------
OcrInit ==
    \/ \E width, height \in Sides, limit \in ValidLimits :
        scanned = [about |-> "input", width |-> width, height |-> height, limit |-> limit]
    \/ \E mask \in SUBSET Pixels, thin \in BOOLEAN, most \in {1, Columns * Rows} :
        scanned = [about |-> "regions", mask |-> mask, thin |-> thin, most |-> most]
    \/ \E boxes \in SeqsUpTo([x : Lefts, y : Tops], MaxBoxes) : scanned = [about |-> "order", boxes |-> boxes]
    \/ \E shapes \in SeqsUpTo(Shapes, MaxBoxes), size \in BatchSizes, silent \in {0, 2} :
        scanned = [about |-> "lines", size |-> size,
                   boxes |-> [i \in DOMAIN shapes |-> shapes[i] @@ [text |-> IF i = silent THEN "" ELSE ToString(i)]]]
    \/ \E classes \in 1..(Len(Characters) + 3) : \E best \in SeqsUpTo(0..(classes - 1), MaxSteps) :
        scanned = [about |-> "text", classes |-> classes, best |-> best]

-----------------------------------------------------------------------------
(* Properties.                                                              *)

\* Whatever the picture, the detector's input has sides the network takes, is
\* no longer than the limit to the nearest step, and shows small text at the
\* target size unless the limit forbids it (detection_input).
DetectorInputBounded ==
    scanned.about = "input" =>
        LET scale == DetectorScale(scanned.width, scanned.height, scanned.limit)
            width == AlignedSide(scanned.width, scale)
            height == AlignedSide(scanned.height, scale)
            nearest == AlignedSide(scanned.limit, <<1, 1>>)
        IN /\ width >= Grid /\ height >= Grid /\ width % Grid = 0 /\ height % Grid = 0
           /\ MostOf(width, height) <= nearest
           /\ LeastOf(width, height) >= TargetSide \/ MostOf(width, height) = nearest

Adjacent(i, j) ==
    /\ (i % Columns) - (j % Columns) \in -1..1
    /\ (i \div Columns) - (j \div Columns) \in -1..1

\* The pixels a path over the mask joins to one.
Joined(mask, i) ==
    LET reach[n \in Nat] ==
            IF n = 0 THEN {i}
            ELSE LET before == reach[n - 1] IN {j \in mask : \E k \in before : Adjacent(j, k)}
    IN reach[Cardinality(mask)]

\* The boxes are the regions of the mask that are text, each whole and once,
\* the first ones where there are too many; a pixel at the end of a row is not
\* joined to the next row (boxes_from_probability_map).
RegionsArePieces ==
    scanned.about = "regions" =>
        LET pieces == {p \in {Joined(scanned.mask, i) : i \in scanned.mask} : Text(p, scanned.thin)}
            boxes == RegionsFrom(0, scanned.mask, scanned.thin, scanned.most, <<>>)
            FirstOf(p) == CHOOSE i \in p : \A j \in p : i <= j
        IN /\ Range(boxes) \subseteq pieces
           /\ Len(boxes) = LeastOf(scanned.most, Cardinality(pieces))
           /\ \A p \in pieces, b \in Range(boxes) : FirstOf(p) < FirstOf(b) => p \in Range(boxes)

\* Boxes are read once each, from the top down where their tops are a line
\* apart, however many boxes lie between them, and in the same order whatever
\* order they are found in (sort_into_reading_order).
ReadFromTheTop ==
    scanned.about = "order" =>
        LET boxes == ReadingOrder(scanned.boxes)
        IN /\ \A b \in Range(boxes) \cup Range(scanned.boxes) :
                Cardinality({i \in DOMAIN boxes : boxes[i] = b}) = Cardinality({i \in DOMAIN scanned.boxes : scanned.boxes[i] = b})
           /\ \A i, j \in DOMAIN boxes : i < j => boxes[i].y < boxes[j].y + RowTolerance
           /\ ReadingOrder(Reverse(scanned.boxes)) = boxes

\* The lines of a picture are the texts of its boxes in their order, although
\* the network sees the crops in another one (recognize, scan).
LinesInOrder ==
    scanned.about = "lines" =>
        Contents(scanned.boxes, scanned.size)
            = LET shown == SelectSeq(scanned.boxes, LAMBDA b : Cropped(b) /\ b.text # "")
              IN [i \in DOMAIN shown |-> shown[i].text]

\* A crop fits its batch, and only one wider than the network's limit is
\* squeezed, whatever crops share its batch (recognition_input).
CropsKeepShape ==
    scanned.about = "lines" =>
        LET crops == [i \in DOMAIN scanned.boxes |-> Turned(scanned.boxes[i])] IN
        \A batch \in Range(Batches(crops, scanned.size)) :
            LET width == BatchWidth([k \in DOMAIN batch |-> crops[batch[k]]]) IN
            /\ width \in BaseWidth..MaxWidth
            /\ \A i \in Range(batch) : ItemWidth(crops[i], width) = LeastOf(WidthAt(crops[i]), MaxWidth)

\* The best classes are a way to write a text: each of its symbols for one step
\* or more, blanks anywhere, and at least one between two that are alike.
Spells(best, classes, text) ==
    \E step \in [DOMAIN best -> 0..Len(text)] :
        /\ \A i \in DOMAIN best : IF step[i] = 0 THEN best[i] = Blank ELSE best[i] # Blank /\ Symbol(best[i], classes) = text[step[i]]
        /\ \A k \in DOMAIN text : \E i \in DOMAIN best : step[i] = k
        /\ \A i, j \in DOMAIN best : i < j /\ step[i] # 0 /\ step[j] # 0 =>
              /\ step[i] <= step[j]
              /\ step[i] = step[j] => \A k \in i..j : step[k] = step[i]
              /\ j = i + 1 /\ step[i] < step[j] => text[step[i]] # text[step[j]]

\* The decoder reads the one text that the classes write (decode_ctc).
ReadsWhatIsWritten ==
    scanned.about = "text" /\ Readable(scanned.classes) =>
        LET said == {i \in DOMAIN scanned.best : scanned.best[i] # Blank}
            decoded == Decoded(scanned.best, scanned.classes)
            texts == SeqsUpTo({Symbol(scanned.best[i], scanned.classes) : i \in said}, Cardinality(said))
        IN {text \in texts : Spells(scanned.best, scanned.classes, text)} = {decoded}

\* What is on a picture is found whole, read from the top, and written down in
\* that order, through scaled inputs, batches and repeated classes.
LayoutIsRead ==
    /\ DetectorInputBounded
    /\ RegionsArePieces
    /\ ReadFromTheTop
    /\ LinesInOrder
    /\ CropsKeepShape
    /\ ReadsWhatIsWritten
===============================================================================
