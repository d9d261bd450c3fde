------------------------------- MODULE Pictures -------------------------------
(***************************************************************************)
(* Pictures the right way up: the orientation a JPEG or a video states, the *)
(* reduced size a JPEG is decoded at, and the sizes of its thumbnails.      *)
(* Sizes are exact here and f64 in the code; a pixel is its place.          *)
(***************************************************************************)
EXTENDS Integers, Sequences, FiniteSets, SequencesExt

CONSTANTS
    Longs,                  \* sides of pictures that are decoded
    BucketLists,            \* thumbnail sizes of one request
    SmallSides              \* sides of pictures that are turned

VARIABLE picture   \* the question and what it is about

Smaller(a, b) == IF a <= b THEN a ELSE b
Larger(a, b) == IF a >= b THEN a ELSE b
Rounded(a, b) == (2 * a + b) \div (2 * b)

-----------------------------------------------------------------------------
(* Orientation.                                                             *)

\* ExifOrientation::from_value: what is not stated is not turned.
FromValue(value) ==
    CASE value = 2 -> "FlipHorizontal" [] value = 3 -> "Rotate180" [] value = 4 -> "FlipVertical"
      [] value = 5 -> "Transpose" [] value = 6 -> "Rotate90Clockwise" [] value = 7 -> "Transverse"
      [] value = 8 -> "Rotate270Clockwise" [] OTHER -> "Identity"

SwapsDimensions(o) == o \in {"Transpose", "Rotate90Clockwise", "Transverse", "Rotate270Clockwise"}
TurnedSize(o, size) == IF SwapsDimensions(o) THEN <<size[2], size[1]>> ELSE size

\* Mutant: the turns go by the other axis's length.
PlaceOf_Swapped(o, w, h, x, y) ==
    CASE o = "FlipHorizontal" -> <<w - 1 - x, y>> [] o = "Rotate180" -> <<w - 1 - x, h - 1 - y>>
      [] o = "FlipVertical" -> <<x, h - 1 - y>> [] o = "Transpose" -> <<y, x>>
      [] o = "Rotate90Clockwise" -> <<y, w - 1 - x>> [] o = "Transverse" -> <<h - 1 - y, w - 1 - x>>
      [] o = "Rotate270Clockwise" -> <<h - 1 - y, x>> [] OTHER -> <<x, y>>

\* orient_pixels: where a pixel goes.
PlaceOf(o, w, h, x, y) ==
    CASE o = "FlipHorizontal" -> <<w - 1 - x, y>> [] o = "Rotate180" -> <<w - 1 - x, h - 1 - y>>
      [] o = "FlipVertical" -> <<x, h - 1 - y>> [] o = "Transpose" -> <<y, x>>
      [] o = "Rotate90Clockwise" -> <<h - 1 - y, x>> [] o = "Transverse" -> <<h - 1 - y, w - 1 - x>>
      [] o = "Rotate270Clockwise" -> <<y, w - 1 - x>> [] OTHER -> <<x, y>>

\* Mutant: a quarter turn is taken for the one the other way.
FromMatrix_Back(m) ==
    CASE m = <<1, 0, 0, 1>> -> "Identity" [] m = <<-1, 0, 0, 1>> -> "FlipHorizontal"
      [] m = <<1, 0, 0, -1>> -> "FlipVertical" [] m = <<-1, 0, 0, -1>> -> "Rotate180"
      [] m = <<0, -1, 1, 0>> -> "Rotate90Clockwise" [] m = <<0, 1, -1, 0>> -> "Rotate270Clockwise"
      [] m = <<0, 1, 1, 0>> -> "Transpose" [] m = <<0, -1, -1, 0>> -> "Transverse"
      [] OTHER -> "unsupported"

\* orientation_from_matrix, of the signs of a display matrix.
FromMatrix(m) ==
    CASE m = <<1, 0, 0, 1>> -> "Identity" [] m = <<-1, 0, 0, 1>> -> "FlipHorizontal"
      [] m = <<1, 0, 0, -1>> -> "FlipVertical" [] m = <<-1, 0, 0, -1>> -> "Rotate180"
      [] m = <<0, 1, -1, 0>> -> "Rotate90Clockwise" [] m = <<0, -1, 1, 0>> -> "Rotate270Clockwise"
      [] m = <<0, 1, 1, 0>> -> "Transpose" [] m = <<0, -1, -1, 0>> -> "Transverse"
      [] OTHER -> "unsupported"

-----------------------------------------------------------------------------
(* Thumbnails of a JPEG.                                                     *)

\* thumbnail_scale_numerator: eighths of the picture that leave two pixels for
\* each one of the thumbnail.
ScaleNumerator(longest, edge) ==
    IF \E n \in {1, 2, 4} : longest * n >= 2 * edge * 8
    THEN CHOOSE n \in {1, 2, 4} : longest * n >= 2 * edge * 8 /\ \A o \in {1, 2, 4} : longest * o >= 2 * edge * 8 => n <= o
    ELSE 8

\* What is decoded of a picture, before it is turned.
Scaled(size, edge) ==
    LET n == ScaleNumerator(Larger(size[1], size[2]), edge) IN [axis \in 1..2 |-> (size[axis] * n + 7) \div 8]

\* Mutant: the first size of the request decides what is decoded.
DecodeEdge_First(buckets) == Head(buckets)

\* image_buckets decodes once, for the largest size.
DecodeEdge(buckets) == FoldLeft(Larger, 1, buckets)

\* fit_within, for a square box.
FitWithin(size, edge) ==
    LET long == Larger(size[1], size[2]) IN [axis \in 1..2 |-> Larger(1, Rounded(size[axis] * edge, long))]

\* decode_for_thumbnail: the raster that is turned, and the size it stands for.
DecodedFor(size, value, edge) ==
    LET o == FromValue(value) IN [raster |-> TurnedSize(o, Scaled(size, edge)), size |-> TurnedSize(o, size)]

\* image_buckets: a raster, and a thumbnail of it for each size.
ThumbnailSizes(size, value, buckets) ==
    LET decoded == DecodedFor(size, value, DecodeEdge(buckets))
    IN [raster |-> decoded.raster, sizes |-> [i \in DOMAIN buckets |-> FitWithin(decoded.size, buckets[i])]]

-----------------------------------------------------------------------------
PictureInit ==
    \/ \E value \in 0..9, w, h \in SmallSides : picture = [about |-> "exif", value |-> value, w |-> w, h |-> h]
    \/ \E m \in [1..4 -> -1..1], w, h \in SmallSides : picture = [about |-> "matrix", m |-> m, w |-> w, h |-> h]
    \/ \E w, h \in Longs, value \in {1, 6}, buckets \in BucketLists :
        picture = [about |-> "thumbnails", size |-> <<w, h>>, value |-> value, buckets |-> buckets]

-----------------------------------------------------------------------------
(* Properties.                                                              *)

\* The sides of the upright picture where row 0 and column 0 of the stored one
\* are, as the tag is defined.
Side(value) ==
    CASE value = 2 -> <<"top", "right">> [] value = 3 -> <<"bottom", "right">> [] value = 4 -> <<"bottom", "left">>
      [] value = 5 -> <<"left", "top">> [] value = 6 -> <<"right", "top">> [] value = 7 -> <<"right", "bottom">>
      [] value = 8 -> <<"left", "bottom">> [] OTHER -> <<"top", "left">>

\* A distance from a side, in a picture of a size.
From(side, n, size) ==
    CASE side = "left" -> <<n>> [] side = "top" -> <<n>> [] side = "right" -> <<size[1] - 1 - n>> [] OTHER -> <<size[2] - 1 - n>>

\* Every pixel lands where the tag says its row and its column are, in a
\* picture whose sides are swapped when the tag turns it (orient_pixels).
UprightAsTagged ==
    picture.about = "exif" =>
        LET o == FromValue(picture.value)
            size == TurnedSize(o, <<picture.w, picture.h>>)
            side == Side(picture.value)
        IN \A x \in 0..(picture.w - 1), y \in 0..(picture.h - 1) :
            LET row == From(side[1], y, size)[1]
                column == From(side[2], x, size)[1]
            IN PlaceOf(o, picture.w, picture.h, x, y)
                = IF side[1] \in {"top", "bottom"} THEN <<column, row>> ELSE <<row, column>>

\* A video is shown as its matrix moves it, and refused when the matrix is no
\* turn or flip: the map of the orientation is the matrix's, up to the corner
\* of the picture (orientation_from_matrix, orient_pixels).
ShownAsMatrix ==
    picture.about = "matrix" =>
        LET m == picture.m
            o == FromMatrix(m)
            Moved(x, y) == <<m[1] * x + m[3] * y, m[2] * x + m[4] * y>>
            zero == PlaceOf(o, picture.w, picture.h, 0, 0)
            orthogonal == m[1] * m[3] + m[2] * m[4] = 0 /\ m[1] * m[1] + m[2] * m[2] = 1 /\ m[3] * m[3] + m[4] * m[4] = 1
        IN /\ (o # "unsupported") <=> orthogonal
           /\ orthogonal =>
                \A x \in 0..(picture.w - 1), y \in 0..(picture.h - 1) :
                    LET place == PlaceOf(o, picture.w, picture.h, x, y)
                        size == TurnedSize(o, <<picture.w, picture.h>>)
                    IN /\ <<place[1] - zero[1], place[2] - zero[2]>> = Moved(x, y)
                       /\ place[1] \in 0..(size[1] - 1) /\ place[2] \in 0..(size[2] - 1)

\* Each thumbnail of a request has the shape of the upright picture to half a
\* pixel, fills its box, and is made from twice its pixels or from all of them,
\* although the picture is decoded once and turned when it is already reduced
\* (image_buckets, decode_for_thumbnail).
ThumbnailsAreUpright ==
    picture.about = "thumbnails" =>
        LET upright == IF picture.value = 6 THEN <<picture.size[2], picture.size[1]>> ELSE picture.size
            made == ThumbnailSizes(picture.size, picture.value, picture.buckets)
            long == Larger(upright[1], upright[2])
        IN \A i \in DOMAIN picture.buckets, axis \in 1..2 :
            LET edge == picture.buckets[i]
                side == made.sizes[i][axis]
                error == 2 * (side * long - edge * upright[axis])
            IN /\ upright[axis] = long => side = edge
               /\ side = 1 \/ error \in (-long)..long
               /\ made.raster[axis] >= Smaller(upright[axis], 2 * side - 1)

\* Pictures, videos and thumbnails are shown the right way up and in shape,
\* also when they are decoded smaller first and turned afterwards.
PicturesUpright == UprightAsTagged /\ ShownAsMatrix /\ ThumbnailsAreUpright
===============================================================================
