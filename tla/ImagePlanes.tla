----------------------------- MODULE ImagePlanes -----------------------------
(***************************************************************************)
(* The transforms of raw frames (internal/camera: yuv_transform.go,        *)
(* downscale.go; internal/v4l2/encode.go: copyPaddedI420; internal/ai:     *)
(* yuv_source.go: fitEven) as operators.  A plane is a function from       *)
(* offsets, counted from 0, to samples.                                    *)
(***************************************************************************)
EXTENDS Integers, Sequences, SequencesExt, FiniteSetsExt

CONSTANT Tile       \* transposeTile: 64

ASSUME TileAssumption == Tile \in Nat \ {0}

Offsets(w, h) == 0 .. w * h - 1
Half(n) == n \div 2
HalfUp(n) == (n + 1) \div 2
AtMost(a, b) == IF a < b THEN a ELSE b

(* ComposeRotationFlips: a half turn is both flips. *)
Composed(rotation, hflip, vflip) ==
    IF rotation = 180 THEN [rotation |-> 0, hflip |-> ~hflip, vflip |-> ~vflip]
    ELSE [rotation |-> rotation, hflip |-> hflip, vflip |-> vflip]

(* Mutant of TransposeWrites: a tile at the edge is taken for a whole one. *)
TransposeWritesWhole(w, h, clockwise) ==
    UNION { LET th == AtMost(Tile, h - sy)  tw == AtMost(Tile, w - sx) IN
            { IF clockwise THEN <<(sx + j) * h + h - sy - Tile + k, (sy + th - 1 - k) * w + sx + j>>
              ELSE <<(w - 1 - sx - j) * h + sy + k, (sy + k) * w + sx + j>> :
                j \in 0 .. tw - 1, k \in 0 .. th - 1 } :
            sx \in {x \in 0 .. w - 1 : x % Tile = 0}, sy \in {y \in 0 .. h - 1 : y % Tile = 0} }

(* transposePlane: the stores <<to, from>>, tile by tile; within a tile, row j
   of the target and its k-th sample. *)
TransposeWrites(w, h, clockwise) ==
    UNION { LET th == AtMost(Tile, h - sy)  tw == AtMost(Tile, w - sx) IN
            { IF clockwise THEN <<(sx + j) * h + h - sy - th + k, (sy + th - 1 - k) * w + sx + j>>
              ELSE <<(w - 1 - sx - j) * h + sy + k, (sy + k) * w + sx + j>> :
                j \in 0 .. tw - 1, k \in 0 .. th - 1 } :
            sx \in {x \in 0 .. w - 1 : x % Tile = 0}, sy \in {y \in 0 .. h - 1 : y % Tile = 0} }

Transposed(plane, w, h, clockwise) ==
    LET writes == TransposeWrites(w, h, clockwise)
    IN  [to \in {write[1] : write \in writes} |->
            plane[(CHOOSE write \in writes : write[1] = to)[2]]]

(* flipPlane, in place: a mirrored row, a swap of two rows and the loop over
   the rows from both ends, with the middle row of an odd height. *)
Mirror(x, w, hflip) == IF hflip THEN w - 1 - x ELSE x
SwapRows(plane, w, top, bottom, hflip) ==
    [o \in DOMAIN plane |->
        IF o \div w \in {top, bottom}
        THEN plane[(top + bottom - (o \div w)) * w + Mirror(o % w, w, hflip)] ELSE plane[o]]
MirrorRow(plane, w, row) ==
    [o \in DOMAIN plane |-> IF o \div w = row THEN plane[row * w + w - 1 - (o % w)] ELSE plane[o]]

Flipped(plane, w, h, hflip, vflip) ==
    IF vflip
    THEN LET tops == [i \in 1 .. Half(h) |-> i - 1]
             swapped == FoldLeft(LAMBDA p, top : SwapRows(p, w, top, h - 1 - top, hflip), plane, tops)
         IN  IF h % 2 = 1 /\ hflip THEN MirrorRow(swapped, w, Half(h)) ELSE swapped
    ELSE IF hflip THEN FoldLeft(LAMBDA p, row : MirrorRow(p, w, row), plane, [i \in 1 .. h |-> i - 1])
    ELSE plane

(* readLoopYUV and pump: rotation, then the flips on the rotated plane. *)
Transformed(plane, w, h, rotation, hflip, vflip) ==
    LET c == Composed(rotation, hflip, vflip)
        turned == c.rotation \in {90, 270}
    IN  IF turned THEN Flipped(Transposed(plane, w, h, c.rotation = 90), h, w, c.hflip, c.vflip)
        ELSE Flipped(plane, w, h, c.hflip, c.vflip)

(* mapAxis and DownscaleYU12Into: the offsets of the source that luma and
   chroma of the target are taken from. *)
Axis(dst, src, i) == (i * src) \div dst
DownscaledLuma(w, h, dw, dh) ==
    {Axis(dh, h, y) * w + Axis(dw, w, x) : x \in 0 .. dw - 1, y \in 0 .. dh - 1}
DownscaledChroma(w, h, dw, dh) ==
    LET rows == 0 .. (IF Half(dh) = 0 THEN 1 ELSE Half(dh)) - 1
        cols == 0 .. (IF Half(dw) = 0 THEN 1 ELSE Half(dw)) - 1
    IN  {[row |-> Half(Axis(dh, h, AtMost(2 * y, dh - 1))), col |-> Half(Axis(dw, w, AtMost(2 * x, dw - 1)))] :
            x \in cols, y \in rows}

(* evenDim and fitEven: shrink into a box, even, at least 2. *)
EvenDim(n) == IF n < 2 THEN 2 ELSE n - (n % 2)
FitEven(w, h, box) ==
    IF w <= box /\ h <= box THEN <<EvenDim(w), EvenDim(h)>>
    ELSE IF w >= h THEN <<EvenDim(box), EvenDim((h * box) \div w)>>
    ELSE <<EvenDim((w * box) \div h), EvenDim(box)>>

(* copyPaddedI420: where the samples of the three planes go, <<to, from>>. *)
PaddedCopies(w, h, stride) ==
    LET rows(n, len, to, toStep, from, fromStep) ==
            {<<to + r * toStep + x, from + r * fromStep + x>> : r \in 0 .. n - 1, x \in 0 .. len - 1}
        u == stride * h
        v == u + Half(stride) * Half(h)
    IN  rows(h, w, 0, stride, 0, w)
        \union rows(Half(h), Half(w), u, Half(stride), w * h, Half(w))
        \union rows(Half(h), Half(w), v, Half(stride), w * h + Half(w) * Half(h), Half(w))
PaddedTotal(h, stride) == stride * h + 2 * (Half(stride) * Half(h))

=============================================================================
