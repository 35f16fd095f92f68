----------------------------- MODULE VideoDecoder -----------------------------
(***************************************************************************)
(* The picture buffers of the video decoder: where each tile of a decoded  *)
(* frame is written, what pass 2 refines, and how the picture is read out  *)
(* again, across changes of resolution and of chroma mode.  The decoder is *)
(* a record, and its operations map it to the decoder after them.          *)
(*                                                                         *)
(* Pixels are symbolic: base names the tile content and the place in the   *)
(* tile a pixel was taken from, delta the refinement added to it.  How the *)
(* blocks of a frame are read from its bits is FrameDecode.                *)
(***************************************************************************)
EXTENDS Integers, Sequences

CONSTANTS
  T,              \* side of a 4:4:4 tile (8 in the code); 4:2:0 tiles are 2T
  MaxResolution,  \* largest accepted width or height (1500)
  HalfRow         \* padded height and row of the 4:2:0 tiles cut to half (608, 37)

ASSUME DecoderAssumption == T \in Nat \ {0} /\ MaxResolution \in Nat

None == <<<<0, 0>>, 0, 0>>
Blank == [base |-> None, delta |-> None]

TileSize(m) == IF m.mode420 THEN 2 * T ELSE T

roundUp(v, n) == IF v % n # 0 THEN v + n - (v % n) ELSE v

\* decode()'s geometry: the size padded to whole tiles.
Width(m) == roundUp(m.w, TileSize(m))
Height(m) == roundUp(m.h, TileSize(m))

\* New: no buffers yet.
NewDecoder == [alloc |-> 0, buf |-> <<>>, prev |-> <<>>, stride |-> 0]

Stride(m) == IF m.mode420 THEN Width(m) ELSE m.w

\* The buffers only grow; otherwise they keep what they hold.
ensureBuffers(d, m) ==
  LET need == Width(m) * Height(m) IN
  IF need > d.alloc
  THEN [alloc |-> need, buf |-> [i \in 1 .. need |-> Blank],
        prev |-> [i \in 1 .. need |-> Blank.base], stride |-> Stride(m)]
  ELSE [d EXCEPT !.stride = Stride(m)]

\* Mutant: the last column of tiles is not clipped.
limitNone(m, x0) == T

\* Columns of a 4:4:4 tile inside the picture.
limit(m, x0) == IF m.w - x0 = 0 \/ m.w - x0 > T THEN T ELSE m.w - x0

\* Buffer position of the first pixel of block b.
Offset(m, b) == b.ty * TileSize(m) * (IF m.mode420 THEN Width(m) ELSE m.w) + b.tx * TileSize(m)

Rows(m, b) ==
  IF m.mode420 /\ Height(m) = HalfRow.height /\ b.ty = HalfRow.ty THEN T ELSE TileSize(m)

Columns(m, b) == IF m.mode420 THEN TileSize(m) ELSE limit(m, b.tx * T)

\* The pixel of the tile that goes to buffer position i: rows advance by the
\* real width, in both modes.
Row(m, b, i) == (i - 1 - Offset(m, b)) \div m.w
Column(m, b, i) == (i - 1 - Offset(m, b)) % m.w

Written(m, b, i) ==
  i > Offset(m, b) /\ Row(m, b, i) < Rows(m, b) /\ Column(m, b, i) < Columns(m, b)

Sample(m, b, i) == <<b.val, Row(m, b, i), Column(m, b, i)>>

\* The 4:4:4 path stops at the end of the picture, but not for prevYUV.
InPicture(m, i) == m.mode420 \/ i <= m.w * m.h

\* convertYUVtoRGB: only the 4:4:4 path keeps the tile for pass 2.
convertYUVtoRGB(d, m, b) ==
  [d EXCEPT
    !.buf = [i \in 1 .. d.alloc |-> IF Written(m, b, i) /\ InPicture(m, i)
                                    THEN [base |-> Sample(m, b, i), delta |-> None] ELSE @[i]],
    !.prev = [i \in 1 .. d.alloc |-> IF Written(m, b, i) /\ ~m.mode420 THEN Sample(m, b, i) ELSE @[i]]]

\* convertYUVToRGBPass2: a difference from the tile kept, in 4:4:4 only.
convertYUVToRGBPass2(d, m, b) ==
  IF m.mode420 THEN d
  ELSE [d EXCEPT !.buf = [i \in 1 .. d.alloc |->
          IF Written(m, b, i) /\ InPicture(m, i)
          THEN [base |-> d.prev[i], delta |-> Sample(m, b, i)] ELSE @[i]]]

DrawBlock(d, m, b) ==
  IF b.pass2 THEN convertYUVToRGBPass2(d, m, b) ELSE convertYUVtoRGB(d, m, b)

Accepted(m) == m.w \in 1 .. MaxResolution /\ m.h \in 1 .. MaxResolution

\* The rest of Decode: the picture read out of the buffer, row by row.
Picture(d, m) ==
  [p \in (0 .. m.w - 1) \X (0 .. m.h - 1) |-> d.buf[p[2] * d.stride + p[1] + 1]]

=============================================================================
