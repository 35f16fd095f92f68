------------------------------ MODULE FrameDecode ------------------------------
(***************************************************************************)
(* Decoding one video frame: the macro-block loop of decode() over the bit *)
(* reader, with the VQ colour cache, the Huffman tables, the entropy       *)
(* decoder and the tile position.  A step is one read of the stream, as    *)
(* BitReader's steps are; the pixels of a tile stay symbolic (the inverse  *)
(* DCT and the colour conversion are functions of what is recorded here).  *)
(*                                                                         *)
(* The frames come from an encoder that is the reference: it turns a list  *)
(* of blocks into bits, and says which tiles those blocks mean.            *)
(***************************************************************************)
EXTENDS BitReader, HuffmanTables, Sequences, FiniteSets
LOCAL INSTANCE SequencesExt

CONSTANTS
  Frames,   \* the frames sent: mode420, grid, blocks, words of padding
  TilePix   \* pixels a VQ tile carries (64)

ASSUME FrameAssumption == TilePix \in Nat \ {0} /\ Frames # {}

VARIABLES
  frame,   \* the frame being decoded and the tiles it means
  pc,      \* the read that comes next: "code", "vq", "select", "dc", "ac",
           \* or the end, "done" or "panic"
  block,   \* code of the current macro-block
  txb, tyb,\* tile position
  color,   \* colour cache (vq.Color)
  index4,  \* slots the block selects from (vq.Index)
  unit,    \* cache entry or plane of the block being read
  acc,     \* what the entry or the plane has collected
  dcPred,  \* DC predictors by component
  yuvTile, \* the planes of the tile buffer, 64 values each
  out      \* blocks processed so far

vars == <<readerVars, frame, pc, block, txb, tyb, color, index4, unit, acc, dcPred, yuvTile, out>>

Components == {"y", "cb", "cr"}

-----------------------------------------------------------------------------
(* Reading register 0.                                                     *)

Value(bits) == LET v[i \in 0 .. Len(bits)] == IF i = 0 THEN 0 ELSE 2 * v[i - 1] + bits[i]
               IN v[Len(bits)]

\* Bits from .. from + n - 1 of register 0, most significant first.
Field(r, from, n) == Value([i \in 1 .. n |-> r.r0[from + i - 1]])

lookKbits(r, b) == Field(r, 0, b)

\* getKbits without its skip: values without their top bit are negative.
Signed(r, b) == LET v == lookKbits(r, b) IN IF v < 2 ^ (b - 1) THEN v + 1 - 2 ^ b ELSE v

-----------------------------------------------------------------------------
(* The Huffman tables, as loadHuffmanTable builds them.                    *)

\* First code of each length.
minorCode(ht) ==
  LET first[b \in 1 .. 16] == IF b = 1 THEN 0 ELSE 2 * (first[b - 1] + ht.nrcodes[b - 1])
  IN first

\* Values are looked up by length and rank among the codes of that length.
V(ht, b, rank) ==
  LET before == FoldLeft(+, 0, SubSeq(ht.nrcodes, 1, b - 1)) IN ht.values[before + rank + 1]

\* Mutant: a prefix equal to a bound still counts as below it.
LenShifted(ht, prefix) ==
  ht.codes[CHOOSE i \in DOMAIN ht.codes :
             prefix <= ht.codes[i][1] /\ (i = 1 \/ prefix > ht.codes[i - 1][1])][2]

\* Length of the code a 16-bit prefix starts with: that of the first bound above.
LenOf(ht, prefix) ==
  ht.codes[CHOOSE i \in DOMAIN ht.codes :
             prefix < ht.codes[i][1] /\ (i = 1 \/ prefix >= ht.codes[i - 1][1])][2]

\* The symbol register 0 starts with, and the bits it takes.
Symbol(ht, r) ==
  LET b == LenOf(ht, Field(r, 0, 16)) IN
  [bits |-> b, value |-> V(ht, b, lookKbits(r, b) - minorCode(ht)[b])]

-----------------------------------------------------------------------------
(* The codes of the macro-blocks.                                          *)

SkipCodes == {8, 10, 12, 13, 14, 15}
VQCodes == {5, 6, 7, 13, 14, 15}
JPEGCodes == {0, 8, 4, 12}
Pass2Codes == {2, 10}

BitMapBits(code) == CASE code \in {5, 13} -> 0 [] code \in {6, 14} -> 1 [] code \in {7, 15} -> 2
CacheSlots(code) == 2 ^ BitMapBits(code)

\* The planes a JPEG block carries, in order, with the component of each.
Units(code, mode420) ==
  IF code \in JPEGCodes /\ mode420 THEN <<"y", "y", "y", "y", "cb", "cr">> ELSE <<"y", "cb", "cr">>

Luma(c) == IF c = "y" THEN "luma" ELSE "chroma"

\* The quantization table of a plane: the block's own for luma, the next for chroma.
Table(code, c) == (IF code \in {0, 8} THEN 0 ELSE 2) + (IF c = "y" THEN 0 ELSE 1)

\* What convertYUVtoRGB shows of the tile buffer.
Shown(mode420, planes) == IF mode420 THEN SubSeq(planes, 1, 6) ELSE SubSeq(planes, 1, 3)

moveBlockIndex(x, y, grid) ==
  IF x + 1 >= grid.w THEN <<0, IF y + 1 >= grid.h THEN 0 ELSE y + 1>> ELSE <<x + 1, y>>

-----------------------------------------------------------------------------
(* The reference: what a list of blocks means, and its bits.               *)

Bits(v, n) == [i \in 1 .. n |-> (v \div 2 ^ (n - i)) % 2]

AllBits(n, Of(_)) == FlattenSeq([i \in 1 .. n |-> Of(i)])

Abs(v) == IF v < 0 THEN -v ELSE v

Magnitude(v) == CHOOSE b \in 1 .. 15 : 2 ^ (b - 1) <= Abs(v) /\ Abs(v) < 2 ^ b

MagnitudeBits(v) == Bits(IF v < 0 THEN v - 1 + 2 ^ Magnitude(v) ELSE v, Magnitude(v))

\* The canonical prefix code of a table, by symbol: the codes of length b come
\* after the numbers that the shorter codes are prefixes of.
CodesOf(ht) ==
  LET Before(b) == FoldLeft(+, 0, SubSeq(ht.nrcodes, 1, b - 1))
      First(b) == FoldLeft(+, 0, [k \in 1 .. b - 1 |-> ht.nrcodes[k] * 2 ^ (b - k)])
      Code(i) == LET b == CHOOSE b \in 1 .. 16 : Before(b) < i /\ i <= Before(b + 1)
                 IN Bits(First(b) + i - Before(b) - 1, b)
  IN [sym \in {ht.values[i] : i \in DOMAIN ht.values} |->
        Code(CHOOSE i \in DOMAIN ht.values : ht.values[i] = sym)]

DCCodes == [luma |-> CodesOf(HTDC.luma), chroma |-> CodesOf(HTDC.chroma)]
ACCodes == [luma |-> CodesOf(HTAC.luma), chroma |-> CodesOf(HTAC.chroma)]

\* Coefficient position of the j-th non-zero AC value of a plane.
Position(u, j) == j + FoldLeft(+, 0, [i \in 1 .. j |-> u.ac[i].run])

\* Runs of sixteen zeros have a symbol of their own, and so has the end of a
\* plane whose last coefficient is zero.
UnitBits(u, c) ==
  LET dc == DCCodes[Luma(c)]
      ac == ACCodes[Luma(c)]
      DCBits == IF u.diff = 0 THEN dc[0] ELSE dc[Magnitude(u.diff)] \o MagnitudeBits(u.diff)
      ACBits(i) == LET a == u.ac[i] IN
        AllBits(a.run \div 16, LAMBDA z : ac[240])
        \o ac[16 * (a.run % 16) + Magnitude(a.val)] \o MagnitudeBits(a.val)
  IN DCBits \o AllBits(Len(u.ac), ACBits) \o (IF Position(u, Len(u.ac)) = 63 THEN <<>> ELSE ac[0])

\* Unknown blocks are three bits long.
BlockBits(b, mode420) ==
  LET Entry(i) == <<IF b.slots[i].update THEN 1 ELSE 0>> \o Bits(b.slots[i].slot, 2)
                  \o (IF b.slots[i].update THEN Bits(b.slots[i].color, 24) ELSE <<>>)
  IN SubSeq(Bits(b.code, 4), 1, IF b.code \in {1, 3, 11} THEN 3 ELSE 4)
     \o (IF b.code \in SkipCodes THEN Bits(b.x, 8) \o Bits(b.y, 8) ELSE <<>>)
     \o AllBits(Len(b.slots), Entry)
     \o AllBits(Len(b.select), LAMBDA i : Bits(b.select[i], BitMapBits(b.code)))
     \o AllBits(Len(b.units), LAMBDA i : UnitBits(b.units[i], Units(b.code, mode420)[i]))

FrameBits(f) == AllBits(Len(f.blocks), LAMBDA i : BlockBits(f.blocks[i], f.mode420)) \o Bits(9, 4)

\* The packed frame: whole words, and the words of padding the card appends.
Pack(f) ==
  LET bits == FrameBits(f)
      size == (Len(bits) + W - 1) \div W + f.pad
  IN [size |-> size,
      word |-> [i \in 0 .. (IF size < 2 THEN 1 ELSE size - 1) |->
                  [j \in Positions |-> IF W * i + j < Len(bits) THEN bits[W * i + j + 1] ELSE 0]]]

FirstColors == [i \in 0 .. 3 |-> <<32896, 16744576, 8421504, 12615808>>[i + 1]]

\* The planes of a VQ block: the luma, Cb and Cr part of each pixel's colour.
VQPlanes(colors) == [p \in 1 .. 3 |-> [part |-> p, colors |-> colors]]

\* What one more block does to the reference: position, cache, predictors, and
\* the tile drawn.
After(m, b, mode420, grid) ==
  LET x == IF b.code \in SkipCodes THEN b.x ELSE m.x
      y == IF b.code \in SkipCodes THEN b.y ELSE m.y
      Updates(s) == {i \in DOMAIN b.slots : b.slots[i].update /\ b.slots[i].slot = s}
      cache == [s \in 0 .. 3 |-> IF Updates(s) = {} THEN m.color[s]
                  ELSE b.slots[CHOOSE i \in Updates(s) : \A j \in Updates(s) : j <= i].color]
      pixels == [i \in 1 .. TilePix |->
                   cache[b.slots[IF b.select = <<>> THEN 1 ELSE b.select[i] + 1].slot]]
      comp == Units(b.code, mode420)
      DC(c, n) == m.dc[c] + FoldLeft(+, 0, [i \in 1 .. n |-> IF comp[i] = c THEN b.units[i].diff ELSE 0])
      Plane(i) == [dc |-> DC(comp[i], i), table |-> Table(b.code, comp[i]),
                   ac |-> [j \in DOMAIN b.units[i].ac |->
                             <<Position(b.units[i], j), b.units[i].ac[j].val>>]]
      next == y * grid.w + x + 1
  IN [x |-> next % grid.w, y |-> (next \div grid.w) % grid.h, color |-> cache, bits |-> m.bits + Len(BlockBits(b, mode420)),
      dc |-> [c \in Components |-> DC(c, Len(b.units))],
      tiles |-> Append(m.tiles,
        [x |-> x, y |-> y, code |-> b.code, start |-> m.bits,
         planes |-> IF b.code \in VQCodes THEN VQPlanes(pixels)
                    ELSE IF mode420 /\ b.code \in Pass2Codes THEN <<>>
                    ELSE [i \in DOMAIN b.units |-> Plane(i)]])]

Meaning(f) ==
  FoldLeft(LAMBDA m, b : After(m, b, f.mode420, f.grid),
           [x |-> 0, y |-> 0, color |-> FirstColors, dc |-> [c \in Components |-> 0],
            bits |-> 0, tiles |-> <<>>], f.blocks).tiles

-----------------------------------------------------------------------------
(* The decoder.                                                            *)

Init ==
  /\ \E f \in Frames : frame = [mode420 |-> f.mode420, grid |-> f.grid, pad |-> f.pad, tiles |-> Meaning(f)]
                       /\ stream = Pack(f)
  /\ reader = Start(stream)
  /\ pc = IF stream.size < 2 THEN "done" ELSE "code"
  /\ block = 0 /\ txb = 0 /\ tyb = 0
  /\ color = FirstColors /\ index4 = [i \in 1 .. 4 |-> i - 1]
  /\ unit = 1 /\ acc = <<>>
  /\ dcPred = [c \in Components |-> 0]
  /\ yuvTile = [p \in 1 .. 6 |-> <<>>]
  /\ out = <<>>

\* A read with updateReadBuf: past the end it does not return.
Read(b, next) ==
  /\ reader' = updateReadBuf(reader, b)
  /\ pc' = IF reader'.failed THEN "panic" ELSE next

\* The block is done: its tile is shown, the position moves on, and the loop
\* ends when the reader has reached the last word.
EndBlock(r, planes) ==
  LET next == moveBlockIndex(txb, tyb, frame.grid)
      entry == [x |-> txb, y |-> tyb, code |-> block', planes |-> planes]
  IN /\ out' = Append(out, entry)
     /\ txb' = next[1] /\ tyb' = next[2]
     /\ pc' = IF r.failed THEN "panic" ELSE IF r.index >= stream.size THEN "done" ELSE "code"

NextCode == lookKbits(reader, 4)

EndOfFrame ==
  /\ pc = "code" /\ NextCode = 9
  /\ pc' = "done"
  /\ UNCHANGED <<readerVars, frame, block, txb, tyb, color, index4, unit, acc, dcPred, yuvTile, out>>

UnknownBlock ==
  /\ pc = "code" /\ NextCode \in {1, 3, 11}
  /\ block' = NextCode
  /\ reader' = updateReadBuf(reader, 3)
  /\ EndBlock(reader', <<>>)
  /\ UNCHANGED <<stream, frame, color, index4, unit, acc, dcPred, yuvTile>>

\* readSkipPosition, for the codes that carry one, and on to the block's body.
BeginBlock ==
  /\ pc = "code" /\ NextCode \notin {1, 3, 9, 11}
  /\ block' = NextCode
  /\ IF NextCode \in SkipCodes
     THEN txb' = Field(reader, 4, 8) /\ tyb' = Field(reader, 12, 8)
     ELSE UNCHANGED <<txb, tyb>>
  /\ Read(IF NextCode \in SkipCodes THEN 20 ELSE 4, IF NextCode \in VQCodes THEN "vq" ELSE "dc")
  /\ unit' = 1 /\ acc' = <<>>
  /\ UNCHANGED <<stream, frame, color, index4, dcPred, yuvTile, out>>

\* Mutant: an entry that keeps its colour is as long as one that brings it.
EntryLengthFixed(update) == 27

\* VQ_UPDATE_LENGTH and VQ_NO_UPDATE_LENGTH.
EntryLength(update) == IF update THEN 27 ELSE 3

\* One round of readVQHeader, and after the last the start of decompressVQ.
VQEntry ==
  LET slot == Field(reader, 1, 2)
      update == Field(reader, 0, 1) = 1
  IN /\ pc = "vq"
     /\ index4' = [index4 EXCEPT ![unit] = slot]
     /\ color' = IF update THEN [color EXCEPT ![slot] = Field(reader, 3, 24)] ELSE color
     /\ Read(EntryLength(update), IF unit < CacheSlots(block) THEN "vq" ELSE "select")
     /\ unit' = unit + 1
     /\ UNCHANGED <<stream, frame, block, txb, tyb, acc, dcPred, yuvTile, out>>

\* decompressVQ: a colour for every pixel, or one for all.
SelectColor ==
  LET bits == BitMapBits(block)
      one == color[index4[lookKbits(reader, bits) + 1]]
      colors == IF bits = 0 THEN [i \in 1 .. TilePix |-> color[index4[1]]] ELSE Append(acc, one)
      tile == [p \in 1 .. 6 |-> IF p <= 3 THEN VQPlanes(colors)[p] ELSE yuvTile[p]]
  IN /\ pc = "select"
     /\ reader' = IF bits = 0 THEN reader ELSE skipKbits(reader, bits)
     /\ block' = block
     /\ IF Len(colors) = TilePix
        THEN /\ yuvTile' = tile
             /\ EndBlock(reader', Shown(frame.mode420, tile))
             /\ UNCHANGED acc
        ELSE /\ acc' = colors
             /\ UNCHANGED <<pc, txb, tyb, yuvTile, out>>
     /\ UNCHANGED <<stream, frame, color, index4, unit, dcPred>>

\* The predictor is stored in 16 bits, the coefficient in 32.
int16(n) == ((n + 2 ^ 15) % 2 ^ 16) - 2 ^ 15

\* decodeHuffmanDataUnit up to its loop.
DecodeDC ==
  /\ pc = "dc"
  /\ \E c \in {Units(block, frame.mode420)[unit]} : \E sym \in {Symbol(HTDC[Luma(c)], reader)} :
       LET r == skipKbits(reader, sym.bits)
           dc == dcPred[c] + IF sym.value = 0 THEN 0 ELSE Signed(r, sym.value)
       IN /\ reader' = IF sym.value = 0 THEN r ELSE skipKbits(r, sym.value)
          /\ dcPred' = [dcPred EXCEPT ![c] = int16(dc)]
          /\ acc' = [dc |-> dc, table |-> Table(block, c), ac |-> <<>>, next |-> 1]
  /\ pc' = "ac"
  /\ UNCHANGED <<stream, frame, block, txb, tyb, color, index4, unit, yuvTile, out>>

\* The plane is complete: inverseDCT, and the next plane or the end of the block.
EndUnit(r, a) ==
  LET tile == [yuvTile EXCEPT ![unit] = [dc |-> a.dc, table |-> a.table, ac |-> a.ac]]
      last == unit = Len(Units(block, frame.mode420))
      hidden == frame.mode420 /\ block \in Pass2Codes
  IN /\ yuvTile' = tile
     /\ block' = block
     /\ IF last
        THEN EndBlock(r, IF hidden THEN <<>> ELSE Shown(frame.mode420, tile)) /\ UNCHANGED <<unit, acc>>
        ELSE pc' = "dc" /\ unit' = unit + 1 /\ acc' = <<>> /\ UNCHANGED <<txb, tyb, out>>

\* One round of the loop of decodeHuffmanDataUnit.
DecodeAC ==
  /\ pc = "ac"
  /\ \E sym \in {Symbol(HTAC[Luma(Units(block, frame.mode420)[unit])], reader)} :
       LET r == skipKbits(reader, sym.bits)
           size == sym.value % 16
           run == sym.value \div 16
           at == acc.next + run
           more == IF size = 0 THEN [acc EXCEPT !.next = @ + 16]
                   ELSE [acc EXCEPT !.ac = Append(@, <<at, Signed(r, size)>>), !.next = at + 1]
       IN /\ reader' = IF size = 0 THEN r ELSE skipKbits(r, size)
          /\ IF size = 0 /\ run # 15 THEN EndUnit(reader', acc)
             ELSE IF more.next >= 64 THEN EndUnit(reader', more)
             ELSE acc' = more /\ UNCHANGED <<pc, block, txb, tyb, unit, yuvTile, out>>
  /\ UNCHANGED <<stream, frame, color, index4, dcPred>>

Finished == pc \in {"done", "panic"} /\ UNCHANGED vars

Next == EndOfFrame \/ UnknownBlock \/ BeginBlock \/ VQEntry \/ SelectColor \/ DecodeDC \/ DecodeAC \/ Finished

Spec == Init /\ [][Next]_vars

-----------------------------------------------------------------------------
(* Properties.                                                             *)

\* What the frame means, for the blocks of a prefix.
Meant(k) == LET t == frame.tiles[k] IN [x |-> t.x, y |-> t.y, code |-> t.code, planes |-> t.planes]

\* The blocks processed are the blocks the card encoded, in order: at the right
\* tile, with the colours its cache held, the coefficients at their positions
\* and the predictors carried from block to block (decode.go's loop,
\* readVQHeader, decompressVQ, decodeHuffmanDataUnit).  The loop gives up on a
\* frame at a block boundary inside its last two words, so only blocks that
\* start there can be missing.
BlocksExact ==
  pc # "panic" =>
    /\ Len(out) <= Len(frame.tiles)
    /\ \A k \in DOMAIN out : out[k] = Meant(k)
    /\ pc = "done" => \A k \in DOMAIN frame.tiles :
         k > Len(out) => frame.tiles[k].start >= W * (stream.size - 2)

\* One word behind the end code is enough for every read of the loop to find
\* its refill word: updateReadBuf, which does not check, never runs past it.
NoOverread == frame.pad >= 1 => pc # "panic"

=============================================================================
