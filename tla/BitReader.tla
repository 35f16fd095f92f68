------------------------------- MODULE BitReader -------------------------------
(***************************************************************************)
(* The bit reader of the video codec.  A frame's compressed data is packed *)
(* into words; words 0 and 1 double as the two working registers, the rest *)
(* is the stream they are refilled from.  Register 0 always shows the next *)
(* W bits; register 1 holds what is left of the word behind it.  A word is *)
(* a function from bit positions, 0 being the most significant.            *)
(*                                                                         *)
(* The reader is a record, so that the operators can be composed into the  *)
(* decoding of a whole macro-block (FrameDecode).                          *)
(***************************************************************************)
EXTENDS Integers

CONSTANTS
  W,        \* bits of a word (32 in the code)
  Streams   \* the packed frames considered: their number of words, and the words

Positions == 0 .. W - 1
Word == [Positions -> {0, 1}]

ASSUME WordAssumption == W \in Nat \ {0}

ASSUME StreamsAssumption ==
  \A s \in Streams : s.size \in Nat /\ s.size >= 2 /\ s.word \in [0 .. s.size - 1 -> Word]

VARIABLES
  stream,  \* the words makeIntArray packed
  reader   \* the registers, index, newbits; see Start

readerVars == <<stream, reader>>

Shl(x, b) == [i \in Positions |-> IF i + b < W THEN x[i + b] ELSE 0]
Shr(x, b) == [i \in Positions |-> IF i >= b THEN x[i - b] ELSE 0]
Or(x, y) == [i \in Positions |-> IF x[i] = 1 \/ y[i] = 1 THEN 1 ELSE 0]

\* decode() before its loop.  pos counts the bits consumed; over and failed
\* record that the reader ran out of words: over by skipKbits, which then
\* reuses the last one, failed by updateReadBuf, which indexes out of range.
Start(s) == [r0 |-> s.word[0], r1 |-> s.word[1], index |-> 2, newbits |-> W,
             pos |-> 0, over |-> FALSE, failed |-> FALSE]

\* Word i as it is now: the first two are the registers.
WordAt(r, i) == IF i = 0 THEN r.r0 ELSE IF i = 1 THEN r.r1 ELSE stream.word[i]

\* Mutant: the refill is not shifted behind the bits register 1 still holds.
RefillUnshifted(r, b, i) ==
  [r0 |-> Or(Shl(r.r0, b), Shr(Or(r.r1, WordAt(r, i)), W - b)),
   r1 |-> Shl(WordAt(r, i), b - r.newbits), newbits |-> W + r.newbits - b,
   index |-> i + 1, pos |-> r.pos + b, over |-> r.over \/ i < r.index, failed |-> r.failed]

\* Consume b bits when they exhaust register 1, which is refilled from word i.
Refill(r, b, i) ==
  [r0 |-> Or(Shl(r.r0, b), Shr(Or(r.r1, Shr(WordAt(r, i), r.newbits)), W - b)),
   r1 |-> Shl(WordAt(r, i), b - r.newbits), newbits |-> W + r.newbits - b,
   index |-> i + 1, pos |-> r.pos + b, over |-> r.over \/ i < r.index, failed |-> r.failed]

\* Consume b bits when register 1 has more than b.
Shift(r, b) ==
  [r0 |-> Or(Shl(r.r0, b), Shr(r.r1, W - b)), r1 |-> Shl(r.r1, b),
   newbits |-> r.newbits - b, index |-> r.index, pos |-> r.pos + b,
   over |-> r.over, failed |-> r.failed]

\* skipKbits: past the end the last word is used again.
skipKbits(r, b) ==
  LET last == stream.size - 1 IN
  IF r.newbits > b THEN Shift(r, b)
  ELSE IF r.index > last THEN Refill(r, b, last)
  ELSE Refill(r, b, r.index)

\* updateReadBuf: the same, without the bound on the index.
updateReadBuf(r, b) ==
  IF r.newbits > b THEN Shift(r, b)
  ELSE IF r.index > stream.size - 1 THEN [r EXCEPT !.failed = TRUE]
  ELSE Refill(r, b, r.index)

-----------------------------------------------------------------------------
ReaderInit == stream \in Streams /\ reader = Start(stream)

Skip(b) ==
  /\ ~reader.failed
  /\ reader' = skipKbits(reader, b)
  /\ UNCHANGED stream

Update(b) ==
  /\ ~reader.failed
  /\ reader' = updateReadBuf(reader, b)
  /\ UNCHANGED stream

ReaderNext == \E b \in 1 .. W : Skip(b) \/ Update(b)

ReaderSpec == ReaderInit /\ [][ReaderNext]_readerVars

-----------------------------------------------------------------------------
\* The bit o places into word w of frame s, o < 2W.
StreamBit(s, w, o) == IF o < W THEN s.word[w][o] ELSE s.word[w + 1][o - W]

\* For every sequence of reads of 1 to W bits (bitreader.go: lookKbits,
\* skipKbits, updateReadBuf), as long as the reader has not asked for a word
\* the frame does not have: index and newbits always say how many bits have
\* been consumed, and register 0 shows exactly the W bits that follow them.
WindowExact ==
  ~reader.over =>
    /\ reader.pos = W * (reader.index - 2) + (W - reader.newbits)
    /\ \A i \in Positions :
         reader.r0[i] = StreamBit(stream, reader.index - 2, W - reader.newbits + i)

=============================================================================
