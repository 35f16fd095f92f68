---------------------------- MODULE MCFrameDecode ----------------------------
(***************************************************************************)
(* Frames for FrameDecode: every symbol of the four code tables in a plane *)
(* of its own, and sequences of up to three blocks of every kind, each     *)
(* with no, one or two words of padding.                                   *)
(***************************************************************************)
EXTENDS FrameDecode

Block(code, x, y, slots, select, units) ==
  [code |-> code, x |-> x, y |-> y, slots |-> slots, select |-> select, units |-> units]

Keep(s) == [slot |-> s, update |-> FALSE, color |-> 0]
Set(s, c) == [slot |-> s, update |-> TRUE, color |-> c]

Unit(d, ac) == [diff |-> d, ac |-> ac]
Flat == Unit(0, <<>>)

\* Every DC category and every AC symbol, with both signs of magnitude.
DCUnits == {Unit(d, <<>>) : d \in {0} \cup {2 ^ k - 1 : k \in 1 .. 11} \cup {-(2 ^ k) : k \in 0 .. 10}}
ACUnits == {Unit(0, <<[run |-> r, val |-> v]>>) :
              r \in 0 .. 15, v \in {2 ^ k - 1 : k \in 1 .. 10} \cup {-(2 ^ k) : k \in 0 .. 9}}
LongUnits == {Unit(-3, <<[run |-> 20, val |-> 1], [run |-> 35, val |-> -2], [run |-> 5, val |-> 3]>>),
              Unit(5, <<[run |-> 62, val |-> 1]>>)}

Grid == [w |-> 2, h |-> 2]
Frame(m, blocks, pad) == [mode420 |-> m, grid |-> Grid, blocks |-> blocks, pad |-> pad]

Sweep == {Frame(FALSE, <<Block(0, 0, 0, <<>>, <<>>, <<u, u, Flat>>)>>, 2) :
            u \in DCUnits \cup ACUnits \cup LongUnits}

Stripes(n) == [i \in 1 .. TilePix |-> i % n]
Luma3 == <<Unit(3, <<[run |-> 1, val |-> -2]>>), Unit(-1, <<>>), Unit(2, <<>>)>>
Luma6 == <<Unit(1, <<>>), Unit(1, <<>>), Unit(-4, <<[run |-> 0, val |-> 1]>>), Flat, Unit(7, <<>>), Unit(-7, <<>>)>>

Blocks444 == {
  Block(0, 0, 0, <<>>, <<>>, Luma3), Block(12, 1, 1, <<>>, <<>>, Luma3),
  Block(2, 0, 0, <<>>, <<>>, Luma3), Block(10, 1, 0, <<>>, <<>>, <<Flat, Flat, Flat>>),
  Block(5, 0, 0, <<Keep(2)>>, <<>>, <<>>), Block(13, 1, 1, <<Set(2, 1193046)>>, <<>>, <<>>),
  Block(6, 0, 0, <<Set(1, 7), Keep(0)>>, Stripes(2), <<>>),
  Block(15, 0, 1, <<Keep(3), Set(2, 9), Set(2, 5), Keep(1)>>, Stripes(4), <<>>)}

Blocks420 == {
  Block(4, 0, 0, <<>>, <<>>, Luma6), Block(8, 1, 1, <<>>, <<>>, Luma6),
  Block(2, 0, 0, <<>>, <<>>, Luma3)}

Unknown == {Block(c, 0, 0, <<>>, <<>>, <<>>) : c \in {1, 3, 11}}

Lists(S) == {<<a>> : a \in S} \cup {<<a, b>> : a, b \in S}
            \cup {<<a, u, b>> : a \in S, u \in Unknown, b \in {c \in S : c.code >= 8}}

MCFrames == Sweep
  \cup {Frame(FALSE, l, p) : l \in Lists(Blocks444), p \in 0 .. 2}
  \cup {Frame(TRUE, l, p) : l \in Lists(Blocks420), p \in 0 .. 2}
  \cup {Frame(FALSE, <<a, b, c>>, p) : a, b, c \in {d \in Blocks444 : d.select = <<>>}, p \in {0, 2}}

MCStreams == {s \in {Pack(f) : f \in {g \in MCFrames : Len(g.blocks) = 2}} : s.size >= 2}

=============================================================================
