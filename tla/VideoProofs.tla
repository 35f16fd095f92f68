------------------------------ MODULE VideoProofs ------------------------------
(***************************************************************************)
(* Proofs about the video path, in two independent parts.                  *)
(*                                                                         *)
(* KvmVideo: the handshake never makes the card refuse the session,        *)
(* readLoop hands over whole frames only, and every picture given to       *)
(* OnFrame is the host's screen.  They hold for any modes and any number   *)
(* of fragments, frames and other messages, and for every size of the      *)
(* wire.  The picture needs the most: what the blocks of a frame bring     *)
(* (FramesSound), that a frame building on another is decoded right after  *)
(* it (Sync), and that what the buffers show is the screen of the frame    *)
(* handed over but for the blocks still to be decoded (DecoderInv).        *)
(*                                                                         *)
(* BitReader: for every word width and every frame, register 0 shows the   *)
(* bits that follow the ones consumed.  The property alone is not          *)
(* inductive: a shift brings in bits of register 1, so the invariant also  *)
(* says what register 1 holds, namely the unread rest of word index - 1    *)
(* and zeros behind it, which is what makes the bitwise or with the refill *)
(* an append.                                                              *)
(***************************************************************************)
EXTENDS KvmVideo, BitReader, TLAPS

-----------------------------------------------------------------------------
(* The inductive invariants.                                               *)

\* q is a sequence, of whatever it holds.
IsSeq(q) == q \in Seq({q[i] : i \in DOMAIN q})

\* The first n fragments of a frame, as readLoop collects them.
Pieces(id, n) == [k \in 1..n |-> [id |-> id, num |-> k - 1]]

Parts(id) == frames[id].parts

\* The wire and the frames are sequences, and the card is somewhere in its last frame.
FramesOK ==
  /\ IsSeq(net) /\ IsSeq(frames) /\ sending \in Nat
  /\ \A i \in 1..Len(frames) : Parts(i) \in Nat \ {0} /\ frames[i].mode \in Modes
  /\ IF frames = <<>> THEN sending = 0 ELSE sending <= Parts(Len(frames))

\* Where the fragments are on the wire.
Fragments == {i \in DOMAIN net : net[i].type = "fragment"}

\* A fragment on the wire has been sent, and the flag tells the last of its frame.
FragmentsSent ==
  \A i \in Fragments :
    /\ net[i].id \in 1..Len(frames) /\ net[i].num \in Nat /\ net[i].num < Parts(net[i].id)
    /\ net[i].last <=> net[i].num + 1 = Parts(net[i].id)
    /\ net[i].id = Len(frames) => net[i].num < sending

\* The card sends forward: later fragments of a frame, and later frames.
Forward ==
  \A i, j \in Fragments :
    i < j => net[i].id < net[j].id \/ (net[i].id = net[j].id /\ net[i].num < net[j].num)

\* The first n fragments of frame id have left the card, and the last of them is what
\* readLoop has collected last, or still on the wire before position j.
Precedes(id, n, j) ==
  \/ frame = Pieces(id, n)
  \/ \E i \in Fragments : i < j /\ net[i].id = id /\ net[i].num + 1 = n

\* No fragment comes without the one before it,
NoGap == \A j \in Fragments : net[j].num > 0 => Precedes(net[j].id, net[j].num, j)

\* and the next one will not either.
NoGapAhead ==
  frames # <<>> /\ sending \in 1..(Parts(Len(frames)) - 1) =>
    Precedes(Len(frames), sending, Len(net) + 1)

\* The first n fragments of frame id are collected, and nothing on the wire is older.
Collects(id, n) ==
  /\ id \in 1..Len(frames) /\ n \in Nat \ {0} /\ n < Parts(id)
  /\ frame = Pieces(id, n)
  /\ id = Len(frames) => n <= sending
  /\ \A i \in Fragments : id < net[i].id \/ (id = net[i].id /\ n <= net[i].num)

\* What readLoop has collected is the beginning of one frame.
Collected == frame = <<>> \/ \E id \in 1..Len(frames), n \in Nat : Collects(id, n)

\* readLoop has not met an error.
Active == reading \in {"off", "reading", "decoding"}

HandedWhole == handed = <<>> \/ \E id \in 1..Len(frames) : handed = Pieces(id, Parts(id))

StreamInv ==
  /\ FramesOK /\ FragmentsSent /\ Forward /\ HandedWhole
  /\ Active => NoGap /\ NoGapAhead /\ Collected

\* readLoop is started by Run.
NotStarted == client \in {"handshake", "connected"} => reading = "off"

VideoInv == StreamInv /\ NotStarted

\* Positions of the messages of a type.
Of(type) == {i \in DOMAIN net : net[i].type = type}

\* The card accepts the session once.
OneAccepted == \A i, j \in Of("accepted") : i = j

\* How far the session is, and what is under way to the card.
Progress ==
  /\ card \in {"connected", "accepted", "complete", "answered", "streaming"}
  /\ card = "connected" => Of("accepted") = {}
  /\ ~gone =>
       /\ card = "connected" => toCard = <<>>
       /\ card = "accepted" /\ Of("accepted") # {} => toCard = <<>>
       /\ card = "accepted" /\ Of("accepted") = {} => toCard = <<"complete", "validate">>
       /\ card = "complete" => toCard = <<"validate">> /\ Of("accepted") = {}
       /\ card \in {"answered", "streaming"} =>
            toCard \in Seq({"resume"}) /\ Of("accepted") = {}

\* Every answer on the wire gives the session.
Granted == \A i \in Of("response") : net[i].status = 1 /\ card \in {"answered", "streaming"}

HandshakeInv == IsSeq(net) /\ OneAccepted /\ Progress /\ Granted

-----------------------------------------------------------------------------
(* Sequences.                                                              *)

\* A sequence of any kind is one of what it holds.
LEMMA SeqOfAny ==
  ASSUME NEW S, NEW r \in Seq(S)
  PROVE  IsSeq(r)
<1> DEFINE V == {r[i] : i \in DOMAIN r}
<1>1. PICK n \in Nat : n = Len(r)
  OBVIOUS
<1>2. r = [i \in 1..n |-> r[i]] /\ DOMAIN r = 1..n
  BY <1>1
<1>3. \A i \in 1..n : r[i] \in V
  BY <1>2
<1> HIDE DEF V
<1>4. r \in Seq(V)
  BY <1>2, <1>3
<1> QED
  BY <1>4 DEF IsSeq, V

\* A sequence after something is added to it,
LEMMA SeqAppend ==
  ASSUME NEW q, IsSeq(q), NEW x
  PROVE  /\ Len(q) \in Nat /\ DOMAIN q = 1..Len(q)
         /\ IsSeq(Append(q, x)) /\ Len(Append(q, x)) = Len(q) + 1
         /\ DOMAIN Append(q, x) = 1..(Len(q) + 1)
         /\ \A i \in 1..Len(q) : Append(q, x)[i] = q[i]
         /\ Append(q, x)[Len(q) + 1] = x
         /\ Append(q, x) # <<>>
<1> DEFINE S == {q[i] : i \in DOMAIN q}
<1>1. q \in Seq(S)
  BY DEF IsSeq
<1>2. Len(q) \in Nat /\ DOMAIN q = 1..Len(q)
  BY <1>1
<1>3. PICK U : U = S \cup {x}
  OBVIOUS
<1>4. q \in Seq(U) /\ x \in U
  <2>1. \A i \in 1..Len(q) : q[i] \in U
    BY <1>2, <1>3
  <2>2. q = [i \in 1..Len(q) |-> q[i]]
    BY <1>1
  <2> QED
    BY <1>2, <1>3, <2>1, <2>2
<1> HIDE DEF S
<1>5. PICK r : r = Append(q, x)
  OBVIOUS
<1>6. /\ r \in Seq(U) /\ Len(r) = Len(q) + 1
      /\ \A i \in 1..Len(q) : r[i] = q[i]
      /\ r[Len(q) + 1] = x
  BY <1>4, <1>5
<1>7. DOMAIN r = 1..(Len(q) + 1) /\ r # <<>>
  BY <1>2, <1>6
<1>8. IsSeq(r)
  BY <1>6, SeqOfAny
<1> QED
  BY <1>2, <1>5, <1>6, <1>7, <1>8, Zenon

\* and after its head is taken off.
LEMMA SeqTail ==
  ASSUME NEW q, IsSeq(q), q # <<>>
  PROVE  /\ Len(q) \in Nat /\ Len(q) > 0 /\ DOMAIN q = 1..Len(q) /\ Head(q) = q[1]
         /\ IsSeq(Tail(q)) /\ Len(Tail(q)) = Len(q) - 1 /\ DOMAIN Tail(q) = 1..(Len(q) - 1)
         /\ \A i \in 1..(Len(q) - 1) : Tail(q)[i] = q[i + 1]
<1> DEFINE S == {q[i] : i \in DOMAIN q}
<1>1. q \in Seq(S)
  BY DEF IsSeq
<1> HIDE DEF S
<1>2. Len(q) \in Nat /\ DOMAIN q = 1..Len(q) /\ Len(q) > 0 /\ Head(q) = q[1]
  BY <1>1
<1>3. PICK r : r = Tail(q)
  OBVIOUS
<1>4. PICK n \in Nat : n = Len(q) - 1
  <2>1. PICK l \in Nat : l = Len(q) /\ l > 0
    BY <1>2
  <2>2. l - 1 \in Nat
    BY <2>1
  <2> QED
    BY <2>1, <2>2
<1>5. r \in Seq(S) /\ Len(r) = n /\ \A i \in 1..n : r[i] = q[i + 1]
  BY <1>1, <1>2, <1>3, <1>4
<1>6. r = [i \in 1..n |-> r[i]] /\ DOMAIN r = 1..n
  BY <1>5
<1>7. IsSeq(r)
  BY <1>5, SeqOfAny
<1> QED
  BY <1>2, <1>3, <1>4, <1>5, <1>6, <1>7

\* The fragments of a frame tell which frame it is and how many there are.
LEMMA PiecesInjective ==
  ASSUME NEW id, NEW n \in Nat, NEW jd, NEW m \in Nat, Pieces(id, n) = Pieces(jd, m)
  PROVE  n = m /\ (n > 0 => id = jd)
<1>1. PICK p : p = Pieces(id, n) /\ p = Pieces(jd, m)
  OBVIOUS
<1>2. DOMAIN p = 1..n /\ DOMAIN p = 1..m
  BY <1>1 DEF Pieces
<1>3. Len(p) = n /\ Len(p) = m
  BY <1>1 DEF Pieces
<1>4. ASSUME n > 0 PROVE id = jd
  <2>1. 1 \in 1..n /\ 1 \in 1..m
    BY <1>3, <1>4
  <2>2. p[1] = [id |-> id, num |-> 0] /\ p[1] = [id |-> jd, num |-> 0]
    BY <1>1, <2>1 DEF Pieces
  <2>3. p[1].id = id /\ p[1].id = jd
    BY <2>2
  <2> QED
    BY <2>3
<1> QED
  BY <1>3, <1>4

\* Collecting the next fragment.
LEMMA PiecesAppend ==
  ASSUME NEW id, NEW n \in Nat
  PROVE  /\ Append(Pieces(id, n), [id |-> id, num |-> n]) = Pieces(id, n + 1)
         /\ Len(Pieces(id, n)) = n
         /\ Pieces(id, 0) = <<>>
         /\ n > 0 => Pieces(id, n)[1].id = id
<1> DEFINE x == [id |-> id, num |-> n]
           U == {[id |-> id, num |-> k] : k \in 0..n}
<1>1. PICK q : q = Pieces(id, n)
  OBVIOUS
<1>2. \A k \in 1..n : [id |-> id, num |-> k - 1] \in U
  <2>1. \A k \in 1..n : k - 1 \in 0..n
    OBVIOUS
  <2> QED
    BY <2>1
<1>3. x \in U
  OBVIOUS
<1>4. q = [k \in 1..n |-> [id |-> id, num |-> k - 1]]
  BY <1>1 DEF Pieces
<1> HIDE DEF U
<1>5. q \in Seq(U) /\ Len(q) = n
  BY <1>2, <1>4
<1>6. PICK y \in U : y = x
  BY <1>3
<1>7. Append(q, y) = [k \in 1..(n + 1) |-> IF k <= n THEN q[k] ELSE y]
  <2>1. PICK r : r = Append(q, y)
    BY ZenonT(90)
  <2>2. r \in Seq(U) /\ Len(r) = n + 1 /\ (\A k \in 1..n : r[k] = q[k]) /\ r[n + 1] = y
    BY <1>5, <2>1
  <2>3. r = [k \in 1..(n + 1) |-> r[k]]
    BY <2>2
  <2>4. \A k \in 1..(n + 1) : r[k] = IF k <= n THEN q[k] ELSE y
    BY <2>2
  <2>5. [k \in 1..(n + 1) |-> r[k]] = [k \in 1..(n + 1) |-> IF k <= n THEN q[k] ELSE y]
    BY <2>4
  <2> QED
    BY <2>1, <2>3, <2>5, Zenon
<1>8. ASSUME NEW k \in 1..(n + 1)
      PROVE  (IF k <= n THEN q[k] ELSE y) = [id |-> id, num |-> k - 1]
  <2>1. CASE k <= n
    <3>1. k \in 1..n
      BY <2>1
    <3> QED
      BY <1>4, <2>1, <3>1
  <2>2. CASE ~ (k <= n)
    <3>1. k - 1 = n
      BY <2>2
    <3> QED
      BY <1>6, <2>2, <3>1
  <2> QED
    BY <2>1, <2>2
<1>9. Append(q, y) = Pieces(id, n + 1)
  BY <1>7, <1>8 DEF Pieces
<1>10. Pieces(id, 0) = <<>>
  BY DEF Pieces
<1>11. ASSUME n > 0 PROVE q[1].id = id
  <2>1. 1 \in 1..n
    BY <1>11
  <2>2. q[1] = [id |-> id, num |-> 1 - 1]
    BY <1>4, <2>1
  <2> QED
    BY <2>2
<1> QED
  BY <1>1, <1>5, <1>6, <1>9, <1>10, <1>11

-----------------------------------------------------------------------------
(* Whole frames.                                                           *)

\* Where the fragments are after a message is added to the wire,
LEMMA WireAppend ==
  ASSUME IsSeq(net), NEW m, net' = Append(net, m)
  PROVE  /\ IsSeq(net') /\ Len(net) \in Nat /\ Len(net') = Len(net) + 1
         /\ Fragments \subseteq 1..Len(net)
         /\ \A i \in Fragments : i \in Fragments' /\ net'[i] = net[i]
         /\ \A i \in Fragments' : i \in Fragments \/ (i = Len(net) + 1 /\ m.type = "fragment")
         /\ m.type = "fragment" => Len(net) + 1 \in Fragments'
         /\ net'[Len(net) + 1] = m
<1>1. /\ Len(net) \in Nat /\ DOMAIN net = 1..Len(net)
      /\ IsSeq(net') /\ Len(net') = Len(net) + 1
      /\ DOMAIN net' = 1..(Len(net) + 1)
      /\ \A i \in 1..Len(net) : net'[i] = net[i]
      /\ net'[Len(net) + 1] = m
  BY SMTT(60), SeqAppend
<1>2. PICK n \in Nat : n = Len(net)
  BY <1>1
<1>3. \A i \in 1..(n + 1) : i \in 1..n \/ i = n + 1
  OBVIOUS
<1>4. n + 1 \in 1..(n + 1) /\ \A i \in 1..n : i \in 1..(n + 1)
  OBVIOUS
<1> QED
  BY <1>1, <1>2, <1>3, <1>4 DEF Fragments

\* and after one is taken off it.
LEMMA WireTail ==
  ASSUME IsSeq(net), net # <<>>, net' = Tail(net)
  PROVE  /\ IsSeq(net') /\ Len(net) \in Nat /\ Len(net') = Len(net) - 1 /\ Len(net) > 0
         /\ Head(net) = net[1]
         /\ Fragments \subseteq 1..Len(net) /\ Fragments' \subseteq 1..(Len(net) - 1)
         /\ Head(net).type = "fragment" => 1 \in Fragments
         /\ \A i \in Fragments' : i + 1 \in Fragments /\ net'[i] = net[i + 1]
         /\ \A i \in Fragments : \/ i = 1 /\ Head(net).type = "fragment"
                                 \/ i - 1 \in Fragments' /\ net'[i - 1] = net[i]
<1>1. /\ Len(net) \in Nat /\ Len(net) > 0 /\ DOMAIN net = 1..Len(net) /\ Head(net) = net[1]
      /\ IsSeq(net') /\ Len(net') = Len(net) - 1 /\ DOMAIN net' = 1..(Len(net) - 1)
      /\ \A i \in 1..(Len(net) - 1) : net'[i] = net[i + 1]
  BY SMTT(60), SeqTail
<1>2. PICK n \in Nat : n = Len(net) /\ n > 0
  BY <1>1
<1>3. 1 \in 1..n /\ \A i \in 1..(n - 1) : i + 1 \in 1..n
  BY <1>2
<1>4. \A i \in 1..n : i = 1 \/ (i - 1 \in 1..(n - 1) /\ (i - 1) + 1 = i)
  OBVIOUS
<1> QED
  BY SMTT(60), <1>1, <1>2, <1>3, <1>4 DEF Fragments

\* A step that does not touch the stream.
LEMMA StreamKept ==
  ASSUME StreamInv, UNCHANGED <<net, frames, sending, frame, handed>>, Active' => Active
  PROVE  StreamInv'
  BY DEF StreamInv, FramesOK, FragmentsSent, Forward, HandedWhole, NoGap, NoGapAhead, Collected,
         Collects, Precedes, Fragments, Parts, Pieces

\* Another message on the wire.
LEMMA StreamPut ==
  ASSUME StreamInv, NEW m, m.type # "fragment", net' = Append(net, m),
         UNCHANGED <<frames, sending, frame, handed>>, Active' => Active
  PROVE  StreamInv'
<1>1. /\ IsSeq(net') /\ Len(net) \in Nat /\ Len(net') = Len(net) + 1
      /\ Fragments \subseteq 1..Len(net)
      /\ \A i \in Fragments : i \in Fragments' /\ net'[i] = net[i]
      /\ \A i \in Fragments' : i \in Fragments
  BY WireAppend DEF StreamInv, FramesOK
<1>2. FramesOK' /\ HandedWhole'
  BY <1>1 DEF StreamInv, FramesOK, HandedWhole, Parts, Pieces
<1>3. FragmentsSent'
  BY <1>1 DEF StreamInv, FragmentsSent, Parts
<1>4. Forward'
  <2>1. SUFFICES ASSUME NEW i \in Fragments', NEW j \in Fragments', i < j
                 PROVE  \/ net'[i].id < net'[j].id
                        \/ net'[i].id = net'[j].id /\ net'[i].num < net'[j].num
    BY Zenon DEF Forward
  <2>2. i \in Fragments /\ j \in Fragments /\ net'[i] = net[i] /\ net'[j] = net[j]
    BY <1>1
  <2> QED
    BY <2>1, <2>2 DEF StreamInv, Forward
<1>5. ASSUME Active' PROVE NoGap' /\ NoGapAhead' /\ Collected'
  <2>1. NoGap /\ NoGapAhead /\ Collected
    BY <1>5 DEF StreamInv
  <2>2. NoGap'
    <3>1. SUFFICES ASSUME NEW j \in Fragments', net'[j].num > 0
                   PROVE  \/ frame = Pieces(net'[j].id, net'[j].num)
                          \/ \E i \in Fragments' : /\ i < j /\ net'[i].id = net'[j].id
                                                   /\ net'[i].num + 1 = net'[j].num
      BY DEF NoGap, Precedes
    <3>2. j \in Fragments /\ net'[j] = net[j]
      BY <1>1
    <3>3. Precedes(net[j].id, net[j].num, j)
      BY <2>1, <3>1, <3>2 DEF NoGap
    <3> QED
      BY <1>1, <3>2, <3>3 DEF Precedes
  <2>3. NoGapAhead'
    <3>1. SUFFICES ASSUME frames # <<>>, sending \in 1..(Parts(Len(frames)) - 1)
                   PROVE  Precedes(Len(frames), sending, Len(net) + 1)'
      BY <1>1 DEF NoGapAhead, Parts, Precedes, Pieces
    <3>2. Precedes(Len(frames), sending, Len(net) + 1)
      BY <2>1, <3>1 DEF NoGapAhead
    <3> QED
      BY <1>1, <3>2 DEF Precedes, Pieces
  <2>4. Collected'
    <3>1. CASE frame = <<>>
      BY <3>1 DEF Collected
    <3>2. CASE frame # <<>>
      <4>1. PICK id \in 1..Len(frames), n \in Nat : Collects(id, n)
        BY <2>1, <3>2 DEF Collected
      <4>2. Collects(id, n)'
        BY <1>1, <4>1 DEF Collects, Parts
      <4> QED
        BY <4>2, Zenon DEF Collected
    <3> QED
      BY <3>1, <3>2
  <2> QED
    BY <2>2, <2>3, <2>4
<1> QED
  BY <1>2, <1>3, <1>4, <1>5 DEF StreamInv

\* What is left on the wire when a message is taken off is still in order.
LEMMA StreamTail ==
  ASSUME StreamInv, net # <<>>, net' = Tail(net), UNCHANGED <<frames, sending>>
  PROVE  FramesOK' /\ FragmentsSent' /\ Forward'
<1>1. /\ IsSeq(net') /\ Len(net) \in Nat /\ Fragments' \subseteq 1..(Len(net) - 1)
      /\ \A i \in Fragments' : i + 1 \in Fragments /\ net'[i] = net[i + 1]
  BY WireTail DEF StreamInv, FramesOK
<1>2. FramesOK'
  BY <1>1 DEF StreamInv, FramesOK, Parts
<1>3. FragmentsSent'
  BY <1>1 DEF StreamInv, FragmentsSent, Parts
<1>4. Forward'
  <2>1. SUFFICES ASSUME NEW i \in Fragments', NEW j \in Fragments', i < j
                 PROVE  \/ net'[i].id < net'[j].id
                        \/ net'[i].id = net'[j].id /\ net'[i].num < net'[j].num
    BY Zenon DEF Forward
  <2>2. /\ i + 1 \in Fragments /\ j + 1 \in Fragments /\ i + 1 < j + 1
        /\ net'[i] = net[i + 1] /\ net'[j] = net[j + 1]
    BY <1>1, <2>1
  <2> QED
    BY <2>2, Zenon DEF StreamInv, Forward
<1> QED
  BY <1>2, <1>3, <1>4

\* Skipping a message that is no fragment.
LEMMA StreamSkip ==
  ASSUME StreamInv, net # <<>>, Head(net).type # "fragment", net' = Tail(net),
         UNCHANGED <<frames, sending, frame, handed>>, Active' => Active
  PROVE  StreamInv'
<1>1. FramesOK' /\ FragmentsSent' /\ Forward'
  BY StreamTail
<1>2. /\ Len(net) \in Nat /\ Len(net') = Len(net) - 1
      /\ Fragments \subseteq 1..Len(net) /\ Fragments' \subseteq 1..(Len(net) - 1)
      /\ \A i \in Fragments' : i + 1 \in Fragments /\ net'[i] = net[i + 1]
      /\ \A i \in Fragments : i - 1 \in Fragments' /\ net'[i - 1] = net[i]
  BY WireTail DEF StreamInv, FramesOK
<1>3. HandedWhole'
  BY DEF StreamInv, HandedWhole, Parts
<1> DEFINE Left(id, n, j) ==
             \E i \in Fragments' : i < j /\ net'[i].id = id /\ net'[i].num + 1 = n
<1>4. ASSUME NEW id, NEW n, NEW j, j \in Nat, Precedes(id, n, j + 1)
      PROVE  frame = Pieces(id, n) \/ Left(id, n, j)
  <2>1. ASSUME NEW i \in Fragments, i < j + 1, net[i].id = id, net[i].num + 1 = n
        PROVE  \E k \in Fragments' : k < j /\ net'[k].id = id /\ net'[k].num + 1 = n
    <3>1. i - 1 \in Fragments' /\ net'[i - 1] = net[i] /\ i \in 1..Len(net)
      BY <1>2
    <3>2. i - 1 < j
      BY <1>2, <1>4, <2>1, <3>1
    <3> QED
      BY <2>1, <3>1, <3>2
  <2> QED
    BY <1>4, <2>1 DEF Precedes
<1>5. ASSUME Active' PROVE NoGap' /\ NoGapAhead' /\ Collected'
  <2>1. NoGap /\ NoGapAhead /\ Collected
    BY <1>5 DEF StreamInv
  <2>2. NoGap'
    <3>1. SUFFICES ASSUME NEW j \in Fragments', net'[j].num > 0
                   PROVE  frame = Pieces(net'[j].id, net'[j].num)
                          \/ Left(net'[j].id, net'[j].num, j)
      BY DEF NoGap, Precedes
    <3>2. j \in Nat /\ j + 1 \in Fragments /\ net'[j] = net[j + 1]
      BY <1>2
    <3>3. PICK id, n : id = net'[j].id /\ n = net'[j].num
      OBVIOUS
    <3>4. Precedes(id, n, j + 1)
      BY <2>1, <3>1, <3>2, <3>3 DEF NoGap
    <3> HIDE DEF Left
    <3>5. frame = Pieces(id, n) \/ Left(id, n, j)
      BY <1>4, <3>2, <3>4, Zenon
    <3> QED
      BY <3>3, <3>5, Zenon
  <2>3. NoGapAhead'
    <3>1. SUFFICES ASSUME frames # <<>>, sending \in 1..(Parts(Len(frames)) - 1)
                   PROVE  frame = Pieces(Len(frames), sending)
                          \/ Left(Len(frames), sending, Len(net') + 1)
      BY DEF NoGapAhead, Precedes, Parts
    <3>2. Precedes(Len(frames), sending, Len(net) + 1)
      BY SMTT(60), <2>1, <3>1 DEF NoGapAhead
    <3>3. PICK l \in Nat : l = Len(net)
      BY <1>2
    <3> HIDE DEF Left
    <3>4. frame = Pieces(Len(frames), sending) \/ Left(Len(frames), sending, l)
      BY <1>4, <3>2, <3>3, Zenon
    <3>5. Len(net') + 1 = l
      BY <1>2, <3>3
    <3> QED
      BY <3>4, <3>5, Zenon
  <2>4. Collected'
    <3>1. CASE frame = <<>>
      BY <3>1 DEF Collected
    <3>2. CASE frame # <<>>
      <4>1. PICK id \in 1..Len(frames), n \in Nat : Collects(id, n)
        BY <2>1, <3>2 DEF Collected
      <4>2. Collects(id, n)'
        BY <1>2, <4>1 DEF Collects, Parts
      <4> QED
        BY <4>2, Zenon DEF Collected
    <3> QED
      BY <3>1, <3>2
  <2> QED
    BY <2>2, <2>3, <2>4
<1> QED
  BY <1>1, <1>3, <1>5 DEF StreamInv

\* The card starts another frame, whether the one before is finished or not.
LEMMA StreamNewFrame ==
  ASSUME StreamInv, NEW f, f.mode \in Modes, f.parts \in Nat \ {0},
         frames' = Append(frames, f), sending' = 0,
         UNCHANGED <<net, frame, handed, reading>>
  PROVE  StreamInv'
<1>1. /\ IsSeq(frames') /\ Len(frames) \in Nat /\ Len(frames') = Len(frames) + 1
      /\ \A i \in 1..Len(frames) : frames'[i] = frames[i]
      /\ frames'[Len(frames) + 1] = f /\ frames' # <<>>
  BY SeqAppend DEF StreamInv, FramesOK
<1>2. PICK l \in Nat : l = Len(frames)
  BY <1>1
<1>3. \A i \in 1..l : i \in 1..(l + 1) /\ i # l + 1
  OBVIOUS
<1>4. \A i \in 1..(l + 1) : i \in 1..l \/ i = l + 1
  OBVIOUS
<1>5. FramesOK'
  BY <1>1, <1>2, <1>4 DEF StreamInv, FramesOK, Parts
<1>6. Fragments' = Fragments /\ \A i \in Fragments : net[i].id \in 1..l
  BY <1>2 DEF StreamInv, FragmentsSent, Fragments
<1>7. FragmentsSent'
  BY <1>1, <1>2, <1>3, <1>6 DEF StreamInv, FragmentsSent, Parts
<1>8. Forward'
  BY <1>6 DEF StreamInv, Forward
<1>9. HandedWhole'
  BY <1>1, <1>2, <1>3 DEF StreamInv, HandedWhole, Parts
<1>10. ASSUME Active' PROVE NoGap' /\ NoGapAhead' /\ Collected'
  <2>1. NoGap /\ NoGapAhead /\ Collected
    BY <1>10 DEF StreamInv, Active
  <2>2. NoGap'
    BY <1>6, <2>1 DEF NoGap, Precedes
  <2>3. NoGapAhead'
    BY DEF NoGapAhead
  <2>4. Collected'
    <3>1. CASE frame = <<>>
      BY <3>1 DEF Collected
    <3>2. CASE frame # <<>>
      <4>1. PICK id \in 1..Len(frames), n \in Nat : Collects(id, n)
        BY <2>1, <3>2 DEF Collected
      <4>2. Collects(id, n)'
        BY <1>1, <1>2, <1>3, <1>6, <4>1 DEF Collects, Parts
      <4>3. id \in 1..Len(frames')
        BY <1>1, <1>2, <1>3
      <4> QED
        BY <4>2, <4>3, Zenon DEF Collected
    <3> QED
      BY <3>1, <3>2
  <2> QED
    BY <2>2, <2>3, <2>4
<1> QED
  BY <1>5, <1>7, <1>8, <1>9, <1>10 DEF StreamInv

\* The card sends the next fragment.
LEMMA StreamSends == StreamInv /\ CardSends => StreamInv'
<1> SUFFICES ASSUME StreamInv, CardSends PROVE StreamInv'
  OBVIOUS
<1>1. PICK l \in Nat, s \in Nat, p \in Nat :
        /\ l = Len(frames) /\ s = sending /\ p = Parts(l) /\ l \in 1..l /\ s < p
        /\ frames # <<>>
  <2>1. Len(frames) \in Nat /\ (frames # <<>> => Len(frames) > 0)
    BY SeqTail, SeqAppend DEF StreamInv, FramesOK
  <2>2. frames # <<>> /\ sending \in Nat /\ sending < Parts(Len(frames))
    BY DEF CardSends, Latest, Parts, StreamInv, FramesOK
  <2>3. Len(frames) \in 1..Len(frames)
    BY <2>1, <2>2
  <2>4. Parts(Len(frames)) \in Nat
    BY <2>3 DEF StreamInv, FramesOK
  <2> QED
    BY <2>1, <2>2, <2>3, <2>4
<1>2. PICK m : m = [type |-> "fragment", id |-> l, num |-> s, last |-> s + 1 = p]
  OBVIOUS
<1>3. /\ m.type = "fragment" /\ m.id = l /\ m.num = s /\ (m.last <=> s + 1 = p)
  BY <1>2
<1>4. /\ net' = Append(net, m) /\ sending' = s + 1
      /\ UNCHANGED <<frames, frame, handed, reading>>
  BY <1>1, <1>2 DEF CardSends, Put, Latest, Parts, loopVars
<1>5. PICK n \in Nat : n = Len(net)
  BY WireAppend, <1>4 DEF StreamInv, FramesOK
<1>6. /\ IsSeq(net') /\ Len(net') = n + 1
      /\ Fragments \subseteq 1..n
      /\ \A i \in Fragments : i \in Fragments' /\ net'[i] = net[i]
      /\ \A i \in Fragments' : i \in Fragments \/ i = n + 1
      /\ n + 1 \in Fragments'
      /\ net'[n + 1] = m
  BY WireAppend, <1>3, <1>4, <1>5 DEF StreamInv, FramesOK
<1>7. FramesOK' /\ HandedWhole'
  BY <1>1, <1>4, <1>6 DEF StreamInv, FramesOK, HandedWhole, Parts
<1>8. FragmentsSent'
  <2>1. ASSUME NEW i \in Fragments'
        PROVE  /\ net'[i].id \in 1..l /\ net'[i].num \in Nat
               /\ net'[i].num < Parts(net'[i].id)
               /\ net'[i].last <=> net'[i].num + 1 = Parts(net'[i].id)
               /\ net'[i].id = l => net'[i].num < s + 1
    <3>1. CASE i \in Fragments
      <4>1. net'[i] = net[i] /\ (net[i].id = l => net[i].num < s) /\ net[i].num \in Nat
        BY <1>1, <1>6, <3>1 DEF StreamInv, FragmentsSent
      <4> QED
        BY <1>1, <3>1, <4>1 DEF StreamInv, FragmentsSent
    <3>2. CASE i = n + 1
      BY <1>1, <1>3, <1>6, <3>2
    <3> QED
      BY <1>6, <3>1, <3>2
  <2> QED
    BY <1>1, <1>4, <2>1 DEF FragmentsSent, Parts
<1>9. Forward'
  <2>1. SUFFICES ASSUME NEW i \in Fragments', NEW j \in Fragments', i < j
                 PROVE  \/ net'[i].id < net'[j].id
                        \/ net'[i].id = net'[j].id /\ net'[i].num < net'[j].num
    BY Zenon DEF Forward
  <2>2. i \in Fragments
    <3>1. CASE j \in Fragments
      BY <1>6, <2>1, <3>1
    <3>2. CASE j = n + 1
      BY <1>6, <2>1, <3>2
    <3> QED
      BY <1>6, <3>1, <3>2
  <2>3. net'[i] = net[i]
    BY <1>6, <2>2
  <2>4. CASE j \in Fragments
    BY <1>6, <2>1, <2>2, <2>3, <2>4 DEF StreamInv, Forward
  <2>5. CASE j = n + 1
    <3>1. net[i].id \in 1..l /\ (net[i].id = l => net[i].num < s)
      BY <1>1, <2>2 DEF StreamInv, FragmentsSent
    <3> QED
      BY <1>3, <1>6, <2>3, <2>5, <3>1
  <2> QED
    BY <1>6, <2>4, <2>5
<1>10. ASSUME Active' PROVE NoGap' /\ NoGapAhead' /\ Collected'
  <2>1. NoGap /\ NoGapAhead /\ Collected
    BY <1>4, <1>10 DEF StreamInv, Active
  <2>2. NoGap'
    <3>1. SUFFICES ASSUME NEW j \in Fragments', net'[j].num > 0
                   PROVE  \/ frame = Pieces(net'[j].id, net'[j].num)
                          \/ \E i \in Fragments' : /\ i < j /\ net'[i].id = net'[j].id
                                                   /\ net'[i].num + 1 = net'[j].num
      BY <1>4 DEF NoGap, Precedes
    <3>2. CASE j \in Fragments
      <4>1. net'[j] = net[j] /\ Precedes(net[j].id, net[j].num, j)
        BY <1>6, <2>1, <3>1, <3>2 DEF NoGap
      <4> QED
        BY <1>6, <4>1 DEF Precedes
    <3>3. CASE j = n + 1
      <4>1. net'[j] = m /\ s > 0 /\ s \in 1..(p - 1)
        BY <1>1, <1>3, <1>6, <3>1, <3>3
      <4>2. Precedes(l, s, n + 1)
        BY <1>1, <1>5, <2>1, <4>1 DEF NoGapAhead
      <4> QED
        BY <1>3, <1>6, <3>3, <4>1, <4>2 DEF Precedes
    <3> QED
      BY <1>6, <3>2, <3>3
  <2>3. NoGapAhead'
    <3>1. n + 1 \in Fragments' /\ n + 1 < Len(net') + 1
          /\ net'[n + 1].id = Len(frames') /\ net'[n + 1].num + 1 = sending'
      BY <1>1, <1>3, <1>4, <1>6
    <3> QED
      BY <3>1 DEF NoGapAhead, Precedes
  <2>4. Collected'
    <3>1. CASE frame = <<>>
      BY <1>4, <3>1 DEF Collected
    <3>2. CASE frame # <<>>
      <4>1. PICK id \in 1..Len(frames), k \in Nat : Collects(id, k)
        BY <2>1, <3>2 DEF Collected
      <4>2. /\ id \in 1..l /\ k \in Nat \ {0} /\ k < Parts(id) /\ frame = Pieces(id, k)
            /\ id = l => k <= s
            /\ \A i \in Fragments : id < net[i].id \/ (id = net[i].id /\ k <= net[i].num)
        BY <1>1, <4>1 DEF Collects
      <4>3. id = l => k <= s + 1
        BY <4>2
      <4>4. ASSUME NEW i \in Fragments'
            PROVE  id < net'[i].id \/ (id = net'[i].id /\ k <= net'[i].num)
        <5>1. CASE i \in Fragments
          BY <1>6, <4>2, <5>1
        <5>2. CASE i = n + 1
          BY <1>3, <1>6, <4>2, <5>2
        <5> QED
          BY <1>6, <5>1, <5>2
      <4>5. Collects(id, k)'
        BY <1>1, <1>4, <4>2, <4>3, <4>4 DEF Collects, Parts
      <4> QED
        BY <1>4, <4>5, Zenon DEF Collected
    <3> QED
      BY <3>1, <3>2
  <2> QED
    BY <2>2, <2>3, <2>4
<1> QED
  BY <1>7, <1>8, <1>9, <1>10 DEF StreamInv

\* What readLoop has collected when a fragment arrives is what precedes it in its frame.
LEMMA ReadBefore ==
  ASSUME StreamInv, Active, net # <<>>, Head(net).type = "fragment", NEW m, m = Head(net)
  PROVE  /\ m.id \in 1..Len(frames) /\ m.num \in Nat
         /\ Before(m) = Pieces(m.id, m.num)
         /\ Append(Before(m), [id |-> m.id, num |-> m.num]) = Pieces(m.id, m.num + 1)
<1>1. 1 \in DOMAIN net /\ Head(net) = net[1]
  <2>1. Len(net) \in Nat /\ Len(net) > 0 /\ DOMAIN net = 1..Len(net) /\ Head(net) = net[1]
    BY SeqTail DEF StreamInv, FramesOK
  <2>2. PICK n \in Nat : n = Len(net) /\ n > 0
    BY <2>1
  <2>3. 1 \in 1..n
    BY <2>2
  <2> QED
    BY <2>1, <2>2, <2>3
<1>2. 1 \in Fragments /\ m = net[1]
  BY <1>1 DEF Fragments
<1>3. \A i \in Fragments : i \in Nat
  <2>1. DOMAIN net = 1..Len(net) /\ Len(net) \in Nat
    BY SeqTail DEF StreamInv, FramesOK
  <2> QED
    BY <2>1 DEF Fragments
<1>4. m.id \in 1..Len(frames) /\ m.num \in Nat
  BY <1>2 DEF StreamInv, FragmentsSent
<1>5. PICK id, k \in Nat : id = m.id /\ k = m.num
  BY <1>4
<1>6. Before(m) = Pieces(id, k)
  <2>1. CASE k = 0
    BY <1>5, <2>1, PiecesAppend DEF Before
  <2>2. CASE k # 0
    <3>1. Precedes(m.id, m.num, 1)
      BY <1>2, <1>5, <2>2 DEF StreamInv, NoGap
    <3>2. frame = Pieces(m.id, m.num)
      <4>1. ~ \E i \in Fragments : i < 1
        <5>1. \A i \in Fragments : i >= 1
          <6>1. DOMAIN net = 1..Len(net) /\ Len(net) \in Nat
            BY SeqTail DEF StreamInv, FramesOK
          <6> QED
            BY <6>1 DEF Fragments
        <5> QED
          BY <1>3, <5>1
      <4> QED
        BY <3>1, <4>1 DEF Precedes
    <3> QED
      BY <1>5, <2>2, <3>2 DEF Before
  <2> QED
    BY <2>1, <2>2
<1> QED
  BY SMTT(60), <1>4, <1>5, <1>6, PiecesAppend

\* readLoop takes a fragment: what it has collected are the fragments before it, and a last
\* one makes the frame whole.
LEMMA StreamRead == StreamInv /\ ReadFragment => StreamInv'
<1> SUFFICES ASSUME StreamInv, ReadFragment PROVE StreamInv'
  OBVIOUS
<1>1. /\ net # <<>> /\ Head(net).type = "fragment" /\ net' = Tail(net)
      /\ UNCHANGED <<frames, sending>> /\ reading = "reading"
  BY DEF ReadFragment, Arrives, cardVars
<1>2. FramesOK' /\ FragmentsSent' /\ Forward'
  BY <1>1, StreamTail
<1>3. /\ Len(net) \in Nat /\ Len(net') = Len(net) - 1 /\ Head(net) = net[1]
      /\ Fragments \subseteq 1..Len(net) /\ Fragments' \subseteq 1..(Len(net) - 1)
      /\ 1 \in Fragments
      /\ \A i \in Fragments' : i + 1 \in Fragments /\ net'[i] = net[i + 1]
      /\ \A i \in Fragments : i = 1 \/ (i - 1 \in Fragments' /\ net'[i - 1] = net[i])
  BY WireTail, <1>1 DEF StreamInv, FramesOK
<1>4. NoGap /\ NoGapAhead /\ Collected
  BY <1>1 DEF StreamInv, Active
<1>5. PICK m : m = Head(net) /\ m = net[1]
  BY <1>3
<1>6. PICK l \in Nat : l = Len(frames)
  BY SeqAppend DEF StreamInv, FramesOK
<1>7. PICK id \in 1..l, k \in Nat :
        /\ id = m.id /\ k = m.num /\ k < Parts(id) /\ (m.last <=> k + 1 = Parts(id))
        /\ id = l => k < sending
  BY <1>3, <1>5, <1>6 DEF StreamInv, FragmentsSent
<1>8. Parts(id) \in Nat /\ sending \in Nat
  BY <1>6 DEF StreamInv, FramesOK
<1>9. Before(m) = Pieces(id, k)
  BY <1>1, <1>5, <1>7, ReadBefore DEF Active
<1>10. PICK all : all = Append(Before(m), [id |-> m.id, num |-> m.num]) /\ all = Pieces(id, k + 1)
  BY <1>7, <1>9, PiecesAppend
<1>11. \/ reading' = "reporting" /\ handed' = handed
       \/ m.last /\ frame' = <<>> /\ handed' = all
       \/ ~ m.last /\ frame' = all /\ handed' = handed /\ reading' = reading
  BY <1>5, <1>10 DEF ReadFragment, BeginDecode
<1>12. HandedWhole'
  <2>1. CASE handed' = handed
    BY <1>1, <2>1 DEF StreamInv, HandedWhole, Parts
  <2>2. CASE m.last /\ handed' = all
    BY <1>1, <1>6, <1>7, <1>10, <2>2 DEF HandedWhole, Parts
  <2> QED
    BY <1>11, <2>1, <2>2
<1>13. ASSUME Active' PROVE NoGap' /\ NoGapAhead' /\ Collected'
  <2> DEFINE Left(jd, n, j) ==
               \E i \in Fragments' : i < j /\ net'[i].id = jd /\ net'[i].num + 1 = n
  <2>1. \/ m.last /\ frame' = <<>>
        \/ ~ m.last /\ frame' = Pieces(id, k + 1)
    BY <1>10, <1>11, <1>13 DEF Active
  <2>2. ASSUME NEW jd, jd \in Nat, NEW n, n \in Nat \ {0}, n < Parts(jd), NEW j, j \in Nat,
               id < jd \/ (id = jd /\ k < n), Precedes(jd, n, j + 1)
        PROVE  frame' = Pieces(jd, n) \/ Left(jd, n, j)
    <3>1. CASE frame = Pieces(jd, n)
      <4>1. frame # <<>>
        <5>1. Len(frame) = n
          BY <2>2, <3>1, PiecesAppend
        <5> QED
          BY <2>2, <5>1
      <4>2. PICK id0 \in 1..Len(frames), n0 \in Nat : Collects(id0, n0)
        BY <1>4, <4>1 DEF Collected
      <4>3. /\ frame = Pieces(id0, n0) /\ n0 > 0
            /\ id0 < m.id \/ (id0 = m.id /\ n0 <= m.num)
        BY <1>3, <1>5, <4>2 DEF Collects
      <4>4. PICK n1 \in Nat : n1 = n /\ n1 > 0
        BY <2>2
      <4>5. Pieces(id0, n0) = Pieces(jd, n1)
        BY <3>1, <4>3, <4>4
      <4>6. n0 = n1 /\ id0 = jd
        BY <4>3, <4>4, <4>5, PiecesInjective
      <4> QED
        BY <1>7, <2>2, <4>3, <4>4, <4>6
    <3>2. ASSUME NEW i \in Fragments, i < j + 1, net[i].id = jd, net[i].num + 1 = n
          PROVE  frame' = Pieces(jd, n) \/ Left(jd, n, j)
      <4>1. CASE i = 1
        <5>1. id = jd /\ k + 1 = n
          BY <1>5, <1>7, <3>2, <4>1
        <5>2. ~ m.last
          BY <1>7, <1>8, <2>2, <5>1
        <5> QED
          BY <2>1, <5>1, <5>2
      <4>2. CASE i # 1
        <5>1. i - 1 \in Fragments' /\ net'[i - 1] = net[i] /\ i \in 1..Len(net)
          BY <1>3, <4>2
        <5>2. i - 1 < j
          BY <1>3, <2>2, <3>2, <5>1
        <5> QED
          BY <3>2, <5>1, <5>2
      <4> QED
        BY <4>1, <4>2
    <3> HIDE DEF Left
    <3> QED
      BY <2>2, <3>1, <3>2, Zenon DEF Precedes
  <2>3. ASSUME NEW i \in Fragments'
        PROVE  /\ id < net'[i].id \/ (id = net'[i].id /\ k < net'[i].num)
               /\ net'[i].id \in Nat /\ net'[i].num \in Nat
               /\ net'[i].num < Parts(net'[i].id)
    <3>1. i + 1 \in Fragments /\ net'[i] = net[i + 1] /\ 1 < i + 1
      BY <1>3
    <3>2. net[1].id < net[i + 1].id \/ (net[1].id = net[i + 1].id /\ net[1].num < net[i + 1].num)
      BY <1>3, <3>1, Zenon DEF StreamInv, Forward
    <3>3. /\ net[i + 1].id \in Nat /\ net[i + 1].num \in Nat
          /\ net[i + 1].num < Parts(net[i + 1].id)
      BY <1>6, <3>1 DEF StreamInv, FragmentsSent
    <3> QED
      BY <1>5, <1>7, <3>1, <3>2, <3>3
  <2>4. NoGap'
    <3>1. SUFFICES ASSUME NEW j \in Fragments', net'[j].num > 0
                   PROVE  frame' = Pieces(net'[j].id, net'[j].num)
                          \/ Left(net'[j].id, net'[j].num, j)
      BY DEF NoGap, Precedes
    <3>2. j \in Nat /\ j + 1 \in Fragments /\ net'[j] = net[j + 1]
      BY <1>3
    <3>3. PICK jd, n : jd = net'[j].id /\ n = net'[j].num
      OBVIOUS
    <3>4. Precedes(jd, n, j + 1)
      BY <1>4, <3>1, <3>2, <3>3 DEF NoGap
    <3>5. /\ jd \in Nat /\ n \in Nat \ {0} /\ n < Parts(jd)
          /\ id < jd \/ (id = jd /\ k < n)
      BY <2>3, <3>1, <3>3
    <3> HIDE DEF Left
    <3>6. frame' = Pieces(jd, n) \/ Left(jd, n, j)
      BY <2>2, <3>2, <3>4, <3>5, Zenon
    <3> QED
      BY <3>3, <3>6, Zenon
  <2>5. NoGapAhead'
    <3>1. SUFFICES ASSUME frames # <<>>, sending \in 1..(Parts(l) - 1)
                   PROVE  frame' = Pieces(l, sending) \/ Left(l, sending, Len(net') + 1)
      BY <1>1, <1>6 DEF NoGapAhead, Precedes, Parts
    <3>2. PICK n \in Nat, j \in Nat : n = sending /\ j = Len(net)
      BY <1>3, <1>8
    <3>3. Precedes(l, n, j + 1)
      BY <1>4, <1>6, <3>1, <3>2 DEF NoGapAhead
    <3>4. Parts(l) \in Nat
      BY <1>6, <1>7 DEF StreamInv, FramesOK
    <3>5. /\ l \in Nat /\ n \in Nat \ {0} /\ n < Parts(l)
          /\ id < l \/ (id = l /\ k < n)
      BY <1>7, <3>1, <3>2, <3>4
    <3> HIDE DEF Left
    <3>6. frame' = Pieces(l, n) \/ Left(l, n, j)
      BY <2>2, <3>2, <3>3, <3>5, Zenon
    <3>7. Len(net') + 1 = j
      BY <1>3, <3>2
    <3> QED
      BY <3>2, <3>6, <3>7, Zenon
  <2>6. Collected'
    <3>1. CASE m.last /\ frame' = <<>>
      BY <3>1 DEF Collected
    <3>2. CASE ~ m.last /\ frame' = Pieces(id, k + 1)
      <4>1. k + 1 < Parts(id) /\ k + 1 \in Nat \ {0} /\ (id = l => k + 1 <= sending)
        BY <1>7, <1>8, <3>2
      <4>2. ASSUME NEW i \in Fragments'
            PROVE  id < net'[i].id \/ (id = net'[i].id /\ k + 1 <= net'[i].num)
        BY <2>3
      <4>3. Collects(id, k + 1)'
        BY <1>1, <1>6, <3>2, <4>1, <4>2 DEF Collects, Parts
      <4>4. PICK n \in Nat : n = k + 1
        OBVIOUS
      <4>5. Collects(id, n)'
        BY <4>3, <4>4
      <4> QED
        BY <1>1, <1>6, <4>5, Zenon DEF Collected
    <3> QED
      BY <2>1, <3>1, <3>2
  <2> QED
    BY <2>4, <2>5, <2>6
<1> QED
  BY <1>2, <1>12, <1>13 DEF StreamInv

\* At first nothing has been sent.
LEMMA StreamInit == Init => VideoInv
<1> SUFFICES ASSUME Init PROVE VideoInv
  OBVIOUS
<1>1. net = <<>> /\ frames = <<>> /\ sending = 0 /\ frame = <<>> /\ handed = <<>> /\ reading = "off"
  BY DEF Init
<1>2. IsSeq(net) /\ IsSeq(frames) /\ Len(frames) = 0 /\ Fragments = {}
  BY <1>1 DEF IsSeq, Fragments
<1>3. FramesOK
  BY <1>1, <1>2 DEF FramesOK
<1>4. FragmentsSent /\ Forward /\ NoGap
  BY <1>2 DEF FragmentsSent, Forward, NoGap
<1>5. NoGapAhead /\ Collected /\ HandedWhole
  BY <1>1 DEF NoGapAhead, Collected, HandedWhole
<1> QED
  BY <1>1, <1>3, <1>4, <1>5 DEF VideoInv, StreamInv, NotStarted

\* What the card does.
LEMMA StreamCard == StreamInv /\ CardStep => StreamInv'
<1> SUFFICES ASSUME StreamInv, CardStep PROVE StreamInv'
  OBVIOUS
<1>1. CASE CardAccepts
  <2>1. PICK m : m = [type |-> "accepted"]
    OBVIOUS
  <2>2. m.type # "fragment"
    BY <2>1
  <2>3. /\ net' = Append(net, m) /\ (Active' => Active)
        /\ UNCHANGED <<frames, sending, frame, handed>>
    BY <1>1, <2>1 DEF CardAccepts, Put, loopVars, Active
  <2> QED
    BY <2>2, <2>3, StreamPut
<1>2. CASE CardTakes
  <2>1. UNCHANGED <<frames, sending, frame, handed, reading>>
    BY <1>2 DEF CardTakes, loopVars
  <2>2. CASE UNCHANGED net
    <3>1. Active' => Active
      BY <2>1 DEF Active
    <3> QED
      BY <2>1, <2>2, <3>1, StreamKept
  <2>3. CASE Put([type |-> "response", status |-> IF card = "complete" THEN 1 ELSE 3])
    <3>1. PICK m : m = [type |-> "response", status |-> IF card = "complete" THEN 1 ELSE 3]
      OBVIOUS
    <3>2. m.type # "fragment"
      BY <3>1
    <3>3. net' = Append(net, m)
      BY <2>3, <3>1 DEF Put
    <3> QED
      BY <2>1, <3>2, <3>3, StreamPut DEF Active
  <2>4. CASE Put([type |-> "stop"])
    <3>1. PICK m : m = [type |-> "stop"]
      OBVIOUS
    <3>2. m.type # "fragment"
      BY <3>1
    <3>3. net' = Append(net, m)
      BY <2>4, <3>1 DEF Put
    <3> QED
      BY <2>1, <3>2, <3>3, StreamPut DEF Active
  <2> QED
    BY <1>2, <2>2, <2>3, <2>4 DEF CardTakes
<1>3. CASE CardNoise
  <2>1. PICK t \in {"other", "empty"} : Put([type |-> t])
    BY <1>3 DEF CardNoise
  <2>2. PICK m : m = [type |-> t]
    OBVIOUS
  <2>3. m.type # "fragment"
    BY <2>2
  <2>4. /\ net' = Append(net, m) /\ (Active' => Active)
        /\ UNCHANGED <<frames, sending, frame, handed>>
    BY <1>3, <2>1, <2>2 DEF CardNoise, Put, loopVars, Active
  <2> QED
    BY <2>3, <2>4, StreamPut
<1>4. CASE CardFullFrame
  <2>1. PICK mode, pix, blocks : mode \in Modes /\ NewFrame(mode, pix, blocks, mode.parts)
    BY <1>4, Zenon DEF CardFullFrame
  <2>2. PICK f : f = [mode |-> mode, blocks |-> blocks, parts |-> mode.parts, screen |-> pix]
    OBVIOUS
  <2>3. f.mode \in Modes /\ f.parts \in Nat \ {0}
    BY <2>1, <2>2, VideoAssumption
  <2>4. /\ frames' = Append(frames, f) /\ sending' = 0
        /\ UNCHANGED <<net, frame, handed, reading>>
    BY <2>1, <2>2 DEF NewFrame, loopVars
  <2> QED
    BY <2>3, <2>4, StreamNewFrame
<1>5. CASE CardDelta
  <2>1. PICK mode, pix, blocks : NewFrame(mode, pix, blocks, 1) /\ mode = Latest.mode /\ frames # <<>>
    BY <1>5, Zenon DEF CardDelta
  <2>2. Latest.mode \in Modes
    <3>1. PICK l \in Nat : l = Len(frames) /\ l \in 1..l
      <4>1. Len(frames) \in Nat /\ Len(frames) > 0
        BY <2>1, SeqTail DEF StreamInv, FramesOK
      <4> QED
        BY <4>1
    <3> QED
      BY <3>1 DEF StreamInv, FramesOK, Latest
  <2>3. PICK f : f = [mode |-> mode, blocks |-> blocks, parts |-> 1, screen |-> pix]
    OBVIOUS
  <2>4. f.mode \in Modes /\ f.parts \in Nat \ {0}
    BY <2>1, <2>2, <2>3
  <2>5. /\ frames' = Append(frames, f) /\ sending' = 0
        /\ UNCHANGED <<net, frame, handed, reading>>
    BY <2>1, <2>3 DEF NewFrame, loopVars
  <2> QED
    BY <2>4, <2>5, StreamNewFrame
<1>6. CASE CardSends
  BY <1>6, StreamSends
<1>7. CASE CardCloses
  BY <1>7, StreamKept DEF CardCloses, loopVars, Active
<1> QED
  BY <1>1, <1>2, <1>3, <1>4, <1>5, <1>6, <1>7 DEF CardStep

\* What Connect does.
LEMMA StreamHandshake == StreamInv /\ Handshake => StreamInv'
<1> SUFFICES ASSUME StreamInv, Handshake PROVE StreamInv'
  OBVIOUS
<1>1. UNCHANGED <<frames, sending, frame, handed, reading>>
  BY DEF Handshake, HandshakeAccepted, HandshakeValid, HandshakeOther, HandshakeRefused,
         HandshakeFails, HandshakeTimeout, Fail, cardVars, loopVars
<1>2. \/ UNCHANGED net
      \/ net # <<>> /\ Head(net).type # "fragment" /\ net' = Tail(net)
  BY DEF Handshake, HandshakeAccepted, HandshakeValid, HandshakeOther, HandshakeRefused,
         HandshakeFails, HandshakeTimeout, Arrives
<1> QED
  BY <1>1, <1>2, StreamKept, StreamSkip DEF Active

\* Every step.
LEMMA StreamStep == VideoInv /\ [Next]_vars => VideoInv'
<1> SUFFICES ASSUME VideoInv, [Next]_vars PROVE VideoInv'
  OBVIOUS
<1>1. StreamInv /\ NotStarted
  BY DEF VideoInv
<1>2. CASE CardStep
  <2>1. UNCHANGED <<client, reading>>
    BY <1>2 DEF CardStep, CardAccepts, CardTakes, CardNoise, CardFullFrame, CardDelta, CardSends,
                CardCloses, NewFrame, runVars, loopVars
  <2> QED
    BY <1>1, <1>2, <2>1, StreamCard DEF VideoInv, NotStarted
<1>3. CASE Handshake
  <2>1. client = "handshake" /\ UNCHANGED reading
    BY <1>3 DEF Handshake, HandshakeAccepted, HandshakeValid, HandshakeOther, HandshakeRefused,
                HandshakeFails, HandshakeTimeout, Fail, loopVars
  <2> QED
    BY <1>1, <1>3, <2>1, StreamHandshake DEF VideoInv, NotStarted
<1>4. CASE StartRun
  <2>1. reading = "off" /\ NotStarted' /\ UNCHANGED <<net, frames, sending, frame, handed>>
    BY <1>1, <1>4 DEF StartRun, NotStarted, cardVars
  <2> QED
    BY <1>1, <2>1, StreamKept DEF VideoInv, Active
<1>5. CASE Cancel \/ RunReturns \/ KeepAliveEnds
  <2>1. NotStarted' /\ UNCHANGED <<net, frames, sending, frame, handed, reading>>
    BY <1>1, <1>5 DEF Cancel, RunReturns, KeepAliveEnds, NotStarted, cardVars, loopVars
  <2> QED
    BY <1>1, <2>1, StreamKept DEF VideoInv, Active
<1>6. CASE ReadLoop
  <2>1. NotStarted'
    BY <1>1, <1>6 DEF ReadLoop, ReadOther, ReadFragment, DecodeBlock, ShowFrame, ReadFails,
                      ReportError, NotStarted, runVars
  <2>2. CASE ReadOther
    <3>1. /\ net # <<>> /\ Head(net).type # "fragment" /\ net' = Tail(net)
          /\ UNCHANGED <<frames, sending, frame, handed, reading>>
      BY <2>2 DEF ReadOther, Arrives, cardVars, loopVars
    <3> QED
      BY <1>1, <2>1, <3>1, StreamSkip DEF VideoInv, Active
  <2>3. CASE ReadFragment
    BY <1>1, <2>1, <2>3, StreamRead DEF VideoInv
  <2>4. CASE DecodeBlock \/ ShowFrame \/ ReadFails \/ ReportError
    <3>1. UNCHANGED <<net, frames, sending, frame, handed>> /\ (Active' => Active)
      BY <2>4 DEF DecodeBlock, ShowFrame, ReadFails, ReportError, cardVars, Active
    <3> QED
      BY <1>1, <2>1, <3>1, StreamKept DEF VideoInv
  <2> QED
    BY <1>6, <2>2, <2>3, <2>4 DEF ReadLoop
<1>7. CASE Ended \/ UNCHANGED vars
  <2>1. UNCHANGED <<net, frames, sending, frame, handed, reading, client>>
    BY <1>7 DEF Ended, vars, cardVars, loopVars, runVars
  <2> QED
    BY <1>1, <2>1, StreamKept DEF VideoInv, NotStarted, Active
<1> QED
  BY <1>2, <1>3, <1>4, <1>5, <1>6, <1>7 DEF Next

\* What readLoop hands over is one frame.
LEMMA StreamWhole == VideoInv => WholeFrames
<1> SUFFICES ASSUME VideoInv, handed # <<>>
             PROVE  /\ Len(handed) = frames[handed[1].id].parts
                    /\ \A i \in DOMAIN handed : handed[i] = [id |-> handed[1].id, num |-> i - 1]
  BY DEF WholeFrames
<1>1. PICK id \in 1..Len(frames) : handed = Pieces(id, Parts(id))
  BY DEF VideoInv, StreamInv, HandedWhole
<1>2. PICK n \in Nat : n = Parts(id) /\ n > 0
  BY DEF VideoInv, StreamInv, FramesOK
<1>3. handed = Pieces(id, n)
  BY <1>1, <1>2
<1>4. Len(handed) = n /\ handed[1].id = id
  BY <1>2, <1>3, PiecesAppend
<1>5. \A i \in DOMAIN handed : handed[i] = [id |-> id, num |-> i - 1]
  BY <1>3 DEF Pieces
<1> QED
  BY <1>2, <1>4, <1>5 DEF Parts

\* Safety of readLoop: each frame it hands to the decoder is all of one frame of the card, in
\* order, however fragments of given-up frames and other messages come between.
THEOREM WholeFramesSafety == Spec => []WholeFrames
<1>1. Spec => []VideoInv
  BY StreamInit, StreamStep, PTL DEF Spec
<1> QED
  BY <1>1, StreamWhole, PTL

-----------------------------------------------------------------------------
(* The handshake.                                                          *)

\* Where the messages of a type are after one is added to the wire,
LEMMA TypeAppend ==
  ASSUME IsSeq(net), NEW m, net' = Append(net, m), NEW t
  PROVE  /\ IsSeq(net') /\ Len(net) \in Nat
         /\ \A i \in Of(t) : i \in Of(t)'
         /\ \A i \in Of(t)' : \/ i \in Of(t) /\ net'[i] = net[i]
                              \/ i = Len(net) + 1 /\ m.type = t /\ net'[i] = m
         /\ m.type = t => Len(net) + 1 \in Of(t)'
<1>1. /\ Len(net) \in Nat /\ DOMAIN net = 1..Len(net)
      /\ IsSeq(net') /\ DOMAIN net' = 1..(Len(net) + 1)
      /\ \A i \in 1..Len(net) : net'[i] = net[i]
      /\ net'[Len(net) + 1] = m
  BY SMTT(60), SeqAppend
<1>2. PICK n \in Nat : n = Len(net)
  BY <1>1
<1>3. \A i \in 1..(n + 1) : i \in 1..n \/ i = n + 1
  OBVIOUS
<1>4. n + 1 \in 1..(n + 1) /\ \A i \in 1..n : i \in 1..(n + 1)
  OBVIOUS
<1> QED
  BY <1>1, <1>2, <1>3, <1>4 DEF Of

\* and after the head is taken off it.
LEMMA TypeTail ==
  ASSUME IsSeq(net), net # <<>>, net' = Tail(net), NEW t
  PROVE  /\ IsSeq(net')
         /\ \A i \in Of(t)' : i + 1 \in Of(t) /\ net'[i] = net[i + 1] /\ i \in Nat \ {0}
         /\ \A i \in Of(t) : (i = 1 /\ Head(net).type = t) \/ i - 1 \in Of(t)'
         /\ Head(net).type = t => 1 \in Of(t) /\ net[1] = Head(net)
<1>1. /\ Len(net) \in Nat /\ Len(net) > 0 /\ DOMAIN net = 1..Len(net) /\ Head(net) = net[1]
      /\ IsSeq(net') /\ DOMAIN net' = 1..(Len(net) - 1)
      /\ \A i \in 1..(Len(net) - 1) : net'[i] = net[i + 1]
  BY SMTT(60), SeqTail
<1>2. PICK n \in Nat : n = Len(net) /\ n > 0
  BY <1>1
<1>3. 1 \in 1..n /\ \A i \in 1..(n - 1) : i + 1 \in 1..n /\ i \in Nat \ {0}
  BY <1>2
<1>4. \A i \in 1..n : i = 1 \/ (i - 1 \in 1..(n - 1) /\ (i - 1) + 1 = i)
  OBVIOUS
<1> QED
  BY SMTT(60), <1>1, <1>2, <1>3, <1>4 DEF Of

\* A step that does not touch the handshake.
LEMMA HandshakeKept ==
  ASSUME HandshakeInv, UNCHANGED <<card, net, toCard>>, gone => gone'
  PROVE  HandshakeInv'
  BY DEF HandshakeInv, OneAccepted, Progress, Granted, Of

\* Another message on the wire, neither an acceptance nor an answer.
LEMMA HandshakePut ==
  ASSUME HandshakeInv, NEW m, m.type \notin {"accepted", "response"}, net' = Append(net, m),
         UNCHANGED <<card, toCard, gone>>
  PROVE  HandshakeInv'
<1>1. IsSeq(net)
  BY DEF HandshakeInv
<1>2. /\ IsSeq(net')
      /\ \A i \in Of("accepted")' : i \in Of("accepted")
      /\ \A i \in Of("accepted") : i \in Of("accepted")'
  BY <1>1, TypeAppend
<1>3. Of("accepted")' = Of("accepted")
  BY <1>2
<1>4. \A i \in Of("response")' : i \in Of("response") /\ net'[i] = net[i]
  BY <1>1, TypeAppend
<1> QED
  BY <1>2, <1>3, <1>4 DEF HandshakeInv, OneAccepted, Progress, Granted

\* A message that is no acceptance is taken off the wire.
LEMMA HandshakeSkip ==
  ASSUME HandshakeInv, net # <<>>, Head(net).type # "accepted", net' = Tail(net),
         UNCHANGED <<card, gone>>,
         toCard' = toCard \/ (card \in {"answered", "streaming"} /\ toCard' = toCard \o <<"resume">>)
  PROVE  HandshakeInv'
<1>1. IsSeq(net)
  BY DEF HandshakeInv
<1>2. /\ IsSeq(net')
      /\ \A i \in Of("accepted")' : i + 1 \in Of("accepted") /\ i \in Nat \ {0}
      /\ \A i \in Of("accepted") : i - 1 \in Of("accepted")'
  BY <1>1, TypeTail
<1>3. \A i \in Of("response")' : i + 1 \in Of("response") /\ net'[i] = net[i + 1]
  BY <1>1, TypeTail
<1>4. OneAccepted'
  <2>1. SUFFICES ASSUME NEW i \in Of("accepted")', NEW j \in Of("accepted")'
                 PROVE  i = j
    BY Zenon DEF OneAccepted
  <2>2. i + 1 = j + 1 /\ i \in Nat /\ j \in Nat
    BY <1>2 DEF HandshakeInv, OneAccepted
  <2> QED
    BY <2>2
<1>5. Of("accepted")' = {} <=> Of("accepted") = {}
  BY <1>2
<1>6. ASSUME ~gone, card \in {"answered", "streaming"} PROVE toCard' \in Seq({"resume"})
  <2>1. PICK q \in Seq({"resume"}) : q = toCard
    BY <1>6 DEF HandshakeInv, Progress
  <2>2. q \o <<"resume">> \in Seq({"resume"})
    OBVIOUS
  <2> QED
    BY <2>1, <2>2
<1>7. Progress'
  BY <1>5, <1>6 DEF HandshakeInv, Progress
<1>8. Granted'
  BY <1>3 DEF HandshakeInv, Granted
<1> QED
  BY <1>2, <1>4, <1>7, <1>8 DEF HandshakeInv

\* The card accepts the session.
LEMMA HandshakeAccepts == HandshakeInv /\ CardAccepts => HandshakeInv'
<1> SUFFICES ASSUME HandshakeInv, CardAccepts PROVE HandshakeInv'
  OBVIOUS
<1>1. PICK m : m = [type |-> "accepted"] /\ m.type = "accepted"
  <2>1. PICK m : m = [type |-> "accepted"]
    OBVIOUS
  <2>2. m.type = "accepted"
    BY <2>1
  <2> QED
    BY <2>1, <2>2
<1>2. /\ ~gone /\ card = "connected" /\ card' = "accepted" /\ net' = Append(net, m)
      /\ UNCHANGED <<gone, toCard>>
  BY <1>1 DEF CardAccepts, Put
<1>3. IsSeq(net) /\ Of("accepted") = {} /\ Of("response") = {} /\ toCard = <<>>
  BY <1>2 DEF HandshakeInv, Progress, Granted
<1>4. IsSeq(net') /\ Of("accepted")' = {Len(net) + 1}
  BY <1>1, <1>2, <1>3, TypeAppend
<1>5. Of("response")' = {}
  BY <1>1, <1>2, <1>3, TypeAppend
<1> QED
  BY <1>2, <1>3, <1>4, <1>5 DEF HandshakeInv, OneAccepted, Progress, Granted

\* The card takes a request: the validation comes after the completion of the connection.
LEMMA HandshakeTakes == HandshakeInv /\ CardTakes => HandshakeInv'
<1> SUFFICES ASSUME HandshakeInv, CardTakes PROVE HandshakeInv'
  OBVIOUS
<1>1. ~gone /\ gone' = gone /\ toCard # <<>> /\ toCard' = Tail(toCard) /\ IsSeq(net)
  BY DEF CardTakes, HandshakeInv
<1>2. CASE card = "accepted"
  <2>1. toCard = <<"complete", "validate">> /\ Of("accepted") = {}
    BY <1>1, <1>2 DEF HandshakeInv, Progress
  <2>2. Head(toCard) = "complete" /\ Tail(toCard) = <<"validate">>
    BY <2>1
  <2>3. card' = "complete" /\ net' = net
    BY <1>2, <2>2 DEF CardTakes
  <2>4. Of("response") = {}
    BY <1>2 DEF HandshakeInv, Granted
  <2>5. Of("accepted")' = {} /\ Of("response")' = {}
    BY <2>1, <2>3, <2>4 DEF Of
  <2> QED
    BY <1>1, <2>2, <2>3, <2>5 DEF HandshakeInv, OneAccepted, Progress, Granted
<1>3. CASE card = "complete"
  <2>1. toCard = <<"validate">> /\ Of("accepted") = {} /\ Of("response") = {}
    BY <1>1, <1>3 DEF HandshakeInv, Progress, Granted
  <2>2. Head(toCard) = "validate" /\ Tail(toCard) = <<>>
    BY <2>1
  <2>3. /\ card' = "answered"
        /\ \/ net' = Append(net, [type |-> "response", status |-> 1])
           \/ net' = Append(net, [type |-> "stop"])
    BY <1>3, <2>2 DEF CardTakes, Put
  <2>4. PICK m : /\ net' = Append(net, m)
                 /\ m.type # "accepted" /\ (m.type = "response" => m.status = 1)
    <3>1. PICK r : r = [type |-> "response", status |-> 1]
      OBVIOUS
    <3>2. PICK p : p = [type |-> "stop"]
      OBVIOUS
    <3>3. r.type # "accepted" /\ r.status = 1 /\ p.type = "stop"
      BY <3>1, <3>2
    <3> QED
      BY <2>3, <3>1, <3>2, <3>3
  <2>5. IsSeq(net') /\ Of("accepted")' = {}
    BY <1>1, <2>1, <2>4, TypeAppend
  <2>6. \A i \in Of("response")' : m.type = "response" /\ net'[i] = m
    BY <1>1, <2>1, <2>4, TypeAppend
  <2>7. Granted'
    BY <2>3, <2>4, <2>6 DEF Granted
  <2> QED
    <3>1. OneAccepted'
      BY <2>5 DEF OneAccepted
    <3>2. toCard' \in Seq({"resume"})
      <4>1. toCard' = <<>>
        BY <1>1, <2>2, Zenon
      <4>2. <<>> \in Seq({"resume"})
        OBVIOUS
      <4> QED
        BY <4>1, <4>2, Zenon
    <3>3. Progress'
      BY <2>3, <2>5, <3>2 DEF Progress
    <3> QED
      BY <2>5, <2>7, <3>1, <3>3 DEF HandshakeInv
<1>4. CASE card \in {"answered", "streaming"}
  <2>1. PICK q \in Seq({"resume"}) : q = toCard /\ q # <<>>
    BY <1>1, <1>4 DEF HandshakeInv, Progress
  <2>2. Head(q) = "resume" /\ Tail(q) \in Seq({"resume"})
    BY <2>1
  <2>3. Head(toCard) = "resume" /\ toCard' \in Seq({"resume"})
    BY <1>1, <2>1, <2>2
  <2>4. card' = "streaming" /\ net' = net
    BY <1>4, <2>3 DEF CardTakes
  <2>5. Of("accepted") = {}
    BY <1>1, <1>4 DEF HandshakeInv, Progress
  <2> QED
    BY <1>1, <2>3, <2>4, <2>5 DEF HandshakeInv, OneAccepted, Progress, Granted, Of
<1>5. card # "connected"
  BY <1>1 DEF HandshakeInv, Progress
<1> QED
  BY <1>2, <1>3, <1>4, <1>5 DEF HandshakeInv, Progress

\* Connect answers the acceptance.
LEMMA HandshakeOpens == HandshakeInv /\ HandshakeAccepted => HandshakeInv'
<1> SUFFICES ASSUME HandshakeInv, HandshakeAccepted PROVE HandshakeInv'
  OBVIOUS
<1>1. /\ net # <<>> /\ Head(net).type = "accepted" /\ net' = Tail(net)
      /\ UNCHANGED <<card, gone>> /\ Send(Opening) /\ IsSeq(net)
  BY DEF HandshakeAccepted, Arrives, cardVars, HandshakeInv
<1>2. /\ IsSeq(net') /\ 1 \in Of("accepted")
      /\ \A i \in Of("accepted")' : i + 1 \in Of("accepted") /\ i \in Nat \ {0}
  BY <1>1, TypeTail
<1>3. \A i \in Of("response")' : i + 1 \in Of("response") /\ net'[i] = net[i + 1]
  BY <1>1, TypeTail
<1>4. Of("accepted")' = {}
  <2>1. SUFFICES ASSUME NEW i \in Of("accepted")' PROVE FALSE
    OBVIOUS
  <2>2. i + 1 = 1 /\ i \in Nat \ {0}
    BY <1>2 DEF HandshakeInv, OneAccepted
  <2> QED
    BY <2>2
<1>5. Of("accepted") # {}
  BY <1>2
<1>6. card # "connected"
  BY <1>5 DEF HandshakeInv, Progress
<1>7. ASSUME ~gone PROVE card = "accepted" /\ toCard' = <<"complete", "validate">>
  <2>1. card = "accepted" /\ toCard = <<>>
    BY <1>5, <1>7 DEF HandshakeInv, Progress
  <2>2. toCard' = <<>> \o <<"complete", "validate">>
    BY <1>1, <1>7, <2>1 DEF Send, Opening
  <2> QED
    BY <2>1, <2>2
<1>8. OneAccepted' /\ Granted'
  BY <1>1, <1>3, <1>4 DEF HandshakeInv, OneAccepted, Granted
<1>9. Progress'
  BY <1>1, <1>4, <1>6, <1>7 DEF HandshakeInv, Progress
<1> QED
  BY <1>2, <1>8, <1>9 DEF HandshakeInv

\* Every step.
LEMMA HandshakeStep == HandshakeInv /\ [Next]_vars => HandshakeInv'
<1> SUFFICES ASSUME HandshakeInv, [Next]_vars PROVE HandshakeInv'
  OBVIOUS
<1>1. CASE CardAccepts
  BY <1>1, HandshakeAccepts
<1>2. CASE CardTakes
  BY <1>2, HandshakeTakes
<1>3. CASE CardNoise
  <2>1. PICK t \in {"other", "empty"} : Put([type |-> t])
    BY <1>3 DEF CardNoise
  <2>2. PICK m : m = [type |-> t]
    OBVIOUS
  <2>3. m.type \notin {"accepted", "response"}
    BY <2>2
  <2>4. net' = Append(net, m) /\ UNCHANGED <<card, toCard, gone>>
    BY <1>3, <2>1, <2>2 DEF CardNoise, Put
  <2> QED
    BY <2>3, <2>4, HandshakePut
<1>4. CASE CardSends
  <2>1. PICK m : m = [type |-> "fragment", id |-> Len(frames), num |-> sending,
                      last |-> sending + 1 = Latest.parts]
    OBVIOUS
  <2>2. m.type \notin {"accepted", "response"}
    BY <2>1
  <2>3. net' = Append(net, m) /\ UNCHANGED <<card, toCard, gone>>
    BY <1>4, <2>1 DEF CardSends, Put
  <2> QED
    BY <2>2, <2>3, HandshakePut
<1>5. CASE CardFullFrame \/ CardDelta \/ CardCloses
  <2>1. UNCHANGED <<card, net, toCard>> /\ (gone => gone')
    <3>1. CASE CardFullFrame
      <4>1. PICK m, pix, blocks, n : NewFrame(m, pix, blocks, n)
        BY <3>1, Zenon DEF CardFullFrame
      <4> QED
        BY <4>1 DEF NewFrame
    <3>2. CASE CardDelta
      <4>1. PICK m, pix, blocks, n : NewFrame(m, pix, blocks, n)
        BY <3>2, Zenon DEF CardDelta
      <4> QED
        BY <4>1 DEF NewFrame
    <3>3. CASE CardCloses
      BY <3>3, Zenon DEF CardCloses
    <3> QED
      BY <1>5, <3>1, <3>2, <3>3
  <2> QED
    BY <2>1, HandshakeKept
<1>6. CASE HandshakeAccepted
  BY <1>6, HandshakeOpens
<1>7. CASE HandshakeValid
  <2>1. /\ net # <<>> /\ Head(net).type = "response" /\ net' = Tail(net)
        /\ UNCHANGED <<card, gone>> /\ Send(<<"resume">>) /\ IsSeq(net)
    BY <1>7 DEF HandshakeValid, cardVars, HandshakeInv
  <2>2. 1 \in Of("response")
    BY <2>1, TypeTail
  <2>3. card \in {"answered", "streaming"}
    BY <2>2 DEF HandshakeInv, Granted
  <2>4. toCard' = toCard \/ toCard' = toCard \o <<"resume">>
    BY <2>1 DEF Send
  <2> QED
    BY <2>1, <2>3, <2>4, HandshakeSkip
<1>8. CASE HandshakeOther \/ HandshakeRefused \/ ReadOther \/ ReadFragment
  <2>1. /\ net # <<>> /\ Head(net).type # "accepted" /\ net' = Tail(net)
        /\ UNCHANGED <<card, gone, toCard>>
    BY <1>8 DEF HandshakeOther, HandshakeRefused, Fail, ReadOther, ReadFragment, Arrives, cardVars
  <2> QED
    BY <2>1, HandshakeSkip
<1>9. CASE \/ HandshakeFails \/ HandshakeTimeout \/ StartRun \/ Cancel \/ RunReturns
           \/ KeepAliveEnds \/ DecodeBlock \/ ShowFrame \/ ReadFails \/ ReportError
           \/ Ended \/ UNCHANGED vars
  <2>1. UNCHANGED <<card, net, toCard, gone>>
    BY <1>9 DEF HandshakeFails, HandshakeTimeout, Fail, StartRun, Cancel, RunReturns,
                KeepAliveEnds, DecodeBlock, ShowFrame, ReadFails, ReportError, Ended, vars,
                cardVars
  <2> QED
    BY <2>1, HandshakeKept
<1> QED
  BY <1>1, <1>2, <1>3, <1>4, <1>5, <1>6, <1>7, <1>8, <1>9 DEF Next, CardStep, Handshake, ReadLoop

\* At first nobody has sent anything.
LEMMA HandshakeInit == Init => HandshakeInv
<1> SUFFICES ASSUME Init PROVE HandshakeInv
  OBVIOUS
<1>1. net = <<>> /\ toCard = <<>> /\ card = "connected"
  BY DEF Init
<1>2. IsSeq(net) /\ \A t : Of(t) = {}
  BY <1>1 DEF IsSeq, Of
<1> QED
  BY <1>1, <1>2 DEF HandshakeInv, OneAccepted, Progress, Granted

\* Safety of the handshake: whatever the card sends in between, and whenever it stops, it gets
\* the completion of the connection before the validation, and no answer refuses the session.
THEOREM HandshakeSafety == Spec => []NeverOutOfOrder
<1>1. Spec => []HandshakeInv
  BY HandshakeInit, HandshakeStep, PTL DEF Spec
<1>2. HandshakeInv => NeverOutOfOrder
  BY DEF HandshakeInv, Granted, Of, NeverOutOfOrder
<1> QED
  BY <1>1, <1>2, PTL

-----------------------------------------------------------------------------
(* The picture: the invariant.                                             *)

Pixels(m) == (0 .. m.w - 1) \X (0 .. m.h - 1)

\* Buffer position of a pixel.
At(m, p) == p[2] * m.w + p[1] + 1

Covers(m, b, p) == p[1] \div TileSize(m) = b.tx /\ p[2] \div TileSize(m) = b.ty

\* What block b has for a pixel it covers.
Taken(m, b, p) == <<b.val, p[2] % TileSize(m), p[1] % TileSize(m)>>

\* Some block of a list covers a pixel, and one that does not refine it.
Touched(m, blocks, p) == \E k \in DOMAIN blocks : Covers(m, blocks[k], p)
Renewed(m, blocks, p) == \E k \in DOMAIN blocks : Covers(m, blocks[k], p) /\ ~ blocks[k].pass2

\* Every pixel of a picture has a base and a delta.
IsPicture(m, pix) == pix = [p \in Pixels(m) |-> [base |-> pix[p].base, delta |-> pix[p].delta]]

\* Picture e is picture pix after block b.
Replaces(m, pix, b, e) ==
  /\ IsPicture(m, e)
  /\ \A p \in Pixels(m) :
       /\ ~ Covers(m, b, p) => e[p] = pix[p]
       /\ Covers(m, b, p) /\ b.pass2 => e[p].delta = Taken(m, b, p) /\ e[p].base = pix[p].base
       /\ Covers(m, b, p) /\ ~ b.pass2 => e[p].delta = None /\ e[p].base = Taken(m, b, p)

\* What a block brings is what the screen of its frame shows.
BlockSound(m, pix, b) ==
  /\ b.tx \in Nat /\ b.tx < Width(m) \div TileSize(m) /\ b.ty \in Nat
  /\ b.pass2 \in BOOLEAN /\ (b.pass2 => ~ m.mode420)
  /\ \A p \in Pixels(m) : Covers(m, b, p) =>
       /\ pix[p].delta = IF b.pass2 THEN Taken(m, b, p) ELSE None
       /\ b.pass2 \/ pix[p].base = Taken(m, b, p)

FrameSound(f) ==
  /\ IsPicture(f.mode, f.screen) /\ IsSeq(f.blocks)
  /\ \A k \in DOMAIN f.blocks : BlockSound(f.mode, f.screen, f.blocks[k])

\* A frame of the mode of the one before it has only the tiles that differ;
\* otherwise it has them all.
Follows(id) == id > 1 /\ frames[id].mode = frames[id - 1].mode

Builds(pix, f) ==
  \A p \in Pixels(f.mode) :
    /\ Touched(f.mode, f.blocks, p) \/ f.screen[p] = pix[p]
    /\ Renewed(f.mode, f.blocks, p) \/ f.screen[p].base = pix[p].base

Full(f) == \A p \in Pixels(f.mode) : Renewed(f.mode, f.blocks, p)

FramesSound ==
  \A id \in 1..Len(frames) : Accepted(frames[id].mode) =>
    /\ FrameSound(frames[id])
    /\ IF Follows(id) THEN Builds(frames[id - 1].screen, frames[id]) ELSE Full(frames[id])

\* The frame last given to handleFrame.
Handed == IF handed = <<>> THEN 0 ELSE handed[1].id

\* Nothing of it or of an older one is still to come.
Ahead ==
  /\ Handed \in 0..Len(frames)
  /\ \A i \in Fragments : Handed < net[i].id
  /\ frames # <<>> /\ Handed = Len(frames) => sending = Parts(Len(frames))

\* A frame the card has sent to its end, as it has all that others follow on,
\* is handed over or will be: its last fragment is on the wire.
Completed(id) == IF id = Len(frames) THEN sending = Parts(id) ELSE Follows(id + 1)

Delivered ==
  \A id \in 1..Len(frames) : Completed(id) =>
    id <= Handed \/ \E i \in Fragments : net[i].id = id /\ net[i].num + 1 = Parts(id)

Sync == Ahead /\ (Active => Delivered)

IsDecoder(d) ==
  d = [k \in {"alloc", "buf", "prev", "stride"} |-> d[k]] /\ d.alloc \in Nat

\* The buffers have room for the frame, and what they show of it is its screen
\* but for the blocks still to be decoded.
Draws(d, f, blocks) ==
  /\ Width(f.mode) * Height(f.mode) <= d.alloc /\ d.stride = Stride(f.mode)
  /\ IsSeq(blocks)
  /\ \A k \in DOMAIN blocks : BlockSound(f.mode, f.screen, blocks[k])
  /\ \A p \in Pixels(f.mode) :
       /\ Touched(f.mode, blocks, p) \/ d.buf[At(f.mode, p)] = f.screen[p]
       /\ f.mode.mode420 \/ Renewed(f.mode, blocks, p) \/ d.prev[At(f.mode, p)] = f.screen[p].base

DecoderInv ==
  /\ IsDecoder(decoder)
  /\ IF reading = "decoding" THEN Handed # 0 /\ Accepted(frames[Handed].mode) ELSE todo = <<>>
  /\ Handed # 0 /\ Accepted(frames[Handed].mode) => Draws(decoder, frames[Handed], todo)

ShownSound == shown.id # 0 => shown.id \in 1..Len(frames) /\ shown.pix = frames[shown.id].screen

PictureInv ==
  VideoInv /\ FramesSound /\ Sync /\ DecoderInv /\ ShownSound

-----------------------------------------------------------------------------
(* The picture: geometry.                                                  *)

LEMMA Division ==
  ASSUME NEW a \in Int, NEW n \in Nat \ {0}
  PROVE  /\ a \div n \in Int /\ a % n \in 0..(n - 1)
         /\ a = n * (a \div n) + (a % n)
         /\ a \in Nat => a \div n \in Nat
OBVIOUS

\* A quotient and a remainder are the only ones.
LEMMA Quotient ==
  ASSUME NEW a \in Int, NEW n \in Nat \ {0}, NEW q \in Int, NEW r \in 0..(n - 1), a = n * q + r
  PROVE  a \div n = q /\ a % n = r
OBVIOUS

LEMMA Ordering ==
  ASSUME NEW a \in Int, NEW b \in Int, NEW n \in Nat, a <= b
  PROVE  n * a <= n * b /\ n * a \in Int /\ n * b \in Int
OBVIOUS

\* The padded size is that of the fewest tiles that hold the picture.
LEMMA RoundUp ==
  ASSUME NEW v \in Nat \ {0}, NEW n \in Nat \ {0}
  PROVE  /\ roundUp(v, n) \in Nat /\ v <= roundUp(v, n) /\ roundUp(v, n) < v + n
         /\ roundUp(v, n) \div n \in Nat \ {0}
         /\ roundUp(v, n) = n * (roundUp(v, n) \div n)
         /\ v % n = 0 => roundUp(v, n) = v
<1>1. PICK q \in Nat, r \in 0..(n - 1) : q = v \div n /\ r = v % n /\ v = n * q + r
  BY Division
<1>2. CASE r = 0
  <2>1. roundUp(v, n) = v
    BY <1>1, <1>2 DEF roundUp
  <2>2. q # 0
    BY <1>1, <1>2
  <2> QED
    BY <1>1, <1>2, <2>1, <2>2
<1>3. CASE r # 0
  <2>1. roundUp(v, n) = v + n - r
    BY <1>1, <1>3 DEF roundUp
  <2>2. roundUp(v, n) = n * (q + 1) + 0
    BY <1>1, <2>1
  <2>3. PICK u \in Int : u = n * (q + 1) + 0
    OBVIOUS
  <2>4. q + 1 \in Int /\ 0 \in 0..(n - 1)
    OBVIOUS
  <2>5. u \div n = q + 1
    BY <2>3, <2>4, Quotient
  <2> QED
    BY <1>1, <1>3, <2>1, <2>2, <2>3, <2>5
<1> QED
  BY <1>2, <1>3

\* The sizes of a mode that the decoder accepts.
LEMMA ModeSizes ==
  ASSUME NEW m \in Modes, Accepted(m)
  PROVE  /\ TileSize(m) \in Nat \ {0} /\ T \in Nat \ {0} /\ m.mode420 \in BOOLEAN
         /\ m.w \in Nat \ {0} /\ m.h \in Nat \ {0}
         /\ Width(m) \in Nat /\ m.w <= Width(m) /\ Width(m) < m.w + TileSize(m)
         /\ Height(m) \in Nat /\ m.h <= Height(m)
         /\ Width(m) \div TileSize(m) \in Nat \ {0}
         /\ Height(m) \div TileSize(m) \in Nat \ {0}
         /\ Width(m) = TileSize(m) * (Width(m) \div TileSize(m))
         /\ Height(m) = TileSize(m) * (Height(m) \div TileSize(m))
         /\ m.mode420 => Width(m) = m.w
         /\ Stride(m) = m.w
<1>1. T \in Nat \ {0} /\ m.w \in Nat \ {0} /\ m.h \in Nat \ {0}
  BY DecoderAssumption DEF Accepted
<1>2. TileSize(m) \in Nat \ {0}
  BY <1>1 DEF TileSize
<1>3. m.mode420 \in BOOLEAN /\ (m.mode420 => m.w % TileSize(m) = 0)
  BY ModesAssumption
<1>4. /\ Width(m) \in Nat /\ m.w <= Width(m) /\ Width(m) < m.w + TileSize(m)
      /\ Width(m) \div TileSize(m) \in Nat \ {0}
      /\ Width(m) = TileSize(m) * (Width(m) \div TileSize(m))
      /\ m.w % TileSize(m) = 0 => Width(m) = m.w
  BY <1>1, <1>2, RoundUp, Zenon DEF Width
<1>5. /\ Height(m) \in Nat /\ m.h <= Height(m)
      /\ Height(m) \div TileSize(m) \in Nat \ {0}
      /\ Height(m) = TileSize(m) * (Height(m) \div TileSize(m))
  BY <1>1, <1>2, RoundUp, Zenon DEF Height
<1>6. Stride(m) = m.w
  BY <1>3, <1>4 DEF Stride
<1> QED
  BY <1>1, <1>2, <1>3, <1>4, <1>5, <1>6

\* The buffer has a place for every pixel.
LEMMA PlaceInBuffer ==
  ASSUME NEW m \in Modes, Accepted(m), NEW p \in Pixels(m)
  PROVE  /\ p[1] \in 0..(m.w - 1) /\ p[2] \in 0..(m.h - 1)
         /\ At(m, p) \in Nat \ {0} /\ At(m, p) <= m.w * m.h
         /\ At(m, p) <= Width(m) * Height(m)
         /\ InPicture(m, At(m, p))
<1>1. p[1] \in 0..(m.w - 1) /\ p[2] \in 0..(m.h - 1)
  BY DEF Pixels
<1>2. PICK w \in Nat \ {0}, h \in Nat \ {0}, W1 \in Nat, H1 \in Nat :
        w = m.w /\ h = m.h /\ W1 = Width(m) /\ H1 = Height(m) /\ w <= W1 /\ h <= H1
  BY ModeSizes
<1>3. PICK x \in 0..(w - 1), y \in 0..(h - 1) : x = p[1] /\ y = p[2]
  BY <1>1, <1>2
<1>4. w * y <= w * (h - 1) /\ w * y \in Nat /\ w * (h - 1) = w * h - w /\ w * h \in Nat
  BY Ordering
<1>5. y * w + x + 1 <= w * h /\ y * w + x + 1 \in Nat \ {0}
  BY <1>4
<1>6. w * h <= w * H1 /\ H1 * w <= H1 * W1
  BY <1>2, Ordering
<1>7. y * w + x + 1 <= W1 * H1
  BY <1>5, <1>6
<1> QED
  BY <1>1, <1>2, <1>3, <1>5, <1>7 DEF At, InPicture

\* Columns of a tile that are in the picture.
LEMMA TileColumns ==
  ASSUME NEW m \in Modes, Accepted(m), NEW b, b.tx \in Nat, b.tx < Width(m) \div TileSize(m)
  PROVE  /\ b.tx * TileSize(m) \in Nat /\ b.tx * TileSize(m) < m.w
         /\ Columns(m, b) \in Nat /\ b.tx * TileSize(m) + Columns(m, b) <= m.w
         /\ \A x \in 0..(m.w - 1) :
              x - b.tx * TileSize(m) < Columns(m, b) <=> x < b.tx * TileSize(m) + TileSize(m)
<1>1. PICK s \in Nat \ {0}, w \in Nat \ {0}, c \in Nat \ {0}, W1 \in Nat :
        /\ s = TileSize(m) /\ w = m.w /\ c = Width(m) \div TileSize(m) /\ W1 = Width(m)
        /\ W1 = s * c /\ w <= W1 /\ W1 < w + s
        /\ m.mode420 \in BOOLEAN /\ (m.mode420 => W1 = w)
  BY ModeSizes
<1>2. PICK t \in Nat : t = b.tx /\ t + 1 <= c
  BY <1>1
<1>3. PICK x0 \in Nat : x0 = t * s
  OBVIOUS
<1>4. x0 + s <= W1
  <2>1. s * (t + 1) <= s * c
    BY <1>2, Ordering
  <2> QED
    BY <1>1, <1>3, <2>1
<1>5. x0 < w
  BY <1>1, <1>4
<1>6. CASE m.mode420
  BY <1>1, <1>2, <1>3, <1>4, <1>5, <1>6 DEF Columns
<1>7. CASE ~ m.mode420
  <2>1. s = T
    BY <1>1, <1>7 DEF TileSize
  <2>2. Columns(m, b) = IF w - x0 > s THEN s ELSE w - x0
    BY <1>1, <1>2, <1>3, <1>5, <1>7, <2>1 DEF Columns, limit
  <2> QED
    BY <1>1, <1>2, <1>3, <1>4, <1>5, <2>2
<1> QED
  BY <1>1, <1>6, <1>7

\* A place in the buffer that is e rows below and x - x0 to the right of another:
\* its row and column from there, when it is not to the left; otherwise it counts
\* as in the row before.
LEMMA FromOffset ==
  ASSUME NEW w \in Nat \ {0}, NEW x \in 0..(w - 1), NEW x0 \in 0..(w - 1), NEW e \in Int,
         NEW a \in Int, a = w * e + (x - x0)
  PROVE  /\ a >= 0 <=> e > 0 \/ (e = 0 /\ x >= x0)
         /\ x >= x0 => a \div w = e /\ a % w = x - x0
         /\ x < x0 => a \div w = e - 1 /\ a % w = x - x0 + w
<1>1. ASSUME x >= x0 PROVE a \div w = e /\ a % w = x - x0
  <2>1. x - x0 \in 0..(w - 1)
    BY <1>1
  <2> QED
    BY <2>1, Quotient
<1>2. ASSUME x < x0 PROVE a \div w = e - 1 /\ a % w = x - x0 + w
  <2>1. PICK f \in Int, r \in 0..(w - 1) : f = e - 1 /\ r = x - x0 + w
    BY <1>2
  <2>2. a = w * f + r
    <3>1. w * f = w * e - w
      BY <2>1
    <3> QED
      BY <2>1, <3>1
  <2> QED
    BY SMTT(60), <2>1, <2>2, Quotient
<1>3. a >= 0 <=> e > 0 \/ (e = 0 /\ x >= x0)
  <2>1. CASE e >= 1
    <3>1. w * 1 <= w * e
      BY <2>1, Ordering
    <3> QED
      BY <2>1, <3>1
  <2>2. CASE e = 0
    BY <2>2
  <2>3. CASE e <= -1
    <3>1. w * e <= w * (-1)
      BY <2>3, Ordering
    <3> QED
      BY <2>3, <3>1
  <2> QED
    BY <2>1, <2>2, <2>3
<1> QED
  BY <1>1, <1>2, <1>3

\* What the block is written to is the places of the pixels it covers.
LEMMA WrittenCovers ==
  ASSUME NEW m \in Modes, Accepted(m), NEW p \in Pixels(m),
         NEW b, b.tx \in Nat, b.tx < Width(m) \div TileSize(m), b.ty \in Nat
  PROVE  /\ Written(m, b, At(m, p)) <=> Covers(m, b, p)
         /\ Covers(m, b, p) => Sample(m, b, At(m, p)) = Taken(m, b, p)
<1>1. PICK s \in Nat \ {0}, w \in Nat \ {0}, h \in Nat \ {0} :
        /\ s = TileSize(m) /\ w = m.w /\ h = m.h
        /\ m.mode420 \in BOOLEAN /\ (m.mode420 => Width(m) = w)
  BY ModeSizes
<1>2. PICK x \in 0..(w - 1), y \in 0..(h - 1) : x = p[1] /\ y = p[2]
  BY <1>1, PlaceInBuffer
<1>3. PICK tx \in Nat, ty \in Nat : tx = b.tx /\ ty = b.ty
  OBVIOUS
<1>4. PICK x0 \in Nat, y0 \in Nat : x0 = s * tx /\ y0 = s * ty
  OBVIOUS
<1>5. PICK cols \in Nat :
        /\ cols = Columns(m, b) /\ x0 < w /\ x0 + cols <= w
        /\ x - x0 < cols <=> x < x0 + s
  BY <1>1, <1>2, <1>3, <1>4, TileColumns
<1>6. At(m, p) = y * w + x + 1 /\ Offset(m, b) = y0 * w + x0
  BY <1>1, <1>2, <1>3, <1>4 DEF At, Offset
<1>7. PICK i, off : i = At(m, p) /\ off = Offset(m, b)
  OBVIOUS
<1>8. /\ i > off <=> y > y0 \/ (y = y0 /\ x >= x0)
      /\ x >= x0 => (i - 1 - off) \div w = y - y0 /\ (i - 1 - off) % w = x - x0
      /\ x < x0 => (i - 1 - off) \div w = y - y0 - 1 /\ (i - 1 - off) % w = x - x0 + w
  <2>1. PICK e \in Int, x1 \in 0..(w - 1) : e = y - y0 /\ x1 = x0
    BY <1>5
  <2>2. /\ y * w = w * y /\ y0 * w = w * y0 /\ w * y \in Nat /\ w * y0 \in Nat
        /\ w * y - w * y0 = w * e
    BY <2>1
  <2>3. PICK a \in Int : a = i - 1 - off /\ (i > off <=> a >= 0)
    BY <1>6, <1>7, <2>2
  <2>4. a = w * e + (x - x1)
    BY <1>6, <1>7, <2>1, <2>2, <2>3
  <2>5. /\ a >= 0 <=> e > 0 \/ (e = 0 /\ x >= x1)
        /\ x >= x1 => a \div w = e /\ a % w = x - x1
        /\ x < x1 => a \div w = e - 1 /\ a % w = x - x1 + w
    BY <2>4, FromOffset
  <2>6. (e > 0 <=> y > y0) /\ (e = 0 <=> y = y0)
    BY <2>1
  <2> QED
    BY <2>1, <2>3, <2>5, <2>6
<1>9. Row(m, b, i) = (i - 1 - off) \div w /\ Column(m, b, i) = (i - 1 - off) % w
  BY <1>1, <1>7 DEF Row, Column
<1>10. /\ (x \div s = tx <=> x0 <= x /\ x < x0 + s) /\ (y \div s = ty <=> y0 <= y /\ y < y0 + s)
       /\ x \div s = tx => x % s = x - x0
       /\ y \div s = ty => y % s = y - y0
  <2>1. x = s * (x \div s) + (x % s) /\ x \div s \in Int /\ x % s \in 0..(s - 1)
    BY Division
  <2>2. y = s * (y \div s) + (y % s) /\ y \div s \in Int /\ y % s \in 0..(s - 1)
    BY Division
  <2>3. ASSUME x0 <= x, x < x0 + s PROVE x \div s = tx
    <3>1. x - x0 \in 0..(s - 1) /\ x = s * tx + (x - x0)
      BY <1>4, <2>3
    <3> QED
      BY <3>1, Quotient
  <2>4. ASSUME y0 <= y, y < y0 + s PROVE y \div s = ty
    <3>1. y - y0 \in 0..(s - 1) /\ y = s * ty + (y - y0)
      BY <1>4, <2>4
    <3> QED
      BY <3>1, Quotient
  <2> QED
    BY <1>4, <2>1, <2>2, <2>3, <2>4
<1>11. Covers(m, b, p) <=> x0 <= x /\ x < x0 + s /\ y0 <= y /\ y < y0 + s
  BY <1>1, <1>2, <1>3, <1>10 DEF Covers
<1>12. y >= y0 => (y - y0 < Rows(m, b) <=> y < y0 + s)
  <2>1. CASE m.mode420 /\ Height(m) = HalfRow.height /\ b.ty = HalfRow.ty
    <3>1. h <= ty * s + T /\ T \in Nat /\ s = 2 * T
      BY <1>1, <1>3, <2>1, ModesAssumption, DecoderAssumption DEF TileSize
    <3> QED
      BY <1>4, <2>1, <3>1 DEF Rows
  <2>2. CASE ~ (m.mode420 /\ Height(m) = HalfRow.height /\ b.ty = HalfRow.ty)
    <3>1. Rows(m, b) = s
      BY <1>1, <2>2 DEF Rows
    <3> QED
      BY <3>1
  <2> QED
    BY <2>1, <2>2
<1>13. CASE x >= x0
  <2>1. Row(m, b, i) = y - y0 /\ Column(m, b, i) = x - x0
    BY <1>8, <1>9, <1>13
  <2>2. Written(m, b, i) <=> y >= y0 /\ y - y0 < Rows(m, b) /\ x - x0 < cols
    BY <1>5, <1>7, <1>8, <1>13, <2>1 DEF Written
  <2>3. Written(m, b, i) <=> Covers(m, b, p)
    BY <1>5, <1>11, <1>12, <1>13, <2>2
  <2>4. Covers(m, b, p) => Sample(m, b, i) = Taken(m, b, p)
    BY <1>1, <1>2, <1>3, <1>10, <2>1 DEF Sample, Taken, Covers
  <2> QED
    BY <1>7, <2>3, <2>4
<1>14. CASE x < x0
  <2>1. Column(m, b, i) = x - x0 + w
    BY <1>8, <1>9, <1>14
  <2>2. ~ (Column(m, b, i) < cols)
    BY <1>5, <2>1
  <2>3. ~ Written(m, b, i)
    BY <1>5, <2>2 DEF Written
  <2> QED
    BY <1>7, <1>11, <1>14, <2>3
<1> QED
  BY <1>13, <1>14

-----------------------------------------------------------------------------
(* The picture: drawing.                                                   *)

\* What drawing a block does to the place of a pixel.
LEMMA DrawPixel ==
  ASSUME NEW m \in Modes, Accepted(m), NEW d, IsDecoder(d), Width(m) * Height(m) <= d.alloc,
         NEW pix, NEW b, BlockSound(m, pix, b), NEW p \in Pixels(m),
         NEW e, e = DrawBlock(d, m, b)
  PROVE  /\ ~ Covers(m, b, p) => /\ e.buf[At(m, p)] = d.buf[At(m, p)]
                                 /\ e.prev[At(m, p)] = d.prev[At(m, p)]
         /\ Covers(m, b, p) /\ ~ b.pass2 =>
              /\ e.buf[At(m, p)] = [base |-> Taken(m, b, p), delta |-> None]
              /\ m.mode420 \/ e.prev[At(m, p)] = Taken(m, b, p)
         /\ Covers(m, b, p) /\ b.pass2 =>
              /\ e.buf[At(m, p)] = [base |-> d.prev[At(m, p)], delta |-> Taken(m, b, p)]
              /\ e.prev[At(m, p)] = d.prev[At(m, p)]
<1>1. PICK i \in Nat \ {0} : i = At(m, p) /\ i <= Width(m) * Height(m) /\ InPicture(m, i)
  BY PlaceInBuffer
<1>2. PICK a \in Nat : a = d.alloc
  BY DEF IsDecoder
<1>3. i \in 1..a
  <2>1. PICK n \in Nat : n = Width(m) * Height(m)
    <3>1. PICK k \in Nat, l \in Nat : k = Width(m) /\ l = Height(m)
      BY ModeSizes
    <3> QED
      BY <3>1
  <2> QED
    BY <1>1, <1>2, <2>1
<1>4. /\ b.tx \in Nat /\ b.tx < Width(m) \div TileSize(m) /\ b.ty \in Nat
      /\ b.pass2 \in BOOLEAN /\ (b.pass2 => ~ m.mode420)
  BY DEF BlockSound
<1>5. /\ Written(m, b, i) <=> Covers(m, b, p)
      /\ Covers(m, b, p) => Sample(m, b, i) = Taken(m, b, p)
  BY <1>1, <1>4, WrittenCovers
<1>6. CASE ~ b.pass2
  <2>1. e = [d EXCEPT
              !.buf = [j \in 1..a |-> IF Written(m, b, j) /\ InPicture(m, j)
                                      THEN [base |-> Sample(m, b, j), delta |-> None] ELSE @[j]],
              !.prev = [j \in 1..a |-> IF Written(m, b, j) /\ ~ m.mode420
                                       THEN Sample(m, b, j) ELSE @[j]]]
    BY <1>2, <1>6 DEF DrawBlock, convertYUVtoRGB
  <2>2. /\ e.buf = [j \in 1..a |-> IF Written(m, b, j) /\ InPicture(m, j)
                                   THEN [base |-> Sample(m, b, j), delta |-> None] ELSE d.buf[j]]
        /\ e.prev = [j \in 1..a |-> IF Written(m, b, j) /\ ~ m.mode420
                                    THEN Sample(m, b, j) ELSE d.prev[j]]
    BY <2>1 DEF IsDecoder
  <2>3. /\ e.buf[i] = IF Written(m, b, i) /\ InPicture(m, i)
                      THEN [base |-> Sample(m, b, i), delta |-> None] ELSE d.buf[i]
        /\ e.prev[i] = IF Written(m, b, i) /\ ~ m.mode420 THEN Sample(m, b, i) ELSE d.prev[i]
    BY <1>3, <2>2
  <2> QED
    BY <1>1, <1>5, <1>6, <2>3
<1>7. CASE b.pass2
  <2>1. e = [d EXCEPT !.buf = [j \in 1..a |->
               IF Written(m, b, j) /\ InPicture(m, j)
               THEN [base |-> d.prev[j], delta |-> Sample(m, b, j)] ELSE @[j]]]
    BY <1>2, <1>4, <1>7 DEF DrawBlock, convertYUVToRGBPass2
  <2>2. /\ e.buf = [j \in 1..a |-> IF Written(m, b, j) /\ InPicture(m, j)
                                   THEN [base |-> d.prev[j], delta |-> Sample(m, b, j)] ELSE d.buf[j]]
        /\ e.prev = d.prev
    BY <2>1 DEF IsDecoder
  <2>3. e.buf[i] = IF Written(m, b, i) /\ InPicture(m, i)
                   THEN [base |-> d.prev[i], delta |-> Sample(m, b, i)] ELSE d.buf[i]
    BY <1>3, <2>2
  <2> QED
    BY <1>1, <1>5, <1>7, <2>2, <2>3
<1> QED
  BY <1>4, <1>6, <1>7

\* and it leaves the size of the buffers alone.
LEMMA DrawKeeps ==
  ASSUME NEW d, IsDecoder(d), NEW m, NEW b
  PROVE  /\ IsDecoder(DrawBlock(d, m, b))
         /\ DrawBlock(d, m, b).alloc = d.alloc /\ DrawBlock(d, m, b).stride = d.stride
<1> DEFINE Kept(e, g) == IsDecoder(g) /\ g.alloc = e.alloc /\ g.stride = e.stride
<1>1. ASSUME NEW e, IsDecoder(e), NEW x PROVE Kept(e, [e EXCEPT !.buf = x])
  BY <1>1 DEF IsDecoder
<1>2. ASSUME NEW e, IsDecoder(e), NEW x PROVE Kept(e, [e EXCEPT !.prev = x])
  BY <1>2 DEF IsDecoder
<1>3. PICK g : g = DrawBlock(d, m, b)
  OBVIOUS
<1>4. CASE b.pass2 /\ m.mode420
  BY <1>3, <1>4 DEF DrawBlock, convertYUVToRGBPass2
<1>5. CASE b.pass2 /\ ~ m.mode420
  <2>1. \E x : g = [d EXCEPT !.buf = x]
    BY <1>3, <1>5, Zenon DEF DrawBlock, convertYUVToRGBPass2
  <2>2. Kept(d, g)
    BY <1>1, <2>1
  <2> QED
    BY <1>3, <2>2
<1>6. CASE ~ b.pass2
  <2>1. \E x, y : g = [[d EXCEPT !.buf = x] EXCEPT !.prev = y]
    BY <1>3, <1>6, Zenon DEF DrawBlock, convertYUVtoRGB
  <2>2. PICK x, y : g = [[d EXCEPT !.buf = x] EXCEPT !.prev = y]
    BY <2>1
  <2>3. PICK e : e = [d EXCEPT !.buf = x]
    OBVIOUS
  <2>4. Kept(d, e)
    BY <1>1, <2>3
  <2>5. Kept(e, g)
    BY ZenonT(90), <1>2, <2>2, <2>3, <2>4
  <2> QED
    BY <1>3, <2>4, <2>5
<1> QED
  BY <1>4, <1>5, <1>6

\* Drawing the next block brings the picture closer to the screen.
LEMMA DrawsNext ==
  ASSUME NEW f, f.mode \in Modes, Accepted(f.mode), IsPicture(f.mode, f.screen),
         NEW d, IsDecoder(d), NEW blocks, blocks # <<>>, Draws(d, f, blocks)
  PROVE  /\ IsDecoder(DrawBlock(d, f.mode, Head(blocks)))
         /\ Draws(DrawBlock(d, f.mode, Head(blocks)), f, Tail(blocks))
<1>1. PICK m, b, e : m = f.mode /\ b = Head(blocks) /\ e = DrawBlock(d, m, b)
  OBVIOUS
<1>2. IsDecoder(e) /\ e.alloc = d.alloc /\ e.stride = d.stride
  <2>1. /\ IsDecoder(DrawBlock(d, m, b))
        /\ DrawBlock(d, m, b).alloc = d.alloc /\ DrawBlock(d, m, b).stride = d.stride
    BY DrawKeeps, Zenon
  <2> QED
    BY <1>1, <2>1
<1>3. /\ IsSeq(Tail(blocks)) /\ Len(blocks) \in Nat \ {0} /\ b = blocks[1]
      /\ DOMAIN blocks = 1..Len(blocks)
      /\ DOMAIN Tail(blocks) = 1..(Len(blocks) - 1)
      /\ \A k \in 1..(Len(blocks) - 1) : Tail(blocks)[k] = blocks[k + 1]
  BY <1>1, SeqTail DEF Draws
<1>4. PICK n \in Nat : n + 1 = Len(blocks) /\ n = Len(blocks) - 1
  <2>1. PICK l \in Nat \ {0} : l = Len(blocks)
    BY <1>3
  <2>2. l - 1 \in Nat /\ (l - 1) + 1 = l
    OBVIOUS
  <2> QED
    BY <2>1, <2>2
<1>5. PICK rest : rest = Tail(blocks)
  OBVIOUS
<1>6. /\ b = blocks[1] /\ DOMAIN blocks = 1..(n + 1) /\ DOMAIN rest = 1..n /\ IsSeq(rest)
      /\ \A k \in 1..n : rest[k] = blocks[k + 1] /\ k + 1 \in 1..(n + 1)
      /\ \A k \in 1..(n + 1) : k = 1 \/ \E j \in 1..n : k = j + 1
      /\ 1 \in 1..(n + 1)
  <2>1. \A k \in 1..(n + 1) : k = 1 \/ \E j \in 1..n : k = j + 1
    <3>1. \A k \in 1..(n + 1) : k = 1 \/ (k - 1 \in 1..n /\ k = (k - 1) + 1)
      OBVIOUS
    <3> QED
      BY <3>1
  <2>2. 1 \in 1..(n + 1) /\ \A k \in 1..n : k + 1 \in 1..(n + 1)
    OBVIOUS
  <2> QED
    BY <1>3, <1>4, <1>5, <2>1, <2>2, Zenon
<1>7. \A k \in DOMAIN rest : BlockSound(m, f.screen, rest[k])
  BY <1>1, <1>6, Zenon DEF Draws
<1>8. BlockSound(m, f.screen, b)
  <2>1. 1 \in DOMAIN blocks /\ blocks[1] = b
    BY <1>6
  <2>2. BlockSound(m, f.screen, blocks[1])
    BY <1>1, <2>1 DEF Draws
  <2> QED
    BY <2>1, <2>2
<1>9. \A p \in Pixels(m) : Touched(m, blocks, p) => Covers(m, b, p) \/ Touched(m, rest, p)
  BY ZenonT(90), <1>6 DEF Touched
<1>10. \A p \in Pixels(m) :
         Renewed(m, blocks, p) => (Covers(m, b, p) /\ ~ b.pass2) \/ Renewed(m, rest, p)
  <2> SUFFICES ASSUME NEW p \in Pixels(m),
                      NEW k \in DOMAIN blocks, Covers(m, blocks[k], p), ~ blocks[k].pass2
               PROVE  (Covers(m, b, p) /\ ~ b.pass2) \/ Renewed(m, rest, p)
    BY Zenon DEF Renewed
  <2>1. CASE k = 1
    BY <1>6, <2>1, Zenon
  <2>2. ASSUME NEW j \in 1..n, k = j + 1 PROVE Renewed(m, rest, p)
    <3>1. j \in DOMAIN rest /\ rest[j] = blocks[k]
      BY <1>6, <2>2, Zenon
    <3> QED
      BY <3>1, Zenon DEF Renewed
  <2> QED
    BY <1>6, <2>1, <2>2, Zenon
<1>11. ASSUME NEW p \in Pixels(m)
       PROVE  /\ Touched(m, rest, p) \/ e.buf[At(m, p)] = f.screen[p]
              /\ m.mode420 \/ Renewed(m, rest, p) \/ e.prev[At(m, p)] = f.screen[p].base
  <2>1. /\ Touched(m, blocks, p) \/ d.buf[At(m, p)] = f.screen[p]
        /\ m.mode420 \/ Renewed(m, blocks, p) \/ d.prev[At(m, p)] = f.screen[p].base
    BY <1>1 DEF Draws
  <2>2. /\ ~ Covers(m, b, p) => /\ e.buf[At(m, p)] = d.buf[At(m, p)]
                                /\ e.prev[At(m, p)] = d.prev[At(m, p)]
        /\ Covers(m, b, p) /\ ~ b.pass2 =>
             /\ e.buf[At(m, p)] = [base |-> Taken(m, b, p), delta |-> None]
             /\ m.mode420 \/ e.prev[At(m, p)] = Taken(m, b, p)
        /\ Covers(m, b, p) /\ b.pass2 =>
             /\ e.buf[At(m, p)] = [base |-> d.prev[At(m, p)], delta |-> Taken(m, b, p)]
             /\ e.prev[At(m, p)] = d.prev[At(m, p)]
    <3>1. m \in Modes /\ Accepted(m) /\ Width(m) * Height(m) <= d.alloc
      BY <1>1 DEF Draws
    <3>2. e = DrawBlock(d, m, b)
      BY <1>1
    <3> QED
      BY <1>8, <3>1, <3>2, DrawPixel
  <2>3. f.screen[p] = [base |-> f.screen[p].base, delta |-> f.screen[p].delta]
    BY <1>1 DEF IsPicture
  <2>4. Covers(m, b, p) =>
          /\ f.screen[p].delta = IF b.pass2 THEN Taken(m, b, p) ELSE None
          /\ b.pass2 \/ f.screen[p].base = Taken(m, b, p)
    BY <1>8 DEF BlockSound
  <2>5. CASE ~ Covers(m, b, p)
    BY <1>9, <1>10, <2>1, <2>2, <2>5
  <2>6. CASE Covers(m, b, p) /\ ~ b.pass2
    BY <2>2, <2>3, <2>4, <2>6
  <2>7. CASE Covers(m, b, p) /\ b.pass2
    <3>1. ~ m.mode420
      BY <1>8, <2>7 DEF BlockSound
    <3>2. Renewed(m, rest, p) \/ d.prev[At(m, p)] = f.screen[p].base
      BY <1>10, <2>1, <2>7, <3>1
    <3>3. Renewed(m, rest, p) => Touched(m, rest, p)
      BY DEF Renewed, Touched
    <3> QED
      BY <2>2, <2>3, <2>4, <2>7, <3>2, <3>3
  <2> QED
    BY <1>8, <2>5, <2>6, <2>7 DEF BlockSound
<1>12. Width(m) * Height(m) <= e.alloc /\ e.stride = Stride(m)
  BY <1>1, <1>2 DEF Draws
<1>13. Draws(e, f, rest)
  BY <1>1, <1>6, <1>7, <1>11, <1>12, Zenon DEF Draws
<1> QED
  BY <1>1, <1>2, <1>5, <1>13

\* The picture of a frame that is drawn is its screen.
LEMMA PictureDrawn ==
  ASSUME NEW f, f.mode \in Modes, Accepted(f.mode), IsPicture(f.mode, f.screen),
         NEW d, Draws(d, f, <<>>)
  PROVE  Picture(d, f.mode) = f.screen
<1>1. PICK m : m = f.mode
  OBVIOUS
<1>2. d.stride = m.w
  BY <1>1, ModeSizes DEF Draws
<1>3. ASSUME NEW p \in Pixels(m) PROVE d.buf[p[2] * d.stride + p[1] + 1] = f.screen[p]
  BY <1>1, <1>2 DEF Draws, Touched, At
<1>4. Picture(d, m) = [p \in Pixels(m) |-> d.buf[p[2] * d.stride + p[1] + 1]]
  BY DEF Picture, Pixels
<1>5. f.screen = [p \in Pixels(m) |-> f.screen[p]]
  BY <1>1 DEF IsPicture
<1> QED
  BY <1>1, <1>3, <1>4, <1>5

\* The buffers for a frame: of its size, and with what was there when the one
\* before was of the same mode.
LEMMA Buffers ==
  ASSUME NEW m \in Modes, Accepted(m), NEW d, IsDecoder(d), NEW e, e = ensureBuffers(d, m)
  PROVE  /\ IsDecoder(e) /\ Width(m) * Height(m) <= e.alloc /\ e.stride = Stride(m)
         /\ Width(m) * Height(m) <= d.alloc => e.buf = d.buf /\ e.prev = d.prev
<1>1. PICK n \in Nat : n = Width(m) * Height(m)
  <2>1. PICK k \in Nat, l \in Nat : k = Width(m) /\ l = Height(m)
    BY ModeSizes
  <2> QED
    BY <2>1
<1>2. CASE n > d.alloc
  <2>1. PICK x, y, z : e = [alloc |-> n, buf |-> x, prev |-> y, stride |-> z] /\ z = Stride(m)
    BY <1>1, <1>2, Zenon DEF ensureBuffers
  <2>2. PICK g : g = [alloc |-> n, buf |-> x, prev |-> y, stride |-> z]
    OBVIOUS
  <2>3. g.alloc = n /\ g.buf = x /\ g.prev = y /\ g.stride = z
    BY <2>2
  <2>4. g = [k \in {"alloc", "buf", "prev", "stride"} |-> g[k]]
    BY <2>2
  <2>5. IsDecoder(g)
    BY <2>3, <2>4, Zenon DEF IsDecoder
  <2>6. ~ (n <= d.alloc)
    BY <1>2 DEF IsDecoder
  <2>7. n <= g.alloc
    BY <2>3
  <2> QED
    BY <1>1, <2>1, <2>2, <2>3, <2>5, <2>6, <2>7, Zenon
<1>3. CASE ~ (n > d.alloc)
  BY <1>1, <1>3 DEF ensureBuffers, IsDecoder
<1> QED
  BY <1>2, <1>3

-----------------------------------------------------------------------------
(* The picture: the frames of the card.                                    *)

\* The last frame, if there is one.
LEMMA LastFrame ==
  ASSUME StreamInv, frames # <<>>
  PROVE  /\ Len(frames) \in Nat \ {0} /\ Len(frames) \in 1..Len(frames)
         /\ Latest = frames[Len(frames)] /\ Latest.mode \in Modes
<1>1. PICK l \in Nat : l = Len(frames) /\ l > 0
  BY SeqTail DEF StreamInv, FramesOK
<1>2. l \in 1..l
  BY <1>1
<1> QED
  BY <1>1, <1>2 DEF StreamInv, FramesOK, Latest

\* A frame is added that shows what its blocks bring.
LEMMA FramesAppended ==
  ASSUME StreamInv, FramesSound, NEW f, frames' = Append(frames, f),
         Accepted(f.mode) =>
           /\ FrameSound(f)
           /\ IF frames # <<>> /\ f.mode = Latest.mode THEN Builds(Latest.screen, f) ELSE Full(f)
  PROVE  FramesSound'
<1>1. /\ Len(frames) \in Nat /\ Len(frames') = Len(frames) + 1
      /\ \A i \in 1..Len(frames) : frames'[i] = frames[i]
      /\ frames'[Len(frames) + 1] = f
  BY SeqAppend DEF StreamInv, FramesOK
<1>2. PICK l \in Nat : l = Len(frames)
  BY <1>1
<1>3. frames # <<>> <=> l > 0
  BY <1>2, LastFrame
<1>4. ASSUME NEW id \in 1..(l + 1), Accepted(frames'[id].mode)
      PROVE  /\ FrameSound(frames'[id])
             /\ IF id > 1 /\ frames'[id].mode = frames'[id - 1].mode
                THEN Builds(frames'[id - 1].screen, frames'[id]) ELSE Full(frames'[id])
  <2>1. id > 1 => id - 1 \in 1..l
    OBVIOUS
  <2>2. CASE id \in 1..l
    BY <1>1, <1>2, <1>4, <2>1, <2>2 DEF FramesSound, Follows
  <2>3. CASE id = l + 1
    <3>1. frames'[id] = f
      BY <1>1, <1>2, <2>3
    <3>2. id > 1 <=> l > 0
      BY <2>3
    <3>3. id > 1 => frames'[id - 1] = Latest
      BY <1>1, <1>2, <2>1, <2>3 DEF Latest
    <3> QED
      BY <1>3, <1>4, <3>1, <3>2, <3>3
  <2>4. id \in 1..l \/ id = l + 1
    OBVIOUS
  <2> QED
    BY <2>2, <2>3, <2>4, Zenon
<1> QED
  BY <1>1, <1>2, <1>4 DEF FramesSound, Follows

\* The tile that shows a pixel is one of the picture's tiles.
LEMMA TileOf ==
  ASSUME NEW m \in Modes, Accepted(m), NEW p \in Pixels(m)
  PROVE  /\ p[1] \div TileSize(m) \in Nat /\ p[1] \div TileSize(m) < Width(m) \div TileSize(m)
         /\ p[2] \div TileSize(m) \in Nat /\ p[2] \div TileSize(m) < Height(m) \div TileSize(m)
<1>1. ASSUME NEW x, NEW v \in Nat, NEW n \in Nat, NEW c \in Nat, NEW s \in Nat \ {0},
             x \in 0..(v - 1), v <= n, n = s * c
      PROVE  x \div s \in Nat /\ x \div s < c
  <2>1. PICK a \in Nat : a = x /\ a < n
    BY <1>1
  <2>2. a \div s \in Nat /\ a % s \in 0..(s - 1) /\ a = s * (a \div s) + (a % s)
    OBVIOUS
  <2>3. PICK q \in Nat, r \in 0..(s - 1) : q = a \div s /\ a = s * q + r
    BY <2>2
  <2>4. CASE c <= q
    <3>1. s * c <= s * q
      BY <2>4, Ordering
    <3> QED
      BY <1>1, <2>1, <2>3, <3>1
  <2> QED
    BY <2>1, <2>3, <2>4
<1>2. p[1] \in 0..(m.w - 1) /\ p[2] \in 0..(m.h - 1)
  BY DEF Pixels
<1>3. p[1] \div TileSize(m) \in Nat /\ p[1] \div TileSize(m) < Width(m) \div TileSize(m)
  BY <1>1, <1>2, ModeSizes
<1>4. p[2] \div TileSize(m) \in Nat /\ p[2] \div TileSize(m) < Height(m) \div TileSize(m)
  BY <1>1, <1>2, ModeSizes
<1> QED
  BY <1>3, <1>4

\* Tiles are numbered row by row.
LEMMA TileNumber ==
  ASSUME NEW cols \in Nat \ {0}, NEW rows \in Nat, NEW tx \in 0..(cols - 1), NEW ty \in 0..(rows - 1)
  PROVE  /\ ty * cols + tx + 1 \in 1..(cols * rows)
         /\ (ty * cols + tx) % cols = tx /\ (ty * cols + tx) \div cols = ty
<1>1. cols * ty <= cols * (rows - 1) /\ cols * (rows - 1) = cols * rows - cols
  BY Ordering
<1>2. ty * cols = cols * ty /\ cols * ty \in Nat /\ cols * rows \in Nat
  OBVIOUS
<1>3. PICK k \in Nat : k = ty * cols + tx /\ k = cols * ty + tx
  BY <1>2
<1>4. k \div cols = ty /\ k % cols = tx
  BY <1>3, Quotient
<1>5. k + 1 \in 1..(cols * rows)
  BY <1>1, <1>2, <1>3
<1> QED
  BY <1>3, <1>4, <1>5

\* A frame with all tiles shows what they bring, and they are all it shows.
LEMMA FullFrame ==
  ASSUME StreamInv, FramesSound, CardFullFrame
  PROVE  /\ FramesSound' /\ sending' = 0
         /\ \E f : /\ f.mode \in Modes /\ f.parts \in Nat \ {0} /\ frames' = Append(frames, f)
                   /\ ~ (frames # <<>> /\ f.mode = Latest.mode)
<1>1. PICK n : n = Len(frames) + 1
  OBVIOUS
<1>2. PICK m, s, cols, rows, blocks, screen :
        /\ m \in Modes /\ s = TileSize(m) /\ cols = Width(m) \div s /\ rows = Height(m) \div s
        /\ blocks = [i \in 1..(cols * rows) |->
                      [tx |-> (i - 1) % cols, ty |-> (i - 1) \div cols, pass2 |-> FALSE,
                       val |-> <<n, i>>]]
        /\ screen = [p \in Pixels(m) |->
                      [base |-> <<<<n, (p[2] \div s) * cols + p[1] \div s + 1>>, p[2] % s, p[1] % s>>,
                       delta |-> None]]
        /\ frames # <<>> => Latest.mode # m
        /\ NewFrame(m, screen, blocks, m.parts)
  BY ZenonT(90), <1>1 DEF CardFullFrame, Pixels
<1>3. PICK f : f = [mode |-> m, blocks |-> blocks, parts |-> m.parts, screen |-> screen]
  OBVIOUS
<1>4. f.mode = m /\ f.blocks = blocks /\ f.parts = m.parts /\ f.screen = screen
  BY <1>3
<1>5. frames' = Append(frames, f) /\ sending' = 0
  BY <1>2, <1>3 DEF NewFrame
<1>6. ~ (frames # <<>> /\ f.mode = Latest.mode)
  BY <1>2, <1>4
<1>7. ASSUME Accepted(m) PROVE FrameSound(f) /\ Full(f)
  <2>1. /\ s \in Nat \ {0} /\ cols \in Nat \ {0} /\ rows \in Nat \ {0}
    BY <1>2, <1>7, ModeSizes
  <2>2. PICK k \in Nat : k = cols * rows
    BY <2>1
  <2>3. DOMAIN blocks = 1..k /\ IsSeq(blocks)
    <3>1. PICK B : B = {blocks[i] : i \in 1..k}
      OBVIOUS
    <3>2. DOMAIN blocks = 1..k /\ blocks = [i \in 1..k |-> blocks[i]]
      BY <1>2, <2>2
    <3>3. \A i \in 1..k : blocks[i] \in B
      BY <3>1
    <3>4. blocks \in Seq(B)
      BY <3>2, <3>3
    <3> QED
      BY <3>2, <3>4, SeqOfAny
  <2>4. ASSUME NEW i \in 1..k
        PROVE  /\ blocks[i].tx = (i - 1) % cols /\ blocks[i].ty = (i - 1) \div cols
               /\ blocks[i].pass2 = FALSE /\ blocks[i].val = <<n, i>>
    BY <1>2, <2>2
  <2>5. ASSUME NEW p \in Pixels(m)
        PROVE  /\ screen[p].base = <<<<n, (p[2] \div s) * cols + p[1] \div s + 1>>, p[2] % s, p[1] % s>>
               /\ screen[p].delta = None
    BY <1>2
  <2>6. IsPicture(m, screen)
    BY SMTT(60), <1>2 DEF IsPicture
  <2>7. ASSUME NEW i \in 1..k
        PROVE  BlockSound(m, screen, blocks[i])
    <3>1. PICK c \in Nat \ {0}, a \in Nat : c = cols /\ a = i - 1
      BY <2>1
    <3>2. /\ a % c \in 0..(c - 1) /\ a \div c \in Nat /\ a = c * (a \div c) + (a % c)
      OBVIOUS
    <3>3. PICK tx \in 0..(c - 1), ty \in Nat : tx = a % c /\ ty = a \div c /\ a = c * ty + tx
      BY <3>2
    <3>4. blocks[i].tx = tx /\ blocks[i].ty = ty
      BY <2>4, <3>1, <3>3
    <3>5. tx \in Nat /\ tx < c /\ i = ty * c + tx + 1
      BY <3>1, <3>3
    <3>6. ASSUME NEW p \in Pixels(m), Covers(m, blocks[i], p)
          PROVE  /\ screen[p].delta = None
                 /\ screen[p].base = Taken(m, blocks[i], p)
      <4>1. p[1] \div s = tx /\ p[2] \div s = ty
        BY <1>2, <3>4, <3>6 DEF Covers
      <4>2. (p[2] \div s) * cols + p[1] \div s + 1 = i
        BY <3>1, <3>5, <4>1
      <4> QED
        BY <1>2, <2>4, <2>5, <4>2 DEF Taken
    <3> QED
      BY <1>2, <2>4, <3>1, <3>4, <3>5, <3>6 DEF BlockSound
  <2>8. ASSUME NEW p \in Pixels(m)
        PROVE  Renewed(m, blocks, p)
    <3>1. PICK c \in Nat \ {0}, r \in Nat : c = cols /\ r = rows
      BY <2>1
    <3>2. PICK tx \in 0..(c - 1), ty \in 0..(r - 1) : tx = p[1] \div s /\ ty = p[2] \div s
      <4>1. PICK tx, ty : tx = p[1] \div s /\ ty = p[2] \div s
        OBVIOUS
      <4>2. tx \in Nat /\ tx < c /\ ty \in Nat /\ ty < r
        BY <1>2, <1>7, <3>1, <4>1, TileOf, Zenon
      <4>3. tx \in 0..(c - 1) /\ ty \in 0..(r - 1)
        BY <4>2
      <4> QED
        BY <4>1, <4>3
    <3>3. PICK i : i = ty * c + tx + 1
      OBVIOUS
    <3>4. i \in 1..(c * r) /\ (ty * c + tx) % c = tx /\ (ty * c + tx) \div c = ty
      BY <3>3, TileNumber
    <3>5. i - 1 = ty * c + tx
      <4>1. PICK a \in Int : a = ty * c
        OBVIOUS
      <4> QED
        BY <3>3, <4>1
    <3>6. i \in DOMAIN blocks /\ blocks[i].tx = tx /\ blocks[i].ty = ty /\ ~ blocks[i].pass2
      BY <2>2, <2>3, <2>4, <3>1, <3>4, <3>5
    <3> QED
      BY <1>2, <3>2, <3>6 DEF Renewed, Covers
  <2> QED
    BY <1>4, <2>3, <2>6, <2>7, <2>8 DEF FrameSound, Full
<1>8. FramesSound'
  BY <1>4, <1>5, <1>6, <1>7, FramesAppended
<1>9. f.mode \in Modes /\ f.parts \in Nat \ {0}
  BY <1>2, <1>4, VideoAssumption
<1> QED
  BY <1>5, <1>6, <1>8, <1>9

\* The fields of a pixel.
LEMMA Pixel ==
  ASSUME NEW x, NEW y, NEW q, q = [base |-> x, delta |-> y]
  PROVE  /\ q.base = x /\ q.delta = y /\ q = [base |-> q.base, delta |-> q.delta]
         /\ \A z : [q EXCEPT !.delta = z] = [base |-> x, delta |-> z]
OBVIOUS

\* The screen after a tile of it is changed.
LEMMA EncodedSound ==
  ASSUME NEW m, NEW pix, IsPicture(m, pix), NEW b
  PROVE  Replaces(m, pix, b, Encoded(m, pix, b))
<1>1. PICK e : e = Encoded(m, pix, b)
  OBVIOUS
<1>2. DOMAIN pix = Pixels(m)
  BY DEF IsPicture
<1>3. e = [p \in Pixels(m) |-> IF ~ Covers(m, b, p) THEN pix[p]
                               ELSE IF b.pass2 THEN [pix[p] EXCEPT !.delta = Taken(m, b, p)]
                               ELSE [base |-> Taken(m, b, p), delta |-> None]]
  BY <1>1, <1>2 DEF Encoded, Covers, Taken
<1>4. ASSUME NEW p \in Pixels(m)
      PROVE  /\ e[p] = [base |-> e[p].base, delta |-> e[p].delta]
             /\ ~ Covers(m, b, p) => e[p] = pix[p]
             /\ Covers(m, b, p) /\ b.pass2 =>
                  e[p].delta = Taken(m, b, p) /\ e[p].base = pix[p].base
             /\ Covers(m, b, p) /\ ~ b.pass2 => e[p].delta = None /\ e[p].base = Taken(m, b, p)
  <2>1. PICK x, y, at : pix[p] = [base |-> x, delta |-> y] /\ at = Taken(m, b, p)
    BY DEF IsPicture
  <2>2. pix[p].base = x
    BY <2>1, Pixel
  <2>3. CASE ~ Covers(m, b, p)
    <3>1. e[p] = pix[p]
      BY <1>3, <2>3
    <3> QED
      BY <2>1, <2>3, <3>1, Pixel
  <2>4. CASE Covers(m, b, p) /\ b.pass2
    <3>1. e[p] = [pix[p] EXCEPT !.delta = at]
      BY <1>3, <2>1, <2>4
    <3>2. e[p] = [base |-> x, delta |-> at]
      BY <2>1, <3>1, Pixel
    <3>3. e[p].base = x /\ e[p].delta = at /\ e[p] = [base |-> e[p].base, delta |-> e[p].delta]
      BY <3>2, Pixel
    <3> QED
      BY <2>1, <2>2, <2>4, <3>3, Zenon
  <2>5. CASE Covers(m, b, p) /\ ~ b.pass2
    <3>1. e[p] = [base |-> at, delta |-> None]
      BY <1>3, <2>1, <2>5
    <3>2. e[p].base = at /\ e[p].delta = None /\ e[p] = [base |-> e[p].base, delta |-> e[p].delta]
      BY <3>1, Pixel
    <3> QED
      BY <2>1, <2>5, <3>2, Zenon
  <2> QED
    BY <2>3, <2>4, <2>5
<1>5. e = [p \in Pixels(m) |-> e[p]]
  BY <1>3
<1>6. IsPicture(m, e)
  BY <1>4, <1>5 DEF IsPicture
<1> QED
  BY <1>1, <1>4, <1>6, Zenon DEF Replaces

\* A delta frame shows what its tile changes of the screen before it.
LEMMA DeltaFrame ==
  ASSUME StreamInv, FramesSound, CardDelta
  PROVE  /\ FramesSound' /\ sending' = 0 /\ sending = Parts(Len(frames))
         /\ \E f : f.mode \in Modes /\ f.parts \in Nat \ {0} /\ frames' = Append(frames, f)
<1>1. /\ frames # <<>> /\ sending = Latest.parts
      /\ Len(frames) \in 1..Len(frames) /\ Latest = frames[Len(frames)] /\ Latest.mode \in Modes
  BY LastFrame DEF CardDelta
<1>2. PICK n, m : n = Len(frames) + 1 /\ m = Latest.mode
  OBVIOUS
<1>3. PICK t, again, b :
        /\ t \in Tiles(m) /\ again \in BOOLEAN
        /\ b = [tx |-> t[1], ty |-> t[2], pass2 |-> again, val |-> <<n, 0>>]
        /\ again => ~ m.mode420
        /\ NewFrame(m, Encoded(m, Latest.screen, b), <<b>>, 1)
  BY <1>2 DEF CardDelta
<1>4. PICK pix, e : pix = Latest.screen /\ e = Encoded(m, pix, b)
  OBVIOUS
<1>5. PICK f : f = [mode |-> m, blocks |-> <<b>>, parts |-> 1, screen |-> e]
  OBVIOUS
<1>6. f.mode = m /\ f.blocks = <<b>> /\ f.parts = 1 /\ f.screen = e
  BY <1>5
<1>7. frames' = Append(frames, f) /\ sending' = 0
  BY <1>3, <1>4, <1>5 DEF NewFrame
<1>8. ASSUME Accepted(m) PROVE FrameSound(f) /\ Builds(pix, f)
  <2>1. IsPicture(m, pix)
    BY <1>1, <1>2, <1>4, <1>8 DEF FramesSound, FrameSound
  <2>2. /\ IsPicture(m, e)
        /\ \A p \in Pixels(m) :
             /\ ~ Covers(m, b, p) => e[p] = pix[p]
             /\ Covers(m, b, p) /\ b.pass2 =>
                  e[p].delta = Taken(m, b, p) /\ e[p].base = pix[p].base
             /\ Covers(m, b, p) /\ ~ b.pass2 => e[p].delta = None /\ e[p].base = Taken(m, b, p)
    <3>1. Replaces(m, pix, b, Encoded(m, pix, b))
      BY <2>1, EncodedSound, Zenon
    <3> QED
      BY <1>4, <3>1, Zenon DEF Replaces
  <2>3. b.tx = t[1] /\ b.ty = t[2] /\ b.pass2 = again
    BY <1>3
  <2>4. b.tx \in Nat /\ b.tx < Width(m) \div TileSize(m) /\ b.ty \in Nat
    <3>1. PICK c \in Nat, r \in Nat : c = Width(m) \div TileSize(m) /\ r = Height(m) \div TileSize(m)
      BY <1>1, <1>2, <1>8, ModeSizes
    <3>2. t[1] \in 0..(c - 1) /\ t[2] \in 0..(r - 1)
      BY <1>3, <3>1 DEF Tiles
    <3> QED
      BY <2>3, <3>1, <3>2
  <2>5. BlockSound(m, e, b)
    BY <1>3, <2>2, <2>3, <2>4 DEF BlockSound
  <2>6. IsSeq(f.blocks) /\ DOMAIN f.blocks = {1} /\ f.blocks[1] = b
    <3>1. PICK q : q = <<b>>
      OBVIOUS
    <3>2. q \in Seq({b}) /\ DOMAIN q = {1} /\ q[1] = b
      BY <3>1
    <3> QED
      BY <1>6, <3>1, <3>2, SeqOfAny
  <2>7. FrameSound(f)
    BY <1>6, <2>2, <2>5, <2>6, Zenon DEF FrameSound
  <2>8. ASSUME NEW p \in Pixels(m)
        PROVE  /\ Touched(m, f.blocks, p) \/ e[p] = pix[p]
               /\ Renewed(m, f.blocks, p) \/ e[p].base = pix[p].base
    <3>1. Covers(m, b, p) => Touched(m, f.blocks, p)
      BY <2>6 DEF Touched
    <3>2. Covers(m, b, p) /\ ~ b.pass2 => Renewed(m, f.blocks, p)
      BY <2>6 DEF Renewed
    <3> QED
      BY <2>2, <3>1, <3>2
  <2>9. Builds(pix, f)
    BY <1>6, <2>8 DEF Builds
  <2> QED
    BY <2>7, <2>9
<1>9. FramesSound'
  BY <1>1, <1>2, <1>4, <1>6, <1>7, <1>8, FramesAppended
<1> QED
  BY <1>1, <1>2, <1>6, <1>7, <1>9 DEF Parts

-----------------------------------------------------------------------------
(* The picture: what is handed over, and what is still to come.            *)

\* A step that does not touch the stream.
LEMMA SyncKept ==
  ASSUME Sync, UNCHANGED <<net, frames, sending, handed>>, Active' => Active
  PROVE  Sync'
BY DEF Sync, Ahead, Delivered, Completed, Follows, Handed, Fragments, Parts

\* Another message on the wire.
LEMMA SyncPut ==
  ASSUME StreamInv, Sync, NEW m, m.type # "fragment", net' = Append(net, m),
         UNCHANGED <<frames, sending, handed>>, Active' => Active
  PROVE  Sync'
<1>1. /\ \A i \in Fragments : i \in Fragments' /\ net'[i] = net[i]
      /\ \A i \in Fragments' : i \in Fragments
  BY WireAppend DEF StreamInv, FramesOK
<1>2. Ahead'
  BY <1>1 DEF Sync, Ahead, Handed, Parts
<1>3. ASSUME Delivered PROVE Delivered'
  <2>1. ASSUME NEW id \in 1..Len(frames), Completed(id)'
        PROVE  id <= Handed \/ \E i \in Fragments' : net'[i].id = id /\ net'[i].num + 1 = Parts(id)
    <3>1. Completed(id)
      BY <2>1 DEF Completed, Follows, Parts
    <3> QED
      BY <1>1, <1>3, <3>1 DEF Delivered
  <2> QED
    BY <2>1 DEF Delivered, Handed, Parts
<1> QED
  BY <1>2, <1>3 DEF Sync

\* Skipping a message that is no fragment.
LEMMA SyncSkip ==
  ASSUME StreamInv, Sync, net # <<>>, Head(net).type # "fragment", net' = Tail(net),
         UNCHANGED <<frames, sending, handed>>, Active' => Active
  PROVE  Sync'
<1>1. /\ \A i \in Fragments' : i + 1 \in Fragments /\ net'[i] = net[i + 1]
      /\ \A i \in Fragments : i - 1 \in Fragments' /\ net'[i - 1] = net[i]
  BY WireTail DEF StreamInv, FramesOK
<1>2. Ahead'
  BY <1>1 DEF Sync, Ahead, Handed, Parts
<1>3. ASSUME Delivered PROVE Delivered'
  <2>1. ASSUME NEW id \in 1..Len(frames), Completed(id)'
        PROVE  id <= Handed \/ \E i \in Fragments' : net'[i].id = id /\ net'[i].num + 1 = Parts(id)
    <3>1. Completed(id)
      BY <2>1 DEF Completed, Follows, Parts
    <3>2. CASE id <= Handed
      BY <3>2
    <3>3. ASSUME NEW i \in Fragments, net[i].id = id, net[i].num + 1 = Parts(id)
          PROVE  \E j \in Fragments' : net'[j].id = id /\ net'[j].num + 1 = Parts(id)
      BY ZenonT(90), <1>1, <3>3
    <3> QED
      BY <1>3, <3>1, <3>2, <3>3 DEF Delivered
  <2> QED
    BY <2>1 DEF Delivered, Handed, Parts
<1> QED
  BY <1>2, <1>3 DEF Sync

\* The card starts another frame: of the mode of the last one only when that
\* one is complete.
LEMMA SyncNewFrame ==
  ASSUME StreamInv, Sync, NEW f, f.parts \in Nat \ {0}, frames' = Append(frames, f), sending' = 0,
         frames # <<>> /\ f.mode = Latest.mode => sending = Parts(Len(frames)),
         UNCHANGED <<net, handed, reading>>
  PROVE  Sync'
<1>1. /\ Len(frames) \in Nat /\ Len(frames') = Len(frames) + 1
      /\ \A i \in 1..Len(frames) : frames'[i] = frames[i]
      /\ frames'[Len(frames) + 1] = f
  BY SeqAppend DEF StreamInv, FramesOK
<1>2. PICK l \in Nat : l = Len(frames)
  BY <1>1
<1>3. Handed \in 0..l /\ Handed' = Handed /\ Fragments' = Fragments
  BY <1>2 DEF Sync, Ahead, Handed, Fragments
<1>4. Ahead'
  <2>1. Handed' \in 0..(l + 1) /\ Handed' # l + 1
    BY <1>3
  <2> QED
    BY <1>1, <1>2, <1>3, <2>1 DEF Sync, Ahead
<1>5. ASSUME NEW id \in 1..(l + 1), Completed(id)' PROVE id \in 1..l /\ Completed(id)
  <2>1. CASE id = l + 1
    BY <1>1, <1>2, <1>5, <2>1 DEF Completed, Parts
  <2>2. CASE id = l /\ id # 0
    <3>1. frames # <<>> /\ Latest = frames[l]
      <4>1. frames = <<>> => Len(frames) = 0
        OBVIOUS
      <4> QED
        BY <1>2, <2>2, <4>1 DEF Latest
    <3>2. Follows(l + 1)'
      BY <1>1, <1>2, <1>5, <2>2 DEF Completed
    <3>3. frames'[l + 1].mode = frames'[l].mode
      <4>1. (l + 1) - 1 = l
        OBVIOUS
      <4> QED
        BY <3>2, <4>1 DEF Follows
    <3> QED
      BY <1>1, <1>2, <2>2, <3>1, <3>3 DEF Completed, Parts
  <2>3. CASE id \in 1..l /\ id + 1 \in 1..l
    <3>1. Follows(id + 1)'
      BY <1>1, <1>2, <1>5, <2>3 DEF Completed
    <3>2. Follows(id + 1)
      BY <1>1, <1>2, <2>3, <3>1 DEF Follows
    <3> QED
      BY <1>2, <2>3, <3>2 DEF Completed
  <2>4. id = l + 1 \/ (id = l /\ id # 0) \/ (id \in 1..l /\ id + 1 \in 1..l)
    OBVIOUS
  <2> QED
    BY <1>2, <2>1, <2>2, <2>3, <2>4
<1>6. ASSUME Delivered PROVE Delivered'
  BY <1>1, <1>2, <1>3, <1>5, <1>6 DEF Delivered, Parts, StreamInv, FragmentsSent
<1> QED
  BY <1>4, <1>6 DEF Sync, Active

\* The card sends the next fragment.
LEMMA SyncSends ==
  ASSUME StreamInv, Sync, CardSends
  PROVE  Sync'
<1>1. PICK l \in Nat, s \in Nat, k \in Nat :
        l = Len(frames) /\ s = sending /\ k = Parts(l) /\ frames # <<>> /\ s < k /\ l > 0
  <2>1. Len(frames) \in Nat \ {0} /\ Len(frames) \in 1..Len(frames) /\ Latest = frames[Len(frames)]
    BY LastFrame DEF CardSends
  <2>2. Parts(Len(frames)) \in Nat /\ sending \in Nat
    BY <2>1 DEF StreamInv, FramesOK
  <2>3. frames # <<>> /\ sending < Parts(Len(frames))
    BY <2>1 DEF CardSends, Parts
  <2> QED
    BY <2>1, <2>2, <2>3
<1>2. PICK m : m = [type |-> "fragment", id |-> l, num |-> s, last |-> s + 1 = k]
  OBVIOUS
<1>3. m.type = "fragment" /\ m.id = l /\ m.num = s
  BY <1>2
<1>4. net' = Append(net, m) /\ sending' = s + 1 /\ UNCHANGED <<frames, handed, reading>>
  BY <1>1, <1>2 DEF CardSends, Put, Latest, Parts, loopVars
<1>5. PICK n : n = Len(net) + 1
  OBVIOUS
<1>6. /\ \A i \in Fragments : i \in Fragments' /\ net'[i] = net[i]
      /\ \A i \in Fragments' : i \in Fragments \/ i = n
      /\ n \in Fragments' /\ net'[n] = m
  BY WireAppend, <1>3, <1>4, <1>5 DEF StreamInv, FramesOK
<1>7. Handed \in 0..l /\ Handed # l /\ Handed' = Handed
  BY <1>1, <1>4 DEF Sync, Ahead, Handed
<1>8. Ahead'
  <2>1. ASSUME NEW i \in Fragments' PROVE Handed < net'[i].id
    <3>1. CASE i \in Fragments
      BY <1>6, <3>1 DEF Sync, Ahead
    <3>2. CASE i = n
      BY <1>3, <1>6, <1>7, <3>2
    <3> QED
      BY <1>6, <3>1, <3>2
  <2> QED
    BY <1>1, <1>4, <1>7, <2>1 DEF Ahead
<1>9. ASSUME Delivered PROVE Delivered'
  <2>1. ASSUME NEW id \in 1..l, Completed(id)'
        PROVE  id <= Handed \/ \E i \in Fragments' : net'[i].id = id /\ net'[i].num + 1 = Parts(id)
    <3>1. CASE id = l
      <4>1. s + 1 = k
        BY <1>1, <1>4, <2>1, <3>1 DEF Completed, Parts
      <4> QED
        BY <1>1, <1>3, <1>6, <3>1, <4>1
    <3>2. CASE id # l
      <4>1. Completed(id)
        BY <1>1, <1>4, <2>1, <3>2 DEF Completed, Follows
      <4> QED
        BY <1>1, <1>6, <1>9, <2>1, <4>1 DEF Delivered
    <3> QED
      BY <3>1, <3>2
  <2> QED
    BY <1>1, <1>4, <1>7, <2>1 DEF Delivered, Parts
<1> QED
  BY <1>4, <1>8, <1>9 DEF Sync, Active

\* The last fragment of a frame that is not too long hands the frame over; a mode
\* that is not accepted leaves the decoder alone.
LEMMA HandsOver ==
  ASSUME StreamInv, ReadFragment, NEW m, m = Head(net)
  PROVE  \/ /\ m.last /\ reading' # "reporting" /\ Handed' = m.id
            /\ IF Accepted(frames[m.id].mode)
               THEN /\ reading' = "decoding" /\ todo' = frames[m.id].blocks
                    /\ decoder' = ensureBuffers(decoder, frames[m.id].mode)
               ELSE UNCHANGED <<reading, todo, decoder>>
         \/ /\ ~ m.last \/ reading' = "reporting"
            /\ reading' # "decoding" /\ UNCHANGED <<handed, todo, decoder>>
<1>1. net # <<>> /\ Head(net).type = "fragment" /\ reading = "reading"
  BY DEF ReadFragment, Arrives
<1>2. PICK all : all = Append(Before(m), [id |-> m.id, num |-> m.num])
  OBVIOUS
<1>3. all = Pieces(m.id, m.num + 1) /\ m.num \in Nat
  BY <1>1, <1>2, ReadBefore DEF Active
<1>4. PICK n \in Nat : n = m.num + 1 /\ n > 0
  BY <1>3
<1>5. Len(all) = n /\ all[1].id = m.id
  BY <1>3, <1>4, PiecesAppend
<1>6. all # <<>>
  BY <1>4, <1>5
<1>7. \/ reading' = "reporting" /\ UNCHANGED <<handed, todo, decoder>>
      \/ m.last /\ BeginDecode(all)
      \/ ~ m.last /\ UNCHANGED <<reading, handed, todo, decoder>>
  BY <1>2 DEF ReadFragment
<1>8. CASE m.last /\ BeginDecode(all)
  <2>1. Handed' = m.id
    BY <1>5, <1>6, <1>8 DEF BeginDecode, Handed
  <2>2. IF Accepted(frames[m.id].mode)
        THEN /\ reading' = "decoding" /\ todo' = frames[m.id].blocks
             /\ decoder' = ensureBuffers(decoder, frames[m.id].mode)
        ELSE UNCHANGED <<reading, todo, decoder>>
    BY <1>5, <1>8 DEF BeginDecode
  <2> QED
    BY <1>1, <1>8, <2>1, <2>2
<1> QED
  BY <1>1, <1>7, <1>8

\* readLoop takes a fragment.  The last of a frame hands that over, and nothing
\* older is on the wire.
LEMMA SyncReads ==
  ASSUME StreamInv, Sync, ReadFragment
  PROVE  Sync'
<1>1. /\ net # <<>> /\ Head(net).type = "fragment" /\ net' = Tail(net)
      /\ UNCHANGED <<frames, sending>> /\ reading = "reading"
  BY DEF ReadFragment, Arrives, cardVars
<1>2. /\ Head(net) = net[1] /\ 1 \in Fragments
      /\ Fragments \subseteq Nat /\ Fragments' \subseteq Nat \ {0}
      /\ \A i \in Fragments' : i + 1 \in Fragments /\ net'[i] = net[i + 1]
      /\ \A i \in Fragments : i = 1 \/ (i - 1 \in Fragments' /\ net'[i - 1] = net[i])
  BY WireTail, <1>1 DEF StreamInv, FramesOK
<1>3. PICK m : m = Head(net) /\ m = net[1]
  BY <1>2
<1>4. PICK l \in Nat : l = Len(frames)
  BY SeqAppend DEF StreamInv, FramesOK
<1>5. PICK id \in 1..l, k \in Nat :
        /\ id = m.id /\ k = m.num /\ k < Parts(id) /\ (m.last <=> k + 1 = Parts(id))
        /\ id = l => k < sending
  BY <1>2, <1>3, <1>4 DEF StreamInv, FragmentsSent
<1>6. Parts(id) \in Nat /\ sending \in Nat /\ (id = l => sending <= Parts(id))
  BY <1>4, LastFrame DEF StreamInv, FramesOK
<1>7. ASSUME NEW i \in Fragments'
      PROVE  /\ net'[i].id \in Nat /\ net'[i].num \in Nat /\ net'[i].num < Parts(net'[i].id)
             /\ id < net'[i].id \/ (id = net'[i].id /\ k < net'[i].num)
             /\ Handed < net'[i].id
  <2>1. i + 1 \in Fragments /\ net'[i] = net[i + 1] /\ 1 < i + 1
    BY <1>2
  <2>2. net[1].id < net[i + 1].id \/ (net[1].id = net[i + 1].id /\ net[1].num < net[i + 1].num)
    BY <1>2, <2>1, Zenon DEF StreamInv, Forward
  <2>3. /\ net[i + 1].id \in Nat /\ net[i + 1].num \in Nat
        /\ net[i + 1].num < Parts(net[i + 1].id)
    BY <1>4, <2>1 DEF StreamInv, FragmentsSent
  <2>4. Handed < net[i + 1].id
    BY <2>1 DEF Sync, Ahead
  <2> QED
    BY <1>3, <1>5, <2>1, <2>2, <2>3, <2>4
<1>8. Handed \in 0..l /\ Handed < id
  BY <1>2, <1>3, <1>4, <1>5 DEF Sync, Ahead
<1>9. ASSUME Delivered, NEW j \in 1..l, Completed(j)'
      PROVE  j <= Handed \/ (m.last /\ j = id)
             \/ \E i \in Fragments' : net'[i].id = j /\ net'[i].num + 1 = Parts(j)
  <2>1. Completed(j)
    BY <1>1, <1>9 DEF Completed, Follows, Parts
  <2>2. ASSUME NEW i \in Fragments, net[i].id = j, net[i].num + 1 = Parts(j)
        PROVE  (m.last /\ j = id)
               \/ \E a \in Fragments' : net'[a].id = j /\ net'[a].num + 1 = Parts(j)
    BY <1>2, <1>3, <1>5, <2>2
  <2> QED
    BY <1>4, <1>9, <2>1, <2>2 DEF Delivered
<1>10. CASE m.last /\ reading' # "reporting"
  <2>1. Handed' = id
    BY <1>3, <1>5, <1>10, HandsOver
  <2>2. ASSUME NEW i \in Fragments' PROVE id < net'[i].id
    BY <1>5, <1>6, <1>7, <1>10
  <2>3. id = l => sending = Parts(id)
    BY <1>5, <1>6, <1>10
  <2>4. Ahead'
    <3>1. Handed' \in 0..Len(frames')
      BY <1>1, <1>4, <2>1
    <3>2. \A i \in Fragments' : Handed' < net'[i].id
      BY <2>1, <2>2
    <3>3. Handed' = Len(frames') => sending' = Parts(Len(frames))'
      BY <1>1, <1>4, <2>1, <2>3 DEF Parts
    <3> QED
      BY <3>1, <3>2, <3>3, Zenon DEF Ahead
  <2>5. ASSUME Delivered PROVE Delivered'
    <3>1. ASSUME NEW j \in 1..l, Completed(j)'
          PROVE  j <= id \/ \E i \in Fragments' : net'[i].id = j /\ net'[i].num + 1 = Parts(j)
      BY <1>8, <1>9, <2>5, <3>1
    <3> QED
      BY <1>1, <1>4, <2>1, <3>1 DEF Delivered, Parts
  <2> QED
    BY <1>1, <2>4, <2>5 DEF Sync, Active
<1>11. CASE ~ m.last \/ reading' = "reporting"
  <2>1. handed' = handed
    BY <1>3, <1>11, HandsOver
  <2>2. Ahead'
    BY <1>1, <1>7, <2>1 DEF Sync, Ahead, Handed, Parts
  <2>3. ASSUME Delivered, ~ m.last PROVE Delivered'
    <3>1. ASSUME NEW j \in 1..l, Completed(j)'
          PROVE  j <= Handed \/ \E i \in Fragments' : net'[i].id = j /\ net'[i].num + 1 = Parts(j)
      BY <1>9, <2>3, <3>1
    <3> QED
      BY <1>1, <1>4, <2>1, <3>1 DEF Delivered, Handed, Parts
  <2> QED
    BY <1>1, <1>11, <2>2, <2>3 DEF Sync, Active
<1> QED
  BY <1>10, <1>11

\* A frame that follows another is handed over next after that one.
LEMMA Continues ==
  ASSUME StreamInv, Ahead, Delivered, net # <<>>, Head(net).type = "fragment",
         NEW id, id = Head(net).id, Follows(id)
  PROVE  Handed # 0 /\ Handed = id - 1
<1>1. 1 \in Fragments /\ Head(net) = net[1] /\ Len(net) \in Nat /\ Fragments \subseteq 1..Len(net)
  <2>1. Len(net) \in Nat /\ Len(net) > 0 /\ DOMAIN net = 1..Len(net) /\ Head(net) = net[1]
    BY SMTT(60), SeqTail DEF StreamInv, FramesOK
  <2>2. PICK n \in Nat : n = Len(net) /\ n > 0
    BY <2>1
  <2>3. 1 \in 1..n
    BY <2>2
  <2> QED
    BY <2>1, <2>2, <2>3 DEF Fragments
<1>2. PICK l \in Nat : l = Len(frames)
  BY SeqAppend DEF StreamInv, FramesOK
<1>3. id \in 1..l /\ Handed \in 0..l /\ Handed < id /\ id > 1
  BY <1>1, <1>2 DEF StreamInv, FragmentsSent, Ahead, Follows
<1>4. PICK j \in 1..l : j = id - 1 /\ j + 1 = id /\ j # l
  BY <1>3
<1>5. Completed(j)
  BY <1>2, <1>4 DEF Completed
<1>6. ASSUME NEW i \in Fragments, net[i].id = j PROVE FALSE
  <2>1. i \in Nat /\ i >= 1
    BY <1>1
  <2>2. net[1].id < net[i].id \/ net[1].id = net[i].id
    BY <1>1, <2>1 DEF StreamInv, Forward
  <2> QED
    BY <1>1, <1>3, <1>4, <1>6, <2>2
<1>7. j <= Handed
  BY <1>2, <1>5, <1>6 DEF Delivered
<1> QED
  BY SMTT(60), <1>3, <1>4, <1>7

-----------------------------------------------------------------------------
(* The picture: the decoder.                                               *)

\* The frame handed over is one of the card's.
LEMMA HandedFrame ==
  ASSUME StreamInv, Ahead, FramesSound, Handed # 0, NEW f, f = frames[Handed]
  PROVE  /\ Handed \in 1..Len(frames) /\ f.mode \in Modes
         /\ Accepted(f.mode) => FrameSound(f)
<1>1. Handed \in 1..Len(frames)
  <2>1. PICK l \in Nat : l = Len(frames)
    BY SeqAppend DEF StreamInv, FramesOK
  <2> QED
    BY <2>1 DEF Ahead
<1> QED
  BY <1>1 DEF StreamInv, FramesOK, FramesSound

\* A step of somebody else.
LEMMA DecoderKept ==
  ASSUME StreamInv, FramesSound, Ahead, DecoderInv, UNCHANGED <<handed, decoder, todo>>,
         reading' = "decoding" <=> reading = "decoding",
         frames' = frames \/ \E f : frames' = Append(frames, f)
  PROVE  DecoderInv'
<1>1. Handed' = Handed
  BY DEF Handed
<1>2. Handed # 0 => frames'[Handed] = frames[Handed]
  <2>1. Handed # 0 => Handed \in 1..Len(frames)
    BY HandedFrame
  <2>2. ASSUME NEW f, frames' = Append(frames, f)
        PROVE  \A i \in 1..Len(frames) : frames'[i] = frames[i]
    BY <2>2, SeqAppend DEF StreamInv, FramesOK
  <2> QED
    BY <2>1, <2>2
<1> QED
  BY <1>1, <1>2 DEF DecoderInv

\* The pictures shown stay those of their frames.
LEMMA ShownKept ==
  ASSUME StreamInv, ShownSound, UNCHANGED shown,
         frames' = frames \/ \E f : frames' = Append(frames, f)
  PROVE  ShownSound'
<1>1. CASE frames' = frames
  BY <1>1 DEF ShownSound
<1>2. ASSUME NEW f, frames' = Append(frames, f) PROVE ShownSound'
  <2>1. /\ Len(frames) \in Nat /\ Len(frames') = Len(frames) + 1
        /\ \A i \in 1..Len(frames) : frames'[i] = frames[i]
    BY <1>2, SeqAppend DEF StreamInv, FramesOK
  <2>2. PICK l \in Nat : l = Len(frames)
    BY <2>1
  <2>3. \A i \in 1..l : i \in 1..(l + 1)
    OBVIOUS
  <2> QED
    BY <2>1, <2>2, <2>3 DEF ShownSound
<1> QED
  BY <1>1, <1>2

\* The buffers have what a frame builds on when it is handed over.
LEMMA DrawsFirst ==
  ASSUME NEW f, f.mode \in Modes, Accepted(f.mode), FrameSound(f), NEW d, IsDecoder(d),
         \/ Full(f)
         \/ \E g : /\ g.mode = f.mode /\ Draws(d, g, <<>>) /\ Builds(g.screen, f)
  PROVE  /\ IsDecoder(ensureBuffers(d, f.mode))
         /\ Draws(ensureBuffers(d, f.mode), f, f.blocks)
<1>1. PICK m, e : m = f.mode /\ e = ensureBuffers(d, m)
  OBVIOUS
<1>2. /\ IsDecoder(e) /\ Width(m) * Height(m) <= e.alloc /\ e.stride = Stride(m)
      /\ Width(m) * Height(m) <= d.alloc => e.buf = d.buf /\ e.prev = d.prev
  BY <1>1, Buffers
<1>3. IsSeq(f.blocks) /\ \A k \in DOMAIN f.blocks : BlockSound(m, f.screen, f.blocks[k])
  BY <1>1 DEF FrameSound
<1>4. ASSUME NEW p \in Pixels(m)
      PROVE  /\ Touched(m, f.blocks, p) \/ e.buf[At(m, p)] = f.screen[p]
             /\ m.mode420 \/ Renewed(m, f.blocks, p) \/ e.prev[At(m, p)] = f.screen[p].base
  <2>1. CASE Full(f)
    <3>1. Renewed(m, f.blocks, p)
      BY <1>1, <2>1 DEF Full
    <3>2. Touched(m, f.blocks, p)
      BY <3>1 DEF Renewed, Touched
    <3> QED
      BY <3>1, <3>2
  <2>2. ASSUME NEW g, g.mode = m, Draws(d, g, <<>>), Builds(g.screen, f)
        PROVE  /\ Touched(m, f.blocks, p) \/ e.buf[At(m, p)] = f.screen[p]
               /\ m.mode420 \/ Renewed(m, f.blocks, p) \/ e.prev[At(m, p)] = f.screen[p].base
    <3>1. e.buf = d.buf /\ e.prev = d.prev
      BY <1>2, <2>2 DEF Draws
    <3>2. /\ d.buf[At(m, p)] = g.screen[p]
          /\ m.mode420 \/ d.prev[At(m, p)] = g.screen[p].base
      BY <2>2 DEF Draws, Touched, Renewed
    <3>3. /\ Touched(m, f.blocks, p) \/ f.screen[p] = g.screen[p]
          /\ Renewed(m, f.blocks, p) \/ f.screen[p].base = g.screen[p].base
      BY <1>1, <2>2 DEF Builds
    <3> QED
      BY <3>1, <3>2, <3>3
  <2> QED
    BY <1>1, <2>1, <2>2
<1>5. Draws(e, f, f.blocks)
  BY <1>1, <1>2, <1>3, <1>4, Zenon DEF Draws
<1> QED
  BY <1>1, <1>2, <1>5

\* readLoop takes a fragment.
LEMMA DecoderReads ==
  ASSUME StreamInv, FramesSound, Sync, Sync', DecoderInv, ReadFragment
  PROVE  DecoderInv'
<1>1. /\ net # <<>> /\ Head(net).type = "fragment" /\ reading = "reading" /\ frames' = frames
  BY DEF ReadFragment, Arrives, cardVars
<1>2. Ahead /\ Delivered /\ Ahead'
  BY <1>1 DEF Sync, Active
<1>3. todo = <<>> /\ IsDecoder(decoder)
  BY <1>1 DEF DecoderInv
<1>4. PICK m, id : m = Head(net) /\ id = m.id
  OBVIOUS
<1>5. PICK f : f = frames[id]
  OBVIOUS
<1>6. id \in 1..Len(frames) /\ id # 0 /\ f.mode \in Modes
  <2>1. id \in 1..Len(frames)
    BY <1>1, <1>4, ReadBefore DEF Active
  <2>2. PICK l \in Nat : l = Len(frames)
    BY SeqAppend DEF StreamInv, FramesOK
  <2> QED
    BY <1>5, <2>1, <2>2 DEF StreamInv, FramesOK
<1>7. CASE reading' # "decoding" /\ UNCHANGED <<handed, todo, decoder>>
  BY <1>1, <1>2, <1>7, DecoderKept
<1>8. CASE Handed' = id /\ ~ Accepted(f.mode) /\ UNCHANGED <<reading, todo, decoder>>
  BY <1>1, <1>3, <1>5, <1>8 DEF DecoderInv
<1>9. CASE /\ Handed' = id /\ Accepted(f.mode) /\ reading' = "decoding" /\ todo' = f.blocks
           /\ decoder' = ensureBuffers(decoder, f.mode)
  <2>1. /\ FrameSound(f)
        /\ IF Follows(id) THEN Builds(frames[id - 1].screen, f) ELSE Full(f)
    BY <1>5, <1>6, <1>9 DEF FramesSound
  <2>2. ASSUME Follows(id)
        PROVE  \E g : g.mode = f.mode /\ Draws(decoder, g, <<>>) /\ Builds(g.screen, f)
    <3>1. Handed # 0 /\ Handed = id - 1
      BY <1>1, <1>2, <1>4, <2>2, Continues
    <3>2. frames[id - 1].mode = f.mode
      BY <1>5, <2>2 DEF Follows
    <3>3. Draws(decoder, frames[id - 1], <<>>)
      BY <1>3, <1>9, <3>1, <3>2 DEF DecoderInv
    <3> QED
      BY <2>1, <2>2, <3>2, <3>3
  <2>3. PICK d : d = decoder
    OBVIOUS
  <2>4. /\ IsDecoder(ensureBuffers(d, f.mode))
        /\ Draws(ensureBuffers(d, f.mode), f, f.blocks)
    <3>1. \/ Full(f)
          \/ \E g : g.mode = f.mode /\ Draws(d, g, <<>>) /\ Builds(g.screen, f)
      BY <2>1, <2>2, <2>3
    <3> QED
      BY <1>3, <1>6, <1>9, <2>1, <2>3, <3>1, DrawsFirst
  <2> QED
    BY <1>1, <1>5, <1>6, <1>9, <2>3, <2>4 DEF DecoderInv
<1> QED
  BY <1>4, <1>5, <1>7, <1>8, <1>9, HandsOver

\* The next block.
LEMMA DecoderDraws ==
  ASSUME StreamInv, FramesSound, Ahead, DecoderInv, DecodeBlock
  PROVE  DecoderInv'
<1>1. PICK f, b : f = frames[Handed] /\ b = Head(todo)
  OBVIOUS
<1>2. reading = "decoding" /\ Handed # 0 /\ Accepted(f.mode) /\ todo # <<>>
  BY <1>1 DEF DecodeBlock, DecoderInv
<1>3. /\ UNCHANGED <<frames, handed, reading>> /\ todo' = Tail(todo)
      /\ decoder' = DrawBlock(decoder, f.mode, b)
  BY <1>1, <1>2 DEF DecodeBlock, Handed, cardVars
<1>4. f.mode \in Modes /\ FrameSound(f) /\ IsDecoder(decoder) /\ Draws(decoder, f, todo)
  BY <1>1, <1>2, HandedFrame DEF DecoderInv
<1>5. PICK d, blocks : d = decoder /\ blocks = todo
  OBVIOUS
<1>6. /\ IsDecoder(DrawBlock(d, f.mode, Head(blocks)))
      /\ Draws(DrawBlock(d, f.mode, Head(blocks)), f, Tail(blocks))
  BY <1>2, <1>4, <1>5, DrawsNext DEF FrameSound
<1>7. IsDecoder(decoder') /\ Draws(decoder', f, todo')
  BY <1>1, <1>3, <1>5, <1>6
<1>8. Handed' = Handed
  BY <1>3 DEF Handed
<1> QED
  BY <1>1, <1>2, <1>3, <1>7, <1>8 DEF DecoderInv

\* OnFrame.
LEMMA DecoderShows ==
  ASSUME StreamInv, FramesSound, Ahead, DecoderInv, ShowFrame
  PROVE  DecoderInv' /\ ShownSound'
<1>1. PICK f : f = frames[Handed]
  OBVIOUS
<1>2. reading = "decoding" /\ Handed # 0 /\ Accepted(f.mode) /\ todo = <<>>
  BY <1>1 DEF ShowFrame, DecoderInv
<1>3. /\ UNCHANGED <<frames, handed, decoder, todo>> /\ reading' = "reading"
      /\ shown' = [id |-> Handed, pix |-> Picture(decoder, f.mode)]
  BY <1>1, <1>2 DEF ShowFrame, Handed, cardVars
<1>4. Handed \in 1..Len(frames) /\ f.mode \in Modes /\ FrameSound(f) /\ Draws(decoder, f, <<>>)
  BY <1>1, <1>2, HandedFrame DEF DecoderInv
<1>5. PICK d : d = decoder
  OBVIOUS
<1>6. Picture(d, f.mode) = f.screen
  BY <1>2, <1>4, <1>5, PictureDrawn DEF FrameSound
<1>7. ShownSound'
  <2>1. shown'.id = Handed /\ shown'.pix = f.screen
    BY <1>3, <1>5, <1>6
  <2> QED
    BY <1>1, <1>3, <1>4, <2>1 DEF ShownSound
<1>8. Handed' = Handed
  BY <1>3 DEF Handed
<1>9. DecoderInv'
  BY <1>1, <1>2, <1>3, <1>8 DEF DecoderInv
<1> QED
  BY <1>7, <1>9

\* Every other step leaves the frames, the decoder and what has been shown alone,
\* and adds or takes at most a message that is no fragment.
Aside ==
  /\ UNCHANGED <<frames, sending, handed, decoder, todo, shown>>
  /\ Active' => Active
  /\ reading' = "decoding" <=> reading = "decoding"
  /\ \/ UNCHANGED net
     \/ \E m : m.type # "fragment" /\ net' = Append(net, m)
     \/ net # <<>> /\ Head(net).type # "fragment" /\ net' = Tail(net)

Main == CardFullFrame \/ CardDelta \/ CardSends \/ ReadFragment \/ DecodeBlock \/ ShowFrame

LEMMA OtherSteps == NotStarted /\ [Next]_vars => Main \/ Aside
<1> SUFFICES ASSUME NotStarted, [Next]_vars, ~ Main PROVE Aside
  OBVIOUS
<1> DEFINE Left == UNCHANGED <<frames, sending, handed, decoder, todo, shown>>
           Added == \E m : m.type # "fragment" /\ net' = Append(net, m)
           Skipped == net # <<>> /\ Head(net).type # "fragment" /\ net' = Tail(net)
<1>1. CASE CardStep
  <2>1. CardAccepts \/ CardTakes \/ CardNoise \/ CardCloses
    BY <1>1 DEF CardStep, Main
  <2>2. Left /\ UNCHANGED reading
    BY <2>1 DEF CardAccepts, CardTakes, CardNoise, CardCloses, loopVars
  <2>3. ASSUME NEW m, m.type # "fragment", Put(m) PROVE Added
    BY <2>3 DEF Put
  <2>4. ASSUME CardAccepts PROVE Added
    <3>1. [type |-> "accepted"].type # "fragment"
      OBVIOUS
    <3> QED
      BY <2>3, <2>4, <3>1 DEF CardAccepts
  <2>5. ASSUME CardTakes PROVE UNCHANGED net \/ Added
    <3>1. /\ [type |-> "stop"].type # "fragment"
          /\ \A s : [type |-> "response", status |-> s].type # "fragment"
      OBVIOUS
    <3>2. ASSUME NEW s, Put([type |-> "response", status |-> s]) PROVE Added
      BY <2>3, <3>1, <3>2
    <3>3. ASSUME Put([type |-> "stop"]) PROVE Added
      BY <2>3, <3>1, <3>3
    <3>4. \/ UNCHANGED net
          \/ Put([type |-> "response", status |-> IF card = "complete" THEN 1 ELSE 3])
          \/ Put([type |-> "stop"])
      BY <2>5 DEF CardTakes
    <3> QED
      BY <3>2, <3>3, <3>4
  <2>6. ASSUME CardNoise PROVE Added
    <3>1. [type |-> "other"].type # "fragment" /\ [type |-> "empty"].type # "fragment"
      OBVIOUS
    <3>2. Put([type |-> "other"]) \/ Put([type |-> "empty"])
      BY <2>6 DEF CardNoise
    <3> QED
      BY <2>3, <3>1, <3>2
  <2>7. ASSUME CardCloses PROVE UNCHANGED net
    BY <2>7 DEF CardCloses
  <2> QED
    BY <2>1, <2>2, <2>4, <2>5, <2>6, <2>7 DEF Aside, Active
<1>2. CASE Handshake
  <2>1. Left /\ UNCHANGED reading
    BY <1>2 DEF Handshake, HandshakeAccepted, HandshakeValid, HandshakeOther, HandshakeRefused,
                HandshakeFails, HandshakeTimeout, Fail, cardVars, loopVars
  <2>2. UNCHANGED net \/ Skipped
    BY <1>2 DEF Handshake, HandshakeAccepted, HandshakeValid, HandshakeOther, HandshakeRefused,
                HandshakeFails, HandshakeTimeout, Arrives
  <2> QED
    BY <2>1, <2>2 DEF Aside, Active
<1>3. CASE StartRun
  <2>1. Left /\ UNCHANGED net /\ reading = "off" /\ reading' = "reading"
    BY <1>3 DEF StartRun, NotStarted, cardVars
  <2> QED
    BY <2>1 DEF Aside, Active
<1>4. CASE Cancel \/ RunReturns \/ KeepAliveEnds \/ Ended \/ UNCHANGED vars
  <2>1. Left /\ UNCHANGED <<net, reading>>
    BY <1>4 DEF Cancel, RunReturns, KeepAliveEnds, Ended, vars, cardVars, loopVars
  <2> QED
    BY <2>1 DEF Aside, Active
<1>5. CASE ReadLoop
  <2>1. ReadOther \/ ReadFails \/ ReportError
    BY <1>5 DEF ReadLoop, Main
  <2>2. CASE ReadOther
    <3>1. Left /\ UNCHANGED reading /\ Skipped
      BY <2>2 DEF ReadOther, Arrives, cardVars, loopVars
    <3> QED
      BY <3>1 DEF Aside, Active
  <2>3. CASE ReadFails \/ ReportError
    <3>1. /\ Left /\ UNCHANGED net /\ reading # "decoding" /\ reading' # "decoding"
          /\ Active' => Active
      BY <2>3 DEF ReadFails, ReportError, cardVars, Active
    <3> QED
      BY <3>1 DEF Aside
  <2> QED
    BY <2>1, <2>2, <2>3
<1> QED
  BY <1>1, <1>2, <1>3, <1>4, <1>5 DEF Next

\* Every step.
LEMMA PictureStep == PictureInv /\ [Next]_vars => PictureInv'
<1> SUFFICES ASSUME PictureInv, [Next]_vars PROVE PictureInv'
  OBVIOUS
<1>1. StreamInv /\ NotStarted /\ FramesSound /\ Sync /\ Ahead /\ DecoderInv /\ ShownSound
  BY DEF PictureInv, VideoInv, Sync
<1>2. VideoInv'
  BY StreamStep DEF PictureInv
<1>3. CASE Aside
  <2>1. Sync'
    BY <1>1, <1>3, SyncKept, SyncPut, SyncSkip DEF Aside
  <2>2. FramesSound'
    BY <1>1, <1>3 DEF Aside, FramesSound, Follows
  <2>3. DecoderInv' /\ ShownSound'
    BY <1>1, <1>3, DecoderKept, ShownKept DEF Aside
  <2> QED
    BY <1>2, <2>1, <2>2, <2>3 DEF PictureInv
<1>4. CASE CardFullFrame \/ CardDelta
  <2>1. FramesSound' /\ sending' = 0
    BY <1>1, <1>4, FullFrame, DeltaFrame
  <2>2. PICK f : /\ f.parts \in Nat \ {0} /\ frames' = Append(frames, f)
                 /\ frames # <<>> /\ f.mode = Latest.mode => sending = Parts(Len(frames))
    BY <1>1, <1>4, FullFrame, DeltaFrame
  <2>3. UNCHANGED <<net, handed, reading, decoder, todo, shown>>
    BY <1>4 DEF CardFullFrame, CardDelta, NewFrame, loopVars
  <2>4. Sync'
    BY <1>1, <2>1, <2>2, <2>3, SyncNewFrame
  <2>5. DecoderInv' /\ ShownSound'
    BY <1>1, <2>2, <2>3, DecoderKept, ShownKept
  <2> QED
    BY <1>2, <2>1, <2>4, <2>5 DEF PictureInv
<1>5. CASE CardSends
  <2>1. UNCHANGED <<frames, handed, reading, decoder, todo, shown>>
    BY <1>5 DEF CardSends, loopVars
  <2>2. Sync' /\ FramesSound' /\ DecoderInv' /\ ShownSound'
    BY <1>1, <1>5, <2>1, SyncSends, DecoderKept, ShownKept DEF FramesSound, Follows
  <2> QED
    BY <1>2, <2>2 DEF PictureInv
<1>6. CASE ReadFragment
  <2>1. UNCHANGED <<frames, shown>>
    BY <1>6 DEF ReadFragment, cardVars
  <2>2. Sync' /\ FramesSound' /\ ShownSound'
    BY <1>1, <1>6, <2>1, SyncReads, ShownKept DEF FramesSound, Follows
  <2>3. DecoderInv'
    BY <1>1, <1>6, <2>2, DecoderReads
  <2> QED
    BY <1>2, <2>2, <2>3 DEF PictureInv
<1>7. CASE DecodeBlock
  <2>1. UNCHANGED <<net, frames, sending, handed, reading, shown>>
    BY <1>7 DEF DecodeBlock, cardVars
  <2>2. Sync' /\ FramesSound' /\ ShownSound'
    BY <1>1, <2>1, SyncKept, ShownKept DEF FramesSound, Follows, Active
  <2>3. DecoderInv'
    BY <1>1, <1>7, DecoderDraws
  <2> QED
    BY <1>2, <2>2, <2>3 DEF PictureInv
<1>8. CASE ShowFrame
  <2>1. UNCHANGED <<net, frames, sending, handed>> /\ (Active' => Active)
    BY <1>8 DEF ShowFrame, cardVars, Active
  <2>2. Sync' /\ FramesSound'
    BY <1>1, <2>1, SyncKept DEF FramesSound, Follows
  <2>3. DecoderInv' /\ ShownSound'
    BY <1>1, <1>8, DecoderShows
  <2> QED
    BY <1>2, <2>2, <2>3 DEF PictureInv
<1> QED
  BY <1>1, <1>3, <1>4, <1>5, <1>6, <1>7, <1>8, OtherSteps DEF Main

\* At first there is no frame.
LEMMA PictureInit == Init => PictureInv
<1> SUFFICES ASSUME Init PROVE PictureInv
  OBVIOUS
<1>1. /\ net = <<>> /\ frames = <<>> /\ handed = <<>> /\ reading = "off" /\ todo = <<>>
      /\ decoder = NewDecoder /\ shown.id = 0
  BY DEF Init
<1>2. Len(frames) = 0 /\ Fragments = {} /\ Handed = 0
  BY <1>1 DEF Fragments, Handed
<1>3. FramesSound /\ Sync /\ ShownSound
  BY <1>1, <1>2 DEF FramesSound, Sync, Ahead, Delivered, ShownSound
<1>4. IsDecoder(decoder)
  BY <1>1 DEF IsDecoder, NewDecoder
<1>5. DecoderInv
  BY <1>1, <1>2, <1>4 DEF DecoderInv
<1> QED
  BY <1>3, <1>5, StreamInit DEF PictureInv

\* Safety of the video path: every picture given to OnFrame is the host's screen as
\* it was when the card encoded the frame, in all modes, for any buffers, delta and
\* pass-2 frames and changes of mode.
THEOREM PictureSafety == Spec => []PictureMatches
<1>1. Spec => []PictureInv
  BY PictureInit, PictureStep, PTL DEF Spec
<1>2. PictureInv => PictureMatches
  BY DEF PictureInv, ShownSound, PictureMatches
<1> QED
  BY <1>1, <1>2, PTL

-----------------------------------------------------------------------------
(* The bit reader.                                                         *)

Reader == [r0 : Word, r1 : Word, index : Nat, newbits : Nat,
           pos : Nat, over : BOOLEAN, failed : BOOLEAN]

ReaderTypeOK ==
  /\ stream \in Streams
  /\ reader \in Reader
  /\ reader.newbits \in 1 .. W
  /\ reader.index \in 2 .. stream.size

RestInR1 ==
  ~reader.over =>
    \A i \in Positions :
      reader.r1[i] = IF i < reader.newbits THEN stream.word[reader.index - 1][W - reader.newbits + i]
                                           ELSE 0

ReaderInv == ReaderTypeOK /\ WindowExact /\ RestInR1

-----------------------------------------------------------------------------
\* The shifts and the or of two words are words.
LEMMA WordOps ==
  /\ \A x \in Word, b \in Nat : Shl(x, b) \in Word /\ Shr(x, b) \in Word
  /\ \A x, y \in Word : Or(x, y) \in Word
  BY WordAssumption DEF Word, Positions, Shl, Shr, Or

\* Shifting x left by b and y in behind it drops the first b bits of x y.
LEMMA AppendBits ==
  ASSUME NEW x \in Word, NEW y \in Word, NEW b \in 1 .. W, NEW i \in Positions
  PROVE  Or(Shl(x, b), Shr(y, W - b))[i] = IF i + b < W THEN x[i + b] ELSE y[i + b - W]
  <1>1. Shl(x, b)[i] = IF i + b < W THEN x[i + b] ELSE 0
    BY DEF Shl
  <1>2. Shr(y, W - b)[i] = IF i >= W - b THEN y[i - (W - b)] ELSE 0
    BY DEF Shr
  <1>3. Or(Shl(x, b), Shr(y, W - b))[i]
          = IF Shl(x, b)[i] = 1 \/ Shr(y, W - b)[i] = 1 THEN 1 ELSE 0
    BY DEF Or
  <1>4. CASE i + b < W
    <2>1. x[i + b] \in {0, 1}
      BY <1>4, WordAssumption DEF Word, Positions
    <2>2. QED
      BY <1>1, <1>2, <1>3, <1>4, <2>1, WordAssumption DEF Positions
  <1>5. CASE ~(i + b < W)
    <2>1. y[i + b - W] \in {0, 1} /\ i - (W - b) = i + b - W
      BY <1>5, WordAssumption DEF Word, Positions
    <2>2. QED
      BY <1>1, <1>2, <1>3, <1>5, <2>1, WordAssumption DEF Positions
  <1>6. QED
    BY <1>4, <1>5

\* A refill goes in behind the n bits a register holds, when zeros follow them.
LEMMA RefillBits ==
  ASSUME NEW x \in Word, NEW y \in Word, NEW n \in 1 .. W, NEW i \in Positions,
         i >= n => x[i] = 0
  PROVE  Or(x, Shr(y, n))[i] = IF i < n THEN x[i] ELSE y[i - n]
  <1>1. Shr(y, n)[i] = IF i >= n THEN y[i - n] ELSE 0
    BY DEF Shr
  <1>2. Or(x, Shr(y, n))[i] = IF x[i] = 1 \/ Shr(y, n)[i] = 1 THEN 1 ELSE 0
    BY DEF Or
  <1>3. x[i] \in {0, 1} /\ (i >= n => y[i - n] \in {0, 1})
    BY WordAssumption DEF Word, Positions
  <1>4. QED
    BY <1>1, <1>2, <1>3, WordAssumption DEF Positions

\* The words of a frame are words.
LEMMA StreamWords ==
  ASSUME stream \in Streams
  PROVE  /\ stream.size \in Nat /\ stream.size >= 2
         /\ \A i \in 0 .. stream.size - 1 : stream.word[i] \in Word
  BY StreamsAssumption

\* A register or a word of the frame is a word.
LEMMA WordAtWord ==
  ASSUME ReaderTypeOK, NEW i \in 1 .. stream.size - 1
  PROVE  WordAt(reader, i) \in Word
  BY StreamWords DEF ReaderTypeOK, Reader, WordAt

-----------------------------------------------------------------------------
\* The registers a frame starts with (decode.go:76-80) satisfy the invariant.
LEMMA InitEstablishes == ReaderInit => ReaderInv
  <1> SUFFICES ASSUME ReaderInit PROVE ReaderInv
    OBVIOUS
  <1>1. stream \in Streams /\ reader = Start(stream)
    BY DEF ReaderInit
  <1>2. stream.word[0] \in Word /\ stream.word[1] \in Word /\ stream.size \in Nat /\ stream.size >= 2
    BY <1>1, StreamWords
  <1>3. ReaderTypeOK
    BY <1>1, <1>2, WordAssumption DEF ReaderTypeOK, Reader, Start
  <1>4. WindowExact
    BY <1>1, <1>2, WordAssumption DEF WindowExact, Start, StreamBit, Positions
  <1>5. RestInR1
    BY <1>1, <1>2, WordAssumption DEF RestInR1, Start, Positions
  <1>6. QED
    BY <1>3, <1>4, <1>5 DEF ReaderInv

\* Consuming fewer bits than register 1 holds.
LEMMA ShiftPreserves ==
  ASSUME ReaderInv, NEW b \in 1 .. W, reader.newbits > b,
         reader' = Shift(reader, b), stream' = stream
  PROVE  ReaderInv'
  <1>1. /\ reader \in Reader /\ reader.newbits \in 1 .. W /\ reader.index \in 2 .. stream.size
        /\ stream \in Streams /\ W \in Nat /\ stream.size \in Nat /\ b \in Nat /\ W - b \in Nat
    BY WordAssumption, StreamWords DEF ReaderInv, ReaderTypeOK
  <1>2. /\ reader'.r0 = Or(Shl(reader.r0, b), Shr(reader.r1, W - b))
        /\ reader'.r1 = Shl(reader.r1, b)
        /\ reader'.index = reader.index /\ reader'.newbits = reader.newbits - b
        /\ reader'.pos = reader.pos + b /\ reader'.over = reader.over
    BY <1>1 DEF Shift, Reader
  <1>3. reader.r0 \in Word /\ reader.r1 \in Word
    BY <1>1 DEF Reader
  <1>4. reader'.r0 \in Word /\ reader'.r1 \in Word
    <2>1. Shl(reader.r0, b) \in Word /\ Shl(reader.r1, b) \in Word /\ Shr(reader.r1, W - b) \in Word
      BY <1>1, <1>3, WordOps
    <2>2. QED
      BY <1>2, <2>1, WordOps
  <1>5. ReaderTypeOK'
    <2>1. reader' \in Reader
      BY <1>1, <1>2, <1>4 DEF Shift, Reader
    <2>2. QED
      BY <1>1, <1>2, <2>1 DEF ReaderTypeOK
  <1>6. ASSUME NEW i \in Positions
        PROVE  /\ reader'.r0[i] = IF i + b < W THEN reader.r0[i + b] ELSE reader.r1[i + b - W]
               /\ reader'.r1[i] = IF i + b < W THEN reader.r1[i + b] ELSE 0
    BY <1>2, <1>3, AppendBits DEF Shl
  <1>7. WindowExact'
    <2>1. SUFFICES ASSUME ~reader.over
                   PROVE  /\ reader'.pos = W * (reader'.index - 2) + (W - reader'.newbits)
                          /\ \A i \in Positions :
                               reader'.r0[i] = StreamBit(stream, reader'.index - 2, W - reader'.newbits + i)
      BY <1>2 DEF WindowExact
    <2>2. reader'.pos = W * (reader'.index - 2) + (W - reader'.newbits)
      BY <1>1, <1>2, <2>1 DEF ReaderInv, WindowExact
    <2>3. ASSUME NEW i \in Positions
          PROVE  reader'.r0[i] = StreamBit(stream, reader'.index - 2, W - reader'.newbits + i)
      <3>1. CASE i + b < W
        <4>1. PICK k \in Positions : k = i + b
          BY <1>1, <3>1 DEF Positions
        <4>2. reader.r0[k] = StreamBit(stream, reader.index - 2, W - reader.newbits + k)
          BY <2>1 DEF ReaderInv, WindowExact
        <4>3. /\ W - reader'.newbits + i = W - reader.newbits + k
              /\ reader'.index - 2 = reader.index - 2
          BY <1>1, <1>2, <4>1 DEF Positions
        <4>4. reader'.r0[i] = reader.r0[k]
          BY <1>6, <3>1, <4>1
        <4>5. QED
          BY <4>2, <4>3, <4>4
      <3>2. CASE ~(i + b < W)
        <4>1. PICK k \in Positions : k = i + b - W
          BY <1>1, <3>2 DEF Positions
        <4>2. k < reader.newbits
          BY <1>1, <4>1 DEF Positions
        <4>3. reader.r1[k] = stream.word[reader.index - 1][W - reader.newbits + k]
          BY <2>1, <4>2 DEF ReaderInv, RestInR1
        <4>4. PICK o \in Nat : o = W - reader'.newbits + i /\ ~(o < W) /\ o - W = W - reader.newbits + k
          BY <1>1, <1>2, <3>2, <4>1 DEF Positions
        <4>5. reader'.index - 2 + 1 = reader.index - 1
          BY <1>1, <1>2
        <4>6. StreamBit(stream, reader'.index - 2, o) = stream.word[reader.index - 1][W - reader.newbits + k]
          BY <4>4, <4>5 DEF StreamBit
        <4>7. reader'.r0[i] = reader.r1[k]
          BY <1>6, <3>2, <4>1
        <4>8. QED
          BY <4>3, <4>4, <4>6, <4>7
      <3>3. QED
        BY <3>1, <3>2
    <2>4. QED
      BY <2>2, <2>3
  <1>8. RestInR1'
    <2>1. SUFFICES ASSUME ~reader.over, NEW i \in Positions
                   PROVE  reader'.r1[i] = IF i < reader'.newbits
                            THEN stream.word[reader'.index - 1][W - reader'.newbits + i] ELSE 0
      BY <1>2 DEF RestInR1
    <2>2. CASE i + b < W
      <3>1. PICK k \in Positions : k = i + b
        BY <1>1, <2>2 DEF Positions
      <3>2. reader.r1[k] = IF k < reader.newbits
              THEN stream.word[reader.index - 1][W - reader.newbits + k] ELSE 0
        BY <2>1 DEF ReaderInv, RestInR1
      <3>3. /\ (i < reader'.newbits) <=> (k < reader.newbits)
            /\ W - reader'.newbits + i = W - reader.newbits + k
            /\ reader'.index - 1 = reader.index - 1
        BY <1>1, <1>2, <3>1 DEF Positions
      <3>4. reader'.r1[i] = reader.r1[k]
        BY <1>6, <2>2, <3>1
      <3>5. QED
        BY <3>2, <3>3, <3>4
    <2>3. CASE ~(i + b < W)
      <3>1. ~(i < reader'.newbits)
        BY <1>1, <1>2, <2>3 DEF Positions
      <3>2. QED
        BY <1>6, <2>3, <3>1
    <2>4. QED
      BY <2>2, <2>3
  <1>9. QED
    BY <1>5, <1>7, <1>8 DEF ReaderInv

\* A refill, from the next word or, past the end, from the last one again,
\* keeps the types.
LEMMA RefillTypes ==
  ASSUME ReaderInv, NEW b \in 1 .. W, reader.newbits <= b,
         NEW i \in 1 .. stream.size - 1, i <= reader.index,
         reader' = Refill(reader, b, i), stream' = stream
  PROVE  ReaderTypeOK'
  <1>1. /\ reader \in Reader /\ reader.newbits \in 1 .. W /\ reader.index \in 2 .. stream.size
        /\ stream \in Streams /\ W \in Nat /\ stream.size \in Nat /\ b \in Nat /\ W - b \in Nat
        /\ b - reader.newbits \in Nat /\ reader.newbits \in Nat /\ i \in Nat
    BY WordAssumption, StreamWords DEF ReaderInv, ReaderTypeOK
  <1>2. reader.r0 \in Word /\ reader.r1 \in Word /\ WordAt(reader, i) \in Word
    BY <1>1, WordAtWord DEF Reader, ReaderInv
  <1>3. /\ Shl(reader.r0, b) \in Word /\ Shr(WordAt(reader, i), reader.newbits) \in Word
        /\ Shl(WordAt(reader, i), b - reader.newbits) \in Word
    BY <1>1, <1>2, WordOps
  <1>4. Or(reader.r1, Shr(WordAt(reader, i), reader.newbits)) \in Word
    BY <1>2, <1>3, WordOps
  <1>5. Shr(Or(reader.r1, Shr(WordAt(reader, i), reader.newbits)), W - b) \in Word
    BY <1>1, <1>4, WordOps
  <1>6. reader'.r0 \in Word /\ reader'.r1 \in Word
    BY <1>3, <1>5, WordOps DEF Refill
  <1>7. /\ reader'.index = i + 1 /\ reader'.newbits = W + reader.newbits - b
        /\ reader'.pos = reader.pos + b /\ reader'.failed = reader.failed
        /\ reader'.over = (reader.over \/ i < reader.index)
    BY DEF Refill
  <1>8. reader' \in Reader
    <2>1. reader'.over \in BOOLEAN /\ reader'.failed \in BOOLEAN
      BY <1>1, <1>7, Zenon DEF Reader
    <2>2. reader'.pos \in Nat /\ reader'.index \in Nat /\ reader'.newbits \in Nat
      BY <1>1, <1>7 DEF Reader
    <2>3. QED
      BY <1>6, <2>1, <2>2 DEF Refill, Reader
  <1>9. QED
    BY <1>1, <1>7, <1>8 DEF ReaderTypeOK

\* A refill from the next word shows the bits that follow.
LEMMA RefillPreserves ==
  ASSUME ReaderInv, NEW b \in 1 .. W, reader.newbits <= b, reader.index <= stream.size - 1,
         reader' = Refill(reader, b, reader.index), stream' = stream
  PROVE  ReaderInv'
  <1> DEFINE next == stream.word[reader.index]
  <1>1. /\ reader \in Reader /\ reader.newbits \in 1 .. W /\ reader.index \in 2 .. stream.size
        /\ stream \in Streams /\ W \in Nat /\ stream.size \in Nat /\ b \in Nat /\ W - b \in Nat
        /\ b - reader.newbits \in Nat /\ reader.newbits \in Nat
    BY WordAssumption, StreamWords DEF ReaderInv, ReaderTypeOK
  <1>2. reader.index \in 1 .. stream.size - 1 /\ WordAt(reader, reader.index) = next
    BY <1>1 DEF WordAt
  <1>3. ReaderTypeOK'
    BY <1>1, <1>2, RefillTypes
  <1>4. reader.r0 \in Word /\ reader.r1 \in Word /\ next \in Word
    BY <1>1, <1>2, WordAtWord DEF Reader, ReaderInv
  <1>5. /\ reader'.r0 = Or(Shl(reader.r0, b), Shr(Or(reader.r1, Shr(next, reader.newbits)), W - b))
        /\ reader'.r1 = Shl(next, b - reader.newbits)
        /\ reader'.index = reader.index + 1 /\ reader'.newbits = W + reader.newbits - b
        /\ reader'.pos = reader.pos + b
    BY <1>2 DEF Refill
  <1>6. reader'.over => reader.over \/ reader.index < reader.index
    BY DEF Refill
  <1>7. ASSUME ~reader'.over PROVE ~reader.over
    BY <1>1, <1>2, <1>6, <1>7 DEF Refill
  <1>8. ASSUME ~reader.over, NEW i \in Positions
        PROVE  reader'.r0[i] = IF i + b < W THEN reader.r0[i + b]
                               ELSE IF i + b - W < reader.newbits THEN reader.r1[i + b - W]
                               ELSE next[i + b - W - reader.newbits]
    <2> DEFINE tail == Or(reader.r1, Shr(next, reader.newbits))
    <2>1. tail \in Word
      <3>1. Shr(next, reader.newbits) \in Word
        BY <1>1, <1>4, WordOps
      <3>2. QED
        BY <1>4, <3>1, WordOps
    <2>2. reader'.r0[i] = IF i + b < W THEN reader.r0[i + b] ELSE tail[i + b - W]
      BY <1>4, <1>5, <2>1, AppendBits
    <2>3. CASE i + b < W
      BY <2>2, <2>3
    <2>4. CASE ~(i + b < W)
      <3>1. PICK k \in Positions : k = i + b - W
        BY <1>1, <2>4 DEF Positions
      <3>2. k >= reader.newbits => reader.r1[k] = 0
        BY <1>1, <1>8 DEF ReaderInv, RestInR1, Positions
      <3>3. tail[k] = IF k < reader.newbits THEN reader.r1[k] ELSE next[k - reader.newbits]
        BY <1>1, <1>4, <3>2, RefillBits
      <3>4. reader'.r0[i] = tail[k]
        BY <2>2, <2>4, <3>1
      <3>5. k - reader.newbits = i + b - W - reader.newbits
        BY <1>1, <3>1 DEF Positions
      <3>6. CASE k < reader.newbits
        BY <2>4, <3>1, <3>3, <3>4, <3>6
      <3>7. CASE ~(k < reader.newbits)
        BY <2>4, <3>1, <3>3, <3>4, <3>5, <3>7
      <3>8. QED
        BY <3>6, <3>7
    <2>5. QED
      BY <2>3, <2>4
  <1>9. ASSUME NEW i \in Positions
        PROVE  reader'.r1[i] = IF i + (b - reader.newbits) < W THEN next[i + (b - reader.newbits)] ELSE 0
    BY <1>5 DEF Shl
  <1>10. WindowExact'
    <2>1. SUFFICES ASSUME ~reader.over
                   PROVE  /\ reader'.pos = W * (reader'.index - 2) + (W - reader'.newbits)
                          /\ \A i \in Positions :
                               reader'.r0[i] = StreamBit(stream, reader'.index - 2, W - reader'.newbits + i)
      BY <1>7 DEF WindowExact
    <2>2. reader'.pos = W * (reader'.index - 2) + (W - reader'.newbits)
      BY <1>1, <1>5, <2>1 DEF ReaderInv, WindowExact
    <2>3. ASSUME NEW i \in Positions
          PROVE  reader'.r0[i] = StreamBit(stream, reader'.index - 2, W - reader'.newbits + i)
      <3>1. CASE i + b < W
        <4>1. reader.r0[i + b] = StreamBit(stream, reader.index - 2, W - reader.newbits + (i + b))
          BY <1>1, <2>1, <3>1 DEF ReaderInv, WindowExact, Positions
        <4>2. QED
          BY <1>1, <1>5, <1>8, <2>1, <3>1, <4>1 DEF StreamBit, Positions
      <3>2. CASE ~(i + b < W) /\ i + b - W < reader.newbits
        <4>1. reader.r1[i + b - W] = stream.word[reader.index - 1][W - reader.newbits + (i + b - W)]
          BY <1>1, <2>1, <3>2 DEF ReaderInv, RestInR1, Positions
        <4>2. QED
          BY <1>1, <1>5, <1>8, <2>1, <3>2, <4>1 DEF StreamBit, Positions
      <3>3. CASE ~(i + b < W) /\ ~(i + b - W < reader.newbits)
        BY <1>1, <1>5, <1>8, <2>1, <3>3 DEF StreamBit, Positions
      <3>4. QED
        BY <3>1, <3>2, <3>3
    <2>4. QED
      BY <2>2, <2>3
  <1>11. RestInR1'
    <2>1. ASSUME NEW i \in Positions
          PROVE  reader'.r1[i] = IF i < reader'.newbits
                                 THEN stream.word[reader'.index - 1][W - reader'.newbits + i] ELSE 0
      <3>1. /\ W - reader'.newbits + i = i + (b - reader.newbits)
            /\ reader'.index - 1 = reader.index
            /\ (i < reader'.newbits) <=> (i + (b - reader.newbits) < W)
        BY <1>1, <1>5 DEF Positions
      <3>2. QED
        BY <1>9, <3>1
    <2>2. QED
      BY <2>1 DEF RestInR1
  <1>12. QED
    BY <1>3, <1>10, <1>11 DEF ReaderInv

\* Past the end nothing is claimed of the window but the types still hold.
LEMMA OverrunPreserves ==
  ASSUME ReaderInv, NEW b \in 1 .. W, reader.newbits <= b, reader.index > stream.size - 1,
         reader' = Refill(reader, b, stream.size - 1), stream' = stream
  PROVE  ReaderInv'
  <1>1. stream.size \in Nat /\ stream.size >= 2 /\ reader.index \in 2 .. stream.size
    BY StreamWords DEF ReaderInv, ReaderTypeOK
  <1>2. stream.size - 1 \in 1 .. stream.size - 1 /\ stream.size - 1 < reader.index
    BY <1>1
  <1>3. ReaderTypeOK'
    BY <1>1, <1>2, RefillTypes
  <1>4. reader'.over
    BY <1>2 DEF Refill
  <1>5. QED
    BY <1>3, <1>4 DEF ReaderInv, WindowExact, RestInR1

\* The step that indexes out of range leaves the registers alone.
LEMMA FailPreserves ==
  ASSUME ReaderInv, reader' = [reader EXCEPT !.failed = TRUE], stream' = stream
  PROVE  ReaderInv'
  <1>1. /\ reader'.r0 = reader.r0 /\ reader'.r1 = reader.r1 /\ reader'.index = reader.index
        /\ reader'.newbits = reader.newbits /\ reader'.pos = reader.pos /\ reader'.over = reader.over
    BY DEF ReaderInv, ReaderTypeOK, Reader
  <1>2. ReaderTypeOK'
    BY <1>1 DEF ReaderInv, ReaderTypeOK, Reader
  <1>3. WindowExact' /\ RestInR1'
    BY <1>1 DEF ReaderInv, WindowExact, RestInR1, StreamBit
  <1>4. QED
    BY <1>2, <1>3 DEF ReaderInv

\* The reader of bitreader.go, for every word width, every frame and every
\* sequence of skipKbits and updateReadBuf of 1 to W bits: register 0 shows
\* exactly the bits that follow the ones consumed, until a word is asked for
\* that the frame does not have.
THEOREM WindowCorrect == ReaderSpec => []WindowExact
  <1>1. ReaderInv /\ [ReaderNext]_readerVars => ReaderInv'
    <2> SUFFICES ASSUME ReaderInv, [ReaderNext]_readerVars PROVE ReaderInv'
      OBVIOUS
    <2>1. CASE UNCHANGED readerVars
      BY <2>1 DEF readerVars, ReaderInv, ReaderTypeOK, WindowExact, RestInR1, StreamBit
    <2>2. ASSUME NEW b \in 1 .. W, Skip(b) PROVE ReaderInv'
      <3>1. reader' = skipKbits(reader, b) /\ stream' = stream
        BY <2>2 DEF Skip
      <3>2. CASE reader.newbits > b
        BY <3>1, <3>2, ShiftPreserves DEF skipKbits
      <3>3. CASE ~(reader.newbits > b) /\ reader.index > stream.size - 1
        <4>1. reader' = Refill(reader, b, stream.size - 1)
          BY <3>1, <3>3 DEF skipKbits
        <4>2. reader.newbits <= b
          BY <3>3, WordAssumption DEF ReaderInv, ReaderTypeOK
        <4>3. QED
          BY <3>1, <3>3, <4>1, <4>2, OverrunPreserves
      <3>4. CASE ~(reader.newbits > b) /\ ~(reader.index > stream.size - 1)
        <4>1. reader' = Refill(reader, b, reader.index)
          BY <3>1, <3>4 DEF skipKbits
        <4>2. reader.newbits <= b /\ reader.index <= stream.size - 1
          BY <3>4, WordAssumption, StreamWords DEF ReaderInv, ReaderTypeOK
        <4>3. QED
          BY <3>1, <4>1, <4>2, RefillPreserves
      <3>5. QED
        BY <3>2, <3>3, <3>4
    <2>3. ASSUME NEW b \in 1 .. W, Update(b) PROVE ReaderInv'
      <3>1. reader' = updateReadBuf(reader, b) /\ stream' = stream
        BY <2>3 DEF Update
      <3>2. CASE reader.newbits > b
        BY <3>1, <3>2, ShiftPreserves DEF updateReadBuf
      <3>3. CASE ~(reader.newbits > b) /\ reader.index > stream.size - 1
        BY <3>1, <3>3, FailPreserves DEF updateReadBuf
      <3>4. CASE ~(reader.newbits > b) /\ ~(reader.index > stream.size - 1)
        <4>1. reader' = Refill(reader, b, reader.index)
          BY <3>1, <3>4 DEF updateReadBuf
        <4>2. reader.newbits <= b /\ reader.index <= stream.size - 1
          BY <3>4, WordAssumption, StreamWords DEF ReaderInv, ReaderTypeOK
        <4>3. QED
          BY <3>1, <4>1, <4>2, RefillPreserves
      <3>5. QED
        BY <3>2, <3>3, <3>4
    <2>4. QED
      BY <2>1, <2>2, <2>3 DEF ReaderNext
  <1>2. ReaderInv => WindowExact
    BY DEF ReaderInv
  <1>3. QED
    BY InitEstablishes, <1>1, <1>2, PTL DEF ReaderSpec

================================================================================
