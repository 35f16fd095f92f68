----------------------------- MODULE VMediaProofs -----------------------------
(***************************************************************************)
(* Proofs about VMediaDevice: the cache is coherent with its backing, and  *)
(* the device it serves implements the plain medium of VMediaDisk.  They   *)
(* hold for every geometry, every backing that answers short, fails or     *)
(* applies a part of a write, and every order of commands.                 *)
(*                                                                         *)
(* The data (index against medium) and the bookkeeping (lru against index) *)
(* are independent: DataInv is what the refinement rests on, and           *)
(* ListMatchesIndex is inductive by itself.                                *)
(***************************************************************************)
EXTENDS VMediaDevice, FiniteSetTheorems, SequenceTheorems, TLAPS

-----------------------------------------------------------------------------
(* The inductive invariants.                                               *)

ReadCall ==
  [op : {"idle", "read", "done"}, off : Nat, len : Nat, got : Nat, buf : Seq(Values),
   err : {"none", "EOF", "io"}]

TypeOK ==
  /\ medium \in [Cells -> Values]
  /\ DOMAIN index \subseteq WindowStarts
  /\ index \in [DOMAIN index -> Seq(Values)]
  /\ lru \in Seq(WindowStarts)
  /\ call \in ReadCall
  /\ degraded \in BOOLEAN
  /\ cmd \in Command \cup {NoCommand}
  /\ reply \in Seq(Values)

\* The first k of n cells from off on, and Zero for the rest of a freshly made buffer.
Filled(off, n, k) == [i \in 1..n |-> IF i <= k THEN medium[off + i - 1] ELSE Zero]

\* Every cached window is a prefix of what the backing holds, a proper one only after a
\* short answer.
WindowsBacked ==
  \A w \in DOMAIN index :
    /\ Len(index[w]) <= WindowLen(w)
    /\ index[w] = Backed(w, Len(index[w]))
    /\ Len(index[w]) < WindowLen(w) => degraded

\* The ReadAt in progress is the one of the command in progress, and what it has copied so
\* far is what the medium holds.
CallMatchesCommand ==
  IF call.op = "idle"
  THEN call = NoCall
  ELSE /\ cmd.op = "read"
       /\ call.off = cmd.lba * BlockSize
       /\ call.len = cmd.blocks * BlockSize

CallFilled ==
  /\ call.buf = Filled(call.off, call.len, call.got)
  /\ call.got <= call.len
  /\ call.off + call.got <= Size \/ call.got = 0
  /\ call.op = "read" => call.off < Size /\ call.err = "none"

\* A ReadAt that is done has everything the medium has, unless the backing failed.
DoneComplete ==
  call.op = "done" => Pos(call) >= End(call) \/ degraded \/ call.err = "io"

DataInv == WindowsBacked /\ CallMatchesCommand /\ CallFilled /\ DoneComplete


-----------------------------------------------------------------------------
(* Windows.                                                                *)

\* The first cell of the window that holds cell p.
LEMMA WindowOf ==
  ASSUME NEW p \in Nat
  PROVE  /\ WinStart(p) \in Nat
         /\ WinStart(p) <= p /\ p < WinStart(p) + WindowSize
         /\ WinStart(p) % WindowSize = 0
<1>1. WindowSize \in Nat \ {0}
  BY GeometryAssumption
<1>2. PICK q \in Nat, r \in 0..(WindowSize - 1) :
        q = p \div WindowSize /\ r = p % WindowSize /\ p = (WindowSize * q) + r
  BY <1>1
<1>3. WinStart(p) = WindowSize * q
  BY <1>1, <1>2 DEF WinStart
<1>4. WindowSize * q \in Nat /\ (WindowSize * q) % WindowSize = 0
  BY <1>1
<1> QED
  BY <1>1, <1>2, <1>3, <1>4

\* Windows do not overlap: the next one starts WindowSize cells on, or later.
LEMMA WindowsApart ==
  ASSUME NEW s \in Nat, NEW t \in Nat, s % WindowSize = 0, t % WindowSize = 0, s < t
  PROVE  s + WindowSize <= t
<1>1. WindowSize \in Nat \ {0}
  BY GeometryAssumption
<1>2. PICK a \in Nat : s = WindowSize * a
  <2>1. s \div WindowSize \in Nat /\ s = (WindowSize * (s \div WindowSize)) + (s % WindowSize)
    BY <1>1
  <2>2. PICK q \in Nat : q = s \div WindowSize
    BY <2>1
  <2> QED
    BY <1>1, <2>1, <2>2
<1>3. PICK b \in Nat : t = WindowSize * b
  <2>1. t \div WindowSize \in Nat /\ t = (WindowSize * (t \div WindowSize)) + (t % WindowSize)
    BY <1>1
  <2>2. PICK q \in Nat : q = t \div WindowSize
    BY <2>1
  <2> QED
    BY <1>1, <2>1, <2>2
<1>4. a < b
  BY <1>1, <1>2, <1>3
<1>5. PICK d \in Nat : b = a + 1 + d
  BY <1>4
<1>6. t = (s + WindowSize) + (WindowSize * d)
  BY <1>1, <1>2, <1>3, <1>5
<1>7. WindowSize * d \in Nat
  BY <1>1
<1> QED
  BY <1>1, <1>6, <1>7

\* The window of a cell of the medium is a window of the medium, and reaches the cell.
LEMMA WindowOfCell ==
  ASSUME NEW p \in Nat, p < Size
  PROVE  /\ WinStart(p) \in WindowStarts
         /\ WindowLen(WinStart(p)) \in Nat
         /\ p < WinStart(p) + WindowLen(WinStart(p))
         /\ WinStart(p) + WindowLen(WinStart(p)) <= Size
<1>1. Size \in Nat /\ WindowSize \in Nat \ {0}
  BY GeometryAssumption
<1>2. PICK w \in Nat : w = WinStart(p) /\ w <= p /\ p < w + WindowSize /\ w % WindowSize = 0
  BY WindowOf
<1>3. w \in Cells
  BY <1>1, <1>2 DEF Cells
<1>4. w \in WindowStarts
  BY <1>2, <1>3 DEF WindowStarts
<1>5. /\ WindowLen(w) \in Nat
      /\ p < w + WindowLen(w)
      /\ w + WindowLen(w) <= Size
  BY <1>1, <1>2 DEF WindowLen, Lesser
<1> QED
  BY <1>2, <1>4, <1>5, Zenon

\* A window of the medium has cells, and they are cells of the medium.
LEMMA WindowLength ==
  ASSUME NEW w \in WindowStarts
  PROVE  /\ w \in Nat /\ w < Size /\ w % WindowSize = 0
         /\ WindowLen(w) \in Nat /\ WindowLen(w) <= WindowSize /\ w + WindowLen(w) <= Size
<1>1. Size \in Nat /\ WindowSize \in Nat \ {0}
  BY GeometryAssumption
<1>2. w \in Nat /\ w < Size /\ w % WindowSize = 0
  BY <1>1 DEF WindowStarts, Cells
<1> QED
  BY <1>1, <1>2 DEF WindowLen, Lesser

\* What is read of a window is a sequence of the cells asked for.
LEMMA BackedCells ==
  ASSUME medium \in [Cells -> Values], NEW w \in WindowStarts, NEW n \in 0..WindowLen(w)
  PROVE  /\ Backed(w, n) \in Seq(Values) /\ Len(Backed(w, n)) = n
         /\ \A i \in 1..n : Backed(w, n)[i] = medium[w + i - 1]
<1>1. Size \in Nat
  BY GeometryAssumption
<1>2. /\ w \in Nat /\ n \in Nat /\ w + n <= Size
  BY WindowLength, <1>1
<1>3. \A i \in 1..n : w + i - 1 \in Cells
  BY <1>1, <1>2 DEF Cells
<1>4. \A i \in 1..n : medium[w + i - 1] \in Values
  BY <1>3
<1> QED
  BY <1>2, <1>4 DEF Backed

-----------------------------------------------------------------------------
(* Lists.                                                                  *)

\* The positions of q that unlinking the elements of gone leaves.
Kept(q, gone) == {i \in DOMAIN q : q[i] \notin gone}

\* Unlinking from a list leaves the other elements, each as often as it was there.
LEMMA WithoutList ==
  ASSUME NEW S, NEW q \in Seq(S), NEW gone
  PROVE  /\ Without(q, gone) \in Seq(S)
         /\ IsFiniteSet(Kept(q, gone))
         /\ Len(Without(q, gone)) = Cardinality(Kept(q, gone))
         /\ ToSet(Without(q, gone)) = ToSet(q) \ gone
<1> DEFINE kept == {i \in DOMAIN q : q[i] \notin gone}
           Rank(i) == Cardinality(kept \cap (1..i))
           Nth(k) == CHOOSE i \in kept : Rank(i) = k
<1>1. DOMAIN q = 1..Len(q) /\ Len(q) \in Nat /\ kept \subseteq 1..Len(q)
  OBVIOUS
<1>2. IsFiniteSet(kept) /\ Cardinality(kept) \in Nat
  <2>1. IsFiniteSet(1..Len(q))
    BY <1>1, FS_Interval
  <2>2. IsFiniteSet(kept)
    BY <1>1, <2>1, FS_Subset
  <2> QED
    BY <2>2, FS_CardinalityType
<1>3. PICK N \in Nat : N = Cardinality(kept)
  BY <1>2
<1>4. Without(q, gone) = [k \in 1..N |-> q[Nth(k)]]
  BY <1>1, <1>3, Zenon DEF Without
<1>5. ASSUME NEW i \in kept PROVE Rank(i) \in 1..N
  <2>1. IsFiniteSet(kept \cap (1..i)) /\ Rank(i) <= N
    BY <1>2, <1>3, FS_Subset
  <2>2. Rank(i) \in Nat
    BY <2>1, FS_CardinalityType
  <2>3. i \in kept \cap (1..i)
    BY <1>1
  <2>4. Rank(i) # 0
    BY <2>1, <2>3, FS_EmptySet
  <2> HIDE DEF Rank
  <2> QED
    BY <2>1, <2>2, <2>4
<1>6. ASSUME NEW i \in kept, NEW j \in kept, i < j PROVE Rank(i) # Rank(j)
  <2>1. IsFiniteSet(kept \cap (1..j))
    BY <1>2, FS_Subset
  <2>2. kept \cap (1..i) \in SUBSET (kept \cap (1..j))
    BY <1>1, <1>6
  <2>3. j \in kept \cap (1..j) /\ j \notin kept \cap (1..i)
    BY <1>1, <1>6
  <2> QED
    BY <2>1, <2>2, <2>3, FS_Subset
<1> HIDE DEF Rank
<1>7. ASSUME NEW i \in kept, NEW j \in kept, Rank(i) = Rank(j) PROVE i = j
  BY <1>1, <1>6, <1>7
<1>8. \A k \in 1..N : \E i \in kept : Rank(i) = k
  <2> DEFINE f == [i \in kept |-> Rank(i)]
  <2>1. f \in Injection(kept, 1..N)
    BY <1>5, <1>7 DEF Injection, IsInjective
  <2>2. IsFiniteSet(1..N) /\ Cardinality(1..N) = N
    BY FS_Interval
  <2> HIDE DEF f
  <2>3. f \in Surjection(kept, 1..N)
    BY <1>3, <2>1, <2>2, FS_Injection
  <2> USE DEF f
  <2> QED
    BY <2>3, Zenon DEF Surjection
<1>9. ASSUME NEW k \in 1..N PROVE Nth(k) \in kept /\ Rank(Nth(k)) = k
  BY <1>8, <1>9, Zenon
<1>10. ASSUME NEW i \in kept PROVE \E k \in 1..N : Nth(k) = i
  BY <1>5, <1>7, <1>9, Zenon
<1> HIDE DEF Nth
<1>11. \A k \in 1..N : q[Nth(k)] \in S /\ q[Nth(k)] \notin gone
  BY <1>1, <1>9
<1>12. Without(q, gone) \in Seq(S) /\ Len(Without(q, gone)) = N
  BY <1>4, <1>11
<1>13. ToSet(Without(q, gone)) = {q[Nth(k)] : k \in 1..N}
  BY <1>4, Zenon DEF ToSet
<1>14. ToSet(q) = {q[i] : i \in 1..Len(q)}
  BY <1>1, Zenon DEF ToSet
<1>15. ToSet(Without(q, gone)) = ToSet(q) \ gone
  BY <1>1, <1>9, <1>10, <1>13, <1>14
<1> QED
  BY <1>2, <1>3, <1>12, <1>15, Zenon DEF Kept

\* The positions of a list.
LEMMA UpTo == \A n \in Nat : IsFiniteSet(1..n) /\ Cardinality(1..n) = n
BY FS_Interval

\* A list that holds a set, each element once.
Lists(q, T) == ToSet(q) = T /\ Len(q) = Cardinality(T)

\* A list as long as its set of elements is large has no element twice.
LEMMA ListedOnce ==
  ASSUME NEW S, NEW q \in Seq(S), NEW T, Lists(q, T)
  PROVE  /\ IsFiniteSet(T) /\ Cardinality(T) = Len(q)
         /\ \A i, j \in 1..Len(q) : q[i] = q[j] => i = j
<1>1. q \in [1..Len(q) -> S] /\ Len(q) \in Nat /\ DOMAIN q = 1..Len(q)
  OBVIOUS
<1>2. IsFiniteSet(1..Len(q)) /\ Cardinality(1..Len(q)) = Len(q)
  BY <1>1, UpTo, Zenon
<1>3. q \in Surjection(1..Len(q), T)
  <2>1. T = {q[i] : i \in 1..Len(q)}
    BY <1>1, Zenon DEF Lists, ToSet
  <2> QED
    BY <1>1, <2>1 DEF Surjection
<1>4. q \in Injection(1..Len(q), T)
  BY <1>2, <1>3, FS_SurjSameCardinalityImpliesInj DEF Lists
<1>5. IsFiniteSet(T)
  BY <1>2, <1>3, FS_Surjection
<1> QED
  BY <1>4, <1>5 DEF Injection, IsInjective, Lists

\* A list without repetition lists its elements.
LEMMA ListsOnce ==
  ASSUME NEW S, NEW q \in Seq(S), \A i, j \in 1..Len(q) : q[i] = q[j] => i = j
  PROVE  Lists(q, ToSet(q)) /\ IsFiniteSet(ToSet(q))
<1>1. q \in [1..Len(q) -> S] /\ Len(q) \in Nat /\ DOMAIN q = 1..Len(q)
  OBVIOUS
<1>2. IsFiniteSet(1..Len(q)) /\ Cardinality(1..Len(q)) = Len(q)
  BY <1>1, UpTo, Zenon
<1>3. ToSet(q) = {q[i] : i \in 1..Len(q)}
  BY <1>1, Zenon DEF ToSet
<1>4. q \in Bijection(1..Len(q), ToSet(q))
  BY <1>1, <1>3 DEF Bijection, Injection, Surjection, IsInjective
<1>5. ExistsBijection(1..Len(q), ToSet(q))
  BY <1>4, Zenon DEF ExistsBijection
<1> QED
  BY <1>2, <1>5, FS_Bijection DEF Lists

\* Unlinking from a list of a set gives a list of what is left of it.
LEMMA WithoutLists ==
  ASSUME NEW S, NEW q \in Seq(S), NEW T, Lists(q, T), NEW gone
  PROVE  Without(q, gone) \in Seq(S) /\ Lists(Without(q, gone), T \ gone)
<1> DEFINE kept == Kept(q, gone)
<1>1. /\ Without(q, gone) \in Seq(S)
      /\ IsFiniteSet(kept) /\ Len(Without(q, gone)) = Cardinality(kept)
      /\ ToSet(Without(q, gone)) = T \ gone
  <2>1. ToSet(q) = T
    BY DEF Lists
  <2> QED
    BY <2>1, WithoutList, Zenon
<1>2. DOMAIN q = 1..Len(q) /\ \A i, j \in 1..Len(q) : q[i] = q[j] => i = j
  BY ListedOnce
<1>3. T \ gone = {q[i] : i \in kept}
  BY DEF Lists, ToSet, Kept
<1> DEFINE f == [i \in kept |-> q[i]]
<1>4. f \in Bijection(kept, T \ gone)
  BY <1>2, <1>3 DEF Kept, Bijection, Injection, Surjection, IsInjective
<1>5. ExistsBijection(kept, T \ gone)
  BY <1>4, Zenon DEF ExistsBijection
<1>6. Cardinality(T \ gone) = Cardinality(kept)
  BY <1>1, <1>5, FS_Bijection
<1> QED
  BY <1>1, <1>6 DEF Lists

\* Putting a new element in front.
LEMMA FrontLists ==
  ASSUME NEW S, NEW q \in Seq(S), NEW T, Lists(q, T), NEW w \in S, w \notin T
  PROVE  <<w>> \o q \in Seq(S) /\ Lists(<<w>> \o q, T \cup {w})
<1>1. PICK r : r = <<w>> \o q
  OBVIOUS
<1>2. /\ Len(<<w>>) = 1 /\ <<w>> \in Seq(S) /\ <<w>>[1] = w
  OBVIOUS
<1>3. /\ r \in Seq(S) /\ Len(r) = 1 + Len(q)
      /\ \A i \in 1..(1 + Len(q)) : r[i] = IF i <= 1 THEN <<w>>[i] ELSE q[i - 1]
  BY <1>1, <1>2, ConcatProperties
<1>4. PICK n \in Nat : n = Len(q)
  OBVIOUS
<1>5. r[1] = w /\ \A i \in 1..n : r[i + 1] = q[i]
  BY <1>2, <1>3, <1>4
<1>6. ToSet(r) = T \cup {w}
  <2>1. DOMAIN r = 1..(n + 1) /\ DOMAIN q = 1..n
    BY <1>3, <1>4
  <2>2. ToSet(r) = {r[i] : i \in 1..(n + 1)} /\ T = {q[i] : i \in 1..n}
    BY <2>1, Zenon DEF ToSet, Lists
  <2>3. \A i \in 1..(n + 1) : i = 1 \/ \E j \in 1..n : i = j + 1
    OBVIOUS
  <2>4. 1 \in 1..(n + 1) /\ \A j \in 1..n : j + 1 \in 1..(n + 1)
    OBVIOUS
  <2>5. ASSUME NEW x \in ToSet(r) PROVE x = w \/ x \in T
    <3>1. PICK i \in 1..(n + 1) : x = r[i]
      BY <2>2, <2>5, Zenon
    <3>2. CASE i = 1
      BY <1>5, <3>1, <3>2, Zenon
    <3>3. CASE \E j \in 1..n : i = j + 1
      <4>1. PICK j \in 1..n : i = j + 1
        BY <3>3, Zenon
      <4>2. x = q[j]
        BY <1>5, <3>1, <4>1, Zenon
      <4> QED
        BY <2>2, <4>2, Zenon
    <3> QED
      BY <2>3, <3>2, <3>3, Zenon
  <2>6. ASSUME NEW x \in T PROVE x \in ToSet(r)
    <3>1. PICK j \in 1..n : x = q[j]
      BY <2>2, <2>6, Zenon
    <3>2. x = r[j + 1]
      BY <1>5, <3>1, Zenon
    <3> QED
      BY <2>2, <2>4, <3>2, Zenon
  <2>7. w \in ToSet(r)
    BY <1>5, <2>2, <2>4, Zenon
  <2> QED
    BY <2>5, <2>6, <2>7, Zenon
<1>7. Cardinality(T \cup {w}) = n + 1
  <2>1. IsFiniteSet(T) /\ Cardinality(T) = n
    BY <1>4, ListedOnce, Zenon
  <2> QED
    BY <2>1, FS_AddElement
<1> QED
  BY <1>1, <1>3, <1>4, <1>6, <1>7 DEF Lists

\* Dropping the last element.
LEMMA BackLists ==
  ASSUME NEW S, NEW q \in Seq(S), NEW T, Lists(q, T), T # {}
  PROVE  Last(q) \in T /\ Front(q) \in Seq(S) /\ Lists(Front(q), T \ {Last(q)})
<1>1. PICK n \in Nat : n = Len(q)
  OBVIOUS
<1>2. DOMAIN q = 1..n /\ T = {q[i] : i \in 1..n}
  BY <1>1 DEF Lists, ToSet
<1>3. n > 0
  BY <1>1, <1>2
<1>4. /\ Front(q) \in Seq(S) /\ Len(Front(q)) = n - 1
      /\ \A i \in 1..(n - 1) : Front(q)[i] = q[i]
  <2>1. \A i \in 1..(n - 1) : q[i] \in S
    BY <1>1, <1>3
  <2>2. /\ SubSeq(q, 1, n - 1) \in Seq(S)
        /\ Len(SubSeq(q, 1, n - 1)) = IF 1 <= n - 1 THEN n - 1 - 1 + 1 ELSE 0
        /\ \A i \in 1..(n - 1 - 1 + 1) : SubSeq(q, 1, n - 1)[i] = q[1 + i - 1]
    BY <1>3, <2>1, SubSeqProperties
  <2>3. Front(q) = SubSeq(q, 1, n - 1)
    BY <1>1 DEF Front
  <2> QED
    BY <1>3, <2>2, <2>3
<1>5. Last(q) = q[n] /\ n \in 1..n /\ Last(q) \in T
  BY <1>1, <1>2, <1>3 DEF Last
<1>6. \A i, j \in 1..n : q[i] = q[j] => i = j
  BY <1>1, ListedOnce
<1>7. ToSet(Front(q)) = T \ {Last(q)}
  <2>1. DOMAIN Front(q) = 1..(n - 1)
    BY <1>3, <1>4
  <2>2. ToSet(Front(q)) = {q[i] : i \in 1..(n - 1)}
    BY <1>4, <2>1 DEF ToSet
  <2>3. \A i \in 1..n : i \in 1..(n - 1) <=> i # n
    BY <1>3
  <2>4. \A i \in 1..(n - 1) : i \in 1..n
    BY <1>3
  <2>5. ASSUME NEW x \in ToSet(Front(q)) PROVE x \in T /\ x # Last(q)
    <3>1. PICK i \in 1..(n - 1) : x = q[i]
      BY <2>2, <2>5, Zenon
    <3>2. i \in 1..n /\ i # n
      BY <2>3, <2>4, Zenon
    <3> QED
      BY <1>2, <1>5, <1>6, <3>1, <3>2, Zenon
  <2>6. ASSUME NEW x \in T, x # Last(q) PROVE x \in ToSet(Front(q))
    <3>1. PICK i \in 1..n : x = q[i]
      BY <1>2, <2>6, Zenon
    <3>2. i \in 1..(n - 1)
      BY <1>5, <2>3, <2>6, <3>1, Zenon
    <3> QED
      BY <2>2, <3>1, <3>2, Zenon
  <2> QED
    BY <2>5, <2>6, Zenon
<1>8. Cardinality(T \ {Last(q)}) = n - 1
  <2>1. IsFiniteSet(T) /\ Cardinality(T) = n
    BY <1>1, ListedOnce, Zenon
  <2> QED
    BY <1>5, <2>1, FS_RemoveElement
<1> QED
  BY <1>4, <1>5, <1>7, <1>8 DEF Lists

-----------------------------------------------------------------------------
(* ReadAt.                                                                 *)

\* A buffer that holds the first k of n cells from off on.
LEMMA FilledCells ==
  ASSUME medium \in [Cells -> Values], NEW off \in Nat, NEW n \in Nat, NEW k \in 0..n,
         off + k <= Size \/ k = 0
  PROVE  Filled(off, n, k) \in Seq(Values) /\ Len(Filled(off, n, k)) = n
<1>1. Size \in Nat /\ Zero \in Values
  BY GeometryAssumption, ValuesAssumption
<1>2. \A i \in 1..n : i <= k => off + i - 1 \in Cells
  BY <1>1 DEF Cells
<1>3. \A i \in 1..n : (IF i <= k THEN medium[off + i - 1] ELSE Zero) \in Values
  BY <1>1, <1>2
<1> QED
  BY <1>3 DEF Filled

\* One turn of the loop copies cells of the medium to their place, and stops only when the
\* window that should hold the next cell is short.
LEMMA CopyFills ==
  ASSUME medium \in [Cells -> Values], NEW c \in ReadCall, NEW win \in Seq(Values),
         c.buf = Filled(c.off, c.len, c.got), c.got <= c.len,
         c.op = "read", c.err = "none", c.off < Size, Pos(c) < End(c),
         Len(win) <= WindowLen(WinStart(Pos(c))),
         win = Backed(WinStart(Pos(c)), Len(win)),
         NEW d, d = CopyFrom(c, WinStart(Pos(c)), win)
  PROVE  /\ d \in ReadCall /\ d.off = c.off /\ d.len = c.len
         /\ d.buf = Filled(d.off, d.len, d.got)
         /\ d.got <= d.len /\ d.off + d.got <= Size
         /\ \/ d.op = "read" /\ d.err = "none"
            \/ d.op = "done" /\ Len(win) < WindowLen(WinStart(Pos(c)))
<1>1. Size \in Nat
  BY GeometryAssumption
<1>2. PICK off \in Nat, len \in Nat, got \in Nat, n \in Nat :
        off = c.off /\ len = c.len /\ got = c.got /\ n = Len(win)
  BY DEF ReadCall
<1>3. PICK e \in Nat : e = End(c) /\ e <= Size /\ e <= off + len
  BY <1>1, <1>2 DEF End, Lesser
<1>4. PICK p \in Nat : p = Pos(c) /\ p = off + got /\ p < e
  BY <1>2, <1>3 DEF Pos
<1>5. p < Size
  BY <1>1, <1>3, <1>4
<1>6. PICK w \in Nat : w = WinStart(p) /\ w <= p
  BY WindowOf
<1>7. PICK wl \in Nat : wl = WindowLen(w) /\ p < w + wl /\ w \in WindowStarts
  BY <1>5, <1>6, WindowOfCell
<1>8. n <= wl /\ win = Backed(w, n) /\ d = CopyFrom(c, w, win)
  BY <1>2, <1>4, <1>6, <1>7, Zenon
<1>9. PICK inWin \in Nat : inWin = p - w
  BY <1>6
<1>10. CASE inWin >= n
  <2>1. d = Finish(c)
    BY <1>2, <1>4, <1>8, <1>9, <1>10 DEF CopyFrom
  <2>2. d = [c EXCEPT !.op = "done", !.err = "EOF"]
    <3>1. got < len
      BY <1>3, <1>4
    <3>2. c.got < c.len
      BY <1>2, <3>1
    <3> QED
      BY <2>1, <3>2, Zenon DEF Finish
  <2>3. d \in ReadCall /\ d.off = c.off /\ d.len = c.len /\ d.got = c.got /\ d.buf = c.buf
        /\ d.op = "done"
    BY <2>2 DEF ReadCall
  <2>4. n < wl
    BY <1>7, <1>9, <1>10
  <2>5. d.got <= d.len /\ d.off + d.got <= Size
    BY <1>1, <1>2, <1>3, <1>4, <2>3
  <2> QED
    BY <1>2, <1>4, <1>6, <1>7, <2>3, <2>4, <2>5
<1>11. CASE inWin < n
  <2>1. PICK m \in Nat : m = Lesser(n - inWin, e - p) /\ m <= n - inWin /\ m <= e - p
    <3>1. n - inWin \in Nat /\ e - p \in Nat
      BY <1>4, <1>11
    <3>2. PICK x \in Nat, y \in Nat : x = n - inWin /\ y = e - p
      BY <3>1
    <3>3. Lesser(x, y) \in Nat /\ Lesser(x, y) <= x /\ Lesser(x, y) <= y
      BY DEF Lesser
    <3> QED
      BY <3>2, <3>3, Zenon
  <2>2. d = Copied(c, win, inWin, m)
    <3>1. ~ (inWin >= n)
      BY <1>11
    <3> QED
      BY <1>2, <1>3, <1>4, <1>8, <1>9, <2>1, <3>1, Zenon DEF CopyFrom
  <2> DEFINE b == [i \in 1..len |-> IF i \in (got + 1)..(got + m)
                                    THEN win[inWin + i - got] ELSE c.buf[i]]
  <2>3. d = [c EXCEPT !.got = got + m, !.buf = b]
    BY <1>2, <2>2 DEF Copied, ReadCall
  <2>4. got + m \in 0..len /\ off + (got + m) <= Size /\ got + m \in Nat
    <3>1. off + got + m <= e
      BY <1>4, <2>1
    <3> QED
      BY <1>1, <1>3, <3>1
  <2>5. b = Filled(off, len, got + m)
    <3>1. ASSUME NEW i \in 1..len
          PROVE  b[i] = IF i <= got + m THEN medium[off + i - 1] ELSE Zero
      <4>1. c.buf[i] = IF i <= got THEN medium[off + i - 1] ELSE Zero
        BY <1>2 DEF Filled
      <4>2. CASE i \in (got + 1)..(got + m)
        <5>1. PICK j \in 1..n : j = inWin + i - got
          BY <1>9, <2>1, <4>2
        <5>2. b[i] = win[j]
          BY <4>2, <5>1
        <5>3. win[j] = medium[w + j - 1]
          BY <1>8 DEF Backed
        <5>4. w + j - 1 = off + i - 1
          BY <1>4, <1>9, <5>1
        <5> QED
          BY <2>1, <4>2, <5>2, <5>3, <5>4
      <4>3. CASE i \notin (got + 1)..(got + m)
        <5>1. b[i] = c.buf[i]
          BY <4>3
        <5>2. i <= got \/ ~ (i <= got + m)
          BY <2>1, <4>3
        <5>3. i <= got => i <= got + m
          BY <2>1
        <5> QED
          BY <4>1, <5>1, <5>2, <5>3
      <4> QED
        BY <4>2, <4>3
    <3> QED
      BY <3>1 DEF Filled
  <2>6. b \in Seq(Values)
    <3>1. PICK k \in 0..len : k = got + m
      BY <2>4
    <3> HIDE DEF b
    <3> QED
      BY <2>4, <2>5, <3>1, FilledCells
  <2> HIDE DEF b
  <2>7. d \in ReadCall /\ d.off = c.off /\ d.len = c.len /\ d.got = got + m /\ d.buf = b
        /\ d.op = c.op /\ d.err = c.err
    BY <2>3, <2>4, <2>6 DEF ReadCall
  <2> QED
    BY <1>2, <2>4, <2>5, <2>7
<1> QED
  BY <1>9, <1>10, <1>11

-----------------------------------------------------------------------------
(* The steps of the cache.                                                 *)

\* What a command is made of.
LEMMA CommandTypes ==
  ASSUME NEW c \in Command \cup {NoCommand}
  PROVE  /\ c.lba \in Nat /\ c.blocks \in Nat /\ c.val \in Values
         /\ c.op \in {"read", "write", "other", "none"}
         /\ c.lba * BlockSize \in Nat /\ c.blocks * BlockSize \in Nat
         /\ c.op = "none" <=> c = NoCommand
<1>1. /\ c.lba \in Nat /\ c.blocks \in Nat /\ c.val \in Values
      /\ c.op \in {"read", "write", "other", "none"}
      /\ c.op = "none" <=> c = NoCommand
  <2>1. Size \in Nat /\ BlockSize \in Nat \ {0} /\ MaxBlocks \in Nat /\ Zero \in Values
    BY GeometryAssumption, BlockAssumption, ValuesAssumption
  <2>2. Size \div BlockSize \in Nat
    BY <2>1
  <2>3. LastLBA \in Nat
    BY <2>2 DEF LastLBA
  <2>4. CASE c \in Read
    BY <2>1, <2>3, <2>4 DEF Read, NoCommand
  <2>5. CASE c \in Write
    BY <2>1, <2>3, <2>5 DEF Write, NoCommand
  <2>6. CASE c \in Other
    BY <2>1, <2>6 DEF Other, NoCommand
  <2>7. CASE c = NoCommand
    BY <2>1, <2>7 DEF NoCommand
  <2> QED
    BY <2>4, <2>5, <2>6, <2>7 DEF Command
<1>2. BlockSize \in Nat
  BY BlockAssumption
<1>3. PICK lba \in Nat, blocks \in Nat : lba = c.lba /\ blocks = c.blocks
  BY <1>1
<1>4. lba * BlockSize \in Nat /\ blocks * BlockSize \in Nat
  BY <1>2
<1> QED
  BY <1>1, <1>3, <1>4

\* A new window is backed, and those that stay still are.
LEMMA InsertBacked ==
  ASSUME TypeOK, WindowsBacked, NEW w \in WindowStarts, NEW got \in 0..WindowLen(w),
         Insert(w, Backed(w, got)), medium' = medium,
         degraded' = (degraded \/ got < WindowLen(w))
  PROVE  /\ DOMAIN index' \subseteq WindowStarts /\ index' \in [DOMAIN index' -> Seq(Values)]
         /\ WindowsBacked' /\ degraded' \in BOOLEAN
<1>1. /\ Backed(w, got) \in Seq(Values) /\ Len(Backed(w, got)) = got
      /\ WindowLen(w) \in Nat
  BY BackedCells, WindowLength DEF TypeOK
<1>2. PICK stay \in SUBSET (DOMAIN index \cup {w}) :
        index' = [s \in stay |-> IF s = w THEN Backed(w, got) ELSE index[s]]
  BY DEF Insert
<1>3. DOMAIN index' = stay /\ \A s \in stay : s = w \/ (s # w /\ s \in DOMAIN index)
  BY <1>2
<1>4. DOMAIN index' \subseteq WindowStarts
  BY <1>3 DEF TypeOK
<1>5. \A s \in DOMAIN index : index[s] \in Seq(Values)
  BY DEF TypeOK
<1>6. \A s \in stay : index'[s] = IF s = w THEN Backed(w, got) ELSE index[s]
  BY <1>2
<1>7. index' \in [DOMAIN index' -> Seq(Values)]
  BY <1>1, <1>2, <1>3, <1>5
<1>8. WindowsBacked'
  <2>1. ASSUME NEW s \in stay
        PROVE  /\ Len(index'[s]) <= WindowLen(s)
               /\ index'[s] = Backed(s, Len(index'[s]))
               /\ Len(index'[s]) < WindowLen(s) => degraded'
    <3>1. CASE s = w
      <4>1. index'[s] = Backed(s, got) /\ Len(index'[s]) = got
        BY <1>1, <1>6, <3>1
      <4>2. got \in Nat /\ got <= WindowLen(w)
        BY <1>1
      <4>3. got < WindowLen(w) => degraded'
        BY Zenon
      <4> QED
        BY <3>1, <4>1, <4>2, <4>3, Zenon
    <3>2. CASE s # w
      <4>1. s \in DOMAIN index /\ index'[s] = index[s]
        BY <1>3, <1>6, <3>2
      <4>2. degraded => degraded'
        BY Zenon
      <4> QED
        BY <4>1, <4>2, Zenon DEF WindowsBacked
    <3> QED
      BY <3>1, <3>2
  <2>2. \A s, n : Backed(s, n)' = Backed(s, n)
    BY DEF Backed
  <2> QED
    BY <1>3, <2>1 DEF WindowsBacked, Backed
<1>9. degraded' \in BOOLEAN
  BY DEF TypeOK
<1> QED
  BY <1>4, <1>7, <1>8, <1>9

\* The list and the map gain the window and lose the same one.
LEMMA InsertListed ==
  ASSUME TypeOK, ListMatchesIndex, NEW w \in WindowStarts, w \notin DOMAIN index,
         NEW data, Insert(w, data)
  PROVE  lru' \in Seq(WindowStarts) /\ ListMatchesIndex'
<1> DEFINE T == DOMAIN index
<1>1. lru \in Seq(WindowStarts) /\ Lists(lru, T) /\ Cardinality(T) <= MaxWindows
  BY DEF TypeOK, ListMatchesIndex, Lists
<1>2. IsFiniteSet(T) /\ Cardinality(T) \in Nat /\ MaxWindows \in Nat \ {0}
  BY <1>1, ListedOnce, GeometryAssumption
<1>3. CASE Cardinality(T) >= MaxWindows
  <2>1. T # {}
    BY <1>2, <1>3, FS_EmptySet
  <2>2. /\ Last(lru) \in T /\ Front(lru) \in Seq(WindowStarts)
        /\ Lists(Front(lru), T \ {Last(lru)})
    BY <1>1, <2>1, BackLists
  <2>3. lru' = <<w>> \o Front(lru) /\ DOMAIN index' = (T \cup {w}) \ {Last(lru)}
    BY <1>3 DEF Insert
  <2>4. DOMAIN index' = (T \ {Last(lru)}) \cup {w} /\ w \notin T \ {Last(lru)}
    BY <2>2, <2>3
  <2>5. lru' \in Seq(WindowStarts) /\ Lists(lru', DOMAIN index')
    BY <2>2, <2>3, <2>4, FrontLists
  <2>6. Cardinality(T \ {Last(lru)}) = Cardinality(T) - 1 /\ IsFiniteSet(T \ {Last(lru)})
    BY <1>2, <2>2, FS_RemoveElement
  <2>7. Cardinality(DOMAIN index') = Cardinality(T)
    <3>1. PICK rest : rest = T \ {Last(lru)}
      OBVIOUS
    <3>2. Cardinality(rest \cup {w}) = Cardinality(rest) + 1
      BY <2>4, <2>6, <3>1, FS_AddElement
    <3> QED
      BY <1>2, <2>4, <2>6, <3>1, <3>2
  <2> QED
    BY <1>1, <2>5, <2>7 DEF ListMatchesIndex, Lists
<1>4. CASE ~ (Cardinality(T) >= MaxWindows)
  <2>1. lru' = <<w>> \o lru /\ DOMAIN index' = T \cup {w}
    BY <1>4 DEF Insert
  <2>2. lru' \in Seq(WindowStarts) /\ Lists(lru', DOMAIN index')
    BY <1>1, <2>1, FrontLists
  <2>3. Cardinality(DOMAIN index') = Cardinality(T) + 1
    BY <1>2, <2>1, FS_AddElement
  <2>4. Cardinality(DOMAIN index') <= MaxWindows
    BY <1>2, <1>4, <2>3
  <2> QED
    BY <2>2, <2>4 DEF ListMatchesIndex, Lists
<1> QED
  BY <1>3, <1>4

\* MoveToFront only reorders the list.
LEMMA HitListed ==
  ASSUME TypeOK, ListMatchesIndex, NEW w \in DOMAIN index,
         lru' = <<w>> \o Without(lru, {w}), index' = index
  PROVE  lru' \in Seq(WindowStarts) /\ ListMatchesIndex'
<1> DEFINE T == DOMAIN index
<1>1. lru \in Seq(WindowStarts) /\ Lists(lru, T) /\ w \in WindowStarts
  BY DEF TypeOK, ListMatchesIndex, Lists
<1>2. Without(lru, {w}) \in Seq(WindowStarts) /\ Lists(Without(lru, {w}), T \ {w})
  BY <1>1, WithoutLists
<1>3. w \notin T \ {w} /\ (T \ {w}) \cup {w} = T
  OBVIOUS
<1>4. lru' \in Seq(WindowStarts) /\ Lists(lru', (T \ {w}) \cup {w})
  BY <1>1, <1>2, <1>3, FrontLists
<1> QED
  BY <1>3, <1>4 DEF ListMatchesIndex, Lists

\* invalidate unlinks the same windows from both.
LEMMA InvalidateListed ==
  ASSUME TypeOK, ListMatchesIndex, NEW gone, Invalidate(gone)
  PROVE  lru' \in Seq(WindowStarts) /\ ListMatchesIndex'
<1> DEFINE T == DOMAIN index
<1>1. lru \in Seq(WindowStarts) /\ Lists(lru, T) /\ Cardinality(T) <= MaxWindows
  BY DEF TypeOK, ListMatchesIndex, Lists
<1>2. DOMAIN index' = T \ gone /\ lru' = Without(lru, gone)
  BY DEF Invalidate
<1>3. lru' \in Seq(WindowStarts) /\ Lists(lru', DOMAIN index')
  BY <1>1, <1>2, WithoutLists
<1>4. IsFiniteSet(T) /\ Cardinality(T) \in Nat
  BY <1>1, ListedOnce
<1>5. IsFiniteSet(T \ gone) /\ Cardinality(T \ gone) <= Cardinality(T)
  BY <1>4, FS_Subset
<1>6. Cardinality(T \ gone) \in Nat /\ MaxWindows \in Nat
  BY <1>5, FS_CardinalityType, GeometryAssumption
<1>7. Cardinality(DOMAIN index') <= MaxWindows
  BY <1>1, <1>2, <1>4, <1>5, <1>6
<1> QED
  BY <1>3, <1>7 DEF ListMatchesIndex, Lists

\* A cell of a window that a write does not touch keeps its contents.
LEMMA Untouched ==
  ASSUME NEW w \in WindowStarts, NEW off \in Nat, NEW n \in Nat, NEW k \in 0..n,
         w \notin Touched(off, n), NEW c \in Nat, w <= c, c < w + WindowLen(w)
  PROVE  ~ (off <= c /\ c < off + k)
<1>1. /\ w \in Nat /\ w % WindowSize = 0 /\ WindowLen(w) \in Nat /\ WindowLen(w) <= WindowSize
      /\ WindowSize \in Nat
  BY WindowLength, GeometryAssumption
<1>2. PICK s \in Nat : s = WinStart(off) /\ s <= off /\ s % WindowSize = 0
  BY WindowOf
<1>3. n = 0 \/ w < s \/ off + n <= w
  BY <1>1, <1>2 DEF Touched
<1>4. CASE w < s
  <2>1. w + WindowSize <= s
    BY <1>1, <1>2, <1>4, WindowsApart
  <2> QED
    BY <1>1, <1>2, <2>1
<1> QED
  BY <1>1, <1>3, <1>4

\* Write-through with invalidation keeps every window that stays backed, however much of the
\* write the backing applied.
LEMMA WriteBacked ==
  ASSUME TypeOK, WindowsBacked, NEW off \in Nat, NEW n \in Nat, NEW val \in Values,
         WriteAt(off, n, val)
  PROVE  /\ medium' \in [Cells -> Values]
         /\ DOMAIN index' \subseteq WindowStarts /\ index' \in [DOMAIN index' -> Seq(Values)]
         /\ WindowsBacked'
<1>1. PICK k \in 0..n :
        medium' = [c \in Cells |-> IF off <= c /\ c < off + k THEN val ELSE medium[c]]
  BY DEF WriteAt
<1>2. medium' \in [Cells -> Values]
  BY <1>1 DEF TypeOK
<1>3. /\ index' = [s \in DOMAIN index \ Touched(off, n) |-> index[s]]
      /\ degraded' = degraded
  BY DEF WriteAt, Invalidate
<1>4. DOMAIN index' = DOMAIN index \ Touched(off, n)
  BY <1>3
<1>5. DOMAIN index' \subseteq WindowStarts /\ index' \in [DOMAIN index' -> Seq(Values)]
  BY <1>3, <1>4 DEF TypeOK
<1>6. WindowsBacked'
  <2>1. ASSUME NEW w \in DOMAIN index'
        PROVE  /\ Len(index'[w]) <= WindowLen(w)
               /\ index'[w] = [i \in 1..Len(index'[w]) |-> medium'[w + i - 1]]
               /\ Len(index'[w]) < WindowLen(w) => degraded'
    <3>1. w \in DOMAIN index /\ w \notin Touched(off, n) /\ index'[w] = index[w]
      BY <1>3, <1>4
    <3>2. /\ Len(index[w]) <= WindowLen(w)
          /\ index[w] = Backed(w, Len(index[w]))
          /\ Len(index[w]) < WindowLen(w) => degraded
      BY <3>1 DEF WindowsBacked
    <3>3. w \in WindowStarts /\ index[w] \in Seq(Values)
      BY <3>1 DEF TypeOK
    <3>4. PICK l \in Nat : l = Len(index[w])
      BY <3>3
    <3>5. PICK wl \in Nat : wl = WindowLen(w) /\ w \in Nat /\ w + wl <= Size /\ Size \in Nat
      BY <3>3, WindowLength, GeometryAssumption
    <3>6. ASSUME NEW i \in 1..l PROVE medium'[w + i - 1] = medium[w + i - 1]
      <4>1. PICK c \in Nat : c = w + i - 1 /\ w <= c /\ c < w + wl
        BY SMTT(60), <3>2, <3>4, <3>5
      <4>2. c \in Cells
        BY <3>5, <4>1 DEF Cells
      <4>3. ~ (off <= c /\ c < off + k)
        BY <3>1, <3>3, <3>5, <4>1, Untouched
      <4> QED
        BY <1>1, <4>1, <4>2, <4>3
    <3>7. index[w] = [i \in 1..l |-> medium'[w + i - 1]]
      BY <3>2, <3>4, <3>6 DEF Backed
    <3> QED
      BY <1>3, <3>1, <3>2, <3>4, <3>7, Zenon
  <2> QED
    BY <2>1 DEF WindowsBacked, Backed
<1> QED
  BY <1>2, <1>5, <1>6

-----------------------------------------------------------------------------
(* Every step keeps the invariant.                                         *)

Inv == TypeOK /\ ListMatchesIndex /\ DataInv

\* A fresh device has an empty cache and no call.
LEMMA InvInit == Init => Inv
<1> SUFFICES ASSUME Init PROVE Inv
  OBVIOUS
<1>1. /\ index = <<>> /\ lru = <<>> /\ call = NoCall /\ degraded = FALSE
      /\ medium \in [Cells -> Values] /\ cmd = NoCommand /\ reply = <<>>
  BY DEF Init, CacheInit
<1>2. DOMAIN index = {} /\ ToSet(lru) = {} /\ Len(lru) = 0
  BY <1>1 DEF ToSet
<1>3. NoCall \in ReadCall /\ NoCall.op = "idle" /\ NoCall.buf = <<>> /\ NoCall.off = 0
      /\ NoCall.len = 0 /\ NoCall.got = 0
  BY DEF NoCall, ReadCall
<1>4. TypeOK
  <2>1. index \in [DOMAIN index -> Seq(Values)]
    BY <1>1, <1>2
  <2>2. lru \in Seq(WindowStarts) /\ reply \in Seq(Values) /\ DOMAIN index \subseteq WindowStarts
    BY <1>1, <1>2
  <2> QED
    BY <1>1, <1>3, <2>1, <2>2, Zenon DEF TypeOK
<1>5. ListMatchesIndex
  BY <1>2, FS_EmptySet, GeometryAssumption DEF ListMatchesIndex
<1>6. Filled(0, 0, 0) = <<>>
  BY DEF Filled
<1>7. WindowsBacked /\ CallMatchesCommand /\ DoneComplete
  BY <1>1, <1>2, <1>3 DEF WindowsBacked, CallMatchesCommand, DoneComplete
<1>8. CallFilled
  BY <1>1, <1>3, <1>6 DEF CallFilled
<1> QED
  BY <1>4, <1>5, <1>7, <1>8 DEF Inv, DataInv

\* A step that leaves the medium, the cache and the read alone.
LEMMA CacheKept ==
  ASSUME Inv, UNCHANGED <<medium, cacheVars, degraded>>
  PROVE  /\ medium' \in [Cells -> Values]
         /\ DOMAIN index' \subseteq WindowStarts /\ index' \in [DOMAIN index' -> Seq(Values)]
         /\ lru' \in Seq(WindowStarts) /\ degraded' \in BOOLEAN
         /\ ListMatchesIndex' /\ WindowsBacked'
  BY DEF Inv, DataInv, TypeOK, ListMatchesIndex, WindowsBacked, Backed, cacheVars

\* The parts of the invariant put together.
LEMMA InvParts ==
  ASSUME medium' \in [Cells -> Values],
         DOMAIN index' \subseteq WindowStarts, index' \in [DOMAIN index' -> Seq(Values)],
         lru' \in Seq(WindowStarts), degraded' \in BOOLEAN, call' \in ReadCall,
         cmd' \in Command \cup {NoCommand}, reply' \in Seq(Values),
         ListMatchesIndex', WindowsBacked', CallMatchesCommand', CallFilled', DoneComplete'
  PROVE  Inv'
  BY DEF Inv, DataInv, TypeOK

\* A call that is idle is sound.
LEMMA IdleSound ==
  ASSUME call' = NoCall
  PROVE  call' \in ReadCall /\ CallMatchesCommand' /\ CallFilled' /\ DoneComplete'
<1>1. NoCall \in ReadCall /\ NoCall.op = "idle" /\ NoCall.buf = <<>> /\ NoCall.off = 0
      /\ NoCall.len = 0 /\ NoCall.got = 0
  BY DEF NoCall, ReadCall
<1>2. Filled(0, 0, 0)' = <<>>
  BY DEF Filled
<1>3. CallFilled'
  BY <1>1, <1>2 DEF CallFilled
<1> QED
  BY <1>1, <1>3 DEF CallMatchesCommand, DoneComplete

\* A turn of ReadAt's loop over a backed window keeps the call sound.
LEMMA CopySound ==
  ASSUME Inv, InLoop, NEW win \in Seq(Values),
         Len(win) <= WindowLen(WinStart(Pos(call))),
         win = Backed(WinStart(Pos(call)), Len(win)),
         call' = CopyFrom(call, WinStart(Pos(call)), win),
         Len(win) < WindowLen(WinStart(Pos(call))) => degraded',
         UNCHANGED <<medium, cmd>>
  PROVE  call' \in ReadCall /\ CallMatchesCommand' /\ CallFilled' /\ DoneComplete'
<1>1. /\ medium \in [Cells -> Values] /\ call \in ReadCall
      /\ call.buf = Filled(call.off, call.len, call.got) /\ call.got <= call.len
      /\ call.op = "read" /\ call.err = "none" /\ call.off < Size /\ Pos(call) < End(call)
  BY DEF Inv, DataInv, TypeOK, CallFilled, InLoop
<1>2. PICK d : d = CopyFrom(call, WinStart(Pos(call)), win) /\ call' = d
  OBVIOUS
<1>3. /\ d \in ReadCall /\ d.off = call.off /\ d.len = call.len
      /\ d.buf = Filled(d.off, d.len, d.got)
      /\ d.got <= d.len /\ d.off + d.got <= Size
      /\ \/ d.op = "read" /\ d.err = "none"
         \/ d.op = "done" /\ Len(win) < WindowLen(WinStart(Pos(call)))
  BY <1>1, <1>2, CopyFills
<1>4. CallMatchesCommand'
  BY <1>1, <1>2, <1>3 DEF Inv, DataInv, CallMatchesCommand
<1>5. CallFilled'
  <2>1. Filled(d.off, d.len, d.got)' = Filled(d.off, d.len, d.got)
    BY DEF Filled
  <2>2. call'.buf = [i \in 1..call'.len |-> IF i <= call'.got THEN medium'[call'.off + i - 1]
                                            ELSE Zero]
    BY <1>2, <1>3 DEF Filled
  <2>3. /\ call'.got <= call'.len /\ call'.off + call'.got <= Size
        /\ call'.op = "read" => call'.off < Size /\ call'.err = "none"
    BY <1>1, <1>2, <1>3
  <2> QED
    BY <2>2, <2>3 DEF CallFilled, Filled
<1>6. DoneComplete'
  BY <1>2, <1>3 DEF DoneComplete
<1> QED
  BY <1>2, <1>3, <1>4, <1>5, <1>6

\* The parts of the invariant a step of the call leaves alone.
LEMMA CommandKept ==
  ASSUME Inv, UNCHANGED <<cmd, reply>>
  PROVE  cmd' \in Command \cup {NoCommand} /\ reply' \in Seq(Values)
  BY DEF Inv, TypeOK

\* A hit copies from a window that is backed.
LEMMA HitKeeps == Inv /\ WindowHit /\ UNCHANGED <<cmd, reply>> => Inv'
<1> SUFFICES ASSUME Inv, WindowHit, UNCHANGED <<cmd, reply>> PROVE Inv'
  OBVIOUS
<1>1. PICK w : w = WinStart(Pos(call))
  OBVIOUS
<1>2. /\ InLoop /\ w \in DOMAIN index /\ lru' = <<w>> \o Without(lru, {w})
      /\ call' = CopyFrom(call, w, index[w]) /\ UNCHANGED <<medium, index, degraded>>
  BY <1>1 DEF WindowHit
<1>3. TypeOK /\ ListMatchesIndex /\ WindowsBacked
  BY DEF Inv, DataInv
<1>4. lru' \in Seq(WindowStarts) /\ ListMatchesIndex'
  BY <1>2, <1>3, HitListed
<1>5. index[w] \in Seq(Values)
  BY <1>2, <1>3 DEF TypeOK
<1>6. /\ Len(index[w]) <= WindowLen(w) /\ index[w] = Backed(w, Len(index[w]))
      /\ Len(index[w]) < WindowLen(w) => degraded'
  BY <1>2, <1>3, Zenon DEF WindowsBacked
<1>7. call' \in ReadCall /\ CallMatchesCommand' /\ CallFilled' /\ DoneComplete'
  BY <1>1, <1>2, <1>5, <1>6, CopySound
<1>8. /\ medium' \in [Cells -> Values]
      /\ DOMAIN index' \subseteq WindowStarts /\ index' \in [DOMAIN index' -> Seq(Values)]
      /\ degraded' \in BOOLEAN
  BY <1>2, <1>3 DEF TypeOK
<1>9. WindowsBacked'
  BY <1>2, <1>3 DEF WindowsBacked, Backed
<1> QED
  BY <1>4, <1>7, <1>8, <1>9, CommandKept, InvParts, Zenon

\* The read of a window of the medium starts inside it.
LEMMA LoopWindow ==
  ASSUME Inv, InLoop
  PROVE  WinStart(Pos(call)) \in WindowStarts
<1>1. call \in ReadCall /\ Pos(call) < End(call) /\ Size \in Nat
  BY GeometryAssumption DEF Inv, TypeOK, InLoop
<1>2. PICK off \in Nat, len \in Nat, got \in Nat :
        off = call.off /\ len = call.len /\ got = call.got
  BY <1>1 DEF ReadCall
<1>3. PICK p \in Nat : p = Pos(call)
  BY <1>2 DEF Pos
<1>4. p < Size
  BY <1>1, <1>2, <1>3 DEF End, Lesser
<1> QED
  BY <1>3, <1>4, WindowOfCell

\* A miss puts a backed window in and copies from it.
LEMMA MissKeeps == Inv /\ WindowMiss /\ UNCHANGED <<cmd, reply>> => Inv'
<1> SUFFICES ASSUME Inv, WindowMiss, UNCHANGED <<cmd, reply>> PROVE Inv'
  OBVIOUS
<1>1. PICK w : w = WinStart(Pos(call))
  OBVIOUS
<1>2. InLoop /\ w \notin DOMAIN index /\ medium' = medium
  BY <1>1 DEF WindowMiss
<1>3. PICK got \in 0..WindowLen(w) :
        /\ Insert(w, Backed(w, got)) /\ call' = CopyFrom(call, w, Backed(w, got))
        /\ degraded' = (degraded \/ got < WindowLen(w))
  BY <1>1, Zenon DEF WindowMiss
<1>4. w \in WindowStarts
  BY <1>1, <1>2, LoopWindow
<1>5. TypeOK /\ ListMatchesIndex /\ WindowsBacked
  BY DEF Inv, DataInv
<1>6. lru' \in Seq(WindowStarts) /\ ListMatchesIndex'
  BY <1>2, <1>3, <1>4, <1>5, InsertListed
<1>7. /\ DOMAIN index' \subseteq WindowStarts /\ index' \in [DOMAIN index' -> Seq(Values)]
      /\ WindowsBacked' /\ degraded' \in BOOLEAN
  BY <1>2, <1>3, <1>4, <1>5, InsertBacked
<1>8. medium \in [Cells -> Values] /\ medium' \in [Cells -> Values]
  BY <1>2, <1>5 DEF TypeOK
<1>9. Backed(w, got) \in Seq(Values) /\ Len(Backed(w, got)) = got
  BY <1>4, <1>8, BackedCells
<1>10. got <= WindowLen(w)
  BY <1>4, WindowLength
<1>11. got < WindowLen(w) => degraded'
  BY <1>3, Zenon
<1>12. call' \in ReadCall /\ CallMatchesCommand' /\ CallFilled' /\ DoneComplete'
  BY <1>1, <1>2, <1>3, <1>9, <1>10, <1>11, CopySound
<1> QED
  BY <1>6, <1>7, <1>8, <1>12, CommandKept, InvParts, Zenon

\* A call that ends, in full, at the end of the medium or with the backing's error, keeps
\* what it has copied.
LEMMA EndKeeps == Inv /\ (WindowError \/ EndReadAt) /\ UNCHANGED <<cmd, reply>> => Inv'
<1> SUFFICES ASSUME Inv, WindowError \/ EndReadAt, UNCHANGED <<cmd, reply>> PROVE Inv'
  OBVIOUS
<1>1. UNCHANGED <<medium, cacheVars, degraded>> /\ call.op = "read"
  BY DEF WindowError, EndReadAt, InLoop
<1>2. call \in ReadCall
  BY DEF Inv, TypeOK
<1>3. PICK e \in {"none", "EOF", "io"} :
        /\ call' = [call EXCEPT !.op = "done", !.err = e]
        /\ e = "io" \/ Pos(call) >= End(call)
  BY DEF WindowError, EndReadAt, Finish
<1>4. /\ call' \in ReadCall /\ call'.op = "done" /\ call'.err = e /\ call'.off = call.off
      /\ call'.len = call.len /\ call'.got = call.got /\ call'.buf = call.buf
  BY <1>2, <1>3 DEF ReadCall
<1>5. CallMatchesCommand'
  BY <1>1, <1>4 DEF Inv, DataInv, CallMatchesCommand
<1>6. CallFilled'
  BY <1>1, <1>4 DEF Inv, DataInv, CallFilled, Filled
<1>7. DoneComplete'
  BY <1>3, <1>4 DEF DoneComplete, Pos, End
<1> QED
  BY <1>1, <1>4, <1>5, <1>6, <1>7, CacheKept, CommandKept, InvParts, Zenon

\* A READ starts with a zero-filled buffer.
LEMMA ReadKeeps == Inv /\ HandleRead => Inv'
<1> SUFFICES ASSUME Inv, HandleRead PROVE Inv'
  OBVIOUS
<1>1. PICK off, n : off = cmd.lba * BlockSize /\ n = cmd.blocks * BlockSize
  OBVIOUS
<1>2. off \in Nat /\ n \in Nat /\ medium \in [Cells -> Values] /\ Size \in Nat
  BY <1>1, CommandTypes, GeometryAssumption DEF Inv, TypeOK
<1>3. /\ cmd.op = "read" /\ UNCHANGED <<cmd, reply>> /\ UNCHANGED <<medium, cacheVars, degraded>>
      /\ call' = [op  |-> IF off >= Size THEN "done" ELSE "read",
                  off |-> off, len |-> n, got |-> 0,
                  buf |-> [i \in 1..n |-> Zero],
                  err |-> IF off >= Size THEN "EOF" ELSE "none"]
  BY <1>1 DEF HandleRead, BeginReadAt
<1>4. [i \in 1..n |-> Zero] = Filled(off, n, 0)
  BY <1>2 DEF Filled
<1>5. Filled(off, n, 0) \in Seq(Values)
  BY <1>2, FilledCells
<1>6. /\ call'.off = off /\ call'.len = n /\ call'.got = 0 /\ call'.buf = Filled(off, n, 0)
      /\ call'.op = IF off >= Size THEN "done" ELSE "read"
      /\ call'.err = IF off >= Size THEN "EOF" ELSE "none"
  BY <1>3, <1>4
<1>7. call' \in ReadCall
  BY <1>2, <1>3, <1>4, <1>5 DEF ReadCall
<1>8. CallMatchesCommand'
  BY <1>1, <1>3, <1>6 DEF CallMatchesCommand
<1>9. CallFilled'
  <2>1. call'.op = "read" => off < Size
    BY <1>2, <1>6
  <2> QED
    BY <1>2, <1>3, <1>6, <2>1 DEF CallFilled, Filled
<1>10. DoneComplete'
  <2>1. call'.op = "done" => off >= Size
    BY <1>6
  <2>2. Lesser(off + n, Size) <= Size
    BY <1>2 DEF Lesser
  <2>3. off >= Size => off + 0 >= Lesser(off + n, Size)
    BY <1>2 DEF Lesser
  <2> QED
    BY <1>6, <2>1, <2>3 DEF DoneComplete, Pos, End
<1> QED
  BY <1>3, <1>7, <1>8, <1>9, <1>10, CacheKept, CommandKept, InvParts, Zenon

\* While a command that is not a READ is in progress, or none is, there is no call.
LEMMA NoReadNoCall ==
  ASSUME Inv, cmd.op # "read"
  PROVE  call.op = "idle" /\ call = NoCall
  BY DEF Inv, DataInv, CallMatchesCommand

\* Taking a request, and answering one, leave the cache alone or write through it.
LEMMA CommandKeeps ==
  Inv /\ (Submit \/ FinishRead \/ SkipWrite \/ HandleOther) => Inv'
<1> SUFFICES ASSUME Inv, Submit \/ FinishRead \/ SkipWrite \/ HandleOther PROVE Inv'
  OBVIOUS
<1>1. UNCHANGED <<medium, cacheVars, degraded>>
  BY DEF Submit, FinishRead, SkipWrite, HandleOther, cacheVars
<1>2. NoCommand.op = "none" /\ NoCommand \in Command \cup {NoCommand}
  BY DEF NoCommand
<1>3. call' = NoCall
  <2>1. CASE Submit
    BY <2>1, <1>2, NoReadNoCall DEF Submit
  <2>2. CASE FinishRead
    BY <2>2 DEF FinishRead
  <2>3. CASE SkipWrite
    BY <2>3, NoReadNoCall DEF SkipWrite
  <2>4. CASE HandleOther
    BY <2>4, NoReadNoCall DEF HandleOther
  <2> QED
    BY <2>1, <2>2, <2>3, <2>4
<1>4. cmd' \in Command \cup {NoCommand} /\ reply' \in Seq(Values)
  <2>1. call.buf \in Seq(Values) /\ reply \in Seq(Values) /\ <<>> \in Seq(Values)
    BY DEF Inv, TypeOK, ReadCall
  <2> QED
    BY <1>2, <2>1 DEF Submit, FinishRead, SkipWrite, HandleOther, Respond
<1> QED
  BY <1>1, <1>3, <1>4, CacheKept, IdleSound, InvParts, Zenon

\* A WRITE goes through to the backing and drops the windows it overlaps.
LEMMA WriteKeeps == Inv /\ HandleWrite => Inv'
<1> SUFFICES ASSUME Inv, HandleWrite PROVE Inv'
  OBVIOUS
<1>1. PICK off, n, val : off = cmd.lba * BlockSize /\ n = cmd.blocks * BlockSize /\ val = cmd.val
  OBVIOUS
<1>2. off \in Nat /\ n \in Nat /\ val \in Values
  BY <1>1, CommandTypes DEF Inv, TypeOK
<1>3. cmd.op = "write" /\ WriteAt(off, n, val) /\ reply' = <<>> /\ cmd' = NoCommand
  BY <1>1 DEF HandleWrite, Respond
<1>4. call' = NoCall /\ degraded' = degraded /\ Invalidate(Touched(off, n))
  BY <1>3, NoReadNoCall DEF WriteAt
<1>5. TypeOK /\ ListMatchesIndex /\ WindowsBacked
  BY DEF Inv, DataInv
<1>6. lru' \in Seq(WindowStarts) /\ ListMatchesIndex'
  BY <1>4, <1>5, InvalidateListed
<1>7. /\ medium' \in [Cells -> Values]
      /\ DOMAIN index' \subseteq WindowStarts /\ index' \in [DOMAIN index' -> Seq(Values)]
      /\ WindowsBacked'
  BY <1>2, <1>3, <1>5, WriteBacked
<1>8. degraded' \in BOOLEAN /\ cmd' \in Command \cup {NoCommand} /\ reply' \in Seq(Values)
  BY <1>3, <1>4, <1>5 DEF TypeOK
<1> QED
  BY <1>4, <1>6, <1>7, <1>8, IdleSound, InvParts, Zenon

\* Every step keeps the invariant.
LEMMA InvStep == Inv /\ [Next]_vars => Inv'
<1> SUFFICES ASSUME Inv, [Next]_vars PROVE Inv'
  OBVIOUS
<1>1. CASE Submit
  BY <1>1, CommandKeeps
<1>2. CASE HandleRead
  BY <1>2, ReadKeeps
<1>3. CASE CacheStep
  BY <1>3, HitKeeps, MissKeeps, EndKeeps DEF CacheStep
<1>4. CASE FinishRead \/ SkipWrite \/ HandleOther
  BY <1>4, CommandKeeps
<1>5. CASE HandleWrite
  BY <1>5, WriteKeeps
<1>6. CASE UNCHANGED vars
  <2>1. UNCHANGED <<medium, cacheVars, degraded>> /\ UNCHANGED <<cmd, reply>> /\ call' = call
    BY <1>6 DEF vars, cacheVars
  <2>2. call' \in ReadCall /\ CallMatchesCommand' /\ CallFilled' /\ DoneComplete'
    BY <2>1 DEF Inv, DataInv, TypeOK, CallMatchesCommand, CallFilled, DoneComplete, Filled, Pos,
                End
  <2> QED
    BY <2>1, <2>2, CacheKept, CommandKept, InvParts, Zenon
<1> QED
  BY <1>1, <1>2, <1>3, <1>4, <1>5, <1>6 DEF Next, Handle

\* The invariant holds throughout.
THEOREM DeviceSound == Spec => []Inv
<1>1. Init => Inv
  BY InvInit
<1>2. Inv /\ [Next]_vars => Inv'
  BY InvStep
<1> QED
  BY <1>1, <1>2, PTL DEF Spec

\* The cache never shows a block that differs from the backing, and its list and its map
\* hold the same windows, through hits, evictions and writes that fail halfway.
THEOREM CacheSafety == Spec => []CacheCoherent
<1>1. Inv => CacheCoherent
  BY DEF Inv, DataInv, WindowsBacked, CacheCoherent
<1> QED
  BY <1>1, DeviceSound, PTL

-----------------------------------------------------------------------------
(* The device implements the plain medium.                                 *)

\* A fresh device is a fresh medium.
LEMMA RefinementInit == Init => Disk!Init
<1> SUFFICES ASSUME Init PROVE Disk!Init
  OBVIOUS
<1>1. (degraded \/ call.err = "io") = FALSE
  BY DEF Init, CacheInit, NoCall
<1>2. medium \in [Disk!Cells -> Values] /\ cmd = NoCommand /\ reply = <<>>
  BY DEF Init, Cells, Disk!Cells
<1> QED
  BY <1>1, <1>2 DEF Disk!Init

\* What a READ returns is what a plain medium serves.
LEMMA ReadServes ==
  ASSUME Inv, FinishRead
  PROVE  Disk!AnswerRead
<1>1. PICK off, n : off = cmd.lba * BlockSize /\ n = cmd.blocks * BlockSize
  OBVIOUS
<1>2. /\ call.op = "done" /\ reply' = call.buf /\ cmd' = NoCommand /\ medium' = medium
  BY DEF FinishRead, Respond
<1>3. /\ cmd.op = "read" /\ call.off = off /\ call.len = n
      /\ call.buf = Filled(off, n, call.got) /\ call.got <= n
      /\ off + call.got <= Size \/ call.got = 0
      /\ Pos(call) >= End(call) \/ degraded \/ call.err = "io"
  BY <1>1, <1>2 DEF Inv, DataInv, CallMatchesCommand, CallFilled, DoneComplete
<1>4. off \in Nat /\ n \in Nat /\ call.got \in Nat /\ Size \in Nat
  BY <1>1, CommandTypes, GeometryAssumption DEF Inv, TypeOK, ReadCall
<1>5. PICK got \in 0..n : got = call.got
  BY <1>3, <1>4
<1>6. ASSUME NEW k \in 0..n, k = got \/ off + got >= Size \/ got = n
      PROVE  k >= got => call.buf = Disk!Served(off, n, k)
  <2>1. ASSUME NEW i \in 1..n, k >= got
        PROVE  (IF i <= got THEN medium[off + i - 1] ELSE Zero)
                 = (IF i <= k /\ off + i - 1 < Size THEN medium[off + i - 1] ELSE Zero)
    <3>1. i <= got => off + i - 1 < Size
      BY <1>3, <1>4, <1>5
    <3>2. i <= got => i <= k
      BY <2>1
    <3>3. i <= k /\ off + i - 1 < Size => i <= got
      BY <1>4, <1>6
    <3> QED
      BY <3>1, <3>2, <3>3
  <2> QED
    BY <1>3, <1>5, <2>1 DEF Filled, Disk!Served
<1>7. cmd # NoCommand
  BY <1>3 DEF NoCommand
<1>8. CASE degraded \/ call.err = "io"
  <2>1. call.buf = Disk!Served(off, n, got)
    BY <1>6
  <2> QED
    BY <1>1, <1>2, <1>3, <1>7, <1>8, <2>1 DEF Disk!AnswerRead
<1>9. CASE Pos(call) >= End(call)
  <2>1. off + got >= Size \/ got = n
    BY <1>3, <1>4, <1>5, <1>9 DEF Pos, End, Lesser
  <2>2. n \in 0..n /\ n >= got
    BY <1>4
  <2>3. call.buf = Disk!Served(off, n, n)
    BY <1>6, <2>1, <2>2
  <2>4. n \in (IF degraded \/ call.err = "io" THEN 0..n ELSE {n})
    BY <2>2
  <2> QED
    BY <1>1, <1>2, <1>3, <1>7, <2>3, <2>4 DEF Disk!AnswerRead
<1> QED
  BY <1>3, <1>8, <1>9

\* A WRITE changes the cells it names, or the first of them, or none when it is skipped.
LEMMA WriteApplies ==
  ASSUME Inv, HandleWrite \/ SkipWrite
  PROVE  Disk!ApplyWrite
<1>1. PICK off, n : off = cmd.lba * BlockSize /\ n = cmd.blocks * BlockSize
  OBVIOUS
<1>2. off \in Nat /\ n \in Nat /\ Size \in Nat
  BY <1>1, CommandTypes, GeometryAssumption DEF Inv, TypeOK
<1>3. cmd.op = "write" /\ cmd # NoCommand /\ cmd' = NoCommand /\ reply' = <<>>
  BY DEF HandleWrite, SkipWrite, Respond, NoCommand
<1>4. PICK k \in 0..n :
        medium' = [c \in Cells |-> IF off <= c /\ c < off + k THEN cmd.val ELSE medium[c]]
  <2>1. CASE HandleWrite
    BY <1>1, <2>1 DEF HandleWrite, WriteAt
  <2>2. CASE SkipWrite
    <3>1. medium' = medium /\ medium \in [Cells -> Values] /\ 0 \in 0..n
      BY <1>2, <2>2 DEF SkipWrite, Inv, TypeOK
    <3>2. \A c \in Cells : ~ (off <= c /\ c < off + 0)
      BY <1>2 DEF Cells
    <3>3. medium' = [c \in Cells |-> IF off <= c /\ c < off + 0 THEN cmd.val ELSE medium[c]]
      BY <3>1, <3>2
    <3> QED
      BY <3>1, <3>3
  <2> QED
    BY <2>1, <2>2
<1> QED
  BY <1>1, <1>3, <1>4 DEF Disk!ApplyWrite, Cells, Disk!Cells

\* Every step of the device is a step of the medium, or one it does not see.
LEMMA RefinementStep == Inv /\ [Next]_vars => [Disk!Next]_(Disk!vars)
<1> SUFFICES ASSUME Inv, [Next]_vars PROVE [Disk!Next]_(Disk!vars)
  OBVIOUS
<1>1. (degraded' \/ call'.err = "io") \in BOOLEAN
  OBVIOUS
<1>2. CASE Submit
  <2>1. Disk!Submit
    BY <1>2 DEF Submit, Disk!Submit
  <2> QED
    BY <1>1, <2>1 DEF Disk!Next
<1>3. CASE HandleRead \/ CacheStep \/ UNCHANGED vars
  <2>1. UNCHANGED <<medium, cmd, reply>>
    BY <1>3 DEF HandleRead, BeginReadAt, CacheStep, WindowHit, WindowMiss, WindowError,
                EndReadAt, vars
  <2> QED
    BY <1>1, <2>1 DEF Disk!Next
<1>4. CASE FinishRead
  BY <1>1, <1>4, ReadServes DEF Disk!Next
<1>5. CASE HandleWrite \/ SkipWrite
  BY <1>1, <1>5, WriteApplies DEF Disk!Next
<1>6. CASE HandleOther
  <2>1. Disk!AnswerOther
    BY <1>6 DEF HandleOther, Respond, NoCommand, Disk!AnswerOther
  <2> QED
    BY <1>1, <2>1 DEF Disk!Next
<1> QED
  BY <1>2, <1>3, <1>4, <1>5, <1>6 DEF Next, Handle

\* The cache is invisible to the host: every behaviour of the device, in which windows are
\* cached, evicted and dropped, is one of a medium without a cache.
THEOREM Refinement == Spec => ActsAsMedium
<1>1. Init => Disk!Init
  BY RefinementInit
<1>2. Inv /\ [Next]_vars => [Disk!Next]_(Disk!vars)
  BY RefinementStep
<1> QED
  BY <1>1, <1>2, DeviceSound, PTL DEF Spec, ActsAsMedium, Disk!Spec

=============================================================================
