----------------------------- MODULE VMediaCache -----------------------------
(***************************************************************************)
(* vmedia.Cache: a windowed LRU read cache in front of a backing store.    *)
(*                                                                         *)
(* The medium is an array of Size cells (a cell stands for the bytes       *)
(* between two offsets the code can tell apart).  The backing (the browser *)
(* behind /control, or a local file) answers a read in full, short (a file *)
(* smaller than announced), or with an error, and may apply any prefix of  *)
(* a write before it reports an error.  One Serve loop drives a Cache      *)
(* sequentially, so a call in progress is a single record; a miss and its  *)
(* backing round-trip are one step because nothing else touches the cache  *)
(* or the medium meanwhile.                                                *)
(***************************************************************************)
EXTENDS Naturals, FiniteSets, Sequences, SequencesExt

CONSTANTS
  Size,        \* cells of the medium, Reader.Size()
  WindowSize,  \* cells of a window
  MaxWindows,  \* LRU capacity
  Values,      \* contents of a cell
  Zero,        \* the cell of a freshly made buffer
  Writable     \* the Cache was built with a non-nil WriterAt

ASSUME GeometryAssumption ==
  /\ Size \in Nat
  /\ WindowSize \in Nat \ {0}
  /\ MaxWindows \in Nat \ {0}
ASSUME ValuesAssumption == Zero \in Values
ASSUME WritableAssumption == Writable \in BOOLEAN

VARIABLES
  medium,    \* what the backing holds
  index,     \* window start -> cached data; its domain is the key set of Cache.index
  lru,       \* window starts, front = most recently used
  call,      \* the ReadAt in progress
  degraded   \* history: the backing has answered a read short

cacheVars == <<index, lru>>

Cells == 0..(Size - 1)
WindowStarts == {s \in Cells : s % WindowSize = 0}
Lesser(a, b) == IF a <= b THEN a ELSE b

WinStart(pos) == pos - (pos % WindowSize)
WindowLen(start) == Lesser(WindowSize, Size - start)

\* The first n cells of the window at start, as the backing holds them.
Backed(start, n) == [i \in 1..n |-> medium[start + i - 1]]

NoCall == [op |-> "idle", off |-> 0, len |-> 0, got |-> 0, buf |-> <<>>, err |-> "none"]

CacheInit ==
  /\ index = <<>>
  /\ lru = <<>>
  /\ call = NoCall
  /\ degraded = FALSE

\* What is left of list q, in its order, once the elements of gone are unlinked from it: its
\* k-th element is the k-th of those kept.
Without(q, gone) ==
  LET kept == {i \in DOMAIN q : q[i] \notin gone}
      Nth(k) == CHOOSE i \in kept : Cardinality(kept \cap (1..i)) = k
  IN  [k \in 1..Cardinality(kept) |-> q[Nth(k)]]

-----------------------------------------------------------------------------
(* ReadAt.                                                                 *)

\* Entry: a read at or past the end of the medium returns io.EOF at once.
BeginReadAt(off, n) ==
  /\ call.op = "idle"
  /\ call' = [op  |-> IF off >= Size THEN "done" ELSE "read",
              off |-> off, len |-> n, got |-> 0,
              buf |-> [i \in 1..n |-> Zero],
              err |-> IF off >= Size THEN "EOF" ELSE "none"]
  /\ UNCHANGED <<medium, cacheVars, degraded>>

Pos(c) == c.off + c.got
End(c) == Lesser(c.off + c.len, Size)

Finish(c) ==
  [c EXCEPT !.op = "done", !.err = IF c.got < c.len THEN "EOF" ELSE "none"]

\* c after m cells of win, from its (inWin+1)-th on, are copied at Pos(c).
Copied(c, win, inWin, m) ==
  [c EXCEPT !.got = @ + m,
            !.buf = [i \in 1..c.len |-> IF i \in (c.got + 1)..(c.got + m)
                                        THEN win[inWin + i - c.got]
                                        ELSE @[i]]]

\* Mutants: the copy starts at the window's first cell; a window too short to reach Pos(c)
\* leaves the loop where it was.
CopyFromStart(c, start, win) ==
  IF Pos(c) - start >= Len(win)
  THEN Finish(c)
  ELSE Copied(c, win, 0, Lesser(Len(win) - (Pos(c) - start), End(c) - Pos(c)))
CopyWithoutBreak(c, start, win) ==
  IF Pos(c) - start >= Len(win)
  THEN c
  ELSE Copied(c, win, Pos(c) - start, Lesser(Len(win) - (Pos(c) - start), End(c) - Pos(c)))

\* One turn of ReadAt's loop over window win: copy what it has from Pos(c) on, or stop
\* when the window is too short to reach Pos(c).
CopyFrom(c, start, win) ==
  LET inWin == Pos(c) - start
      m == Lesser(Len(win) - inWin, End(c) - Pos(c))
  IN  IF inWin >= Len(win) THEN Finish(c) ELSE Copied(c, win, inWin, m)

InLoop == call.op = "read" /\ Pos(call) < End(call)

\* window(), hit: MoveToFront and copy.
WindowHit ==
  /\ InLoop
  /\ LET w == WinStart(Pos(call)) IN
       /\ w \in DOMAIN index
       /\ lru' = <<w>> \o Without(lru, {w})
       /\ call' = CopyFrom(call, w, index[w])
  /\ UNCHANGED <<medium, index, degraded>>

\* PushFront and index the new window, then evict from the back while over capacity.
Insert(w, data) ==
  LET victims == IF Cardinality(DOMAIN index) >= MaxWindows THEN {Last(lru)} ELSE {}
  IN  /\ lru' = <<w>> \o (IF victims = {} THEN lru ELSE Front(lru))
      /\ index' = [s \in (DOMAIN index \cup {w}) \ victims |->
                     IF s = w THEN data ELSE index[s]]

\* window(), miss: one backing read of the whole window, cached even when it is short.
WindowMiss ==
  /\ InLoop
  /\ LET w == WinStart(Pos(call)) IN
       /\ w \notin DOMAIN index
       /\ \E got \in 0..WindowLen(w) :
            /\ Insert(w, Backed(w, got))
            /\ call' = CopyFrom(call, w, Backed(w, got))
            /\ degraded' = (degraded \/ got < WindowLen(w))
  /\ UNCHANGED medium

\* window(), miss, and the backing fails (browser I/O error, 30 s timeout, control socket
\* closed): ReadAt returns what it has copied so far and the error.
WindowError ==
  /\ InLoop
  /\ WinStart(Pos(call)) \notin DOMAIN index
  /\ call' = [call EXCEPT !.op = "done", !.err = "io"]
  /\ UNCHANGED <<medium, cacheVars, degraded>>

EndReadAt ==
  /\ call.op = "read"
  /\ Pos(call) >= End(call)
  /\ call' = Finish(call)
  /\ UNCHANGED <<medium, cacheVars, degraded>>

-----------------------------------------------------------------------------
(* WriteAt: write through, then drop every window the write overlaps.      *)

\* Mutant: the loop of invalidate stops one window early.
TouchedButLast(off, n) == {w \in WindowStarts : WinStart(off) <= w /\ w + WindowSize < off + n}

\* The windows invalidate visits for [off, off+n).
Touched(off, n) == {w \in WindowStarts : n > 0 /\ WinStart(off) <= w /\ w < off + n}

Invalidate(gone) ==
  /\ index' = [s \in DOMAIN index \ gone |-> index[s]]
  /\ lru' = Without(lru, gone)

\* A backing write applies its first k cells; it reports success only when k = n, and may
\* report an error (a timeout) even then.
WriteAt(off, n, val) ==
  /\ call.op = "idle"
  /\ Writable
  /\ \E k \in 0..n :
       medium' = [c \in Cells |-> IF off <= c /\ c < off + k THEN val ELSE medium[c]]
  /\ Invalidate(Touched(off, n))
  /\ UNCHANGED <<call, degraded>>

-----------------------------------------------------------------------------
(* Properties.                                                             *)

\* The list and the map describe the same windows, each once, and never more than the
\* capacity: no window is leaked in one of them by a hit, an eviction or a write.
ListMatchesIndex ==
  /\ ToSet(lru) = DOMAIN index
  /\ Len(lru) = Cardinality(DOMAIN index)
  /\ Cardinality(DOMAIN index) <= MaxWindows

\* The write-through promise of the Cache: list and map agree, and every cached window is what
\* the backing holds now (a prefix of it, when the backing answered short), across evictions
\* and writes that fail halfway.
CacheCoherent ==
  /\ ListMatchesIndex
  /\ \A w \in DOMAIN index :
       /\ Len(index[w]) <= WindowLen(w)
       /\ index[w] = Backed(w, Len(index[w]))

=============================================================================
