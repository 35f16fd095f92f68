----------------------------- MODULE SessionProofs -----------------------------
(***************************************************************************)
(* Proofs about the two interactive sessions, in two independent parts.    *)
(*                                                                         *)
(* Bridge, for every set of tabs and every number of timers: type          *)
(* correctness, the grace timer and the release of the BMC session.        *)
(*                                                                         *)
(* SolConsole, for every range of sequence numbers above one, any serial   *)
(* output, any input and any number of losses: the serial stream is shown  *)
(* exactly, the escape menu does not depend on the chunks of the input,    *)
(* and the teardown leaves nothing unwritten.  The stream needs an         *)
(* invariant about every datagram in flight: the requests acknowledge no   *)
(* more than was taken, and the packets are repeats of what was            *)
(* acknowledged in full, then ever longer repeats of the current one.      *)
(***************************************************************************)
EXTENDS Bridge, SolConsole, FiniteSetTheorems, TLAPS

-----------------------------------------------------------------------------
(* Bridge.                                                                 *)

\* The counter the handlers keep is the number of connected tabs, and each is counted once.
CountMatches == activeConn = Cardinality(connected) /\ accepted \cap connected = {}

\* What each place of connectBMC knows about the socket and the session: Logout is reached
\* with the socket closed and nothing logged out yet, and "failed" only through a login that
\* never gave its cookie away.
BmcInv ==
  /\ bmc \in {"login", "jnlp", "dial"} => video = "none" /\ logouts = 0
  /\ bmc \in {"handshake", "run"} => video = "open" /\ logouts = 0
  /\ bmc = "logout" => video # "open" /\ logouts = 0
  /\ bmc = "ended" => video # "open" /\ logouts = 1
  /\ bmc = "failed" => video # "open" /\ logouts = 0 /\ lost

IInv == TypeOK /\ CountMatches /\ PendingTimerMeansIdle /\ BmcInv

-----------------------------------------------------------------------------
\* Joining and leaving the set of connected tabs moves the count by one.
LEMMA CountStep ==
  ASSUME NEW T \in SUBSET Tabs, NEW s \in Tabs
  PROVE  /\ IsFiniteSet(T)
         /\ Cardinality(T) \in Nat
         /\ Cardinality(T) = 0 <=> T = {}
         /\ s \notin T => Cardinality(T \cup {s}) = Cardinality(T) + 1
         /\ s \in T => Cardinality(T \ {s}) = Cardinality(T) - 1
<1>1. IsFiniteSet(T)
  BY BridgeAssumption, FS_Subset
<1>2. Cardinality(T) \in Nat
  BY <1>1, FS_CardinalityType
<1>3. Cardinality(T) = 0 <=> T = {}
  BY <1>1, FS_EmptySet
<1>4. s \notin T => Cardinality(T \cup {s}) = Cardinality(T) + 1
  BY <1>1, FS_AddElement
<1>5. s \in T => Cardinality(T \ {s}) = Cardinality(T) - 1
  BY <1>1, FS_RemoveElement
<1> QED
  BY <1>1, <1>2, <1>3, <1>4, <1>5

LEMMA InitIInv == Init => IInv
<1> SUFFICES ASSUME Init PROVE IInv
  OBVIOUS
<1>1. Cardinality({}) = 0
  BY FS_EmptySet
<1>2. TypeOK
  <2>1. /\ used \in BOOLEAN /\ ctxDone \in BOOLEAN
        /\ published \in BOOLEAN /\ lost \in BOOLEAN
    BY Zenon DEF Init
  <2>2. /\ activeConn \in Nat /\ logouts \in 0..1
        /\ started \in 0..MaxTimers /\ graceTimer \in 0..MaxTimers
    BY BridgeAssumption DEF Init
  <2> QED
    BY <2>1, <2>2 DEF Init, TypeOK
<1>3. CountMatches
  BY <1>1 DEF Init, CountMatches
<1>4. PendingTimerMeansIdle
  BY DEF Init, PendingTimerMeansIdle
<1>5. BmcInv
  BY DEF Init, BmcInv
<1> QED
  BY <1>2, <1>3, <1>4, <1>5 DEF IInv

-----------------------------------------------------------------------------
(* The steps of the user interface leave connectBMC alone, and the other   *)
(* way round.                                                              *)

LEMMA AcceptStep ==
  ASSUME IInv, NEW s \in Tabs, Accept(s)
  PROVE  IInv'
  BY DEF IInv, Accept, TypeOK, CountMatches, PendingTimerMeansIdle, BmcInv, procVars, bmcVars

LEMMA ConnectStep ==
  ASSUME IInv, NEW s \in Tabs, Connect(s)
  PROVE  IInv'
<1> USE DEF IInv
<1>1. activeConn' = Cardinality(connected') /\ accepted' \cap connected' = {}
  BY CountStep DEF Connect, CountMatches, TypeOK
<1>2. timer' \in [Timers -> {"none", "pending", "stopped", "fired", "idle", "done"}]
  BY DEF Connect, StopTimer, TypeOK
<1>3. \A t \in Timers : timer'[t] # "pending"
  BY DEF Connect, StopTimer, TypeOK, PendingTimerMeansIdle
<1>4. activeConn' \in Nat
  BY DEF Connect, TypeOK
<1>5. connected' \subseteq Tabs /\ accepted' \subseteq Tabs /\ graceTimer' \in 0..MaxTimers
  BY BridgeAssumption DEF Connect, StopTimer, TypeOK
<1>6. TypeOK'
  BY <1>2, <1>4, <1>5 DEF Connect, TypeOK, procVars, bmcVars
<1>7. BmcInv'
  BY DEF Connect, BmcInv, bmcVars
<1> QED
  BY <1>1, <1>3, <1>6, <1>7 DEF CountMatches, PendingTimerMeansIdle

LEMMA DisconnectStep ==
  ASSUME IInv, NEW s \in Tabs, Disconnect(s)
  PROVE  IInv'
<1> USE DEF IInv
<1>1. /\ activeConn' = Cardinality(connected') /\ accepted' \cap connected' = {}
      /\ activeConn' \in Nat
      /\ activeConn' = 0 <=> connected' = {}
      /\ activeConn = 1 <=> activeConn' = 0
  <2>1. connected \subseteq Tabs /\ connected' \subseteq Tabs
    BY DEF Disconnect, TypeOK
  <2>2. Cardinality(connected') = Cardinality(connected) - 1
    BY <2>1, CountStep DEF Disconnect
  <2>3. Cardinality(connected') \in Nat /\ (Cardinality(connected') = 0 <=> connected' = {})
    BY <2>1, CountStep
  <2> QED
    BY <2>2, <2>3 DEF Disconnect, CountMatches, TypeOK
<1>2. \A t \in Timers : timer[t] # "pending"
  BY DEF Disconnect, PendingTimerMeansIdle
<1>3. /\ timer' \in [Timers -> {"none", "pending", "stopped", "fired", "idle", "done"}]
      /\ started' \in 0..MaxTimers
      /\ graceTimer' \in 0..MaxTimers
      /\ \A t \in Timers : timer'[t] = "pending" => t = graceTimer' /\ activeConn = 1
  <2>1. CASE activeConn = 1
    BY <2>1, <1>2, BridgeAssumption DEF Disconnect, StartTimer, TypeOK, Timers
  <2>2. CASE activeConn # 1
    BY <2>2, <1>2 DEF Disconnect, TypeOK
  <2> QED
    BY <2>1, <2>2
<1>4. TypeOK'
  BY <1>1, <1>3 DEF Disconnect, TypeOK, procVars, bmcVars
<1>5. PendingTimerMeansIdle'
  BY <1>1, <1>3 DEF PendingTimerMeansIdle
<1>6. BmcInv'
  BY DEF Disconnect, BmcInv, bmcVars
<1> QED
  BY <1>1, <1>4, <1>5, <1>6 DEF CountMatches

LEMMA TimerStepInv ==
  ASSUME IInv, NEW t \in Timers, TimerStep(t)
  PROVE  IInv'
<1> USE DEF IInv
<1>1. CASE TimerFires(t)
  BY <1>1 DEF TimerFires, TypeOK, CountMatches, PendingTimerMeansIdle, BmcInv, procVars, bmcVars
<1>2. CASE CheckIdle(t)
  BY <1>2 DEF CheckIdle, TypeOK, CountMatches, PendingTimerMeansIdle, BmcInv, procVars, bmcVars
<1>3. CASE OnDisconnect(t)
  BY <1>3 DEF OnDisconnect, TypeOK, CountMatches, PendingTimerMeansIdle, BmcInv, bmcVars
<1> QED
  BY <1>1, <1>2, <1>3 DEF TimerStep

LEMMA ProcessStepInv ==
  ASSUME IInv, Interrupt \/ ServerStep \/ MainStep
  PROVE  IInv'
<1> USE DEF IInv
<1>1. UNCHANGED <<uiVars, bmcVars>>
  BY DEF Interrupt, ServerStep, Listen, Shutdown, MainStep, ServeReturns, Exit
<1>2. /\ ctxDone' \in BOOLEAN
      /\ srv' \in {"starting", "open", "closed"}
      /\ main' \in {"serving", "returned", "exited"}
  BY DEF TypeOK, Interrupt, ServerStep, Listen, Shutdown, MainStep, ServeReturns, Exit
<1>3. TypeOK'
  BY <1>1, <1>2 DEF TypeOK, uiVars, bmcVars
<1> QED
  BY <1>1, <1>3 DEF CountMatches, PendingTimerMeansIdle, BmcInv, uiVars, bmcVars

LEMMA BmcStepInv ==
  ASSUME IInv, BmcStep \/ HandshakeDone \/ RunFails
  PROVE  IInv'
<1> USE DEF IInv
<1>1. UNCHANGED <<uiVars, procVars>>
  BY DEF BmcStep, CreateSession, FetchJnlp, Dial, HandshakeFails, HandshakeDone, RunCancelled,
         RunFails, Logout
<1>2. BmcInv'
  BY DEF BmcInv, TypeOK, BmcStep, CreateSession, FetchJnlp, Dial, HandshakeFails,
         HandshakeDone, RunCancelled, RunFails, Logout
<1>3. /\ bmc' \in {"login", "jnlp", "dial", "handshake", "run", "logout", "ended", "failed"}
      /\ web' \in {"none", "open", "closed"}
      /\ video' \in {"none", "open", "closed"}
      /\ published' \in BOOLEAN
      /\ lost' \in BOOLEAN
  BY DEF TypeOK, BmcStep, CreateSession, FetchJnlp, Dial, HandshakeFails, HandshakeDone,
         RunCancelled, RunFails, Logout
<1>4. logouts' \in 0..1
  BY <1>2, <1>3 DEF BmcInv
<1>5. TypeOK'
  BY <1>1, <1>3, <1>4 DEF TypeOK, uiVars, procVars
<1> QED
  BY <1>1, <1>2, <1>5 DEF CountMatches, PendingTimerMeansIdle, uiVars

\* The inductive invariant is one.
THEOREM Inductive == Spec => []IInv
<1>1. IInv /\ [Next]_vars => IInv'
  <2> SUFFICES ASSUME IInv, [Next]_vars PROVE IInv'
    OBVIOUS
  <2>1. CASE UNCHANGED vars
    BY <2>1 DEF IInv, TypeOK, CountMatches, PendingTimerMeansIdle, BmcInv, vars, uiVars,
                procVars, bmcVars
  <2>2. CASE Next
    BY <2>2, AcceptStep, ConnectStep, DisconnectStep, TimerStepInv, ProcessStepInv, BmcStepInv DEF Next
  <2> QED
    BY <2>1, <2>2
<1> QED
  BY <1>1, InitIInv, PTL DEF Spec

\* The variables of the bridge keep their types: in particular one run of connectBMC never
\* logs out twice, and the connection counter never goes below zero.
THEOREM BridgeTypeCorrect == Spec => []TypeOK
<1>1. IInv => TypeOK
  BY DEF IInv
<1> QED
  BY <1>1, Inductive, PTL

\* A grace timer that can still fire is the current one and nobody is connected, whatever
\* the order in which any number of pages come and go: a reload within the grace period
\* cannot leave an old timer running behind the new connection.
THEOREM GraceTimerSafety == Spec => []PendingTimerMeansIdle
<1>1. IInv => PendingTimerMeansIdle
  BY DEF IInv
<1> QED
  BY <1>1, Inductive, PTL

\* Once connectBMC is over, its video socket is closed and it has logged its web session out
\* exactly once, unless the login never gave it the cookie.
THEOREM SessionReleased == Spec => []NothingLeftOpen
<1>1. IInv => NothingLeftOpen
  BY DEF IInv, BmcInv, NothingLeftOpen
<1> QED
  BY <1>1, Inductive, PTL

-----------------------------------------------------------------------------
(* SolConsole: the inductive invariant.                                    *)

Request == [seq : 1..SeqMax, ack : 0..SeqMax, count : Nat, data : Seq(Key)]
Packet == [seq : 0..SeqMax, data : Seq(Nat)]

SolTypeOK ==
  /\ pc \in {"select", "feed", "notice", "send", "wait", "fresh", "closing", "closed"}
  /\ outq \in Seq(Seq(Key)) /\ quit \in BOOLEAN
  /\ localSeq \in 1..SeqMax /\ remoteSeq \in 0..SeqMax
  /\ remoteSize \in Nat /\ pendingAck \in Nat
  /\ armed \in BOOLEAN /\ brk \in BOOLEAN
  /\ chunk \in Seq(Key) /\ pass \in Seq(Key)
  /\ keys \in Seq(Key) /\ passed \in Seq(Key)
  /\ chunks \in Nat /\ faults \in Nat
  /\ renderBuf \in Seq(Nat) /\ writing \in Seq(Nat)
  /\ screen \in Seq(Nat) /\ pushed \in Seq(Nat)
  /\ renderWake \in BOOLEAN
  /\ render \in {"wait", "flush", "write", "lastFlush", "lastWrite", "done"}
  /\ done \in BOOLEAN /\ term \in BOOLEAN
  /\ toBmc \in Seq(Request) /\ toCon \in Seq(Packet)
  /\ out \in Nat /\ base \in Nat /\ sent \in Nat /\ bseq \in 0..SeqMax
  /\ inSeq \in 0..SeqMax /\ received \in Seq(Key) /\ calm \in BOOLEAN

\* The render queue and the teardown: nothing is pushed once the loop is closing, so that the
\* final flush of the render goroutine leaves nothing behind.
Flushed ==
  /\ pushed = screen \o writing \o renderBuf
  /\ render \in {"wait", "flush", "lastFlush", "done"} => writing = <<>>
  /\ render \in {"lastFlush", "lastWrite", "done"} => done
  /\ render \in {"lastWrite", "done"} => renderBuf = <<>>
  /\ done => pc \in {"closing", "closed"}
  /\ pc = "closed" => render = "done"
  /\ term <=> pc # "closed"

\* What the loop still has to send in this turn.
TurnSound ==
  /\ Len(outq) <= 2
  /\ Len(outq) = 2 => outq[1] = <<>>
  /\ pc = "send" => outq # <<>>
  /\ pc \in {"select", "feed", "notice"} => outq = <<>>
  /\ pc \notin {"feed", "notice"} => pass = <<>>

\* The bytes of the current packet the console has taken, counted from the first.
Taken == IF sent > 0 /\ remoteSeq = bseq THEN base + remoteSize ELSE base

\* s holds the serial bytes 1..n, each once and in order, among the notices.
Ordered(s, n) ==
  /\ \A i, j \in DOMAIN s : i < j /\ s[j] # 0 => s[i] < s[j]
  /\ \A i \in DOMAIN s : s[i] <= n
  /\ \A b \in 1..n : \E i \in DOMAIN s : s[i] = b

\* A packet on its way to the console is empty, or carries the start of what the card holds
\* out, or repeats a packet that was acknowledged in full.
Fresh(d) ==
  /\ sent > 0 /\ d.seq = bseq
  /\ Len(d.data) <= sent
  /\ \A i \in 1..Len(d.data) : d.data[i] = base + i
Old(d) ==
  /\ sent = 0 \/ remoteSeq # bseq
  /\ d.seq = remoteSeq /\ Len(d.data) = remoteSize

\* The two sides of the link agree.  The datagrams keep their order, so the old packets come
\* before the current one, and its repeats only grow.
PacketsSound ==
  /\ \A i \in DOMAIN toCon : toCon[i].seq = 0 \/ Fresh(toCon[i]) \/ Old(toCon[i])
  /\ \A i, j \in DOMAIN toCon :
       i < j /\ sent > 0 /\ toCon[i].seq = bseq /\ toCon[j].seq # 0 =>
         toCon[j].seq = bseq /\ Len(toCon[i].data) <= Len(toCon[j].data)
  /\ sent > 0 /\ remoteSeq = bseq =>
       \A i \in DOMAIN toCon : toCon[i].seq = bseq => remoteSize <= Len(toCon[i].data)

\* A request acknowledges no more of the current packet than the console has taken.
AcksSound ==
  /\ sent = 0 \/ remoteSeq # bseq => \A i \in DOMAIN toBmc : toBmc[i].ack = remoteSeq
  /\ \A i, j \in DOMAIN toBmc : i < j /\ toBmc[i].ack = bseq => toBmc[j].ack = remoteSeq
  /\ sent > 0 /\ remoteSeq = bseq =>
       \A i \in DOMAIN toBmc : toBmc[i].ack = bseq => toBmc[i].count <= remoteSize

LinkSound ==
  /\ pendingAck = remoteSize
  /\ base + sent <= out
  /\ sent > 0 => bseq # 0
  /\ sent = 0 => remoteSeq = bseq
  /\ sent > 0 /\ remoteSeq = bseq => remoteSize <= sent

\* The exchanges, as long as each was answered: one datagram at most is on its way, the answer
\* to the request or the request, whose number the card has not seen.
CalmSound ==
  calm =>
    /\ passed = received \o OnWire
    /\ Len(toBmc) <= 1
    /\ toBmc # <<>> => toCon = <<>> /\ toBmc[1].seq # inSeq /\ toBmc[1].seq = localSeq
    /\ pc # "wait" /\ pc \notin {"closing", "closed"} =>
         toBmc = <<>> /\ toCon = <<>> /\ inSeq # localSeq
    /\ pc = "wait" /\ toBmc = <<>> => inSeq = localSeq /\ Len(toCon) <= 1

\* The run of escape keys that ends at i starts at j.
RunFrom(s, j, i) == (\A n \in j..i : s[n] = Esc) /\ (j = 1 \/ s[j - 1] # Esc)

\* The run of escape keys at the end of the input has a first one.
RunStarts(s) ==
  s # <<>> /\ s[Len(s)] = Esc => \E j \in 1..Len(s) : RunFrom(s, j, Len(s))

\* waiting holds the bytes of s that are kept.
Waits(waiting, s) ==
  /\ Len(waiting) = Cardinality(Kept(s))
  /\ \A i \in Kept(s) : waiting[Cardinality({j \in Kept(s) : j <= i})] = s[i]

EscapeSound ==
  pc \notin {"closing", "closed"} =>
    /\ RunStarts(keys)
    /\ armed = Arms(keys, Len(keys))
    /\ Waits(passed \o Carried(outq) \o pass, keys)

-----------------------------------------------------------------------------
(* SolConsole: lemmas about the datagram queues and the render queue.      *)

\* Taking the first datagram of a queue moves the others up by one.
LEMMA QueueTail ==
  ASSUME NEW S, NEW q \in Seq(S), q # <<>>
  PROVE  /\ Head(q) \in S /\ Head(q) = q[1] /\ 1 \in DOMAIN q
         /\ Tail(q) \in Seq(S)
         /\ \A i \in DOMAIN Tail(q) : i + 1 \in DOMAIN q /\ Tail(q)[i] = q[i + 1]
         /\ \A i, j \in DOMAIN Tail(q) : i < j => i + 1 < j + 1
         /\ \A i \in DOMAIN Tail(q) : 1 < i + 1
OBVIOUS

\* Adding a datagram leaves the others where they are.
LEMMA QueueAppend ==
  ASSUME NEW S, NEW q \in Seq(S), NEW d \in S
  PROVE  /\ Append(q, d) \in Seq(S)
         /\ \A i \in DOMAIN Append(q, d) :
              \/ i \in DOMAIN q /\ Append(q, d)[i] = q[i] /\ i < Len(q) + 1
              \/ i = Len(q) + 1 /\ Append(q, d)[i] = d
OBVIOUS

\* PushRender, and a push of nothing, keep the types of the queue.
LEMMA PushTypes ==
  ASSUME SolTypeOK, NEW bytes \in Seq(Nat), PushRender(bytes)
  PROVE  /\ renderBuf' \in Seq(Nat) /\ pushed' \in Seq(Nat) /\ renderWake' \in BOOLEAN
         /\ bytes = <<>> => renderBuf' = renderBuf /\ pushed' = pushed
<1>1. renderBuf' \in Seq(Nat) /\ pushed' \in Seq(Nat)
  BY DEF SolTypeOK, PushRender
<1>2. renderWake' \in BOOLEAN
  BY Zenon DEF SolTypeOK, PushRender
<1>3. bytes = <<>> => renderBuf' = renderBuf /\ pushed' = pushed
  BY DEF SolTypeOK, PushRender
<1> QED
  BY <1>1, <1>2, <1>3

\* Sequence numbers stay in range, and the next one differs.
LEMMA NextSeqType ==
  ASSUME NEW n \in 0..SeqMax
  PROVE  NextSeq(n) \in 1..SeqMax /\ NextSeq(n) # n
BY SolAssumption DEF NextSeq

\* What ingest returns.
LEMMA IngestType ==
  ASSUME SolTypeOK, NEW seq \in 0..SeqMax, NEW data \in Seq(Nat)
  PROVE  /\ Ingest(seq, data).fresh \in Seq(Nat)
         /\ Ingest(seq, data).seq \in 0..SeqMax
         /\ Ingest(seq, data).size \in Nat
         /\ Ingest(seq, data).ack \in Nat
<1>1. SubSeq(data, remoteSize + 1, Len(data)) \in Seq(Nat)
  BY SMTT(60) DEF SolTypeOK
<1>2. CASE seq = 0
  BY <1>2 DEF SolTypeOK, Ingest
<1>3. CASE seq # 0
  BY <1>1, <1>3 DEF Ingest
<1> QED
  BY <1>2, <1>3

-----------------------------------------------------------------------------
(* SolConsole: types.                                                      *)

\* Types at the start.
LEMMA SolTypeInit == SolInit => SolTypeOK
<1> SUFFICES ASSUME SolInit PROVE SolTypeOK
  OBVIOUS
<1>1. <<<<>>>> \in Seq(Seq(Key))
  OBVIOUS
<1>2. /\ quit \in BOOLEAN /\ armed \in BOOLEAN /\ brk \in BOOLEAN
      /\ renderWake \in BOOLEAN /\ done \in BOOLEAN /\ term \in BOOLEAN /\ calm \in BOOLEAN
  BY Zenon DEF SolInit
<1>3. localSeq \in 1..SeqMax /\ remoteSeq \in 0..SeqMax /\ bseq \in 0..SeqMax
      /\ inSeq \in 0..SeqMax
  BY SolAssumption DEF SolInit
<1> QED
  BY <1>1, <1>2, <1>3 DEF SolInit, SolTypeOK

\* Types are kept; that there is a packet to send is part of TurnSound.
LEMMA SolTypeStep ==
  ASSUME SolTypeOK, TurnSound, [SolNext]_solVars
  PROVE  SolTypeOK'
<1>u. UNCHANGED solVars => SolTypeOK'
  BY DEF SolTypeOK, solVars, loopVars, seqVars, renderVars, queueVars, inputVars, cardVars,
         netVars, lifeVars, Packet, Request
<1>1. ASSUME NEW data \in Inputs, TakeInput(data) PROVE SolTypeOK'
  <2>1. data \in Seq(Key)
    BY InputsAssumption
  <2>2. quit' \in BOOLEAN /\ brk' \in BOOLEAN
    BY <1>1, Zenon DEF TakeInput
  <2>3. /\ pc' = "feed" /\ chunk' = data /\ pass' = <<>> /\ chunks' = chunks + 1
        /\ UNCHANGED <<outq, armed, keys, passed, renderVars, queueVars, seqVars, cardVars,
                       netVars, lifeVars>>
    BY <1>1 DEF TakeInput
  <2> QED
    BY <2>1, <2>2, <2>3 DEF SolTypeOK, seqVars, renderVars, queueVars, cardVars, netVars, lifeVars
<1>2. ASSUME FeedByte PROVE SolTypeOK'
  <2>1. PICK bytes \in Seq(Nat) : PushRender(bytes)
    <3>1. (IF armed /\ Head(chunk) # Esc THEN <<0>> ELSE <<>>) \in Seq(Nat)
      OBVIOUS
    <3> QED
      BY <1>2, <3>1 DEF FeedByte
  <2>2. /\ Head(chunk) \in Key /\ Tail(chunk) \in Seq(Key)
    BY SMTT(60), <1>2 DEF FeedByte, SolTypeOK
  <2>3. armed' \in BOOLEAN /\ brk' \in BOOLEAN /\ quit' \in BOOLEAN
    BY <1>2, Zenon DEF FeedByte, SolTypeOK
  <2>4. pass' \in Seq(Key) /\ keys' \in Seq(Key)
    BY <1>2, <2>2 DEF FeedByte, SolTypeOK
  <2>5. chunk' \in Seq(Key)
    BY <1>2, <2>2, Zenon DEF FeedByte
  <2>6. renderBuf' \in Seq(Nat) /\ pushed' \in Seq(Nat) /\ renderWake' \in BOOLEAN
    BY <2>1, PushTypes
  <2>7. UNCHANGED <<outq, passed, chunks, renderVars, seqVars, cardVars, netVars, lifeVars>>
    BY <1>2 DEF FeedByte
  <2>8. pc' \in {"feed", "notice"}
    BY <1>2 DEF FeedByte
  <2> QED
    BY <2>3, <2>4, <2>5, <2>6, <2>7, <2>8 DEF SolTypeOK, seqVars, renderVars, cardVars, netVars,
         lifeVars, Packet, Request
<1>3. ASSUME FeedEnds PROVE SolTypeOK'
  <2>1. Packets \in Seq(Seq(Key))
    <3>1. (IF brk THEN <<<<>>>> ELSE <<>>) \in Seq(Seq(Key))
      OBVIOUS
    <3>2. (IF pass # <<>> THEN <<pass>> ELSE <<>>) \in Seq(Seq(Key))
      BY DEF SolTypeOK
    <3> QED
      BY <3>1, <3>2 DEF Packets
  <2> QED
    BY <1>3, <2>1 DEF FeedEnds, SolTypeOK, seqVars, renderVars, queueVars, cardVars,
         netVars, lifeVars, Packet, Request
<1>4. ASSUME Poll PROVE SolTypeOK'
  <2>1. <<<<>>>> \in Seq(Seq(Key))
    OBVIOUS
  <2> QED
    BY <1>4, <2>1 DEF Poll, SolTypeOK, seqVars, renderVars, queueVars, inputVars, cardVars,
         netVars, lifeVars, Packet, Request
<1>5. ASSUME SendPacket PROVE SolTypeOK'
  <2>1. outq # <<>>
    BY <1>5 DEF SendPacket, TurnSound
  <2>2. Head(outq) \in Seq(Key) /\ Tail(outq) \in Seq(Seq(Key))
    BY <2>1 DEF SolTypeOK
  <2>3. passed' \in Seq(Key) /\ outq' \in Seq(Seq(Key))
    BY <1>5, <2>2 DEF SendPacket, SolTypeOK
  <2>4. [seq |-> localSeq, ack |-> remoteSeq, count |-> pendingAck, data |-> Head(outq)] \in Request
    BY <2>2 DEF SolTypeOK, Request
  <2>5. toBmc' \in Seq(Request)
    BY <1>5, <2>4, QueueAppend DEF SendPacket, SolTypeOK
  <2> QED
    BY <1>5, <2>3, <2>5 DEF SendPacket, SolTypeOK, renderVars, queueVars, seqVars, cardVars,
         lifeVars, Packet, Request
<1>6. ASSUME ReceiveReply PROVE SolTypeOK'
  <2>1. Head(toCon) \in Packet /\ toCon' \in Seq(Packet)
    BY <1>6, QueueTail DEF ReceiveReply, SolTypeOK
  <2>2. Head(toCon).seq \in 0..SeqMax /\ Head(toCon).data \in Seq(Nat)
    BY <2>1 DEF Packet
  <2> DEFINE i == Ingest(Head(toCon).seq, Head(toCon).data)
  <2>3. i.fresh \in Seq(Nat) /\ i.seq \in 0..SeqMax /\ i.size \in Nat /\ i.ack \in Nat
    BY <2>2, IngestType
  <2>4. /\ PushRender(i.fresh)
        /\ remoteSeq' = i.seq /\ remoteSize' = i.size /\ pendingAck' = i.ack
    BY <1>6 DEF ReceiveReply
  <2>5. renderBuf' \in Seq(Nat) /\ pushed' \in Seq(Nat) /\ renderWake' \in BOOLEAN
    BY <2>3, <2>4, PushTypes
  <2>6. localSeq' \in 1..SeqMax
    <3>1. localSeq' = NextSeq(localSeq) /\ localSeq \in 1..SeqMax
      BY <1>6 DEF ReceiveReply, SolTypeOK
    <3> QED
      BY <3>1, NextSeqType
  <2>7. pc' \in {"send", "closing", "select", "fresh"}
    BY <1>6 DEF ReceiveReply, AfterExchange
  <2> HIDE DEF i
  <2>8. UNCHANGED <<outq, quit, toBmc, faults, calm, renderVars, inputVars, cardVars, lifeVars>>
    BY <1>6 DEF ReceiveReply
  <2>9. remoteSeq' \in 0..SeqMax /\ remoteSize' \in Nat /\ pendingAck' \in Nat
    BY <2>3, <2>4
  <2> QED
    BY <2>1, <2>5, <2>6, <2>7, <2>8, <2>9 DEF SolTypeOK, renderVars, inputVars, cardVars, lifeVars
<1>7. ASSUME ReadTimeout PROVE SolTypeOK'
  <2>1. faults' \in Nat
    BY SMTT(60), <1>7 DEF ReadTimeout, SolTypeOK
  <2>2. pc' \in {"send", "closing", "select"}
    BY <1>7 DEF ReadTimeout, AfterExchange
  <2>3. calm' \in BOOLEAN
    BY <1>7, Zenon DEF ReadTimeout
  <2>4. /\ UNCHANGED <<outq, quit, toBmc, toCon, localSeq, remoteSeq, remoteSize, pendingAck>>
        /\ UNCHANGED <<render, writing, screen, renderBuf, renderWake, pushed, done, term>>
    BY <1>7 DEF ReadTimeout, seqVars, renderVars, queueVars, lifeVars
  <2>5. UNCHANGED <<inputVars, cardVars>>
    BY <1>7 DEF ReadTimeout
  <2> QED
    BY <2>1, <2>2, <2>3, <2>4, <2>5 DEF SolTypeOK, inputVars, cardVars
<1>8. ASSUME CloseDone \/ CloseTerminal \/ ExchangeFails \/ ContextDone PROVE SolTypeOK'
  BY ZenonT(90), <1>8 DEF CloseDone, CloseTerminal, ExchangeFails, ContextDone, SolTypeOK, loopVars, seqVars,
       renderVars, queueVars, inputVars, cardVars, netVars, lifeVars, Packet, Request
<1>9. ASSUME TakeWake \/ TakeDone \/ SwapBuffer \/ WriteTerminal PROVE SolTypeOK'
  <2>1. writing' \in Seq(Nat) /\ renderBuf' \in Seq(Nat) /\ screen' \in Seq(Nat)
    <3>1. writing \in Seq(Nat) /\ renderBuf \in Seq(Nat) /\ screen \in Seq(Nat)
      BY DEF SolTypeOK
    <3>2. screen \o writing \in Seq(Nat) /\ <<>> \in Seq(Nat)
      BY <3>1
    <3> QED
      BY <1>9, <3>1, <3>2, Zenon DEF TakeWake, TakeDone, SwapBuffer, WriteTerminal, queueVars
  <2>2. render' \in {"wait", "flush", "write", "lastFlush", "lastWrite", "done"}
    BY <1>9 DEF TakeWake, TakeDone, SwapBuffer, WriteTerminal
  <2>5. renderWake' \in BOOLEAN
    <3>1. renderWake \in BOOLEAN
      BY DEF SolTypeOK
    <3> QED
      BY <1>9, <3>1, Zenon DEF TakeWake, TakeDone, SwapBuffer, WriteTerminal, queueVars
  <2>3. pushed' = pushed
    BY <1>9 DEF TakeWake, TakeDone, SwapBuffer, WriteTerminal, queueVars
  <2>4. UNCHANGED <<loopVars, seqVars, inputVars, cardVars, netVars, lifeVars>>
    BY <1>9 DEF TakeWake, TakeDone, SwapBuffer, WriteTerminal
  <2> QED
    BY <2>1, <2>2, <2>3, <2>4, <2>5 DEF SolTypeOK, loopVars, seqVars, inputVars, cardVars,
         netVars, lifeVars
<1>10. ASSUME HostPrints PROVE SolTypeOK'
  BY <1>10 DEF HostPrints, SolTypeOK, loopVars, seqVars, renderVars, queueVars, inputVars, netVars,
       lifeVars, Packet, Request
<1>11. ASSUME BmcAnswers PROVE SolTypeOK'
  <2>1. toBmc' \in Seq(Request)
    BY <1>11, QueueTail DEF BmcAnswers, SolTypeOK
  <2> DEFINE from == IF Acks(Head(toBmc)) THEN base + sent ELSE base
             low == IF sent > 0 /\ ~Acks(Head(toBmc)) THEN sent ELSE 1
  <2>2. from \in Nat /\ low \in Nat
    BY DEF SolTypeOK
  <2>3. base' = from
    BY <1>11 DEF BmcAnswers
  <2>4. sent' \in Nat /\ bseq' \in 0..SeqMax /\ toCon' \in Seq(Packet)
    <3>1. CASE out > from
      <4>1. PICK len \in low..(out - from) :
              /\ sent' = len
              /\ bseq' = IF sent > 0 /\ ~Acks(Head(toBmc)) THEN bseq ELSE NextSeq(bseq)
              /\ toCon' = Append(toCon, [seq |-> bseq', data |-> [i \in 1..len |-> from + i]])
        BY <1>11, <3>1 DEF BmcAnswers
      <4>2. len \in Nat
        BY <2>2
      <4>3. bseq' \in 0..SeqMax
        BY SMTT(60), <4>1, NextSeqType DEF SolTypeOK
      <4>4. [i \in 1..len |-> from + i] \in Seq(Nat)
        BY <2>2, <4>2
      <4>5. [seq |-> bseq', data |-> [i \in 1..len |-> from + i]] \in Packet
        BY <4>3, <4>4 DEF Packet
      <4> QED
        BY <4>1, <4>2, <4>3, <4>5, QueueAppend DEF SolTypeOK
    <3>2. CASE ~(out > from)
      <4>1. [seq |-> 0, data |-> <<>>] \in Packet
        BY SolAssumption DEF Packet
      <4>2. /\ sent' = 0 /\ bseq' = bseq
            /\ toCon' \in {toCon, Append(toCon, [seq |-> 0, data |-> <<>>])}
        BY <1>11, <3>2 DEF BmcAnswers
      <4> QED
        <5>1. toCon \in Seq(Packet) /\ bseq \in 0..SeqMax
          BY DEF SolTypeOK
        <5>2. Append(toCon, [seq |-> 0, data |-> <<>>]) \in Seq(Packet)
          BY <4>1, <5>1, QueueAppend
        <5> QED
          BY <4>2, <5>1, <5>2
    <3> QED
      BY <3>1, <3>2
  <2>5. UNCHANGED <<out, faults, calm, loopVars, renderVars, queueVars, seqVars, inputVars, lifeVars>>
    BY <1>11 DEF BmcAnswers
  <2>6. inSeq' \in 0..SeqMax /\ received' \in Seq(Key)
    <3>1. toBmc # <<>> /\ TakeData(Head(toBmc)) /\ Head(toBmc) \in Request
      BY <1>11, QueueTail DEF BmcAnswers, SolTypeOK
    <3>2. Head(toBmc).seq \in 0..SeqMax /\ Head(toBmc).data \in Seq(Key)
      BY <3>1 DEF Request
    <3> QED
      BY <3>1, <3>2 DEF TakeData, SolTypeOK
  <2> HIDE DEF from, low
  <2> QED
    BY <2>1, <2>2, <2>3, <2>4, <2>5, <2>6 DEF SolTypeOK, loopVars, renderVars, queueVars, seqVars,
         inputVars, lifeVars
<1>12. ASSUME LoseDatagram PROVE SolTypeOK'
  <2>1. toBmc' \in Seq(Request) /\ toCon' \in Seq(Packet)
    BY ZenonT(90), <1>12, QueueTail DEF LoseDatagram, SolTypeOK
  <2>2. UNCHANGED <<loopVars, seqVars, renderVars, queueVars, inputVars, cardVars, lifeVars>>
    BY <1>12 DEF LoseDatagram
  <2>3. faults' \in Nat
    BY <1>12 DEF LoseDatagram, SolTypeOK
  <2>4. calm' \in BOOLEAN
    BY <1>12, Zenon DEF LoseDatagram
  <2> QED
    BY <2>1, <2>2, <2>3, <2>4 DEF SolTypeOK, loopVars, seqVars, renderVars, queueVars,
         inputVars, cardVars, lifeVars
<1>13. ASSUME WakeRender PROVE SolTypeOK'
  <2>1. /\ renderWake' = TRUE
        /\ pc' \in {"feed", "send", "closing", "select"}
        /\ UNCHANGED <<renderBuf, pushed, outq, quit, renderVars, seqVars, inputVars, cardVars,
                       netVars, lifeVars>>
    BY <1>13 DEF WakeRender, AfterExchange
  <2> QED
    BY <2>1 DEF SolTypeOK, seqVars, renderVars, inputVars, cardVars, netVars, lifeVars
<1> QED
  BY <1>u, <1>1, <1>2, <1>3, <1>4, <1>5, <1>6, <1>7, <1>8, <1>9, <1>10, <1>11, <1>12, <1>13
  DEF SolNext, LoopStep, RenderStep

-----------------------------------------------------------------------------
(* SolConsole: the render queue and the turns of the loop.                 *)

\* The two actions that push, and what they push.
LEMMA Pushes ==
  ASSUME SolTypeOK, FeedByte \/ ReceiveReply
  PROVE  /\ \E bytes \in Seq(Nat) : PushRender(bytes)
         /\ UNCHANGED <<renderVars, lifeVars>>
         /\ pc \in {"feed", "wait"} /\ pc' # "closed"
<1>1. CASE FeedByte
  <2>1. (IF armed /\ Head(chunk) # Esc THEN <<0>> ELSE <<>>) \in Seq(Nat)
    OBVIOUS
  <2> QED
    BY <1>1, <2>1 DEF FeedByte
<1>2. CASE ReceiveReply
  <2>1. toCon \in Seq(Packet) /\ toCon # <<>>
    BY <1>2 DEF SolTypeOK, ReceiveReply
  <2>a. Head(toCon) \in Packet
    BY <2>1, QueueTail
  <2>2. Head(toCon).seq \in 0..SeqMax /\ Head(toCon).data \in Seq(Nat)
    BY <2>a DEF Packet
  <2>3. Ingest(Head(toCon).seq, Head(toCon).data).fresh \in Seq(Nat)
    BY <2>2, IngestType
  <2>4. PushRender(Ingest(Head(toCon).seq, Head(toCon).data).fresh)
    BY <1>2 DEF ReceiveReply
  <2>5. pc = "wait" /\ pc' # "closed" /\ UNCHANGED <<renderVars, lifeVars>>
    BY <1>2 DEF ReceiveReply, AfterExchange
  <2> QED
    BY <2>3, <2>4, <2>5
<1> QED
  BY <1>1, <1>2

\* The actions that do not touch the render queue, its goroutine, done or the terminal.
LEMMA LeavesRender ==
  ASSUME \/ \E data \in Inputs : TakeInput(data)
         \/ FeedEnds \/ Poll \/ SendPacket \/ ReadTimeout \/ ExchangeFails \/ ContextDone
         \/ HostPrints \/ BmcAnswers \/ LoseDatagram \/ UNCHANGED solVars
  PROVE  /\ UNCHANGED <<renderVars, queueVars, lifeVars>>
         /\ pc' = pc \/ (pc \notin {"closing", "closed"} /\ pc' # "closed")
<1>1. CASE \E data \in Inputs : TakeInput(data)
  BY <1>1 DEF TakeInput
<1>2. CASE FeedEnds
  BY <1>2 DEF FeedEnds
<1>3. CASE Poll \/ SendPacket \/ ReadTimeout \/ ExchangeFails \/ ContextDone
  BY <1>3 DEF Poll, SendPacket, ReadTimeout, ExchangeFails, ContextDone, AfterExchange
<1>4. CASE HostPrints \/ BmcAnswers \/ LoseDatagram \/ UNCHANGED solVars
  BY <1>4 DEF HostPrints, BmcAnswers, LoseDatagram, loopVars, solVars
<1> QED
  BY <1>1, <1>2, <1>3, <1>4

\* The queue and the teardown: a push needs a loop that is not closing yet.
LEMMA FlushedStep ==
  ASSUME SolTypeOK, Flushed, [SolNext]_solVars
  PROVE  Flushed'
<1>1. CASE FeedByte \/ ReceiveReply
  <2>1. PICK bytes \in Seq(Nat) : PushRender(bytes)
    BY <1>1, Pushes
  <2>2. /\ UNCHANGED <<render, writing, screen, done, term>>
        /\ pc \in {"feed", "wait"} /\ pc' # "closed"
    BY <1>1, Pushes DEF renderVars, lifeVars
  <2>3. /\ screen \in Seq(Nat) /\ writing \in Seq(Nat) /\ renderBuf \in Seq(Nat)
        /\ screen \o writing \in Seq(Nat)
    BY DEF SolTypeOK
  <2>4. (screen \o writing \o renderBuf) \o bytes = screen \o writing \o (renderBuf \o bytes)
    BY SMTT(60), <2>3
  <2>5. pushed' = screen' \o writing' \o renderBuf'
    BY <2>1, <2>2, <2>4 DEF Flushed, PushRender
  <2>6. ~done
    BY <2>2, Zenon DEF Flushed
  <2>7. render \notin {"lastFlush", "lastWrite", "done"}
    BY <2>6 DEF Flushed
  <2> QED
    BY <2>2, <2>5, <2>6, <2>7 DEF Flushed
<1>2. CASE \/ \E data \in Inputs : TakeInput(data)
           \/ FeedEnds \/ Poll \/ SendPacket \/ ReadTimeout \/ ExchangeFails \/ ContextDone
           \/ HostPrints \/ BmcAnswers \/ LoseDatagram \/ UNCHANGED solVars
  <2>1. /\ UNCHANGED <<render, writing, screen, done, term, renderBuf, renderWake, pushed>>
        /\ pc' = pc \/ (pc \notin {"closing", "closed"} /\ pc' # "closed")
    BY <1>2, LeavesRender DEF renderVars, queueVars, lifeVars
  <2> QED
    BY <2>1 DEF Flushed
<1>3. CASE CloseDone
  BY <1>3 DEF CloseDone, Flushed, renderVars, queueVars, loopVars
<1>4. CASE CloseTerminal
  BY <1>4 DEF CloseTerminal, Flushed, renderVars, queueVars
<1>5. CASE TakeWake
  BY SMTT(60), <1>5 DEF TakeWake, Flushed, loopVars, lifeVars, SolTypeOK
<1>6. CASE TakeDone
  BY SMTT(60), <1>6 DEF TakeDone, Flushed, queueVars, loopVars, lifeVars, SolTypeOK
<1>8. CASE SwapBuffer
  <2>1. /\ writing' = renderBuf /\ renderBuf' = <<>>
        /\ render \in {"flush", "lastFlush"}
        /\ render' = IF render = "lastFlush" THEN "lastWrite" ELSE "write"
        /\ UNCHANGED <<screen, pushed, pc, done, term>>
    BY <1>8 DEF SwapBuffer, loopVars, lifeVars
  <2>2. writing = <<>> /\ pushed = screen \o writing \o renderBuf
    BY <2>1 DEF Flushed
  <2>3. screen \o <<>> \o renderBuf = screen \o renderBuf \o <<>>
    BY DEF SolTypeOK
  <2>4. pushed' = screen' \o writing' \o renderBuf'
    BY <2>1, <2>2, <2>3
  <2> QED
    BY <2>1, <2>4 DEF Flushed
<1>9. CASE WakeRender
  <2>1. /\ UNCHANGED <<render, writing, screen, done, term, renderBuf, pushed>>
        /\ pc \notin {"closing", "closed"} /\ pc' # "closed"
    BY <1>9 DEF WakeRender, AfterExchange, renderVars, lifeVars
  <2> QED
    BY <2>1 DEF Flushed
<1>7. CASE WriteTerminal
  <2>1. /\ render \in {"write", "lastWrite"}
        /\ screen' = screen \o writing /\ writing' = <<>>
        /\ render' = IF render = "lastWrite" THEN "done" ELSE "wait"
        /\ UNCHANGED <<renderBuf, pushed, pc, done, term>>
    BY <1>7 DEF WriteTerminal, queueVars, loopVars, lifeVars
  <2>2. (screen \o writing) \o <<>> = screen \o writing
    BY DEF SolTypeOK
  <2>3. pushed' = screen' \o writing' \o renderBuf'
    BY <2>1, <2>2 DEF Flushed
  <2> QED
    BY <2>1, <2>3 DEF Flushed
<1> QED
  BY <1>1, <1>2, <1>3, <1>4, <1>5, <1>6, <1>7, <1>8, <1>9 DEF SolNext, LoopStep, RenderStep

\* A turn sends at most a break and then what passed, and is over before the next select.
LEMMA TurnStep ==
  ASSUME SolTypeOK, TurnSound, [SolNext]_solVars
  PROVE  TurnSound'
<1>1. CASE FeedByte
  BY <1>1 DEF FeedByte, TurnSound
<1>2. CASE FeedEnds
  <2>1. outq' = Packets /\ pass' = <<>>
    BY <1>2 DEF FeedEnds
  <2>2. pc' = IF Packets # <<>> THEN "send" ELSE IF quit THEN "closing" ELSE "select"
    BY <1>2 DEF FeedEnds
  <2>3. Len(Packets) <= 2 /\ (Len(Packets) = 2 => Packets[1] = <<>>)
    BY DEF Packets, SolTypeOK
  <2> QED
    BY <2>1, <2>2, <2>3 DEF TurnSound
<1>3. CASE Poll
  BY <1>3 DEF Poll, TurnSound, inputVars
<1>4. CASE SendPacket
  <2>1. outq' = Tail(outq) /\ pc = "send" /\ pc' = "wait" /\ pass' = pass
    BY <1>4 DEF SendPacket
  <2>2. outq # <<>> /\ Len(outq) <= 2 /\ outq \in Seq(Seq(Key))
    BY <2>1 DEF TurnSound, SolTypeOK
  <2>3. Len(outq') <= 1 /\ Len(outq') \in Nat
    BY <2>1, <2>2
  <2>4. pass' = <<>>
    BY <2>1 DEF TurnSound
  <2> QED
    BY <2>1, <2>3, <2>4 DEF TurnSound
<1>5. CASE ReceiveReply \/ ReadTimeout \/ (WakeRender /\ pc = "fresh")
  <2>1. /\ outq' = outq /\ pass' = pass /\ pc \in {"wait", "fresh"}
        /\ pc' \in {"fresh", AfterExchange}
    BY <1>5 DEF ReceiveReply, ReadTimeout, WakeRender, inputVars
  <2> QED
    BY <2>1 DEF AfterExchange, TurnSound
<1>9. CASE WakeRender /\ pc = "notice"
  BY <1>9 DEF WakeRender, TurnSound, inputVars
<1>6. CASE \E data \in Inputs : TakeInput(data)
  BY <1>6 DEF TakeInput, TurnSound
<1>7. CASE CloseDone \/ CloseTerminal \/ ExchangeFails \/ ContextDone
  BY <1>7 DEF CloseDone, CloseTerminal, ExchangeFails, ContextDone, TurnSound, loopVars, inputVars
<1>8. CASE TakeWake \/ TakeDone \/ SwapBuffer \/ WriteTerminal \/ HostPrints \/ BmcAnswers \/ LoseDatagram
           \/ UNCHANGED solVars
  <2>1. UNCHANGED <<pc, outq, pass>>
    BY <1>8 DEF TakeWake, TakeDone, SwapBuffer, WriteTerminal, HostPrints, BmcAnswers, LoseDatagram, solVars,
         loopVars, inputVars
  <2> QED
    BY <2>1 DEF TurnSound
<1> QED
  BY <1>1, <1>2, <1>3, <1>4, <1>5, <1>6, <1>7, <1>8, <1>9
  DEF SolNext, LoopStep, RenderStep, WakeRender

-----------------------------------------------------------------------------
(* SolConsole: the link.                                                   *)

\* What is left of a packet after its first k bytes.
LEMMA RestOf ==
  ASSUME NEW data \in Seq(Nat), NEW k \in 0..Len(data)
  PROVE  /\ SubSeq(data, k + 1, Len(data)) \in Seq(Nat)
         /\ Len(SubSeq(data, k + 1, Len(data))) = Len(data) - k
         /\ \A i \in 1..Len(SubSeq(data, k + 1, Len(data))) :
              SubSeq(data, k + 1, Len(data))[i] = data[k + i]
<1>1. PICK n \in Nat : n = Len(data)
  OBVIOUS
<1>2. PICK u : u = SubSeq(data, k + 1, n)
  OBVIOUS
<1>3. u \in Seq(Nat) /\ Len(u) = n - k
  BY <1>1, <1>2
<1>4. \A i \in 1..(n - k) : u[i] = data[k + i]
  BY <1>1, <1>2
<1> QED
  BY <1>1, <1>2, <1>3, <1>4, Zenon

\* The next serial bytes, appended, leave a sequence in order.
LEMMA OrderedPush ==
  ASSUME NEW s \in Seq(Nat), NEW n \in Nat, Ordered(s, n),
         NEW t \in Seq(Nat), \A i \in 1..Len(t) : t[i] = n + i
  PROVE  Ordered(s \o t, n + Len(t))
<1>1. /\ s \o t \in Seq(Nat) /\ Len(s \o t) = Len(s) + Len(t)
      /\ \A i \in 1..Len(s) : (s \o t)[i] = s[i]
      /\ \A i \in 1..Len(t) : (s \o t)[Len(s) + i] = t[i]
  BY SMTT(60)
<1> DEFINE u == s \o t
<1>2. \A i \in DOMAIN u : \/ i \in DOMAIN s /\ u[i] = s[i]
                          \/ i - Len(s) \in 1..Len(t) /\ u[i] = n + (i - Len(s))
  <2> SUFFICES ASSUME NEW i \in DOMAIN u
               PROVE  \/ i \in DOMAIN s /\ u[i] = s[i]
                      \/ i - Len(s) \in 1..Len(t) /\ u[i] = n + (i - Len(s))
    OBVIOUS
  <2>1. CASE i <= Len(s)
    BY <1>1, <2>1
  <2>2. CASE i > Len(s)
    <3>1. i - Len(s) \in 1..Len(t)
      BY <1>1, <2>2
    <3>2. Len(s) + (i - Len(s)) = i
      BY <1>1
    <3> QED
      BY <1>1, <3>1, <3>2
  <2> QED
    BY <1>1, <2>1, <2>2
<1>3. \A i \in DOMAIN s : i \in DOMAIN u /\ u[i] = s[i]
  BY <1>1
<1>4. \A i \in DOMAIN s : s[i] \in Nat /\ s[i] <= n
  BY DEF Ordered
<1>5. \A i \in 1..Len(t) : Len(s) + i \in DOMAIN u /\ u[Len(s) + i] = n + i
  BY <1>1
<1>6. DOMAIN u \subseteq Nat /\ Len(s) \in Nat /\ Len(t) \in Nat /\ DOMAIN s = 1..Len(s)
  BY <1>1
<1> HIDE DEF u
<1>7. ASSUME NEW i \in DOMAIN u, NEW j \in DOMAIN u, i < j, u[j] # 0 PROVE u[i] < u[j]
  <2>1. CASE j \in DOMAIN s
    <3>1. i \in DOMAIN s
      BY <1>2, <1>6, <1>7, <2>1
    <3> QED
      BY <1>3, <1>7, <2>1, <3>1 DEF Ordered
  <2>2. CASE j \notin DOMAIN s
    <3>1. j - Len(s) \in 1..Len(t) /\ u[j] = n + (j - Len(s))
      BY <1>2, <2>2
    <3>2. CASE i \in DOMAIN s
      BY <1>3, <1>4, <1>6, <3>1, <3>2
    <3>3. CASE i \notin DOMAIN s
      <4>1. u[i] = n + (i - Len(s))
        BY <1>2, <3>3
      <4> QED
        BY <1>6, <1>7, <3>1, <4>1
    <3> QED
      BY <3>2, <3>3
  <2> QED
    BY <2>1, <2>2
<1>8. ASSUME NEW i \in DOMAIN u PROVE u[i] <= n + Len(t)
  <2>1. CASE i \in DOMAIN s
    BY <1>3, <1>4, <1>6, <2>1
  <2>2. CASE i \notin DOMAIN s
    BY <1>2, <1>6, <2>2
  <2> QED
    BY <2>1, <2>2
<1>9. ASSUME NEW b \in 1..(n + Len(t)) PROVE \E i \in DOMAIN u : u[i] = b
  <2>1. CASE b <= n
    <3>1. b \in 1..n
      BY <1>6, <2>1
    <3>2. PICK i \in DOMAIN s : s[i] = b
      BY <3>1 DEF Ordered
    <3> QED
      BY <1>3, <3>2
  <2>2. CASE b > n
    <3>1. b - n \in 1..Len(t) /\ n + (b - n) = b
      BY <1>6, <2>2
    <3> QED
      BY <1>5, <3>1
  <2> QED
    BY <1>6, <2>1, <2>2
<1> QED
  BY <1>7, <1>8, <1>9 DEF Ordered, u

\* A notice among the serial bytes leaves them in order.
LEMMA OrderedNotice ==
  ASSUME NEW s \in Seq(Nat), NEW n \in Nat, Ordered(s, n)
  PROVE  Ordered(s \o <<0>>, n) /\ Ordered(s \o <<>>, n)
<1>1. s \o <<>> = s
  OBVIOUS
<1> DEFINE u == s \o <<0>>
<1>2. \A i \in DOMAIN u : \/ i \in DOMAIN s /\ u[i] = s[i]
                          \/ i = Len(s) + 1 /\ u[i] = 0
  OBVIOUS
<1>3. \A i \in DOMAIN s : i \in DOMAIN u /\ u[i] = s[i] /\ s[i] \in Nat
  OBVIOUS
<1>4. DOMAIN u = 1..(Len(s) + 1) /\ Len(s) \in Nat /\ DOMAIN s = 1..Len(s)
  OBVIOUS
<1> HIDE DEF u
<1>5. ASSUME NEW i \in DOMAIN u, NEW j \in DOMAIN u, i < j, u[j] # 0 PROVE u[i] < u[j]
  <2>1. j \in DOMAIN s
    BY <1>2, <1>5
  <2>2. i \in DOMAIN s
    BY <1>4, <1>5, <2>1
  <2> QED
    BY <1>3, <1>5, <2>1, <2>2 DEF Ordered
<1>6. \A i \in DOMAIN u : u[i] <= n
  BY <1>2 DEF Ordered
<1>7. \A b \in 1..n : \E i \in DOMAIN u : u[i] = b
  BY <1>3 DEF Ordered
<1> QED
  BY <1>1, <1>5, <1>6, <1>7 DEF Ordered, u

\* What a reply does: it is empty or repeats what was taken before, or it carries on where
\* the packet the card holds out was left.
LEMMA Took ==
  ASSUME SolTypeOK, LinkSound, PacketsSound, Ordered(pushed, Taken), ReceiveReply
  PROVE  /\ toCon \in Seq(Packet) /\ toCon # <<>> /\ toCon' = Tail(toCon)
         /\ pendingAck' = remoteSize'
         /\ \/ UNCHANGED <<remoteSeq, remoteSize, pushed>>
            \/ /\ sent > 0 /\ toCon[1].seq = bseq
               /\ remoteSeq' = bseq /\ remoteSize' = Len(toCon[1].data)
               /\ remoteSize' \in Nat /\ remoteSize' <= sent
               /\ remoteSeq = bseq => remoteSize <= remoteSize'
               /\ Ordered(pushed', base + remoteSize')
<1>1. toCon \in Seq(Packet) /\ toCon # <<>> /\ toCon' = Tail(toCon)
  BY DEF SolTypeOK, ReceiveReply
<1>2. Head(toCon) \in Packet /\ Head(toCon) = toCon[1] /\ 1 \in DOMAIN toCon
  BY <1>1, QueueTail
<1>3. PICK d \in Packet : d = toCon[1]
  BY <1>2
<1>4. PICK q \in 0..SeqMax, data \in Seq(Nat) : q = d.seq /\ data = d.data
  BY DEF Packet
<1>5. /\ remoteSeq' = Ingest(q, data).seq
      /\ remoteSize' = Ingest(q, data).size
      /\ pendingAck' = Ingest(q, data).ack
      /\ PushRender(Ingest(q, data).fresh)
  BY <1>2, <1>3, <1>4 DEF ReceiveReply
<1>6. q = 0 \/ Fresh(d) \/ Old(d)
  BY <1>2, <1>3, <1>4 DEF PacketsSound
<1>t. /\ pushed \in Seq(Nat) /\ base \in Nat /\ sent \in Nat /\ remoteSize \in Nat
      /\ pendingAck = remoteSize
  BY DEF SolTypeOK, LinkSound
<1>7. CASE q = 0
  <2>1. PushRender(<<>>) /\ UNCHANGED <<remoteSeq, remoteSize, pendingAck>>
    BY <1>5, <1>7 DEF Ingest
  <2>2. pushed' = pushed
    BY <2>1, <1>t DEF PushRender
  <2> QED
    BY <1>1, <1>t, <2>1, <2>2
<1>8. CASE q # 0 /\ Old(d)
  <2>1. q = remoteSeq /\ Len(data) = remoteSize
    BY <1>4, <1>8 DEF Old
  <2>2. SubSeq(data, remoteSize + 1, Len(data)) = <<>>
    BY <2>1
  <2>3. PushRender(<<>>) /\ UNCHANGED <<remoteSeq, remoteSize>> /\ pendingAck' = remoteSize
    BY <1>5, <1>8, <2>1, <2>2 DEF Ingest
  <2>4. pushed' = pushed
    BY <2>3, <1>t DEF PushRender
  <2> QED
    BY <1>1, <2>3, <2>4
<1>9. CASE q # 0 /\ Fresh(d)
  <2>1. /\ sent > 0 /\ q = bseq /\ Len(data) <= sent
        /\ \A i \in 1..Len(data) : data[i] = base + i
    BY <1>4, <1>9 DEF Fresh
  <2>2. remoteSeq' = bseq /\ remoteSize' = Len(data) /\ pendingAck' = Len(data)
    BY <1>5, <1>9, <2>1 DEF Ingest
  <2>3. remoteSeq = bseq => remoteSize <= Len(data)
    BY <1>2, <1>3, <1>4, <2>1 DEF PacketsSound
  <2>4. Ordered(pushed', base + Len(data))
    <3>1. CASE remoteSeq = bseq
      <4>1. Ordered(pushed, base + remoteSize)
        BY <2>1, <3>1 DEF Taken
      <4> DEFINE t == SubSeq(data, remoteSize + 1, Len(data))
      <4>2. pushed' = pushed \o t
        BY <1>5, <1>9, <2>1, <3>1 DEF Ingest, PushRender
      <4>3. /\ t \in Seq(Nat) /\ Len(t) = Len(data) - remoteSize
            /\ \A i \in 1..Len(t) : t[i] = data[remoteSize + i]
        <5>1. remoteSize \in 0..Len(data)
          BY <1>t, <2>3, <3>1
        <5> QED
          BY <5>1, RestOf
      <4>4. \A i \in 1..Len(t) : remoteSize + i \in 1..Len(data)
        BY <1>t, <2>3, <3>1, <4>3
      <4>5. \A i \in 1..Len(t) : t[i] = (base + remoteSize) + i
        BY <1>t, <2>1, <4>3, <4>4
      <4> HIDE DEF t
      <4>6. (base + remoteSize) + Len(t) = base + Len(data) /\ base + remoteSize \in Nat
        <5>1. Len(data) \in Nat
          OBVIOUS
        <5> QED
          BY <1>t, <4>3, <5>1
      <4>7. Ordered(pushed \o t, (base + remoteSize) + Len(t))
        BY <1>t, <4>1, <4>3, <4>5, <4>6, OrderedPush
      <4> QED
        BY <4>2, <4>6, <4>7
    <3>2. CASE remoteSeq # bseq
      <4>1. Ordered(pushed, base)
        BY <3>2 DEF Taken
      <4>2. pushed' = pushed \o data
        BY <1>5, <1>9, <2>1, <3>2 DEF Ingest, PushRender
      <4> QED
        BY <1>t, <2>1, <4>1, <4>2, OrderedPush
    <3> QED
      BY <3>1, <3>2
  <2> QED
    BY <1>1, <1>3, <1>4, <2>1, <2>2, <2>3, <2>4
<1> QED
  BY <1>6, <1>7, <1>8, <1>9

\* The link, as far as the datagrams are concerned.
Link == LinkSound /\ PacketsSound /\ AcksSound /\ Ordered(pushed, Taken)

\* A datagram to the console is taken away, by a reply or by a loss.
LEMMA PacketGone ==
  ASSUME SolTypeOK, PacketsSound, toCon # <<>>, toCon' = Tail(toCon),
         UNCHANGED <<cardVars, remoteSeq, remoteSize>>
  PROVE  PacketsSound'
<1>1. /\ \A i \in DOMAIN Tail(toCon) : i + 1 \in DOMAIN toCon /\ Tail(toCon)[i] = toCon[i + 1]
      /\ \A i, j \in DOMAIN Tail(toCon) : i < j => i + 1 < j + 1
  <2>1. toCon \in Seq(Packet)
    BY DEF SolTypeOK
  <2> QED
    BY <2>1, QueueTail
<1>2. UNCHANGED <<base, sent, bseq, remoteSeq, remoteSize>>
  BY DEF cardVars
<1>3. (\A i \in DOMAIN toCon : toCon[i].seq = 0 \/ Fresh(toCon[i]) \/ Old(toCon[i]))'
  <2>1. \A i \in DOMAIN toCon' : toCon'[i].seq = 0 \/ Fresh(toCon'[i]) \/ Old(toCon'[i])
    BY <1>1 DEF PacketsSound
  <2> QED
    BY <1>2, <2>1 DEF Fresh, Old
<1>4. \A i, j \in DOMAIN toCon' :
        i < j /\ sent > 0 /\ toCon'[i].seq = bseq /\ toCon'[j].seq # 0 =>
          toCon'[j].seq = bseq /\ Len(toCon'[i].data) <= Len(toCon'[j].data)
  BY <1>1, <1>2 DEF PacketsSound
<1>5. sent > 0 /\ remoteSeq = bseq =>
        \A i \in DOMAIN toCon' : toCon'[i].seq = bseq => remoteSize <= Len(toCon'[i].data)
  BY <1>1, <1>2 DEF PacketsSound
<1> QED
  BY <1>2, <1>3, <1>4, <1>5 DEF PacketsSound

\* A datagram to the card is taken away, by a loss.
LEMMA RequestGone ==
  ASSUME SolTypeOK, AcksSound, toBmc # <<>>, toBmc' = Tail(toBmc),
         UNCHANGED <<cardVars, remoteSeq, remoteSize>>
  PROVE  AcksSound'
<1>1. /\ \A i \in DOMAIN Tail(toBmc) : i + 1 \in DOMAIN toBmc /\ Tail(toBmc)[i] = toBmc[i + 1]
      /\ \A i, j \in DOMAIN Tail(toBmc) : i < j => i + 1 < j + 1
  <2>1. toBmc \in Seq(Request)
    BY DEF SolTypeOK
  <2> QED
    BY <2>1, QueueTail
<1>2. UNCHANGED <<base, sent, bseq, remoteSeq, remoteSize>>
  BY DEF cardVars
<1> QED
  BY <1>1, <1>2 DEF AcksSound

\* Whatever leaves the sequence state, the card, the wire and the pushed bytes alone.
LEMMA LinkKept ==
  ASSUME Link, UNCHANGED <<remoteSeq, remoteSize, pendingAck, cardVars, toBmc, toCon, pushed>>
  PROVE  Link'
BY DEF Link, LinkSound, PacketsSound, AcksSound, Fresh, Old, Taken, Ordered, cardVars

\* A reply keeps the two sides of the link in agreement.
LEMMA LinkReply ==
  ASSUME SolTypeOK, SolTypeOK', Link, ReceiveReply
  PROVE  Link'
<1>1. /\ toCon \in Seq(Packet) /\ toCon # <<>> /\ toCon' = Tail(toCon)
      /\ pendingAck' = remoteSize'
      /\ UNCHANGED <<out, base, sent, bseq, toBmc>> /\ UNCHANGED cardVars
  BY Took DEF Link, ReceiveReply, cardVars
<1>2. CASE UNCHANGED <<remoteSeq, remoteSize, pushed>>
  <2>1. PacketsSound'
    BY <1>1, <1>2, PacketGone DEF Link
  <2>2. LinkSound' /\ AcksSound' /\ Ordered(pushed, Taken)'
    BY <1>1, <1>2 DEF Link, LinkSound, AcksSound, Ordered, Taken
  <2> QED
    BY <2>1, <2>2 DEF Link
<1>3. CASE /\ sent > 0 /\ toCon[1].seq = bseq
           /\ remoteSeq' = bseq /\ remoteSize' = Len(toCon[1].data)
           /\ remoteSize' \in Nat /\ remoteSize' <= sent
           /\ remoteSeq = bseq => remoteSize <= remoteSize'
           /\ Ordered(pushed', base + remoteSize')
  <2>1. /\ 1 \in DOMAIN toCon
        /\ \A i \in DOMAIN Tail(toCon) : i + 1 \in DOMAIN toCon /\ Tail(toCon)[i] = toCon[i + 1]
        /\ \A i, j \in DOMAIN Tail(toCon) : i < j => i + 1 < j + 1
        /\ \A i \in DOMAIN Tail(toCon) : 1 < i + 1
    BY <1>1, QueueTail
  <2>2. \A i \in DOMAIN toCon' : toCon'[i].seq = 0 \/ toCon'[i].seq = bseq
    BY <1>1, <1>3, <2>1 DEF Link, PacketsSound
  <2>3. \A i \in DOMAIN toCon' : toCon'[i].seq = bseq => remoteSize' <= Len(toCon'[i].data)
    <3>1. bseq # 0
      BY <1>3 DEF Link, LinkSound
    <3> QED
      BY <1>1, <1>3, <2>1, <3>1 DEF Link, PacketsSound
  <2>4. \A i \in DOMAIN toCon' : toCon'[i].seq = 0 \/ Fresh(toCon'[i]) \/ Old(toCon'[i])
    BY <1>1, <2>1 DEF Link, PacketsSound
  <2>5. \A i \in DOMAIN toCon' : toCon'[i].seq = 0 \/ Fresh(toCon'[i])
    <3> SUFFICES ASSUME NEW i \in DOMAIN toCon', toCon'[i].seq # 0, ~Fresh(toCon'[i])
                 PROVE  FALSE
      OBVIOUS
    <3>1. toCon'[i].seq = bseq /\ Old(toCon'[i])
      BY <2>2, <2>4
    <3>2. sent # 0
      BY <1>3 DEF SolTypeOK
    <3> QED
      BY <3>1, <3>2 DEF Old
  <2>6. (\A i \in DOMAIN toCon : toCon[i].seq = 0 \/ Fresh(toCon[i]))'
    BY <1>1, <2>5 DEF Fresh
  <2>7. \A i, j \in DOMAIN toCon' :
          i < j /\ sent > 0 /\ toCon'[i].seq = bseq /\ toCon'[j].seq # 0 =>
            toCon'[j].seq = bseq /\ Len(toCon'[i].data) <= Len(toCon'[j].data)
    BY <1>1, <2>1 DEF Link, PacketsSound
  <2>8. PacketsSound'
    BY <1>1, <2>3, <2>6, <2>7 DEF PacketsSound
  <2>9. LinkSound'
    BY <1>1, <1>3 DEF Link, LinkSound, SolTypeOK
  <2>10. AcksSound'
    <3>1. sent # 0 /\ sent' # 0
      BY <1>1, <1>3 DEF SolTypeOK
    <3>2. CASE remoteSeq = bseq
      <4>1. \A i \in DOMAIN toBmc : toBmc[i].ack = bseq => toBmc[i].count <= remoteSize'
        <5> SUFFICES ASSUME NEW i \in DOMAIN toBmc, toBmc[i].ack = bseq
                     PROVE  toBmc[i].count <= remoteSize'
          OBVIOUS
        <5>1. toBmc[i].count <= remoteSize /\ remoteSize <= remoteSize'
          BY <1>3, <3>2 DEF Link, AcksSound
        <5>2. toBmc \in Seq(Request) /\ remoteSize \in Nat
          BY DEF SolTypeOK
        <5>a. toBmc[i] \in Request
          BY <5>2
        <5>3. toBmc[i].count \in Nat
          BY <5>a DEF Request
        <5> QED
          BY <1>3, <5>1, <5>2, <5>3
      <4> QED
        BY <1>1, <1>3, <3>1, <3>2, <4>1 DEF Link, AcksSound
    <3>3. CASE remoteSeq # bseq
      <4>1. \A i \in DOMAIN toBmc : toBmc[i].ack = remoteSeq
        BY <3>3 DEF Link, AcksSound
      <4>2. \A i \in DOMAIN toBmc : toBmc[i].ack # bseq
        BY <3>3, <4>1
      <4> QED
        BY <1>1, <1>3, <3>1, <4>2 DEF AcksSound
    <3> QED
      BY <3>2, <3>3
  <2>11. Ordered(pushed, Taken)'
    BY <1>1, <1>3 DEF Taken
  <2> QED
    BY <2>8, <2>9, <2>10, <2>11 DEF Link
<1> QED
  BY <1>2, <1>3, Took DEF Link

\* A request acknowledges what was taken last.
LEMMA LinkSend ==
  ASSUME SolTypeOK, TurnSound, Link, SendPacket
  PROVE  Link'
<1> DEFINE r == [seq |-> localSeq, ack |-> remoteSeq, count |-> pendingAck, data |-> Head(outq)]
<1>1. /\ toBmc' = Append(toBmc, r)
      /\ UNCHANGED <<remoteSeq, remoteSize, pendingAck, out, base, sent, bseq, toCon, pushed>>
  BY DEF SendPacket, seqVars, cardVars, queueVars
<1>2. toBmc \in Seq(Request) /\ r \in Request
  <2>1. outq # <<>>
    BY DEF SendPacket, TurnSound
  <2>2. Head(outq) \in Seq(Key)
    BY <2>1 DEF SolTypeOK
  <2> QED
    BY <2>2 DEF SolTypeOK, Request
<1>3. r.ack = remoteSeq /\ r.count = remoteSize
  BY DEF Link, LinkSound
<1> HIDE DEF r
<1>4. /\ Len(toBmc) \in Nat /\ DOMAIN toBmc = 1..Len(toBmc)
      /\ DOMAIN toBmc' = 1..(Len(toBmc) + 1)
      /\ \A i \in DOMAIN toBmc' : \/ i \in DOMAIN toBmc /\ toBmc'[i] = toBmc[i]
                                  \/ i = Len(toBmc) + 1 /\ toBmc'[i] = r
  BY <1>1, <1>2
<1>5. sent = 0 \/ remoteSeq # bseq => \A i \in DOMAIN toBmc' : toBmc'[i].ack = remoteSeq
  BY <1>3, <1>4 DEF Link, AcksSound
<1>6. \A i, j \in DOMAIN toBmc' : i < j /\ toBmc'[i].ack = bseq => toBmc'[j].ack = remoteSeq
  <2> SUFFICES ASSUME NEW i \in DOMAIN toBmc', NEW j \in DOMAIN toBmc', i < j,
                      toBmc'[i].ack = bseq
               PROVE  toBmc'[j].ack = remoteSeq
    OBVIOUS
  <2>1. CASE j \in DOMAIN toBmc
    <3>1. i \in DOMAIN toBmc /\ toBmc'[i] = toBmc[i] /\ toBmc'[j] = toBmc[j]
      BY <1>4, <2>1
    <3> QED
      BY <2>1, <3>1 DEF Link, AcksSound
  <2>2. CASE j \notin DOMAIN toBmc
    BY <1>3, <1>4, <2>2
  <2> QED
    BY <2>1, <2>2
<1>7. sent > 0 /\ remoteSeq = bseq =>
        \A i \in DOMAIN toBmc' : toBmc'[i].ack = bseq => toBmc'[i].count <= remoteSize
  <2>1. remoteSize <= remoteSize
    BY DEF SolTypeOK
  <2> QED
    BY <1>3, <1>4, <2>1 DEF Link, AcksSound
<1>8. AcksSound'
  BY <1>1, <1>5, <1>6, <1>7 DEF AcksSound
<1>9. LinkSound' /\ PacketsSound' /\ Ordered(pushed, Taken)'
  BY <1>1 DEF Link, LinkSound, PacketsSound, Ordered, Taken, Fresh, Old
<1> QED
  BY <1>8, <1>9 DEF Link

\* The card acknowledges only what the console has taken: when a request covers the packet,
\* the console has shown all of it and no other request acknowledges anything else.
LEMMA AckedAll ==
  ASSUME SolTypeOK, Link, toBmc # <<>>, Acks(Head(toBmc))
  PROVE  /\ sent > 0 /\ remoteSeq = bseq /\ remoteSize = sent
         /\ \A i \in DOMAIN toBmc : toBmc[i].ack = remoteSeq
<1>1. toBmc \in Seq(Request)
  BY DEF SolTypeOK
<1>2. 1 \in DOMAIN toBmc /\ Head(toBmc) = toBmc[1] /\ DOMAIN toBmc = 1..Len(toBmc)
  BY <1>1, QueueTail
<1>3. sent > 0 /\ toBmc[1].ack = bseq /\ toBmc[1].count >= sent
  BY <1>2 DEF Acks
<1>4. remoteSeq = bseq
  BY <1>2, <1>3 DEF Link, AcksSound
<1>5. toBmc[1].count <= remoteSize /\ remoteSize <= sent
  BY <1>2, <1>3, <1>4 DEF Link, AcksSound, LinkSound
<1>6. remoteSize = sent
  <2>1. toBmc[1] \in Request
    BY <1>1, <1>2
  <2>2. toBmc[1].count \in Nat /\ remoteSize \in Nat /\ sent \in Nat
    BY <2>1 DEF Request, SolTypeOK
  <2> QED
    BY <1>3, <1>5, <2>2
<1>7. \A i \in DOMAIN toBmc : toBmc[i].ack = remoteSeq
  <2> SUFFICES ASSUME NEW i \in DOMAIN toBmc PROVE toBmc[i].ack = remoteSeq
    OBVIOUS
  <2>1. CASE i = 1
    BY <1>3, <1>4, <2>1
  <2>2. CASE i # 1
    <3>1. 1 < i
      BY <1>1, <2>2
    <3> QED
      BY <1>2, <1>3, <3>1 DEF Link, AcksSound
  <2> QED
    BY <2>1, <2>2
<1> QED
  BY <1>3, <1>4, <1>6, <1>7

\* Between two packets, or on the way from one to the next, the datagrams under way are old:
\* requests that acknowledge the last packet, and repeats of it.
AllOld ==
  /\ \A i \in DOMAIN toBmc : toBmc[i].ack = remoteSeq
  /\ \A i \in DOMAIN toCon : toCon[i].seq # 0 =>
       toCon[i].seq = remoteSeq /\ Len(toCon[i].data) = remoteSize
  /\ remoteSeq = bseq
  /\ Ordered(pushed, IF sent > 0 THEN base + sent ELSE base)

\* That is so before the card leaves the packet it has.
LEMMA OldAround ==
  ASSUME SolTypeOK, Link, toBmc # <<>>, Acks(Head(toBmc)) \/ sent = 0
  PROVE  AllOld
<1>1. CASE sent = 0
  <2>1. remoteSeq = bseq /\ \A i \in DOMAIN toBmc : toBmc[i].ack = remoteSeq
    BY <1>1 DEF Link, LinkSound, AcksSound
  <2>2. \A i \in DOMAIN toCon : toCon[i].seq # 0 =>
          toCon[i].seq = remoteSeq /\ Len(toCon[i].data) = remoteSize
    BY <1>1 DEF Link, PacketsSound, Fresh, Old
  <2>3. Ordered(pushed, base)
    BY <1>1 DEF Link, Taken
  <2> QED
    BY <1>1, <2>1, <2>2, <2>3 DEF AllOld
<1>2. CASE Acks(Head(toBmc))
  <2>1. /\ sent > 0 /\ remoteSeq = bseq /\ remoteSize = sent
        /\ \A i \in DOMAIN toBmc : toBmc[i].ack = remoteSeq
    BY <1>2, AckedAll
  <2>2. sent # 0 /\ sent \in Nat
    BY <2>1 DEF SolTypeOK
  <2>3. ASSUME NEW i \in DOMAIN toCon, toCon[i].seq # 0
        PROVE  toCon[i].seq = remoteSeq /\ Len(toCon[i].data) = remoteSize
    <3>1. Fresh(toCon[i])
      BY <2>1, <2>2, <2>3 DEF Link, PacketsSound, Old
    <3>2. toCon[i].seq = bseq /\ Len(toCon[i].data) <= sent
      BY <3>1 DEF Fresh
    <3>3. remoteSize <= Len(toCon[i].data)
      BY <2>1, <3>2 DEF Link, PacketsSound
    <3>4. toCon[i] \in Packet
      BY DEF SolTypeOK
    <3>5. toCon[i].data \in Seq(Nat)
      BY <3>4 DEF Packet
    <3>6. Len(toCon[i].data) \in Nat
      BY <3>5
    <3> QED
      BY <2>1, <2>2, <3>2, <3>3, <3>6
  <2>4. Ordered(pushed, base + sent)
    BY <2>1 DEF Link, Taken
  <2> QED
    BY <2>1, <2>3, <2>4 DEF AllOld
<1> QED
  BY <1>1, <1>2

\* What the card may append to the datagrams under way: a packet, after everything else.
LEMMA PacketAppended ==
  ASSUME SolTypeOK, NEW d \in Packet, toCon' = Append(toCon, d)
  PROVE  /\ DOMAIN toCon = 1..Len(toCon) /\ Len(toCon) \in Nat
         /\ DOMAIN toCon' = 1..(Len(toCon) + 1)
         /\ \A i \in DOMAIN toCon' : \/ i \in DOMAIN toCon /\ toCon'[i] = toCon[i]
                                     \/ i = Len(toCon) + 1 /\ toCon'[i] = d
<1>1. toCon \in Seq(Packet)
  BY DEF SolTypeOK
<1> QED
  BY <1>1

\* The card starts a new packet.
LEMMA LinkNewPacket ==
  ASSUME SolTypeOK, Link, AllOld, NEW from \in Nat, Ordered(pushed, from), NEW len \in Nat,
         toBmc # <<>>, toBmc' = Tail(toBmc),
         base' = from, sent' = len, len > 0, from + len <= out,
         bseq' = NextSeq(bseq),
         toCon' = Append(toCon, [seq |-> bseq', data |-> [i \in 1..len |-> from + i]]),
         UNCHANGED <<out, remoteSeq, remoteSize, pendingAck, pushed>>
  PROVE  Link'
<1>1. bseq' \in 1..SeqMax /\ bseq' # remoteSeq /\ bseq' # 0
  BY SMTT(60), NextSeqType DEF SolTypeOK, AllOld
<1> DEFINE d == [seq |-> bseq', data |-> [i \in 1..len |-> from + i]]
<1>2. [i \in 1..len |-> from + i] \in Seq(Nat) /\ Len([i \in 1..len |-> from + i]) = len
  OBVIOUS
<1>3. d \in Packet
  BY <1>1, <1>2 DEF Packet
<1>4. /\ d.seq = bseq' /\ Len(d.data) = len
      /\ \A i \in 1..Len(d.data) : d.data[i] = from + i
  BY <1>2
<1>5. toCon' = Append(toCon, d)
  OBVIOUS
<1> HIDE DEF d
<1>6. /\ DOMAIN toCon = 1..Len(toCon) /\ Len(toCon) \in Nat
      /\ DOMAIN toCon' = 1..(Len(toCon) + 1)
      /\ \A i \in DOMAIN toCon' : \/ i \in DOMAIN toCon /\ toCon'[i] = toCon[i]
                                  \/ i = Len(toCon) + 1 /\ toCon'[i] = d
  BY <1>3, <1>5, PacketAppended
<1>7. \A i \in DOMAIN toCon' :
        \/ toCon'[i].seq = 0
        \/ toCon'[i].seq = remoteSeq /\ Len(toCon'[i].data) = remoteSize
        \/ i = Len(toCon) + 1 /\ toCon'[i] = d
  BY <1>6 DEF AllOld
<1>8. PacketsSound'
  <2>1. (\A i \in DOMAIN toCon : toCon[i].seq = 0 \/ Fresh(toCon[i]) \/ Old(toCon[i]))'
    <3> SUFFICES ASSUME NEW i \in DOMAIN toCon'
                 PROVE  (toCon[i].seq = 0 \/ Fresh(toCon[i]) \/ Old(toCon[i]))'
      OBVIOUS
    <3>1. CASE i = Len(toCon) + 1 /\ toCon'[i] = d
      BY <1>4, <3>1 DEF Fresh
    <3>2. CASE toCon'[i].seq = remoteSeq /\ Len(toCon'[i].data) = remoteSize
      BY <1>1, <3>2 DEF Old
    <3> QED
      BY <1>7, <3>1, <3>2
  <2>2. ASSUME NEW i \in DOMAIN toCon', NEW j \in DOMAIN toCon', i < j, toCon'[i].seq = bseq'
        PROVE  FALSE
    <3>1. i = Len(toCon) + 1
      BY <1>1, <1>7, <2>2
    <3> QED
      BY <1>6, <2>2, <3>1
  <2>3. remoteSeq' # bseq'
    BY <1>1
  <2> QED
    BY <2>1, <2>2, <2>3 DEF PacketsSound
<1>9. AcksSound'
  <2>1. \A i \in DOMAIN toBmc' : toBmc'[i].ack = remoteSeq
    <3>1. toBmc \in Seq(Request)
      BY DEF SolTypeOK
    <3>2. \A i \in DOMAIN Tail(toBmc) : i + 1 \in DOMAIN toBmc /\ Tail(toBmc)[i] = toBmc[i + 1]
      BY <3>1, QueueTail
    <3> QED
      BY <3>2 DEF AllOld
  <2> QED
    BY <1>1, <2>1 DEF AcksSound
<1>10. LinkSound'
  BY <1>1 DEF Link, LinkSound
<1>11. Ordered(pushed, Taken)'
  BY <1>1 DEF Taken
<1> QED
  BY <1>8, <1>9, <1>10, <1>11 DEF Link

\* The card has nothing to send: it is silent, or it sends an empty packet.
LEMMA LinkIdle ==
  ASSUME SolTypeOK, Link, AllOld, NEW from \in Nat, Ordered(pushed, from), from <= out,
         toBmc # <<>>, toBmc' = Tail(toBmc),
         base' = from, sent' = 0, bseq' = bseq,
         toCon' \in {toCon, Append(toCon, [seq |-> 0, data |-> <<>>])},
         UNCHANGED <<out, remoteSeq, remoteSize, pendingAck, pushed>>
  PROVE  Link'
<1>1. \A i \in DOMAIN toCon' : toCon'[i].seq # 0 =>
        toCon'[i].seq = remoteSeq /\ Len(toCon'[i].data) = remoteSize
  <2> DEFINE d == [seq |-> 0, data |-> <<>>]
  <2>1. d \in Packet /\ d.seq = 0
    BY SolAssumption DEF Packet
  <2> HIDE DEF d
  <2>2. CASE toCon' = toCon
    BY <2>2 DEF AllOld
  <2>3. CASE toCon' = Append(toCon, d)
    <3>1. \A i \in DOMAIN toCon' : \/ i \in DOMAIN toCon /\ toCon'[i] = toCon[i]
                                   \/ i = Len(toCon) + 1 /\ toCon'[i] = d
      BY <2>1, <2>3, PacketAppended
    <3> QED
      BY <2>1, <3>1 DEF AllOld
  <2> QED
    BY <2>2, <2>3 DEF d
<1>2. PacketsSound'
  <2>1. (\A i \in DOMAIN toCon : toCon[i].seq = 0 \/ Old(toCon[i]))'
    BY <1>1 DEF Old
  <2> QED
    BY <2>1 DEF PacketsSound
<1>3. AcksSound'
  <2>1. \A i \in DOMAIN toBmc' : toBmc'[i].ack = remoteSeq
    <3>1. toBmc \in Seq(Request)
      BY DEF SolTypeOK
    <3>2. \A i \in DOMAIN Tail(toBmc) : i + 1 \in DOMAIN toBmc /\ Tail(toBmc)[i] = toBmc[i + 1]
      BY <3>1, QueueTail
    <3> QED
      BY <3>2 DEF AllOld
  <2> QED
    BY <2>1 DEF AcksSound
<1>4. LinkSound'
  BY DEF Link, LinkSound, AllOld
<1>5. Ordered(pushed, Taken)'
  BY DEF Taken
<1> QED
  BY <1>2, <1>3, <1>4, <1>5 DEF Link

\* The card repeats its packet, possibly extended.
LEMMA LinkRepeat ==
  ASSUME SolTypeOK, Link, NEW len \in Nat,
         toBmc # <<>>, toBmc' = Tail(toBmc),
         sent > 0, sent <= len, base + len <= out,
         base' = base, sent' = len, bseq' = bseq,
         toCon' = Append(toCon, [seq |-> bseq', data |-> [i \in 1..len |-> base + i]]),
         UNCHANGED <<out, remoteSeq, remoteSize, pendingAck, pushed>>
  PROVE  Link'
<1>1. /\ bseq \in 0..SeqMax /\ base \in Nat /\ sent \in Nat /\ remoteSize \in Nat
      /\ len > 0 /\ sent # 0 /\ len # 0
  BY SMTT(60) DEF SolTypeOK
<1> DEFINE d == [seq |-> bseq, data |-> [i \in 1..len |-> base + i]]
<1>2. [i \in 1..len |-> base + i] \in Seq(Nat) /\ Len([i \in 1..len |-> base + i]) = len
  BY <1>1
<1>3. d \in Packet
  BY <1>1, <1>2 DEF Packet
<1>4. /\ d.seq = bseq /\ Len(d.data) = len
      /\ \A i \in 1..Len(d.data) : d.data[i] = base + i
  BY <1>2
<1>5. toCon' = Append(toCon, d)
  OBVIOUS
<1> HIDE DEF d
<1>6. /\ DOMAIN toCon = 1..Len(toCon) /\ Len(toCon) \in Nat
      /\ DOMAIN toCon' = 1..(Len(toCon) + 1)
      /\ \A i \in DOMAIN toCon' : \/ i \in DOMAIN toCon /\ toCon'[i] = toCon[i]
                                  \/ i = Len(toCon) + 1 /\ toCon'[i] = d
  BY <1>3, <1>5, PacketAppended
<1>7. \A i \in DOMAIN toCon : toCon[i].seq = 0 \/ Fresh(toCon[i]) \/ Old(toCon[i])
  BY DEF Link, PacketsSound
<1>8. \A i \in DOMAIN toCon : Fresh(toCon[i]) => Len(toCon[i].data) <= len
  <2> SUFFICES ASSUME NEW i \in DOMAIN toCon, Fresh(toCon[i]) PROVE Len(toCon[i].data) <= len
    OBVIOUS
  <2>1. toCon[i] \in Packet
    BY SMTT(60) DEF SolTypeOK
  <2>2. toCon[i].data \in Seq(Nat)
    BY <2>1 DEF Packet
  <2>3. Len(toCon[i].data) \in Nat /\ Len(toCon[i].data) <= sent
    BY <2>2 DEF Fresh
  <2> QED
    BY <1>1, <2>3
<1>9. PacketsSound'
  <2>1. (\A i \in DOMAIN toCon : toCon[i].seq = 0 \/ Fresh(toCon[i]) \/ Old(toCon[i]))'
    <3> SUFFICES ASSUME NEW i \in DOMAIN toCon'
                 PROVE  (toCon[i].seq = 0 \/ Fresh(toCon[i]) \/ Old(toCon[i]))'
      OBVIOUS
    <3>1. CASE i = Len(toCon) + 1 /\ toCon'[i] = d
      <4>1. len <= len
        OBVIOUS
      <4> QED
        BY <1>1, <1>4, <3>1, <4>1 DEF Fresh
    <3>2. CASE i \in DOMAIN toCon /\ toCon'[i] = toCon[i]
      <4>1. CASE Fresh(toCon[i])
        BY <1>1, <1>8, <3>2, <4>1 DEF Fresh
      <4>2. CASE Old(toCon[i])
        BY <1>1, <3>2, <4>2 DEF Old
      <4> QED
        BY <1>7, <3>2, <4>1, <4>2
    <3> QED
      BY <1>6, <3>1, <3>2
  <2>2. ASSUME NEW i \in DOMAIN toCon', NEW j \in DOMAIN toCon', i < j,
               toCon'[i].seq = bseq, toCon'[j].seq # 0
        PROVE  toCon'[j].seq = bseq /\ Len(toCon'[i].data) <= Len(toCon'[j].data)
    <3>1. i \in DOMAIN toCon /\ toCon'[i] = toCon[i]
      BY <1>6, <2>2
    <3>2. CASE j \in DOMAIN toCon /\ toCon'[j] = toCon[j]
      BY <1>1, <2>2, <3>1, <3>2 DEF Link, PacketsSound
    <3>3. CASE j = Len(toCon) + 1 /\ toCon'[j] = d
      <4>1. bseq # 0
        BY DEF Link, LinkSound
      <4>2. Fresh(toCon[i])
        <5>1. CASE Old(toCon[i])
          BY <1>1, <2>2, <3>1, <5>1 DEF Old
        <5> QED
          BY <1>7, <2>2, <3>1, <4>1, <5>1
      <4> QED
        BY <1>4, <1>8, <3>1, <3>3, <4>2
    <3> QED
      BY <1>6, <3>2, <3>3
  <2>3. ASSUME remoteSeq = bseq, NEW i \in DOMAIN toCon', toCon'[i].seq = bseq
        PROVE  remoteSize <= Len(toCon'[i].data)
    <3>1. CASE i \in DOMAIN toCon /\ toCon'[i] = toCon[i]
      BY <2>3, <3>1 DEF Link, PacketsSound
    <3>2. CASE i = Len(toCon) + 1 /\ toCon'[i] = d
      <4>1. remoteSize <= sent
        BY <2>3 DEF Link, LinkSound
      <4> QED
        BY <1>1, <1>4, <3>2, <4>1
    <3> QED
      BY <1>6, <3>1, <3>2
  <2> QED
    BY SMTT(60), <2>1, <2>2, <2>3 DEF PacketsSound
<1>10. AcksSound'
  <2>1. toBmc \in Seq(Request)
    BY DEF SolTypeOK
  <2>2. /\ \A i \in DOMAIN Tail(toBmc) : i + 1 \in DOMAIN toBmc /\ Tail(toBmc)[i] = toBmc[i + 1]
        /\ \A i, j \in DOMAIN Tail(toBmc) : i < j => i + 1 < j + 1
    BY <2>1, QueueTail
  <2> QED
    BY <1>1, <2>2 DEF Link, AcksSound
<1>11. LinkSound'
  <2>1. bseq # 0
    BY DEF Link, LinkSound
  <2>2. remoteSeq = bseq => remoteSize <= len
    BY <1>1 DEF Link, LinkSound
  <2> QED
    BY <1>1, <2>1, <2>2 DEF Link, LinkSound
<1>12. Ordered(pushed, Taken)'
  BY <1>1 DEF Link, Taken
<1> QED
  BY <1>9, <1>10, <1>11, <1>12 DEF Link

\* The three ways the card answers.
LEMMA LinkAnswer ==
  ASSUME SolTypeOK, SolTypeOK', Link, BmcAnswers
  PROVE  Link'
<1> DEFINE acked == Acks(Head(toBmc))
           from == IF acked THEN base + sent ELSE base
           retransmit == sent > 0 /\ ~acked
<1>1. /\ toBmc # <<>> /\ toBmc' = Tail(toBmc) /\ base' = from
      /\ UNCHANGED <<out, remoteSeq, remoteSize, pendingAck, pushed>>
  BY DEF BmcAnswers, seqVars, queueVars
<1>2. IF out > from
        THEN \E len \in (IF retransmit THEN sent ELSE 1)..(out - from) :
               /\ sent' = len
               /\ bseq' = IF retransmit THEN bseq ELSE NextSeq(bseq)
               /\ toCon' = Append(toCon, [seq |-> bseq', data |-> [i \in 1..len |-> from + i]])
        ELSE /\ sent' = 0 /\ bseq' = bseq
             /\ toCon' \in {toCon, Append(toCon, [seq |-> 0, data |-> <<>>])}
  BY DEF BmcAnswers
<1>3. /\ out \in Nat /\ base \in Nat /\ sent \in Nat /\ from \in Nat /\ from <= out
      /\ base + sent <= out
      /\ acked => sent > 0
  BY DEF SolTypeOK, Link, LinkSound, Acks
<1>4. CASE retransmit
  <2>1. out > from /\ from = base
    BY <1>3, <1>4
  <2>2. PICK len \in sent..(out - base) :
          /\ sent' = len /\ bseq' = bseq
          /\ toCon' = Append(toCon, [seq |-> bseq', data |-> [i \in 1..len |-> base + i]])
    BY <1>2, <1>4, <2>1
  <2>3. len \in Nat /\ sent <= len /\ base + len <= out
    BY <1>3
  <2> HIDE DEF acked
  <2> QED
    BY <1>1, <1>4, <2>1, <2>2, <2>3, LinkRepeat
<1>5. CASE ~retransmit
  <2>1. AllOld
    BY <1>1, <1>3, <1>5, OldAround
  <2>2. Ordered(pushed, from)
    <3>1. from = IF sent > 0 THEN base + sent ELSE base
      BY <1>3, <1>5
    <3> QED
      BY <2>1, <3>1 DEF AllOld
  <2> HIDE DEF acked
  <2>3. CASE out > from
    <3>1. PICK len \in 1..(out - from) :
            /\ sent' = len /\ bseq' = NextSeq(bseq)
            /\ toCon' = Append(toCon, [seq |-> bseq', data |-> [i \in 1..len |-> from + i]])
      BY <1>2, <1>5, <2>3
    <3>2. len \in Nat /\ len > 0 /\ from + len <= out
      BY <1>3
    <3> HIDE DEF from
    <3> QED
      BY <1>1, <1>3, <2>1, <2>2, <3>1, <3>2, LinkNewPacket
  <2>4. CASE ~(out > from)
    <3>1. /\ sent' = 0 /\ bseq' = bseq
          /\ toCon' \in {toCon, Append(toCon, [seq |-> 0, data |-> <<>>])}
      BY <1>2, <2>4
    <3> HIDE DEF from
    <3> QED
      BY <1>1, <1>3, <2>1, <2>2, <3>1, LinkIdle
  <2> QED
    BY <2>3, <2>4
<1> QED
  BY <1>4, <1>5

\* Every step keeps the link.
LEMMA LinkStep ==
  ASSUME SolTypeOK, SolTypeOK', TurnSound, Link, [SolNext]_solVars
  PROVE  Link'
<1>1. CASE ReceiveReply
  BY <1>1, LinkReply
<1>2. CASE SendPacket
  BY <1>2, LinkSend
<1>3. CASE BmcAnswers
  BY <1>3, LinkAnswer
<1>4. CASE LoseDatagram
  <2>1. UNCHANGED <<cardVars, remoteSeq, remoteSize, pendingAck, pushed>>
    BY <1>4 DEF LoseDatagram, seqVars, queueVars
  <2>2. UNCHANGED <<base, sent, bseq, out>>
    BY <2>1 DEF cardVars
  <2>3. LinkSound' /\ Ordered(pushed, Taken)'
    BY <2>1, <2>2 DEF Link, LinkSound, Ordered, Taken
  <2>4. CASE toBmc # <<>> /\ toBmc' = Tail(toBmc) /\ UNCHANGED toCon
    <3>1. AcksSound'
      BY <2>1, <2>4, RequestGone DEF Link
    <3>2. PacketsSound'
      BY <2>1, <2>2, <2>4 DEF Link, PacketsSound, Fresh, Old
    <3> QED
      BY <2>3, <3>1, <3>2 DEF Link
  <2>5. CASE toCon # <<>> /\ toCon' = Tail(toCon) /\ UNCHANGED toBmc
    <3>1. PacketsSound'
      BY <2>1, <2>5, PacketGone DEF Link
    <3>2. AcksSound'
      BY <2>1, <2>2, <2>5 DEF Link, AcksSound
    <3> QED
      BY <2>3, <3>1, <3>2 DEF Link
  <2> QED
    BY <1>4, <2>4, <2>5 DEF LoseDatagram
<1>5. CASE HostPrints
  <2>1. /\ UNCHANGED <<base, sent, bseq, remoteSeq, remoteSize, pendingAck, toBmc, toCon, pushed>>
        /\ out' = out + 1
    BY <1>5 DEF HostPrints, seqVars, queueVars, netVars
  <2>2. base + sent <= out + 1
    BY DEF SolTypeOK, Link, LinkSound
  <2> QED
    BY <2>1, <2>2 DEF Link, LinkSound, PacketsSound, AcksSound, Fresh, Old, Taken, Ordered
<1>6. CASE FeedByte
  <2>1. UNCHANGED <<remoteSeq, remoteSize, pendingAck, out, base, sent, bseq, toBmc, toCon>>
    BY <1>6 DEF FeedByte, seqVars, cardVars, netVars
  <2>2. pushed' = pushed \o <<0>> \/ pushed' = pushed \o <<>>
    BY <1>6 DEF FeedByte, PushRender
  <2>3. Ordered(pushed', Taken)
    <3>1. Ordered(pushed, Taken) /\ pushed \in Seq(Nat) /\ Taken \in Nat
      BY DEF Link, Taken, SolTypeOK
    <3> QED
      BY <2>2, <3>1, OrderedNotice
  <2> QED
    BY <2>1, <2>3 DEF Link, LinkSound, PacketsSound, AcksSound, Fresh, Old, Taken
<1>7. CASE \/ \E data \in Inputs : TakeInput(data)
           \/ FeedEnds \/ Poll \/ ReadTimeout \/ CloseDone \/ CloseTerminal \/ ExchangeFails
           \/ ContextDone \/ WakeRender \/ UNCHANGED solVars
  <2>1. UNCHANGED <<remoteSeq, remoteSize, pendingAck, cardVars, toBmc, toCon, pushed>>
    BY <1>7 DEF TakeInput, FeedEnds, Poll, ReadTimeout, CloseDone, CloseTerminal, ExchangeFails,
         ContextDone, WakeRender, solVars, seqVars, netVars, queueVars
  <2> QED
    BY <2>1, LinkKept
<1>8. CASE TakeWake \/ TakeDone \/ SwapBuffer \/ WriteTerminal
  <2>1. UNCHANGED <<remoteSeq, remoteSize, pendingAck, cardVars, toBmc, toCon, pushed>>
    BY <1>8 DEF TakeWake, TakeDone, SwapBuffer, WriteTerminal, seqVars, netVars, queueVars
  <2> QED
    BY <2>1, LinkKept
<1> QED
  BY <1>1, <1>2, <1>3, <1>4, <1>5, <1>6, <1>7, <1>8 DEF SolNext, LoopStep, RenderStep

-----------------------------------------------------------------------------
(* SolConsole: the escape menu.                                            *)

\* A byte more does not change what the bytes in front of it arm.
LEMMA ArmsSame ==
  ASSUME NEW s \in Seq(Key), NEW b \in Key, NEW i \in 0..Len(s)
  PROVE  Arms(Append(s, b), i) = Arms(s, i)
<1> DEFINE t == Append(s, b)
<1>1. \A n \in 1..i : t[n] = s[n] /\ (n # 1 => n - 1 \in 1..i)
  OBVIOUS
<1>2. \A j \in 1..i : \A n \in j..i : n \in 1..i
  OBVIOUS
<1>3. i \in Nat
  OBVIOUS
<1> HIDE DEF t
<1>4. ASSUME NEW j \in 1..i
      PROVE  /\ (\A n \in j..i : t[n] = Esc) <=> (\A n \in j..i : s[n] = Esc)
             /\ (j = 1 \/ t[j - 1] # Esc) <=> (j = 1 \/ s[j - 1] # Esc)
  BY <1>1, <1>2
<1>5. Arms(t, i) <=> Arms(s, i)
  BY <1>4, Zenon DEF Arms
<1> QED
  BY <1>5, Zenon DEF Arms, t

\* The run of escape keys that ends at i starts in one place only, and that place tells
\* whether the menu is armed.
LEMMA ArmsByRun ==
  ASSUME NEW s, NEW i \in Nat, NEW j \in 1..i, RunFrom(s, j, i)
  PROVE  Arms(s, i) <=> (i - j) % 2 = 0
<1>1. ASSUME NEW k \in 1..i, RunFrom(s, k, i) PROVE k = j
  <2>1. ~(k < j)
    <3>1. k < j => j - 1 \in k..i /\ j # 1
      OBVIOUS
    <3> QED
      BY <1>1, <3>1 DEF RunFrom
  <2>2. ~(j < k)
    <3>1. j < k => k - 1 \in j..i /\ k # 1
      OBVIOUS
    <3> QED
      BY <1>1, <3>1 DEF RunFrom
  <2> QED
    BY <2>1, <2>2
<1>2. Arms(s, i) <=> \E k \in 1..i : RunFrom(s, k, i) /\ (i - k) % 2 = 0
  BY DEF Arms, RunFrom
<1>3. ASSUME NEW k \in 1..i, RunFrom(s, k, i), (i - k) % 2 = 0 PROVE (i - j) % 2 = 0
  BY <1>1, <1>3
<1>4. (i - j) % 2 = 0 => \E k \in 1..i : RunFrom(s, k, i) /\ (i - k) % 2 = 0
  OBVIOUS
<1> QED
  BY <1>2, <1>3, <1>4

\* The byte after the input so far arms the menu when it is an escape key and the menu is not
\* armed, by the parity of the run it ends.
LEMMA ArmsNext ==
  ASSUME NEW s \in Seq(Key), NEW b \in Key, RunStarts(s)
  PROVE  /\ Arms(Append(s, b), Len(s) + 1) <=> (b = Esc /\ ~Arms(s, Len(s)))
         /\ RunStarts(Append(s, b))
<1> DEFINE t == Append(s, b)
           m == Len(s)
<1>1. /\ m \in Nat /\ Len(t) = m + 1 /\ t[m + 1] = b /\ t # <<>>
      /\ \A n \in 1..m : t[n] = s[n]
      /\ s = <<>> <=> m = 0
  OBVIOUS
<1> HIDE DEF t, m
<1>2. CASE b # Esc
  <2>1. ~Arms(t, m + 1)
    <3> SUFFICES ASSUME NEW j \in 1..(m + 1), \A n \in j..(m + 1) : t[n] = Esc PROVE FALSE
      BY DEF Arms
    <3>1. m + 1 \in j..(m + 1)
      BY <1>1
    <3> QED
      BY <1>1, <1>2, <3>1
  <2>2. RunStarts(t)
    BY <1>1, <1>2 DEF RunStarts
  <2> QED
    BY <1>2, <2>1, <2>2 DEF t, m
<1>3. CASE b = Esc /\ (m = 0 \/ s[m] # Esc)
  <2>1. ~Arms(s, m)
    <3> SUFFICES ASSUME NEW j \in 1..m, \A n \in j..m : s[n] = Esc PROVE FALSE
      BY DEF Arms
    <3>1. m \in j..m
      BY <1>1
    <3> QED
      BY <1>1, <1>3, <3>1
  <2>2. m + 1 \in 1..(m + 1) /\ RunFrom(t, m + 1, m + 1)
    BY <1>1, <1>3 DEF RunFrom
  <2>3. Arms(t, m + 1)
    <3>1. (m + 1 - (m + 1)) % 2 = 0 /\ m + 1 \in Nat
      BY <1>1
    <3> QED
      BY <2>2, <3>1, ArmsByRun
  <2>4. RunStarts(t)
    BY <1>1, <2>2 DEF RunStarts, RunFrom
  <2> QED
    BY <1>3, <2>1, <2>3, <2>4 DEF t, m
<1>4. CASE b = Esc /\ m # 0 /\ s[m] = Esc
  <2>1. PICK j \in 1..m : RunFrom(s, j, m)
    BY <1>1, <1>4 DEF RunStarts, RunFrom, m
  <2>2. j \in 1..(m + 1) /\ m + 1 \in Nat /\ RunFrom(t, j, m + 1)
    BY <1>1, <1>4, <2>1 DEF RunFrom
  <2>3. Arms(s, m) <=> (m - j) % 2 = 0
    BY <1>1, <2>1, ArmsByRun
  <2>4. Arms(t, m + 1) <=> (m + 1 - j) % 2 = 0
    <3>1. PICK p \in Nat : p = m + 1
      BY <2>2
    <3>2. j \in 1..p /\ RunFrom(t, j, p)
      BY <2>2, <3>1
    <3>3. Arms(t, p) <=> (p - j) % 2 = 0
      BY <3>2, ArmsByRun
    <3>4. (p - j) % 2 = 0 <=> (m + 1 - j) % 2 = 0
      BY <1>1, <3>1
    <3> QED
      BY <3>1, <3>3, <3>4, Zenon
  <2>5. (m + 1 - j) % 2 = 0 <=> (m - j) % 2 # 0
    BY <1>1
  <2>6. RunStarts(t)
    BY <1>1, <2>2 DEF RunStarts, RunFrom
  <2> QED
    BY <1>4, <2>3, <2>4, <2>5, <2>6 DEF t, m
<1> QED
  BY <1>2, <1>3, <1>4

\* A byte more is kept when it is an escape key in an armed menu or another in an unarmed one.
LEMMA KeptNext ==
  ASSUME NEW s \in Seq(Key), NEW b \in Key
  PROVE  Kept(Append(s, b)) =
           Kept(s) \cup (IF b = Esc <=> Arms(s, Len(s)) THEN {Len(s) + 1} ELSE {})
<1> DEFINE t == Append(s, b)
           m == Len(s)
<1>1. /\ m \in Nat /\ DOMAIN s = 1..m /\ DOMAIN t = 1..(m + 1) /\ t[m + 1] = b
      /\ \A n \in 1..m : t[n] = s[n]
  OBVIOUS
<1>2. \A i \in 1..(m + 1) : i - 1 \in 0..m /\ Arms(t, i - 1) = Arms(s, i - 1)
  BY <1>1, ArmsSame
<1>3. m + 1 - 1 = m
  BY <1>1
<1> HIDE DEF t, m
<1>4. ASSUME NEW i \in 1..m
      PROVE  i \in 1..(m + 1) /\ i # m + 1 /\ (i \in Kept(t) <=> i \in Kept(s))
  <2>1. i \in 1..(m + 1) /\ i # m + 1
    BY <1>1
  <2>2. t[i] = s[i] /\ Arms(t, i - 1) = Arms(s, i - 1)
    BY <1>1, <1>2, <2>1
  <2>3. i \in DOMAIN t /\ i \in DOMAIN s
    BY <1>1, <2>1
  <2> QED
    BY <2>1, <2>2, <2>3, Zenon DEF Kept
<1>5. m + 1 \in Kept(t) <=> (b = Esc <=> Arms(s, m))
  <2>1. \A i \in DOMAIN t : i \in Kept(t) <=> (t[i] = Esc <=> Arms(t, i - 1))
    BY Zenon DEF Kept
  <2>2. PICK p \in DOMAIN t : p = m + 1
    BY <1>1
  <2>3. t[p] = b /\ p - 1 = m /\ p \in 1..(m + 1)
    BY <1>1, <2>2
  <2>4. Arms(t, p - 1) = Arms(s, p - 1)
    BY <1>2, <2>3
  <2>5. p \in Kept(t) <=> (t[p] = Esc <=> Arms(t, p - 1))
    BY <2>1, Zenon
  <2>6. p \in Kept(t) <=> (b = Esc <=> Arms(s, m))
    BY <2>3, <2>4, <2>5, Zenon
  <2> QED
    BY <2>2, <2>6, Zenon
<1>6. \A i \in 1..(m + 1) : i \in 1..m \/ i = m + 1
  BY <1>1
<1>7. Kept(t) \subseteq 1..(m + 1) /\ Kept(s) \subseteq 1..m
  BY <1>1, Zenon DEF Kept
<1>8. Kept(t) = Kept(s) \cup (IF b = Esc <=> Arms(s, m) THEN {m + 1} ELSE {})
  <2>1. CASE b = Esc <=> Arms(s, m)
    <3>1. Kept(t) = Kept(s) \cup {m + 1}
      BY <1>4, <1>5, <1>6, <1>7, <2>1, Zenon
    <3> QED
      BY <2>1, <3>1, Zenon
  <2>2. CASE ~(b = Esc <=> Arms(s, m))
    <3>1. Kept(t) = Kept(s)
      BY <1>4, <1>5, <1>6, <1>7, <2>2, Zenon
    <3> QED
      BY <2>2, <3>1, Zenon
  <2> QED
    BY <2>1, <2>2, Zenon
<1> QED
  BY <1>8, Zenon DEF t, m

\* What waits stays right when the next byte is added to it exactly if it is kept.
LEMMA WaitsNext ==
  ASSUME NEW s \in Seq(Key), NEW b \in Key, NEW w \in Seq(Key), Waits(w, s)
  PROVE  Waits(IF b = Esc <=> Arms(s, Len(s)) THEN Append(w, b) ELSE w, Append(s, b))
<1> DEFINE t == Append(s, b)
           m == Len(s)
           K == Kept(s)
<1>1. /\ m \in Nat /\ t[m + 1] = b /\ \A n \in 1..m : t[n] = s[n]
  OBVIOUS
<1>2. K \subseteq 1..m
  <2>1. DOMAIN s = 1..m
    OBVIOUS
  <2> QED
    BY <2>1, Zenon DEF Kept
<1>3. IsFiniteSet(K)
  <2>1. IsFiniteSet(1..m)
    BY <1>1, FS_Interval
  <2> HIDE DEF m, K
  <2> QED
    BY <1>2, <2>1, FS_Subset
<1>4. Kept(t) = K \cup (IF b = Esc <=> Arms(s, m) THEN {m + 1} ELSE {})
  BY KeptNext
<1>5. Cardinality(K) = Len(w) /\ \A i \in K : w[Cardinality({j \in K : j <= i})] = s[i]
  BY Zenon DEF Waits
<1> HIDE DEF t, m, K
<1>6. CASE b = Esc <=> Arms(s, m)
  <2>1. Kept(t) = K \cup {m + 1}
    BY <1>4, <1>6, Zenon
  <2>2. m + 1 \notin K
    BY <1>1, <1>2
  <2>3. Cardinality(Kept(t)) = Len(w) + 1
    BY <1>3, <1>5, <2>1, <2>2, FS_AddElement
  <2>4. Len(Append(w, b)) = Len(w) + 1 /\ Append(w, b)[Len(w) + 1] = b
    OBVIOUS
  <2>5. ASSUME NEW i \in K
        PROVE  Append(w, b)[Cardinality({j \in Kept(t) : j <= i})] = t[i]
    <3>1. i \in 1..m /\ ~(m + 1 <= i)
      BY <1>1, <1>2
    <3>2. {j \in Kept(t) : j <= i} = {j \in K : j <= i}
      BY <2>1, <3>1
    <3> DEFINE J == {j \in K : j <= i}
    <3>3. J \in SUBSET K /\ i \in J
      BY <1>2, <3>1
    <3> HIDE DEF J
    <3>4. IsFiniteSet(J) /\ Cardinality(J) <= Cardinality(K)
      BY <1>3, <3>3, FS_Subset
    <3>5. Cardinality(J) \in Nat /\ Cardinality(J) # 0
      BY <3>3, <3>4, FS_CardinalityType, FS_EmptySet
    <3>6. Cardinality(J) \in 1..Len(w)
      BY <1>5, <3>4, <3>5
    <3>7. Append(w, b)[Cardinality(J)] = w[Cardinality(J)]
      BY <3>6
    <3>8. w[Cardinality(J)] = s[i]
      BY <1>5 DEF J
    <3>9. t[i] = s[i]
      BY <1>1, <3>1
    <3> QED
      BY <3>2, <3>7, <3>8, <3>9 DEF J
  <2>6. Append(w, b)[Cardinality({j \in Kept(t) : j <= m + 1})] = t[m + 1]
    <3>a. \A j \in Kept(t) : j <= m + 1
      <4>1. \A j \in 1..m : j <= m + 1
        BY <1>1
      <4>2. m + 1 <= m + 1
        BY <1>1
      <4> QED
        BY <1>2, <2>1, <4>1, <4>2, Zenon
    <3>1. {j \in Kept(t) : j <= m + 1} = Kept(t)
      BY <3>a, Zenon
    <3> QED
      BY <1>1, <2>3, <2>4, <3>1
  <2>7. \A i \in Kept(t) : Append(w, b)[Cardinality({j \in Kept(t) : j <= i})] = t[i]
    BY <2>1, <2>5, <2>6
  <2>8. Waits(Append(w, b), t)
    BY <2>3, <2>4, <2>7, Zenon DEF Waits
  <2> QED
    BY <1>6, <2>8, Zenon DEF t, m
<1>7. CASE ~(b = Esc <=> Arms(s, m))
  <2>1. Kept(t) = K
    BY <1>4, <1>7, Zenon
  <2>2. \A i \in K : t[i] = s[i]
    BY <1>1, <1>2
  <2>3. Waits(w, t)
    BY <1>5, <2>1, <2>2, Zenon DEF Waits
  <2> QED
    BY <1>7, <2>3, Zenon DEF t, m
<1> QED
  BY <1>6, <1>7

\* The empty sequence is neutral.
LEMMA ConcatEmpty ==
  ASSUME NEW S, NEW s \in Seq(S), NEW t \in Seq(S)
  PROVE  s \o <<>> = s /\ s \o <<>> \o t = s \o t /\ <<>> \o t = t
OBVIOUS

\* Concatenation is associative.
LEMMA ConcatTwice ==
  ASSUME NEW S, NEW s \in Seq(S), NEW t \in Seq(S), NEW u \in Seq(S)
  PROVE  s \o t \o u = s \o (t \o u)
OBVIOUS

\* The queue of a turn has one packet or two.
LEMMA OneOrTwo ==
  ASSUME NEW S, NEW q \in Seq(S), q # <<>>, Len(q) <= 2
  PROVE  /\ Len(q) = 1 \/ Len(q) = 2
         /\ Head(q) = q[1] /\ q[1] \in S
         /\ Len(q) = 1 => Tail(q) = <<>>
         /\ Len(q) = 2 => /\ Tail(q) # <<>> /\ Len(Tail(q)) = 1 /\ Tail(q)[1] = q[2]
                          /\ q[2] \in S
<1>1. PICK n \in Nat : n = Len(q)
  OBVIOUS
<1>2. n = 1 \/ n = 2
  <2>1. n # 0
    BY <1>1
  <2>2. n <= 2
    BY <1>1
  <2> QED
    BY <2>1, <2>2
<1>3. Head(q) = q[1] /\ \A i \in 1..n : q[i] \in S
  BY <1>1
<1>4. q[1] \in S /\ (n = 2 => q[2] \in S)
  BY <1>2, <1>3
<1>5. PICK r \in Seq(S) : r = Tail(q)
  <2>1. Tail(q) \in Seq(S)
    OBVIOUS
  <2> QED
    BY <2>1, Zenon
<1>6. Len(r) = n - 1 /\ \A i \in 1..Len(r) : r[i] = q[i + 1]
  BY <1>1, <1>5
<1>7. n = 1 => r = <<>>
  <2>1. n = 1 => Len(r) = 0
    BY <1>6
  <2> QED
    BY <2>1
<1>8. n = 2 => Len(r) = 1 /\ r # <<>> /\ r[1] = q[2]
  <2>1. n = 2 => Len(r) = 1
    BY <1>6
  <2>2. Len(r) = 1 => r # <<>>
    OBVIOUS
  <2>3. Len(r) = 1 => r[1] = q[2]
    <3>1. Len(r) = 1 => 1 \in 1..Len(r)
      OBVIOUS
    <3>2. 1 + 1 = 2
      OBVIOUS
    <3> QED
      BY <1>6, <3>1, <3>2, Zenon
  <2> QED
    BY <2>1, <2>2, <2>3
<1> QED
  BY <1>1, <1>2, <1>3, <1>4, <1>5, <1>7, <1>8, Zenon

\* Nothing is kept before anything is typed.
LEMMA EscapeInit == SolInit => EscapeSound
<1> SUFFICES ASSUME SolInit PROVE EscapeSound
  OBVIOUS
<1>1. keys = <<>> /\ passed \o Carried(outq) \o pass = <<>>
  BY DEF SolInit, Carried, Last
<1>2. Kept(<<>>) = {}
  BY DEF Kept
<1>3. ~Arms(<<>>, 0)
  BY DEF Arms
<1>4. Waits(<<>>, <<>>)
  BY <1>2, FS_EmptySet DEF Waits
<1>5. RunStarts(<<>>)
  BY DEF RunStarts
<1>6. armed = Arms(<<>>, 0)
  <2>1. armed = FALSE
    BY DEF SolInit
  <2> QED
    BY <1>3, <2>1, Zenon DEF Arms
<1>7. Len(<<>>) = 0
  OBVIOUS
<1> QED
  BY <1>1, <1>4, <1>5, <1>6, <1>7, Zenon DEF EscapeSound

\* The steps that leave the input, the menu and the bytes that wait alone.
LEMMA EscapeKept ==
  ASSUME EscapeSound, UNCHANGED <<keys, armed>>,
         pc' \notin {"closing", "closed"} =>
           /\ pc \notin {"closing", "closed"}
           /\ passed' \o Carried(outq') \o pass' = passed \o Carried(outq) \o pass
  PROVE  EscapeSound'
<1>1. ASSUME pc' \notin {"closing", "closed"}
      PROVE  /\ RunStarts(keys') /\ armed' = Arms(keys', Len(keys'))
             /\ Waits(passed' \o Carried(outq') \o pass', keys')
  BY <1>1, Zenon DEF EscapeSound
<1> QED
  BY <1>1, Zenon DEF EscapeSound

\* A byte of feed extends what waits; every other step only moves it along.
LEMMA EscapeStep ==
  ASSUME SolTypeOK, TurnSound, EscapeSound, [SolNext]_solVars
  PROVE  EscapeSound'
<1>t. /\ passed \in Seq(Key) /\ pass \in Seq(Key) /\ keys \in Seq(Key)
      /\ chunk \in Seq(Key) /\ outq \in Seq(Seq(Key)) /\ armed \in BOOLEAN
  BY DEF SolTypeOK
<1>1. CASE FeedByte
  <2>1. PICK b \in Key : b = Head(chunk)
    BY <1>1, <1>t DEF FeedByte
  <2>2. /\ pc = "feed" /\ pc' \in {"feed", "notice"}
        /\ pass' = IF b = Esc <=> armed THEN Append(pass, b) ELSE pass
        /\ keys' = Append(keys, b)
        /\ outq' = outq /\ passed' = passed
    BY <1>1, <2>1 DEF FeedByte
  <2>3. armed' = (~armed /\ b = Esc)
    BY <1>1, <2>1, Zenon DEF FeedByte
  <2>4. /\ RunStarts(keys) /\ armed = Arms(keys, Len(keys))
        /\ Waits(passed \o Carried(outq) \o pass, keys)
    BY <2>2 DEF EscapeSound
  <2>5. outq = <<>> /\ Carried(outq) = <<>> /\ Carried(outq') = <<>>
    BY <2>2 DEF TurnSound, Carried
  <2>6. /\ passed \o Carried(outq) \o pass = passed \o pass
        /\ passed' \o Carried(outq') \o pass' = passed \o pass'
    <3>1. pass' \in Seq(Key)
      BY <1>t, <2>2
    <3> QED
      BY ZenonT(90), <1>t, <2>2, <2>5, <3>1, ConcatEmpty
  <2>7. passed \o pass \in Seq(Key) /\ passed \o Append(pass, b) = Append(passed \o pass, b)
    BY <1>t
  <2>8. passed \o pass' = IF b = Esc <=> Arms(keys, Len(keys))
                            THEN Append(passed \o pass, b) ELSE passed \o pass
    BY <2>2, <2>4, <2>7, Zenon
  <2>9. Waits(passed \o pass', keys')
    BY <1>t, <2>2, <2>4, <2>6, <2>7, <2>8, WaitsNext
  <2>10. RunStarts(keys') /\ Len(keys') = Len(keys) + 1
    BY <1>t, <2>2, <2>4, ArmsNext
  <2>11. Arms(keys', Len(keys')) <=> (b = Esc /\ ~armed)
    BY <1>t, <2>2, <2>4, <2>10, ArmsNext
  <2>12. armed' = Arms(keys', Len(keys'))
    BY <2>3, <2>11, Zenon DEF Arms
  <2> QED
    BY <2>6, <2>9, <2>10, <2>12, Zenon DEF EscapeSound
<1>2. CASE FeedEnds
  <2>1. /\ pc = "feed" /\ outq' = Packets /\ pass' = <<>> /\ passed' = passed
        /\ UNCHANGED <<keys, armed>>
    BY <1>2 DEF FeedEnds
  <2>2. Carried(outq) = <<>>
    BY <2>1 DEF TurnSound, Carried
  <2>3. Carried(Packets) = pass
    BY <1>t DEF Carried, Packets, Last
  <2>4. passed' \o Carried(outq') \o pass' = passed \o Carried(outq) \o pass
    BY <1>t, <2>1, <2>2, <2>3
  <2> QED
    BY <2>1, <2>4, EscapeKept
<1>3. CASE Poll
  <2>1. /\ pc = "select" /\ outq' = <<<<>>>>
        /\ UNCHANGED <<keys, armed, passed, pass>>
    BY <1>3 DEF Poll, inputVars
  <2>2. Carried(outq) = <<>> /\ Carried(outq') = <<>>
    BY <2>1 DEF TurnSound, Carried, Last
  <2> QED
    BY <2>1, <2>2, EscapeKept
<1>4. CASE SendPacket
  <2>1. /\ pc = "send" /\ passed' = passed \o Head(outq) /\ outq' = Tail(outq)
        /\ UNCHANGED <<keys, armed, pass>>
    BY <1>4 DEF SendPacket
  <2>2. /\ outq # <<>> /\ Len(outq) <= 2 /\ (Len(outq) = 2 => outq[1] = <<>>)
        /\ pass = <<>>
    BY <2>1 DEF TurnSound
  <2>3. passed \o Head(outq) \o Carried(Tail(outq)) = passed \o Carried(outq)
    <3>1. /\ Len(outq) = 1 \/ Len(outq) = 2
          /\ Head(outq) = outq[1] /\ outq[1] \in Seq(Key)
          /\ Len(outq) = 1 => Tail(outq) = <<>>
          /\ Len(outq) = 2 => /\ Tail(outq) # <<>> /\ Len(Tail(outq)) = 1
                              /\ Tail(outq)[1] = outq[2] /\ outq[2] \in Seq(Key)
      BY <1>t, <2>2, OneOrTwo
    <3>2. CASE Len(outq) = 1
      <4>1. Carried(Tail(outq)) = <<>> /\ Carried(outq) = outq[1]
        BY <2>2, <3>1, <3>2, Zenon DEF Carried, Last
      <4>2. passed \o outq[1] \in Seq(Key)
        BY <1>t, <3>1
      <4>3. passed \o outq[1] \o <<>> = passed \o outq[1]
        BY <4>2, ConcatEmpty
      <4> QED
        BY <3>1, <4>1, <4>3, Zenon
    <3>3. CASE Len(outq) = 2
      <4>1. Carried(Tail(outq)) = outq[2] /\ Carried(outq) = outq[2]
        BY <2>2, <3>1, <3>3, Zenon DEF Carried, Last
      <4>2. passed \o <<>> \o outq[2] = passed \o outq[2]
        BY <1>t, <3>1, <3>3, ConcatEmpty
      <4> QED
        BY <2>2, <3>1, <3>3, <4>1, <4>2, Zenon
    <3> QED
      BY <3>1, <3>2, <3>3
  <2>4. passed' \o Carried(outq') \o pass' = passed \o Carried(outq) \o pass
    BY <2>1, <2>2, <2>3
  <2> QED
    BY <2>1, <2>4, EscapeKept
<1>5. CASE \/ \E data \in Inputs : TakeInput(data)
           \/ ReceiveReply \/ ReadTimeout \/ WakeRender
  <2>1. CASE \E data \in Inputs : TakeInput(data)
    <3>1. /\ pc = "select" /\ pass' = <<>> /\ UNCHANGED <<keys, armed, passed, outq>>
      BY <2>1 DEF TakeInput
    <3>2. pass = <<>>
      BY <3>1 DEF TurnSound
    <3> QED
      BY <3>1, <3>2, EscapeKept
  <2>2. CASE ReceiveReply \/ ReadTimeout \/ WakeRender
    <3>1. pc \in {"wait", "notice", "fresh"} /\ UNCHANGED <<keys, armed, passed, pass, outq>>
      BY <2>2 DEF ReceiveReply, ReadTimeout, WakeRender, inputVars
    <3> QED
      BY <3>1, EscapeKept
  <2> QED
    BY <1>5, <2>1, <2>2
<1>6. CASE CloseDone \/ CloseTerminal \/ ExchangeFails \/ ContextDone
  <2>1. pc' \in {"closing", "closed"}
    BY <1>6 DEF CloseDone, CloseTerminal, ExchangeFails, ContextDone, loopVars
  <2> QED
    BY <2>1, Zenon DEF EscapeSound
<1>7. CASE TakeWake \/ TakeDone \/ SwapBuffer \/ WriteTerminal \/ HostPrints \/ BmcAnswers \/ LoseDatagram
           \/ UNCHANGED solVars
  <2>1. UNCHANGED <<pc, keys, armed, passed, pass, outq>>
    BY <1>7 DEF TakeWake, TakeDone, SwapBuffer, WriteTerminal, HostPrints, BmcAnswers, LoseDatagram, solVars,
         loopVars, inputVars
  <2> QED
    BY <2>1, EscapeKept
<1> QED
  BY <1>1, <1>2, <1>3, <1>4, <1>5, <1>6, <1>7 DEF SolNext, LoopStep, RenderStep

-----------------------------------------------------------------------------
(* SolConsole: what the card receives of the input.                        *)

\* Nothing under way, nothing sent and no end of an exchange.
LEMMA CalmKept ==
  ASSUME CalmSound, UNCHANGED <<calm, passed, received, toBmc, toCon, inSeq, localSeq>>,
         \/ pc' = pc
         \/ pc' \in {"closing", "closed"}
         \/ pc \notin {"wait", "closing", "closed"} /\ pc' # "wait"
  PROVE  CalmSound'
BY DEF CalmSound, OnWire

\* A request has a number the card has not seen, and its data joins what has passed.
LEMMA CalmSend ==
  ASSUME SolTypeOK, TurnSound, CalmSound, SendPacket
  PROVE  CalmSound'
<1> SUFFICES ASSUME calm' PROVE CalmSound'
  BY DEF CalmSound
<1>1. /\ calm /\ pc = "send" /\ pc' = "wait" /\ UNCHANGED <<toCon, localSeq, inSeq, received>>
      /\ passed' = passed \o Head(outq)
  BY DEF SendPacket, seqVars, cardVars
<1>2. toBmc = <<>> /\ toCon = <<>> /\ inSeq # localSeq /\ passed = received \o OnWire
  BY <1>1 DEF CalmSound
<1> DEFINE r == [seq |-> localSeq, ack |-> remoteSeq, count |-> pendingAck, data |-> Head(outq)]
<1>3. toBmc' = Append(<<>>, r)
  BY <1>2 DEF SendPacket
<1>4. Append(<<>>, r) = <<r>>
  OBVIOUS
<1>5. r.seq = localSeq /\ r.data = Head(outq)
  OBVIOUS
<1> HIDE DEF r
<1>6. Len(toBmc') = 1 /\ toBmc' # <<>> /\ toBmc'[1] = r /\ Head(toBmc') = r
  BY <1>3, <1>4
<1>7. passed = received
  <2>1. received \o <<>> = received
    BY DEF SolTypeOK
  <2> QED
    BY <1>2, <2>1 DEF OnWire
<1>8. passed' = received' \o OnWire'
  BY <1>1, <1>5, <1>6, <1>7 DEF OnWire
<1>9. /\ Len(toBmc') <= 1
      /\ toCon' = <<>> /\ toBmc'[1].seq # inSeq' /\ toBmc'[1].seq = localSeq'
  BY <1>1, <1>2, <1>5, <1>6
<1> QED
  BY <1>1, <1>6, <1>8, <1>9 DEF CalmSound

\* The card takes the data of the request, whose number is a new one.
LEMMA CalmAnswer ==
  ASSUME SolTypeOK, CalmSound, BmcAnswers
  PROVE  CalmSound'
<1> SUFFICES ASSUME calm' PROVE CalmSound'
  BY DEF CalmSound
<1>1. /\ calm /\ toBmc # <<>> /\ toBmc' = Tail(toBmc) /\ TakeData(Head(toBmc))
      /\ UNCHANGED <<pc, localSeq, passed>>
  BY DEF BmcAnswers, loopVars, seqVars, inputVars
<1>2. /\ Len(toBmc) <= 1 /\ toCon = <<>> /\ toBmc[1].seq # inSeq /\ toBmc[1].seq = localSeq
      /\ passed = received \o Head(toBmc).data
      /\ pc \in {"wait", "closing", "closed"}
  BY <1>1 DEF CalmSound, OnWire
<1>3. toBmc \in Seq(Request)
  BY DEF SolTypeOK
<1>4. Head(toBmc) = toBmc[1] /\ Tail(toBmc) = <<>>
  BY <1>1, <1>2, <1>3
<1>5. inSeq' = localSeq /\ received' = passed
  BY <1>1, <1>2, <1>4 DEF TakeData
<1>6. Len(toCon') <= 1
  <2> DEFINE acked == Acks(Head(toBmc))
             from == IF acked THEN base + sent ELSE base
             retransmit == sent > 0 /\ ~acked
  <2>1. IF out > from
          THEN \E len \in (IF retransmit THEN sent ELSE 1)..(out - from) :
                 /\ sent' = len
                 /\ bseq' = IF retransmit THEN bseq ELSE NextSeq(bseq)
                 /\ toCon' = Append(toCon, [seq |-> bseq', data |-> [i \in 1..len |-> from + i]])
          ELSE /\ sent' = 0 /\ bseq' = bseq
               /\ toCon' \in {toCon, Append(toCon, [seq |-> 0, data |-> <<>>])}
    BY DEF BmcAnswers
  <2>2. PICK d : toCon' = toCon \/ toCon' = Append(<<>>, d)
    <3>1. CASE out > from
      <4>1. PICK len \in (IF retransmit THEN sent ELSE 1)..(out - from) :
              toCon' = Append(toCon, [seq |-> bseq', data |-> [i \in 1..len |-> from + i]])
        BY <2>1, <3>1
      <4> QED
        BY <1>2, <4>1
    <3>2. CASE ~(out > from)
      BY <1>2, <2>1, <3>2
    <3> QED
      BY <3>1, <3>2
  <2>3. Len(Append(<<>>, d)) = 1 /\ Len(<<>>) = 0
    OBVIOUS
  <2>4. Len(toCon') \in {0, 1}
    BY <1>2, <2>2, <2>3, Zenon
  <2>5. \A n \in {0, 1} : n <= 1
    OBVIOUS
  <2> QED
    BY <2>4, <2>5, Zenon
<1>7. passed' = received' \o OnWire'
  <2>1. passed \o <<>> = passed
    BY DEF SolTypeOK
  <2> QED
    BY <1>1, <1>4, <1>5, <2>1 DEF OnWire
<1>8. toBmc' = <<>> /\ Len(toBmc') <= 1
  BY <1>1, <1>4
<1> QED
  BY <1>1, <1>2, <1>5, <1>6, <1>7, <1>8 DEF CalmSound

\* The answer ends the exchange, and the next number is another one.
LEMMA CalmReply ==
  ASSUME SolTypeOK, CalmSound, ReceiveReply
  PROVE  CalmSound'
<1> SUFFICES ASSUME calm' PROVE CalmSound'
  BY DEF CalmSound
<1>1. /\ calm /\ pc = "wait" /\ pc' # "wait" /\ toCon # <<>> /\ toCon' = Tail(toCon)
      /\ localSeq' = NextSeq(localSeq)
      /\ UNCHANGED <<toBmc, passed, received, inSeq>>
  BY DEF ReceiveReply, AfterExchange, cardVars, inputVars
<1>2. toBmc = <<>> /\ inSeq = localSeq /\ Len(toCon) <= 1
  BY <1>1 DEF CalmSound
<1>3. toCon' = <<>>
  BY <1>1, <1>2 DEF SolTypeOK
<1>4. inSeq # localSeq'
  <2>1. localSeq \in 0..SeqMax
    BY DEF SolTypeOK
  <2> QED
    BY <1>1, <1>2, <2>1, NextSeqType
<1> QED
  BY <1>1, <1>2, <1>3, <1>4 DEF CalmSound, OnWire

\* Every step keeps the exchanges sound; a loss or a timeout ends the calm.
LEMMA CalmStep ==
  ASSUME SolTypeOK, TurnSound, CalmSound, [SolNext]_solVars
  PROVE  CalmSound'
<1>1. CASE SendPacket
  BY <1>1, CalmSend
<1>2. CASE BmcAnswers
  BY <1>2, CalmAnswer
<1>3. CASE ReceiveReply
  BY <1>3, CalmReply
<1>4. CASE ReadTimeout \/ LoseDatagram
  BY <1>4 DEF ReadTimeout, LoseDatagram, CalmSound
<1>5. CASE \/ \E data \in Inputs : TakeInput(data)
           \/ FeedByte \/ FeedEnds \/ Poll \/ WakeRender
  <2>1. /\ UNCHANGED <<calm, passed, received, toBmc, toCon, inSeq, localSeq>>
        /\ pc \notin {"wait", "closing", "closed"} /\ pc' # "wait"
    BY <1>5 DEF TakeInput, FeedByte, FeedEnds, Poll, WakeRender, AfterExchange, seqVars, cardVars,
         netVars, inputVars
  <2> QED
    BY <2>1, CalmKept
<1>6. CASE CloseDone \/ CloseTerminal \/ ExchangeFails \/ ContextDone
  <2>1. /\ UNCHANGED <<calm, passed, received, toBmc, toCon, inSeq, localSeq>>
        /\ pc' \in {"closing", "closed"}
    BY <1>6 DEF CloseDone, CloseTerminal, ExchangeFails, ContextDone, loopVars, seqVars, cardVars,
         netVars, inputVars
  <2> QED
    BY <2>1, CalmKept
<1>7. CASE TakeWake \/ TakeDone \/ SwapBuffer \/ WriteTerminal \/ HostPrints \/ UNCHANGED solVars
  <2>1. UNCHANGED <<pc, calm, passed, received, toBmc, toCon, inSeq, localSeq>>
    BY <1>7 DEF TakeWake, TakeDone, SwapBuffer, WriteTerminal, HostPrints, solVars, loopVars,
         seqVars, cardVars, netVars, inputVars
  <2> QED
    BY <2>1, CalmKept
<1> QED
  BY <1>1, <1>2, <1>3, <1>4, <1>5, <1>6, <1>7 DEF SolNext, LoopStep, RenderStep

-----------------------------------------------------------------------------
(* SolConsole: the theorems.                                               *)

SolInv == SolTypeOK /\ Flushed /\ TurnSound /\ Link /\ EscapeSound /\ CalmSound

\* The invariant at the start.
LEMMA SolInvInit == SolInit => SolInv
<1> SUFFICES ASSUME SolInit PROVE SolInv
  OBVIOUS
<1>1. SolTypeOK
  BY SolTypeInit
<1>2. Flushed
  <2>1. <<>> = <<>> \o <<>> \o <<>>
    OBVIOUS
  <2>2. pc # "closed" /\ term /\ ~done
    BY Zenon DEF SolInit
  <2> QED
    BY <2>1, <2>2 DEF SolInit, Flushed
<1>3. TurnSound
  BY DEF SolInit, TurnSound
<1>4. Link
  <2>1. LinkSound
    BY DEF SolInit, LinkSound
  <2>2. PacketsSound
    BY DEF SolInit, PacketsSound
  <2>3. AcksSound
    BY DEF SolInit, AcksSound
  <2>4. Ordered(pushed, Taken)
    BY DEF SolInit, Ordered, Taken
  <2> QED
    BY <2>1, <2>2, <2>3, <2>4 DEF Link
<1>5. EscapeSound
  BY EscapeInit
<1>6. CalmSound
  BY DEF SolInit, CalmSound, OnWire
<1> QED
  BY <1>1, <1>2, <1>3, <1>4, <1>5, <1>6 DEF SolInv

\* The invariant is inductive.
LEMMA SolInvStep == SolInv /\ [SolNext]_solVars => SolInv'
<1> SUFFICES ASSUME SolInv, [SolNext]_solVars PROVE SolInv'
  OBVIOUS
<1>0. SolTypeOK /\ Flushed /\ TurnSound /\ Link /\ EscapeSound /\ CalmSound
  BY DEF SolInv
<1>1. SolTypeOK'
  BY <1>0, SolTypeStep
<1> QED
  BY <1>0, <1>1, FlushedStep, TurnStep, LinkStep, EscapeStep, CalmStep DEF SolInv

\* What the terminal was given is the start of what was pushed.
LEMMA ScreenIsPrefix == SolTypeOK /\ Flushed => IsPrefix(screen, pushed)
<1> SUFFICES ASSUME SolTypeOK, Flushed PROVE IsPrefix(screen, pushed)
  OBVIOUS
<1>1. screen \in Seq(Nat) /\ writing \o renderBuf \in Seq(Nat)
  BY DEF SolTypeOK
<1>2. pushed = screen \o (writing \o renderBuf)
  <2>1. screen \in Seq(Nat) /\ writing \in Seq(Nat) /\ renderBuf \in Seq(Nat)
    BY DEF SolTypeOK
  <2>2. pushed = screen \o writing \o renderBuf
    BY DEF Flushed
  <2>3. screen \o writing \o renderBuf = screen \o (writing \o renderBuf)
    BY SMTT(60), <2>1, ConcatTwice
  <2> QED
    BY <2>2, <2>3, Zenon
<1>3. PICK rest \in Seq(Nat) : pushed = screen \o rest
  BY <1>1, <1>2
<1> QED
  BY <1>1, <1>3 DEF IsPrefix

\* The inductive invariant of the console session: types, render queue, turns of the loop, link
\* and escape menu.
THEOREM SolInvariant == SolSpec => []SolInv
BY SolInvInit, SolInvStep, PTL DEF SolSpec

\* Bytes that are in order are exact.
LEMMA OrderedIsExact ==
  ASSUME NEW s \in Seq(Nat), NEW n \in Nat, Ordered(s, n)
  PROVE  Serial(s) = 1..n
<1>1. ASSUME NEW x \in Serial(s) PROVE x \in 1..n
  <2>1. PICK i \in DOMAIN s : s[i] = x
    BY DEF Serial, ToSet
  <2>2. x # 0 /\ x \in Nat /\ x <= n
    BY <2>1 DEF Ordered, Serial
  <2> QED
    BY <2>2
<1>2. ASSUME NEW x \in 1..n PROVE x \in Serial(s)
  <2>1. PICK i \in DOMAIN s : s[i] = x
    BY DEF Ordered
  <2> QED
    BY <2>1 DEF Serial, ToSet
<1> QED
  BY <1>1, <1>2

\* ingest shows every serial byte once and in order, for any range of sequence numbers, any
\* output and any number of lost and late datagrams.
THEOREM OutputSafety == SolSpec => []OutputExact
<1>1. SolInv => OutputExact
  <2> SUFFICES ASSUME SolInv PROVE OutputExact
    OBVIOUS
  <2>0. SolTypeOK /\ Flushed /\ Link
    BY DEF SolInv
  <2>1. /\ pushed \in Seq(Nat) /\ base \in Nat /\ Taken \in Nat /\ base <= Taken
        /\ Ordered(pushed, Taken)
    BY <2>0 DEF SolTypeOK, Link, Taken
  <2>2. Serial(pushed) = 1..Taken
    BY <2>1, OrderedIsExact
  <2>3. \A n \in Serial(pushed) : 1..n \subseteq Serial(pushed)
    BY <2>1, <2>2
  <2>4. 1..base \subseteq Serial(pushed)
    BY <2>1, <2>2
  <2>5. \A i, j \in DOMAIN pushed : i < j /\ pushed[j] # 0 => pushed[i] < pushed[j]
    BY <2>1 DEF Ordered
  <2> QED
    BY <2>0, <2>3, <2>4, <2>5, ScreenIsPrefix DEF OutputExact
<1> QED
  BY <1>1, SolInvariant, PTL

\* The deferred function of Run waits for the last flush before it closes the terminal.
THEOREM TeardownSafety == SolSpec => []TeardownOrdered
<1>1. SolInv => TeardownOrdered
  <2> SUFFICES ASSUME SolInv PROVE TeardownOrdered
    OBVIOUS
  <2>0. SolTypeOK /\ Flushed
    BY DEF SolInv
  <2>1. render \in {"write", "lastWrite"} => term
    BY <2>0 DEF Flushed
  <2>2. ASSUME pc = "closed" PROVE screen = pushed
    <3>1. pushed = screen \o <<>> \o <<>>
      BY <2>0, <2>2 DEF Flushed
    <3> QED
      BY <2>0, <3>1 DEF SolTypeOK
  <2> QED
    BY <2>1, <2>2 DEF TeardownOrdered
<1> QED
  BY <1>1, SolInvariant, PTL

\* feed lets the same bytes pass however the terminal cuts its input into chunks, and while every
\* packet is answered the card takes them all, once and in order.
THEOREM EscapeSafety == SolSpec => []EscapeIgnoresChunking
<1>1. SolInv => EscapeIgnoresChunking
  <2> SUFFICES ASSUME SolInv PROVE EscapeIgnoresChunking
    OBVIOUS
  <2>1. calm => passed = received \o OnWire
    BY DEF SolInv, CalmSound
  <2>2. EscapeSound
    BY DEF SolInv
  <2> QED
    BY <2>1, <2>2, Zenon DEF EscapeSound, Waits, EscapeIgnoresChunking
<1> QED
  BY <1>1, SolInvariant, PTL
=============================================================================
