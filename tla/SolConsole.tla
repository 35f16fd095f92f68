------------------------------ MODULE SolConsole ------------------------------
(***************************************************************************)
(* The interactive Serial-over-LAN session: Console.Run with its loop,     *)
(* render and input goroutines, over UDP to the BMC.                       *)
(*                                                                         *)
(* The host's serial output is a stream of bytes numbered from 1; notices  *)
(* of the escape menu are rendered as 0.  SOL_PAYLOAD datagrams are lost   *)
(* or late but not reordered; a reply that arrives after the read timed    *)
(* out is read by the next exchange, as go-ipmi takes the first datagram   *)
(* it finds.  The BMC is external: it sends one data packet until it is    *)
(* acknowledged, possibly extended, and only in answer to a request.  A    *)
(* request that repeats the number of the one before is a retry to it, and *)
(* its data is dropped.  A break is a packet without data: the control     *)
(* byte itself is not modelled.                                            *)
(***************************************************************************)
EXTENDS Integers, Sequences, FiniteSets, SequencesExt

CONSTANTS
  SeqMax,     \* largest sequence number, 15
  MaxOut,     \* bound on the bytes the host prints
  Inputs,     \* the chunks of input the terminal hands over
  MaxChunks,  \* bound on their number
  MaxFaults   \* bound on lost datagrams and early timeouts

ASSUME SolAssumption ==
  /\ SeqMax \in Nat /\ SeqMax > 1
  /\ {MaxOut, MaxChunks, MaxFaults} \subseteq Nat

VARIABLES
  pc,          \* the loop: "select", "feed", "send", "wait", "closing", "closed", and "notice"
               \* and "fresh" while it has bytes in renderBuf it has not poked renderWake for
  outq, quit,  \* packets the current turn of the loop still has to send; whether it ends
  localSeq, remoteSeq, remoteSize, pendingAck,
  armed,       \* escapeState.armed
  chunk, pass, brk,  \* feed: what it has not looked at, what passed, whether to send a break
  renderBuf, renderWake,
  render,      \* the render goroutine: "wait", "flush", "write", "done", and "lastFlush" and
               \* "lastWrite" once it has seen done
  writing,     \* the buffer flushRender has swapped out
  done,        \* close(done)
  term,        \* c.term is not nil
  toBmc, toCon,          \* datagrams in flight
  out, base, sent, bseq, \* BMC: bytes printed, acknowledged, in the current packet; its number
  inSeq,       \* BMC: the number of the last request
  received,    \* history: what the BMC has received of the input
  calm,        \* history: no datagram was lost and no read timed out
  screen,      \* history: what the terminal was given
  pushed,      \* history: what pushRender was given
  keys,        \* history: what feed was given
  passed,      \* history: what the loop has put into packets
  chunks, faults  \* counters for the bounds

seqVars == <<localSeq, remoteSeq, remoteSize, pendingAck>>
renderVars == <<render, writing, screen>>
queueVars == <<renderBuf, renderWake, pushed>>
inputVars == <<armed, chunk, pass, brk, keys, passed, chunks>>
cardVars == <<out, base, sent, bseq, inSeq, received>>
netVars == <<toBmc, toCon, faults, calm>>
loopVars == <<pc, outq, quit>>
lifeVars == <<done, term>>
solVars == <<loopVars, seqVars, renderVars, queueVars, inputVars, cardVars, netVars, lifeVars>>

Esc == "esc"
Key == {"k", Esc, "q", "b"}

ASSUME InputsAssumption == Inputs \subseteq Seq(Key)

\* localSeq++, and 1 after 15.  The BMC numbers its packets the same way.
NextSeq(n) == IF n + 1 > SeqMax THEN 1 ELSE n + 1

\* NewConsole, and Run up to the first packet, which primes the link.
SolInit ==
  /\ pc = "send" /\ outq = <<<<>>>> /\ quit = FALSE
  /\ localSeq = 1 /\ remoteSeq = 0 /\ remoteSize = 0 /\ pendingAck = 0
  /\ armed = FALSE /\ chunk = <<>> /\ pass = <<>> /\ brk = FALSE
  /\ keys = <<>> /\ passed = <<>> /\ chunks = 0
  /\ renderBuf = <<>> /\ renderWake = FALSE /\ pushed = <<>>
  /\ render = "wait" /\ writing = <<>> /\ screen = <<>>
  /\ done = FALSE /\ term = TRUE
  /\ toBmc = <<>> /\ toCon = <<>> /\ faults = 0 /\ calm = TRUE
  /\ out = 0 /\ base = 0 /\ sent = 0 /\ bseq = 0 /\ inSeq = 0 /\ received = <<>>

-----------------------------------------------------------------------------
(* The render queue.                                                       *)

\* pushRender appends under the lock; the poke of renderWake is a step of its own.
PushRender(bytes) ==
  /\ renderBuf' = renderBuf \o bytes
  /\ pushed' = pushed \o bytes
  /\ UNCHANGED renderWake

\* The rest of a turn of the loop, after an exchange that was answered or timed out.
AfterExchange ==
  IF outq # <<>> THEN "send" ELSE IF quit THEN "closing" ELSE "select"

\* Mutant: an unbuffered renderWake, which takes a poke only while the render goroutine listens.
WakeListener ==
  /\ pc \in {"notice", "fresh"}
  /\ renderWake' = (renderWake \/ render = "wait")
  /\ pc' = IF pc = "notice" THEN "feed" ELSE AfterExchange
  /\ UNCHANGED <<renderBuf, pushed, outq, quit, renderVars, seqVars, inputVars, cardVars, netVars,
                 lifeVars>>

\* pushRender pokes renderWake, which has room for one; the loop goes on where it pushed.
WakeRender ==
  /\ pc \in {"notice", "fresh"}
  /\ renderWake' = TRUE
  /\ pc' = IF pc = "notice" THEN "feed" ELSE AfterExchange
  /\ UNCHANGED <<renderBuf, pushed, outq, quit, renderVars, seqVars, inputVars, cardVars, netVars,
                 lifeVars>>

\* renderLoop takes a wake.
TakeWake ==
  /\ render = "wait"
  /\ renderWake
  /\ renderWake' = FALSE
  /\ render' = "flush"
  /\ UNCHANGED <<writing, screen, renderBuf, pushed, loopVars, seqVars, inputVars, cardVars,
                 netVars, lifeVars>>

\* renderLoop sees done, to flush a last time.
TakeDone ==
  /\ render = "wait"
  /\ done
  /\ render' = "lastFlush"
  /\ UNCHANGED <<writing, screen, queueVars, loopVars, seqVars, inputVars, cardVars, netVars,
                 lifeVars>>

\* flushRender swaps the buffer out under the lock.
SwapBuffer ==
  /\ render \in {"flush", "lastFlush"}
  /\ writing' = renderBuf
  /\ renderBuf' = <<>>
  /\ render' = IF render = "lastFlush" THEN "lastWrite" ELSE "write"
  /\ UNCHANGED <<screen, renderWake, pushed, loopVars, seqVars, inputVars, cardVars, netVars,
                 lifeVars>>

\* c.term.write
WriteTerminal ==
  /\ render \in {"write", "lastWrite"}
  /\ screen' = screen \o writing
  /\ writing' = <<>>
  /\ render' = IF render = "lastWrite" THEN "done" ELSE "wait"
  /\ UNCHANGED <<queueVars, loopVars, seqVars, inputVars, cardVars, netVars, lifeVars>>

-----------------------------------------------------------------------------
(* Input and the escape menu.                                              *)

\* Mutant: every chunk starts with a fresh escapeState.
TakeInputAfresh(data) ==
  /\ pc = "select"
  /\ chunks < MaxChunks
  /\ chunks' = chunks + 1
  /\ chunk' = data /\ pass' = <<>> /\ quit' = FALSE /\ brk' = FALSE
  /\ armed' = FALSE
  /\ pc' = "feed"
  /\ UNCHANGED <<outq, keys, passed, renderVars, queueVars, seqVars, cardVars, netVars, lifeVars>>

\* The loop takes the next chunk of inputCh, a queue the input goroutine fills, and calls feed.
TakeInput(data) ==
  /\ pc = "select"
  /\ chunks < MaxChunks
  /\ chunks' = chunks + 1
  /\ chunk' = data /\ pass' = <<>> /\ quit' = FALSE /\ brk' = FALSE
  /\ pc' = "feed"
  /\ UNCHANGED <<outq, armed, keys, passed, renderVars, queueVars, seqVars, cardVars, netVars,
                 lifeVars>>

\* One byte of feed: the escape key arms the menu, the byte after it is a command with its
\* notice or a literal escape key, anything else passes.
FeedByte ==
  /\ pc = "feed"
  /\ chunk # <<>>
  /\ LET b == Head(chunk) IN
       /\ armed' = (~armed /\ b = Esc)
       /\ pass' = IF b = Esc <=> armed THEN Append(pass, b) ELSE pass
       /\ PushRender(IF armed /\ b # Esc THEN <<0>> ELSE <<>>)
       /\ pc' = IF armed /\ b # Esc THEN "notice" ELSE "feed"
       /\ quit' = (quit \/ (armed /\ b = "q"))
       /\ brk' = (brk \/ (armed /\ b = "b"))
       /\ keys' = Append(keys, b)
  /\ chunk' = Tail(chunk)
  /\ UNCHANGED <<outq, passed, chunks, renderVars, seqVars, cardVars, netVars, lifeVars>>

\* What the loop sends after feed: at most one break, then what passed.
Packets ==
  (IF brk THEN <<<<>>>> ELSE <<>>) \o (IF pass # <<>> THEN <<pass>> ELSE <<>>)

\* feed returns; the packets come first and quit after them.
FeedEnds ==
  /\ pc = "feed"
  /\ chunk = <<>>
  /\ outq' = Packets
  /\ pc' = IF Packets # <<>> THEN "send" ELSE IF quit THEN "closing" ELSE "select"
  /\ pass' = <<>> /\ brk' = FALSE
  /\ UNCHANGED <<quit, armed, chunk, keys, passed, chunks, renderVars, queueVars, seqVars,
                 cardVars, netVars, lifeVars>>

\* The poll timer fires.
Poll ==
  /\ pc = "select"
  /\ outq' = <<<<>>>>
  /\ quit' = FALSE
  /\ pc' = "send"
  /\ UNCHANGED <<renderVars, queueVars, seqVars, inputVars, cardVars, netVars, lifeVars>>

-----------------------------------------------------------------------------
(* exchange().                                                             *)

\* Send the packet, with the next number of the console (the one of the packet before if that
\* was not answered) and always with the ack of the last data packet.
SendPacket ==
  /\ pc = "send"
  /\ toBmc' = Append(toBmc, [seq |-> localSeq, ack |-> remoteSeq, count |-> pendingAck,
                             data |-> Head(outq)])
  /\ passed' = passed \o Head(outq)
  /\ outq' = Tail(outq)
  /\ pc' = "wait"
  /\ UNCHANGED <<quit, toCon, faults, calm, armed, chunk, pass, brk, keys, chunks, renderVars,
                 queueVars, seqVars, cardVars, lifeVars>>

\* Mutant: a retransmit is rendered again.
IngestAll(seq, data) ==
  IF seq = 0
  THEN [fresh |-> <<>>, seq |-> remoteSeq, size |-> remoteSize, ack |-> pendingAck]
  ELSE [fresh |-> data, seq |-> seq, size |-> Len(data), ack |-> Len(data)]

\* ingest: the bytes of a data packet not yet rendered, and the new ack state.
Ingest(seq, data) ==
  IF seq = 0
  THEN [fresh |-> <<>>, seq |-> remoteSeq, size |-> remoteSize, ack |-> pendingAck]
  ELSE [fresh |-> IF seq = remoteSeq THEN SubSeq(data, remoteSize + 1, Len(data)) ELSE data,
        seq |-> seq, size |-> Len(data), ack |-> Len(data)]

\* A reply is there: the first datagram is it.
ReceiveReply ==
  /\ pc = "wait"
  /\ toCon # <<>>
  /\ localSeq' = NextSeq(localSeq)
  /\ LET i == Ingest(Head(toCon).seq, Head(toCon).data) IN
       /\ remoteSeq' = i.seq
       /\ remoteSize' = i.size
       /\ pendingAck' = i.ack
       /\ PushRender(i.fresh)
       /\ pc' = IF i.fresh # <<>> THEN "fresh" ELSE AfterExchange
  /\ toCon' = Tail(toCon)
  /\ UNCHANGED <<outq, quit, toBmc, faults, calm, renderVars, inputVars, cardVars, lifeVars>>

\* The read times out: because nothing comes, or too early.  localSeq stays as it is.
ReadTimeout ==
  /\ pc = "wait"
  /\ \/ toBmc = <<>> /\ toCon = <<>> /\ UNCHANGED faults
     \/ toBmc \o toCon # <<>> /\ faults < MaxFaults /\ faults' = faults + 1
  /\ calm' = FALSE
  /\ pc' = AfterExchange
  /\ UNCHANGED <<outq, quit, toBmc, toCon, renderVars, queueVars, seqVars, inputVars,
                 cardVars, lifeVars>>

\* Any other error ends Run.
ExchangeFails ==
  /\ pc = "wait"
  /\ pc' = "closing"
  /\ UNCHANGED <<outq, quit, renderVars, queueVars, seqVars, inputVars, cardVars,
                 netVars, lifeVars>>

-----------------------------------------------------------------------------
(* The end of Run.                                                         *)

\* select sees ctx.Done(); a context that ends during an exchange makes it fail.
ContextDone ==
  /\ pc = "select"
  /\ pc' = "closing"
  /\ UNCHANGED <<outq, quit, renderVars, queueVars, seqVars, inputVars, cardVars,
                 netVars, lifeVars>>

\* The deferred teardown: close(done), ...
CloseDone ==
  /\ pc = "closing"
  /\ ~done
  /\ done' = TRUE
  /\ UNCHANGED <<term, loopVars, renderVars, queueVars, seqVars, inputVars, cardVars,
                 netVars>>

\* Mutant: the terminal goes away without waiting for the render goroutine.
CloseTerminalAtOnce ==
  /\ pc = "closing"
  /\ done
  /\ term' = FALSE
  /\ pc' = "closed"
  /\ UNCHANGED <<outq, quit, done, renderVars, queueVars, seqVars, inputVars,
                 cardVars, netVars>>

\* ... <-renderDone, c.term = nil, t.close().
CloseTerminal ==
  /\ pc = "closing"
  /\ done
  /\ render = "done"
  /\ term' = FALSE
  /\ pc' = "closed"
  /\ UNCHANGED <<outq, quit, done, renderVars, queueVars, seqVars, inputVars,
                 cardVars, netVars>>

-----------------------------------------------------------------------------
(* The BMC and the network (external).                                     *)

HostPrints ==
  /\ out < MaxOut
  /\ out' = out + 1
  /\ UNCHANGED <<base, sent, bseq, inSeq, received, loopVars, renderVars, queueVars, seqVars,
                 inputVars, netVars, lifeVars>>

\* A request acknowledges the packet outstanding: all of it, or the BMC goes on resending.
Acks(r) == sent > 0 /\ r.ack = bseq /\ r.count >= sent

\* A request that repeats the number of the one before is a retry of it, and its data is known.
TakeData(r) ==
  /\ inSeq' = r.seq
  /\ received' = IF r.seq # inSeq THEN received \o r.data ELSE received

\* Answer a request: the packet outstanding, possibly extended; a new one; or nothing to
\* send, and an empty ACK or silence.
BmcAnswers ==
  /\ toBmc # <<>>
  /\ toBmc' = Tail(toBmc)
  /\ TakeData(Head(toBmc))
  /\ LET from == IF Acks(Head(toBmc)) THEN base + sent ELSE base
         retransmit == sent > 0 /\ ~Acks(Head(toBmc))
     IN  /\ base' = from
         /\ IF out > from
            THEN \E len \in (IF retransmit THEN sent ELSE 1)..(out - from) :
                   /\ sent' = len
                   /\ bseq' = IF retransmit THEN bseq ELSE NextSeq(bseq)
                   /\ toCon' = Append(toCon, [seq |-> bseq',
                                              data |-> [i \in 1..len |-> from + i]])
            ELSE /\ sent' = 0
                 /\ UNCHANGED bseq
                 /\ toCon' \in {toCon, Append(toCon, [seq |-> 0, data |-> <<>>])}
  /\ UNCHANGED <<out, faults, calm, loopVars, renderVars, queueVars, seqVars, inputVars, lifeVars>>

LoseDatagram ==
  /\ faults < MaxFaults
  /\ faults' = faults + 1
  /\ calm' = FALSE
  /\ \/ toBmc # <<>> /\ toBmc' = Tail(toBmc) /\ UNCHANGED toCon
     \/ toCon # <<>> /\ toCon' = Tail(toCon) /\ UNCHANGED toBmc
  /\ UNCHANGED <<loopVars, renderVars, queueVars, seqVars, inputVars, cardVars, lifeVars>>

-----------------------------------------------------------------------------
LoopStep ==
  \/ \E data \in Inputs : TakeInput(data)
  \/ FeedByte
  \/ FeedEnds
  \/ Poll
  \/ SendPacket
  \/ ReceiveReply
  \/ ReadTimeout
  \/ WakeRender
  \/ CloseDone
  \/ CloseTerminal
RenderStep == TakeWake \/ TakeDone \/ SwapBuffer \/ WriteTerminal

SolNext ==
  \/ LoopStep
  \/ ExchangeFails
  \/ RenderStep
  \/ ContextDone
  \/ HostPrints
  \/ BmcAnswers
  \/ LoseDatagram

SolSpec == SolInit /\ [][SolNext]_solVars

\* The goroutines run, the poll timer fires, and the BMC handles what reaches it.  The user,
\* the host, the losses and a transport error are free.
SolFairness ==
  /\ WF_solVars(LoopStep)
  /\ WF_solVars(RenderStep)
  /\ WF_solVars(BmcAnswers)

SolFairSpec == SolSpec /\ SolFairness

-----------------------------------------------------------------------------
(* Properties.                                                             *)

\* The bytes of the host in s.
Serial(s) == ToSet(s) \ {0}

\* The serial stream is shown exactly: through losses, late replies, retransmits, extended
\* retransmits and the wrap of the sequence numbers, no byte is rendered twice, out of order or
\* before those in front of it, and the BMC never discards one the console has not taken.
OutputExact ==
  /\ \A i, j \in DOMAIN pushed : i < j /\ pushed[j] # 0 => pushed[i] < pushed[j]
  /\ \A n \in Serial(pushed) : 1..n \subseteq Serial(pushed)
  /\ 1..base \subseteq Serial(pushed)
  /\ IsPrefix(screen, pushed)

\* Reference for the escape menu, over the whole input: the byte after an odd run of escape
\* keys is a command, and every second escape key of a run is a literal one.
Arms(s, i) ==
  \E j \in 1..i :
    /\ \A n \in j..i : s[n] = Esc
    /\ j = 1 \/ s[j - 1] # Esc
    /\ (i - j) % 2 = 0

\* The positions in s of the bytes the menu does not take.
Kept(s) == {i \in DOMAIN s : s[i] = Esc <=> Arms(s, i - 1)}

\* What the packets of a turn carry: a break carries nothing and comes first.
Carried(packets) == IF packets = <<>> THEN <<>> ELSE Last(packets)

\* The data of the request on its way to the BMC.
OnWire == IF toBmc = <<>> THEN <<>> ELSE Head(toBmc).data

\* What feed lets through does not depend on how the terminal cuts the input into chunks: the
\* bytes the menu did not take, in order.  And what the loop has sent of it reaches the BMC:
\* each packet has a number of its own, so that the BMC takes its data once, as long as no
\* datagram is lost and no read times out (the console never sends data again, and after an
\* unanswered packet the next one repeats its number).
EscapeIgnoresChunking ==
  LET waiting == passed \o Carried(outq) \o pass
  IN  /\ pc \notin {"closing", "closed"} =>
           /\ Len(waiting) = Cardinality(Kept(keys))
           /\ \A i \in Kept(keys) :
                waiting[Cardinality({j \in Kept(keys) : j <= i})] = keys[i]
      /\ calm => passed = received \o OnWire

\* The render goroutine never writes to a terminal that is gone, and it has written all
\* there was when it goes, the last notice included.
TeardownOrdered ==
  /\ render \in {"write", "lastWrite"} => term
  /\ pc = "closed" => screen = pushed

\* What the host prints appears, unless the session ends: neither a lost wake nor an
\* acknowledgement the BMC waits for in vain stops the stream.
OutputAppears ==
  (Cardinality(Serial(screen)) < out) ~>
    (Cardinality(Serial(screen)) = out \/ pc \in {"closing", "closed"})

=============================================================================
