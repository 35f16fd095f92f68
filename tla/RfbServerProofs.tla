--------------------------- MODULE RfbServerProofs ---------------------------
(***************************************************************************)
(* Type correctness of the screen path, the safety of its coalescing       *)
(* signal and of its coalesced requests, and the order of DesktopSize and  *)
(* Raw rects, for any number of viewers, resolutions and frames.           *)
(***************************************************************************)
EXTENDS RfbServer, TLAPS

\* What Serve writes is a sequence of well-formed server messages.
LEMMA RectsType ==
  ASSUME TypeOK, NEW v \in Viewers, NEW f \in Frame
  PROVE  Rects(v, f) \in Seq(ServerMessage)
<1>1. RawUpdate(f) \in ServerMessage
  BY DEF RawUpdate, Frame, ServerMessage
<1>2. DesktopSize(f.size) \in ServerMessage
  BY UpdatesAssumption DEF DesktopSize, Frame, ServerMessage, Versions
<1> QED
  BY <1>1, <1>2 DEF Rects

\* Short tuples are sequences over any set that holds their elements.
LEMMA ShortSeq ==
  ASSUME NEW S, NEW a \in S, NEW b \in S
  PROVE  <<a>> \in Seq(S) /\ <<a, b>> \in Seq(S)
OBVIOUS

\* What noVNC sends back is a sequence of well-formed client messages.
LEMMA ReplyType ==
  ASSUME NEW m \in ServerMessage
  PROVE  Reply(m) \in Seq(ClientMessage)
<1>1. SetEncodings \in ClientMessage
  BY DEF SetEncodings, ClientMessage
<1>2. UpdateRequest(FALSE) \in ClientMessage /\ UpdateRequest(TRUE) \in ClientMessage
  BY DEF UpdateRequest, ClientMessage
<1>3. <<SetEncodings, UpdateRequest(FALSE)>> \in Seq(ClientMessage)
  BY <1>1, <1>2, ShortSeq, Zenon
<1>4. <<UpdateRequest(TRUE)>> \in Seq(ClientMessage)
  BY <1>2, ShortSeq, Zenon
<1> QED
  BY <1>3, <1>4 DEF Reply

\* Every action keeps the types: the channels stay within their capacity, and the
\* messages on the wire stay well formed.
LEMMA TypeInvariance == TypeOK /\ [Next]_vars => TypeOK'
<1> SUFFICES ASSUME TypeOK, [Next]_vars
             PROVE  TypeOK'
  OBVIOUS
<1> USE DEF TypeOK
<1>1. CASE UpdateFrame
  <2>1. frame' \in Frame
    BY <1>1, UpdatesAssumption DEF UpdateFrame, Frame, Versions
  <2> QED
    BY <1>1, <2>1 DEF UpdateFrame, serveVars, readerVars, wireVars
<1>2. CASE SignalChanged
  BY <1>2 DEF SignalChanged, serveVars, readerVars, wireVars
<1>3. ASSUME NEW v \in Viewers, Connect(v) PROVE TypeOK'
  BY <1>3 DEF Connect, srcVars, readerVars, wireVars
<1>4. ASSUME NEW v \in Viewers, SendServerInit(v) PROVE TypeOK'
  <2>1. ServerInit(frame.size) \in ServerMessage
    BY UpdatesAssumption DEF ServerInit, ServerMessage, Frame, Versions
  <2>2. Append(toClient[v], ServerInit(frame.size)) \in Seq(ServerMessage)
    BY <2>1
  <2> QED
    BY <1>4, <2>2 DEF SendServerInit, srcVars, readerVars
<1>5. ASSUME NEW v \in Viewers, ReadF0(v) PROVE TypeOK'
  BY <1>5 DEF ReadF0, Frame, srcVars, readerVars, wireVars
<1>6. ASSUME NEW v \in Viewers, TakeRequest(v) PROVE TypeOK'
  <2>1. reqc[v] \in {<<TRUE>>, <<FALSE>>}
    BY <1>6 DEF TakeRequest
  <2>2. Tail(<<TRUE>>) = <<>> /\ Tail(<<FALSE>>) = <<>>
    OBVIOUS
  <2>3. Tail(reqc[v]) = <<>>
    BY <2>1, <2>2
  <2> QED
    BY <1>6, <2>3 DEF TakeRequest, srcVars, wireVars
<1>7. ASSUME NEW v \in Viewers, TakeChanged(v) PROVE TypeOK'
  BY <1>7 DEF TakeChanged, readerVars, wireVars
<1>8. ASSUME NEW v \in Viewers, ReadFrame(v) PROVE TypeOK'
  BY <1>8 DEF ReadFrame, srcVars, readerVars, wireVars
<1>9. ASSUME NEW v \in Viewers, WriteUpdate(v) PROVE TypeOK'
  <2>1. Rects(v, cur[v]) \in Seq(ServerMessage)
    BY RectsType
  <2>2. toClient[v] \o Rects(v, cur[v]) \in Seq(ServerMessage)
    BY <2>1
  <2>3. cur[v].size \in Sizes
    BY DEF Frame
  <2> QED
    BY <1>9, <2>2, <2>3 DEF WriteUpdate, srcVars, readerVars
<1>10. ASSUME NEW v \in Viewers, WriteFails(v) \/ TakeError(v) \/ ContextDone(v)
       PROVE TypeOK'
  BY <1>10 DEF WriteFails, TakeError, ContextDone, srcVars, readerVars, wireVars
<1>11. ASSUME NEW v \in Viewers, ReadMessage(v) PROVE TypeOK'
  <2> DEFINE m == Head(toServer[v])
  <2>1. m \in ClientMessage
    BY <1>11 DEF ReadMessage
  <2>2. CoalesceRequest(reqc[v], m.incremental) \in {<<>>, <<TRUE>>, <<FALSE>>}
    BY <2>1 DEF CoalesceRequest, ClientMessage
  <2>3. Tail(toServer[v]) \in Seq(ClientMessage)
    BY <1>11 DEF ReadMessage
  <2> QED
    BY <1>11, <2>2, <2>3 DEF ReadMessage, srcVars, serveVars
<1>12. ASSUME NEW v \in Viewers, ReaderFails(v) PROVE TypeOK'
  BY <1>12 DEF ReaderFails, srcVars, serveVars, wireVars
<1>13. ASSUME NEW v \in Viewers, ClientReceive(v) PROVE TypeOK'
  <2> DEFINE m == Head(toClient[v])
  <2>1. m \in ServerMessage /\ Tail(toClient[v]) \in Seq(ServerMessage)
    BY <1>13 DEF ClientReceive
  <2>2. Reply(m) \in Seq(ClientMessage)
    BY <2>1, ReplyType
  <2>3. Shown(client[v], m) \in [size : Sizes, ver : Versions, resized : BOOLEAN]
    BY <2>1 DEF Shown, ServerMessage
  <2>4. toServer[v] \o Reply(m) \in Seq(ClientMessage)
    BY <2>2
  <2> QED
    BY <1>13, <2>1, <2>3, <2>4 DEF ClientReceive, srcVars, serveVars, readerVars
<1>14. ASSUME NEW v \in Viewers, ClientLeave(v) PROVE TypeOK'
  BY <1>14 DEF ClientLeave, srcVars, serveVars, readerVars
<1>15. CASE UNCHANGED vars
  BY <1>15 DEF vars, srcVars, serveVars, readerVars, wireVars
<1> QED
  BY <1>1, <1>2, <1>3, <1>4, <1>5, <1>6, <1>7, <1>8, <1>9, <1>10, <1>11, <1>12,
     <1>13, <1>14, <1>15 DEF Next, ServeStep, ReaderStep, EndOfStream

\* The screen path is type correct: in particular reqc, the cap-1 channel between the
\* reader goroutine and Serve, never holds two requests.
THEOREM TypeCorrect == Spec => []TypeOK
<1>1. Init => TypeOK
  <2> SUFFICES ASSUME Init PROVE TypeOK
    OBVIOUS
  <2>1. NewFrameSource \in Frame /\ 0 \in Versions
    BY SizesAssumption, UpdatesAssumption DEF NewFrameSource, Frame, Versions
  <2>2. <<>> \in Seq(ClientMessage) /\ <<>> \in Seq(ServerMessage)
    OBVIOUS
  <2> QED
    BY <2>1, <2>2, SizesAssumption DEF Init, TypeOK
<1> QED
  BY <1>1, TypeInvariance, PTL DEF Spec

\* The coalescing signal of FrameSource loses no wake-up, whatever the interleaving of
\* Update with any number of Serve goroutines that come and go.
THEOREM WakeupSafety == Spec => []NoLostWakeup
<1>1. Init => NoLostWakeup
  BY DEF Init, NoLostWakeup, NewFrameSource
<1>2. TypeOK /\ NoLostWakeup /\ [Next]_vars => NoLostWakeup'
  <2> SUFFICES ASSUME TypeOK, NoLostWakeup, [Next]_vars
               PROVE  NoLostWakeup'
    OBVIOUS
  <2> USE DEF TypeOK, NoLostWakeup
  <2>1. CASE UpdateFrame \/ SignalChanged
    BY <2>1 DEF UpdateFrame, SignalChanged
  <2>2. ASSUME NEW v \in Viewers, TakeChanged(v) PROVE NoLostWakeup'
    BY <2>2 DEF TakeChanged
  <2>3. ASSUME NEW v \in Viewers, ReadFrame(v) PROVE NoLostWakeup'
    BY <2>3 DEF ReadFrame, srcVars
  <2>4. ASSUME NEW v \in Viewers,
               Connect(v) \/ SendServerInit(v) \/ ReadF0(v) \/ TakeRequest(v)
                 \/ WriteUpdate(v) \/ WriteFails(v) \/ TakeError(v) \/ ContextDone(v)
        PROVE NoLostWakeup'
    BY <2>4 DEF Connect, SendServerInit, ReadF0, TakeRequest, WriteUpdate, WriteFails,
                TakeError, ContextDone, srcVars
  <2>5. ASSUME NEW v \in Viewers,
               ReadMessage(v) \/ ReaderFails(v) \/ ClientReceive(v) \/ ClientLeave(v)
        PROVE NoLostWakeup'
    BY <2>5 DEF ReadMessage, ReaderFails, ClientReceive, ClientLeave, srcVars, serveVars
  <2>6. CASE UNCHANGED vars
    BY <2>6 DEF vars, srcVars, serveVars
  <2> QED
    BY <2>1, <2>2, <2>3, <2>4, <2>5, <2>6 DEF Next, ServeStep, ReaderStep, EndOfStream
<1> QED
  BY <1>1, <1>2, TypeCorrect, PTL DEF Spec

-----------------------------------------------------------------------------
(* The client is told before the screen changes its size.                  *)

\* A DesktopSize rect is at place k of the wire or before, or the client has had one.
ResizedBy(v, k) ==
  client[v].resized \/ \E j \in 1..k : toClient[v][j].type = "resize"

\* The size the client was told, or will be told, last.
LastTold(v) ==
  IF toClient[v] = <<>> THEN client[v].size ELSE toClient[v][Len(toClient[v])].size

\* From the first DesktopSize rect on, Serve's lastW and lastH are what the client was told.
ServeKnows(v) ==
  ResizedBy(v, Len(toClient[v])) =>
    sizeOK[v] /\ pc[v] \notin {"off", "init", "f0"} /\ last[v] = LastTold(v)

\* From there on a Raw rect has the size of the message before it on the wire,
WireConsistent(v) ==
  \A i \in 1..(Len(toClient[v]) - 1) :
    ResizedBy(v, i) /\ toClient[v][i + 1].type = "raw" =>
      toClient[v][i + 1].size = toClient[v][i].size

\* and one that is at the head of the wire that of the client's screen.
HeadConsistent(v) ==
  toClient[v] # <<>> /\ toClient[v][1].type = "raw" /\ client[v].resized =>
    toClient[v][1].size = client[v].size

ResizeInv == \A v \in Viewers : ServeKnows(v) /\ WireConsistent(v) /\ HeadConsistent(v)

\* A step that leaves the wire, the client and lastW, lastH alone and does not go back to the handshake keeps the
\* invariant.
LEMMA ResizeFrame ==
  ASSUME NEW v \in Viewers, ServeKnows(v), WireConsistent(v), HeadConsistent(v),
         UNCHANGED <<client[v], toClient[v], last[v]>>,
         sizeOK[v] => sizeOK'[v],
         pc[v] \notin {"off", "init", "f0"} => pc'[v] \notin {"off", "init", "f0"}
  PROVE  (ServeKnows(v) /\ WireConsistent(v) /\ HeadConsistent(v))'
<1>1. \A k \in Nat : ResizedBy(v, k)' <=> ResizedBy(v, k)
  BY DEF ResizedBy
<1>2. ResizedBy(v, Len(toClient[v]))' <=> ResizedBy(v, Len(toClient[v]))
  BY DEF ResizedBy
<1>3. LastTold(v)' = LastTold(v)
  BY DEF LastTold
<1>4. ServeKnows(v)'
  BY <1>2, <1>3 DEF ServeKnows
<1>5. WireConsistent(v)'
  BY DEF WireConsistent, ResizedBy
<1>6. HeadConsistent(v)'
  BY DEF HeadConsistent
<1> QED
  BY <1>4, <1>5, <1>6

\* What is put on the wire goes behind what is there.
LEMMA WireAfter ==
  ASSUME NEW S, NEW s \in Seq(S), NEW t \in Seq(S)
  PROVE  /\ s \o t \in Seq(S)
         /\ Len(s \o t) = Len(s) + Len(t)
         /\ \A i \in 1..Len(s) : (s \o t)[i] = s[i]
         /\ \A i \in 1..Len(t) : (s \o t)[Len(s) + i] = t[i]
OBVIOUS

\* What is taken off the wire moves the rest up by one place.
LEMMA WireTail ==
  ASSUME NEW S, NEW s \in Seq(S), s # <<>>
  PROVE  /\ Head(s) = s[1]
         /\ Len(s) \in Nat \ {0}
         /\ Len(Tail(s)) = Len(s) - 1
         /\ \A i \in 1..(Len(s) - 1) : Tail(s)[i] = s[i + 1]
OBVIOUS

\* Two rects, one behind the other.
LEMMA TwoRects ==
  ASSUME NEW a, NEW b
  PROVE  /\ Len(<<a>> \o <<b>>) = 2
         /\ (<<a>> \o <<b>>)[1] = a
         /\ (<<a>> \o <<b>>)[2] = b
<1>1. <<a>> \in Seq({a, b}) /\ <<b>> \in Seq({a, b})
  OBVIOUS
<1>2. Len(<<a>>) = 1 /\ Len(<<b>>) = 1
  OBVIOUS
<1> QED
  BY <1>1, <1>2

\* A wire without messages is empty.
LEMMA WireEmpty ==
  ASSUME NEW S, NEW s \in Seq(S)
  PROVE  Len(s) \in Nat /\ (Len(s) = 0 <=> s = <<>>)
OBVIOUS

\* The client reads a message.
LEMMA ResizeReceive ==
  ASSUME TypeOK, NEW v \in Viewers, ServeKnows(v), WireConsistent(v), HeadConsistent(v),
         ClientReceive(v)
  PROVE  (ServeKnows(v) /\ WireConsistent(v) /\ HeadConsistent(v))'
<1> DEFINE q == toClient[v]
           m == Head(toClient[v])
<1>1. q \in Seq(ServerMessage) /\ q # <<>>
  BY DEF TypeOK, ClientReceive
<1>2. /\ m = q[1]
      /\ Len(q) \in Nat \ {0}
      /\ Len(Tail(q)) = Len(q) - 1
      /\ \A i \in 1..(Len(q) - 1) : Tail(q)[i] = q[i + 1]
  BY <1>1, WireTail
<1>n. PICK n \in Nat \ {0} : n = Len(q)
  BY <1>2
<1>3. toClient'[v] = Tail(q) /\ client'[v] = Shown(client[v], m)
  BY DEF ClientReceive, TypeOK
<1>4. last'[v] = last[v] /\ sizeOK'[v] = sizeOK[v] /\ pc'[v] = pc[v]
  BY DEF ClientReceive, serveVars, readerVars
<1>5. /\ client'[v].size = IF m.type = "raw" THEN client[v].size ELSE m.size
      /\ client'[v].resized <=> (client[v].resized \/ m.type = "resize")
  <2>1. client'[v].resized = (client[v].resized \/ m.type = "resize")
    BY <1>3 DEF Shown
  <2>2. client'[v].size = IF m.type = "raw" THEN client[v].size ELSE m.size
    BY <1>3 DEF Shown
  <2> QED
    BY <2>1, <2>2, Zenon
<1>6. /\ toClient'[v] \in Seq(ServerMessage)
      /\ Len(toClient'[v]) = n - 1
      /\ \A i \in 1..(n - 1) : toClient'[v][i] = q[i + 1]
  BY <1>1, <1>2, <1>n, <1>3
<1>7. ASSUME NEW k \in Nat, k < n, ResizedBy(v, k)'
      PROVE  ResizedBy(v, k + 1)
  <2>1. CASE client'[v].resized
    <3>1. 1 \in 1..(k + 1)
      OBVIOUS
    <3> QED
      BY <1>2, <1>n, <1>5, <2>1, <3>1 DEF ResizedBy
  <2>2. CASE \E j \in 1..k : toClient'[v][j].type = "resize"
    <3>1. PICK j \in 1..k : toClient'[v][j].type = "resize"
      BY <2>2
    <3>2. j \in 1..(n - 1) /\ j + 1 \in 1..(k + 1)
      BY <1>7
    <3>3. q[j + 1].type = "resize"
      BY <1>6, <3>1, <3>2
    <3> QED
      BY <3>2, <3>3 DEF ResizedBy
  <2> QED
    BY <1>7, <2>1, <2>2 DEF ResizedBy
<1>8. WireConsistent(v)'
  <2> SUFFICES ASSUME NEW i \in 1..(n - 2),
                      ResizedBy(v, i)', toClient'[v][i + 1].type = "raw"
               PROVE  toClient'[v][i + 1].size = toClient'[v][i].size
    BY <1>6 DEF WireConsistent
  <2>1. toClient'[v][i + 1] = q[i + 2] /\ toClient'[v][i] = q[i + 1]
    BY SMTT(60), <1>2, <1>n, <1>6
  <2>2. ResizedBy(v, i + 1) /\ i + 1 \in 1..(n - 1) /\ (i + 1) + 1 = i + 2
    BY <1>2, <1>n, <1>7
  <2> QED
    BY <1>n, <2>1, <2>2 DEF WireConsistent
<1>9. ASSUME client'[v].resized, m.type = "raw"
      PROVE  q[1].size = client'[v].size
  BY <1>1, <1>2, <1>5, <1>9 DEF HeadConsistent
<1>10. ASSUME client'[v].resized PROVE q[1].size = client'[v].size
  BY <1>2, <1>n, <1>5, <1>9, <1>10
<1>11. HeadConsistent(v)'
  <2> SUFFICES ASSUME toClient'[v] # <<>>, toClient'[v][1].type = "raw", client'[v].resized
               PROVE  toClient'[v][1].size = client'[v].size
    BY DEF HeadConsistent
  <2>1. n - 1 # 0
    BY <1>1, <1>3, <1>6
  <2>2. 1 \in 1..(n - 1) /\ toClient'[v][1] = q[2] /\ ResizedBy(v, 1)
    <3>1. 1 \in 1..(n - 1) /\ 1 + 1 = 2 /\ 1 \in 1..1
      BY <2>1
    <3>2. toClient'[v][1] = q[2]
      BY <1>6, <3>1
    <3>3. ResizedBy(v, 1)
      BY <1>2, <1>n, <1>5, <3>1 DEF ResizedBy
    <3> QED
      BY <3>1, <3>2, <3>3
  <2>3. q[2].size = q[1].size
    BY <1>n, <2>2 DEF WireConsistent
  <2> QED
    BY <1>10, <2>2, <2>3
<1>12. ServeKnows(v)'
  <2> SUFFICES ASSUME ResizedBy(v, Len(toClient[v]))'
               PROVE  (sizeOK[v] /\ pc[v] \notin {"off", "init", "f0"} /\ last[v] = LastTold(v))'
    BY DEF ServeKnows
  <2>1. ResizedBy(v, n)
    BY <1>2, <1>n, <1>6, <1>7
  <2>2. last[v] = q[n].size
    BY <1>1, <1>n, <2>1 DEF ServeKnows, LastTold
  <2>3. CASE n = 1
    <3>1. toClient'[v] = <<>> /\ client'[v].resized
      BY <1>6, <2>3 DEF ResizedBy
    <3> QED
      BY <1>4, <1>10, <1>n, <2>1, <2>2, <2>3, <3>1 DEF ServeKnows, LastTold
  <2>4. CASE n # 1
    <3>1. n - 1 \in 1..(n - 1) /\ (n - 1) + 1 = n
      BY <2>4
    <3>2. toClient'[v][Len(toClient'[v])] = q[n]
      BY <1>6, <3>1
    <3>3. toClient'[v] # <<>>
      BY <1>6, <3>1
    <3> QED
      BY <1>4, <1>n, <2>1, <2>2, <3>2, <3>3 DEF ServeKnows, LastTold
  <2> QED
    BY <2>3, <2>4
<1> QED
  BY <1>8, <1>11, <1>12

\* Serve writes the rects of a frame.
LEMMA ResizeWrite ==
  ASSUME TypeOK, NEW v \in Viewers, ServeKnows(v), WireConsistent(v), HeadConsistent(v),
         WriteUpdate(v)
  PROVE  (ServeKnows(v) /\ WireConsistent(v) /\ HeadConsistent(v))'
<1> DEFINE q == toClient[v]
           f == cur[v]
<1>1. q \in Seq(ServerMessage) /\ Len(q) \in Nat
  BY DEF TypeOK
<1>2. PICK n \in Nat : n = Len(q)
  BY <1>1
<1>3. Rects(v, f) \in Seq(ServerMessage)
  BY RectsType DEF TypeOK
<1>4. /\ toClient'[v] \in Seq(ServerMessage)
      /\ Len(toClient'[v]) = n + Len(Rects(v, f))
      /\ \A i \in 1..n : toClient'[v][i] = q[i]
      /\ \A i \in 1..Len(Rects(v, f)) : toClient'[v][n + i] = Rects(v, f)[i]
  <2>1. toClient'[v] = q \o Rects(v, f)
    BY DEF WriteUpdate, TypeOK
  <2>2. /\ q \o Rects(v, f) \in Seq(ServerMessage)
        /\ Len(q \o Rects(v, f)) = Len(q) + Len(Rects(v, f))
        /\ \A i \in 1..Len(q) : (q \o Rects(v, f))[i] = q[i]
        /\ \A i \in 1..Len(Rects(v, f)) : (q \o Rects(v, f))[Len(q) + i] = Rects(v, f)[i]
    <3>1. PICK s \in Seq(ServerMessage), t \in Seq(ServerMessage) : s = q /\ t = Rects(v, f)
      BY <1>1, <1>3
    <3>2. /\ s \o t \in Seq(ServerMessage)
          /\ Len(s \o t) = Len(s) + Len(t)
          /\ \A i \in 1..Len(s) : (s \o t)[i] = s[i]
          /\ \A i \in 1..Len(t) : (s \o t)[Len(s) + i] = t[i]
      BY WireAfter
    <3> QED
      BY <3>1, <3>2, Zenon
  <2> QED
    BY <1>2, <2>1, <2>2, Zenon
<1>5. /\ last'[v] = f.size /\ pc'[v] = "loop"
      /\ sizeOK'[v] = sizeOK[v] /\ client'[v] = client[v]
  BY DEF WriteUpdate, TypeOK, readerVars
<1>6. RawUpdate(f).type = "raw" /\ RawUpdate(f).size = f.size
  BY DEF RawUpdate
<1>7. DesktopSize(f.size).type = "resize" /\ DesktopSize(f.size).size = f.size
  BY DEF DesktopSize
<1>8. \A k \in 0..n : ResizedBy(v, k)' <=> ResizedBy(v, k)
  <2> SUFFICES ASSUME NEW k \in 0..n
               PROVE  ResizedBy(v, k)' <=> ResizedBy(v, k)
    OBVIOUS
  <2>1. \A j \in 1..k : j \in 1..n
    OBVIOUS
  <2>2. \A j \in 1..k : toClient'[v][j] = toClient[v][j]
    BY <1>4, <2>1
  <2> QED
    BY <1>5, <2>2 DEF ResizedBy
<1>9. \A i \in 1..(n - 1) : ResizedBy(v, i)' /\ toClient'[v][i + 1].type = "raw" =>
        toClient'[v][i + 1].size = toClient'[v][i].size
  <2> SUFFICES ASSUME NEW i \in 1..(n - 1), ResizedBy(v, i)',
                      toClient'[v][i + 1].type = "raw"
               PROVE  toClient'[v][i + 1].size = toClient'[v][i].size
    OBVIOUS
  <2>1. i \in 0..n /\ i \in 1..n /\ i + 1 \in 1..n
    OBVIOUS
  <2>2. ResizedBy(v, i) /\ toClient'[v][i] = q[i] /\ toClient'[v][i + 1] = q[i + 1]
    BY <1>4, <1>8, <2>1
  <2> QED
    BY <1>2, <2>2 DEF WireConsistent
<1>10. n \in 1..n => toClient'[v][1] = q[1]
  BY <1>4
<1>11. CASE NewSize(v, f)
  <2>1. Rects(v, f) = <<DesktopSize(f.size)>> \o <<RawUpdate(f)>>
    BY <1>11, Zenon DEF Rects
  <2>2. Len(Rects(v, f)) = 2 /\ Rects(v, f)[1] = DesktopSize(f.size)
          /\ Rects(v, f)[2] = RawUpdate(f)
    BY <2>1, TwoRects
  <2>3. /\ Len(toClient'[v]) = n + 2
        /\ toClient'[v][n + 1] = DesktopSize(f.size)
        /\ toClient'[v][n + 2] = RawUpdate(f)
    BY <1>4, <2>2
  <2>4. toClient'[v] # <<>>
    BY <1>4, <2>3
  <2>5. LastTold(v)' = f.size
    BY <1>6, <2>3, <2>4 DEF LastTold
  <2>6. ServeKnows(v)'
    BY <1>5, <1>11, <2>5 DEF ServeKnows, NewSize
  <2>7. WireConsistent(v)'
    <3> SUFFICES ASSUME NEW i \in 1..(n + 1), ResizedBy(v, i)',
                        toClient'[v][i + 1].type = "raw"
                 PROVE  toClient'[v][i + 1].size = toClient'[v][i].size
      BY <2>3 DEF WireConsistent
    <3>1. i \in 1..(n - 1) \/ i = n \/ i = n + 1
      OBVIOUS
    <3>2. CASE i \in 1..(n - 1)
      BY <1>9, <3>2
    <3>3. CASE i = n
      BY <1>7, <2>3, <3>3
    <3>4. CASE i = n + 1
      <4>1. i + 1 = n + 2
        BY <3>4
      <4> QED
        BY <1>6, <1>7, <2>3, <3>4, <4>1
    <3> QED
      BY <3>1, <3>2, <3>3, <3>4
  <2>8. HeadConsistent(v)'
    <3>1. CASE n = 0
      <4>1. n + 1 = 1
        BY <3>1
      <4>2. toClient'[v][1].type = "resize"
        BY <1>7, <2>3, <4>1
      <4> QED
        BY <4>2 DEF HeadConsistent
    <3>2. CASE n # 0
      <4>1. n \in 1..n /\ q # <<>>
        BY <1>2, <3>2
      <4> QED
        BY <1>5, <1>10, <4>1 DEF HeadConsistent
    <3> QED
      BY <3>1, <3>2
  <2> QED
    BY <2>6, <2>7, <2>8
<1>12. CASE ~NewSize(v, f)
  <2>1. Rects(v, f) = <<RawUpdate(f)>>
    BY <1>12 DEF Rects
  <2>2. Len(Rects(v, f)) = 1 /\ Rects(v, f)[1] = RawUpdate(f)
    BY <2>1
  <2>3. Len(toClient'[v]) = n + 1 /\ toClient'[v][n + 1] = RawUpdate(f)
    BY <1>4, <2>2
  <2>4. toClient'[v] # <<>>
    BY <1>4, <2>3
  <2>5. LastTold(v)' = f.size
    BY <1>6, <2>3, <2>4 DEF LastTold
  <2>6. ResizedBy(v, n + 1)' <=> ResizedBy(v, n)
    <3>1. n \in 0..n
      OBVIOUS
    <3>2. ~(toClient'[v][n + 1].type = "resize")
      BY <1>6, <2>3
    <3>3. \A j \in 1..(n + 1) : j \in 1..n \/ j = n + 1
      OBVIOUS
    <3>4. \A j \in 1..n : j \in 1..(n + 1)
      OBVIOUS
    <3>5. ResizedBy(v, n + 1)' <=> ResizedBy(v, n)'
      BY <3>2, <3>3, <3>4 DEF ResizedBy
    <3> QED
      BY <1>8, <3>1, <3>5
  <2>7. ResizedBy(v, n) => sizeOK[v] /\ f.size = last[v] /\ last[v] = LastTold(v)
    BY <1>2, <1>12 DEF ServeKnows, NewSize
  <2>8. ServeKnows(v)'
    BY <1>5, <2>3, <2>5, <2>6, <2>7 DEF ServeKnows
  <2>9. WireConsistent(v)'
    <3> SUFFICES ASSUME NEW i \in 1..n, ResizedBy(v, i)',
                        toClient'[v][i + 1].type = "raw"
                 PROVE  toClient'[v][i + 1].size = toClient'[v][i].size
      BY <2>3 DEF WireConsistent
    <3>1. i \in 1..(n - 1) \/ i = n
      OBVIOUS
    <3>2. CASE i \in 1..(n - 1)
      BY <1>9, <3>2
    <3>3. CASE i = n
      <4>1. n \in 1..n /\ n \in 0..n /\ n # 0
        BY <3>3
      <4>2. ResizedBy(v, n) /\ toClient'[v][n] = q[n]
        BY <1>4, <1>8, <3>3, <4>1
      <4>3. q # <<>>
        BY <1>2, <4>1
      <4>4. q[n].size = f.size
        BY <1>2, <2>7, <4>2, <4>3 DEF LastTold
      <4> QED
        BY <1>6, <2>3, <3>3, <4>2, <4>4
    <3> QED
      BY <3>1, <3>2, <3>3
  <2>10. HeadConsistent(v)'
    <3>1. CASE n = 0
      <4>1. q = <<>>
        BY <1>1, <1>2, <3>1, WireEmpty
      <4>2. toClient'[v][1].size = f.size
        BY <1>6, <2>3, <3>1
      <4>3. client[v].resized => client[v].size = f.size
        BY <2>7, <4>1 DEF LastTold, ResizedBy
      <4> QED
        BY <1>5, <4>2, <4>3 DEF HeadConsistent
    <3>2. CASE n # 0
      <4>1. n \in 1..n /\ q # <<>>
        BY <1>2, <3>2
      <4> QED
        BY <1>5, <1>10, <4>1 DEF HeadConsistent
    <3> QED
      BY <3>1, <3>2
  <2> QED
    BY <2>8, <2>9, <2>10
<1> QED
  BY <1>11, <1>12

\* ServerInit goes out before any DesktopSize rect.
LEMMA ResizeServerInit ==
  ASSUME TypeOK, NEW v \in Viewers, ServeKnows(v), SendServerInit(v)
  PROVE  (ServeKnows(v) /\ WireConsistent(v) /\ HeadConsistent(v))'
<1> DEFINE q == toClient[v]
           m == ServerInit(frame.size)
<1>1. q \in Seq(ServerMessage) /\ Len(q) \in Nat
  BY DEF TypeOK
<1>2. PICK n \in Nat : n = Len(q)
  BY <1>1
<1>3. ~ResizedBy(v, n)
  BY <1>2 DEF ServeKnows, SendServerInit
<1>4. toClient'[v] = Append(q, m) /\ client'[v] = client[v]
  BY DEF SendServerInit, TypeOK
<1>5. /\ Len(toClient'[v]) = n + 1
      /\ toClient'[v][n + 1] = m
      /\ \A i \in 1..n : toClient'[v][i] = q[i]
  BY <1>1, <1>2, <1>4
<1>6. m.type = "init"
  BY DEF ServerInit
<1>7. \A j \in 1..(n + 1) : j \in 1..n \/ j = n + 1
  OBVIOUS
<1>8. \A j \in 1..(n + 1) : toClient'[v][j].type # "resize"
  BY <1>3, <1>5, <1>6, <1>7 DEF ResizedBy
<1>9. ~client'[v].resized
  BY <1>3, <1>4 DEF ResizedBy
<1>10. ServeKnows(v)'
  BY <1>5, <1>8, <1>9 DEF ServeKnows, ResizedBy
<1>11. WireConsistent(v)'
  <2>1. \A i \in 1..n : \A j \in 1..i : j \in 1..(n + 1)
    OBVIOUS
  <2>2. \A i \in 1..n : ~ResizedBy(v, i)'
    BY <1>8, <1>9, <2>1 DEF ResizedBy
  <2> QED
    BY <1>5, <2>2 DEF WireConsistent
<1>12. HeadConsistent(v)'
  BY <1>9 DEF HeadConsistent
<1> QED
  BY <1>10, <1>11, <1>12

\* The actions of viewer u leave the state of another viewer alone.
LEMMA OtherViewer ==
  ASSUME TypeOK, NEW u \in Viewers, NEW v \in Viewers, u # v,
         \/ Connect(u) \/ ServeStep(u) \/ ContextDone(u) \/ ReaderStep(u) \/ ReaderFails(u)
         \/ ClientReceive(u) \/ ClientLeave(u)
  PROVE  UNCHANGED <<pc[v], last[v], sizeOK[v], reqc[v], gone[v], toServer[v], toClient[v],
                     client[v]>>
<1>1. CASE Connect(u) \/ SendServerInit(u) \/ ReadF0(u)
  BY <1>1 DEF Connect, SendServerInit, ReadF0, TypeOK, readerVars, wireVars
<1>2. CASE TakeRequest(u) \/ TakeChanged(u) \/ ReadFrame(u)
  BY <1>2 DEF TakeRequest, TakeChanged, ReadFrame, TypeOK, readerVars, wireVars
<1>3. CASE WriteUpdate(u)
  BY <1>3 DEF WriteUpdate, TypeOK, readerVars
<1>4. CASE WriteFails(u) \/ TakeError(u) \/ ContextDone(u)
  BY <1>4 DEF WriteFails, TakeError, ContextDone, TypeOK, readerVars, wireVars
<1>5. CASE ReadMessage(u)
  BY <1>5 DEF ReadMessage, TypeOK, serveVars
<1>6. CASE ReaderFails(u)
  BY <1>6 DEF ReaderFails, TypeOK, serveVars, wireVars
<1>7. CASE ClientReceive(u)
  BY <1>7 DEF ClientReceive, TypeOK, serveVars, readerVars
<1>8. CASE ClientLeave(u)
  BY <1>8 DEF ClientLeave, TypeOK, serveVars, readerVars
<1> QED
  BY <1>1, <1>2, <1>3, <1>4, <1>5, <1>6, <1>7, <1>8 DEF ServeStep, ReaderStep, EndOfStream

\* A viewer that was sent a DesktopSize rect gets every Raw rect in the size it was told
\* last, whatever frames arrive between src.Frame() and the write, however many rects are on
\* the wire, and whenever SetEncodings is read.
THEOREM ResizeSafety == Spec => []ResizePrecedesRaw
<1>1. Init => ResizeInv
  <2> SUFFICES ASSUME Init, NEW v \in Viewers
               PROVE  ServeKnows(v) /\ WireConsistent(v) /\ HeadConsistent(v)
    BY DEF ResizeInv
  <2>1. toClient[v] = <<>> /\ ~client[v].resized
    BY DEF Init
  <2>2. Len(toClient[v]) = 0
    BY <2>1
  <2>3. 1..0 = {} /\ 1..(0 - 1) = {}
    OBVIOUS
  <2> QED
    BY <2>1, <2>2, <2>3 DEF ServeKnows, WireConsistent, HeadConsistent, ResizedBy
<1>2. TypeOK /\ ResizeInv /\ [Next]_vars => ResizeInv'
  <2> SUFFICES ASSUME TypeOK, ResizeInv, [Next]_vars, NEW v \in Viewers
               PROVE  (ServeKnows(v) /\ WireConsistent(v) /\ HeadConsistent(v))'
    BY DEF ResizeInv
  <2>1. ServeKnows(v) /\ WireConsistent(v) /\ HeadConsistent(v)
    BY DEF ResizeInv
  <2>2. CASE UpdateFrame \/ SignalChanged \/ UNCHANGED vars
    <3>1. UNCHANGED <<client[v], toClient[v], last[v], sizeOK[v], pc[v]>>
      BY <2>2 DEF UpdateFrame, SignalChanged, vars, serveVars, readerVars, wireVars
    <3> QED
      BY <2>1, <3>1, ResizeFrame
  <2>3. ASSUME NEW u \in Viewers, u # v,
               \/ Connect(u) \/ ServeStep(u) \/ ContextDone(u) \/ ReaderStep(u) \/ ReaderFails(u)
               \/ ClientReceive(u) \/ ClientLeave(u)
        PROVE  (ServeKnows(v) /\ WireConsistent(v) /\ HeadConsistent(v))'
    <3>1. UNCHANGED <<client[v], toClient[v], last[v], sizeOK[v], pc[v]>>
      BY <2>3, OtherViewer
    <3> QED
      BY <2>1, <3>1, ResizeFrame
  <2>4. CASE Connect(v) \/ TakeRequest(v) \/ TakeChanged(v) \/ ReadFrame(v)
    <3>1. /\ UNCHANGED <<client[v], toClient[v], last[v], sizeOK[v]>>
          /\ pc[v] \notin {"off", "init", "f0"} => pc'[v] \notin {"off", "init", "f0"}
      BY <2>4 DEF Connect, TakeRequest, TakeChanged, ReadFrame, TypeOK, readerVars, wireVars
    <3> QED
      BY <2>1, <3>1, ResizeFrame
  <2>5. CASE WriteFails(v) \/ TakeError(v) \/ ContextDone(v) \/ ReaderFails(v) \/ ClientLeave(v)
    <3>1. /\ UNCHANGED <<client[v], toClient[v], last[v], sizeOK[v]>>
          /\ pc[v] \notin {"off", "init", "f0"} => pc'[v] \notin {"off", "init", "f0"}
      BY <2>5 DEF WriteFails, TakeError, ContextDone, ReaderFails, ClientLeave, TypeOK,
                  serveVars, readerVars, wireVars
    <3> QED
      BY <2>1, <3>1, ResizeFrame
  <2>6. CASE ReadMessage(v)
    <3>1. UNCHANGED <<client[v], toClient[v], last[v], pc[v]>> /\ (sizeOK[v] => sizeOK'[v])
      BY <2>6 DEF ReadMessage, TypeOK, serveVars
    <3> QED
      BY <2>1, <3>1, ResizeFrame
  <2>7. CASE ReadF0(v)
    <3>1. UNCHANGED <<client[v], toClient[v], sizeOK[v]>> /\ pc[v] = "f0"
      BY <2>7 DEF ReadF0, readerVars, wireVars
    <3>2. ~ResizedBy(v, Len(toClient[v])) /\ ~ResizedBy(v, Len(toClient[v]))'
      BY <2>1, <3>1 DEF ServeKnows, ResizedBy
    <3>3. WireConsistent(v)' /\ HeadConsistent(v)'
      BY <2>1, <3>1 DEF WireConsistent, HeadConsistent, ResizedBy
    <3> QED
      BY <3>2, <3>3 DEF ServeKnows
  <2>8. CASE SendServerInit(v)
    BY <2>1, <2>8, ResizeServerInit
  <2>9. CASE WriteUpdate(v)
    BY <2>1, <2>9, ResizeWrite
  <2>10. CASE ClientReceive(v)
    BY <2>1, <2>10, ResizeReceive
  <2> QED
    BY <2>2, <2>3, <2>4, <2>5, <2>6, <2>7, <2>8, <2>9, <2>10
       DEF Next, ServeStep, ReaderStep, EndOfStream
<1>3. TypeOK /\ ResizeInv => ResizePrecedesRaw
  <2> SUFFICES ASSUME TypeOK, ResizeInv, NEW v \in Viewers, toClient[v] # <<>>,
                      Head(toClient[v]).type = "raw", client[v].resized
               PROVE  Head(toClient[v]).size = client[v].size
    BY DEF ResizePrecedesRaw
  <2>1. Head(toClient[v]) = toClient[v][1]
    BY WireTail DEF TypeOK
  <2> QED
    BY <2>1 DEF ResizeInv, HeadConsistent
<1> QED
  BY <1>1, <1>2, <1>3, TypeCorrect, PTL DEF Spec

-----------------------------------------------------------------------------
(* A viewer is never left without a request.                               *)

\* A request is on the wire to the server.
RequestSent(v) == \E i \in 1..Len(toServer[v]) : toServer[v][i].type = "request"

\* A viewer that may come to want a request has one queued or sent, or will send it when it
\* has read what is on the wire.  RequestOutstanding alone is not inductive: the reader may
\* consume a message that is no request, and noVNC's first one is not.
RequestInv ==
  \A v \in Viewers :
    pc[v] \in {"f0", "loop"} /\ ~gone[v] =>
      reqc[v] # <<>> \/ toClient[v] # <<>> \/ RequestSent(v)

\* A pass of the loop writes one rect or two.
LEMMA RectsLen ==
  ASSUME NEW v, NEW f
  PROVE  Len(Rects(v, f)) \in {1, 2}
<1>1. CASE NewSize(v, f)
  <2>1. Rects(v, f) = <<DesktopSize(f.size)>> \o <<RawUpdate(f)>>
    BY <1>1, Zenon DEF Rects
  <2> QED
    BY <2>1, TwoRects
<1>2. CASE ~NewSize(v, f)
  <2>1. Rects(v, f) = <<RawUpdate(f)>>
    BY <1>2 DEF Rects
  <2> QED
    BY <2>1
<1> QED
  BY <1>1, <1>2

\* The last element of the two forms of an answer.
LEMMA LastOfAnswer ==
  ASSUME NEW a, NEW b
  PROVE  /\ Len(<<a>>) = 1 /\ <<a>>[1] = a
         /\ Len(<<a, b>>) = 2 /\ <<a, b>>[2] = b
OBVIOUS

\* Whatever noVNC answers, it asks for the next update.
LEMMA ReplyAsks ==
  ASSUME TypeOK, NEW v \in Viewers, ClientReceive(v)
  PROVE  RequestSent(v)'
<1> DEFINE m == Head(toClient[v])
<1>1. m \in ServerMessage /\ toServer[v] \in Seq(ClientMessage)
  BY DEF ClientReceive, TypeOK
<1>2. PICK s \in Seq(ClientMessage), r \in Seq(ClientMessage) : s = toServer[v] /\ r = Reply(m)
  BY <1>1, ReplyType
<1>3. Len(r) \in {1, 2} /\ r[Len(r)].type = "request"
  <2>1. UpdateRequest(TRUE).type = "request" /\ UpdateRequest(FALSE).type = "request"
    BY DEF UpdateRequest
  <2>2. CASE m.type = "init"
    <3>1. r = <<SetEncodings, UpdateRequest(FALSE)>>
      BY <1>2, <2>2 DEF Reply
    <3>2. Len(r) = 2 /\ r[2] = UpdateRequest(FALSE)
      BY <3>1, LastOfAnswer
    <3> QED
      BY <2>1, <3>2
  <2>3. CASE m.type # "init"
    <3>1. r = <<UpdateRequest(TRUE)>>
      BY <1>2, <2>3 DEF Reply
    <3>2. Len(r) = 1 /\ r[1] = UpdateRequest(TRUE)
      BY <3>1, LastOfAnswer
    <3> QED
      BY <2>1, <3>2
  <2> QED
    BY <2>2, <2>3
<1>4. toServer'[v] = s \o r
  BY <1>2 DEF ClientReceive, TypeOK
<1>5. PICK n \in Nat, k \in {1, 2} : n = Len(s) /\ k = Len(r)
  BY <1>3
<1>6. k \in 1..k /\ n + k \in 1..(n + k)
  OBVIOUS
<1>7. Len(s \o r) = n + k /\ (s \o r)[n + k] = r[k]
  BY <1>5, <1>6, WireAfter
<1> QED
  BY <1>3, <1>4, <1>5, <1>6, <1>7 DEF RequestSent

\* A viewer that is connected and idle has a request queued or under way, or an update on
\* the wire that will make it send one: coalescing in reqc drops no viewer's turn.
THEOREM RequestSafety == Spec => []RequestOutstanding
<1>1. Init => RequestInv
  BY DEF Init, RequestInv
<1>2. TypeOK /\ RequestInv /\ [Next]_vars => RequestInv'
  <2> SUFFICES ASSUME TypeOK, RequestInv, [Next]_vars, NEW v \in Viewers,
                      pc'[v] \in {"f0", "loop"}, ~gone'[v]
               PROVE  reqc'[v] # <<>> \/ toClient'[v] # <<>> \/ RequestSent(v)'
    BY DEF RequestInv
  <2>1. ASSUME UNCHANGED <<pc[v], reqc[v], gone[v], toServer[v], toClient[v]>>
        PROVE  reqc'[v] # <<>> \/ toClient'[v] # <<>> \/ RequestSent(v)'
    BY <2>1 DEF RequestInv, RequestSent
  <2>2. CASE UpdateFrame \/ SignalChanged \/ UNCHANGED vars
    BY <2>1, <2>2 DEF UpdateFrame, SignalChanged, vars, serveVars, readerVars, wireVars
  <2>3. ASSUME NEW u \in Viewers, u # v,
               \/ Connect(u) \/ ServeStep(u) \/ ContextDone(u) \/ ReaderStep(u) \/ ReaderFails(u)
               \/ ClientReceive(u) \/ ClientLeave(u)
        PROVE  reqc'[v] # <<>> \/ toClient'[v] # <<>> \/ RequestSent(v)'
    BY <2>1, <2>3, OtherViewer
  <2>4. CASE Connect(v) \/ TakeRequest(v) \/ TakeChanged(v) \/ ReadFrame(v)
             \/ WriteFails(v) \/ TakeError(v) \/ ContextDone(v)
    <3>1. pc'[v] \notin {"f0", "loop"}
      BY <2>4 DEF Connect, TakeRequest, TakeChanged, ReadFrame, WriteFails, TakeError,
                  ContextDone, TypeOK
    <3> QED
      BY <3>1
  <2>5. CASE SendServerInit(v)
    <3>1. toClient'[v] = Append(toClient[v], ServerInit(frame.size))
      BY <2>5 DEF SendServerInit, TypeOK
    <3>2. PICK n \in Nat : n = Len(toClient[v])
      BY DEF TypeOK
    <3>3. Len(toClient'[v]) = n + 1
      BY <3>1, <3>2 DEF TypeOK
    <3> QED
      BY <3>3
  <2>6. CASE ReadF0(v)
    <3>1. pc[v] = "f0" /\ UNCHANGED <<reqc[v], gone[v], toServer[v], toClient[v]>>
      BY <2>6 DEF ReadF0, readerVars, wireVars
    <3> QED
      BY <3>1 DEF RequestInv, RequestSent
  <2>7. CASE WriteUpdate(v)
    <3>1. PICK s \in Seq(ServerMessage), r \in Seq(ServerMessage) :
            s = toClient[v] /\ r = Rects(v, cur[v])
      BY RectsType DEF TypeOK
    <3>2. toClient'[v] = s \o r
      BY <2>7, <3>1 DEF WriteUpdate, TypeOK
    <3>3. Len(r) \in {1, 2}
      BY <3>1, RectsLen
    <3>4. s \o r # <<>>
      <4>1. PICK n \in Nat, k \in {1, 2} : n = Len(s) /\ k = Len(r)
        BY <3>3
      <4>2. Len(s \o r) = n + k
        BY <4>1, WireAfter
      <4> QED
        BY <4>2
    <3> QED
      BY <3>2, <3>4
  <2>8. CASE ReadMessage(v)
    <3>1. PICK s \in Seq(ClientMessage) : s = toServer[v] /\ s # <<>>
      BY <2>8 DEF ReadMessage, TypeOK
    <3>2. toServer'[v] = Tail(s) /\ UNCHANGED <<pc[v], gone[v], toClient[v]>>
      BY <2>8, <3>1 DEF ReadMessage, TypeOK, serveVars
    <3>3. CASE Head(s).type = "request"
      <4>1. reqc'[v] = CoalesceRequest(reqc[v], Head(s).incremental)
        BY <2>8, <3>1, <3>3 DEF ReadMessage, TypeOK
      <4>2. reqc'[v] # <<>>
        BY <4>1 DEF CoalesceRequest
      <4> QED
        BY <4>2
    <3>4. CASE Head(s).type # "request"
      <4>1. reqc'[v] = reqc[v]
        BY <2>8, <3>1, <3>4 DEF ReadMessage
      <4>2. ASSUME RequestSent(v) PROVE RequestSent(v)'
        <5>1. PICK i \in 1..Len(s) : s[i].type = "request"
          BY <3>1, <4>2 DEF RequestSent
        <5>2. Head(s) = s[1] /\ Len(s) \in Nat \ {0} /\ Len(Tail(s)) = Len(s) - 1
          BY <3>1, WireTail
        <5>3. i # 1
          BY <3>4, <5>1, <5>2
        <5>4. PICK k \in Nat : k = i - 1
          BY <5>2, <5>3
        <5>5. k \in 1..(Len(s) - 1) /\ k + 1 = i
          BY <5>2, <5>3, <5>4
        <5>6. Tail(s)[k] = s[i]
          BY <3>1, <5>5, WireTail
        <5> QED
          BY <3>2, <5>1, <5>2, <5>5, <5>6 DEF RequestSent
      <4> QED
        BY <3>2, <4>1, <4>2 DEF RequestInv
    <3> QED
      BY <3>3, <3>4
  <2>9. CASE ReaderFails(v)
    BY <2>1, <2>9 DEF ReaderFails, serveVars, wireVars
  <2>10. CASE ClientReceive(v)
    BY <2>10, ReplyAsks
  <2>11. CASE ClientLeave(v)
    BY <2>11 DEF ClientLeave, TypeOK
  <2> QED
    BY <2>2, <2>3, <2>4, <2>5, <2>6, <2>7, <2>8, <2>9, <2>10, <2>11
       DEF Next, ServeStep, ReaderStep, EndOfStream
<1>3. RequestInv => RequestOutstanding
  BY DEF RequestInv, RequestOutstanding, RequestSent
<1> QED
  BY <1>1, <1>2, <1>3, TypeCorrect, PTL DEF Spec

=============================================================================
