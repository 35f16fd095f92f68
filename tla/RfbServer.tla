------------------------------ MODULE RfbServer ------------------------------
(***************************************************************************)
(* The screen path of the bridge: rfb.FrameSource (one producer, the KVM   *)
(* read loop) and rfb.Serve (one goroutine and one reader goroutine per    *)
(* viewer), with the noVNC client that drives it.                          *)
(*                                                                         *)
(* A frame is its size and a version number: 0 is the placeholder that     *)
(* NewFrameSource installs, and every Update produces the next version.    *)
(* The pixels are abstracted to the version.  Each viewer is one           *)
(* WebSocket connection; a page reload is the end of one viewer and the    *)
(* start of another.  Both directions of a connection are FIFO (TCP).      *)
(***************************************************************************)
EXTENDS Naturals, Sequences

CONSTANTS
  Viewers,      \* the RFB connections opened during a behaviour
  Sizes,        \* the screen resolutions (W x H) of the host
  Placeholder,  \* the resolution of NewFrameSource's black placeholder
  MaxUpdates    \* bound on the number of frames the KVM client decodes

ASSUME SizesAssumption == Placeholder \in Sizes
ASSUME UpdatesAssumption == MaxUpdates \in Nat

VARIABLES
  frame,     \* FrameSource.frame: [size, ver]
  changed,   \* the cap-1 channel FrameSource.changed holds a token
  updating,  \* Update has released mu and not yet signalled
  pc,        \* where each viewer's Serve goroutine is
  last,      \* lastW, lastH of each Serve
  cur,       \* the frame f a Serve has taken from src.Frame() and not yet written
  sizeOK,    \* desktopSizeOK
  reqc,      \* the cap-1 channel reqc: at most one pending request (its incremental flag)
  errc,      \* the reader goroutine has pushed its error and ended
  gone,      \* the client has closed its end
  toServer,  \* client messages on the wire
  toClient,  \* server messages on the wire
  client     \* what noVNC shows: [size, ver, resized]

srcVars == <<frame, changed, updating>>
serveVars == <<pc, last, cur>>
readerVars == <<sizeOK, reqc, errc>>
wireVars == <<gone, toServer, toClient, client>>
vars == <<srcVars, serveVars, readerVars, wireVars>>

Versions == 0..MaxUpdates
Frame == [size : Sizes, ver : Versions]
ServerMessage == [type : {"init", "resize", "raw"}, size : Sizes, ver : Versions]
ClientMessage == [type : {"encodings", "request"}, incremental : BOOLEAN]

NewFrameSource == [size |-> Placeholder, ver |-> 0]

SetEncodings == [type |-> "encodings", incremental |-> FALSE]
UpdateRequest(inc) == [type |-> "request", incremental |-> inc]
ServerInit(s) == [type |-> "init", size |-> s, ver |-> 0]
DesktopSize(s) == [type |-> "resize", size |-> s, ver |-> 0]
RawUpdate(f) == [type |-> "raw", size |-> f.size, ver |-> f.ver]

Serving == {"loop", "wait", "read", "write"}

Init ==
  /\ frame = NewFrameSource
  /\ changed = FALSE
  /\ updating = FALSE
  /\ pc = [v \in Viewers |-> "off"]
  /\ last = [v \in Viewers |-> Placeholder]
  /\ cur = [v \in Viewers |-> NewFrameSource]
  /\ sizeOK = [v \in Viewers |-> FALSE]
  /\ reqc = [v \in Viewers |-> <<>>]
  /\ errc = [v \in Viewers |-> FALSE]
  /\ gone = [v \in Viewers |-> FALSE]
  /\ toServer = [v \in Viewers |-> <<>>]
  /\ toClient = [v \in Viewers |-> <<>>]
  /\ client = [v \in Viewers |-> [size |-> Placeholder, ver |-> 0, resized |-> FALSE]]

-----------------------------------------------------------------------------
(* FrameSource.Update, called by the KVM read loop for every decoded frame. *)

\* The frame is swapped under mu.  Frames with bad dimensions return early and
\* change nothing.
UpdateFrame ==
  /\ ~updating
  /\ frame.ver < MaxUpdates
  /\ \E s \in Sizes : frame' = [size |-> s, ver |-> frame.ver + 1]
  /\ updating' = TRUE
  /\ UNCHANGED <<changed, serveVars, readerVars, wireVars>>

\* Mutant: an unbuffered channel, whose non-blocking send needs a waiting receiver.
SignalUnbuffered ==
  /\ updating
  /\ changed' = (\E v \in Viewers : pc[v] = "wait")
  /\ updating' = FALSE
  /\ UNCHANGED <<frame, serveVars, readerVars, wireVars>>

\* The non-blocking send on the cap-1 channel: a pending token absorbs the new one.
SignalChanged ==
  /\ updating
  /\ changed' = TRUE
  /\ updating' = FALSE
  /\ UNCHANGED <<frame, serveVars, readerVars, wireVars>>

-----------------------------------------------------------------------------
(* Serve: handshake, then the request loop.                                *)

\* A new connection; the exchange up to ClientInit carries no state of interest.
Connect(v) ==
  /\ pc[v] = "off"
  /\ pc' = [pc EXCEPT ![v] = "init"]
  /\ UNCHANGED <<srcVars, last, cur, readerVars, wireVars>>

\* The tail of handshake: ServerInit advertises the size of the frame it reads.
SendServerInit(v) ==
  /\ pc[v] = "init"
  /\ toClient' = [toClient EXCEPT ![v] = Append(@, ServerInit(frame.size))]
  /\ pc' = [pc EXCEPT ![v] = "f0"]
  /\ UNCHANGED <<srcVars, last, cur, readerVars, gone, toServer, client>>

\* f0 := src.Frame(), a second read of the source; then the reader starts.
ReadF0(v) ==
  /\ pc[v] = "f0"
  /\ last' = [last EXCEPT ![v] = frame.size]
  /\ pc' = [pc EXCEPT ![v] = "loop"]
  /\ UNCHANGED <<srcVars, cur, readerVars, wireVars>>

\* The outer select takes a request; an incremental one waits for a change.
TakeRequest(v) ==
  /\ pc[v] = "loop"
  /\ reqc[v] # <<>>
  /\ pc' = [pc EXCEPT ![v] = IF Head(reqc[v]) THEN "wait" ELSE "read"]
  /\ reqc' = [reqc EXCEPT ![v] = Tail(@)]
  /\ UNCHANGED <<srcVars, last, cur, sizeOK, errc, wireVars>>

\* The inner select takes the token of src.Changed().
TakeChanged(v) ==
  /\ pc[v] = "wait"
  /\ changed
  /\ changed' = FALSE
  /\ pc' = [pc EXCEPT ![v] = "read"]
  /\ UNCHANGED <<frame, updating, last, cur, readerVars, wireVars>>

\* f := src.Frame()
ReadFrame(v) ==
  /\ pc[v] = "read"
  /\ cur' = [cur EXCEPT ![v] = frame]
  /\ pc' = [pc EXCEPT ![v] = "write"]
  /\ UNCHANGED <<srcVars, last, readerVars, wireVars>>

NewSize(v, f) == f.size # last[v] /\ sizeOK[v]

\* Mutants: DesktopSize after the Raw rect; DesktopSize in place of the Raw rect.
RectsRawFirst(v, f) ==
  <<RawUpdate(f)>> \o (IF NewSize(v, f) THEN <<DesktopSize(f.size)>> ELSE <<>>)
RectsResizeOnly(v, f) ==
  IF NewSize(v, f) THEN <<DesktopSize(f.size)>> ELSE <<RawUpdate(f)>>

\* The rects one pass of the loop writes for frame f: DesktopSize first when the size
\* differs from the last one and the client can take it.
Rects(v, f) ==
  (IF NewSize(v, f) THEN <<DesktopSize(f.size)>> ELSE <<>>) \o <<RawUpdate(f)>>

WriteUpdate(v) ==
  /\ pc[v] = "write"
  /\ toClient' = [toClient EXCEPT ![v] = @ \o Rects(v, cur[v])]
  /\ last' = [last EXCEPT ![v] = cur[v].size]
  /\ pc' = [pc EXCEPT ![v] = "loop"]
  /\ UNCHANGED <<srcVars, cur, readerVars, gone, toServer, client>>

\* A write on a connection whose peer has left fails, and Serve returns the error.
WriteFails(v) ==
  /\ pc[v] \in {"init", "write"}
  /\ gone[v]
  /\ pc' = [pc EXCEPT ![v] = "closed"]
  /\ UNCHANGED <<srcVars, last, cur, readerVars, wireVars>>

\* Either select finds the reader's error and returns it.
TakeError(v) ==
  /\ pc[v] \in {"loop", "wait"}
  /\ errc[v]
  /\ pc' = [pc EXCEPT ![v] = "closed"]
  /\ UNCHANGED <<srcVars, last, cur, readerVars, wireVars>>

\* Either select finds ctx.Done(), whoever cancels it.
ContextDone(v) ==
  /\ pc[v] \in {"loop", "wait"}
  /\ pc' = [pc EXCEPT ![v] = "closed"]
  /\ UNCHANGED <<srcVars, last, cur, readerVars, wireVars>>

-----------------------------------------------------------------------------
(* readMessages, the reader goroutine.  Key, pointer and cut-text messages  *)
(* go to the sink and leave this state alone.                               *)

\* Mutants: an unbounded request queue; a second request that cancels the first.
QueueRequest(q, inc) == Append(q, inc)
CancelRequest(q, inc) == IF q = <<>> THEN <<inc>> ELSE <<>>

\* The non-blocking send on reqc: a pending request absorbs the new one.
CoalesceRequest(q, inc) == IF q = <<>> THEN <<inc>> ELSE q

ReadMessage(v) ==
  /\ pc[v] \in Serving
  /\ ~errc[v]
  /\ toServer[v] # <<>>
  /\ LET m == Head(toServer[v]) IN
       \/ /\ m.type = "encodings"
          /\ sizeOK' = [sizeOK EXCEPT ![v] = TRUE]
          /\ UNCHANGED reqc
       \/ /\ m.type = "request"
          /\ reqc' = [reqc EXCEPT ![v] = CoalesceRequest(@, m.incremental)]
          /\ UNCHANGED sizeOK
  /\ toServer' = [toServer EXCEPT ![v] = Tail(@)]
  /\ UNCHANGED <<srcVars, serveVars, errc, gone, toClient, client>>

\* The error goes to errc and the reader ends.
ReaderFails(v) ==
  /\ pc[v] \in Serving
  /\ ~errc[v]
  /\ errc' = [errc EXCEPT ![v] = TRUE]
  /\ UNCHANGED <<srcVars, serveVars, sizeOK, reqc, wireVars>>

\* The client has closed its end, and all it sent is read.
EndOfStream(v) == gone[v] /\ toServer[v] = <<>> /\ ReaderFails(v)

-----------------------------------------------------------------------------
(* noVNC (external): it answers ServerInit with its encodings and a full    *)
(* request, and every FramebufferUpdate message with an incremental one.    *)

Reply(m) ==
  IF m.type = "init"
  THEN <<SetEncodings, UpdateRequest(FALSE)>>
  ELSE <<UpdateRequest(TRUE)>>

Shown(c, m) ==
  [size    |-> IF m.type = "raw" THEN c.size ELSE m.size,
   ver     |-> IF m.type = "raw" THEN m.ver ELSE c.ver,
   resized |-> c.resized \/ m.type = "resize"]

ClientReceive(v) ==
  /\ ~gone[v]
  /\ toClient[v] # <<>>
  /\ client' = [client EXCEPT ![v] = Shown(@, Head(toClient[v]))]
  /\ toServer' = [toServer EXCEPT ![v] = @ \o Reply(Head(toClient[v]))]
  /\ toClient' = [toClient EXCEPT ![v] = Tail(@)]
  /\ UNCHANGED <<srcVars, serveVars, readerVars, gone>>

\* The tab is closed or reloaded.
ClientLeave(v) ==
  /\ pc[v] \notin {"off", "closed"}
  /\ ~gone[v]
  /\ gone' = [gone EXCEPT ![v] = TRUE]
  /\ UNCHANGED <<srcVars, serveVars, readerVars, toServer, toClient, client>>

-----------------------------------------------------------------------------
ServeStep(v) ==
  \/ SendServerInit(v)
  \/ ReadF0(v)
  \/ TakeRequest(v)
  \/ TakeChanged(v)
  \/ ReadFrame(v)
  \/ WriteUpdate(v)
  \/ WriteFails(v)
  \/ TakeError(v)

ReaderStep(v) == ReadMessage(v) \/ EndOfStream(v)

Next ==
  \/ UpdateFrame
  \/ SignalChanged
  \/ \E v \in Viewers :
       \/ Connect(v)
       \/ ServeStep(v)
       \/ ContextDone(v)
       \/ ReaderStep(v)
       \/ ReaderFails(v)  \* an unknown message, or the connection breaks
       \/ ClientReceive(v)
       \/ ClientLeave(v)

Spec == Init /\ [][Next]_vars

\* The goroutines and the browser's event loop keep running; nobody is obliged to
\* connect, to leave, to shut the bridge down or to draw on the host screen.
Fairness ==
  /\ WF_vars(SignalChanged)
  /\ \A v \in Viewers :
       /\ WF_vars(ServeStep(v))
       /\ WF_vars(ReaderStep(v))
       /\ WF_vars(ClientReceive(v))

FairSpec == Spec /\ Fairness

-----------------------------------------------------------------------------
(* Properties.                                                             *)

\* Every variable keeps its type; the cap-1 channel reqc never holds two requests.
TypeOK ==
  /\ frame \in Frame
  /\ changed \in BOOLEAN
  /\ updating \in BOOLEAN
  /\ pc \in [Viewers -> {"off", "init", "f0", "loop", "wait", "read", "write", "closed"}]
  /\ last \in [Viewers -> Sizes]
  /\ cur \in [Viewers -> Frame]
  /\ sizeOK \in [Viewers -> BOOLEAN]
  /\ reqc \in [Viewers -> {<<>>, <<TRUE>>, <<FALSE>>}]
  /\ errc \in [Viewers -> BOOLEAN]
  /\ gone \in [Viewers -> BOOLEAN]
  /\ toServer \in [Viewers -> Seq(ClientMessage)]
  /\ toClient \in [Viewers -> Seq(ServerMessage)]
  /\ client \in [Viewers -> [size : Sizes, ver : Versions, resized : BOOLEAN]]

\* The coalescing signal of FrameSource is never lost: while the newest frame has been
\* taken by no Serve goroutine, the token is in the channel, Update is about to put it
\* there, or some Serve has consumed it and is about to call src.Frame().
NoLostWakeup ==
  \/ changed
  \/ updating
  \/ frame.ver = 0
  \/ \E v \in Viewers : pc[v] = "read" \/ cur[v].ver = frame.ver

\* Once a viewer has been sent a DesktopSize rect, every Raw rect that reaches it has the
\* size it was told last: DesktopSize precedes the first Raw rect of a new size.
ResizePrecedesRaw ==
  \A v \in Viewers :
    toClient[v] # <<>> /\ Head(toClient[v]).type = "raw" /\ client[v].resized
      => Head(toClient[v]).size = client[v].size

\* reqc coalesces requests, yet a viewer is never left without one: its goroutine is busy
\* serving, a request is queued or on the wire, or an update that will cause one is.
RequestOutstanding ==
  \A v \in Viewers :
    pc[v] = "loop" /\ ~gone[v] =>
      \/ reqc[v] # <<>>
      \/ toServer[v] # <<>>
      \/ toClient[v] # <<>>

\* A viewer that stays connected shows every new frame or a newer one: an incremental
\* request blocks only "until the framebuffer changes".
CatchesUp ==
  \A v \in Viewers : \A n \in Versions :
    (pc[v] \in Serving /\ frame.ver = n)
      ~> (client[v].ver >= n \/ pc[v] = "closed" \/ gone[v])

=============================================================================
