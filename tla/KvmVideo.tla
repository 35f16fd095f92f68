------------------------------- MODULE KvmVideo -------------------------------
(***************************************************************************)
(* One KVM video connection: the IVTP handshake of Connect, and Run with   *)
(* its two goroutines, readLoop, which puts fragments together into frames *)
(* and has them decoded, and keepAlive.  The BMC is external: it follows   *)
(* the handshake, streams the screen of the host as full and delta frames, *)
(* gives up on a frame when the video mode changes, and may reject the     *)
(* session, fall silent or close the socket at any time.                   *)
(***************************************************************************)
EXTENDS VideoDecoder, FiniteSets

CONSTANTS
  Modes,         \* video modes of the host: [w, h, mode420, parts], the last the
                 \* number of fragments a full frame takes
  MaxFrames,     \* frames the card sends
  MaxFrameParts, \* fragments that fit into maxFrameBytes
  MaxNoise,      \* other messages the card sends
  Window         \* messages on the wire

ASSUME VideoAssumption ==
  /\ MaxFrames \in Nat /\ MaxNoise \in Nat /\ Window \in Nat \ {0}
  /\ MaxFrameParts \in Nat /\ \A m \in Modes : m.parts \in Nat \ {0}

\* Accepted screens that come in 4:2:0 are whole tiles wide, as the offsets of
\* other widths show something else (convertYUVtoRGB), and have nothing in the
\* half of the last row that is cut.
ASSUME ModesAssumption ==
  \A m \in Modes : Accepted(m) =>
    /\ m.mode420 \in BOOLEAN
    /\ m.mode420 => m.w % TileSize(m) = 0
    /\ m.mode420 /\ Height(m) = HalfRow.height => m.h <= HalfRow.ty * TileSize(m) + T

VARIABLES
  card,     \* its side of the session: "connected", "accepted", "complete",
            \* "answered", "streaming"
  gone,     \* the card has closed the socket
  frames,   \* the frames encoded so far: their mode and blocks, and the
            \* screen they are to show
  sending,  \* fragments of the last of them that are already on the wire
  noise,    \* other messages sent, before the first frame or since the last began
  net,      \* messages on their way to the client
  toCard,   \* and to the card
  client,   \* Connect and Run: "handshake", "failed", "connected", "running", "returned"
  conn,     \* the client's socket: "open", "closed"
  ctxDone,  \* the context is cancelled
  reading,  \* readLoop: "off", "reading", "decoding", "reporting", "ended"
  errc,     \* results waiting in Run's channel
  keeping,  \* keepAlive: "off", "waiting", "ended"
  frame,    \* the fragments collected
  handed,   \* the fragments last given to handleFrame
  decoder,  \* see VideoDecoder
  todo,     \* blocks of that frame still to be decoded
  shown     \* the last picture given to OnFrame

cardVars == <<card, gone, frames, sending, noise>>
runVars == <<client, conn, ctxDone, errc, keeping>>
loopVars == <<reading, frame, handed, decoder, todo, shown>>
vars == <<cardVars, net, toCard, runVars, loopVars>>

Init ==
  /\ card = "connected" /\ gone = FALSE /\ frames = <<>> /\ sending = 0 /\ noise = 0
  /\ net = <<>> /\ toCard = <<>>
  /\ client = "handshake" /\ conn = "open" /\ ctxDone = FALSE
  /\ reading = "off" /\ errc = 0 /\ keeping = "off"
  /\ frame = <<>> /\ handed = <<>> /\ decoder = NewDecoder /\ todo = <<>>
  /\ shown = [id |-> 0, pix |-> <<>>]

-----------------------------------------------------------------------------
(* The card.                                                               *)

\* Nothing reaches a socket the client has closed.
Put(m) == conn = "open" /\ Len(net) < Window /\ net' = Append(net, m)

\* On connect it sends SESSION_ACCEPTED.
CardAccepts ==
  /\ ~gone /\ card = "connected"
  /\ card' = "accepted"
  /\ Put([type |-> "accepted"])
  /\ UNCHANGED <<gone, frames, sending, noise, toCard, runVars, loopVars>>

\* Requests: CONNECTION_COMPLETE has to precede the validation, which is
\* answered, or the session is stopped for want of a slot; RESUME starts the
\* stream.  The rest changes nothing.
CardTakes ==
  /\ ~gone /\ toCard # <<>>
  /\ toCard' = Tail(toCard)
  /\ CASE Head(toCard) = "complete" /\ card = "accepted" -> card' = "complete" /\ UNCHANGED net
       [] Head(toCard) = "validate" ->
            /\ card' = "answered"
            /\ \/ Put([type |-> "response", status |-> IF card = "complete" THEN 1 ELSE 3])
               \/ Put([type |-> "stop"])
       [] Head(toCard) = "resume" -> card' = "streaming" /\ UNCHANGED net
       [] OTHER -> UNCHANGED <<card, net>>
  /\ UNCHANGED <<gone, frames, sending, noise, runVars, loopVars>>

Latest == frames[Len(frames)]

\* LED, power and media states during the handshake; and between the fragments
\* of a frame, the one place where the client has something to lose by them,
\* or a fragment without a number.
CardNoise ==
  /\ ~gone /\ noise < MaxNoise
  /\ noise' = noise + 1
  /\ \/ card # "streaming" /\ Put([type |-> "other"])
     \/ /\ card = "streaming" /\ frames # <<>>
        /\ sending \in 1 .. Latest.parts - 1
        /\ \E t \in {"other", "empty"} : Put([type |-> t])
  /\ UNCHANGED <<card, gone, frames, sending, toCard, runVars, loopVars>>

Tiles(m) == (0 .. Width(m) \div TileSize(m) - 1) \X (0 .. Height(m) \div TileSize(m) - 1)

\* The screen after block b: what the tile of the mode covers of it.
Encoded(m, pix, b) ==
  LET s == TileSize(m)
      In(p) == p[1] \div s = b.tx /\ p[2] \div s = b.ty
      at(p) == <<b.val, p[2] % s, p[1] % s>>
  IN [p \in DOMAIN pix |-> IF ~In(p) THEN pix[p]
                           ELSE IF b.pass2 THEN [pix[p] EXCEPT !.delta = at(p)]
                           ELSE [base |-> at(p), delta |-> None]]

NewFrame(m, pix, blocks, parts) ==
  /\ frames' = Append(frames, [mode |-> m, blocks |-> blocks, parts |-> parts, screen |-> pix])
  /\ sending' = 0 /\ noise' = 0
  /\ UNCHANGED <<card, gone, net, toCard, runVars, loopVars>>

Streaming == ~gone /\ conn = "open" /\ card = "streaming"

\* The mode is set, at the start or anew: every tile is sent, and a frame of
\* the old mode is not finished.
CardFullFrame ==
  /\ Streaming /\ Len(frames) < MaxFrames
  /\ \E m \in Modes :
       LET s == TileSize(m)
           cols == Width(m) \div s
           Block(i) == [tx |-> (i - 1) % cols, ty |-> (i - 1) \div cols, pass2 |-> FALSE,
                        val |-> <<Len(frames) + 1, i>>]
           Pixel(x, y) == [base |-> <<Block((y \div s) * cols + x \div s + 1).val, y % s, x % s>>,
                           delta |-> None]
       IN /\ frames # <<>> => Latest.mode # m
          /\ NewFrame(m, [p \in (0 .. m.w - 1) \X (0 .. m.h - 1) |-> Pixel(p[1], p[2])],
                      [i \in 1 .. cols * (Height(m) \div s) |-> Block(i)], m.parts)

\* A tile has changed, or is refined: only it is sent.
CardDelta ==
  /\ Streaming /\ frames # <<>> /\ sending = Latest.parts /\ Len(frames) < MaxFrames
  /\ \E t \in Tiles(Latest.mode), again \in BOOLEAN :
       LET b == [tx |-> t[1], ty |-> t[2], pass2 |-> again, val |-> <<Len(frames) + 1, 0>>] IN
       /\ again => ~Latest.mode.mode420
       /\ NewFrame(Latest.mode, Encoded(Latest.mode, Latest.screen, b), <<b>>, 1)

\* The next fragment; the last one carries the flag.
CardSends ==
  /\ Streaming /\ frames # <<>> /\ sending < Latest.parts
  /\ Put([type |-> "fragment", id |-> Len(frames), num |-> sending, last |-> sending + 1 = Latest.parts])
  /\ sending' = sending + 1
  /\ UNCHANGED <<card, gone, frames, noise, toCard, runVars, loopVars>>

CardCloses ==
  /\ ~gone /\ conn = "open"
  /\ gone' = TRUE
  /\ UNCHANGED <<card, frames, sending, noise, net, toCard, runVars, loopVars>>

-----------------------------------------------------------------------------
(* Connect: the handshake, under the deadline of dialTimeout.              *)

\* Mutant: the validation goes out before the completion of the connection.
OpeningSwapped == <<"validate", "complete">>

Opening == <<"complete", "validate">>

Arrives(type) == net # <<>> /\ Head(net).type = type /\ net' = Tail(net)

\* A write to a socket the card has closed is lost, or fails.
Send(msgs) == toCard' = IF gone THEN toCard ELSE toCard \o msgs

HandshakeAccepted ==
  /\ client = "handshake" /\ Arrives("accepted")
  /\ Send(Opening)
  /\ UNCHANGED <<cardVars, runVars, loopVars>>

HandshakeValid ==
  /\ client = "handshake" /\ net # <<>> /\ Head(net).type = "response" /\ Head(net).status = 1
  /\ net' = Tail(net)
  /\ Send(<<"resume">>)
  /\ client' = "connected"
  /\ UNCHANGED <<cardVars, conn, ctxDone, errc, keeping, loopVars>>

HandshakeOther ==
  /\ client = "handshake" /\ Arrives("other")
  /\ UNCHANGED <<cardVars, toCard, runVars, loopVars>>

Fail ==
  /\ client' = "failed" /\ conn' = "closed"
  /\ UNCHANGED <<cardVars, toCard, ctxDone, errc, keeping, loopVars>>

HandshakeRefused ==
  /\ client = "handshake" /\ net # <<>>
  /\ Head(net).type = "stop" \/ (Head(net).type = "response" /\ Head(net).status # 1)
  /\ net' = Tail(net) /\ Fail

\* A read or write fails: the card has closed the socket, or the deadline is over.
HandshakeFails == client = "handshake" /\ gone /\ net = <<>> /\ UNCHANGED net /\ Fail

HandshakeTimeout == client = "handshake" /\ UNCHANGED net /\ Fail

-----------------------------------------------------------------------------
(* Run.                                                                    *)

StartRun ==
  /\ client = "connected"
  /\ client' = "running" /\ reading' = "reading" /\ keeping' = "waiting"
  /\ UNCHANGED <<cardVars, net, toCard, conn, ctxDone, errc, frame, handed, decoder, todo, shown>>

Cancel ==
  /\ ~ctxDone /\ client \in {"connected", "running"}
  /\ ctxDone' = TRUE
  /\ UNCHANGED <<cardVars, net, toCard, client, conn, errc, keeping, loopVars>>

\* The select of Run, and the socket part of the deferred Close.
RunReturns ==
  /\ client = "running" /\ (ctxDone \/ errc > 0)
  /\ client' = "returned" /\ conn' = "closed"
  /\ errc' = IF errc > 0 /\ ~ctxDone THEN errc - 1 ELSE errc
  /\ UNCHANGED <<cardVars, net, toCard, ctxDone, keeping, loopVars>>

\* keepAlive sends on every tick, which changes nothing here, and ends when
\* the context is done or a write fails.
KeepAliveEnds ==
  /\ keeping = "waiting" /\ (ctxDone \/ conn = "closed" \/ gone)
  /\ keeping' = "ended"
  /\ UNCHANGED <<cardVars, net, toCard, client, conn, ctxDone, errc, loopVars>>

-----------------------------------------------------------------------------
(* readLoop.  Messages the buffered reader already holds are still read    *)
(* after the socket is closed.                                             *)

ReadOther ==
  /\ reading = "reading" /\ (Arrives("other") \/ Arrives("empty"))
  /\ UNCHANGED <<cardVars, toCard, runVars, loopVars>>

\* Mutant: a new frame is appended to what is left of the one before.
KeepOld(m) == frame

\* What the buffer holds before fragment m: the first of a frame empties it.
Before(m) == IF m.num = 0 THEN <<>> ELSE frame

\* handleFrame: a frame that is refused is dropped; otherwise decode starts.
BeginDecode(parts) ==
  LET f == frames[parts[1].id] IN
  /\ handed' = parts
  /\ IF Accepted(f.mode)
     THEN reading' = "decoding" /\ todo' = f.blocks /\ decoder' = ensureBuffers(decoder, f.mode)
     ELSE UNCHANGED <<reading, todo, decoder>>

ReadFragment ==
  /\ reading = "reading" /\ Arrives("fragment")
  /\ LET m == Head(net)
         all == Append(Before(m), [id |-> m.id, num |-> m.num])
     IN IF Len(all) > MaxFrameParts
        THEN /\ reading' = "reporting" /\ frame' = Before(m)
             /\ UNCHANGED <<handed, decoder, todo>>
        ELSE /\ frame' = IF m.last THEN <<>> ELSE all
             /\ IF m.last THEN BeginDecode(all) ELSE UNCHANGED <<reading, handed, decoder, todo>>
  /\ UNCHANGED <<cardVars, toCard, runVars, shown>>

\* The blocks are decoded one after the other.
DecodeBlock ==
  /\ reading = "decoding" /\ todo # <<>>
  /\ decoder' = DrawBlock(decoder, frames[handed[1].id].mode, Head(todo))
  /\ todo' = Tail(todo)
  /\ UNCHANGED <<cardVars, net, toCard, runVars, reading, frame, handed, shown>>

\* The rest of Decode, and OnFrame.
ShowFrame ==
  /\ reading = "decoding" /\ todo = <<>>
  /\ shown' = [id |-> handed[1].id, pix |-> Picture(decoder, frames[handed[1].id].mode)]
  /\ reading' = "reading"
  /\ UNCHANGED <<cardVars, net, toCard, runVars, frame, handed, decoder, todo>>

ReadFails ==
  /\ reading = "reading" /\ (conn = "closed" \/ (gone /\ net = <<>>))
  /\ reading' = "reporting"
  /\ UNCHANGED <<cardVars, net, toCard, runVars, frame, handed, decoder, todo, shown>>

\* Mutant: the channel has no buffer, so somebody has to be waiting.
RoomUnbuffered == client = "running"

Room == errc < 1

ReportError ==
  /\ reading = "reporting" /\ Room
  /\ reading' = "ended" /\ errc' = errc + 1
  /\ UNCHANGED <<cardVars, net, toCard, client, conn, ctxDone, keeping, frame, handed, decoder, todo, shown>>

Ended == (client = "failed" \/ (client = "returned" /\ reading = "ended" /\ keeping = "ended")) /\ UNCHANGED vars

CardStep == CardAccepts \/ CardTakes \/ CardNoise \/ CardFullFrame \/ CardDelta \/ CardSends \/ CardCloses
Handshake == HandshakeAccepted \/ HandshakeValid \/ HandshakeOther \/ HandshakeRefused \/ HandshakeFails
             \/ HandshakeTimeout
ReadLoop == ReadOther \/ ReadFragment \/ DecodeBlock \/ ShowFrame \/ ReadFails \/ ReportError

Next == CardStep \/ Handshake \/ StartRun \/ Cancel \/ RunReturns \/ KeepAliveEnds \/ ReadLoop \/ Ended

\* The goroutines are scheduled; nothing is asked of the card or the user.
Spec ==
  /\ Init /\ [][Next]_vars
  /\ WF_vars(Handshake) /\ WF_vars(StartRun) /\ WF_vars(RunReturns)
  /\ WF_vars(ReadLoop) /\ WF_vars(KeepAliveEnds)

-----------------------------------------------------------------------------
(* Properties.                                                             *)

\* The order of the client's messages never makes the card refuse a session:
\* "Sending validate before 23 makes the card reject it" and so does leaving
\* out CONNECTION_COMPLETE (handshake).
NeverOutOfOrder == \A i \in DOMAIN net : net[i].type = "response" => net[i].status = 1

\* What readLoop hands to the decoder is all of one frame, in order, even
\* when the card has dropped the frame before it halfway.
WholeFrames ==
  handed # <<>> =>
    /\ Len(handed) = frames[handed[1].id].parts
    /\ \A i \in DOMAIN handed : handed[i] = [id |-> handed[1].id, num |-> i - 1]

\* Every picture given to OnFrame is the host's screen as it was when the card
\* encoded the frame, pixel by pixel: through delta and pass-2 frames, changes
\* of mode that reuse or grow the buffers, frames given up or refused.
PictureMatches == shown.id # 0 => shown.pix = frames[shown.id].screen

\* Once Run has returned, its two goroutines come to an end.
GoroutinesEnd == client = "returned" ~> (reading = "ended" /\ keeping = "ended")

=============================================================================
