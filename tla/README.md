# rd450x-console: verification project

`rd450x-console` is a bridge between a browser (or a terminal) and the management card (BMC) of a
server: it logs in to the card, decodes its video, serves it as RFB to noVNC over a WebSocket, sends
keyboard and mouse back as USB HID reports, redirects disk images that stay in the browser, and gives
a serial console over IPMI. This directory models the parts of it in which goroutines, browser pages
and the card interact, checks them with TLC and proves some of the results with TLAPS.

## 1. Inventory

| Component | State | Operations | Talks to | What is hard | What makes it correct |
|---|---|---|---|---|---|
| `rfb.FrameSource`, `rfb.Serve` | current frame, cap-1 `changed`; per viewer last size, `desktopSizeOK`, cap-1 `reqc` | `Update`, `Frame`; handshake, request loop, reader goroutine | KVM read loop, noVNC | coalescing signals, two viewers at a reload, sizes that change | no change is lost, sizes are announced first, the viewer catches up |
| `vmedia.Cache`, `vmedia.Device` | LRU list and index of windows; medium geometry | `ReadAt`, `WriteAt`; SCSI READ, WRITE and constant replies | backing in the browser, `Session.Serve` | windows, short tail, eviction, invalidation, failing fetches | the host sees a disk |
| `controlConn` (binary plane) | `pending`, `nextID`, one channel per request | `request`, `handleBinaryResponse`, `cleanup` | page's `control-socket.js` | timeouts, late answers, reconnection | an answer reaches the request it is for |
| `controlConn` (JSON plane), `vmediaControl`, `vmediaMount` | `jsonCh`, `mounts`, sessions on the card | attach, detach, power, cleanup | page's panels, the card | a worker in the middle of `Attach` at cleanup, a full queue | nothing orphaned, nothing blocked for good |
| `webui.Serve`, `RunCommand`, `connectBMC`, `Connect`, `Run` | counter, grace timer, context, web session, video socket | connect, disconnect, timer, login … logout | browser tabs, the card, the operating system | timers that fire late, failure of each login step, process exit | the bridge ends when idle; the card's sessions are released |
| `sol.Console` | sequence numbers, pending ack, escape state, render buffer | poll, input, exchange, ingest, render, teardown | terminal, the card over UDP | loss, late replies, retransmission, wrap-around | output exactly once, in order |
| `HIDSink`, `lateSink`, `keyboard.js` | modifiers, held keys, frame size, paste goroutines | key, pointer, cut text, frame size | RFB readers, the card | concurrent readers, repeats, slots, pastes, mode changes | no stuck key, exact pastes |
| `kvm.Client` (handshake, `Run`, `readLoop`, `keepAlive`) | socket, fragments collected, result channel | handshake, fragment, other message, decode, close | the card's video service, the codec, `FrameSource` | message order, frames given up halfway, a silent card, goroutines left behind | whole frames only, and nothing runs on after `Run` |
| `codec.Decoder` | two registers and a word index, colour cache, DC predictors, tile position, picture buffers kept between frames | `Decode`, block loop, entropy decoder, VQ, tile output, pass 2 | `readLoop` | refills at word boundaries, table bounds, the last words of a frame, buffers reused across modes | the picture is the host's screen |
| `sol.RunCommand`, `activate`, `diagnoseSOL`, `showInfo`, `power.Controller` | an RMCP+ session each, the client's timeout and retries | connect, activate, evict, deactivate, poll, chassis control, close | the card over UDP, other processes of the same program | lost and late answers, kills, one payload for all | nothing left on the card, one action per click, no console locked or cut off |
| IUSB framing, configuration, terminals, volumes, scripts | | | | | not modelled: section 8 |

`PROJECT.json` lists the hazards at their source lines, with the properties that would catch them.

## 2. Modules

Each module's header and comments tie its variables to the fields and goroutines of the code;
`PROJECT.json` "map" gives the lines of every definition.

* **`RfbServer`** – `UpdateFrame`/`SignalChanged` are the two halves of `Update` (the frame is swapped
  under `mu`, the token sent after). `SendServerInit` and `ReadF0` are the two separate reads of the
  source before the loop; `TakeRequest`, `TakeChanged`, `ReadFrame`, `WriteUpdate` are the loop;
  `ReadMessage`, `EndOfStream` and `ReaderFails` (an unknown message or a broken connection, at any time)
  are the reader goroutine. A frame is a size and a version. noVNC is external: it
  answers `ServerInit` with its encodings and a full request and every update with an incremental one.
* **`VMediaCache`, `VMediaDevice`, `VMediaDisk`** – the cache loop one window at a time (a call in
  progress is a record), the SCSI device over it, and the abstract disk it implements
  (`Disk == INSTANCE VMediaDisk WITH …`, property `ActsAsMedium == Disk!Spec`). A block is one cell of
  data, so that a medium of five cells has three windows and a short last one.
* **`ControlRequests`** – `request` is `SendRequest`, then one of `TakeResponse`, `GiveUp` (timer or
  cancelled context); `RouteResponse`/`DeliverResponse` are `handleBinaryResponse` around its unlock.
  The bytes of an answer are the request the page computed them for.
* **`ControlMounts`** – read loop, JSON worker and cleanup of each connection, the card's redirection ports,
  and the page's panel. An attach begins, is accepted or fails, goes into the map under the lock (`StoreMount`),
  and then, without the lock, closes the mount it replaced and is answered (`AnswerAttach`); a detach is
  `HandleDetach` and `AnswerDetach` likewise. In between the mount taken out belongs to the worker.
* **`Bridge`** – the web server's accounting of `/websockify` handlers (`Accept`, then `Connect` under the lock,
  which `Shutdown` does not wait for), the grace timers, the shutdown
  goroutine, the main goroutine to its exit, and `connectBMC` from login to logout.
* **`SolConsole`** (`MCSolConsole` gives the input chunks) – the loop as select, send, wait; `pushRender` as the
  append and the poke of `renderWake`; the render goroutine as wake, swap, write; the escape menu, one byte of
  `feed` a step. A request carries its number, its acknowledgement and its data, a reply its number and its
  bytes. The card sends one unacknowledged packet and takes a request that repeats the number of the one before
  as a retry; the network loses and delays datagrams.
* **`HidSink`** (`MCHidSink` gives keyboards and clipboard) – `KeyEvent` up to its unlock and the write
  after it are two steps; each paste is a goroutine of its own; the host's keyboard is the last report.
* **`KvmVideo`** over **`VideoDecoder`** (`MCKvmVideo` gives the video modes) – the IVTP handshake, `Run`
  with its two goroutines, and the picture buffers. The card is external: it checks the order of the
  handshake, sends a full frame when the mode is set and single tiles after that, drops the rest of a frame
  when the mode changes, and may refuse, fall silent or hang up. `VideoDecoder` says which buffer position
  each pixel of a tile is written to and read from; a pixel names the tile and the place in it that it came
  from, so that a misplaced, stale or doubled one differs from the right one.
* **`FrameDecode`** over **`BitReader`** and **`HuffmanTables`** (`MCFrameDecode` gives the frames) – one
  frame, read by read: registers as functions from bit positions, the four tables of `tables.go` and the
  lookups built from them, the macro-block loop, the VQ cache and the entropy decoder. The frames come from
  a reference encoder in the same module (`Pack`), which also says what they mean (`Meaning`); it is written
  from the canonical form of a prefix code and not from the decoder's tables of bounds.
* **`IpmiSessions`** (`MCIpmiSessions` gives the pairs of commands) – every `sol` variant and the power
  panel's calls as processes that share one card. A request is a datagram that is sent again; the state
  of a command is the request it waits for.
* **`RfbServerProofs`, `VMediaProofs`, `ControlRequestsProofs`, `ControlMountsProofs`, `SessionProofs`,
  `HidSinkProofs`, `VideoProofs`, `IpmiSessionsProofs`** – theorems about the module (or modules) of the same
  name; `SessionProofs` has `Bridge` and `SolConsole`, `VideoProofs` has `KvmVideo` and `BitReader`. Section 5.

Operators marked "Mutant" are wrong versions of the definition that follows them, kept to show that each
property can fail.

## 3. Runs

| Run | Instance | States | Shows |
|---|---|---|---|
| `rfb_server` | 1 viewer, 2 sizes, 3 frames | 21 k | `TypeOK`, `NoLostWakeup`, `ResizePrecedesRaw`, `RequestOutstanding`, `CatchesUp` |
| `rfb_reload` | 2 viewers, 1 frame | – | **violated** `CatchesUp`: finding 1 |
| `vmedia_device` | 5 cells, window 2, 2 windows kept, commands of ≤ 2 blocks | 0.7 M | `CacheCoherent`, refinement `ActsAsMedium`, `CommandAnswered` |
| `control_requests` | 2 devices, 2 connections, 2 requests each | 0.9 M | `OwnAnswersMatch`, `PendingIsWaiting`, `ReadLoopNeverBlocks` |
| `control_mounts` | 1 kind, 2 connections, 2 attaches, 3 messages, queue of 1 | 0.2 M | `SessionIsTracked`, `PanelMatchesBacking`, `NoOrphanedRedirection`, `ReadLoopResumes` |
| `bridge` | 2 tabs, 3 timers | 60 k | `TypeOK`, `PendingTimerMeansIdle`, `NothingLeftOpen`, `IdleBridgeExits`, `ConnectSettles` |
| `bridge_exit` | 1 tab, 1 timer | – | **violated** `ReleasedBeforeExit`: finding 2 |
| `sol_console` | numbers 1..2, 3 bytes, 3 chunks, 1 fault | 1.4 M | `OutputExact`, `EscapeIgnoresChunking`, `TeardownOrdered`, `OutputAppears` |
| `hid_sink` | 2 viewers, 3 keys, 2 slots, 3 user actions, 1 paste of 3 runes, screens of 1 and 3 pixels | 1.5 M | `NoStuckKey`, `HostInSync`, `PasteExact`, `PointerOnTarget`, `KeysComeUp` |
| `frame_decode` | 32-bit words, the code's tables; every symbol once, lists of up to 3 blocks, 0 to 2 words of padding | 35 k | `WindowExact`, `BlocksExact`, `NoOverread` |
| `kvm_video` | tiles of 2 × 2, 4 modes, 3 frames, 1 other message, 1 message on the wire | 0.13 M | `NeverOutOfOrder`, `WholeFrames`, `PictureMatches`, `GoroutinesEnd` |
| `ipmi_sessions` | 2 commands in 7 pairings, 1 retry, 2 polls, 2 faults | 0.6 M | `LeavesNothing`, `ActsOnce`, `ConsoleKept`, `ForceTakesOver` |

**Bounds.** Each is a named constant. They are the smallest at which the cases of interest occur: two
connections or viewers are what a reload needs; two requests on each connection let an id be used again;
two windows kept of three force evictions inside one command; sequence numbers 1..2 wrap within three
packets, so a packet of the round before is met at once; three chunks are an escape
sequence split over two of them and a packet that follows the one it sends; a queue of one is full after one job; three messages are
two attaches and a detach of one kind that overtake each other or not (the attach behind an Unmount clicked twice is
a fourth, and is left to `PanelSafety`, which is about any number of them); a screen of one pixel is the first and the last at once, where
the pointer is clamped; two key
slots overflow with the three usages two keys have in the two keyboard modes; one fault is one lost or
late datagram, which each recovery must survive before the next. `frame_decode` uses the real word width and
the real tables, so its bound is the list of frames: every symbol of every table with both signs of the
magnitude, every kind of block before and after every other, and enough paddings for the loop to end by its
code, by its index and in the last two words. `kvm_video` shrinks the tile to two pixels: its modes have a
cut last row and column, several 4:2:0 tiles and the half row, one size the decoder refuses and one frame
too long for the client; three frames are a mode, another one that reuses or grows its buffers, and a delta
or pass 2 on top. `ipmi_sessions` needs two faults for a process that is killed and a datagram that is lost
or a request that is refused to the next one; its pairings are not mirrored, as the runs are treated alike. `CHECK_DEADLOCK FALSE` is used where the
system may stop: the bounds on frames, requests, clicks or user actions are used up, or the process has
ended. `vmedia_device` keeps the deadlock check, as a host can always send another command.

**Fairness.** Weak fairness of goroutine steps only: Go schedules a runnable goroutine and a select with
a ready case is eventually taken. What users, tabs, the host's screen, signals and the end of a session
do is never assumed. Login and handshake are fair because the code bounds them with deadlines. `control_mounts` assumes of
the card that it answers, refuses or drops an attach (`vmedia/session.go:72` reads the answer with no
deadline, so `ReadLoopResumes` rests on it) and that it frees a port whose socket is closed. For `sol_console`,
`OutputAppears` needs in addition that the card answers polls and that faults are bounded. For
`rfb_server`, the browser's event loop keeps running, and the reader sees the end of a connection that is closed;
that it fails for another reason is possible at any time and never assumed. `hid_sink` assumes that a blocked write returns.
`kvm_video` asks nothing of the card: the handshake ends by its deadline, and after `Run` the closed socket
ends the reads and writes. `ipmi_sessions` assumes that the program goes on, that timers fire, that the card
serves what reaches it and that `Console.Run` sees the end of its context; nobody has to quit a console.

**Environment.** What is external is taken from how the code uses it, and these readings matter.
`kvm_video`: 4:2:0 widths are multiples of a tile, as `yuv.go:65-68` says that the offsets of other widths
are those of the reference codec whatever they show, and 4:2:0 pictures padded to 608 rows have at most 600, as
`yuv.go:72` writes only half of their last row of tiles (both are `ModesAssumption`); a change of mode is followed
by a full frame.
`frame_decode`: the header's compressed size is that of the data, no VQ block comes in a 4:2:0 frame, and the
card pads a frame by at least one word (`NoOverread` says so in its premise; section 4 says what else happens).
`sol_console`: the card drops the data of a request that repeats the number of the one before, which is how it
tells a retry; the console never sends data again.
`ipmi_sessions`: the default timeout of one second is enough for an answer that is not lost, the 200 ms of
the polling profile may not be; go-ipmi drops a late answer to another request and does not repeat one that was
answered; the card may refuse any request with a completion code (a fault, of which a run has a bounded number),
and need not answer a poll; closing a session may or may not free its payload; a session whose process is dead
expires some time or never.

## 4. Findings

1. `rfb_reload` – the change token has one slot for all viewers. When a page is reloaded, the `Serve` of
   the old page can take it and then fail its write; the new page shows the old frame until the next
   change. `rfb.go:22-23` assumes a single consumer, `webui.go` starts one per connection.
2. `bridge_exit` – the process does not wait for `connectBMC`'s deferred `Close` (`command.go:47-50, 93`),
   so a web session can stay open on the card.

Met while modelling, with no run of their own:

* `Serve` remembers the size of a frame read after the one `ServerInit` advertised (`server.go:40-42`).
* Request ids are per connection and not "globally unique on the server side" (`control-socket.js:13`), and
  the page answers on its current socket: a late answer of the old connection is accepted for another
  request. `OwnAnswersMatch` is what does hold.
* After a read timeout the sequence number is not advanced, against `console.go:196-197`. `OutputExact`
  shows that this does no harm to the output. To the input it does: the packet after an unanswered one repeats
  its number, and a card that takes it for a retry drops the keystrokes in it. `EscapeIgnoresChunking` therefore
  promises that what was sent arrives only until a datagram is lost or a read times out (`calm`).
* `sol.go:104-110` means to restore the default timeout before the deferred deactivation, but `defer`
  evaluates `WithTimeout` at once and line 111 replaces it: only the retries are restored. `LeavesNothing`
  shows that the repeated requests still leave nothing behind as long as nothing is lost and the card refuses
  neither the deactivation nor the close; the program does not look at the outcome of either (`sol.go:84, 98`).
* A command that was evicted by `--force` deactivates the payload when it ends, and by then the payload is
  its successor's (`sol.go:98`, `console.go:398-403`); `ConsoleKept` excepts it by name.
* A chassis action is sent again when its answer is lost and then acts twice (`power.go:84`); `ActsOnce`
  says that there is no other way.
* A frame with no word behind its end code can make `updateReadBuf` index past the data
  (`bitreader.go:42`), and nothing recovers in `readLoop`.
* A VQ block in a 4:2:0 frame writes three planes of the six that are shown, the others stay those of the
  block before (`vq.go:11-36`, `yuv.go:50-62`).
* Unmount clicked twice, and Mount between the two answers: the second "unmounted" drops the backing of the
  new attach, and the panel then shows a kind as mounted whose sectors nothing answers (`vmedia.js:125`;
  `unmountCurrent` and `mountPending` look at `state[kind].mounted` only). `PanelMatchesBacking` excepts it by
  its history variable `disturbed`; the proof of the property brought it up.
* Smaller ones: a failed backing read is answered with zeros and no sense data (`scsi.go:108`,
  `scsi.go:206-216`); `setMount` stores the new mount before it closes the old one though its comment says
  "first" (`control.go:288`); the idle callback can cut off a page that connects between its check and its
  call (`webui.go:138-143`); a login that fails after the cookie was issued leaves the web session
  (`session.go:83-89`; `NothingLeftOpen` excepts it by name); `setClient` is never undone
  (`vmediactl.go:39`), so an attach after the KVM session uses its old token; a break typed after other
  characters of a chunk is sent before them (`console.go:337`); the reports of two viewers can cross
  (`hid.go:199-201`); a session that ends inside a paste leaves its last key down; closing a page or
  switching pass-through with a key down leaves the key held in the sink; a comment at `client.go:19` speaks
  of 1080p, but the codec refuses more than 1500 pixels either way (`decoder.go:147, 174`).

## 5. Proofs

Eight modules prove their results for every value of the constants. Every theorem rests on the assumptions
named in the modules it is about, and on nothing else:

| Module | Assumptions |
|---|---|
| `RfbServer` | `SizesAssumption`: the placeholder is a size; `UpdatesAssumption`: the bound on updates is a number |
| `VMediaCache`, `VMediaDevice` | `GeometryAssumption`: a window and the cache are not empty; `ValuesAssumption`: the zero byte is a value; `WritableAssumption`; `BlockAssumption`: a block is not empty |
| `ControlRequests`, `ControlMounts` | `BoundsAssumption`: at least one connection, id, device kind and place in `jsonCh` |
| `Bridge` | `BridgeAssumption`: finitely many tabs |
| `SolConsole` | `SolAssumption`: there are at least two sequence numbers (the code has 15), the bounds are numbers; `InputsAssumption`: the chunks are made of keys |
| `HidSink` | `HidAssumption`: the sizes are positive and the default is one, a usage is no modifier, layouts and texts have their types |
| `KvmVideo` | `VideoAssumption`: a frame has at least one fragment, the wire holds at least one message; `ModesAssumption`: accepted 4:2:0 modes are whole tiles wide and show nothing in the half row `yuv.go:72` leaves out |
| `VideoDecoder` | `DecoderAssumption`: a tile has a pixel, the largest resolution is a number |
| `BitReader` | `WordAssumption`: a word has a bit; `StreamsAssumption`: a frame has at least two words |
| `IpmiSessions` | `RunsAssumption`: the bounds are numbers, and the payload is polled at least once; `ScenariosAssumption`: a scenario gives each command a mode |

The bounds of section 3 (attaches, clicks, faults, frames, …) are constants like the others, so the theorems hold
however large they are.

**`RfbServerProofs`.** `TypeCorrect`; `WakeupSafety` (`NoLostWakeup`), inductive relative to the types: each
action leaves token, frame and the taken frames alone or moves the obligation one place on (`Update` about to
signal, the token, a goroutine about to read, the frame read). `ResizeSafety` (`ResizePrecedesRaw`) speaks of
the wire and the viewer's size; `ResizeInv` adds that from the first DesktopSize rect on the size `Serve` remembers is the one
the viewer was told last, and that every Raw rect behind it on the wire has the size of the message before it.
`RequestSafety` (`RequestOutstanding`) is not inductive either, as the reader consumes messages that are no
requests and noVNC's first one is none: `RequestInv` counts what the wire still holds.

**`VMediaProofs`.** `DataInv` is what the host can tell: each window is a prefix of the medium and a proper one
only after a short answer, and the buffer of the read in progress is filled with the medium up to where it got
and zero behind that. `ListMatchesIndex` (list and index name the same windows, each once) is inductive by
itself. Theorems: `DeviceSound` (types and both), `CacheSafety` (`CacheCoherent`), and `Refinement`
(`Spec => ActsAsMedium`): the first state and every step of the device over its cache map to the first state
and to a step or a stutter of `VMediaDisk`. The removal from the list, `Without`, is written with a function
over positions, so that it can be reasoned about.

**`ControlRequestsProofs`.** The properties are about the two ends of a request; `Sound` follows it between
them. Each request of a connection is in one of five places (on the wire, in a suspended handler of the page, on
the wire back, in the hands of the read loop, in its response channel), in one at a time and once; its id was
handed out, and nobody but its sender waits for it; no two devices wait for one id. From it: `LoopSafety`
(`ReadLoopNeverBlocks`, as the channel of the answer in hand is empty), `PendingSafety` (`PendingIsWaiting`),
`AnswerSafety` (`OwnAnswersMatch`); also `TypeCorrect` and `RequestsSound`.

**`ControlMountsProofs`.** `MountSafety` (`SessionIsTracked`) needs to know whose a session is: `Numbered` (a
session belongs to an attach that got a number), `WorkersOwn` (a worker that attaches owns its mount alone,
which is why a session cannot appear under a mount that was stored or dropped before, and what a store or a
detach took out of the map stays with the worker until it is closed) and `Stored` (a mount in
the map had a session). `PanelSafety` (`PanelMatchesBacking`) follows the requests of a kind: while nothing
overtook them, an attach is in one of five places and nothing else of the kind is under way with it; then
the panel does not show the kind and its backing is there, and otherwise panel and backing are equal. Lemma
`CalmPassed` is the step that moves a request from one place to the next; each action of read loop and worker is
an instance of it.

**`SessionProofs`.** Of `Bridge`, `IInv` is `TypeOK`, `CountMatches` (the counter equals the number of tabs whose handler has counted itself, which is none of those only
accepted),
`PendingTimerMeansIdle` and `BmcInv` (what socket and session are at each place of `connectBMC`).
`PendingTimerMeansIdle` alone is not inductive: that the last handler to leave sees the counter reach 0 needs
`CountMatches`, and that stopping the one timer `graceTimer` points to stops them all needs the clause that no
other is pending. Theorems: `Inductive`, `BridgeTypeCorrect`, `GraceTimerSafety`, `SessionReleased`
(`NothingLeftOpen`, from `BmcInv`).

Of `SolConsole`, `SolInv`, theorem `SolInvariant`. For `OutputSafety` (`OutputExact`): the bytes pushed are those
up to `Taken`, in order (`Ordered`). `Taken` is defined from the two ends of the link alone: what the card has
discarded, and the size the console remembers while both have the same sequence number. That a datagram never
takes it by surprise is `PacketsSound` and `AcksSound`: the datagrams keep their order, so a packet on its way is
empty, repeats one that was acknowledged in full, or starts where the current one starts and is no shorter than
what was taken of it; and a request acknowledges no more of the current packet than was taken. A request that
covers the packet therefore finds all requests and packets under way old (`OldAround`), which is why the next
number only has to differ from the last one: no proof step uses how long ago a number was used. Nor does one use
the bound on faults. For `TeardownSafety` (`TeardownOrdered`): `Flushed` splits what was pushed into what is
written, being written and buffered, and says that nothing is pushed once the loop closes. For `EscapeSafety`
(`EscapeIgnoresChunking`): the reference speaks of whole runs of escape keys, and `RunStarts` keeps the place
where the last run starts, so that its parity can be compared with `armed` a byte at a time. Its second half, that
what was sent arrives, is `CalmSound`: as long as each request was answered, one datagram at most is on its way, and
the number of a request is one the card has not just seen.

**`HidSinkProofs`.** `Inv` is the types, `SlotsOK` (no usage has two slots, and nothing is held before the sink is
there), `NoStuckKey`, `OneInFlight` with `HostInSync` (of reports that have not crossed one is in flight at most,
and it is the sink's state, which is what makes the host's keyboard the sink's when none is) and `Pasting` (what
an undisturbed paste has typed and what it has left make up the clipboard, and the host holds the key that is
down). `PasteExact` compares with a filter over the runes; `TypedUpTo` says the same of each prefix by
positions. Theorems: `SinkSound`, `HeldSafety`, `SyncSafety`, `PasteSafety`, and `PointerSafety`
(`PointerOnTarget`), which is arithmetic about the rounding of `ScaleAbs` for every size and grid.

**`VideoProofs`.** `WholeFramesSafety` (`WholeFrames`): `StreamInv` says where the fragments of a frame are. The
card sends forward; no fragment is on the wire, or about to be, without the one before it on the wire ahead of it
or as the last one collected; what `readLoop` has collected is the beginning of one frame, and nothing older is
under way. `NotStarted` is there because `Run` starts the read loop. `HandshakeSafety` (`NeverOutOfOrder`):
`HandshakeInv` ties the state of the card to what is on both wires.

`PictureSafety` (`PictureMatches`) follows a picture from the host's screen to `OnFrame`; `PictureInv` adds to the two
invariants above: `FramesSound` (what the blocks of a frame bring is its screen: a full frame has every tile, one that
follows in the same mode brings the tiles that differ from the frame before it, a second pass the rest of a tile whose
base is there already); `Sync` (nothing older than the frame handed over is on the wire, and while the client reads, the last fragment
of each later frame sent in full still is, so that a frame is decoded right after the one it builds on); `DecoderInv` (the
buffers have room for the frame in hand and show its screen except where a block is still to be decoded; in 4:4:4
`previousYUV` holds the bases a second pass needs); and `ShownSound`. Two facts of arithmetic carry the drawing,
for every size: lemma `PlaceInBuffer` (every pixel has a place inside the buffer) and lemma `WrittenCovers` (a block
writes the place of a pixel exactly when the pixel is in its tile, and with that pixel's sample). The second rests on
`ModesAssumption`.

`WindowCorrect` (`WindowExact` of `BitReader`, for every sequence of reads of 1 to `W` bits, which are the steps
`FrameDecode` takes): a shift brings in bits of register 1, so `ReaderInv` adds that register 1 holds the unread rest of the last word taken and zeros behind it,
which is what makes the bitwise or with the refill an append.

**`IpmiSessionsProofs`.** `Inv` is the types and, of each command, `Tidy` (while nothing is lost or cancelled and the
card refuses no deactivation or close, what
it has open at each request, and that what is left in flight gives it up), `OnceOnly` (while nothing is lost, its
action is sent again only when the card has dropped it), `Obeyed` (a positive answer means that the card acted),
`InOrder` (only `--force` evicts, the close comes after the deactivation) and `Holds` (while nothing is lost or late
and nobody has used `--force`, a command that counts on its payload has it). Theorems: `SessionsSound`,
`LeavesSafety` (`LeavesNothing`), `ActsSafety` (`ActsOnce`), and the action property `ConsoleSafety`
(`ConsoleKept`).

## 6. Only model-checked

* Liveness (`CatchesUp`, `CommandAnswered`, `NoOrphanedRedirection`, `ReadLoopResumes`, `IdleBridgeExits`,
  `ConnectSettles`, `OutputAppears`, `KeysComeUp`, `GoroutinesEnd`, `ForceTakesOver`): out of the prover's reach.
* `FrameDecode`: the only two safety properties without a theorem. `BlocksExact` and `NoOverread` are about what
  folds and recursive functions compute, and that the Huffman tables invert the canonical code is a fact about four
  concrete tables.

## 7. Plan

1. *Done*: the modules of section 2, and proofs about every one that has no recursion over data.
2. *Left to model*: the IUSB framing and authentication exchange of `vmedia/session.go`, once the answer to
   the authentication packet has a deadline to state a property about.

## 8. Not modelled

* The numeric kernels of the codec: the inverse DCT, quantization tables, colour conversion and RC4 are
  arithmetic over large tables, unit-tested in `codec_test.go`. `FrameDecode` and
  `VideoDecoder` keep coefficients and pixels symbolic on both sides of them.
* Raw Windows volumes (`volume_windows.go`) and the probe script that uses them: a straight sequence of
  system calls; what can go wrong there is in the operating system.
* IUSB framing and the authentication exchange: fixed layouts; the exchange has two outcomes, which
  `ControlMounts` has as `AttachAccepted` and `AttachFails`.
* Terminals' raw mode, configuration and flags, page layout, the BIOS tool, the image writers and the
  benchmark: I/O, or sequential code that keeps no state beyond one call.
* Mouse buttons and the wheel are a fixed recoding of the RFB mask and are left out of `HidSink`, as is the
  vertical axis, scaled like the horizontal one.
