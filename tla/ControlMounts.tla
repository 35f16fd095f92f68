---------------------------- MODULE ControlMounts ----------------------------
(***************************************************************************)
(* The JSON plane of the /control WebSocket and the life of a redirection: *)
(* the read loop, the JSON worker and cleanup of every controlConn,        *)
(* vmediaControl.Attach, vmediaMount.Close and Session.Serve's end, the    *)
(* BMC's redirection ports, and the page's Virtual Media panel.            *)
(*                                                                         *)
(* A mount is a number: the n-th attach the server works on.  The BMC      *)
(* accepts one redirection per device kind.  Sector traffic is the subject *)
(* of ControlRequests.                                                     *)
(***************************************************************************)
EXTENDS Naturals, Sequences, SequencesExt

CONSTANTS
  Kinds,      \* device kinds: cd, fd, hd
  MaxConns,   \* bound on the number of /control connections
  MaxMounts,  \* bound on the number of attaches the page asks for
  MaxClicks,  \* bound on the number of messages the page sends
  JsonCap     \* capacity of jsonCh

ASSUME BoundsAssumption ==
  /\ Kinds # {}
  /\ MaxConns \in Nat \ {0}
  /\ MaxMounts \in Nat
  /\ MaxClicks \in Nat
  /\ JsonCap \in Nat \ {0}

VARIABLES
  opened, ws,  \* connections opened so far; the one the page is connected on, or 0
  ctxDone,     \* cc.ctx is cancelled
  loop,        \* the read loop: "read", "put" (blocked sending to jsonCh), "done"
  held,        \* the message a blocked read loop holds
  jsonCh,      \* the queue to the JSON worker
  worker,      \* the JSON worker: [st, kind, mount]; in "connect" and "store" the mount of an
               \* attach, in "replaced" and "removed" the one taken out of cc.mounts, or 0
  mounts,      \* cc.mounts: kind -> mount, 0 when absent
  nMounts,     \* attaches worked on so far
  sess,        \* each mount's vmedia session: "none", "open", "ended", "closed"
  owner,       \* each mount's connection and kind
  slot,        \* the BMC's redirection port of each kind: the mount it serves, or 0
  panel,       \* vmedia.js: state[kind].mounted
  backing,     \* control-socket.js: a backing is registered for the kind
  outbox,      \* JSON messages queued while the socket is down
  clicks, attaches,  \* messages and attaches sent so far
  toServer, toPage,  \* JSON messages on the wire
  disturbed    \* history: an attach sent with a request of its kind still unanswered, or a
               \* lost connection

connVars == <<ctxDone, loop, held, jsonCh, worker, mounts>>
bmcVars == <<nMounts, sess, owner, slot>>
pageVars == <<opened, ws, panel, backing, outbox, clicks, attaches, disturbed>>
vars == <<connVars, bmcVars, pageVars, toServer, toPage>>

Conns == 1..MaxConns
Mounts == 1..MaxMounts
None == 0

Message == [type : {"attach", "detach", "power"}, kind : Kinds]
Status == [kind : Kinds, state : {"mounted", "unmounted", "error"}]
Power == [type |-> "power", kind |-> CHOOSE k \in Kinds : TRUE]
Idle == [st |-> "idle", kind |-> None, mount |-> None]

Init ==
  /\ opened = 1 /\ ws = 1
  /\ ctxDone = [c \in Conns |-> FALSE]
  /\ loop = [c \in Conns |-> "read"]
  /\ held = [c \in Conns |-> <<>>]
  /\ jsonCh = [c \in Conns |-> <<>>]
  /\ worker = [c \in Conns |-> Idle]
  /\ mounts = [c \in Conns |-> [k \in Kinds |-> None]]
  /\ nMounts = 0
  /\ sess = [m \in Mounts |-> "none"]
  /\ owner = [m \in Mounts |-> <<>>]
  /\ slot = [k \in Kinds |-> None]
  /\ panel = [k \in Kinds |-> FALSE]
  /\ backing = [k \in Kinds |-> FALSE]
  /\ outbox = <<>>
  /\ clicks = 0 /\ attaches = 0
  /\ toServer = [c \in Conns |-> IF c = 1 THEN <<Power>> ELSE <<>>]
  /\ toPage = [c \in Conns |-> <<>>]
  /\ disturbed = [k \in Kinds |-> FALSE]

Linked(c) == ws = c

\* A request is unanswered while it, the work it has become or its answer is under way.
Answers(t, m) == (m.state = "unmounted") = (t = "detach")
WorkOf(t) == IF t = "attach" THEN {"connect", "store", "replaced"} ELSE {"removed"}
Unanswered(t, k) ==
  \E c \in Conns :
    \/ [type |-> t, kind |-> k] \in ToSet(toServer[c]) \cup ToSet(held[c]) \cup ToSet(jsonCh[c])
    \/ worker[c].st \in WorkOf(t) /\ worker[c].kind = k
    \/ \E m \in ToSet(toPage[c]) : m.kind = k /\ Answers(t, m)

-----------------------------------------------------------------------------
(* The page.                                                               *)

\* send(): straight to the socket, or to the outbox while it is down.
Send(msg) ==
  /\ clicks < MaxClicks
  /\ clicks' = clicks + 1
  /\ IF ws # None
     THEN toServer' = [toServer EXCEPT ![ws] = Append(@, msg)] /\ UNCHANGED outbox
     ELSE outbox' = Append(outbox, msg) /\ UNCHANGED toServer

\* mountPending: the only guard is state[kind].mounted.
ClickMount(k) ==
  /\ ~panel[k]
  /\ attaches < MaxMounts
  /\ attaches' = attaches + 1
  /\ Send([type |-> "attach", kind |-> k])
  /\ backing' = [backing EXCEPT ![k] = TRUE]
  /\ disturbed' = [disturbed EXCEPT ![k] = @ \/ Unanswered("attach", k) \/ Unanswered("detach", k)]
  /\ UNCHANGED <<opened, ws, panel, connVars, bmcVars, toPage>>

\* unmountCurrent
ClickUnmount(k) ==
  /\ panel[k]
  /\ Send([type |-> "detach", kind |-> k])
  /\ UNCHANGED <<opened, ws, panel, backing, attaches, disturbed, connVars, bmcVars, toPage>>

\* A power command or a power poll (every 5 s while the power panel is open).
PollPower ==
  /\ Send(Power)
  /\ UNCHANGED <<opened, ws, panel, backing, attaches, disturbed, connVars, bmcVars, toPage>>

\* Mutant: an error leaves the backing registered and the panel as it was.
ErrorIgnored(m) ==
  /\ panel' = IF m.state = "error" THEN panel
              ELSE [panel EXCEPT ![m.kind] = (m.state = "mounted")]
  /\ backing' = IF m.state = "unmounted" THEN [backing EXCEPT ![m.kind] = FALSE]
                ELSE backing

\* The vmedia.status handler: anything but "mounted" drops the kind's backing.
ShowStatus(m) ==
  /\ panel' = [panel EXCEPT ![m.kind] = (m.state = "mounted")]
  /\ backing' = [backing EXCEPT ![m.kind] = @ /\ m.state = "mounted"]

ReceiveStatus ==
  /\ ws # None
  /\ toPage[ws] # <<>>
  /\ ShowStatus(Head(toPage[ws]))
  /\ toPage' = [toPage EXCEPT ![ws] = Tail(@)]
  /\ UNCHANGED <<opened, ws, outbox, clicks, attaches, disturbed, connVars, bmcVars, toServer>>

\* The socket drops and what was in flight is lost.  The page keeps its state, or is
\* reloaded and starts afresh.
Disconnect ==
  /\ ws # None
  /\ toServer' = [toServer EXCEPT ![ws] = <<>>]
  /\ toPage' = [toPage EXCEPT ![ws] = <<>>]
  /\ ws' = None
  /\ disturbed' = [k \in Kinds |-> TRUE]
  /\ \/ UNCHANGED <<panel, backing>>
     \/ panel' = [k \in Kinds |-> FALSE] /\ backing' = [k \in Kinds |-> FALSE]
  /\ UNCHANGED <<opened, outbox, clicks, attaches, connVars, bmcVars>>

\* connect() again, 2 s after onclose; onopen flushes the outbox and power.js asks for the
\* power state.
Reconnect ==
  /\ ws = None
  /\ opened < MaxConns
  /\ opened' = opened + 1
  /\ ws' = opened + 1
  /\ toServer' = [toServer EXCEPT ![opened + 1] = Append(outbox, Power)]
  /\ outbox' = <<>>
  /\ UNCHANGED <<panel, backing, clicks, attaches, disturbed, connVars, bmcVars, toPage>>

-----------------------------------------------------------------------------
(* The read loop of serve().                                               *)

\* A send to jsonCh does not block.
QueueRoom(c) == Len(jsonCh[c]) < JsonCap

\* A text message goes to jsonCh, or the read loop blocks holding it.
ReadText(c) ==
  /\ loop[c] = "read"
  /\ toServer[c] # <<>>
  /\ toServer' = [toServer EXCEPT ![c] = Tail(@)]
  /\ IF QueueRoom(c)
     THEN /\ jsonCh' = [jsonCh EXCEPT ![c] = Append(@, Head(toServer[c]))]
          /\ UNCHANGED <<loop, held>>
     ELSE /\ loop' = [loop EXCEPT ![c] = "put"]
          /\ held' = [held EXCEPT ![c] = <<Head(toServer[c])>>]
          /\ UNCHANGED jsonCh
  /\ UNCHANGED <<ctxDone, worker, mounts, bmcVars, pageVars, toPage>>

PutText(c) ==
  /\ loop[c] = "put"
  /\ QueueRoom(c)
  /\ jsonCh' = [jsonCh EXCEPT ![c] = @ \o held[c]]
  /\ held' = [held EXCEPT ![c] = <<>>]
  /\ loop' = [loop EXCEPT ![c] = "read"]
  /\ UNCHANGED <<ctxDone, worker, mounts, bmcVars, pageVars, toServer, toPage>>

\* vmediaMount.Close of every mount in gone: cancel and close the connection to the BMC.
CloseMounts(gone) ==
  sess' = [m \in Mounts |-> IF m \in gone THEN "closed" ELSE sess[m]]

\* Mutant: cleanup swaps the map and cancels nothing.
CleanupWithoutCancel(c) ==
  /\ \/ loop[c] = "read" /\ c <= opened /\ ~Linked(c)
     \/ loop[c] = "put" /\ ctxDone[c]
  /\ loop' = [loop EXCEPT ![c] = "done"]
  /\ CloseMounts({mounts[c][k] : k \in Kinds} \ {None})
  /\ mounts' = [mounts EXCEPT ![c] = [k \in Kinds |-> None]]
  /\ UNCHANGED <<ctxDone, held, jsonCh, worker, nMounts, owner, slot, pageVars, toServer, toPage>>

\* serve() returns on a failed Read, or from a blocked send once ctx is done, and cleanup
\* runs: cancel, swap the map, close every mount.  jsonCh is closed after it; the worker
\* still drains what is queued.
Cleanup(c) ==
  /\ \/ loop[c] = "read" /\ c <= opened /\ ~Linked(c)
     \/ loop[c] = "read" /\ ctxDone[c]
     \/ loop[c] = "put" /\ ctxDone[c]
  /\ loop' = [loop EXCEPT ![c] = "done"]
  /\ ctxDone' = [ctxDone EXCEPT ![c] = TRUE]
  /\ CloseMounts({mounts[c][k] : k \in Kinds} \ {None})
  /\ mounts' = [mounts EXCEPT ![c] = [k \in Kinds |-> None]]
  /\ UNCHANGED <<held, jsonCh, worker, nMounts, owner, slot, pageVars, toServer, toPage>>

-----------------------------------------------------------------------------
(* The JSON worker.                                                        *)

\* reply(): a write on a dead socket is lost in its buffers, or fails and cancels the
\* connection.
Reply(c, msgs) ==
  IF Linked(c)
  THEN /\ toPage' = [toPage EXCEPT ![c] = @ \o msgs]
       /\ UNCHANGED ctxDone
  ELSE /\ \E failed \in BOOLEAN : ctxDone' = [ctxDone EXCEPT ![c] = @ \/ failed]
       /\ UNCHANGED toPage

\* A vmedia.status reply.
ReplyStatus(c, k, st) == Reply(c, <<[kind |-> k, state |-> st]>>)

\* Mutant: the handler waits for an answer that comes through the read loop.
HandlePowerOverSocket(c) ==
  /\ worker[c].st = "idle"
  /\ jsonCh[c] # <<>> /\ Head(jsonCh[c]).type = "power"
  /\ loop[c] = "read"
  /\ jsonCh' = [jsonCh EXCEPT ![c] = Tail(@)]
  /\ Reply(c, <<>>)
  /\ UNCHANGED <<loop, held, worker, mounts, bmcVars, pageVars, toServer>>

\* power, power.status, and an unknown message: at most a one-shot IPMI session that ends
\* by itself, and a reply the media panel does not look at.
HandlePower(c) ==
  /\ worker[c].st = "idle"
  /\ jsonCh[c] # <<>> /\ Head(jsonCh[c]).type = "power"
  /\ jsonCh' = [jsonCh EXCEPT ![c] = Tail(@)]
  /\ Reply(c, <<>>)
  /\ UNCHANGED <<loop, held, worker, mounts, bmcVars, pageVars, toServer>>

\* handleAttach up to vmedia.Connect, which waits for the BMC with no deadline and does
\* not look at ctx.
BeginAttach(c) ==
  /\ worker[c].st = "idle"
  /\ jsonCh[c] # <<>> /\ Head(jsonCh[c]).type = "attach"
  /\ nMounts' = nMounts + 1
  /\ owner' = [owner EXCEPT ![nMounts + 1] = <<c, Head(jsonCh[c]).kind>>]
  /\ worker' = [worker EXCEPT ![c] =
                  [st |-> "connect", kind |-> Head(jsonCh[c]).kind, mount |-> nMounts + 1]]
  /\ jsonCh' = [jsonCh EXCEPT ![c] = Tail(@)]
  /\ UNCHANGED <<ctxDone, loop, held, mounts, sess, slot, pageVars, toServer, toPage>>

\* No client yet, no token, dial failure, or the BMC refuses the port as in use.
AttachFails(c) ==
  /\ worker[c].st = "connect"
  /\ ReplyStatus(c, worker[c].kind, "error")
  /\ worker' = [worker EXCEPT ![c] = Idle]
  /\ UNCHANGED <<loop, held, jsonCh, mounts, bmcVars, pageVars, toServer>>

\* The BMC accepts; Serve starts under a context derived from cc.ctx.
AttachAccepted(c) ==
  /\ worker[c].st = "connect"
  /\ slot[worker[c].kind] = None
  /\ slot' = [slot EXCEPT ![worker[c].kind] = worker[c].mount]
  /\ sess' = [sess EXCEPT ![worker[c].mount] = "open"]
  /\ worker' = [worker EXCEPT ![c].st = "store"]
  /\ UNCHANGED <<ctxDone, loop, held, jsonCh, mounts, nMounts, owner, pageVars, toServer, toPage>>

\* The locked part of setMount: the new mount goes into the map for the one it replaces.
StoreMount(c) ==
  /\ worker[c].st = "store"
  /\ mounts' = [mounts EXCEPT ![c][worker[c].kind] = worker[c].mount]
  /\ worker' = [worker EXCEPT ![c] = [st |-> "replaced", kind |-> worker[c].kind,
                                      mount |-> mounts[c][worker[c].kind]]]
  /\ UNCHANGED <<ctxDone, loop, held, jsonCh, bmcVars, pageVars, toServer, toPage>>

\* Mutant: a mount replaced in the map is not closed.
AnswerAttachOnly(c) ==
  /\ worker[c].st = "replaced"
  /\ ReplyStatus(c, worker[c].kind, "mounted")
  /\ worker' = [worker EXCEPT ![c] = Idle]
  /\ UNCHANGED <<loop, held, jsonCh, mounts, bmcVars, pageVars, toServer>>

\* setMount closes the mount that was replaced, and handleAttach replies.
AnswerAttach(c) ==
  /\ worker[c].st = "replaced"
  /\ CloseMounts({worker[c].mount} \ {None})
  /\ ReplyStatus(c, worker[c].kind, "mounted")
  /\ worker' = [worker EXCEPT ![c] = Idle]
  /\ UNCHANGED <<loop, held, jsonCh, mounts, nMounts, owner, slot, pageVars, toServer>>

\* handleDetach takes the mount out of the map, ...
HandleDetach(c) ==
  /\ worker[c].st = "idle"
  /\ jsonCh[c] # <<>> /\ Head(jsonCh[c]).type = "detach"
  /\ LET k == Head(jsonCh[c]).kind IN
       /\ mounts' = [mounts EXCEPT ![c][k] = None]
       /\ worker' = [worker EXCEPT ![c] = [st |-> "removed", kind |-> k, mount |-> mounts[c][k]]]
  /\ jsonCh' = [jsonCh EXCEPT ![c] = Tail(@)]
  /\ UNCHANGED <<ctxDone, loop, held, bmcVars, pageVars, toServer, toPage>>

\* ... closes it without the lock, and replies.
AnswerDetach(c) ==
  /\ worker[c].st = "removed"
  /\ CloseMounts({worker[c].mount} \ {None})
  /\ ReplyStatus(c, worker[c].kind, "unmounted")
  /\ worker' = [worker EXCEPT ![c] = Idle]
  /\ UNCHANGED <<loop, held, jsonCh, mounts, nMounts, owner, slot, pageVars, toServer>>

-----------------------------------------------------------------------------
(* Sessions and the BMC (external).                                        *)

\* Serve's goroutine closes the connection once its context is done.
CloseOnCancel(m) ==
  /\ sess[m] \in {"open", "ended"}
  /\ ctxDone[owner[m][1]]
  /\ sess' = [sess EXCEPT ![m] = "closed"]
  /\ UNCHANGED <<connVars, nMounts, owner, slot, pageVars, toServer, toPage>>

\* The BMC kills the redirection: Serve returns without closing its connection, and the
\* mount stays in cc.mounts.
KillRedirection(m) ==
  /\ sess[m] = "open"
  /\ sess' = [sess EXCEPT ![m] = "ended"]
  /\ slot' = [slot EXCEPT ![owner[m][2]] = None]
  /\ UNCHANGED <<connVars, nMounts, owner, pageVars, toServer, toPage>>

\* The BMC notices the closed connection and frees the port.
ReleaseSlot(k) ==
  /\ slot[k] # None
  /\ sess[slot[k]] = "closed"
  /\ slot' = [slot EXCEPT ![k] = None]
  /\ UNCHANGED <<connVars, nMounts, sess, owner, pageVars, toServer, toPage>>

-----------------------------------------------------------------------------
ReadLoopStep(c) == ReadText(c) \/ PutText(c) \/ Cleanup(c)
WorkerStep(c) ==
  \/ HandlePower(c)
  \/ BeginAttach(c)
  \/ AttachFails(c)
  \/ AttachAccepted(c)
  \/ StoreMount(c)
  \/ AnswerAttach(c)
  \/ HandleDetach(c)
  \/ AnswerDetach(c)

Next ==
  \/ \E k \in Kinds : ClickMount(k) \/ ClickUnmount(k) \/ ReleaseSlot(k)
  \/ PollPower
  \/ ReceiveStatus
  \/ Disconnect
  \/ Reconnect
  \/ \E c \in Conns : ReadLoopStep(c) \/ WorkerStep(c)
  \/ \E m \in Mounts : CloseOnCancel(m) \/ KillRedirection(m)

Spec == Init /\ [][Next]_vars

\* Goroutines run, the BMC eventually answers, refuses or drops an attach and notices a
\* closed connection.  The user, the network and the BMC's kill are free.
Fairness ==
  /\ \A c \in Conns : WF_vars(ReadLoopStep(c)) /\ WF_vars(WorkerStep(c))
  /\ \A m \in Mounts : WF_vars(CloseOnCancel(m))
  /\ \A k \in Kinds : WF_vars(ReleaseSlot(k))

FairSpec == Spec /\ Fairness

-----------------------------------------------------------------------------
(* Properties.                                                             *)

\* While its connection lives, a session that is still connected to the BMC can be found
\* in cc.mounts under its kind, so that a detach reaches it, or the worker is about to store or
\* to close it: neither replacing a mount nor a race with cleanup leaks one.
SessionIsTracked ==
  \A m \in Mounts :
    sess[m] \in {"open", "ended"} /\ ~ctxDone[owner[m][1]] =>
      LET c == owner[m][1]
          k == owner[m][2]
      IN \/ mounts[c][k] = m
         \/ worker[c].st \in {"store", "replaced", "removed"} /\ worker[c].mount = m

\* "A closed tab or dropped socket never leaves a redirection orphaned on the card": once
\* the socket of a connection is gone, the BMC's ports stop serving its mounts, even the
\* ones a worker was still attaching when cleanup ran.
NoOrphanedRedirection ==
  \A c \in Conns :
    (c <= opened /\ ~Linked(c)) ~>
      [](\A m \in Mounts : owner[m] # <<>> /\ owner[m][1] = c =>
           sess[m] \notin {"open", "ended"} /\ \A k \in Kinds : slot[k] # m)

\* A read loop blocked on a full jsonCh gets going again: sector responses behind it are
\* delayed by at most the JSON work in front of them.
ReadLoopResumes == \A c \in Conns : (loop[c] = "put") ~> (loop[c] # "put")

\* The panel and the backings agree while no attach overtakes another request of its kind and
\* the socket stays up: a kind shown as mounted has the backing its sectors are read from, and
\* a kind not mounted and not being mounted has none.
PanelMatchesBacking ==
  \A k \in Kinds : ~disturbed[k] =>
    /\ panel[k] => backing[k]
    /\ backing[k] => panel[k] \/ Unanswered("attach", k)

=============================================================================
