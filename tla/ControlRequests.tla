--------------------------- MODULE ControlRequests ---------------------------
(***************************************************************************)
(* The binary virtual-media plane of the /control WebSocket: request() and *)
(* handleBinaryResponse of every controlConn, and the page's               *)
(* control-socket.js, across reconnections.                                *)
(*                                                                         *)
(* A mount's Serve loop has at most one request outstanding; mounts of     *)
(* different devices call request() concurrently.  The bytes of an answer  *)
(* are abstracted to the request the browser computed them for, so an      *)
(* answer is right when it is for the request it is handed to.  The page   *)
(* serves a request asynchronously and answers on whatever socket its      *)
(* global variable ws holds by then.                                       *)
(***************************************************************************)
EXTENDS Naturals, Sequences, FiniteSets

CONSTANTS
  Devs,      \* device bytes with a mounted medium
  MaxConns,  \* bound on the number of /control connections of one page
  MaxId      \* bound on the requests of one connection

ASSUME BoundsAssumption == MaxConns \in Nat \ {0} /\ MaxId \in Nat \ {0}

VARIABLES
  opened,     \* number of connections opened so far; connections are 1..opened
  ws,         \* the connection the page's ws is open on, 0 when it is not
  cancelled,  \* cc.ctx of each connection
  nextID,     \* cc.nextID
  pending,    \* the keys of cc.pending
  chan,       \* the cap-1 response channel of each request
  waiting,    \* per connection and device: the request the Serve loop is blocked in
  hand,       \* the response handleBinaryResponse is about to send to a waiter
  toBrowser,  \* request frames on the wire
  toServer,   \* response frames on the wire
  jobs,       \* onBinaryRequest calls suspended at "await backing.read"
  result,     \* history: the last answer request() returned, with what was asked
  crossed     \* history: the connection received an answer to an older connection's request

serverVars == <<cancelled, nextID, pending, chan, waiting, hand>>
wireVars == <<toBrowser, toServer>>
pageVars == <<opened, ws, jobs>>
histVars == <<result, crossed>>
vars == <<serverVars, wireVars, pageVars, histVars>>

Conns == 1..MaxConns
Ids == 1..MaxId
Req == [conn : Conns, id : Ids, dev : Devs]

None == 0  \* no request id

Init ==
  /\ opened = 1
  /\ ws = 1
  /\ cancelled = [c \in Conns |-> FALSE]
  /\ nextID = [c \in Conns |-> 0]
  /\ pending = [c \in Conns |-> {}]
  /\ chan = [c \in Conns |-> [i \in Ids |-> <<>>]]
  /\ waiting = [c \in Conns |-> [d \in Devs |-> None]]
  /\ hand = [c \in Conns |-> <<>>]
  /\ toBrowser = [c \in Conns |-> <<>>]
  /\ toServer = [c \in Conns |-> <<>>]
  /\ jobs = {}
  /\ result = [c \in Conns |-> [d \in Devs |-> <<>>]]
  /\ crossed = [c \in Conns |-> FALSE]

Linked(c) == ws = c

-----------------------------------------------------------------------------
(* request(): its three phases.                                            *)

\* Mutant: two loads of a plain counter, which hands the same id to two mounts.
FreshIdRacy(c) == IF nextID[c] = 0 THEN 1 ELSE nextID[c]

\* cc.nextID.Add(1): ids are fresh on their connection, and start over on the next one.
FreshId(c) == nextID[c] + 1

\* Register the request and write its frame; a frame written to a dead socket is lost.
SendRequest(c, d) ==
  LET r == [conn |-> c, id |-> FreshId(c), dev |-> d] IN
  /\ c <= opened
  /\ ~cancelled[c]
  /\ waiting[c][d] = None
  /\ r.id \in Ids
  /\ nextID' = [nextID EXCEPT ![c] = r.id]
  /\ pending' = [pending EXCEPT ![c] = @ \cup {r.id}]
  /\ waiting' = [waiting EXCEPT ![c][d] = r.id]
  /\ toBrowser' = [toBrowser EXCEPT ![c] = IF Linked(c) THEN Append(@, r) ELSE @]
  /\ UNCHANGED <<cancelled, chan, hand, toServer, pageVars, histVars>>

\* writeBinary fails on a socket that is gone or cancelled: the id is spent, the deferred
\* delete undoes the registration, and the caller gets the error.
SendFails(c, d) ==
  /\ c <= opened
  /\ cancelled[c] \/ ~Linked(c)
  /\ waiting[c][d] = None
  /\ FreshId(c) \in Ids
  /\ nextID' = [nextID EXCEPT ![c] = FreshId(c)]
  /\ UNCHANGED <<cancelled, pending, chan, waiting, hand, wireVars, pageVars, histVars>>

\* Mutant: no deferred delete.
KeepPending(c, d) ==
  /\ waiting' = [waiting EXCEPT ![c][d] = None]
  /\ UNCHANGED pending

\* The deferred delete and the return of request().
Leave(c, d) ==
  /\ waiting' = [waiting EXCEPT ![c][d] = None]
  /\ pending' = [pending EXCEPT ![c] = @ \ {waiting[c][d]}]

\* The select of request() takes the response.
TakeResponse(c, d) ==
  LET i == waiting[c][d] IN
  /\ i # None
  /\ chan[c][i] # <<>>
  /\ Leave(c, d)
  /\ chan' = [chan EXCEPT ![c][i] = Tail(@)]
  /\ result' = [result EXCEPT ![c][d] =
                  <<[conn |-> c, id |-> i, dev |-> d], Head(chan[c][i])>>]
  /\ UNCHANGED <<cancelled, nextID, hand, wireVars, pageVars, crossed>>

\* The select takes the 30 s timer, or ctx.Done() once the connection is cancelled.
GiveUp(c, d) ==
  /\ waiting[c][d] # None
  /\ Leave(c, d)
  /\ UNCHANGED <<cancelled, nextID, chan, hand, wireVars, pageVars, histVars>>

-----------------------------------------------------------------------------
(* The read loop: handleBinaryResponse.                                    *)

\* Look the waiter up under pmu; a response nobody waits for is dropped.
RouteResponse(c) ==
  /\ ~cancelled[c]
  /\ hand[c] = <<>>
  /\ toServer[c] # <<>>
  /\ LET r == Head(toServer[c]) IN
       /\ hand' = [hand EXCEPT ![c] = IF r.id \in pending[c] THEN <<r>> ELSE <<>>]
       /\ crossed' = [crossed EXCEPT ![c] = @ \/ r.conn # c]
  /\ toServer' = [toServer EXCEPT ![c] = Tail(@)]
  /\ UNCHANGED <<cancelled, nextID, pending, chan, waiting, toBrowser, pageVars, result>>

\* Mutant: an unbuffered channel.
RoomUnbuffered(c, i) == \E d \in Devs : waiting[c][d] = i /\ chan[c][i] = <<>>

\* The channel of request i can take a value without blocking the read loop.
Room(c, i) == chan[c][i] = <<>>

\* ch <- r, outside the lock; it blocks while the channel is full.
DeliverResponse(c) ==
  /\ hand[c] # <<>>
  /\ LET r == Head(hand[c]) IN
       /\ Room(c, r.id)
       /\ chan' = [chan EXCEPT ![c][r.id] = Append(@, r)]
  /\ hand' = [hand EXCEPT ![c] = <<>>]
  /\ UNCHANGED <<cancelled, nextID, pending, waiting, wireVars, pageVars, histVars>>

\* ws.Read fails on the dropped socket: cleanup cancels cc.ctx.
Cleanup(c) ==
  /\ c <= opened
  /\ ~Linked(c)
  /\ hand[c] = <<>>
  /\ ~cancelled[c]
  /\ cancelled' = [cancelled EXCEPT ![c] = TRUE]
  /\ UNCHANGED <<nextID, pending, chan, waiting, hand, wireVars, pageVars, histVars>>

-----------------------------------------------------------------------------
(* The page.                                                               *)

\* onBinaryRequest starts: the request's id is kept, its socket is not.
ReceiveRequest ==
  /\ ws # None
  /\ toBrowser[ws] # <<>>
  /\ jobs' = jobs \cup {Head(toBrowser[ws])}
  /\ toBrowser' = [toBrowser EXCEPT ![ws] = Tail(@)]
  /\ UNCHANGED <<opened, ws, serverVars, toServer, histVars>>

\* backing.read resolves (or rejects: a status-1 answer) and ws.send answers on the
\* current socket; without one the answer is lost.
AnswerRequest ==
  /\ \E r \in jobs :
       /\ jobs' = jobs \ {r}
       /\ toServer' = IF ws = None THEN toServer
                      ELSE [toServer EXCEPT ![ws] = Append(@, r)]
  /\ UNCHANGED <<opened, ws, serverVars, toBrowser, histVars>>

\* The socket drops; what was in flight on it is lost.  A page reload also loses the
\* suspended calls.
Disconnect ==
  /\ ws # None
  /\ toBrowser' = [toBrowser EXCEPT ![ws] = <<>>]
  /\ toServer' = [toServer EXCEPT ![ws] = <<>>]
  /\ ws' = None
  /\ jobs' \in {jobs, {}}
  /\ UNCHANGED <<opened, serverVars, histVars>>

\* onclose schedules connect(), which opens the next socket; the medium is mounted again.
Reconnect ==
  /\ ws = None
  /\ opened < MaxConns
  /\ opened' = opened + 1
  /\ ws' = opened + 1
  /\ UNCHANGED <<jobs, serverVars, wireVars, histVars>>

-----------------------------------------------------------------------------
Next ==
  \/ \E c \in Conns, d \in Devs :
       SendRequest(c, d) \/ SendFails(c, d) \/ TakeResponse(c, d) \/ GiveUp(c, d)
  \/ \E c \in Conns : RouteResponse(c) \/ DeliverResponse(c) \/ Cleanup(c)
  \/ ReceiveRequest
  \/ AnswerRequest
  \/ Disconnect
  \/ Reconnect

Spec == Init /\ [][Next]_vars

-----------------------------------------------------------------------------
(* Properties.                                                             *)

\* Correlation within a connection: an answer the page computed for a request of this
\* connection is handed to that very request, whatever timed out, was late or was answered
\* out of order in between.
OwnAnswersMatch ==
  \A c \in Conns, d \in Devs :
    result[c][d] # <<>> /\ result[c][d][2].conn = c => result[c][d][2] = result[c][d][1]

\* cc.pending holds exactly the requests somebody still waits for: timeouts, cancellations
\* and answers leave nothing behind.
PendingIsWaiting ==
  \A c \in Conns : pending[c] = {waiting[c][d] : d \in Devs} \ {None}

\* The send of handleBinaryResponse never blocks the read loop: "request() always drains
\* or has timed out/cancelled", as long as no older connection's answer arrives here.
ReadLoopNeverBlocks ==
  \A c \in Conns : hand[c] # <<>> /\ ~crossed[c] => Room(c, Head(hand[c]).id)

=============================================================================
