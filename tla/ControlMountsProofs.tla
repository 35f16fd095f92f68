------------------------- MODULE ControlMountsProofs -------------------------
(***************************************************************************)
(* The mounts of a /control socket and the page's panel, for any set of    *)
(* device kinds, any number of connections, attaches and clicks and any    *)
(* capacity of jsonCh.                                                     *)
(*                                                                         *)
(* Two arguments.  A session is tracked because the attach that opens it   *)
(* belongs to the worker until it is stored, and what a store or a detach  *)
(* takes out of the map belongs to the worker until it is closed.  Panel   *)
(* and backing agree because a request of a kind that nothing overtook is  *)
(* in one place of the round trip at a time: on the wire, in the hands of  *)
(* the read loop, in jsonCh, with the worker, or, as its answer, on the    *)
(* wire back.                                                              *)
(***************************************************************************)
EXTENDS ControlMounts, TLAPS

\* A worker that is not idle works on a kind.
Worker ==
  {w \in [st : {"idle", "connect", "store", "replaced", "removed"}, kind : Kinds \cup {None}, mount : Nat] :
     w.st # "idle" => w.kind \in Kinds}

\* A blocked read loop holds one message, a reading one none.
AtMostOne == {<<>>} \cup {<<m>> : m \in Message}

\* Every variable keeps its type.
TypeOK ==
  /\ opened \in Conns /\ ws \in Conns \cup {None}
  /\ ctxDone \in [Conns -> BOOLEAN]
  /\ loop \in [Conns -> {"read", "put", "done"}]
  /\ held \in [Conns -> AtMostOne]
  /\ \A c \in Conns : loop[c] = "read" => held[c] = <<>>
  /\ jsonCh \in [Conns -> Seq(Message)]
  /\ worker \in [Conns -> Worker]
  /\ mounts \in [Conns -> [Kinds -> Nat]]
  /\ nMounts \in Nat
  /\ sess \in [Mounts -> {"none", "open", "ended", "closed"}]
  /\ owner \in [Mounts -> (Conns \X Kinds) \cup {<<>>}]
  /\ panel \in [Kinds -> BOOLEAN] /\ backing \in [Kinds -> BOOLEAN]
  /\ outbox \in Seq(Message)
  /\ toServer \in [Conns -> Seq(Message)]
  /\ toPage \in [Conns -> Seq(Status)]
  /\ disturbed \in [Kinds -> BOOLEAN]

-----------------------------------------------------------------------------
(* Sessions.                                                               *)

\* A mount with a session was numbered by an attach, and knows its connection and kind.
Numbered == \A m \in Mounts : sess[m] # "none" => m <= nMounts /\ owner[m] \in Conns \X Kinds

\* A worker has a mount with a session in its hands: accepted, or taken out of the map.
Tracks(w, m) == w.st \in {"store", "replaced", "removed"} /\ w.mount = m

\* A worker in the middle of an attach works on the mount the attach was numbered, and one
\* that has a mount in its hands knows it has had a session.
WorkersOwn ==
  \A c \in Conns :
    /\ worker[c].st \in {"connect", "store"} =>
         /\ worker[c].mount <= nMounts
         /\ worker[c].mount \in Mounts => owner[worker[c].mount] = <<c, worker[c].kind>>
    /\ \A m \in Mounts : Tracks(worker[c], m) => sess[m] # "none"

\* A mount that was stored had a session.
Stored ==
  \A c \in Conns, k \in Kinds : mounts[c][k] \in Mounts => sess[mounts[c][k]] # "none"

SessionInv == TypeOK /\ Numbered /\ WorkersOwn /\ Stored /\ SessionIsTracked

-----------------------------------------------------------------------------
(* The round trip of a request.                                            *)

In(s, S) == \E i \in 1..Len(s) : s[i] \in S
Once(s, S) == \A i, j \in 1..Len(s) : s[i] \in S /\ s[j] \in S => i = j

Asks(t, k) == {[type |-> t, kind |-> k]}
Tells(t, k) == {m \in Status : m.kind = k /\ Answers(t, m)}

Places == {"out", "held", "queue", "worker", "back"}

\* A request of type t for k is at place p of connection c.
At(p, t, c, k) ==
  \/ p = "out" /\ In(toServer[c], Asks(t, k))
  \/ p = "held" /\ In(held[c], Asks(t, k))
  \/ p = "queue" /\ In(jsonCh[c], Asks(t, k))
  \/ p = "worker" /\ worker[c].st \in WorkOf(t) /\ worker[c].kind = k
  \/ p = "back" /\ In(toPage[c], Tells(t, k))

Waits(t, c, k) == \E p \in Places : At(p, t, c, k)

\* There is one attach of k on c at most.
OnePlace(c, k) ==
  \A p, q \in Places : At(p, "attach", c, k) /\ At(q, "attach", c, k) => p = q
OnceEach(c, k) ==
  /\ Once(toServer[c], Asks("attach", k))
  /\ Once(jsonCh[c], Asks("attach", k))
  /\ Once(toPage[c], Tells("attach", k))

\* While an attach of k is unanswered nothing else of k is, the panel does not show it, and
\* its backing is there; otherwise panel and backing agree.
Agree(c, k) ==
  IF Waits("attach", c, k) THEN backing[k] /\ ~panel[k] /\ ~Waits("detach", c, k)
  ELSE panel[k] = backing[k]

\* Only the connection the page is on carries requests.
Quiet(c) ==
  /\ toServer[c] = <<>> \/ c = ws
  /\ held[c] = <<>> \/ c = ws
  /\ jsonCh[c] = <<>> \/ c = ws
  /\ worker[c].st = "idle" \/ c = ws
  /\ toPage[c] = <<>> \/ c = ws

Calm(k) ==
  ~disturbed[k] =>
    /\ ws \in Conns
    /\ \A c \in Conns :
         /\ Quiet(c)
         /\ c = ws => OnePlace(c, k) /\ OnceEach(c, k) /\ Agree(c, k)

PanelInv == TypeOK /\ \A k \in Kinds : Calm(k)

-----------------------------------------------------------------------------
(* Types.                                                                  *)

\* What the bounds are used for.
LEMMA Bounds ==
  /\ MaxConns \in Nat \ {0} /\ 1 \in Conns /\ Conns \subseteq Nat \ {0} /\ None \notin Conns
  /\ Power \in Message
BY BoundsAssumption DEF Conns, None, Power, Message

\* The wires and the queue hold messages.
LEMMA SendTypes ==
  ASSUME TypeOK, NEW m \in Message, Send(m)
  PROVE  outbox' \in Seq(Message) /\ toServer' \in [Conns -> Seq(Message)]
<1>1. CASE ws = None
  <2>1. Append(outbox, m) \in Seq(Message)
    BY DEF TypeOK
  <2>2. outbox' = Append(outbox, m) /\ toServer' = toServer
    BY <1>1 DEF Send
  <2> QED
    BY <2>1, <2>2, Zenon DEF TypeOK
<1>2. CASE ws # None
  <2>1. ws \in Conns
    BY <1>2 DEF TypeOK
  <2>2. PICK s \in Seq(Message) : s = Append(toServer[ws], m)
    <3>1. Append(toServer[ws], m) \in Seq(Message)
      BY <2>1 DEF TypeOK
    <3> QED
      BY <3>1, Zenon
  <2>3. outbox' = outbox /\ toServer' = [toServer EXCEPT ![ws] = s]
    BY <1>2, <2>2 DEF Send
  <2> QED
    BY <2>1, <2>3 DEF TypeOK
<1> QED
  BY <1>1, <1>2

\* So does the wire back when the worker replies,
LEMMA ReplyTypes ==
  ASSUME TypeOK, NEW c \in Conns, NEW k \in Kinds, NEW st \in {"mounted", "unmounted", "error"},
         ReplyStatus(c, k, st)
  PROVE  toPage' \in [Conns -> Seq(Status)] /\ ctxDone' \in [Conns -> BOOLEAN]
<1>1. PICK m \in Status : m = [kind |-> k, state |-> st]
  BY DEF Status
<1>2. toPage[c] \o <<m>> \in Seq(Status)
  BY DEF TypeOK
<1>3. Reply(c, <<m>>)
  BY <1>1 DEF ReplyStatus
<1> QED
  BY ZenonT(90), <1>2, <1>3 DEF Reply, TypeOK

\* and a reply the panel does not look at leaves it alone.
LEMMA ReplyNothing ==
  ASSUME TypeOK, NEW c \in Conns, Reply(c, <<>>)
  PROVE  toPage' = toPage /\ ctxDone' \in [Conns -> BOOLEAN]
<1>1. PICK s \in Seq(Status) : s = toPage[c]
  BY DEF TypeOK
<1>2. s \o <<>> = s
  OBVIOUS
<1>3. CASE Linked(c)
  BY <1>1, <1>2, <1>3 DEF Reply, TypeOK
<1>4. CASE ~Linked(c)
  <2>1. PICK b \in BOOLEAN : ctxDone' = [ctxDone EXCEPT ![c] = @ \/ b] /\ toPage' = toPage
    BY <1>4 DEF Reply
  <2> QED
    BY <2>1 DEF TypeOK
<1> QED
  BY <1>3, <1>4

\* The head of a queue of messages is one, and so is what is left of the queue.
LEMMA QueueHead ==
  ASSUME NEW S, NEW s \in Seq(S), s # <<>>
  PROVE  Head(s) \in S /\ Tail(s) \in Seq(S)
OBVIOUS

\* The initial state has the types.
LEMMA TypeInit == Init => TypeOK
<1> SUFFICES ASSUME Init PROVE TypeOK
  OBVIOUS
<1>1. <<>> \in Seq(Message) /\ <<>> \in Seq(Status) /\ <<>> \in AtMostOne /\ <<Power>> \in Seq(Message)
  BY Bounds DEF AtMostOne
<1>2. Idle \in Worker /\ None \in Nat
  BY DEF Idle, Worker, None
<1> QED
  BY <1>1, <1>2, Bounds DEF Init, TypeOK

\* Every step of the page keeps the types,
LEMMA TypePage ==
  ASSUME TypeOK,
         \/ \E k \in Kinds : ClickMount(k) \/ ClickUnmount(k)
         \/ PollPower \/ ReceiveStatus \/ Disconnect \/ Reconnect
  PROVE  TypeOK'
<1>1. ASSUME NEW k \in Kinds, ClickMount(k) PROVE TypeOK'
  <2>1. PICK m \in Message : m = [type |-> "attach", kind |-> k]
    BY DEF Message
  <2>2. outbox' \in Seq(Message) /\ toServer' \in [Conns -> Seq(Message)]
    BY <1>1, <2>1, SendTypes DEF ClickMount
  <2>3. backing' \in [Kinds -> BOOLEAN]
    BY <1>1 DEF ClickMount, TypeOK
  <2>4. disturbed' \in [Kinds -> BOOLEAN]
    <3>1. PICK b \in BOOLEAN : b <=> (disturbed[k] \/ Unanswered("attach", k) \/ Unanswered("detach", k))
      OBVIOUS
    <3>2. disturbed' = [disturbed EXCEPT ![k] = b]
      BY <1>1, <3>1 DEF ClickMount, TypeOK
    <3> QED
      BY <3>2 DEF TypeOK
  <2> QED
    BY <1>1, <2>2, <2>3, <2>4 DEF ClickMount, TypeOK, connVars, bmcVars
<1>2. ASSUME NEW k \in Kinds, ClickUnmount(k) PROVE TypeOK'
  <2>1. PICK m \in Message : m = [type |-> "detach", kind |-> k]
    BY DEF Message
  <2>2. outbox' \in Seq(Message) /\ toServer' \in [Conns -> Seq(Message)]
    BY <1>2, <2>1, SendTypes DEF ClickUnmount
  <2> QED
    BY <1>2, <2>2 DEF ClickUnmount, TypeOK, connVars, bmcVars
<1>3. CASE PollPower
  <2>1. outbox' \in Seq(Message) /\ toServer' \in [Conns -> Seq(Message)]
    BY <1>3, Bounds, SendTypes DEF PollPower
  <2> QED
    BY <1>3, <2>1 DEF PollPower, TypeOK, connVars, bmcVars
<1>4. CASE ReceiveStatus
  <2>1. ws \in Conns
    BY <1>4 DEF ReceiveStatus, TypeOK
  <2>2. Head(toPage[ws]) \in Status /\ Tail(toPage[ws]) \in Seq(Status)
    BY <1>4, <2>1, QueueHead DEF ReceiveStatus, TypeOK
  <2>3. PICK m \in Status : m = Head(toPage[ws])
    BY <2>2
  <2>4. m.kind \in Kinds
    BY DEF Status
  <2>5. panel' \in [Kinds -> BOOLEAN] /\ backing' \in [Kinds -> BOOLEAN]
    BY <1>4, <2>3, <2>4 DEF ReceiveStatus, ShowStatus, TypeOK
  <2>6. toPage' \in [Conns -> Seq(Status)]
    BY <1>4, <2>1, <2>2 DEF ReceiveStatus, TypeOK
  <2> QED
    BY <1>4, <2>5, <2>6 DEF ReceiveStatus, TypeOK, connVars, bmcVars
<1>5. CASE Disconnect
  <2>1. <<>> \in Seq(Message) /\ <<>> \in Seq(Status)
    OBVIOUS
  <2>2. panel' \in [Kinds -> BOOLEAN] /\ backing' \in [Kinds -> BOOLEAN]
    BY <1>5 DEF Disconnect, TypeOK
  <2> QED
    BY <1>5, <2>1, <2>2 DEF Disconnect, TypeOK, connVars, bmcVars
<1>6. CASE Reconnect
  <2>1. opened + 1 \in Conns
    BY <1>6, Bounds DEF Reconnect, TypeOK, Conns
  <2>2. Append(outbox, Power) \in Seq(Message) /\ <<>> \in Seq(Message)
    BY Bounds DEF TypeOK
  <2> QED
    BY <1>6, <2>1, <2>2 DEF Reconnect, TypeOK, connVars, bmcVars
<1> QED
  BY <1>1, <1>2, <1>3, <1>4, <1>5, <1>6

\* every step of a read loop,
LEMMA TypeLoop ==
  ASSUME TypeOK, NEW c \in Conns, ReadLoopStep(c)
  PROVE  TypeOK'
<1>1. CASE ReadText(c)
  <2>1. PICK m \in Message : m = Head(toServer[c])
    <3>1. Head(toServer[c]) \in Message
      BY <1>1, QueueHead DEF ReadText, TypeOK
    <3> QED
      BY <3>1
  <2>2. Tail(toServer[c]) \in Seq(Message)
    BY <1>1, QueueHead DEF ReadText, TypeOK
  <2>3. toServer' \in [Conns -> Seq(Message)]
    BY <1>1, <2>2 DEF ReadText, TypeOK
  <2>4. CASE QueueRoom(c)
    <3>1. Append(jsonCh[c], m) \in Seq(Message)
      BY DEF TypeOK
    <3>2. jsonCh' = [jsonCh EXCEPT ![c] = Append(@, m)] /\ loop' = loop /\ held' = held
      BY <1>1, <2>1, <2>4 DEF ReadText
    <3>3. jsonCh' \in [Conns -> Seq(Message)]
      BY <3>1, <3>2 DEF TypeOK
    <3> QED
      BY <1>1, <2>3, <3>2, <3>3 DEF ReadText, TypeOK, bmcVars, pageVars
  <2>5. CASE ~QueueRoom(c)
    <3>1. /\ loop' = [loop EXCEPT ![c] = "put"] /\ held' = [held EXCEPT ![c] = <<m>>]
          /\ jsonCh' = jsonCh
      BY <1>1, <2>1, <2>5 DEF ReadText
    <3>2. <<m>> \in AtMostOne
      BY DEF AtMostOne
    <3>3. held' \in [Conns -> AtMostOne] /\ loop' \in [Conns -> {"read", "put", "done"}]
      BY <3>1, <3>2 DEF TypeOK
    <3>4. \A d \in Conns : loop'[d] = "read" => held'[d] = <<>>
      BY <3>1 DEF TypeOK
    <3> QED
      BY <1>1, <2>3, <3>1, <3>3, <3>4 DEF ReadText, TypeOK, bmcVars, pageVars
  <2> QED
    BY <2>4, <2>5
<1>2. CASE PutText(c)
  <2>1. jsonCh[c] \o held[c] \in Seq(Message)
    <3>1. CASE held[c] = <<>>
      BY <3>1 DEF TypeOK
    <3>2. CASE held[c] # <<>>
      <4>1. PICK m \in Message : held[c] = <<m>>
        BY <3>2 DEF TypeOK, AtMostOne
      <4> QED
        BY <4>1 DEF TypeOK
    <3> QED
      BY <3>1, <3>2
  <2>2. jsonCh' \in [Conns -> Seq(Message)]
    BY <1>2, <2>1 DEF PutText, TypeOK
  <2>3. held' \in [Conns -> AtMostOne] /\ loop' \in [Conns -> {"read", "put", "done"}]
    BY <1>2 DEF PutText, TypeOK, AtMostOne
  <2>4. \A d \in Conns : loop'[d] = "read" => held'[d] = <<>>
    BY <1>2 DEF PutText, TypeOK
  <2> QED
    BY <1>2, <2>2, <2>3, <2>4 DEF PutText, TypeOK, bmcVars, pageVars
<1>3. CASE Cleanup(c)
  <2>1. mounts' \in [Conns -> [Kinds -> Nat]]
    BY <1>3 DEF Cleanup, TypeOK, None
  <2>2. sess' \in [Mounts -> {"none", "open", "ended", "closed"}]
    BY <1>3 DEF Cleanup, CloseMounts, TypeOK
  <2>3. /\ ctxDone' \in [Conns -> BOOLEAN] /\ loop' \in [Conns -> {"read", "put", "done"}]
        /\ \A d \in Conns : loop'[d] = "read" => held'[d] = <<>>
    BY <1>3 DEF Cleanup, TypeOK
  <2> QED
    BY <1>3, <2>1, <2>2, <2>3 DEF Cleanup, TypeOK, pageVars
<1> QED
  BY <1>1, <1>2, <1>3 DEF ReadLoopStep

\* every step of a JSON worker,
LEMMA TypeWorker ==
  ASSUME TypeOK, NEW c \in Conns, WorkerStep(c)
  PROVE  TypeOK'
<1>0. ASSUME jsonCh[c] # <<>>
      PROVE  /\ Head(jsonCh[c]) \in Message /\ Head(jsonCh[c]).kind \in Kinds
             /\ [jsonCh EXCEPT ![c] = Tail(@)] \in [Conns -> Seq(Message)]
  <2>1. Head(jsonCh[c]) \in Message /\ Tail(jsonCh[c]) \in Seq(Message)
    BY <1>0, QueueHead DEF TypeOK
  <2>2. PICK m \in Message : m = Head(jsonCh[c])
    BY <2>1
  <2>3. m.kind \in Kinds
    BY DEF Message
  <2> QED
    BY <2>1, <2>2, <2>3 DEF TypeOK
<1>1. Idle \in Worker
  BY DEF Idle, Worker, None
<1>2. /\ worker[c] \in Worker /\ worker[c].mount \in Nat
      /\ worker[c].st # "idle" => worker[c].kind \in Kinds
  BY DEF TypeOK, Worker
<1>3. CASE HandlePower(c)
  BY <1>0, <1>3, ReplyNothing DEF HandlePower, TypeOK, bmcVars, pageVars
<1>4. CASE BeginAttach(c)
  <2>1. PICK k \in Kinds : k = Head(jsonCh[c]).kind
    BY <1>0, <1>4 DEF BeginAttach
  <2>2. PICK n \in Nat : n = nMounts + 1
    BY DEF TypeOK
  <2>3. [st |-> "connect", kind |-> k, mount |-> n] \in Worker
    BY DEF Worker
  <2>4. worker' = [worker EXCEPT ![c] = [st |-> "connect", kind |-> k, mount |-> n]]
    BY <1>4, <2>1, <2>2 DEF BeginAttach
  <2>5. owner' = [owner EXCEPT ![n] = <<c, k>>] /\ nMounts' = n
    BY <1>4, <2>1, <2>2 DEF BeginAttach
  <2>6. worker' \in [Conns -> Worker] /\ owner' \in [Mounts -> (Conns \X Kinds) \cup {<<>>}]
    BY <2>3, <2>4, <2>5 DEF TypeOK
  <2> QED
    BY <1>0, <1>4, <2>5, <2>6 DEF BeginAttach, TypeOK, pageVars
<1>5. CASE AttachFails(c)
  <2>1. toPage' \in [Conns -> Seq(Status)] /\ ctxDone' \in [Conns -> BOOLEAN]
    BY <1>2, <1>5, ReplyTypes DEF AttachFails
  <2> QED
    BY <1>1, <1>5, <2>1 DEF AttachFails, TypeOK, bmcVars, pageVars
<1>6. CASE AttachAccepted(c)
  <2>1. sess' \in [Mounts -> {"none", "open", "ended", "closed"}]
    BY <1>6 DEF AttachAccepted, TypeOK
  <2>2. [worker[c] EXCEPT !.st = "store"] \in Worker
    BY <1>2, <1>6 DEF AttachAccepted, Worker
  <2>3. worker' = [worker EXCEPT ![c] = [worker[c] EXCEPT !.st = "store"]]
    BY <1>6 DEF AttachAccepted
  <2>4. worker' \in [Conns -> Worker]
    BY <2>2, <2>3 DEF TypeOK
  <2> QED
    BY <1>6, <2>1, <2>4 DEF AttachAccepted, TypeOK, pageVars
<1>7. CASE StoreMount(c)
  <2>1. PICK k \in Kinds : k = worker[c].kind
    BY <1>2, <1>7 DEF StoreMount
  <2>2. PICK old \in Nat : old = mounts[c][k]
    BY DEF TypeOK
  <2>3. [st |-> "replaced", kind |-> k, mount |-> old] \in Worker
    BY DEF Worker
  <2>4. worker' = [worker EXCEPT ![c] = [st |-> "replaced", kind |-> k, mount |-> old]]
    BY <1>7, <2>1, <2>2 DEF StoreMount
  <2>5. worker' \in [Conns -> Worker]
    BY <2>3, <2>4 DEF TypeOK
  <2>6. mounts' \in [Conns -> [Kinds -> Nat]]
    BY <1>2, <1>7, <2>1 DEF StoreMount, TypeOK
  <2> QED
    BY <1>7, <2>5, <2>6 DEF StoreMount, TypeOK, bmcVars, pageVars
<1>8. ASSUME NEW gone, CloseMounts(gone)
      PROVE  sess' \in [Mounts -> {"none", "open", "ended", "closed"}]
  BY <1>8 DEF CloseMounts, TypeOK
<1>9. CASE AnswerAttach(c)
  <2>1. toPage' \in [Conns -> Seq(Status)] /\ ctxDone' \in [Conns -> BOOLEAN]
    BY <1>2, <1>9, ReplyTypes DEF AnswerAttach
  <2>2. sess' \in [Mounts -> {"none", "open", "ended", "closed"}]
    BY <1>8, <1>9 DEF AnswerAttach
  <2> QED
    BY <1>1, <1>9, <2>1, <2>2 DEF AnswerAttach, TypeOK, pageVars
<1>10. CASE HandleDetach(c)
  <2>1. PICK k \in Kinds : k = Head(jsonCh[c]).kind
    BY <1>0, <1>10 DEF HandleDetach
  <2>2. PICK old \in Nat : old = mounts[c][k]
    BY DEF TypeOK
  <2>3. [st |-> "removed", kind |-> k, mount |-> old] \in Worker
    BY DEF Worker
  <2>4. worker' = [worker EXCEPT ![c] = [st |-> "removed", kind |-> k, mount |-> old]]
    BY <1>10, <2>1, <2>2 DEF HandleDetach
  <2>5. worker' \in [Conns -> Worker]
    BY <2>3, <2>4 DEF TypeOK
  <2>6. mounts' \in [Conns -> [Kinds -> Nat]]
    BY <1>10, <2>1 DEF HandleDetach, TypeOK, None
  <2> QED
    BY <1>0, <1>10, <2>5, <2>6 DEF HandleDetach, TypeOK, bmcVars, pageVars
<1>11. CASE AnswerDetach(c)
  <2>1. toPage' \in [Conns -> Seq(Status)] /\ ctxDone' \in [Conns -> BOOLEAN]
    BY <1>2, <1>11, ReplyTypes DEF AnswerDetach
  <2>2. sess' \in [Mounts -> {"none", "open", "ended", "closed"}]
    BY <1>8, <1>11 DEF AnswerDetach
  <2> QED
    BY <1>1, <1>11, <2>1, <2>2 DEF AnswerDetach, TypeOK, pageVars
<1> QED
  BY <1>3, <1>4, <1>5, <1>6, <1>7, <1>9, <1>10, <1>11 DEF WorkerStep

\* and every step of a session and of the card.
LEMMA TypeStep == TypeOK /\ [Next]_vars => TypeOK'
<1> SUFFICES ASSUME TypeOK, [Next]_vars PROVE TypeOK'
  OBVIOUS
<1>1. ASSUME NEW k \in Kinds, ReleaseSlot(k) PROVE TypeOK'
  BY <1>1 DEF ReleaseSlot, TypeOK, connVars, pageVars
<1>2. ASSUME NEW m \in Mounts, CloseOnCancel(m) \/ KillRedirection(m) PROVE TypeOK'
  BY <1>2 DEF CloseOnCancel, KillRedirection, TypeOK, connVars, pageVars
<1>3. CASE UNCHANGED vars
  BY <1>3 DEF TypeOK, vars, connVars, bmcVars, pageVars
<1> QED
  BY <1>1, <1>2, <1>3, TypePage, TypeLoop, TypeWorker DEF Next

-----------------------------------------------------------------------------
(* Sessions: the invariant.                                                *)

Connected == {"open", "ended"}

\* A step that leaves owners and numbers alone, opens no session, and takes only the mounts
\* of closed sessions and of ended connections out of the maps, keeps track of every session.
LEMMA SessionsKept ==
  ASSUME SessionInv, TypeOK', UNCHANGED <<nMounts, owner, worker>>,
         \A m \in Mounts : sess'[m] = "none" <=> sess[m] = "none",
         \A m \in Mounts : sess'[m] \in Connected => sess[m] \in Connected,
         \A c \in Conns : ctxDone[c] => ctxDone'[c],
         \A c \in Conns, k \in Kinds : mounts'[c][k] \in {mounts[c][k], None},
         \A c \in Conns, k \in Kinds, m \in Mounts :
           mounts[c][k] = m => mounts'[c][k] = m \/ ctxDone'[c] \/ sess'[m] = "closed"
  PROVE  SessionInv'
<1>1. Numbered'
  BY DEF SessionInv, Numbered
<1>2. WorkersOwn'
  BY DEF SessionInv, WorkersOwn, Tracks
<1>3. Stored'
  <2>1. None \notin Mounts
    BY BoundsAssumption DEF None, Mounts
  <2> QED
    BY <2>1 DEF SessionInv, Stored
<1>4. SessionIsTracked'
  <2> SUFFICES ASSUME NEW m \in Mounts, sess'[m] \in Connected, ~ctxDone'[owner[m][1]]
               PROVE  LET c == owner[m][1]
                          k == owner[m][2]
                      IN  mounts'[c][k] = m \/ Tracks(worker[c], m)
    BY DEF SessionIsTracked, Connected, Tracks
  <2>1. sess[m] \in Connected /\ sess[m] # "none" /\ sess'[m] # "closed"
    BY DEF Connected
  <2>2. PICK c \in Conns, k \in Kinds : owner[m] = <<c, k>> /\ owner[m][1] = c /\ owner[m][2] = k
    BY <2>1 DEF SessionInv, Numbered
  <2>3. mounts[c][k] = m \/ Tracks(worker[c], m)
    BY <2>1, <2>2 DEF SessionInv, SessionIsTracked, Connected, Tracks
  <2> QED
    BY <2>1, <2>2, <2>3
<1> QED
  BY <1>1, <1>2, <1>3, <1>4 DEF SessionInv

\* At first there is no session.
LEMMA SessionsInit == Init => SessionInv
<1> SUFFICES ASSUME Init PROVE SessionInv
  OBVIOUS
<1>1. TypeOK
  BY TypeInit
<1>2. None \notin Mounts
  BY BoundsAssumption DEF None, Mounts
<1> QED
  BY <1>1, <1>2 
  DEF Init, SessionInv, Numbered, WorkersOwn, Stored, SessionIsTracked, Idle, Tracks

\* A reply cancels no connection that it does not belong to, and revives none.
LEMMA ReplyCancels ==
  ASSUME TypeOK, NEW c \in Conns, NEW msgs, Reply(c, msgs)
  PROVE  \A d \in Conns : ctxDone[d] => ctxDone'[d]
<1>1. CASE Linked(c)
  BY <1>1 DEF Reply
<1>2. CASE ~Linked(c)
  <2>1. PICK b \in BOOLEAN : ctxDone' = [ctxDone EXCEPT ![c] = @ \/ b]
    BY <1>2 DEF Reply
  <2> QED
    BY <2>1 DEF TypeOK
<1> QED
  BY <1>1, <1>2

\* The page, the read loop off its cleanup and the card open no session.
LEMMA SessionsPage ==
  ASSUME SessionInv, TypeOK',
         \/ \E k \in Kinds : ClickMount(k) \/ ClickUnmount(k) \/ ReleaseSlot(k)
         \/ PollPower \/ ReceiveStatus \/ Disconnect \/ Reconnect
         \/ \E m \in Mounts : CloseOnCancel(m) \/ KillRedirection(m)
         \/ \E c \in Conns : ReadText(c) \/ PutText(c)
         \/ UNCHANGED vars
  PROVE  SessionInv'
<1>1. UNCHANGED <<nMounts, owner, worker, ctxDone, mounts>>
  BY DEF ClickMount, ClickUnmount, ReleaseSlot, PollPower, ReceiveStatus, Disconnect, Reconnect,
         CloseOnCancel, KillRedirection, ReadText, PutText, vars, connVars, bmcVars, pageVars
<1>2. /\ \A m \in Mounts : sess'[m] = "none" <=> sess[m] = "none"
      /\ \A m \in Mounts : sess'[m] \in Connected => sess[m] \in Connected
  <2>1. CASE UNCHANGED sess
    BY <2>1
  <2>2. ASSUME NEW n \in Mounts, CloseOnCancel(n) \/ KillRedirection(n)
        PROVE  /\ \A m \in Mounts : sess'[m] = "none" <=> sess[m] = "none"
               /\ \A m \in Mounts : sess'[m] \in Connected => sess[m] \in Connected
    BY ZenonT(90), <2>2 DEF CloseOnCancel, KillRedirection, SessionInv, TypeOK, Connected
  <2> QED
    BY <2>1, <2>2
    DEF ClickMount, ClickUnmount, ReleaseSlot, PollPower, ReceiveStatus, Disconnect, Reconnect,
        ReadText, PutText, vars, bmcVars
<1> QED
  BY <1>1, <1>2, SessionsKept

\* A connection that ends takes its mounts with it.
LEMMA SessionsCleanup ==
  ASSUME SessionInv, TypeOK', NEW c \in Conns, Cleanup(c)
  PROVE  SessionInv'
<1>1. UNCHANGED <<nMounts, owner, worker>>
  BY DEF Cleanup
<1>2. /\ \A m \in Mounts : sess'[m] \in {sess[m], "closed"}
      /\ \A m \in Mounts : sess'[m] # sess[m] => \E k \in Kinds : mounts[c][k] = m
  BY DEF Cleanup, CloseMounts
<1>3. \A m \in Mounts : sess'[m] = "none" <=> sess[m] = "none"
  BY <1>2 DEF SessionInv, Stored
<1>4. \A m \in Mounts : sess'[m] \in Connected => sess[m] \in Connected
  BY <1>2 DEF Connected
<1>5. ctxDone'[c] /\ \A d \in Conns : ctxDone[d] => ctxDone'[d]
  BY DEF Cleanup, SessionInv, TypeOK
<1>6. \A d \in Conns, k \in Kinds :
        mounts'[d][k] \in {mounts[d][k], None} /\ (d # c => mounts'[d][k] = mounts[d][k])
  BY DEF Cleanup, SessionInv, TypeOK
<1> QED
  BY <1>1, <1>3, <1>4, <1>5, <1>6, SessionsKept

\* Worker's steps.  A message about power opens nothing;
LEMMA SessionsPower ==
  ASSUME SessionInv, TypeOK', NEW c \in Conns, HandlePower(c)
  PROVE  SessionInv'
<1>1. UNCHANGED <<nMounts, owner, worker, sess, mounts>>
  BY DEF HandlePower, bmcVars
<1>2. \A d \in Conns : ctxDone[d] => ctxDone'[d]
  BY ReplyCancels DEF HandlePower, SessionInv
<1> QED
  BY <1>1, <1>2, SessionsKept

\* what a store or a detach takes out of the map is in the worker's hands,
LEMMA SessionsTaken ==
  ASSUME SessionInv, TypeOK', NEW c \in Conns, NEW k \in Kinds, NEW n \in Nat,
         NEW st \in {"replaced", "removed"},
         UNCHANGED <<ctxDone, nMounts, owner, sess>>,
         mounts' = [mounts EXCEPT ![c][k] = n],
         worker' = [worker EXCEPT ![c] = [st |-> st, kind |-> k, mount |-> mounts[c][k]]],
         n \in Mounts => sess[n] # "none",
         \A m \in Mounts : Tracks(worker[c], m) => m = n /\ owner[m] = <<c, k>>
  PROVE  SessionInv'
<1>1. /\ mounts'[c][k] = n
      /\ \A d \in Conns, j \in Kinds : d # c \/ j # k => mounts'[d][j] = mounts[d][j]
  BY DEF SessionInv, TypeOK
<1>2. /\ worker'[c].st = st /\ worker'[c].mount = mounts[c][k]
      /\ \A d \in Conns : d # c => worker'[d] = worker[d]
  BY DEF SessionInv, TypeOK
<1>3. Numbered' /\ Stored'
  BY <1>1 DEF SessionInv, Numbered, Stored
<1>4. WorkersOwn'
  <2>1. \A d \in Conns, m \in Mounts : Tracks(worker'[d], m) => sess[m] # "none"
    BY <1>2 DEF SessionInv, WorkersOwn, Stored, Tracks
  <2>2. \A d \in Conns : worker'[d].st \in {"connect", "store"} => worker'[d] = worker[d]
    BY <1>2
  <2> QED
    BY <2>1, <2>2 DEF SessionInv, WorkersOwn, Tracks
<1>5. SessionIsTracked'
  <2> SUFFICES ASSUME NEW m \in Mounts, sess[m] \in Connected, ~ctxDone[owner[m][1]]
               PROVE  LET d == owner[m][1]
                          j == owner[m][2]
                      IN  mounts'[d][j] = m \/ Tracks(worker'[d], m)
    BY DEF SessionIsTracked, Connected, Tracks
  <2>1. PICK d \in Conns, j \in Kinds : owner[m] = <<d, j>> /\ owner[m][1] = d /\ owner[m][2] = j
    BY DEF Connected, SessionInv, Numbered
  <2>2. mounts[d][j] = m \/ Tracks(worker[d], m)
    BY <2>1 DEF SessionInv, SessionIsTracked, Connected, Tracks
  <2>3. CASE d = c /\ j = k
    <3>1. CASE mounts[d][j] = m
      BY <1>2, <2>1, <2>3, <3>1 DEF Tracks
    <3>2. CASE Tracks(worker[d], m)
      BY <1>1, <2>1, <2>3, <3>2
    <3> QED
      BY <2>2, <3>1, <3>2
  <2>4. CASE d = c /\ j # k
    BY <1>1, <2>1, <2>2, <2>4
  <2>5. CASE d # c
    BY <1>1, <1>2, <2>1, <2>2, <2>5
  <2> QED
    BY <2>3, <2>4, <2>5
<1> QED
  BY <1>3, <1>4, <1>5 DEF SessionInv

\* until it is closed;
LEMMA SessionsClosed ==
  ASSUME SessionInv, TypeOK', NEW c \in Conns, AnswerAttach(c) \/ AnswerDetach(c)
  PROVE  SessionInv'
<1>1. PICK n \in Nat : n = worker[c].mount
  BY DEF SessionInv, TypeOK, Worker
<1>2. /\ UNCHANGED <<nMounts, owner, mounts>> /\ worker[c].st \in {"replaced", "removed"}
      /\ worker' = [worker EXCEPT ![c] = Idle] /\ CloseMounts({n} \ {None})
  BY <1>1 DEF AnswerAttach, AnswerDetach
<1>3. \A d \in Conns : ctxDone[d] => ctxDone'[d]
  BY ReplyCancels DEF AnswerAttach, AnswerDetach, ReplyStatus, SessionInv
<1>4. worker'[c].st = "idle" /\ \A d \in Conns : d # c => worker'[d] = worker[d]
  BY <1>2 DEF SessionInv, TypeOK, Idle
<1>5. \A m \in Mounts : sess'[m] = IF m = n THEN "closed" ELSE sess[m]
  <2>1. None \notin Mounts
    BY BoundsAssumption DEF None, Mounts
  <2> QED
    BY <1>2, <2>1 DEF CloseMounts
<1>6. \A m \in Mounts : sess'[m] = "none" <=> sess[m] = "none"
  BY <1>1, <1>2, <1>5 DEF SessionInv, WorkersOwn, Tracks
<1>7. Numbered' /\ Stored'
  BY <1>2, <1>6 DEF SessionInv, Numbered, Stored
<1>8. WorkersOwn'
  BY ZenonT(90), <1>2, <1>4, <1>6 DEF SessionInv, WorkersOwn, Tracks
<1>9. SessionIsTracked'
  <2> SUFFICES ASSUME NEW m \in Mounts, sess'[m] \in Connected, ~ctxDone'[owner[m][1]]
               PROVE  LET d == owner[m][1]
                          j == owner[m][2]
                      IN  mounts[d][j] = m \/ Tracks(worker'[d], m)
    BY <1>2 DEF SessionIsTracked, Connected, Tracks
  <2>1. m # n /\ sess[m] \in Connected
    BY <1>5 DEF Connected
  <2>2. PICK d \in Conns, j \in Kinds : owner[m] = <<d, j>> /\ owner[m][1] = d /\ owner[m][2] = j
    BY <2>1 DEF Connected, SessionInv, Numbered
  <2>3. mounts[d][j] = m \/ Tracks(worker[d], m)
    BY <1>3, <2>1, <2>2 DEF SessionInv, SessionIsTracked, Connected, Tracks
  <2>4. d = c => ~Tracks(worker[d], m)
    BY <1>1, <2>1 DEF Tracks
  <2> QED
    BY <1>4, <2>2, <2>3, <2>4
<1> QED
  BY <1>7, <1>8, <1>9 DEF SessionInv

\* a detach takes the mount of its kind;
LEMMA SessionsDetach ==
  ASSUME SessionInv, TypeOK', NEW c \in Conns, HandleDetach(c)
  PROVE  SessionInv'
<1>1. PICK k \in Kinds : k = Head(jsonCh[c]).kind
  <2>1. Head(jsonCh[c]) \in Message
    BY QueueHead DEF HandleDetach, SessionInv, TypeOK
  <2>2. PICK m \in Message : m = Head(jsonCh[c])
    BY <2>1
  <2> QED
    BY <2>2 DEF Message
<1>2. /\ UNCHANGED <<ctxDone, nMounts, owner, sess>> /\ worker[c].st = "idle"
      /\ mounts' = [mounts EXCEPT ![c][k] = None]
      /\ worker' = [worker EXCEPT ![c] = [st |-> "removed", kind |-> k, mount |-> mounts[c][k]]]
  BY <1>1 DEF HandleDetach, bmcVars
<1>3. None \in Nat /\ None \notin Mounts
  BY BoundsAssumption DEF None, Mounts
<1>4. \A m \in Mounts : ~Tracks(worker[c], m)
  BY <1>2 DEF Tracks
<1> QED
  BY <1>2, <1>3, <1>4, SessionsTaken

\* an attach gets a number nobody has, and owns its mount until it fails, ...
LEMMA SessionsAttach ==
  ASSUME SessionInv, TypeOK', NEW c \in Conns, BeginAttach(c) \/ AttachFails(c)
  PROVE  SessionInv'
<1>1. CASE BeginAttach(c)
  <2>1. PICK n \in Nat : n = nMounts + 1 /\ nMounts < n /\ nMounts \in Nat
    BY DEF SessionInv, TypeOK
  <2>2. PICK k : k = Head(jsonCh[c]).kind
    OBVIOUS
  <2>3. /\ UNCHANGED <<ctxDone, mounts, sess>> /\ nMounts' = n
        /\ worker[c].st = "idle"
        /\ worker' = [worker EXCEPT ![c] = [st |-> "connect", kind |-> k, mount |-> n]]
        /\ owner' = [owner EXCEPT ![n] = <<c, k>>]
    BY <1>1, <2>1, <2>2 DEF BeginAttach
  <2>4. \A m \in Mounts : m # n => owner'[m] = owner[m]
    BY <2>3 DEF SessionInv, TypeOK
  <2>5. n \in Mounts => owner'[n] = <<c, k>>
    BY <2>3 DEF SessionInv, TypeOK
  <2>6. /\ worker'[c].st = "connect" /\ worker'[c].mount = n /\ worker'[c].kind = k
        /\ \A d \in Conns : d # c => worker'[d] = worker[d]
    BY <2>3 DEF SessionInv, TypeOK
  <2>7. \A m \in Mounts : m <= nMounts => m <= n /\ m # n
    BY <2>1 DEF Mounts
  <2>8. \A m \in Mounts : sess[m] # "none" => m # n /\ owner'[m] = owner[m]
    BY <2>4, <2>7 DEF SessionInv, Numbered
  <2>9. Numbered'
    BY <2>3, <2>7, <2>8 DEF SessionInv, Numbered
  <2>10. WorkersOwn'
    <3>1. \A d \in Conns, m \in Mounts : Tracks(worker'[d], m) => sess[m] # "none"
      BY <2>6 DEF SessionInv, WorkersOwn, Tracks
    <3> SUFFICES ASSUME NEW d \in Conns, worker'[d].st \in {"connect", "store"}
                 PROVE  /\ worker'[d].mount <= n
                        /\ worker'[d].mount \in Mounts =>
                             owner'[worker'[d].mount] = <<d, worker'[d].kind>>
      BY <2>3, <3>1 DEF WorkersOwn, Tracks
    <3>2. CASE d = c
      BY <2>1, <2>5, <2>6, <3>2
    <3>3. CASE d # c
      <4>1. /\ worker'[d] = worker[d] /\ worker[d].st \in {"connect", "store"}
        BY <2>6, <3>3
      <4>2. PICK m \in Nat : m = worker[d].mount
        BY DEF SessionInv, TypeOK, Worker
      <4>3. m <= nMounts
        BY <4>1, <4>2 DEF SessionInv, WorkersOwn
      <4>4. m <= n
        BY <2>1, <4>3
      <4>5. m \in Mounts => owner'[m] = owner[m]
        BY <2>4, <2>7, <4>3
      <4> QED
        BY <4>1, <4>2, <4>4, <4>5 DEF SessionInv, WorkersOwn
    <3> QED
      BY <3>2, <3>3
  <2>11. Stored'
    BY <2>3 DEF SessionInv, Stored
  <2>12. SessionIsTracked'
    <3> SUFFICES ASSUME NEW m \in Mounts, sess[m] \in Connected, ~ctxDone[owner'[m][1]]
                 PROVE  LET d == owner'[m][1]
                            j == owner'[m][2]
                        IN  mounts[d][j] = m \/ Tracks(worker'[d], m)
      BY <2>3 DEF SessionIsTracked, Connected, Tracks
    <3>1. owner'[m] = owner[m] /\ owner[m] \in Conns \X Kinds
      BY <2>8 DEF Connected, SessionInv, Numbered
    <3>2. PICK d \in Conns, j \in Kinds : owner[m] = <<d, j>> /\ owner[m][1] = d /\ owner[m][2] = j
      BY <3>1
    <3>3. mounts[d][j] = m \/ Tracks(worker[d], m)
      BY <3>1, <3>2 DEF SessionInv, SessionIsTracked, Connected, Tracks
    <3>4. Tracks(worker[d], m) => worker'[d] = worker[d]
      BY <2>3, <2>6 DEF Tracks
    <3> QED
      BY <3>1, <3>2, <3>3, <3>4
  <2> QED
    BY <2>9, <2>10, <2>11, <2>12 DEF SessionInv
<1>2. CASE AttachFails(c)
  <2>1. /\ UNCHANGED <<mounts, sess, nMounts, owner>> /\ worker[c].st = "connect"
        /\ worker' = [worker EXCEPT ![c] = Idle]
    BY <1>2 DEF AttachFails, bmcVars
  <2>2. \A d \in Conns : ctxDone[d] => ctxDone'[d]
    BY <1>2, ReplyCancels DEF AttachFails, ReplyStatus, SessionInv
  <2>3. worker'[c].st = "idle" /\ \A d \in Conns : d # c => worker'[d] = worker[d]
    BY <2>1 DEF SessionInv, TypeOK, Idle
  <2>4. Numbered' /\ Stored'
    BY <2>1 DEF SessionInv, Numbered, Stored
  <2>5. WorkersOwn'
    BY ZenonT(90), <2>1, <2>3 DEF SessionInv, WorkersOwn, Tracks
  <2>6. SessionIsTracked'
    <3> SUFFICES ASSUME NEW m \in Mounts, sess[m] \in Connected, ~ctxDone'[owner[m][1]]
                 PROVE  LET d == owner[m][1]
                            j == owner[m][2]
                        IN  mounts[d][j] = m \/ Tracks(worker'[d], m)
      BY <2>1 DEF SessionIsTracked, Connected, Tracks
    <3>1. PICK d \in Conns, j \in Kinds : owner[m] = <<d, j>> /\ owner[m][1] = d /\ owner[m][2] = j
      BY DEF Connected, SessionInv, Numbered
    <3>2. mounts[d][j] = m \/ Tracks(worker[d], m)
      BY <2>2, <3>1 DEF SessionInv, SessionIsTracked, Connected, Tracks
    <3>3. d = c => ~Tracks(worker[d], m)
      BY <2>1 DEF Tracks
    <3> QED
      BY <2>1, <2>3, <3>1, <3>2, <3>3
  <2> QED
    BY <2>4, <2>5, <2>6 DEF SessionInv
<1> QED
  BY <1>1, <1>2

\* ... or is accepted and stored.
LEMMA SessionsStore ==
  ASSUME SessionInv, TypeOK', NEW c \in Conns, AttachAccepted(c) \/ StoreMount(c)
  PROVE  SessionInv'
<1>1. PICK n \in Nat : n = worker[c].mount
  BY DEF SessionInv, TypeOK, Worker
<1>2. PICK k \in Kinds : k = worker[c].kind
  BY DEF SessionInv, TypeOK, Worker, AttachAccepted, StoreMount
<1>3. n <= nMounts /\ (n \in Mounts => owner[n] = <<c, k>>)
  BY <1>1, <1>2 DEF SessionInv, WorkersOwn, AttachAccepted, StoreMount
<1>4. CASE AttachAccepted(c)
  <2>1. /\ UNCHANGED <<ctxDone, mounts, nMounts, owner>> /\ worker[c].st = "connect"
        /\ sess' = [sess EXCEPT ![n] = "open"]
        /\ worker' = [worker EXCEPT ![c].st = "store"]
    BY <1>1, <1>4 DEF AttachAccepted
  <2>2. /\ worker'[c].st = "store" /\ worker'[c].mount = n /\ worker'[c].kind = k
        /\ \A d \in Conns : d # c => worker'[d] = worker[d]
    BY <1>1, <1>2, <2>1 DEF SessionInv, TypeOK, Worker
  <2>3. \A m \in Mounts : sess'[m] = IF m = n THEN "open" ELSE sess[m]
    BY <2>1 DEF SessionInv, TypeOK
  <2>4. Numbered'
    BY SMTT(60), <1>3, <2>1, <2>3 DEF SessionInv, Numbered
  <2>5. Stored'
    BY <2>1, <2>3 DEF SessionInv, Stored
  <2>6. WorkersOwn'
    <3>1. \A d \in Conns, m \in Mounts : Tracks(worker'[d], m) => sess'[m] # "none"
      BY <2>2, <2>3 DEF SessionInv, WorkersOwn, Tracks
    <3>2. \A d \in Conns :
            worker'[d].st \in {"connect", "store"} =>
              /\ worker'[d].mount <= nMounts
              /\ worker'[d].mount \in Mounts => owner[worker'[d].mount] = <<d, worker'[d].kind>>
      BY SMTT(60), <1>3, <2>2 DEF SessionInv, WorkersOwn
    <3> QED
      BY <2>1, <3>1, <3>2 DEF WorkersOwn, Tracks
  <2>7. SessionIsTracked'
    <3> SUFFICES ASSUME NEW m \in Mounts, sess'[m] \in Connected, ~ctxDone[owner[m][1]]
                 PROVE  LET d == owner[m][1]
                            j == owner[m][2]
                        IN  mounts[d][j] = m \/ Tracks(worker'[d], m)
      BY <2>1 DEF SessionIsTracked, Connected, Tracks
    <3>1. CASE m = n
      BY <1>3, <2>2, <3>1 DEF Tracks
    <3>2. CASE m # n
      <4>1. sess[m] \in Connected
        BY <2>3, <3>2
      <4>2. PICK d \in Conns, j \in Kinds :
              owner[m] = <<d, j>> /\ owner[m][1] = d /\ owner[m][2] = j
        BY <4>1 DEF Connected, SessionInv, Numbered
      <4>3. mounts[d][j] = m \/ Tracks(worker[d], m)
        BY <4>1, <4>2 DEF SessionInv, SessionIsTracked, Connected, Tracks
      <4>4. d = c => ~Tracks(worker[d], m)
        BY <2>1 DEF Tracks
      <4> QED
        BY <2>1, <2>2, <4>2, <4>3, <4>4
    <3> QED
      BY <3>1, <3>2
  <2> QED
    BY <2>4, <2>5, <2>6, <2>7 DEF SessionInv
<1>5. CASE StoreMount(c)
  <2>1. /\ UNCHANGED <<ctxDone, nMounts, owner, sess>> /\ worker[c].st = "store"
        /\ mounts' = [mounts EXCEPT ![c][k] = n]
        /\ worker' = [worker EXCEPT ![c] = [st |-> "replaced", kind |-> k, mount |-> mounts[c][k]]]
    BY <1>1, <1>2, <1>5 DEF StoreMount, bmcVars
  <2>2. \A m \in Mounts : Tracks(worker[c], m) => m = n /\ owner[m] = <<c, k>>
    BY <1>1, <1>3 DEF Tracks
  <2>3. n \in Mounts => sess[n] # "none"
    BY <1>1, <2>1 DEF SessionInv, WorkersOwn, Tracks
  <2> QED
    BY <2>1, <2>2, <2>3, SessionsTaken
<1> QED
  BY <1>4, <1>5

\* A session that is connected to the card while its connection lives is in cc.mounts under
\* its kind, about to be, or about to be closed, through replaced mounts, detaches, failed attaches, lost
\* connections and redirections the card ends: a detach reaches it.
THEOREM MountSafety == Spec => []SessionIsTracked
<1>1. SessionInv /\ [Next]_vars => SessionInv'
  <2> SUFFICES ASSUME SessionInv, [Next]_vars PROVE SessionInv'
    OBVIOUS
  <2>1. TypeOK'
    BY TypeStep DEF SessionInv
  <2> QED
    BY <2>1, SessionsPage, SessionsCleanup, SessionsPower, SessionsDetach, SessionsAttach,
       SessionsStore, SessionsClosed
    DEF Next, ReadLoopStep, WorkerStep
<1>2. SessionInv => SessionIsTracked
  BY DEF SessionInv
<1> QED
  BY <1>1, <1>2, SessionsInit, PTL DEF Spec

-----------------------------------------------------------------------------
(* Round trips: sequences and places.                                      *)

\* What is in a queue after something is added,
LEMMA InAppend ==
  ASSUME NEW T, NEW s \in Seq(T), NEW x \in T, NEW S
  PROVE  /\ In(Append(s, x), S) <=> In(s, S) \/ x \in S
         /\ Once(s, S) /\ (x \in S => ~In(s, S)) => Once(Append(s, x), S)
<1>1. PICK n \in Nat : n = Len(s)
  OBVIOUS
<1>2. PICK t \in Seq(T) : t = Append(s, x)
  <2>1. Append(s, x) \in Seq(T)
    OBVIOUS
  <2> QED
    BY <2>1, Zenon
<1>3. Len(t) = n + 1 /\ t[n + 1] = x /\ \A i \in 1..n : t[i] = s[i]
  BY <1>1, <1>2
<1>4. \A i : i \in 1..(n + 1) <=> i \in 1..n \/ i = n + 1
  OBVIOUS
<1>5. In(t, S) <=> In(s, S) \/ x \in S
  BY <1>1, <1>3, <1>4, Zenon DEF In
<1>6. ASSUME Once(s, S), x \in S => ~In(s, S) PROVE Once(t, S)
  <2> SUFFICES ASSUME NEW i \in 1..(n + 1), NEW j \in 1..(n + 1), t[i] \in S, t[j] \in S
               PROVE  i = j
    BY <1>3 DEF Once
  <2>1. CASE i \in 1..n /\ j \in 1..n
    BY <1>1, <1>3, <1>6, <2>1 DEF Once
  <2>2. CASE i = n + 1 /\ j \in 1..n
    BY <1>1, <1>3, <1>6, <2>2 DEF In
  <2>3. CASE i \in 1..n /\ j = n + 1
    BY <1>1, <1>3, <1>6, <2>3 DEF In
  <2> QED
    BY <1>4, <2>1, <2>2, <2>3
<1> QED
  BY <1>2, <1>5, <1>6

\* after its head is taken off,
LEMMA InTail ==
  ASSUME NEW T, NEW s \in Seq(T), s # <<>>, NEW S
  PROVE  /\ Head(s) \in T /\ Tail(s) \in Seq(T)
         /\ In(s, S) <=> Head(s) \in S \/ In(Tail(s), S)
         /\ Once(s, S) => Once(Tail(s), S) /\ (Head(s) \in S => ~In(Tail(s), S))
<1>1. PICK n \in Nat \ {0} : n = Len(s)
  OBVIOUS
<1>2. PICK t \in Seq(T) : t = Tail(s)
  <2>1. Tail(s) \in Seq(T)
    OBVIOUS
  <2> QED
    BY <2>1, Zenon
<1>3. Len(t) = n - 1 /\ Head(s) = s[1] /\ Head(s) \in T /\ \A i \in 1..(n - 1) : t[i] = s[i + 1]
  BY <1>1, <1>2
<1>4. 1 \in 1..n /\ \A i \in 1..(n - 1) : i + 1 \in 1..n /\ i + 1 # 1
  OBVIOUS
<1>5. \A i \in 1..n : i = 1 \/ \E j \in 1..(n - 1) : i = j + 1
  <2> TAKE i \in 1..n
  <2>1. CASE i # 1
    <3>1. i - 1 \in 1..(n - 1) /\ i = (i - 1) + 1
      BY <2>1
    <3> QED
      BY <3>1
  <2> QED
    BY <2>1
<1>6. In(s, S) <=> Head(s) \in S \/ In(t, S)
  <2>1. ASSUME In(s, S) PROVE Head(s) \in S \/ In(t, S)
    <3>1. PICK i \in 1..n : s[i] \in S
      BY <1>1, <2>1 DEF In
    <3>2. CASE i = 1
      BY <1>3, <3>1, <3>2
    <3>3. CASE \E j \in 1..(n - 1) : i = j + 1
      BY <1>3, <3>1, <3>3 DEF In
    <3> QED
      BY <1>5, <3>2, <3>3
  <2>2. ASSUME Head(s) \in S PROVE In(s, S)
    BY <1>1, <1>3, <1>4, <2>2 DEF In
  <2>3. ASSUME In(t, S) PROVE In(s, S)
    <3>1. PICK i \in 1..(n - 1) : t[i] \in S
      BY <1>3, <2>3 DEF In
    <3>2. i + 1 \in 1..n /\ s[i + 1] \in S
      BY <1>3, <1>4, <3>1
    <3> QED
      BY <1>1, <3>2 DEF In
  <2> QED
    BY <2>1, <2>2, <2>3
<1>7. ASSUME Once(s, S) PROVE Once(t, S) /\ (Head(s) \in S => ~In(t, S))
  <2>1. ASSUME NEW i \in 1..(n - 1), NEW j \in 1..(n - 1), t[i] \in S, t[j] \in S
        PROVE  i = j
    <3>1. i + 1 = j + 1
      BY <1>1, <1>3, <1>4, <1>7, <2>1 DEF Once
    <3> QED
      BY <3>1
  <2>2. ASSUME Head(s) \in S, NEW i \in 1..(n - 1), t[i] \in S PROVE FALSE
    BY <1>1, <1>3, <1>4, <1>7, <2>2 DEF Once
  <2> QED
    BY <1>3, <2>1, <2>2 DEF Once, In
<1> QED
  BY <1>2, <1>3, <1>6, <1>7

\* and when there is one thing in it or nothing.
LEMMA InShort ==
  ASSUME NEW S
  PROVE  /\ ~In(<<>>, S)
         /\ \A x : In(<<x>>, S) <=> x \in S
         /\ Once(<<>>, S) /\ \A x : Once(<<x>>, S)
<1>1. ASSUME NEW x PROVE (In(<<x>>, S) <=> x \in S) /\ Once(<<x>>, S)
  <2>1. Len(<<x>>) = 1 /\ <<x>>[1] = x /\ 1..1 = {1}
    OBVIOUS
  <2> QED
    BY <2>1, Zenon DEF In, Once
<1>2. Len(<<>>) = 0 /\ 1..0 = {}
  OBVIOUS
<1> QED
  BY <1>1, <1>2, Zenon DEF In, Once

\* The places, one by one.
LEMMA AtPlaces ==
  ASSUME NEW t, NEW c, NEW k
  PROVE  /\ At("out", t, c, k) <=> In(toServer[c], Asks(t, k))
         /\ At("held", t, c, k) <=> In(held[c], Asks(t, k))
         /\ At("queue", t, c, k) <=> In(jsonCh[c], Asks(t, k))
         /\ At("worker", t, c, k) <=> worker[c].st \in WorkOf(t) /\ worker[c].kind = k
         /\ At("back", t, c, k) <=> In(toPage[c], Tells(t, k))
BY DEF At

\* The same after a step.
LEMMA AtPlacesNext ==
  ASSUME NEW t, NEW c, NEW k
  PROVE  /\ At("out", t, c, k)' <=> In(toServer'[c], Asks(t, k))
         /\ At("held", t, c, k)' <=> In(held'[c], Asks(t, k))
         /\ At("queue", t, c, k)' <=> In(jsonCh'[c], Asks(t, k))
         /\ At("worker", t, c, k)' <=> worker'[c].st \in WorkOf(t) /\ worker'[c].kind = k
         /\ At("back", t, c, k)' <=> In(toPage'[c], Tells(t, k))
BY DEF At

\* A request that moves from one place to the next is still under way, and still in one place.
LEMMA Moved ==
  ASSUME NEW c, NEW k, NEW t, NEW p \in Places, NEW q \in Places, p # q, NEW b \in BOOLEAN,
         \A r \in Places \ {p, q} : At(r, t, c, k)' <=> At(r, t, c, k),
         At(p, t, c, k) <=> b \/ At(p, t, c, k)',
         At(q, t, c, k)' <=> At(q, t, c, k) \/ b
  PROVE  /\ Waits(t, c, k)' <=> Waits(t, c, k)
         /\ t = "attach" /\ OnePlace(c, k) /\ (b => ~At(p, t, c, k)') => OnePlace(c, k)'
<1>1. Waits(t, c, k)' <=> Waits(t, c, k)
  BY DEF Waits
<1>2. ASSUME t = "attach", OnePlace(c, k), b => ~At(p, t, c, k)',
             NEW r \in Places, NEW s \in Places,
             At(r, "attach", c, k)', At(s, "attach", c, k)'
      PROVE  r = s
  BY <1>2 DEF OnePlace
<1> QED
  BY <1>1, <1>2 DEF OnePlace

\* What happens to other requests changes nothing.
LEMMA Unmoved ==
  ASSUME NEW c, NEW k, NEW t, \A r \in Places : At(r, t, c, k)' <=> At(r, t, c, k)
  PROVE  /\ Waits(t, c, k)' <=> Waits(t, c, k)
         /\ t = "attach" /\ OnePlace(c, k) => OnePlace(c, k)'
BY DEF Waits, OnePlace

\* The carriers of requests of connection d are left alone.
Still(d) == UNCHANGED <<toServer[d], held[d], jsonCh[d], worker[d], toPage[d]>>

\* A step on the connection the page is on keeps a kind calm that is well there after it.
LEMMA CalmHere ==
  ASSUME NEW k \in Kinds, Calm(k), ~disturbed[k], UNCHANGED ws,
         NEW c \in Conns, c = ws, \A d \in Conns : d = c \/ Still(d),
         OnePlace(c, k)', OnceEach(c, k)', Agree(c, k)'
  PROVE  Calm(k)'
<1>1. \A d \in Conns : Quiet(d)'
  BY DEF Calm, Quiet, Still
<1>2. \A d \in Conns : d = ws' => d = c
  OBVIOUS
<1>3. \A d \in Conns : d = ws' => OnePlace(d, k)' /\ OnceEach(d, k)' /\ Agree(d, k)'
  BY <1>2
<1> QED
  BY <1>1, <1>3 DEF Calm

\* A step inside the round trip, away from what the page knows of k, keeps it calm.
LEMMA CalmMoved ==
  ASSUME NEW k \in Kinds, Calm(k), ~disturbed[k], UNCHANGED <<ws, panel[k], backing[k]>>,
         NEW c \in Conns, c = ws, \A d \in Conns : d = c \/ Still(d),
         Waits("attach", c, k)' <=> Waits("attach", c, k),
         Waits("detach", c, k)' => Waits("detach", c, k),
         OnePlace(c, k)', OnceEach(c, k)'
  PROVE  Calm(k)'
<1>1. Agree(c, k)'
  BY DEF Calm, Agree
<1> QED
  BY <1>1, CalmHere

\* A step away from what the page knows of k, on connection c only, that moves the requests of k in
\* moved, if any, from place p to place q.
Passed(c, k, p, q, moved) ==
  /\ UNCHANGED <<ws, panel[k], backing[k]>>
  /\ \A d \in Conns : d = c \/ Still(d)
  /\ \A t \in {"attach", "detach"} :
       /\ \A r \in Places \ {p, q} : At(r, t, c, k)' <=> At(r, t, c, k)
       /\ At(p, t, c, k) <=> (t \in moved \/ At(p, t, c, k)')
       /\ At(q, t, c, k)' <=> (At(q, t, c, k) \/ t \in moved)
  /\ "attach" \in moved => ~At(p, "attach", c, k)'
  /\ OnceEach(c, k)'

\* Such a step keeps a calm kind calm.
LEMMA CalmPassed ==
  ASSUME NEW k \in Kinds, Calm(k), ~disturbed[k], NEW c \in Conns, c = ws,
         NEW p \in Places, NEW q \in Places, p # q,
         NEW moved \in SUBSET {"attach", "detach"},
         Passed(c, k, p, q, moved)
  PROVE  Calm(k)'
<1>1. ASSUME NEW t \in {"attach", "detach"}
      PROVE  /\ Waits(t, c, k)' <=> Waits(t, c, k)
             /\ t = "attach" => OnePlace(c, k)'
  <2>1. PICK b \in BOOLEAN : b <=> t \in moved
    OBVIOUS
  <2>2. OnePlace(c, k)
    BY DEF Calm
  <2>3. /\ \A r \in Places \ {p, q} : At(r, t, c, k)' <=> At(r, t, c, k)
        /\ At(p, t, c, k) <=> (b \/ At(p, t, c, k)')
        /\ At(q, t, c, k)' <=> (At(q, t, c, k) \/ b)
    BY <2>1 DEF Passed
  <2>4. t = "attach" => (b => ~At(p, t, c, k)')
    BY <2>1 DEF Passed
  <2> QED
    BY <2>2, <2>3, <2>4, Moved
<1> QED
  BY <1>1, CalmMoved DEF Passed

\* What is asked in a queue of one message, and in an empty one.
LEMMA AsksShort ==
  ASSUME NEW t, NEW k, NEW m
  PROVE  ~In(<<>>, Asks(t, k)) /\ (In(<<m>>, Asks(t, k)) <=> m \in Asks(t, k))
BY InShort

\* The read loop takes a request off the wire, into jsonCh or into its own hands;
LEMMA CalmReadText ==
  ASSUME PanelInv, NEW c \in Conns, ReadText(c), NEW k \in Kinds, ~disturbed[k]
  PROVE  Calm(k)'
<1>1. c = ws /\ Calm(k)
  BY DEF PanelInv, Calm, Quiet, ReadText
<1>2. OnePlace(c, k) /\ OnceEach(c, k)
  BY <1>1 DEF Calm
<1>3. toServer[c] \in Seq(Message) /\ jsonCh[c] \in Seq(Message) /\ toServer[c] # <<>>
  BY DEF ReadText, PanelInv, TypeOK
<1>4. PICK m \in Message : m = Head(toServer[c])
  BY <1>3, QueueHead
<1>5. PICK rest \in Seq(Message) : rest = Tail(toServer[c])
  BY <1>3, QueueHead
<1>6. toServer'[c] = rest /\ \A d \in Conns : d # c => toServer'[d] = toServer[d]
  BY <1>5 DEF ReadText, PanelInv, TypeOK
<1>7. ASSUME NEW t
      PROVE  /\ In(toServer[c], Asks(t, k)) <=> (m \in Asks(t, k) \/ In(rest, Asks(t, k)))
             /\ Once(toServer[c], Asks(t, k)) =>
                  Once(rest, Asks(t, k)) /\ (m \in Asks(t, k) => ~In(rest, Asks(t, k)))
  BY <1>3, <1>4, <1>5, InTail
<1>8. UNCHANGED <<ws, disturbed, panel, backing, worker, toPage>>
  BY DEF ReadText, pageVars
<1>m. PICK moved \in SUBSET {"attach", "detach"} :
        \A t \in {"attach", "detach"} : t \in moved <=> m \in Asks(t, k)
  <2>1. {t \in {"attach", "detach"} : m \in Asks(t, k)} \in SUBSET {"attach", "detach"}
    OBVIOUS
  <2> QED
    BY <2>1
<1>9. CASE QueueRoom(c)
  <2>1. jsonCh' = [jsonCh EXCEPT ![c] = Append(@, m)] /\ held' = held
    BY <1>4, <1>9 DEF ReadText
  <2>2. jsonCh'[c] = Append(jsonCh[c], m) /\ \A d \in Conns : d # c => jsonCh'[d] = jsonCh[d]
    BY <2>1 DEF PanelInv, TypeOK
  <2>3. ASSUME NEW t
        PROVE  /\ In(jsonCh'[c], Asks(t, k)) <=> (In(jsonCh[c], Asks(t, k)) \/ m \in Asks(t, k))
               /\ Once(jsonCh[c], Asks(t, k)) /\ (m \in Asks(t, k) => ~In(jsonCh[c], Asks(t, k)))
                    => Once(jsonCh'[c], Asks(t, k))
    BY <1>3, <2>2, InAppend
  <2>4. \A d \in Conns : d = c \/ Still(d)
    BY <1>6, <1>8, <2>1, <2>2 DEF Still
  <2>5. ASSUME NEW t \in {"attach", "detach"}
        PROVE  /\ \A r \in Places \ {"out", "queue"} : At(r, t, c, k)' <=> At(r, t, c, k)
               /\ At("out", t, c, k) <=> (t \in moved \/ At("out", t, c, k)')
               /\ At("queue", t, c, k)' <=> (At("queue", t, c, k) \/ t \in moved)
    BY <1>m, <1>6, <1>7, <1>8, <2>1, <2>3, AtPlaces, AtPlacesNext DEF Places
  <2>6. "attach" \in moved => ~At("out", "attach", c, k)' /\ ~At("queue", "attach", c, k)
    BY <1>m, <1>2, <1>6, <1>7, AtPlaces, AtPlacesNext DEF OnceEach, OnePlace, Places
  <2>7. OnceEach(c, k)'
    BY <1>m, <1>2, <1>6, <1>7, <1>8, <2>3, <2>6, AtPlaces DEF OnceEach
  <2>8. Passed(c, k, "out", "queue", moved)
    BY <1>8, <2>4, <2>5, <2>6, <2>7 DEF Passed
  <2> QED
    BY <1>1, <2>8, CalmPassed DEF Places
<1>10. CASE ~QueueRoom(c)
  <2>1. held' = [held EXCEPT ![c] = <<m>>] /\ jsonCh' = jsonCh /\ held[c] = <<>>
    BY <1>4, <1>10 DEF ReadText, PanelInv, TypeOK
  <2>2. held'[c] = <<m>> /\ \A d \in Conns : d # c => held'[d] = held[d]
    BY <2>1 DEF PanelInv, TypeOK
  <2>3. ASSUME NEW t
        PROVE  (In(held'[c], Asks(t, k)) <=> m \in Asks(t, k)) /\ ~In(held[c], Asks(t, k))
    BY <2>1, <2>2, AsksShort
  <2>4. \A d \in Conns : d = c \/ Still(d)
    BY <1>6, <1>8, <2>1, <2>2 DEF Still
  <2>5. ASSUME NEW t \in {"attach", "detach"}
        PROVE  /\ \A r \in Places \ {"out", "held"} : At(r, t, c, k)' <=> At(r, t, c, k)
               /\ At("out", t, c, k) <=> (t \in moved \/ At("out", t, c, k)')
               /\ At("held", t, c, k)' <=> (At("held", t, c, k) \/ t \in moved)
    BY <1>m, <1>6, <1>7, <1>8, <2>1, <2>3, AtPlaces, AtPlacesNext DEF Places
  <2>6. "attach" \in moved => ~At("out", "attach", c, k)'
    BY <1>m, <1>2, <1>6, <1>7, AtPlaces, AtPlacesNext DEF OnceEach
  <2>7. OnceEach(c, k)'
    BY <1>2, <1>6, <1>7, <1>8, <2>1 DEF OnceEach
  <2>8. Passed(c, k, "out", "held", moved)
    BY <1>8, <2>4, <2>5, <2>6, <2>7 DEF Passed
  <2> QED
    BY <1>1, <2>8, CalmPassed DEF Places
<1> QED
  BY <1>9, <1>10

\* what it held goes to jsonCh;
LEMMA CalmPutText ==
  ASSUME PanelInv, NEW c \in Conns, PutText(c), NEW k \in Kinds, ~disturbed[k]
  PROVE  Calm(k)'
<1>0. jsonCh[c] \in Seq(Message) /\ held[c] \in AtMostOne /\ Calm(k) /\ ws \in Conns
  BY DEF PanelInv, TypeOK, Calm
<1>1. UNCHANGED <<ws, disturbed, panel, backing, toServer, worker, toPage>>
  BY DEF PutText, pageVars
<1>2. /\ jsonCh'[c] = jsonCh[c] \o held[c] /\ held'[c] = <<>>
      /\ \A d \in Conns : d # c => jsonCh'[d] = jsonCh[d] /\ held'[d] = held[d]
  BY DEF PutText, PanelInv, TypeOK
<1>3. CASE held[c] = <<>>
  <2>1. PICK s \in Seq(Message) : s = jsonCh[c]
    BY <1>0
  <2>2. s \o <<>> = s
    OBVIOUS
  <2>3. jsonCh'[c] = jsonCh[c] /\ held'[c] = held[c]
    BY <1>2, <1>3, <2>1, <2>2
  <2>4. \A d \in Conns : Still(d)
    BY <1>1, <1>2, <2>3 DEF Still
  <2>5. \A t \in {"attach", "detach"}, r \in Places : At(r, t, ws, k)' <=> At(r, t, ws, k)
    BY <1>0, <1>1, <2>4, AtPlaces, AtPlacesNext DEF Places, Still
  <2>6. OnceEach(ws, k)'
    BY <1>0, <1>1, <2>4 DEF OnceEach, Still, Calm
  <2>7. Passed(ws, k, "held", "queue", {})
    BY <1>0, <1>1, <2>4, <2>5, <2>6 DEF Passed, Places
  <2> QED
    BY <1>0, <2>7, CalmPassed DEF Places
<1>4. CASE held[c] # <<>>
  <2>1. PICK m \in Message : held[c] = <<m>>
    BY <1>0, <1>4 DEF AtMostOne
  <2>2. c = ws
    BY <1>0, <1>4 DEF Calm, Quiet
  <2>3. jsonCh'[c] = Append(jsonCh[c], m)
    BY <1>0, <1>2, <2>1
  <2>4. OnePlace(c, k) /\ OnceEach(c, k)
    BY <1>0, <2>2 DEF Calm
  <2>m. PICK moved \in SUBSET {"attach", "detach"} :
          \A t \in {"attach", "detach"} : t \in moved <=> m \in Asks(t, k)
    <3>1. {t \in {"attach", "detach"} : m \in Asks(t, k)} \in SUBSET {"attach", "detach"}
      OBVIOUS
    <3> QED
      BY <3>1
  <2>5. ASSUME NEW t
        PROVE  /\ In(jsonCh'[c], Asks(t, k)) <=> (In(jsonCh[c], Asks(t, k)) \/ m \in Asks(t, k))
               /\ Once(jsonCh[c], Asks(t, k)) /\ (m \in Asks(t, k) => ~In(jsonCh[c], Asks(t, k)))
                    => Once(jsonCh'[c], Asks(t, k))
               /\ In(held[c], Asks(t, k)) <=> m \in Asks(t, k)
               /\ ~In(held'[c], Asks(t, k))
    <3>1. In(held[c], Asks(t, k)) <=> m \in Asks(t, k)
      BY <2>1, AsksShort
    <3>2. ~In(held'[c], Asks(t, k))
      BY <1>2, AsksShort
    <3> QED
      BY <1>0, <2>3, <3>1, <3>2, InAppend
  <2>6. \A d \in Conns : d = c \/ Still(d)
    BY <1>1, <1>2 DEF Still
  <2>7. ASSUME NEW t \in {"attach", "detach"}
        PROVE  /\ \A r \in Places \ {"held", "queue"} : At(r, t, c, k)' <=> At(r, t, c, k)
               /\ At("held", t, c, k) <=> (t \in moved \/ At("held", t, c, k)')
               /\ At("queue", t, c, k)' <=> (At("queue", t, c, k) \/ t \in moved)
    BY <1>1, <2>m, <2>5, AtPlaces, AtPlacesNext DEF Places
  <2>8. ~At("held", "attach", c, k)' /\ ("attach" \in moved => ~At("queue", "attach", c, k))
    BY <2>m, <2>4, <2>5, AtPlaces, AtPlacesNext DEF OnePlace, Places
  <2>9. OnceEach(c, k)'
    BY <1>1, <2>m, <2>4, <2>5, <2>8, AtPlaces DEF OnceEach
  <2>10. Passed(c, k, "held", "queue", moved)
    BY <1>0, <1>1, <2>6, <2>7, <2>8, <2>9 DEF Passed
  <2> QED
    BY <1>0, <2>2, <2>10, CalmPassed DEF Places
<1> QED
  BY <1>3, <1>4

\* A message asks what its type and kind say.
LEMMA MessageAsks ==
  ASSUME NEW m \in Message, NEW t, NEW k
  PROVE  m \in Asks(t, k) <=> m.type = t /\ m.kind = k
BY DEF Message, Asks

\* Taking the head of jsonCh,
LEMMA QueueTaken ==
  ASSUME TypeOK, NEW c \in Conns, jsonCh[c] # <<>>, jsonCh' = [jsonCh EXCEPT ![c] = Tail(@)],
         NEW t, NEW k
  PROVE  /\ In(jsonCh[c], Asks(t, k)) <=>
              ((Head(jsonCh[c]).type = t /\ Head(jsonCh[c]).kind = k) \/ In(jsonCh'[c], Asks(t, k)))
         /\ Once(jsonCh[c], Asks(t, k)) =>
              /\ Once(jsonCh'[c], Asks(t, k))
              /\ Head(jsonCh[c]).type = t /\ Head(jsonCh[c]).kind = k => ~In(jsonCh'[c], Asks(t, k))
         /\ \A d \in Conns : d # c => jsonCh'[d] = jsonCh[d]
<1>1. jsonCh[c] \in Seq(Message)
  BY DEF TypeOK
<1>2. PICK m \in Message : m = Head(jsonCh[c])
  BY <1>1, QueueHead
<1>3. jsonCh'[c] = Tail(jsonCh[c]) /\ \A d \in Conns : d # c => jsonCh'[d] = jsonCh[d]
  BY DEF TypeOK
<1>4. /\ In(jsonCh[c], Asks(t, k)) <=> (m \in Asks(t, k) \/ In(jsonCh'[c], Asks(t, k)))
      /\ Once(jsonCh[c], Asks(t, k)) =>
           Once(jsonCh'[c], Asks(t, k)) /\ (m \in Asks(t, k) => ~In(jsonCh'[c], Asks(t, k)))
  BY <1>1, <1>2, <1>3, InTail
<1> QED
  BY <1>2, <1>3, <1>4, MessageAsks

\* and a reply on the connection the page is on.
LEMMA ReplyArrives ==
  ASSUME TypeOK, NEW c \in Conns, c = ws, NEW j \in Kinds,
         NEW st \in {"mounted", "unmounted", "error"}, ReplyStatus(c, j, st),
         NEW t, NEW k
  PROVE  /\ In(toPage'[c], Tells(t, k)) <=>
              (In(toPage[c], Tells(t, k)) \/ (j = k /\ ((st = "unmounted") = (t = "detach"))))
         /\ /\ Once(toPage[c], Tells(t, k))
            /\ j = k /\ ((st = "unmounted") = (t = "detach")) => ~In(toPage[c], Tells(t, k))
            => Once(toPage'[c], Tells(t, k))
         /\ \A d \in Conns : d # c => toPage'[d] = toPage[d]
<1>1. PICK m \in Status : m = [kind |-> j, state |-> st]
  BY DEF Status
<1>2. toPage[c] \in Seq(Status)
  BY DEF TypeOK
<1>3. toPage' = [toPage EXCEPT ![c] = @ \o <<m>>]
  BY <1>1 DEF ReplyStatus, Reply, Linked
<1>4. toPage'[c] = toPage[c] \o <<m>> /\ \A d \in Conns : d # c => toPage'[d] = toPage[d]
  BY <1>3 DEF TypeOK
<1>5. toPage'[c] = Append(toPage[c], m)
  BY <1>2, <1>4
<1>6. m \in Tells(t, k) <=> j = k /\ ((st = "unmounted") = (t = "detach"))
  BY <1>1 DEF Tells, Answers
<1>7. /\ In(toPage'[c], Tells(t, k)) <=> (In(toPage[c], Tells(t, k)) \/ m \in Tells(t, k))
      /\ Once(toPage[c], Tells(t, k)) /\ (m \in Tells(t, k) => ~In(toPage[c], Tells(t, k)))
           => Once(toPage'[c], Tells(t, k))
  BY <1>2, <1>5, InAppend
<1> QED
  BY <1>4, <1>6, <1>7

\* The states of the worker tell the two requests apart.
LEMMA WorkOfApart ==
  /\ "idle" \notin WorkOf("attach") /\ "idle" \notin WorkOf("detach")
  /\ WorkOf("attach") \cap WorkOf("detach") = {}
BY DEF WorkOf

\* The worker takes a request from jsonCh;
LEMMA CalmTake ==
  ASSUME PanelInv, NEW c \in Conns, BeginAttach(c) \/ HandleDetach(c), NEW k \in Kinds,
         ~disturbed[k]
  PROVE  Calm(k)'
<1>1. c = ws /\ Calm(k) /\ OnePlace(c, k) /\ OnceEach(c, k)
  BY DEF PanelInv, Calm, Quiet, BeginAttach, HandleDetach
<1>2. UNCHANGED <<ws, disturbed, panel, backing, toServer, held, toPage>>
  BY DEF BeginAttach, HandleDetach, pageVars
<1>3. PICK j : j = Head(jsonCh[c]).kind
  OBVIOUS
<1>a. PICK a \in {"attach", "detach"} :
        /\ Head(jsonCh[c]).type = a
        /\ \E w : w.st \in WorkOf(a) /\ w.kind = j /\ worker' = [worker EXCEPT ![c] = w]
  <2>1. CASE BeginAttach(c)
    <3> DEFINE w == [st |-> "connect", kind |-> j, mount |-> nMounts + 1]
    <3>1. w.st \in WorkOf("attach") /\ w.kind = j
      BY DEF WorkOf
    <3>2. Head(jsonCh[c]).type = "attach" /\ worker' = [worker EXCEPT ![c] = w]
      BY <1>3, <2>1 DEF BeginAttach
    <3> HIDE DEF w
    <3> QED
      BY <3>1, <3>2, Zenon
  <2>2. CASE HandleDetach(c)
    <3> DEFINE w == [st |-> "removed", kind |-> j, mount |-> mounts[c][j]]
    <3>1. w.st \in WorkOf("detach") /\ w.kind = j
      BY DEF WorkOf
    <3>2. Head(jsonCh[c]).type = "detach" /\ worker' = [worker EXCEPT ![c] = w]
      BY <1>3, <2>2 DEF HandleDetach
    <3> HIDE DEF w
    <3> QED
      BY <3>1, <3>2, Zenon
  <2> QED
    BY <2>1, <2>2
<1>b. PICK w : w.st \in WorkOf(a) /\ w.kind = j /\ worker' = [worker EXCEPT ![c] = w]
  BY <1>a
<1>4. worker[c].st = "idle" /\ jsonCh[c] # <<>> /\ jsonCh' = [jsonCh EXCEPT ![c] = Tail(@)]
  BY DEF BeginAttach, HandleDetach
<1>5. /\ worker'[c].st \in WorkOf(a) /\ worker'[c].kind = j
      /\ \A d \in Conns : d # c => worker'[d] = worker[d]
  BY <1>b DEF PanelInv, TypeOK
<1>6. ASSUME NEW t
      PROVE  /\ In(jsonCh[c], Asks(t, k)) <=> ((t = a /\ j = k) \/ In(jsonCh'[c], Asks(t, k)))
             /\ Once(jsonCh[c], Asks(t, k)) =>
                  /\ Once(jsonCh'[c], Asks(t, k))
                  /\ t = a /\ j = k => ~In(jsonCh'[c], Asks(t, k))
             /\ \A d \in Conns : d # c => jsonCh'[d] = jsonCh[d]
  BY <1>3, <1>a, <1>4, QueueTaken DEF PanelInv
<1>7. \A d \in Conns : d = c \/ Still(d)
  BY <1>2, <1>5, <1>6 DEF Still
<1>8. PICK moved \in SUBSET {"attach", "detach"} :
        \A t \in {"attach", "detach"} : t \in moved <=> t = a /\ j = k
  <2>1. {t \in {"attach", "detach"} : t = a /\ j = k} \in SUBSET {"attach", "detach"}
    OBVIOUS
  <2> QED
    BY <2>1
<1>9. ASSUME NEW t \in {"attach", "detach"}
      PROVE  /\ \A r \in Places \ {"queue", "worker"} : At(r, t, c, k)' <=> At(r, t, c, k)
             /\ At("queue", t, c, k) <=> (t \in moved \/ At("queue", t, c, k)')
             /\ At("worker", t, c, k)' <=> (At("worker", t, c, k) \/ t \in moved)
  <2>1. (worker'[c].st \in WorkOf(t) <=> t = a) /\ worker[c].st \notin WorkOf(t)
    BY <1>4, <1>5, WorkOfApart
  <2>2. At("worker", t, c, k)' <=> (At("worker", t, c, k) \/ t \in moved)
    BY <1>5, <1>8, <2>1, AtPlaces, AtPlacesNext
  <2>3. At("queue", t, c, k) <=> (t \in moved \/ At("queue", t, c, k)')
    BY <1>6, <1>8, AtPlaces, AtPlacesNext
  <2> QED
    BY <1>2, <2>2, <2>3, AtPlaces, AtPlacesNext DEF Places
<1>10. "attach" \in moved => ~At("queue", "attach", c, k)'
  BY <1>1, <1>6, <1>8, AtPlacesNext DEF OnceEach
<1>11. OnceEach(c, k)'
  BY <1>1, <1>2, <1>6 DEF OnceEach
<1>12. Passed(c, k, "queue", "worker", moved)
  BY <1>2, <1>7, <1>9, <1>10, <1>11 DEF Passed
<1> QED
  BY <1>1, <1>12, CalmPassed DEF Places

\* answers it, an attach with an error or once the mount is stored;
LEMMA CalmAnswer ==
  ASSUME PanelInv, NEW c \in Conns, AttachFails(c) \/ AnswerAttach(c) \/ AnswerDetach(c),
         NEW k \in Kinds, ~disturbed[k]
  PROVE  Calm(k)'
<1>0. worker[c].st # "idle" /\ worker' = [worker EXCEPT ![c] = Idle]
  BY DEF AttachFails, AnswerAttach, AnswerDetach
<1>1. c = ws /\ Calm(k) /\ OnePlace(c, k) /\ OnceEach(c, k)
  BY <1>0 DEF PanelInv, Calm, Quiet
<1>2. UNCHANGED <<ws, disturbed, panel, backing, toServer, held, jsonCh>>
  BY DEF AttachFails, AnswerAttach, AnswerDetach, pageVars
<1>3. PICK j \in Kinds : j = worker[c].kind
  BY <1>0 DEF PanelInv, TypeOK, Worker
<1>4. PICK a \in {"attach", "detach"}, st \in {"mounted", "unmounted", "error"} :
        /\ ReplyStatus(c, j, st) /\ worker[c].st \in WorkOf(a)
        /\ (st = "unmounted") = (a = "detach")
  <2>1. CASE AttachFails(c)
    <3>1. ReplyStatus(c, j, "error") /\ worker[c].st \in WorkOf("attach")
      BY <1>3, <2>1 DEF AttachFails, WorkOf
    <3> QED
      BY <3>1
  <2>2. CASE AnswerAttach(c)
    <3>1. ReplyStatus(c, j, "mounted") /\ worker[c].st \in WorkOf("attach")
      BY <1>3, <2>2 DEF AnswerAttach, WorkOf
    <3> QED
      BY <3>1
  <2>3. CASE AnswerDetach(c)
    <3>1. ReplyStatus(c, j, "unmounted") /\ worker[c].st \in WorkOf("detach")
      BY <1>3, <2>3 DEF AnswerDetach, WorkOf
    <3> QED
      BY <3>1
  <2> QED
    BY <2>1, <2>2, <2>3
<1>5. worker'[c].st = "idle" /\ \A d \in Conns : d # c => worker'[d] = worker[d]
  BY <1>0 DEF PanelInv, TypeOK, Idle
<1>6. ASSUME NEW t \in {"attach", "detach"}
      PROVE  /\ In(toPage'[c], Tells(t, k)) <=> (In(toPage[c], Tells(t, k)) \/ (t = a /\ j = k))
             /\ Once(toPage[c], Tells(t, k)) /\ (t = a /\ j = k => ~In(toPage[c], Tells(t, k)))
                  => Once(toPage'[c], Tells(t, k))
             /\ \A d \in Conns : d # c => toPage'[d] = toPage[d]
  <2>1. ((st = "unmounted") = (t = "detach")) <=> t = a
    BY <1>4
  <2> QED
    BY <1>1, <1>4, <2>1, ReplyArrives DEF PanelInv
<1>7. \A d \in Conns : d = c \/ Still(d)
  BY <1>2, <1>5, <1>6 DEF Still
<1>8. PICK moved \in SUBSET {"attach", "detach"} :
        \A t \in {"attach", "detach"} : t \in moved <=> t = a /\ j = k
  <2>1. {t \in {"attach", "detach"} : t = a /\ j = k} \in SUBSET {"attach", "detach"}
    OBVIOUS
  <2> QED
    BY <2>1
<1>9. ASSUME NEW t \in {"attach", "detach"}
      PROVE  /\ \A r \in Places \ {"worker", "back"} : At(r, t, c, k)' <=> At(r, t, c, k)
             /\ At("worker", t, c, k) <=> (t \in moved \/ At("worker", t, c, k)')
             /\ At("back", t, c, k)' <=> (At("back", t, c, k) \/ t \in moved)
  <2>1. (worker[c].st \in WorkOf(t) <=> t = a) /\ worker'[c].st \notin WorkOf(t)
    BY <1>4, <1>5, WorkOfApart
  <2>2. At("worker", t, c, k) <=> (t \in moved \/ At("worker", t, c, k)')
    BY <1>3, <1>8, <2>1, AtPlaces, AtPlacesNext
  <2>3. At("back", t, c, k)' <=> (At("back", t, c, k) \/ t \in moved)
    BY <1>6, <1>8, AtPlaces, AtPlacesNext
  <2> QED
    BY <1>2, <2>2, <2>3, AtPlaces, AtPlacesNext DEF Places
<1>10. ~At("worker", "attach", c, k)'
  BY <1>5, WorkOfApart, AtPlacesNext
<1>11. OnceEach(c, k)'
  <2>1. a = "attach" /\ j = k => ~In(toPage[c], Tells("attach", k))
    BY <1>1, <1>3, <1>4, AtPlaces DEF OnePlace, Places
  <2> QED
    BY <1>1, <1>2, <1>6, <2>1 DEF OnceEach
<1>12. Passed(c, k, "worker", "back", moved)
  BY <1>2, <1>7, <1>9, <1>10, <1>11 DEF Passed
<1> QED
  BY <1>1, <1>12, CalmPassed DEF Places

\* handles a message about power;
LEMMA CalmPower ==
  ASSUME PanelInv, NEW c \in Conns, HandlePower(c), NEW k \in Kinds, ~disturbed[k]
  PROVE  Calm(k)'
<1>1. c = ws /\ Calm(k) /\ OnceEach(c, k)
  BY DEF PanelInv, Calm, Quiet, HandlePower
<1>2. UNCHANGED <<ws, disturbed, panel, backing, toServer, held, worker, toPage>>
  BY ReplyNothing DEF HandlePower, pageVars, PanelInv
<1>3. jsonCh[c] # <<>> /\ Head(jsonCh[c]).type = "power"
  BY DEF HandlePower
<1>4. ASSUME NEW t \in {"attach", "detach"}
      PROVE  /\ In(jsonCh[c], Asks(t, k)) <=> In(jsonCh'[c], Asks(t, k))
             /\ Once(jsonCh[c], Asks(t, k)) => Once(jsonCh'[c], Asks(t, k))
             /\ \A d \in Conns : d # c => jsonCh'[d] = jsonCh[d]
  BY <1>3, QueueTaken DEF HandlePower, PanelInv
<1>5. \A d \in Conns : d = c \/ Still(d)
  BY <1>2, <1>4 DEF Still
<1>6. \A t \in {"attach", "detach"}, r \in Places : At(r, t, c, k)' <=> At(r, t, c, k)
  BY <1>2, <1>4, AtPlaces, AtPlacesNext DEF Places
<1>7. OnceEach(c, k)'
  BY <1>1, <1>2, <1>4 DEF OnceEach
<1>8. Passed(c, k, "queue", "back", {})
  BY <1>2, <1>5, <1>6, <1>7 DEF Passed, Places
<1> QED
  BY <1>1, <1>8, CalmPassed DEF Places

\* and the rest of what the server and the card do moves no request.
LEMMA CalmElsewhere ==
  ASSUME PanelInv, NEW k \in Kinds, ~disturbed[k],
         \/ \E c \in Conns : Cleanup(c) \/ AttachAccepted(c) \/ StoreMount(c)
         \/ \E m \in Mounts : CloseOnCancel(m) \/ KillRedirection(m)
         \/ \E j \in Kinds : ReleaseSlot(j)
  PROVE  Calm(k)'
<1>1. UNCHANGED <<ws, disturbed, panel, backing, toServer, held, jsonCh, toPage>>
  BY DEF Cleanup, AttachAccepted, StoreMount, CloseOnCancel, KillRedirection, ReleaseSlot, pageVars,
         bmcVars, connVars
<1>2. Calm(k) /\ ws \in Conns /\ OnceEach(ws, k)
  BY DEF PanelInv, Calm
<1>3. ASSUME NEW d \in Conns
      PROVE  /\ worker'[d].kind = worker[d].kind /\ (d = ws \/ worker'[d] = worker[d])
             /\ worker'[d].st # worker[d].st =>
                  worker[d].st \in WorkOf("attach") /\ worker'[d].st \in WorkOf("attach")
  <2>1. ASSUME NEW c \in Conns, AttachAccepted(c) \/ StoreMount(c)
        PROVE  /\ worker'[d].kind = worker[d].kind /\ (d = ws \/ worker'[d] = worker[d])
               /\ worker'[d].st # worker[d].st =>
                    worker[d].st \in WorkOf("attach") /\ worker'[d].st \in WorkOf("attach")
    <3>1. c = ws
      BY <1>2, <2>1 DEF AttachAccepted, StoreMount, Calm, Quiet
    <3>2. d # c => worker'[d] = worker[d]
      BY <2>1 DEF AttachAccepted, StoreMount, PanelInv, TypeOK
    <3>3. /\ worker'[c].kind = worker[c].kind
          /\ worker[c].st \in {"connect", "store"} /\ worker'[c].st \in {"store", "replaced"}
      <4>1. CASE AttachAccepted(c)
        BY <4>1 DEF AttachAccepted, PanelInv, TypeOK, Worker
      <4>2. CASE StoreMount(c)
        BY <4>2 DEF StoreMount, PanelInv, TypeOK
      <4> QED
        BY <2>1, <4>1, <4>2
    <3> QED
      BY <3>1, <3>2, <3>3 DEF WorkOf
  <2>2. CASE ~\E c \in Conns : AttachAccepted(c) \/ StoreMount(c)
    BY <2>2 DEF Cleanup, CloseOnCancel, KillRedirection, ReleaseSlot, connVars
  <2> QED
    BY <2>1, <2>2
<1>4. \A d \in Conns : d = ws \/ Still(d)
  BY <1>1, <1>3 DEF Still
<1>5. \A t \in {"attach", "detach"}, r \in Places : At(r, t, ws, k)' <=> At(r, t, ws, k)
  <2>1. \A t \in {"attach", "detach"} : worker'[ws].st \in WorkOf(t) <=> worker[ws].st \in WorkOf(t)
    BY <1>2, <1>3, WorkOfApart
  <2> QED
    BY <1>1, <1>2, <1>3, <2>1, AtPlaces, AtPlacesNext DEF Places
<1>6. OnceEach(ws, k)'
  BY <1>1, <1>2 DEF OnceEach
<1>7. Passed(ws, k, "out", "held", {})
  BY <1>1, <1>4, <1>5, <1>6 DEF Passed, Places
<1> QED
  BY <1>2, <1>7, CalmPassed DEF Places

\* What the page sends while its socket is up is on the wire.
LEMMA SendArrives ==
  ASSUME TypeOK, ws \in Conns, NEW m \in Message, Send(m), NEW t, NEW k
  PROVE  /\ In(toServer'[ws], Asks(t, k)) <=>
              (In(toServer[ws], Asks(t, k)) \/ (m.type = t /\ m.kind = k))
         /\ /\ Once(toServer[ws], Asks(t, k))
            /\ m.type = t /\ m.kind = k => ~In(toServer[ws], Asks(t, k))
            => Once(toServer'[ws], Asks(t, k))
         /\ \A d \in Conns : d # ws => toServer'[d] = toServer[d]
<1>1. ws # None
  BY Bounds
<1>2. /\ toServer'[ws] = Append(toServer[ws], m) /\ toServer[ws] \in Seq(Message)
      /\ \A d \in Conns : d # ws => toServer'[d] = toServer[d]
  BY <1>1 DEF Send, TypeOK
<1>3. /\ In(toServer'[ws], Asks(t, k)) <=> (In(toServer[ws], Asks(t, k)) \/ m \in Asks(t, k))
      /\ Once(toServer[ws], Asks(t, k)) /\ (m \in Asks(t, k) => ~In(toServer[ws], Asks(t, k)))
           => Once(toServer'[ws], Asks(t, k))
  BY <1>2, InAppend
<1> QED
  BY <1>2, <1>3, MessageAsks

\* A request under way is unanswered.
LEMMA WaitsUnanswered ==
  ASSUME TypeOK, NEW k \in Kinds, NEW c \in Conns, NEW t, Waits(t, c, k)
  PROVE  Unanswered(t, k)
<1>1. ASSUME NEW T, NEW s \in Seq(T), NEW S, In(s, S) PROVE \E x \in ToSet(s) : x \in S
  <2>1. PICK i \in 1..Len(s) : s[i] \in S
    BY <1>1 DEF In
  <2> QED
    BY <2>1 DEF ToSet
<1>2. /\ toServer[c] \in Seq(Message) /\ jsonCh[c] \in Seq(Message) /\ toPage[c] \in Seq(Status)
      /\ held[c] \in Seq(Message)
  <2>1. <<>> \in Seq(Message) /\ \A m \in Message : <<m>> \in Seq(Message)
    OBVIOUS
  <2>2. held[c] \in AtMostOne
    BY DEF TypeOK
  <2>3. held[c] \in Seq(Message)
    BY <2>1, <2>2, Zenon DEF AtMostOne
  <2> QED
    BY <2>3 DEF TypeOK
<1>3. PICK p \in Places : At(p, t, c, k)
  BY DEF Waits
<1>4. CASE p = "out"
  BY <1>1, <1>2, <1>3, <1>4 DEF At, Asks, Unanswered
<1>5. CASE p = "held"
  BY <1>1, <1>2, <1>3, <1>5 DEF At, Asks, Unanswered
<1>6. CASE p = "queue"
  BY <1>1, <1>2, <1>3, <1>6 DEF At, Asks, Unanswered
<1>7. CASE p = "worker"
  BY <1>3, <1>7, Zenon DEF At, Unanswered
<1>8. CASE p = "back"
  BY <1>1, <1>2, <1>3, <1>8 DEF At, Tells, Unanswered
<1> QED
  BY <1>4, <1>5, <1>6, <1>7, <1>8 DEF Places

\* Sending what asks nothing about a kind leaves it calm.
LEMMA CalmSend ==
  ASSUME PanelInv, NEW k \in Kinds, ~disturbed[k],
         UNCHANGED <<ws, panel[k], backing[k], held, jsonCh, worker, toPage>>,
         NEW m \in Message, Send(m), m.type = "power" \/ m.kind # k
  PROVE  Calm(k)'
<1>1. Calm(k) /\ ws \in Conns /\ OnceEach(ws, k)
  BY DEF PanelInv, Calm
<1>2. ASSUME NEW t \in {"attach", "detach"}
      PROVE  /\ In(toServer'[ws], Asks(t, k)) <=> In(toServer[ws], Asks(t, k))
             /\ Once(toServer[ws], Asks(t, k)) => Once(toServer'[ws], Asks(t, k))
             /\ \A d \in Conns : d # ws => toServer'[d] = toServer[d]
  BY <1>1, SendArrives DEF PanelInv
<1>3. \A d \in Conns : d = ws \/ Still(d)
  BY <1>2 DEF Still
<1>4. \A t \in {"attach", "detach"}, r \in Places : At(r, t, ws, k)' <=> At(r, t, ws, k)
  BY <1>2, AtPlaces, AtPlacesNext DEF Places
<1>5. OnceEach(ws, k)'
  BY <1>1, <1>2 DEF OnceEach
<1>6. Passed(ws, k, "out", "held", {})
  BY <1>3, <1>4, <1>5 DEF Passed, Places
<1> QED
  BY <1>1, <1>6, CalmPassed DEF Places

\* Mount: with nothing of the kind unanswered, the attach is the only request of it.
LEMMA CalmClickMount ==
  ASSUME PanelInv, NEW j \in Kinds, ClickMount(j), NEW k \in Kinds, ~disturbed'[k]
  PROVE  Calm(k)'
<1>1. PICK u \in BOOLEAN : u <=> (Unanswered("attach", j) \/ Unanswered("detach", j))
  OBVIOUS
<1>2. disturbed' = [disturbed EXCEPT ![j] = disturbed[j] \/ u]
  BY <1>1 DEF ClickMount, PanelInv, TypeOK
<1>3. ~disturbed[k] /\ (k = j => ~u)
  BY <1>2 DEF PanelInv, TypeOK
<1>4. Calm(k) /\ ws \in Conns /\ OnceEach(ws, k) /\ Agree(ws, k)
  BY <1>3 DEF PanelInv, Calm
<1>5. PICK m \in Message : m = [type |-> "attach", kind |-> j] /\ m.type = "attach" /\ m.kind = j
  <2>1. PICK m \in Message : m = [type |-> "attach", kind |-> j]
    BY DEF Message
  <2>2. m.type = "attach" /\ m.kind = j
    BY <2>1
  <2> QED
    BY <2>1, <2>2
<1>6. Send(m) /\ UNCHANGED <<ws, panel, held, jsonCh, worker, toPage>>
  BY <1>5 DEF ClickMount, connVars
<1>7. backing' = [backing EXCEPT ![j] = TRUE] /\ ~panel[j]
  BY DEF ClickMount
<1>8. CASE k # j
  <2>1. backing'[k] = backing[k]
    BY <1>7, <1>8 DEF PanelInv, TypeOK
  <2> QED
    BY <1>3, <1>5, <1>6, <1>8, <2>1, CalmSend
<1>9. CASE k = j
  <2>1. \A t \in {"attach", "detach"} : ~Waits(t, ws, k)
    BY <1>1, <1>3, <1>4, <1>9, WaitsUnanswered DEF PanelInv
  <2>2. \A t \in {"attach", "detach"}, r \in Places : ~At(r, t, ws, k)
    BY <2>1 DEF Waits
  <2>3. ASSUME NEW t \in {"attach", "detach"}
        PROVE  /\ In(toServer'[ws], Asks(t, k)) <=> (In(toServer[ws], Asks(t, k)) \/ t = "attach")
               /\ Once(toServer[ws], Asks(t, k)) /\ (t = "attach" => ~In(toServer[ws], Asks(t, k)))
                    => Once(toServer'[ws], Asks(t, k))
               /\ \A d \in Conns : d # ws => toServer'[d] = toServer[d]
    BY <1>4, <1>5, <1>6, <1>9, SendArrives DEF PanelInv
  <2>4. \A d \in Conns : d = ws \/ Still(d)
    BY <1>6, <2>3 DEF Still
  <2>5. \A t \in {"attach", "detach"}, r \in Places :
          At(r, t, ws, k)' <=> t = "attach" /\ r = "out"
    BY <1>6, <2>2, <2>3, AtPlaces, AtPlacesNext DEF Places
  <2>6. OnePlace(ws, k)'
    BY <1>6, <2>5 DEF OnePlace
  <2>7. OnceEach(ws, k)'
    BY <1>4, <1>6, <2>2, <2>3, AtPlaces DEF OnceEach, Places
  <2>8. Waits("attach", ws, k)' /\ ~Waits("detach", ws, k)'
    BY <1>6, <2>5 DEF Waits, Places
  <2>9. backing'[k] /\ ~panel'[k]
    BY <1>6, <1>7, <1>9 DEF PanelInv, TypeOK
  <2>10. Agree(ws, k)'
    BY <1>6, <2>8, <2>9 DEF Agree
  <2> QED
    BY <1>3, <1>4, <1>6, <2>4, <2>6, <2>7, <2>10, CalmHere
<1> QED
  BY <1>8, <1>9

\* Unmount: a kind the panel shows as mounted has no attach under way.
LEMMA CalmClickUnmount ==
  ASSUME PanelInv, NEW j \in Kinds, ClickUnmount(j), NEW k \in Kinds, ~disturbed[k]
  PROVE  Calm(k)'
<1>1. Calm(k) /\ ws \in Conns /\ OnePlace(ws, k) /\ OnceEach(ws, k) /\ Agree(ws, k)
  BY DEF PanelInv, Calm
<1>2. PICK m \in Message : m = [type |-> "detach", kind |-> j] /\ m.type = "detach" /\ m.kind = j
  <2>1. PICK m \in Message : m = [type |-> "detach", kind |-> j]
    BY DEF Message
  <2>2. m.type = "detach" /\ m.kind = j
    BY <2>1
  <2> QED
    BY <2>1, <2>2
<1>3. Send(m) /\ UNCHANGED <<ws, panel, backing, held, jsonCh, worker, toPage>> /\ panel[j]
  BY <1>2 DEF ClickUnmount, connVars
<1>4. CASE k # j
  BY <1>2, <1>3, <1>4, CalmSend
<1>5. CASE k = j
  <2>1. /\ In(toServer'[ws], Asks("attach", k)) <=> In(toServer[ws], Asks("attach", k))
        /\ Once(toServer[ws], Asks("attach", k)) => Once(toServer'[ws], Asks("attach", k))
        /\ \A d \in Conns : d # ws => toServer'[d] = toServer[d]
    BY <1>1, <1>2, <1>3, SendArrives DEF PanelInv
  <2>2. \A d \in Conns : d = ws \/ Still(d)
    BY <1>3, <2>1 DEF Still
  <2>3. \A r \in Places : At(r, "attach", ws, k)' <=> At(r, "attach", ws, k)
    BY <1>3, <2>1, AtPlaces, AtPlacesNext DEF Places
  <2>4. (Waits("attach", ws, k)' <=> Waits("attach", ws, k)) /\ OnePlace(ws, k)'
    BY <1>1, <1>3, <2>3 DEF Waits, OnePlace
  <2>5. OnceEach(ws, k)'
    BY <1>1, <1>3, <2>1 DEF OnceEach
  <2>6. ~Waits("attach", ws, k)
    BY <1>1, <1>3, <1>5 DEF Agree
  <2>7. Agree(ws, k)'
    BY <1>1, <1>3, <2>4, <2>6 DEF Agree
  <2> QED
    BY <1>1, <1>3, <2>2, <2>4, <2>5, <2>7, CalmHere
<1> QED
  BY <1>4, <1>5

\* An answer arrives: about another kind, to a detach, or to the one attach of the kind, and
\* then what the panel shows and the backing agree again.
LEMMA CalmReceive ==
  ASSUME PanelInv, ReceiveStatus, NEW k \in Kinds, ~disturbed[k]
  PROVE  Calm(k)'
<1>1. /\ Calm(k) /\ ws \in Conns /\ OnePlace(ws, k) /\ OnceEach(ws, k) /\ Agree(ws, k)
      /\ \A j \in Kinds : panel[j] \in BOOLEAN /\ backing[j] \in BOOLEAN
  BY DEF PanelInv, Calm, TypeOK
<1>2. toPage[ws] \in Seq(Status) /\ toPage[ws] # <<>>
  BY <1>1 DEF ReceiveStatus, PanelInv, TypeOK
<1>3. PICK m \in Status : m = Head(toPage[ws])
  BY <1>2, QueueHead
<1>4. PICK j \in Kinds, st \in {"mounted", "unmounted", "error"} : j = m.kind /\ st = m.state
  BY DEF Status
<1>5. ASSUME NEW t PROVE m \in Tells(t, k) <=> j = k /\ ((st = "unmounted") = (t = "detach"))
  BY <1>4 DEF Tells, Answers
<1>6. /\ toPage'[ws] = Tail(toPage[ws])
      /\ \A d \in Conns : d # ws => toPage'[d] = toPage[d]
  BY <1>1 DEF ReceiveStatus, PanelInv, TypeOK
<1>7. ASSUME NEW t
      PROVE  /\ In(toPage[ws], Tells(t, k)) <=> (m \in Tells(t, k) \/ In(toPage'[ws], Tells(t, k)))
             /\ Once(toPage[ws], Tells(t, k)) =>
                  /\ Once(toPage'[ws], Tells(t, k))
                  /\ m \in Tells(t, k) => ~In(toPage'[ws], Tells(t, k))
  BY <1>2, <1>3, <1>6, InTail
<1>8. UNCHANGED <<ws, toServer, held, jsonCh, worker>>
  BY DEF ReceiveStatus, connVars
<1>9. /\ \A i \in Kinds : i # j => panel'[i] = panel[i] /\ backing'[i] = backing[i]
      /\ panel'[j] = (st = "mounted") /\ backing'[j] = (backing[j] /\ st = "mounted")
  BY <1>3, <1>4 DEF ReceiveStatus, ShowStatus, PanelInv, TypeOK
<1>10. \A d \in Conns : d = ws \/ Still(d)
  BY <1>6, <1>8 DEF Still
<1>11. OnceEach(ws, k)'
  BY <1>1, <1>7, <1>8 DEF OnceEach
<1>12. \A t \in {"attach", "detach"}, r \in Places \ {"back"} :
         At(r, t, ws, k)' <=> At(r, t, ws, k)
  BY <1>8, AtPlaces, AtPlacesNext DEF Places
<1>13. CASE j # k
  <2>1. \A t \in {"attach", "detach"} : At("back", t, ws, k)' <=> At("back", t, ws, k)
    BY <1>5, <1>7, <1>8, <1>13, AtPlaces, AtPlacesNext
  <2>2. Passed(ws, k, "out", "back", {})
    BY <1>8, <1>9, <1>10, <1>11, <1>12, <1>13, <2>1 DEF Passed, Places
  <2> QED
    BY <1>1, <2>2, CalmPassed DEF Places
<1>14. CASE j = k /\ st = "unmounted"
  <2>1. At("back", "attach", ws, k)' <=> At("back", "attach", ws, k)
    BY <1>5, <1>7, <1>8, <1>14, AtPlaces, AtPlacesNext
  <2>2. (Waits("attach", ws, k)' <=> Waits("attach", ws, k)) /\ OnePlace(ws, k)'
    BY <1>1, <1>8, <1>12, <2>1 DEF Waits, OnePlace
  <2>3. Waits("detach", ws, k)
    BY <1>5, <1>7, <1>14, AtPlaces DEF Waits, Places
  <2>4. ~Waits("attach", ws, k)
    BY <1>1, <2>3 DEF Agree
  <2>5. panel'[k] = FALSE /\ backing'[k] = FALSE
    BY <1>1, <1>9, <1>14
  <2>6. Agree(ws, k)'
    BY <1>8, <2>2, <2>4, <2>5 DEF Agree
  <2> QED
    BY <1>1, <1>8, <1>10, <1>11, <2>2, <2>6, CalmHere
<1>15. CASE j = k /\ st # "unmounted"
  <2>1. At("back", "attach", ws, k) /\ ~At("back", "attach", ws, k)'
    BY <1>1, <1>5, <1>7, <1>8, <1>15, AtPlaces, AtPlacesNext DEF OnceEach
  <2>2. \A r \in Places : ~At(r, "attach", ws, k)'
    BY <1>1, <1>12, <2>1 DEF OnePlace, Places
  <2>3. ~Waits("attach", ws, k)' /\ OnePlace(ws, k)'
    BY <1>8, <2>2 DEF Waits, OnePlace
  <2>4. backing[k] = TRUE
    BY <1>1, <2>1 DEF Agree, Waits, Places
  <2>5. panel'[k] = backing'[k]
    BY <1>9, <1>15, <2>4
  <2>6. Agree(ws, k)'
    BY <1>8, <2>3, <2>5 DEF Agree
  <2> QED
    BY <1>1, <1>8, <1>10, <1>11, <2>3, <2>6, CalmHere
<1> QED
  BY <1>4, <1>13, <1>14, <1>15

\* At first nothing is mounted, and only a poll of the power state is under way.
LEMMA CalmInit == Init => PanelInv
<1> SUFFICES ASSUME Init, NEW k \in Kinds PROVE Calm(k)
  BY TypeInit DEF PanelInv
<1>1. ws = 1 /\ 1 \in Conns
  BY Bounds DEF Init
<1>2. \A c \in Conns : Quiet(c)
  BY <1>1 DEF Init, Quiet, Idle
<1>3. /\ toServer[1] = <<Power>> /\ held[1] = <<>> /\ jsonCh[1] = <<>> /\ toPage[1] = <<>>
      /\ worker[1].st = "idle" /\ panel[k] = backing[k]
  BY <1>1 DEF Init, Idle
<1>4. \A t \in {"attach", "detach"} : Power \notin Asks(t, k)
  <2>1. Power \in Message /\ Power.type = "power"
    BY Bounds DEF Power
  <2> QED
    BY <2>1, MessageAsks
<1>5. ASSUME NEW t \in {"attach", "detach"}, NEW p \in Places PROVE ~At(p, t, 1, k)
  <2>1. ~In(toServer[1], Asks(t, k)) /\ ~In(held[1], Asks(t, k)) /\ ~In(jsonCh[1], Asks(t, k))
    BY <1>3, <1>4, AsksShort
  <2>2. ~In(toPage[1], Tells(t, k))
    BY <1>3, InShort
  <2> QED
    BY <1>3, <2>1, <2>2, AtPlaces, WorkOfApart DEF Places
<1>6. OnceEach(1, k)
  <2>1. Once(<<Power>>, Asks("attach", k)) /\ Once(<<>>, Asks("attach", k))
    BY InShort
  <2>2. Once(<<>>, Tells("attach", k))
    BY InShort
  <2> QED
    BY <1>3, <2>1, <2>2 DEF OnceEach
<1>7. OnePlace(1, k) /\ Agree(1, k)
  BY <1>3, <1>5 DEF OnePlace, Agree, Waits
<1> QED
  BY <1>1, <1>2, <1>6, <1>7 DEF Calm

\* Every step keeps every calm kind calm.
LEMMA CalmStep == PanelInv /\ [Next]_vars => PanelInv'
<1> SUFFICES ASSUME PanelInv, [Next]_vars, NEW k \in Kinds, ~disturbed'[k] PROVE Calm(k)'
  BY TypeStep DEF PanelInv, Calm
<1>1. ASSUME NEW j \in Kinds, ClickMount(j) PROVE Calm(k)'
  BY <1>1, CalmClickMount
<1>2. CASE \E j \in Kinds : ClickUnmount(j)
  BY <1>2, CalmClickUnmount DEF ClickUnmount
<1>3. CASE PollPower
  <2>1. Power \in Message /\ Power.type = "power"
    BY Bounds DEF Power
  <2> QED
    BY <1>3, <2>1, CalmSend DEF PollPower, connVars
<1>4. CASE ReceiveStatus
  BY <1>4, CalmReceive DEF ReceiveStatus
<1>5. CASE Disconnect
  BY <1>5 DEF Disconnect
<1>6. CASE Reconnect
  <2>1. ~disturbed[k] /\ ws \notin Conns
    BY <1>6, Bounds DEF Reconnect
  <2> QED
    BY <2>1 DEF PanelInv, Calm
<1>7. CASE \E c \in Conns : ReadLoopStep(c) \/ WorkerStep(c)
  <2>1. PICK c \in Conns : ReadLoopStep(c) \/ WorkerStep(c)
    BY <1>7
  <2>2. ~disturbed[k]
    BY <2>1 DEF ReadLoopStep, WorkerStep, ReadText, PutText, Cleanup, HandlePower, BeginAttach,
                AttachFails, AttachAccepted, StoreMount, AnswerAttach, HandleDetach, AnswerDetach,
                pageVars
  <2> QED
    BY <2>1, <2>2, CalmReadText, CalmPutText, CalmPower, CalmTake, CalmAnswer, CalmElsewhere
    DEF ReadLoopStep, WorkerStep
<1>8. CASE \/ \E j \in Kinds : ReleaseSlot(j)
           \/ \E m \in Mounts : CloseOnCancel(m) \/ KillRedirection(m)
  <2>1. ~disturbed[k]
    BY <1>8 DEF ReleaseSlot, CloseOnCancel, KillRedirection, pageVars
  <2> QED
    BY <1>8, <2>1, CalmElsewhere
<1>9. CASE UNCHANGED vars
  <2>1. UNCHANGED <<disturbed, ws, panel, backing, toServer, held, jsonCh, worker, toPage>>
    BY <1>9 DEF vars, connVars, bmcVars, pageVars
  <2>2. Calm(k)
    BY DEF PanelInv
  <2> QED
    BY <2>1, <2>2 DEF Calm, Quiet, OnePlace, OnceEach, Agree, Waits, At
<1> QED
  BY <1>1, <1>2, <1>3, <1>4, <1>5, <1>6, <1>7, <1>8, <1>9 DEF Next

\* A calm kind that the panel shows as mounted has its backing, and one that is neither
\* mounted nor being mounted has none.
LEMMA CalmMatches == PanelInv => PanelMatchesBacking
<1> SUFFICES ASSUME PanelInv, NEW k \in Kinds, ~disturbed[k]
             PROVE  /\ panel[k] => backing[k]
                    /\ backing[k] => panel[k] \/ Unanswered("attach", k)
  BY DEF PanelMatchesBacking
<1>1. ws \in Conns /\ Agree(ws, k)
  BY DEF PanelInv, Calm
<1>2. CASE Waits("attach", ws, k)
  <2>1. Unanswered("attach", k)
    BY <1>1, <1>2, WaitsUnanswered DEF PanelInv
  <2> QED
    BY <1>1, <1>2, <2>1 DEF Agree
<1>3. CASE ~Waits("attach", ws, k)
  BY <1>1, <1>3 DEF Agree
<1> QED
  BY <1>2, <1>3

\* While no attach of a kind overtakes another request of it and the socket stays up, a kind
\* the panel shows as mounted has the backing its sectors are read from, and one that is not
\* mounted and not being mounted has none, whatever the other kinds, the read loop, the
\* worker, the sessions and the card do in between.
THEOREM PanelSafety == Spec => []PanelMatchesBacking
BY CalmInit, CalmStep, CalmMatches, PTL DEF Spec
=============================================================================
