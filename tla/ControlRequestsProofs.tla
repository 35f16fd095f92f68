------------------------ MODULE ControlRequestsProofs ------------------------
(***************************************************************************)
(* The correlation of answers with requests on the /control socket, for    *)
(* any number of devices, connections and requests.                        *)
(*                                                                         *)
(* The argument follows a request of a connection through the five places  *)
(* it can be in: on the wire to the page, in a suspended onBinaryRequest,  *)
(* on the wire back, in the hands of the read loop, in its response        *)
(* channel.  It is in at most one of them at a time, and only the waiter   *)
(* it was sent for waits for its id.                                       *)
(***************************************************************************)
EXTENDS ControlRequests, TLAPS

\* A cap-1 channel of requests, or a variable that holds one or none.
AtMostOne == {<<>>} \cup {<<r>> : r \in Req}

\* Every variable keeps its type, and no channel holds more than its capacity.
TypeOK ==
  /\ opened \in Conns
  /\ ws \in 0..MaxConns
  /\ cancelled \in [Conns -> BOOLEAN]
  /\ nextID \in [Conns -> 0..MaxId]
  /\ pending \in [Conns -> SUBSET Ids]
  /\ chan \in [Conns -> [Ids -> AtMostOne]]
  /\ waiting \in [Conns -> [Devs -> 0..MaxId]]
  /\ hand \in [Conns -> AtMostOne]
  /\ toBrowser \in [Conns -> Seq(Req)]
  /\ toServer \in [Conns -> Seq(Req)]
  /\ jobs \in SUBSET Req
  /\ result \in [Conns -> [Devs -> {<<>>} \cup (Req \X Req)]]
  /\ crossed \in [Conns -> BOOLEAN]

-----------------------------------------------------------------------------
(* The inductive invariant.                                                *)

\* Ids are handed out in order, and two mounts never wait for the same one.
WaitersDistinct(c) ==
  \A d \in Devs :
    /\ waiting[c][d] <= nextID[c]
    /\ \A e \in Devs : waiting[c][d] = waiting[c][e] /\ d # e => waiting[c][d] = None

Elements(s) == {s[k] : k \in 1..Len(s)}

Places == {"out", "job", "in", "hand", "chan"}

\* The requests of connection c itself that are at place p.
Own(p, c) ==
  {r \in Req :
     /\ r.conn = c
     /\ \/ p = "out" /\ r \in Elements(toBrowser[c])
        \/ p = "job" /\ r \in jobs
        \/ p = "in" /\ r \in Elements(toServer[c])
        \/ p = "hand" /\ r \in Elements(hand[c])
        \/ p = "chan" /\ \E i \in Ids : r \in Elements(chan[c][i])}

\* A request under way has an id that was handed out, and nobody but its sender waits for it.
OwnersMatch(c) ==
  \A p \in Places : \A r \in Own(p, c) :
    /\ r.id <= nextID[c]
    /\ \A d \in Devs : waiting[c][d] = r.id => d = r.dev

\* It is in one place only.
OnePlace(c) ==
  \A p \in Places, q \in Places : \A r \in Own(p, c), s \in Own(q, c) :
    r.id = s.id => p = q /\ r = s

\* It is there once on the two wires, and the wire to the page carries this connection's
\* requests only.
SentOnce(c) ==
  \A k \in 1..Len(toBrowser[c]) :
    /\ toBrowser[c][k].conn = c
    /\ \A l \in 1..Len(toBrowser[c]) : toBrowser[c][k] = toBrowser[c][l] => k = l

AnsweredOnce(c) ==
  \A k, l \in 1..Len(toServer[c]) :
    toServer[c][k] = toServer[c][l] /\ toServer[c][k].conn = c => k = l

\* A response channel holds answers with its own id, and as long as no older connection's
\* answer arrived, the read loop and the channels hold this connection's answers only.
Routed(c) ==
  /\ \A i \in Ids : \A r \in Elements(chan[c][i]) : r.id = i /\ (~crossed[c] => r.conn = c)
  /\ \A r \in Elements(hand[c]) : ~crossed[c] => r.conn = c

Sound(c) ==
  /\ WaitersDistinct(c) /\ OwnersMatch(c) /\ OnePlace(c)
  /\ SentOnce(c) /\ AnsweredOnce(c) /\ Routed(c)

Inv == \A c \in Conns : Sound(c)

-----------------------------------------------------------------------------
(* Sequences and channels.                                                 *)

\* What is on a wire after something is sent on it,
LEMMA ElementsAppend ==
  ASSUME NEW S, NEW s \in Seq(S), NEW x \in S
  PROVE  /\ Elements(Append(s, x)) = Elements(s) \cup {x}
         /\ Len(Append(s, x)) = Len(s) + 1 /\ Len(s) \in Nat
         /\ Append(s, x)[Len(s) + 1] = x
         /\ \A k \in 1..Len(s) : Append(s, x)[k] = s[k]
<1>1. /\ Len(Append(s, x)) = Len(s) + 1 /\ Len(s) \in Nat
      /\ Append(s, x)[Len(s) + 1] = x
      /\ \A k \in 1..Len(s) : Append(s, x)[k] = s[k]
  OBVIOUS
<1>2. PICK n \in Nat : n = Len(s)
  BY <1>1
<1>3. \A k : k \in 1..(n + 1) <=> k \in 1..n \/ k = n + 1
  OBVIOUS
<1>4. Elements(Append(s, x)) = Elements(s) \cup {x}
  BY <1>1, <1>2, <1>3, ZenonT(90) DEF Elements
<1> QED
  BY <1>1, <1>4

\* and after its head is taken off.
LEMMA ElementsTail ==
  ASSUME NEW S, NEW s \in Seq(S), s # <<>>
  PROVE  /\ Head(s) = s[1] /\ 1 \in 1..Len(s) /\ Head(s) \in Elements(s) /\ Head(s) \in S
         /\ Len(Tail(s)) = Len(s) - 1 /\ Len(s) \in Nat
         /\ \A k \in 1..Len(Tail(s)) : k + 1 \in 1..Len(s) /\ Tail(s)[k] = s[k + 1]
         /\ Elements(Tail(s)) \subseteq Elements(s)
<1>1. /\ Head(s) = s[1] /\ Len(Tail(s)) = Len(s) - 1 /\ Len(s) \in Nat \ {0}
      /\ \A k \in 1..(Len(s) - 1) : Tail(s)[k] = s[k + 1]
  BY SMTT(60)
<1>2. PICK n \in Nat \ {0} : n = Len(s)
  BY <1>1
<1>3. 1 \in 1..n /\ \A k \in 1..(n - 1) : k + 1 \in 1..n
  OBVIOUS
<1>4. \A k \in 1..n : s[k] \in S
  BY <1>2
<1>5. Head(s) \in Elements(s) /\ Head(s) \in S
  BY <1>1, <1>2, <1>3, <1>4 DEF Elements
<1>6. Elements(Tail(s)) \subseteq Elements(s)
  <2> SUFFICES ASSUME NEW x \in Elements(Tail(s)) PROVE x \in Elements(s)
    OBVIOUS
  <2>1. PICK k \in 1..(n - 1) : x = Tail(s)[k]
    BY <1>1, <1>2 DEF Elements
  <2>2. x = s[k + 1] /\ k + 1 \in 1..n
    BY <1>1, <1>2, <1>3, <2>1
  <2> QED
    BY <1>2, <2>2 DEF Elements
<1> QED
  BY <1>1, <1>2, <1>3, <1>5, <1>6, Zenon

\* A wire that carries the requests of P at most once still does when one that is not on it
\* is added,
LEMMA OnceAppend ==
  ASSUME NEW q \in Seq(Req), NEW x \in Req, NEW P,
         \A k, l \in 1..Len(q) : q[k] = q[l] /\ q[k] \in P => k = l,
         x \in P => x \notin Elements(q)
  PROVE  \A k, l \in 1..Len(Append(q, x)) :
           Append(q, x)[k] = Append(q, x)[l] /\ Append(q, x)[k] \in P => k = l
<1>1. PICK m \in Nat : m = Len(q)
  OBVIOUS
<1>2. PICK t \in Seq(Req) : t = Append(q, x)
  <2>1. Append(q, x) \in Seq(Req)
    OBVIOUS
  <2> QED
    BY <2>1, Zenon
<1>3. Len(t) = m + 1 /\ t[m + 1] = x /\ \A k \in 1..m : t[k] = q[k]
  BY <1>1, <1>2, ElementsAppend
<1>4. \A k : k \in 1..(m + 1) <=> k \in 1..m \/ k = m + 1
  OBVIOUS
<1>5. \A k \in 1..m : q[k] \in Elements(q)
  BY <1>1 DEF Elements
<1> SUFFICES ASSUME NEW k \in 1..(m + 1), NEW l \in 1..(m + 1), t[k] = t[l], t[k] \in P
             PROVE  k = l
  BY <1>2, <1>3
<1>6. CASE k \in 1..m /\ l \in 1..m
  BY <1>1, <1>3, <1>6
<1>7. CASE k = m + 1 /\ l \in 1..m
  BY <1>3, <1>5, <1>7
<1>8. CASE k \in 1..m /\ l = m + 1
  BY <1>3, <1>5, <1>8
<1> QED
  BY <1>4, <1>6, <1>7, <1>8

\* and when one is taken off, which is then gone.
LEMMA OnceTail ==
  ASSUME NEW q \in Seq(Req), q # <<>>, NEW P,
         \A k, l \in 1..Len(q) : q[k] = q[l] /\ q[k] \in P => k = l
  PROVE  /\ \A k, l \in 1..Len(Tail(q)) :
              Tail(q)[k] = Tail(q)[l] /\ Tail(q)[k] \in P => k = l
         /\ Head(q) \in P => Head(q) \notin Elements(Tail(q))
<1>1. PICK m \in Nat \ {0} : m = Len(q)
  OBVIOUS
<1>2. PICK t \in Seq(Req) : t = Tail(q)
  <2>1. Tail(q) \in Seq(Req)
    OBVIOUS
  <2> QED
    BY <2>1, Zenon
<1>3. Len(t) = m - 1 /\ Head(q) = q[1] /\ \A k \in 1..(m - 1) : t[k] = q[k + 1]
  BY <1>1, <1>2, ElementsTail
<1>4. 1 \in 1..m /\ \A k \in 1..(m - 1) : k \in Nat /\ k + 1 \in 1..m /\ k + 1 # 1
  OBVIOUS
<1>5. \A k, l \in 1..(m - 1) : t[k] = t[l] /\ t[k] \in P => k = l
  <2> SUFFICES ASSUME NEW k \in 1..(m - 1), NEW l \in 1..(m - 1), t[k] = t[l], t[k] \in P
               PROVE  k = l
    OBVIOUS
  <2>1. k + 1 = l + 1
    BY <1>1, <1>3, <1>4
  <2> QED
    BY <2>1
<1>6. ASSUME Head(q) \in P, NEW k \in 1..(m - 1) PROVE Head(q) # t[k]
  BY <1>1, <1>3, <1>4, <1>6
<1> QED
  BY <1>2, <1>3, <1>5, <1>6, Zenon DEF Elements

\* What a channel with room for one value can hold.
LEMMA ElementsShort ==
  /\ Elements(<<>>) = {}
  /\ \A r : Elements(<<r>>) = {r} /\ Head(<<r>>) = r /\ Tail(<<r>>) = <<>> /\ <<r>> # <<>>
<1>1. Elements(<<>>) = {}
  BY DEF Elements
<1>2. ASSUME NEW r PROVE Elements(<<r>>) = {r}
  <2>1. Len(<<r>>) = 1 /\ <<r>>[1] = r /\ 1..1 = {1}
    OBVIOUS
  <2> QED
    BY <2>1, Zenon DEF Elements
<1>3. ASSUME NEW r PROVE Head(<<r>>) = r /\ Tail(<<r>>) = <<>> /\ <<r>> # <<>>
  OBVIOUS
<1> QED
  BY <1>1, <1>2, <1>3

\* A value in a cap-1 channel is the only one, and taking it leaves the channel empty.
LEMMA OneInChannel ==
  ASSUME NEW q \in AtMostOne, q # <<>>
  PROVE  Head(q) \in Req /\ q = <<Head(q)>> /\ Tail(q) = <<>> /\ Elements(q) = {Head(q)}
<1>1. PICK r \in Req : q = <<r>>
  BY DEF AtMostOne
<1> QED
  BY <1>1, ElementsShort, Zenon

\* Sending to an empty cap-1 channel fills it.
LEMMA IntoChannel ==
  ASSUME NEW r \in Req
  PROVE  Append(<<>>, r) = <<r>> /\ <<r>> \in AtMostOne /\ Elements(<<r>>) = {r}
<1>1. Append(<<>>, r) = <<r>>
  OBVIOUS
<1> QED
  BY <1>1, ElementsShort, Zenon DEF AtMostOne

-----------------------------------------------------------------------------
(* Type correctness.                                                       *)

\* What the bounds of the model are used for: the ids and None are naturals.
LEMMA Bounds == MaxConns \in Nat /\ MaxId \in Nat /\ 1 \in Conns /\ None \in 0..MaxId
BY BoundsAssumption DEF Conns, None

\* Every action keeps the types.
LEMMA TypeInvariance == TypeOK /\ [Next]_vars => TypeOK'
<1> SUFFICES ASSUME TypeOK, [Next]_vars
             PROVE  TypeOK'
  OBVIOUS
<1> USE DEF TypeOK
<1>1. ASSUME NEW c \in Conns, NEW d \in Devs, SendRequest(c, d) PROVE TypeOK'
  <2>1. PICK r \in Req : r = [conn |-> c, id |-> FreshId(c), dev |-> d]
    BY <1>1 DEF SendRequest, Req
  <2>2. r.id = FreshId(c) /\ r.id \in Ids /\ r.id \in 0..MaxId
    BY <1>1, <2>1, Bounds DEF SendRequest, Ids
  <2>3. Append(toBrowser[c], r) \in Seq(Req)
    OBVIOUS
  <2>4. toBrowser' \in [Conns -> Seq(Req)]
    BY <1>1, <2>1, <2>3 DEF SendRequest
  <2>5. nextID' = [nextID EXCEPT ![c] = r.id] /\ pending' = [pending EXCEPT ![c] = @ \cup {r.id}]
          /\ waiting' = [waiting EXCEPT ![c][d] = r.id]
    BY <1>1, <2>1 DEF SendRequest
  <2>6. nextID' \in [Conns -> 0..MaxId] /\ pending' \in [Conns -> SUBSET Ids]
          /\ waiting' \in [Conns -> [Devs -> 0..MaxId]]
    BY <2>2, <2>5
  <2> QED
    BY <1>1, <2>4, <2>6 DEF SendRequest, pageVars, histVars
<1>2. ASSUME NEW c \in Conns, NEW d \in Devs, SendFails(c, d) PROVE TypeOK'
  <2>1. FreshId(c) \in 0..MaxId
    BY <1>2, Bounds DEF SendFails, Ids
  <2> QED
    BY <1>2, <2>1 DEF SendFails, wireVars, pageVars, histVars
<1>3. ASSUME NEW c \in Conns, NEW d \in Devs, Leave(c, d)
      PROVE  waiting' \in [Conns -> [Devs -> 0..MaxId]] /\ pending' \in [Conns -> SUBSET Ids]
  BY <1>3, Bounds DEF Leave
<1>4. ASSUME NEW c \in Conns, NEW d \in Devs, TakeResponse(c, d) PROVE TypeOK'
  <2>1. waiting[c][d] \in Ids
    BY <1>4, Bounds DEF TakeResponse, Ids, None
  <2>2. PICK i \in Ids : i = waiting[c][d]
    BY <2>1
  <2>3. /\ Head(chan[c][i]) \in Req /\ Tail(chan[c][i]) = <<>>
    BY <1>4, <2>2, OneInChannel DEF TakeResponse
  <2>4. PICK r \in Req : r = [conn |-> c, id |-> i, dev |-> d]
    BY DEF Req
  <2>5. chan' = [chan EXCEPT ![c][i] = <<>>] /\ result' = [result EXCEPT ![c][d] = <<r, Head(chan[c][i])>>]
    BY <1>4, <2>2, <2>3, <2>4 DEF TakeResponse
  <2>6. <<r, Head(chan[c][i])>> \in Req \X Req /\ <<>> \in AtMostOne
    BY <2>3 DEF AtMostOne
  <2>7. chan' \in [Conns -> [Ids -> AtMostOne]]
    BY <2>5, <2>6
  <2>8. result' \in [Conns -> [Devs -> {<<>>} \cup (Req \X Req)]]
    BY <2>5, <2>6
  <2>9. Leave(c, d)
    BY <1>4 DEF TakeResponse
  <2> QED
    BY <1>3, <1>4, <2>7, <2>8, <2>9 DEF TakeResponse, wireVars, pageVars
<1>5. ASSUME NEW c \in Conns, NEW d \in Devs, GiveUp(c, d) PROVE TypeOK'
  BY <1>3, <1>5 DEF GiveUp, wireVars, pageVars, histVars
<1>6. ASSUME NEW c \in Conns, RouteResponse(c) PROVE TypeOK'
  <2>1. Head(toServer[c]) \in Req /\ Tail(toServer[c]) \in Seq(Req)
    BY <1>6 DEF RouteResponse
  <2>2. hand' \in [Conns -> AtMostOne]
    BY <1>6, <2>1 DEF RouteResponse, AtMostOne
  <2>3. crossed' \in [Conns -> BOOLEAN]
    BY <1>6 DEF RouteResponse
  <2> QED
    BY <1>6, <2>1, <2>2, <2>3 DEF RouteResponse, pageVars
<1>7. ASSUME NEW c \in Conns, DeliverResponse(c) PROVE TypeOK'
  <2>1. PICK r \in Req : r = Head(hand[c])
    BY <1>7, OneInChannel DEF DeliverResponse
  <2>2. r.id \in Ids
    BY DEF Req
  <2>3. chan' = [chan EXCEPT ![c][r.id] = <<r>>]
    BY <1>7, <2>1, <2>2, IntoChannel DEF DeliverResponse, Room
  <2>4. <<r>> \in AtMostOne /\ <<>> \in AtMostOne
    BY DEF AtMostOne
  <2>5. chan' \in [Conns -> [Ids -> AtMostOne]]
    BY <2>2, <2>3, <2>4
  <2> QED
    BY <1>7, <2>4, <2>5 DEF DeliverResponse, wireVars, pageVars, histVars
<1>8. ASSUME NEW c \in Conns, Cleanup(c) PROVE TypeOK'
  BY <1>8 DEF Cleanup, wireVars, pageVars, histVars
<1>9. ASSUME ReceiveRequest PROVE TypeOK'
  <2>1. ws \in Conns
    BY <1>9, Bounds DEF ReceiveRequest, Conns, None
  <2>2. Head(toBrowser[ws]) \in Req /\ Tail(toBrowser[ws]) \in Seq(Req)
    BY <1>9, <2>1 DEF ReceiveRequest
  <2> QED
    BY <1>9, <2>1, <2>2 DEF ReceiveRequest, serverVars, histVars
<1>10. ASSUME AnswerRequest PROVE TypeOK'
  <2>1. PICK r \in jobs : /\ jobs' = jobs \ {r}
                          /\ toServer' = IF ws = None THEN toServer
                                         ELSE [toServer EXCEPT ![ws] = Append(@, r)]
    BY <1>10 DEF AnswerRequest
  <2>2. CASE ws = None
    BY <1>10, <2>1, <2>2 DEF AnswerRequest, serverVars, histVars
  <2>3. CASE ws # None
    <3>1. ws \in Conns
      BY <2>3, Bounds DEF Conns, None
    <3>2. Append(toServer[ws], r) \in Seq(Req)
      BY <3>1
    <3>3. toServer' \in [Conns -> Seq(Req)]
      BY <2>1, <2>3, <3>2
    <3> QED
      BY <1>10, <2>1, <3>3 DEF AnswerRequest, serverVars, histVars
  <2> QED
    BY <2>2, <2>3
<1>11. ASSUME Disconnect PROVE TypeOK'
  <2>1. None \in 0..MaxConns /\ <<>> \in Seq(Req)
    BY Bounds DEF None
  <2> QED
    BY <1>11, <2>1 DEF Disconnect, serverVars, histVars
<1>12. ASSUME Reconnect PROVE TypeOK'
  <2>1. opened + 1 \in Conns /\ opened + 1 \in 0..MaxConns
    BY <1>12, Bounds DEF Reconnect, Conns
  <2> QED
    BY <1>12, <2>1 DEF Reconnect, serverVars, wireVars, histVars
<1>13. CASE UNCHANGED vars
  BY <1>13 DEF vars, serverVars, wireVars, pageVars, histVars
<1> QED
  BY <1>1, <1>2, <1>4, <1>5, <1>6, <1>7, <1>8, <1>9, <1>10, <1>11, <1>12, <1>13 DEF Next

\* The binary plane is type correct; in particular no response channel and no hand-over of
\* the read loop ever holds two answers.
THEOREM TypeCorrect == Spec => []TypeOK
<1>1. Init => TypeOK
  <2> SUFFICES ASSUME Init PROVE TypeOK
    OBVIOUS
  <2>1. <<>> \in AtMostOne /\ <<>> \in Seq(Req) /\ 1 \in 0..MaxConns /\ 0 \in 0..MaxId
    BY Bounds, BoundsAssumption DEF AtMostOne
  <2> QED
    BY <2>1, Bounds DEF Init, TypeOK
<1> QED
  BY <1>1, TypeInvariance, PTL DEF Spec

-----------------------------------------------------------------------------
(* The journey of a request.                                               *)

\* A step that moves requests of connection c from place a to place b, or drops some, and
\* lets waiters go, keeps every request in one place with its own waiter.
LEMMA Journey ==
  ASSUME TypeOK, TypeOK', NEW c \in Conns, OwnersMatch(c), OnePlace(c),
         NEW a \in Places, NEW b \in Places,
         nextID[c] <= nextID'[c],
         \A d \in Devs : waiting'[c][d] \in {waiting[c][d], None},
         \A p \in Places \ {b} : Own(p, c)' \subseteq Own(p, c),
         \A r \in Own(b, c)' : r \in Own(b, c) \/ (r \in Own(a, c) /\ r \notin Own(a, c)')
  PROVE  OwnersMatch(c)' /\ OnePlace(c)'
<1>1. ASSUME NEW p \in Places, NEW r \in Own(p, c)'
      PROVE  r \in Own(p, c) \/ (p = b /\ r \in Own(a, c) /\ r \notin Own(a, c)')
  BY <1>1
<1>2. OwnersMatch(c)'
  <2> SUFFICES ASSUME NEW p \in Places, NEW r \in Own(p, c)'
               PROVE  /\ r.id <= nextID'[c]
                      /\ \A d \in Devs : waiting'[c][d] = r.id => d = r.dev
    BY DEF OwnersMatch
  <2>1. PICK q \in Places : r \in Own(q, c)
    BY <1>1
  <2>2. r.id \in Ids /\ r.id <= nextID[c] /\ \A d \in Devs : waiting[c][d] = r.id => d = r.dev
    BY <2>1 DEF OwnersMatch, Own, Req
  <2>3. r.id # None /\ r.id \in Nat
    BY <2>2, Bounds DEF Ids, None
  <2>4. r.id <= nextID'[c]
    <3>1. nextID[c] \in Nat /\ nextID'[c] \in Nat
      BY Bounds DEF TypeOK
    <3> QED
      BY <2>2, <2>3, <3>1
  <2> QED
    BY <2>2, <2>3, <2>4
<1>3. OnePlace(c)'
  <2> SUFFICES ASSUME NEW p \in Places, NEW q \in Places, NEW r \in Own(p, c)',
                      NEW s \in Own(q, c)', r.id = s.id
               PROVE  p = q /\ r = s
    BY DEF OnePlace
  <2>1. CASE r \in Own(p, c) /\ s \in Own(q, c)
    BY <2>1 DEF OnePlace
  <2>2. CASE r \notin Own(p, c) /\ s \in Own(q, c)
    <3>1. p = b /\ r \in Own(a, c) /\ r \notin Own(a, c)'
      BY <1>1, <2>2
    <3>2. a = q /\ r = s
      BY <2>2, <3>1 DEF OnePlace
    <3> QED
      BY <3>1, <3>2
  <2>3. CASE r \in Own(p, c) /\ s \notin Own(q, c)
    <3>1. q = b /\ s \in Own(a, c) /\ s \notin Own(a, c)'
      BY <1>1, <2>3
    <3>2. a = p /\ r = s
      BY <2>3, <3>1 DEF OnePlace
    <3> QED
      BY <3>1, <3>2
  <2>4. CASE r \notin Own(p, c) /\ s \notin Own(q, c)
    <3>1. p = b /\ r \in Own(a, c) /\ q = b /\ s \in Own(a, c)
      BY <1>1, <2>4
    <3> QED
      BY <3>1 DEF OnePlace
  <2> QED
    BY <2>1, <2>2, <2>3, <2>4
<1> QED
  BY <1>2, <1>3

\* What a place holds depends on its own variable.
LEMMA SamePlaces ==
  ASSUME NEW c
  PROVE  /\ toBrowser'[c] = toBrowser[c] => Own("out", c)' = Own("out", c)
         /\ jobs' = jobs => Own("job", c)' = Own("job", c)
         /\ toServer'[c] = toServer[c] => Own("in", c)' = Own("in", c)
         /\ hand'[c] = hand[c] => Own("hand", c)' = Own("hand", c)
         /\ chan'[c] = chan[c] => Own("chan", c)' = Own("chan", c)
BY DEF Own

\* A step that does not touch connection c, but may lose some of its suspended calls.
LEMMA Untouched ==
  ASSUME TypeOK, TypeOK', NEW c \in Conns, Sound(c),
         UNCHANGED <<nextID[c], waiting[c], chan[c], hand[c], toBrowser[c], toServer[c], crossed[c]>>,
         \A r \in jobs' : r.conn = c => r \in jobs
  PROVE  Sound(c)'
<1>1. WaitersDistinct(c)' /\ SentOnce(c)' /\ AnsweredOnce(c)' /\ Routed(c)'
  BY DEF Sound, WaitersDistinct, SentOnce, AnsweredOnce, Routed
<1>2. \A p \in Places : Own(p, c)' \subseteq Own(p, c)
  <2>1. Own("job", c)' \subseteq Own("job", c)
    BY DEF Own
  <2> QED
    BY <2>1, SamePlaces DEF Places
<1>3. "out" \in Places /\ nextID[c] <= nextID'[c]
  BY Bounds DEF Places, TypeOK
<1>4. OwnersMatch(c)' /\ OnePlace(c)'
  BY <1>2, <1>3, Journey DEF Sound
<1> QED
  BY <1>1, <1>4 DEF Sound

\* request() sends.
LEMMA SoundSend ==
  ASSUME TypeOK, TypeOK', NEW c \in Conns, Sound(c), NEW d \in Devs, SendRequest(c, d)
  PROVE  Sound(c)'
<1>1. PICK r \in Req : r = [conn |-> c, id |-> FreshId(c), dev |-> d]
  BY DEF SendRequest, Req
<1>2. PICK n \in Nat : n = nextID[c]
  BY Bounds DEF TypeOK
<1>3. r.conn = c /\ r.dev = d /\ r.id = n + 1 /\ r.id # None
  BY <1>1, <1>2 DEF FreshId, None
<1>4. /\ nextID'[c] = n + 1
      /\ \A e \in Devs : waiting'[c][e] = IF e = d THEN n + 1 ELSE waiting[c][e]
  BY <1>1, <1>3 DEF SendRequest, TypeOK
<1>5. \A e \in Devs : waiting[c][e] \in Nat /\ waiting[c][e] <= n
  BY <1>2, Bounds DEF Sound, WaitersDistinct, TypeOK
<1>6. WaitersDistinct(c)'
  <2>1. \A e \in Devs : waiting'[c][e] <= n + 1
    BY <1>4, <1>5
  <2>2. \A e \in Devs : waiting[c][e] # n + 1
    BY <1>5
  <2>3. \A e, f \in Devs : waiting'[c][e] = waiting'[c][f] /\ e # f => waiting'[c][e] = None
    BY <1>4, <2>2 DEF Sound, WaitersDistinct
  <2> QED
    BY <1>4, <2>1, <2>3 DEF WaitersDistinct
<1>7. /\ UNCHANGED <<jobs, toServer[c], hand[c], chan[c], crossed[c]>>
      /\ toBrowser'[c] = toBrowser[c] \/ toBrowser'[c] = Append(toBrowser[c], r)
  BY <1>1 DEF SendRequest, TypeOK, pageVars, histVars
<1>8. Own("out", c)' \subseteq Own("out", c) \cup {r}
  <2>1. Elements(toBrowser'[c]) \subseteq Elements(toBrowser[c]) \cup {r}
    <3>1. PICK q \in Seq(Req) : q = toBrowser[c]
      BY DEF TypeOK
    <3>2. Elements(Append(q, r)) = Elements(q) \cup {r}
      BY ElementsAppend
    <3> QED
      BY <1>7, <3>1, <3>2
  <2> QED
    BY <2>1 DEF Own
<1>9. \A p \in Places : Own(p, c)' \subseteq Own(p, c) \cup {r}
  BY <1>7, <1>8, SamePlaces DEF Places
<1>10. \A p \in Places \ {"out"} : Own(p, c)' \subseteq Own(p, c)
  BY <1>7, SamePlaces DEF Places
<1>11. \A p \in Places : \A s \in Own(p, c) : s.id \in Nat /\ s.id <= n /\ s.id # n + 1
  <2> SUFFICES ASSUME NEW p \in Places, NEW s \in Own(p, c)
               PROVE  s.id \in Nat /\ s.id <= n /\ s.id # n + 1
    OBVIOUS
  <2>1. s.id \in Nat
    BY Bounds DEF Own, Req, Ids
  <2>2. s.id <= n
    BY <1>2 DEF Sound, OwnersMatch
  <2> QED
    BY <2>1, <2>2
<1>12. OwnersMatch(c)'
  <2> SUFFICES ASSUME NEW p \in Places, NEW s \in Own(p, c)'
               PROVE  /\ s.id <= nextID'[c]
                      /\ \A e \in Devs : waiting'[c][e] = s.id => e = s.dev
    BY DEF OwnersMatch
  <2>1. CASE s = r
    <3>1. \A e \in Devs : waiting[c][e] # n + 1
      BY <1>5
    <3> QED
      BY <1>3, <1>4, <2>1, <3>1
  <2>2. CASE s # r
    <3>1. s \in Own(p, c)
      BY <1>9, <2>2
    <3>2. s.id \in Nat /\ s.id <= n /\ s.id # n + 1
      BY <1>11, <3>1
    <3>3. s.id <= n + 1
      BY <3>2
    <3> QED
      BY <1>4, <3>1, <3>2, <3>3 DEF Sound, OwnersMatch
  <2> QED
    BY <2>1, <2>2
<1>13. OnePlace(c)'
  <2> SUFFICES ASSUME NEW p \in Places, NEW q \in Places, NEW s \in Own(p, c)',
                      NEW t \in Own(q, c)', s.id = t.id
               PROVE  p = q /\ s = t
    BY DEF OnePlace
  <2>1. CASE s \in Own(p, c) /\ t \in Own(q, c)
    BY <2>1 DEF Sound, OnePlace
  <2>2. CASE s \notin Own(p, c)
    <3>1. s = r /\ p = "out"
      BY <1>9, <1>10, <2>2
    <3>2. t \notin Own(q, c)
      BY <1>3, <1>11, <3>1
    <3> QED
      BY <1>9, <1>10, <3>1, <3>2
  <2>3. CASE t \notin Own(q, c)
    <3>1. t = r /\ q = "out"
      BY <1>9, <1>10, <2>3
    <3>2. s \notin Own(p, c)
      BY <1>3, <1>11, <3>1
    <3> QED
      BY <1>9, <1>10, <3>1, <3>2
  <2> QED
    BY <2>1, <2>2, <2>3
<1>14. SentOnce(c)'
  <2>1. CASE toBrowser'[c] = toBrowser[c]
    BY <2>1 DEF Sound, SentOnce
  <2>2. CASE toBrowser'[c] = Append(toBrowser[c], r)
    <3>1. PICK q \in Seq(Req) : q = toBrowser[c]
      BY DEF TypeOK
    <3>2. \A x \in Elements(q) : x \in Req /\ x.conn = c
      BY <3>1 DEF Sound, SentOnce, Elements
    <3>3. r \notin Elements(q)
      <4>1. r \in Elements(q) => r \in Own("out", c) /\ "out" \in Places
        BY <1>3, <3>1 DEF Own, Places
      <4> QED
        BY <1>3, <1>11, <4>1
    <3>4. \A k, l \in 1..Len(q) : q[k] = q[l] /\ q[k] \in Req => k = l
      BY <3>1 DEF Sound, SentOnce
    <3>5. PICK t \in Seq(Req) : t = Append(q, r)
      <4>1. Append(q, r) \in Seq(Req)
        OBVIOUS
      <4> QED
        BY <4>1, Zenon
    <3>6. \A k, l \in 1..Len(t) : t[k] = t[l] /\ t[k] \in Req => k = l
      BY <3>3, <3>4, <3>5, OnceAppend
    <3>7. \A k \in 1..Len(t) : t[k] \in Elements(t) /\ t[k] \in Req
      BY DEF Elements
    <3>8. Elements(t) = Elements(q) \cup {r}
      BY <3>5, ElementsAppend
    <3>9. \A k \in 1..Len(t) : t[k].conn = c
      BY <1>3, <3>2, <3>7, <3>8
    <3>10. toBrowser'[c] = t
      BY <2>2, <3>1, <3>5
    <3> QED
      BY <3>6, <3>7, <3>9, <3>10 DEF SentOnce
  <2> QED
    BY <1>7, <2>1, <2>2
<1>15. AnsweredOnce(c)' /\ Routed(c)'
  BY <1>7 DEF Sound, AnsweredOnce, Routed
<1> QED
  BY <1>6, <1>12, <1>13, <1>14, <1>15 DEF Sound

\* request() returns, with a response or without.
LEMMA SoundLeave ==
  ASSUME TypeOK, TypeOK', NEW c \in Conns, Sound(c), NEW d \in Devs,
         TakeResponse(c, d) \/ GiveUp(c, d)
  PROVE  Sound(c)'
<1>1. /\ UNCHANGED <<jobs, toBrowser[c], toServer[c], hand[c], nextID[c], crossed[c]>>
      /\ \A e \in Devs : waiting'[c][e] = IF e = d THEN None ELSE waiting[c][e]
  BY SMTT(60) DEF TakeResponse, GiveUp, Leave, TypeOK, wireVars, pageVars, histVars
<1>2. \A i \in Ids : chan'[c][i] = chan[c][i] \/ chan'[c][i] = <<>>
  <2>1. CASE GiveUp(c, d)
    BY <2>1 DEF GiveUp
  <2>2. CASE TakeResponse(c, d)
    <3>1. PICK j : j = waiting[c][d]
      OBVIOUS
    <3>2. j \in Ids
      BY <2>2, <3>1, Bounds DEF TakeResponse, TypeOK, Ids, None
    <3>3. Tail(chan[c][j]) = <<>>
      <4>1. chan[c][j] \in AtMostOne
        BY <3>2 DEF TypeOK
      <4>2. chan[c][j] # <<>>
        BY <2>2, <3>1 DEF TakeResponse
      <4> QED
        BY <4>1, <4>2, OneInChannel, Zenon
    <3>4. chan' = [chan EXCEPT ![c][j] = <<>>]
      BY <2>2, <3>1, <3>3 DEF TakeResponse
    <3> QED
      BY <3>4 DEF TypeOK
  <2> QED
    BY <2>1, <2>2
<1>3. \A i \in Ids : Elements(chan'[c][i]) \subseteq Elements(chan[c][i])
  BY <1>2, ElementsShort
<1>4. WaitersDistinct(c)'
  <2>1. \A e \in Devs : waiting[c][e] <= nextID[c] /\ None <= nextID[c]
    BY Bounds DEF Sound, WaitersDistinct, TypeOK, None
  <2>2. \A e \in Devs : waiting'[c][e] <= nextID'[c]
    BY <1>1, <2>1
  <2>3. \A e, f \in Devs : waiting'[c][e] = waiting'[c][f] /\ e # f => waiting'[c][e] = None
    BY <1>1 DEF Sound, WaitersDistinct
  <2> QED
    BY <2>2, <2>3 DEF WaitersDistinct
<1>5. \A p \in Places : Own(p, c)' \subseteq Own(p, c)
  <2>1. Own("chan", c)' \subseteq Own("chan", c)
    BY <1>3 DEF Own
  <2> QED
    BY <1>1, <2>1, SamePlaces DEF Places
<1>6. OwnersMatch(c)' /\ OnePlace(c)'
  <2>1. "out" \in Places /\ nextID[c] <= nextID'[c]
    BY <1>1, Bounds DEF Places, TypeOK
  <2> QED
    BY <1>1, <1>5, <2>1, Journey DEF Sound
<1>7. SentOnce(c)' /\ AnsweredOnce(c)' /\ Routed(c)'
  BY ZenonT(90), <1>1, <1>3 DEF Sound, SentOnce, AnsweredOnce, Routed
<1> QED
  BY <1>4, <1>6, <1>7 DEF Sound

\* The read loop takes an answer off the wire.
LEMMA SoundRoute ==
  ASSUME TypeOK, TypeOK', NEW c \in Conns, Sound(c), RouteResponse(c)
  PROVE  Sound(c)'
<1>1. PICK q \in Seq(Req) : q = toServer[c] /\ q # <<>>
  BY DEF RouteResponse, TypeOK
<1>2. PICK r \in Req : r = Head(q)
  BY <1>1, ElementsTail
<1>3. r \in Elements(q) /\ Elements(Tail(q)) \subseteq Elements(q)
  BY <1>1, <1>2, ElementsTail
<1>4. /\ UNCHANGED <<jobs, toBrowser[c], chan[c], nextID[c], waiting[c]>>
      /\ toServer'[c] = Tail(q)
      /\ hand[c] = <<>>
      /\ hand'[c] = <<>> \/ hand'[c] = <<r>>
      /\ ~crossed'[c] => ~crossed[c] /\ r.conn = c
  BY ZenonT(90), <1>1, <1>2 DEF RouteResponse, TypeOK, pageVars
<1>5. Elements(hand[c]) = {} /\ Elements(hand'[c]) \subseteq {r}
  BY <1>4, ElementsShort
<1>6. /\ \A k, l \in 1..Len(Tail(q)) : Tail(q)[k] = Tail(q)[l] /\ Tail(q)[k].conn = c => k = l
      /\ r.conn = c => r \notin Elements(Tail(q))
  <2>1. PICK P : P = {s \in Req : s.conn = c}
    OBVIOUS
  <2>2. \A k, l \in 1..Len(q) : q[k] = q[l] /\ q[k] \in P => k = l
    BY <1>1, <2>1 DEF Sound, AnsweredOnce
  <2>3. /\ \A k, l \in 1..Len(Tail(q)) : Tail(q)[k] = Tail(q)[l] /\ Tail(q)[k] \in P => k = l
        /\ Head(q) \in P => Head(q) \notin Elements(Tail(q))
    BY <1>1, <2>2, OnceTail, Zenon
  <2>4. \A k \in 1..Len(Tail(q)) : Tail(q)[k] \in Req
    BY <1>1
  <2> QED
    BY <1>2, <2>1, <2>3, <2>4
<1>7. /\ Own("in", c)' \subseteq Own("in", c)
      /\ r \notin Own("in", c)'
      /\ r.conn = c => r \in Own("in", c)
      /\ Own("hand", c)' \subseteq {r} /\ (r \in Own("hand", c)' => r.conn = c)
  BY <1>1, <1>3, <1>4, <1>5, <1>6 DEF Own
<1>8. \A p \in Places \ {"hand"} : Own(p, c)' \subseteq Own(p, c)
  BY <1>4, <1>7, SamePlaces DEF Places
<1>9. OwnersMatch(c)' /\ OnePlace(c)'
  <2>1. "hand" \in Places /\ "in" \in Places /\ nextID[c] <= nextID'[c]
    BY <1>4, Bounds DEF Places, TypeOK
  <2>2. \A s \in Own("hand", c)' : s \in Own("in", c) /\ s \notin Own("in", c)'
    BY <1>7
  <2> QED
    BY <1>4, <1>8, <2>1, <2>2, Journey DEF Sound
<1>10. WaitersDistinct(c)' /\ SentOnce(c)' /\ AnsweredOnce(c)'
  BY <1>4, <1>6 DEF Sound, WaitersDistinct, SentOnce, AnsweredOnce
<1>11. Routed(c)'
  BY <1>4, <1>5 DEF Sound, Routed
<1> QED
  BY <1>9, <1>10, <1>11 DEF Sound

\* The read loop puts an answer into its channel.
LEMMA SoundDeliver ==
  ASSUME TypeOK, TypeOK', NEW c \in Conns, Sound(c), DeliverResponse(c)
  PROVE  Sound(c)'
<1>1. PICK r \in Req : r = Head(hand[c]) /\ Elements(hand[c]) = {r}
  BY OneInChannel DEF DeliverResponse, TypeOK
<1>2. r.id \in Ids
  BY DEF Req
<1>3. /\ UNCHANGED <<jobs, toBrowser[c], toServer[c], nextID[c], waiting[c], crossed[c]>>
      /\ hand'[c] = <<>>
      /\ \A i \in Ids : chan'[c][i] = IF i = r.id THEN <<r>> ELSE chan[c][i]
  <2>1. chan' = [chan EXCEPT ![c][r.id] = <<r>>]
    BY <1>1, <1>2, IntoChannel DEF DeliverResponse, Room
  <2>2. \A i \in Ids : chan'[c][i] = IF i = r.id THEN <<r>> ELSE chan[c][i]
    BY <2>1 DEF TypeOK
  <2>3. hand'[c] = <<>>
    BY DEF DeliverResponse, TypeOK
  <2>4. UNCHANGED <<jobs, toBrowser, toServer, nextID, waiting, crossed>>
    BY DEF DeliverResponse, wireVars, pageVars, histVars
  <2> QED
    BY <2>2, <2>3, <2>4
<1>4. Elements(hand'[c]) = {} /\ \A i \in Ids : Elements(chan'[c][i]) =
                                 IF i = r.id THEN {r} ELSE Elements(chan[c][i])
  BY <1>3, ElementsShort
<1>5. /\ Own("hand", c)' = {}
      /\ r.conn = c => r \in Own("hand", c)
      /\ \A s \in Own("chan", c)' : s \in Own("chan", c) \/ (s = r /\ s.conn = c)
  BY <1>1, <1>4 DEF Own
<1>6. \A p \in Places \ {"chan"} : Own(p, c)' \subseteq Own(p, c)
  BY <1>3, <1>5, SamePlaces DEF Places
<1>7. OwnersMatch(c)' /\ OnePlace(c)'
  <2>1. "hand" \in Places /\ "chan" \in Places /\ nextID[c] <= nextID'[c]
    BY <1>3, Bounds DEF Places, TypeOK
  <2>2. \A s \in Own("chan", c)' :
          s \in Own("chan", c) \/ (s \in Own("hand", c) /\ s \notin Own("hand", c)')
    BY <1>5
  <2> QED
    BY <1>3, <1>6, <2>1, <2>2, Journey DEF Sound
<1>8. WaitersDistinct(c)' /\ SentOnce(c)' /\ AnsweredOnce(c)'
  BY <1>3 DEF Sound, WaitersDistinct, SentOnce, AnsweredOnce
<1>9. Routed(c)'
  BY <1>1, <1>3, <1>4 DEF Sound, Routed
<1> QED
  BY <1>7, <1>8, <1>9 DEF Sound

\* The page starts to serve a request.
LEMMA SoundReceive ==
  ASSUME TypeOK, TypeOK', Inv, NEW c \in Conns, ReceiveRequest
  PROVE  Sound(c)'
<1>1. ws \in Conns /\ toBrowser[ws] # <<>> /\ toBrowser[ws] \in Seq(Req)
  BY Bounds DEF ReceiveRequest, TypeOK, Conns, None
<1>2. PICK q \in Seq(Req) : q = toBrowser[ws] /\ q # <<>>
  BY <1>1
<1>3. PICK r \in Req : r = Head(q)
  BY <1>2, ElementsTail
<1>4. r \in Elements(q) /\ Elements(Tail(q)) \subseteq Elements(q)
  BY <1>2, <1>3, ElementsTail
<1>5. /\ UNCHANGED <<toServer, chan, hand, nextID, waiting, crossed>>
      /\ jobs' = jobs \cup {r}
      /\ toBrowser' = [toBrowser EXCEPT ![ws] = Tail(q)]
  BY <1>2, <1>3 DEF ReceiveRequest, serverVars, histVars
<1>6. \A x \in Elements(q) : x.conn = ws
  BY <1>1, <1>2 DEF Inv, Sound, SentOnce, Elements
<1>7. CASE c # ws
  <2>1. \A x \in jobs' : x.conn = c => x \in jobs
    BY <1>4, <1>5, <1>6, <1>7
  <2>2. toBrowser'[c] = toBrowser[c]
    BY <1>1, <1>5, <1>7 DEF TypeOK
  <2> QED
    BY <1>5, <2>1, <2>2, Untouched DEF Inv
<1>8. CASE c = ws
  <2>1. toBrowser[c] = q /\ toBrowser'[c] = Tail(q)
    BY <1>1, <1>2, <1>5, <1>8 DEF TypeOK
  <2>2. /\ \A k, l \in 1..Len(Tail(q)) : Tail(q)[k] = Tail(q)[l] /\ Tail(q)[k] \in Req => k = l
        /\ r \notin Elements(Tail(q))
    <3>1. \A k, l \in 1..Len(q) : q[k] = q[l] /\ q[k] \in Req => k = l
      BY <2>1 DEF Inv, Sound, SentOnce
    <3> QED
      BY <1>2, <1>3, <3>1, OnceTail
  <2>3. SentOnce(c)'
    <3>1. \A k \in 1..Len(Tail(q)) : Tail(q)[k] \in Req /\ Tail(q)[k] \in Elements(Tail(q))
      BY <1>2 DEF Elements
    <3>2. \A k \in 1..Len(Tail(q)) : Tail(q)[k].conn = c
      BY <1>4, <1>6, <1>8, <3>1
    <3> QED
      BY <2>1, <2>2, <3>1, <3>2 DEF SentOnce
  <2>4. /\ Own("out", c)' \subseteq Own("out", c)
        /\ r \in Own("out", c) /\ r \notin Own("out", c)'
        /\ \A s \in Own("job", c)' : s \in Own("job", c) \/ s = r
    BY <1>4, <1>5, <1>6, <1>8, <2>1, <2>2 DEF Own
  <2>5. \A p \in Places \ {"job"} : Own(p, c)' \subseteq Own(p, c)
    BY <1>5, <2>4, SamePlaces DEF Places
  <2>6. OwnersMatch(c)' /\ OnePlace(c)'
    <3>1. "out" \in Places /\ "job" \in Places /\ nextID[c] <= nextID'[c]
      BY <1>5, Bounds DEF Places, TypeOK
    <3>2. \A s \in Own("job", c)' :
            s \in Own("job", c) \/ (s \in Own("out", c) /\ s \notin Own("out", c)')
      BY <2>4
    <3> QED
      BY <1>5, <2>5, <3>1, <3>2, Journey DEF Inv, Sound
  <2>7. WaitersDistinct(c)' /\ AnsweredOnce(c)' /\ Routed(c)'
    BY <1>5 DEF Inv, Sound, WaitersDistinct, AnsweredOnce, Routed
  <2> QED
    BY <2>3, <2>6, <2>7 DEF Sound
<1> QED
  BY <1>7, <1>8

\* The page answers, on whatever socket it has by now.
LEMMA SoundAnswer ==
  ASSUME TypeOK, TypeOK', NEW c \in Conns, Sound(c), AnswerRequest
  PROVE  Sound(c)'
<1>1. PICK r \in jobs : /\ jobs' = jobs \ {r}
                        /\ toServer' = IF ws = None THEN toServer
                                       ELSE [toServer EXCEPT ![ws] = Append(@, r)]
  BY DEF AnswerRequest
<1>2. UNCHANGED <<toBrowser, chan, hand, nextID, waiting, crossed>>
  BY DEF AnswerRequest, serverVars, histVars
<1>3. r \in Req
  BY DEF TypeOK
<1>4. CASE ws # c
  <2>1. toServer'[c] = toServer[c]
    BY <1>1, <1>4 DEF TypeOK
  <2>2. \A x \in jobs' : x.conn = c => x \in jobs
    BY <1>1
  <2> QED
    BY <1>2, <2>1, <2>2, Untouched
<1>5. CASE ws = c
  <2>1. PICK q \in Seq(Req) : q = toServer[c]
    BY DEF TypeOK
  <2>2. toServer'[c] = Append(q, r)
    <3>1. c # None
      BY Bounds DEF Conns, None
    <3> QED
      BY <1>1, <1>5, <2>1, <3>1 DEF TypeOK
  <2>3. Elements(toServer'[c]) = Elements(q) \cup {r}
    BY <1>3, <2>2, ElementsAppend
  <2>4. /\ \A s \in Own("in", c)' : s \in Own("in", c) \/ (s = r /\ s.conn = c)
        /\ r.conn = c => r \in Own("job", c)
        /\ r \notin Own("job", c)'
        /\ Own("job", c)' \subseteq Own("job", c)
    BY <1>1, <1>3, <2>1, <2>3 DEF Own
  <2>5. \A p \in Places \ {"in"} : Own(p, c)' \subseteq Own(p, c)
    BY <1>2, <2>4, SamePlaces DEF Places
  <2>6. OwnersMatch(c)' /\ OnePlace(c)'
    <3>1. "job" \in Places /\ "in" \in Places /\ nextID[c] <= nextID'[c]
      BY <1>2, Bounds DEF Places, TypeOK
    <3>2. \A s \in Own("in", c)' :
            s \in Own("in", c) \/ (s \in Own("job", c) /\ s \notin Own("job", c)')
      BY <2>4
    <3> QED
      BY <1>2, <2>5, <3>1, <3>2, Journey DEF Sound
  <2>7. AnsweredOnce(c)'
    <3> DEFINE P == {s \in Req : s.conn = c}
    <3>1. \A k, l \in 1..Len(q) : q[k] = q[l] /\ q[k] \in P => k = l
      BY <2>1 DEF Sound, AnsweredOnce
    <3>2. r \in P => r \notin Elements(q)
      <4>1. SUFFICES ASSUME r \in P, r \in Elements(q) PROVE FALSE
        OBVIOUS
      <4>2. r \in Own("in", c) /\ r \in Own("job", c) /\ "in" \in Places /\ "job" \in Places
        BY <1>3, <2>1, <4>1 DEF Own, Places
      <4>3. "in" = "job"
        BY <4>2 DEF Sound, OnePlace
      <4> QED
        BY <4>3
    <3>3. \A k, l \in 1..Len(Append(q, r)) :
            Append(q, r)[k] = Append(q, r)[l] /\ Append(q, r)[k] \in P => k = l
      <4> HIDE DEF P
      <4> QED
        BY <1>3, <3>1, <3>2, OnceAppend
    <3>4. Append(q, r) \in Seq(Req)
      BY <1>3
    <3>5. \A k \in 1..Len(Append(q, r)) : Append(q, r)[k] \in Req
      BY <3>4
    <3> QED
      BY <2>2, <3>3, <3>5 DEF AnsweredOnce
  <2>8. WaitersDistinct(c)' /\ SentOnce(c)' /\ Routed(c)'
    BY <1>2 DEF Sound, WaitersDistinct, SentOnce, Routed
  <2> QED
    BY <2>6, <2>7, <2>8 DEF Sound
<1> QED
  BY <1>4, <1>5

\* The socket drops, and what was on it is lost.
LEMMA SoundDisconnect ==
  ASSUME TypeOK, TypeOK', NEW c \in Conns, Sound(c), Disconnect
  PROVE  Sound(c)'
<1>1. UNCHANGED <<chan, hand, nextID, waiting, crossed>> /\ jobs' \subseteq jobs
  BY DEF Disconnect, serverVars, histVars
<1>2. CASE ws # c
  BY <1>1, <1>2, Untouched DEF Disconnect, TypeOK
<1>3. CASE ws = c
  <2>1. toBrowser'[c] = <<>> /\ toServer'[c] = <<>>
    BY <1>3 DEF Disconnect, TypeOK
  <2>2. Elements(<<>>) = {} /\ Len(<<>>) = 0 /\ 1..0 = {}
    BY ElementsShort
  <2>3. Own("out", c)' = {} /\ Own("in", c)' = {} /\ Own("job", c)' \subseteq Own("job", c)
    BY <1>1, <2>1, <2>2 DEF Own
  <2>4. \A p \in Places : Own(p, c)' \subseteq Own(p, c)
    BY <1>1, <2>3, SamePlaces DEF Places
  <2>5. "out" \in Places /\ nextID[c] <= nextID'[c]
    BY <1>1, Bounds DEF Places, TypeOK
  <2>6. OwnersMatch(c)' /\ OnePlace(c)'
    BY <1>1, <2>4, <2>5, Journey DEF Sound
  <2>7. SentOnce(c)' /\ AnsweredOnce(c)'
    BY <2>1, <2>2 DEF SentOnce, AnsweredOnce
  <2>8. WaitersDistinct(c)' /\ Routed(c)'
    BY <1>1 DEF Sound, WaitersDistinct, Routed
  <2> QED
    BY <2>6, <2>7, <2>8 DEF Sound
<1> QED
  BY <1>2, <1>3

\* A step of request() or of the read loop of another connection.
LEMMA OtherConnection ==
  ASSUME TypeOK, NEW c \in Conns, NEW e \in Conns, e # c,
         \/ \E d \in Devs :
              SendRequest(e, d) \/ SendFails(e, d) \/ TakeResponse(e, d) \/ GiveUp(e, d)
         \/ RouteResponse(e) \/ DeliverResponse(e) \/ Cleanup(e)
  PROVE  /\ UNCHANGED <<nextID[c], waiting[c], chan[c], hand[c], toBrowser[c], toServer[c],
                        crossed[c], pending[c], result[c]>>
         /\ UNCHANGED jobs
<1>1. ASSUME NEW d \in Devs, SendRequest(e, d)
      PROVE  /\ UNCHANGED <<nextID[c], waiting[c], chan[c], hand[c], toBrowser[c], toServer[c],
                            crossed[c], pending[c], result[c]>>
             /\ UNCHANGED jobs
  BY <1>1 DEF SendRequest, TypeOK, pageVars, histVars
<1>2. ASSUME NEW d \in Devs, SendFails(e, d)
      PROVE  /\ UNCHANGED <<nextID[c], waiting[c], chan[c], hand[c], toBrowser[c], toServer[c],
                            crossed[c], pending[c], result[c]>>
             /\ UNCHANGED jobs
  BY <1>2 DEF SendFails, TypeOK, wireVars, pageVars, histVars
<1>3. ASSUME NEW d \in Devs, TakeResponse(e, d)
      PROVE  /\ UNCHANGED <<nextID[c], waiting[c], chan[c], hand[c], toBrowser[c], toServer[c],
                            crossed[c], pending[c], result[c]>>
             /\ UNCHANGED jobs
  BY <1>3 DEF TakeResponse, Leave, TypeOK, wireVars, pageVars
<1>4. ASSUME NEW d \in Devs, GiveUp(e, d)
      PROVE  /\ UNCHANGED <<nextID[c], waiting[c], chan[c], hand[c], toBrowser[c], toServer[c],
                            crossed[c], pending[c], result[c]>>
             /\ UNCHANGED jobs
  BY <1>4 DEF GiveUp, Leave, TypeOK, wireVars, pageVars, histVars
<1>5. ASSUME RouteResponse(e)
      PROVE  /\ UNCHANGED <<nextID[c], waiting[c], chan[c], hand[c], toBrowser[c], toServer[c],
                            crossed[c], pending[c], result[c]>>
             /\ UNCHANGED jobs
  BY <1>5 DEF RouteResponse, TypeOK, pageVars
<1>6. ASSUME DeliverResponse(e)
      PROVE  /\ UNCHANGED <<nextID[c], waiting[c], chan[c], hand[c], toBrowser[c], toServer[c],
                            crossed[c], pending[c], result[c]>>
             /\ UNCHANGED jobs
  BY <1>6 DEF DeliverResponse, TypeOK, wireVars, pageVars, histVars
<1>7. ASSUME Cleanup(e)
      PROVE  /\ UNCHANGED <<nextID[c], waiting[c], chan[c], hand[c], toBrowser[c], toServer[c],
                            crossed[c], pending[c], result[c]>>
             /\ UNCHANGED jobs
  BY <1>7 DEF Cleanup, wireVars, pageVars, histVars
<1> QED
  BY <1>1, <1>2, <1>3, <1>4, <1>5, <1>6, <1>7

\* Initially no request is anywhere and nobody waits.
LEMMA InvInit == Init => Inv
<1> SUFFICES ASSUME Init, NEW c \in Conns PROVE Sound(c)
  BY DEF Inv
<1>1. /\ \A d \in Devs : waiting[c][d] = None
      /\ nextID[c] = 0
      /\ \A i \in Ids : chan[c][i] = <<>>
      /\ hand[c] = <<>> /\ toBrowser[c] = <<>> /\ toServer[c] = <<>> /\ jobs = {}
  BY DEF Init
<1>2. Elements(<<>>) = {} /\ Len(<<>>) = 0 /\ 1..0 = {} /\ None <= 0
  BY ElementsShort DEF None
<1>3. \A p \in Places : Own(p, c) = {}
  BY <1>1, <1>2 DEF Places, Own
<1>4. WaitersDistinct(c)
  BY <1>1, <1>2 DEF WaitersDistinct
<1>5. OwnersMatch(c) /\ OnePlace(c)
  BY <1>3 DEF OwnersMatch, OnePlace
<1>6. SentOnce(c) /\ AnsweredOnce(c)
  BY <1>1, <1>2 DEF SentOnce, AnsweredOnce
<1>7. Routed(c)
  BY <1>1, <1>2 DEF Routed
<1> QED
  BY <1>4, <1>5, <1>6, <1>7 DEF Sound

\* Every action keeps the journey of every request sound.
LEMMA InvStep == TypeOK /\ Inv /\ [Next]_vars => Inv'
<1> SUFFICES ASSUME TypeOK, Inv, [Next]_vars, NEW c \in Conns
             PROVE  Sound(c)'
  BY DEF Inv
<1>1. TypeOK' /\ Sound(c)
  BY TypeInvariance DEF Inv
<1>2. ASSUME NEW d \in Devs, SendRequest(c, d) PROVE Sound(c)'
  BY <1>1, <1>2, SoundSend
<1>3. ASSUME NEW d \in Devs, SendFails(c, d) PROVE Sound(c)'
  <2>1. /\ UNCHANGED <<jobs, waiting[c], chan[c], hand[c], toBrowser[c], toServer[c], crossed[c]>>
        /\ nextID'[c] = nextID[c] + 1
    BY <1>3 DEF SendFails, FreshId, TypeOK, wireVars, pageVars, histVars
  <2>2. nextID[c] \in Nat /\ nextID[c] <= nextID'[c]
    BY <2>1, Bounds DEF TypeOK
  <2>3. WaitersDistinct(c)'
    <3>1. \A d1 \in Devs : waiting[c][d1] \in Nat /\ waiting[c][d1] <= nextID[c]
      BY <1>1, Bounds DEF Sound, WaitersDistinct, TypeOK
    <3>2. \A d1 \in Devs : waiting'[c][d1] <= nextID'[c]
      BY <2>1, <2>2, <3>1
    <3>3. \A d1, d2 \in Devs :
            waiting'[c][d1] = waiting'[c][d2] /\ d1 # d2 => waiting'[c][d1] = None
      BY <1>1, <2>1 DEF Sound, WaitersDistinct
    <3> QED
      BY <3>2, <3>3 DEF WaitersDistinct
  <2>4. \A p \in Places : Own(p, c)' \subseteq Own(p, c)
    BY <2>1, SamePlaces DEF Places
  <2>5. OwnersMatch(c)' /\ OnePlace(c)'
    <3>1. "out" \in Places
      BY DEF Places
    <3> QED
      BY <1>1, <2>1, <2>2, <2>4, <3>1, Journey DEF Sound
  <2>6. SentOnce(c)' /\ AnsweredOnce(c)' /\ Routed(c)'
    BY <1>1, <2>1 DEF Sound, SentOnce, AnsweredOnce, Routed
  <2> QED
    BY <2>3, <2>5, <2>6 DEF Sound
<1>4. ASSUME NEW d \in Devs, TakeResponse(c, d) \/ GiveUp(c, d) PROVE Sound(c)'
  BY <1>1, <1>4, SoundLeave
<1>5. CASE RouteResponse(c)
  BY <1>1, <1>5, SoundRoute
<1>6. CASE DeliverResponse(c)
  BY <1>1, <1>6, SoundDeliver
<1>7. CASE Cleanup(c) \/ Reconnect \/ UNCHANGED vars
  <2>1. UNCHANGED <<jobs, nextID, waiting, chan, hand, toBrowser, toServer, crossed>>
    BY <1>7 DEF Cleanup, Reconnect, vars, serverVars, wireVars, pageVars, histVars
  <2> QED
    BY <1>1, <2>1, Untouched
<1>8. ASSUME NEW e \in Conns, e # c,
             \/ \E d \in Devs :
                  SendRequest(e, d) \/ SendFails(e, d) \/ TakeResponse(e, d) \/ GiveUp(e, d)
             \/ RouteResponse(e) \/ DeliverResponse(e) \/ Cleanup(e)
      PROVE  Sound(c)'
  <2>1. /\ UNCHANGED <<nextID[c], waiting[c], chan[c], hand[c], toBrowser[c], toServer[c],
                       crossed[c]>>
        /\ UNCHANGED jobs
    BY <1>8, OtherConnection
  <2> QED
    BY <1>1, <2>1, Untouched
<1>9. CASE ReceiveRequest
  BY <1>1, <1>9, SoundReceive
<1>10. CASE AnswerRequest
  BY <1>1, <1>10, SoundAnswer
<1>11. CASE Disconnect
  BY <1>1, <1>11, SoundDisconnect
<1> QED
  BY <1>2, <1>3, <1>4, <1>5, <1>6, <1>7, <1>8, <1>9, <1>10, <1>11 DEF Next

\* The inductive invariant holds throughout.
THEOREM RequestsSound == Spec => [](TypeOK /\ Inv)
<1>1. Spec => []TypeOK
  BY TypeCorrect
<1> QED
  BY <1>1, InvInit, InvStep, PTL DEF Spec

-----------------------------------------------------------------------------
(* What it is for.                                                         *)

\* The read loop of a connection that no older connection's answer has reached never
\* blocks in its send to a response channel: the channel of the answer in its hands is
\* empty, because that answer is the only copy of it.
THEOREM LoopSafety == Spec => []ReadLoopNeverBlocks
<1>1. TypeOK /\ Inv => ReadLoopNeverBlocks
  <2> SUFFICES ASSUME TypeOK, Inv, NEW c \in Conns, hand[c] # <<>>, ~crossed[c],
                      chan[c][Head(hand[c]).id] # <<>>
               PROVE  FALSE
    BY DEF ReadLoopNeverBlocks, Room
  <2>1. PICK r \in Req : r = Head(hand[c]) /\ Elements(hand[c]) = {r}
    BY OneInChannel DEF TypeOK
  <2>2. r.id \in Ids
    BY DEF Req
  <2>3. chan[c][r.id] \in AtMostOne /\ chan[c][r.id] # <<>>
    BY <2>1, <2>2 DEF TypeOK
  <2>4. PICK x \in Req : x \in Elements(chan[c][r.id])
    BY <2>3, OneInChannel
  <2>5. r.conn = c /\ x.conn = c /\ x.id = r.id
    BY <2>1, <2>2, <2>4 DEF Inv, Sound, Routed
  <2>6. r \in Own("hand", c) /\ x \in Own("chan", c) /\ "hand" \in Places /\ "chan" \in Places
    BY <2>1, <2>2, <2>4, <2>5 DEF Own, Places
  <2>7. "hand" = "chan"
    BY <2>5, <2>6 DEF Inv, Sound, OnePlace
  <2> QED
    BY <2>7
<1> QED
  BY <1>1, RequestsSound, PTL

\* cc.pending is the set of the ids somebody waits for, through timeouts, cancellations and
\* answers in any order: the deferred delete removes its own registration and no other.
THEOREM PendingSafety == Spec => []PendingIsWaiting
<1>1. Init => PendingIsWaiting
  <2> SUFFICES ASSUME Init, NEW c \in Conns
               PROVE  pending[c] = {waiting[c][d] : d \in Devs} \ {None}
    BY DEF PendingIsWaiting
  <2>1. pending[c] = {} /\ \A d \in Devs : waiting[c][d] = None
    BY DEF Init
  <2> QED
    BY <2>1
<1>2. TypeOK /\ Inv /\ PendingIsWaiting /\ [Next]_vars => PendingIsWaiting'
  <2> SUFFICES ASSUME TypeOK, Inv, PendingIsWaiting, [Next]_vars, NEW c \in Conns
               PROVE  pending'[c] = {waiting'[c][d] : d \in Devs} \ {None}
    BY DEF PendingIsWaiting
  <2>1. pending[c] = {waiting[c][d] : d \in Devs} \ {None}
    BY DEF PendingIsWaiting
  <2>2. ASSUME UNCHANGED <<pending[c], waiting[c]>>
        PROVE  pending'[c] = {waiting'[c][d] : d \in Devs} \ {None}
    BY <2>1, <2>2
  <2>3. ASSUME NEW d \in Devs, SendRequest(c, d)
        PROVE  pending'[c] = {waiting'[c][e] : e \in Devs} \ {None}
    <3>1. PICK i \in Ids : i = FreshId(c)
      BY <2>3 DEF SendRequest
    <3>2. i # None /\ waiting[c][d] = None
      BY <2>3, Bounds DEF SendRequest, Ids, None
    <3>3. /\ pending'[c] = pending[c] \cup {i}
          /\ \A e \in Devs : waiting'[c][e] = IF e = d THEN i ELSE waiting[c][e]
      BY SMTT(60), <2>3, <3>1 DEF SendRequest, TypeOK
    <3> QED
      BY <2>1, <3>2, <3>3
  <2>4. ASSUME NEW d \in Devs, TakeResponse(c, d) \/ GiveUp(c, d)
        PROVE  pending'[c] = {waiting'[c][e] : e \in Devs} \ {None}
    <3>1. waiting[c][d] # None /\ Leave(c, d)
      BY <2>4 DEF TakeResponse, GiveUp
    <3>2. /\ pending'[c] = pending[c] \ {waiting[c][d]}
          /\ \A e \in Devs : waiting'[c][e] = IF e = d THEN None ELSE waiting[c][e]
      BY SMTT(60), <3>1 DEF Leave, TypeOK
    <3>3. \A e \in Devs : e # d => waiting[c][e] # waiting[c][d]
      BY <3>1 DEF Inv, Sound, WaitersDistinct
    <3> QED
      BY <2>1, <3>1, <3>2, <3>3
  <2>5. ASSUME NEW d \in Devs, SendFails(c, d)
        PROVE  pending'[c] = {waiting'[c][e] : e \in Devs} \ {None}
    BY <2>2, <2>5 DEF SendFails
  <2>6. ASSUME NEW e \in Conns, e # c,
               \/ \E d \in Devs :
                    SendRequest(e, d) \/ SendFails(e, d) \/ TakeResponse(e, d) \/ GiveUp(e, d)
               \/ RouteResponse(e) \/ DeliverResponse(e) \/ Cleanup(e)
        PROVE  pending'[c] = {waiting'[c][d] : d \in Devs} \ {None}
    BY <2>2, <2>6, OtherConnection
  <2>7. CASE RouteResponse(c) \/ DeliverResponse(c) \/ Cleanup(c)
    BY <2>2, <2>7 DEF RouteResponse, DeliverResponse, Cleanup
  <2>8. CASE ReceiveRequest \/ AnswerRequest \/ Disconnect \/ Reconnect \/ UNCHANGED vars
    BY <2>2, <2>8 DEF ReceiveRequest, AnswerRequest, Disconnect, Reconnect, vars, serverVars
  <2> QED
    BY <2>3, <2>4, <2>5, <2>6, <2>7, <2>8 DEF Next
<1> QED
  BY <1>1, <1>2, RequestsSound, PTL DEF Spec

\* An answer the page computed for a request of this connection is handed to that request:
\* no timeout, late answer or answer out of order gives it to another mount's.
THEOREM AnswerSafety == Spec => []OwnAnswersMatch
<1>1. Init => OwnAnswersMatch
  BY DEF Init, OwnAnswersMatch
<1>2. TypeOK /\ Inv /\ OwnAnswersMatch /\ [Next]_vars => OwnAnswersMatch'
  <2> SUFFICES ASSUME TypeOK, Inv, OwnAnswersMatch, [Next]_vars, NEW c \in Conns, NEW d \in Devs,
                      result'[c][d] # <<>>, result'[c][d][2].conn = c
               PROVE  result'[c][d][2] = result'[c][d][1]
    BY DEF OwnAnswersMatch
  <2>1. ASSUME result'[c][d] = result[c][d]
        PROVE  result'[c][d][2] = result'[c][d][1]
    BY <2>1 DEF OwnAnswersMatch
  <2>2. CASE TakeResponse(c, d)
    <3>1. PICK i : i = waiting[c][d]
      OBVIOUS
    <3>2. i \in Ids
      BY SMTT(60), <2>2, <3>1, Bounds DEF TakeResponse, TypeOK, Ids, None
    <3>3. chan[c][i] \in AtMostOne /\ chan[c][i] # <<>>
      BY <2>2, <3>1, <3>2 DEF TakeResponse, TypeOK
    <3>4. PICK x \in Req : x = Head(chan[c][i]) /\ x \in Elements(chan[c][i])
      BY <3>3, OneInChannel
    <3>5. PICK r \in Req : r = [conn |-> c, id |-> i, dev |-> d]
      BY <3>2 DEF Req
    <3>6. result'[c][d] = <<r, x>>
      BY <2>2, <3>1, <3>4, <3>5 DEF TakeResponse, TypeOK
    <3>7. x.conn = c
      BY <3>6
    <3>8. x.id = i
      BY <3>2, <3>4 DEF Inv, Sound, Routed
    <3>9. x \in Own("chan", c) /\ "chan" \in Places
      BY <3>2, <3>4, <3>7 DEF Own, Places
    <3>10. x.dev = d
      BY <3>1, <3>8, <3>9 DEF Inv, Sound, OwnersMatch
    <3>11. x = r
      BY <3>5, <3>7, <3>8, <3>10 DEF Req
    <3> QED
      BY <3>6, <3>11
  <2>3. ASSUME NEW e \in Devs, e # d, TakeResponse(c, e)
        PROVE  result'[c][d][2] = result'[c][d][1]
    BY <2>1, <2>3 DEF TakeResponse, TypeOK
  <2>4. ASSUME NEW e \in Devs, SendRequest(c, e) \/ SendFails(c, e) \/ GiveUp(c, e)
        PROVE  result'[c][d][2] = result'[c][d][1]
    BY SMTT(60), <2>1, <2>4 DEF SendRequest, SendFails, GiveUp, histVars
  <2>5. ASSUME NEW e \in Conns, e # c,
               \/ \E f \in Devs :
                    SendRequest(e, f) \/ SendFails(e, f) \/ TakeResponse(e, f) \/ GiveUp(e, f)
               \/ RouteResponse(e) \/ DeliverResponse(e) \/ Cleanup(e)
        PROVE  result'[c][d][2] = result'[c][d][1]
    BY SMTT(60), <2>1, <2>5, OtherConnection
  <2>6. CASE RouteResponse(c) \/ DeliverResponse(c) \/ Cleanup(c)
    BY <2>1, <2>6 DEF RouteResponse, DeliverResponse, Cleanup, histVars
  <2>7. CASE ReceiveRequest \/ AnswerRequest \/ Disconnect \/ Reconnect \/ UNCHANGED vars
    BY <2>1, <2>7 DEF ReceiveRequest, AnswerRequest, Disconnect, Reconnect, vars, histVars
  <2> QED
    BY <2>2, <2>3, <2>4, <2>5, <2>6, <2>7 DEF Next
<1> QED
  BY <1>1, <1>2, RequestsSound, PTL DEF Spec

=============================================================================
