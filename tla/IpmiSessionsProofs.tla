-------------------------- MODULE IpmiSessionsProofs --------------------------
(***************************************************************************)
(* Proofs about IpmiSessions, for any commands, any number of runs,        *)
(* retries and polls, and any number of faults: what a command leaves on   *)
(* the card, how often a power action is obeyed, and who may end a console.*)
(***************************************************************************)
EXTENDS IpmiSessions, TLAPS

-----------------------------------------------------------------------------
(* The inductive invariants.                                               *)

\* The values of the variables.
TypeOK ==
  /\ mode \in [Runs -> Modes]
  /\ pc \in [Runs -> Ops \cup {"idle", "console", "returned", "killed"}]
  /\ answer \in [Runs -> Answers]
  /\ tries \in [Runs -> Nat] /\ retries \in [Runs -> Nat] /\ polls \in [Runs -> Nat]
  /\ patient \in [Runs -> BOOLEAN] /\ cancelled \in [Runs -> BOOLEAN]
  /\ flight \in [Runs -> Seq(Ops)]
  /\ open \subseteq Runs /\ payload \in Runs \cup {None}
  /\ performed \in [Runs -> Nat]
  /\ reported \subseteq Runs /\ faults \in Nat
  /\ events \subseteq {"lost", "late", "denied", "kept"}

\* op is among the requests in q.
In(op, q) == \E i \in DOMAIN q : q[i] = op

\* The requests of a command before the console or the deferred calls.
Early == {"connect", "deviceid", "chassis", "solconfig", "control", "activate", "evict",
          "reactivate", "poll"}

\* Nothing was lost, the card gave up what it was told to, and the command is not cancelled.
Clean(r) == events \cap {"lost", "kept"} = {} /\ ~cancelled[r]

\* Then its session and its payload are where they belong: up to the console every request
\* is answered before the next one is sent; later ones may be repeated, but what is left in
\* flight deactivates the payload and closes the session.
Settled(r) ==
  /\ pc[r] = "idle" => flight[r] = <<>> /\ r \notin open /\ payload # r /\ patient[r]
  /\ pc[r] \in Early =>
       /\ patient[r]
       /\ IF answer[r] = "none"
            THEN flight[r] = <<pc[r]>> \/ (pc[r] = "poll" /\ flight[r] = <<>>)
            ELSE flight[r] = <<>>
       /\ IF pc[r] = "connect"
            THEN r \in open <=> answer[r] = "ok"
            ELSE r \in open
       /\ payload = r =>
            pc[r] = "poll" \/ (pc[r] \in {"activate", "reactivate"} /\ answer[r] = "ok")
  /\ pc[r] = "console" => flight[r] = <<>> /\ r \in open
  /\ pc[r] = "deactivate" =>
       /\ flight[r] \in Seq({"deactivate"}) /\ r \in open
       /\ payload = r => flight[r] # <<>>
  /\ pc[r] \in {"close", "returned"} =>
       /\ flight[r] \in Seq({"deactivate", "close"})
       /\ r \in open => flight[r] # <<>> /\ flight[r][Len(flight[r])] = "close"
       /\ payload = r => r \in open /\ Head(flight[r]) = "deactivate"

Tidy(r) == Clean(r) => Settled(r)

\* How often the action of a command was obeyed, as long as nothing is lost: it is sent again
\* only when the card has dropped it.
Counted(r) ==
  /\ pc[r] = "idle" => performed[r] = 0 /\ patient[r] /\ flight[r] = <<>>
  /\ pc[r] = "connect" =>
       /\ performed[r] = 0 /\ patient[r] /\ flight[r] \in {<<>>, <<"connect">>}
       /\ answer[r] = "ok" => flight[r] = <<>>
  /\ pc[r] = "control" =>
       /\ patient[r] /\ flight[r] \in {<<>>, <<"control">>}
       /\ performed[r] > 0 => flight[r] = <<>> /\ answer[r] # "none"
  /\ \/ /\ performed[r] = 0
        /\ \A i, j \in DOMAIN flight[r] :
             flight[r][i] = "control" /\ flight[r][j] = "control" => i = j
     \/ performed[r] = 1 /\ ~In("control", flight[r])

OnceOnly(r) == "lost" \notin events => Counted(r)

\* A positive answer to the action means that the card has obeyed it.
Obeyed(r) == r \in reported \/ (pc[r] = "control" /\ answer[r] = "ok") => performed[r] > 0

\* What a command has in flight is what it has asked: only --force evicts, the deactivation
\* comes with the deferred calls, and the close after it.
InOrder(r) ==
  /\ pc[r] = "idle" => flight[r] = <<>>
  /\ In("evict", flight[r]) \/ pc[r] \in {"evict", "reactivate"} => mode[r] = "force"
  /\ In("deactivate", flight[r]) => pc[r] \in {"deactivate", "close", "returned", "killed"}
  /\ In("close", flight[r]) => pc[r] \in {"close", "returned", "killed"}
  /\ \A i, j \in DOMAIN flight[r] :
       i < j /\ flight[r][i] = "close" => flight[r][j] # "deactivate"

\* No answer was lost or late, and nobody has used --force so far.
Quiet == events \cap {"lost", "late"} = {} /\ \A q \in Runs : mode[q] = "force" => pc[q] = "idle"

\* A command counts on its payload, or is about to give it up.
Claims(r) ==
  \/ pc[r] \in {"activate", "reactivate"} /\ answer[r] = "ok"
  \/ pc[r] \in {"console", "poll"}
  \/ pc[r] = "deactivate" /\ answer[r] = "none"
  \/ In("deactivate", flight[r])

\* Then the payload is its own, and it sends the deactivation once.
Owns(r) ==
  /\ Claims(r) => payload = r
  /\ \A i, j \in DOMAIN flight[r] :
       flight[r][i] = "deactivate" /\ flight[r][j] = "deactivate" => i = j

Holds(r) == Quiet => Owns(r)

Inv ==
  /\ TypeOK
  /\ \A r \in Runs : Tidy(r) /\ OnceOnly(r) /\ Obeyed(r) /\ InOrder(r) /\ Holds(r)

-----------------------------------------------------------------------------
(* Steps.                                                                  *)

\* The request that may follow where a command is.
Follows(r, op) ==
  \/ pc[r] = "idle" /\ op = "connect"
  \/ pc[r] = "connect" /\ answer[r] = "ok" /\ op \in {"deviceid", "control", "chassis", "activate"}
  \/ pc[r] = "deviceid" /\ answer[r] = "ok" /\ op = "chassis"
  \/ pc[r] = "chassis" /\ answer[r] = "ok" /\ op = "solconfig"
  \/ pc[r] \in {"deviceid", "chassis", "solconfig", "control"} /\ answer[r] # "none" /\ op = "close"
  \/ pc[r] = "activate" /\ answer[r] = "busy" /\ mode[r] = "force" /\ op = "evict"
  \/ pc[r] = "evict" /\ answer[r] # "none" /\ op = "reactivate"
  \/ pc[r] \in {"activate", "reactivate"} /\ answer[r] \in {"busy", "fail"} /\ op = "close"
  \/ pc[r] \in {"activate", "reactivate", "poll"} /\ answer[r] = "ok" /\ op = "poll"
  \/ pc[r] = "poll" /\ answer[r] # "none" /\ op = "deactivate"
  \/ pc[r] = "console" /\ op = "deactivate"
  \/ pc[r] = "deactivate" /\ answer[r] # "none" /\ op = "close"

\* A command sends its next request.
AskStep(r, op) ==
  /\ op \in Ops /\ Follows(r, op) /\ Ask(r, op)
  /\ UNCHANGED <<mode, patient, cancelled, cardVars, events, faults>>
  /\ retries' \in [Runs -> Nat] /\ polls' \in [Runs -> Nat]
  /\ reported' = reported \/ (reported' = reported \cup {r} /\ pc[r] = "control" /\ answer[r] = "ok")

\* A command ends, one way or another.
LeaveStep(r) ==
  /\ \/ pc[r] \in {"connect", "close"} /\ answer[r] # "none" /\ Leave(r, "returned")
        /\ (pc[r] = "connect" => answer[r] = "fail")
     \/ pc[r] # "idle" /\ Leave(r, "killed")
  /\ faults' \in Nat

\* Each step of a command sends a request, or starts a console, or ends the command.
LEMMA CommandSteps ==
  ASSUME TypeOK, NEW r \in Runs, Begin(r) \/ Command(r) \/ EndConsole(r) \/ Kill(r)
  PROVE  (\E op \in Ops : AskStep(r, op)) \/ StartConsole(r) \/ LeaveStep(r)
<1> USE DEF Ops, cardVars, historyVars, Done
<1>1. /\ retries \in [Runs -> Nat] /\ polls \in [Runs -> Nat] /\ faults \in Nat
      /\ mode[r] \in Modes
  BY DEF TypeOK
<1>2. [polls EXCEPT ![r] = @ + 1] \in [Runs -> Nat]
  BY <1>1
<1>3. [retries EXCEPT ![r] = Retries] \in [Runs -> Nat]
  BY <1>1, RunsAssumption
<1>4. CASE Begin(r)
  BY <1>1, <1>4 DEF Begin, AskStep, Follows
<1>5. CASE Connected(r)
  <2>1. First(mode[r]) \in {"deviceid", "control", "chassis", "activate"}
    BY DEF First
  <2>2. PICK op \in Ops : op = First(mode[r])
    BY <2>1
  <2>3. AskStep(r, op)
    BY <1>1, <1>5, <2>1, <2>2 DEF Connected, AskStep, Follows
  <2> QED
    BY <2>3
<1>6. CASE NotConnected(r)
  BY <1>1, <1>6 DEF NotConnected, LeaveStep
<1>7. CASE NextInfo(r)
  BY <1>1, <1>7 DEF NextInfo, AskStep, Follows
<1>8. CASE EndInfo(r)
  <2>1. AskStep(r, "close")
    BY <1>1, <1>8 DEF EndInfo, AskStep, Follows
  <2> QED
    BY <2>1
<1>9. CASE EndControl(r)
  <2>1. AskStep(r, "close")
    BY <1>1, <1>9 DEF EndControl, AskStep, Follows, Succeeds
  <2> QED
    BY <2>1
<1>10. CASE Evict(r)
  BY <1>1, <1>10 DEF Evict, TakesOver, AskStep, Follows
<1>11. CASE NotActivated(r)
  <2>1. AskStep(r, "close")
    BY <1>1, <1>11 DEF NotActivated, AskStep, Follows
  <2> QED
    BY <2>1
<1>12. CASE StartConsole(r)
  BY <1>12
<1>13. CASE NextPoll(r)
  <2>1. AskStep(r, "poll")
    BY <1>1, <1>2, <1>13 DEF NextPoll, Activated, AskStep, Follows
  <2> QED
    BY <2>1
<1>14. CASE EndPolls(r)
  <2>1. AskStep(r, "deactivate")
    BY <1>1, <1>14 DEF EndPolls, Teardown, AskStep, Follows
  <2> QED
    BY <2>1
<1>15. CASE EndConsole(r)
  <2>1. AskStep(r, "deactivate")
    BY <1>1, <1>3, <1>15 DEF EndConsole, Teardown, AskStep, Follows
  <2> QED
    BY <2>1
<1>16. CASE NextDeferred(r)
  <2>1. AskStep(r, "close")
    BY <1>1, <1>16 DEF NextDeferred, Teardown, AskStep, Follows
  <2> QED
    BY <2>1
<1>17. CASE Returns(r)
  BY <1>1, <1>17 DEF Returns, LeaveStep
<1>18. CASE Kill(r)
  BY <1>1, <1>18 DEF Kill, Alive, LeaveStep
<1> QED
  BY <1>4, <1>5, <1>6, <1>7, <1>8, <1>9, <1>10, <1>11, <1>12, <1>13, <1>14, <1>15, <1>16,
     <1>17, <1>18 DEF Command

\* The values stay of their types.
LEMMA TypeInit == Init => TypeOK
  BY ScenariosAssumption, RunsAssumption DEF Init, TypeOK, Answers, Runs, None

\* A queue after a request is added to it,
LEMMA QueueAppend ==
  ASSUME NEW S, NEW q \in Seq(S), NEW x \in S
  PROVE  /\ Append(q, x) \in Seq(S) /\ Append(q, x) # <<>> /\ Len(Append(q, x)) = Len(q) + 1
         /\ DOMAIN q = 1..Len(q) /\ DOMAIN Append(q, x) = 1..(Len(q) + 1) /\ Len(q) \in Nat
         /\ \A i \in DOMAIN q : Append(q, x)[i] = q[i]
         /\ Append(q, x)[Len(q) + 1] = x
         /\ \A i \in DOMAIN Append(q, x) : i \in DOMAIN q \/ i = Len(q) + 1
         /\ \A op : In(op, Append(q, x)) <=> In(op, q) \/ op = x
<1>1. PICK n \in Nat : n = Len(q)
  OBVIOUS
<1>2. PICK a : a = Append(q, x)
  OBVIOUS
<1>3. /\ Len(a) = n + 1 /\ a # <<>> /\ DOMAIN q = 1..n /\ DOMAIN a = 1..(n + 1)
      /\ \A i \in 1..n : a[i] = q[i]
      /\ a[n + 1] = x /\ a \in Seq(S)
  BY <1>1, <1>2
<1>4. \A i \in 1..(n + 1) : i \in 1..n \/ i = n + 1
  OBVIOUS
<1>5. n + 1 \in 1..(n + 1) /\ \A i \in 1..n : i \in 1..(n + 1)
  OBVIOUS
<1>6. \A op : In(op, a) <=> In(op, q) \/ op = x
  BY <1>3, <1>4, <1>5 DEF In
<1> QED
  BY <1>1, <1>2, <1>3, <1>4, <1>6, Zenon

\* So a request is in the longer queue only if it was there, or is the one appended.
LEMMA QueueGrown ==
  ASSUME NEW S, NEW f \in Seq(S), NEW op \in S, NEW g, g = f \/ g = Append(f, op), NEW x, In(x, g)
  PROVE  In(x, f) \/ x = op
<1>1. CASE g = f
  BY <1>1, Zenon
<1>2. CASE g = Append(f, op)
  <2>1. In(x, Append(f, op)) <=> In(x, f) \/ x = op
    BY QueueAppend
  <2>2. In(x, Append(f, op))
    BY <1>2, Zenon
  <2> QED
    BY <2>1, <2>2
<1> QED
  BY <1>1, <1>2

\* and after its first one is taken off it.
LEMMA QueueTail ==
  ASSUME NEW S, NEW q \in Seq(S), q # <<>>
  PROVE  /\ Tail(q) \in Seq(S) /\ Len(Tail(q)) = Len(q) - 1 /\ Len(q) \in Nat \ {0}
         /\ DOMAIN q = 1..Len(q) /\ 1 \in DOMAIN q /\ Head(q) = q[1] /\ Head(q) \in S
         /\ \A i \in DOMAIN Tail(q) : i \in Nat /\ i + 1 \in DOMAIN q /\ Tail(q)[i] = q[i + 1]
         /\ \A op : In(op, Tail(q)) => In(op, q)
         /\ In(Head(q), q)
<1>1. PICK n \in Nat \ {0} : n = Len(q)
  OBVIOUS
<1>2. PICK t : t = Tail(q)
  OBVIOUS
<1>3. /\ Len(t) = n - 1 /\ DOMAIN q = 1..n /\ DOMAIN t = 1..(n - 1) /\ Head(q) = q[1]
      /\ \A i \in 1..(n - 1) : t[i] = q[i + 1]
      /\ t \in Seq(S)
  BY <1>1, <1>2
<1>4. 1 \in 1..n /\ \A i \in 1..(n - 1) : i \in Nat /\ i + 1 \in 1..n
  OBVIOUS
<1>5. \A op : In(op, t) => In(op, q)
  BY <1>3, <1>4 DEF In
<1>6. In(Head(q), q) /\ Head(q) \in S
  BY <1>3, <1>4 DEF In
<1> QED
  BY <1>1, <1>2, <1>3, <1>4, <1>5, <1>6, Zenon

\* What a run, its requests or the card on its behalf may do.
Moves(r) ==
  \/ (\E op \in Ops : AskStep(r, op)) \/ StartConsole(r) \/ LeaveStep(r) \/ Cancel(r)
  \/ Timeout(r) \/ CancelRequest(r)
  \/ CardServes(r) \/ CardRefuses(r) \/ AnswerLost(r) \/ RequestLost(r) \/ CardExpires(r)

\* A step of the system is a move of one run, or nothing.
LEMMA Steps ==
  ASSUME TypeOK, [Next]_vars
  PROVE  (\E r \in Runs : Moves(r)) \/ UNCHANGED vars
  BY CommandSteps DEF Next, Moves, Finished

\* What the card does for a run.
LEMMA ObeyTypes ==
  ASSUME TypeOK, NEW r \in Runs, NEW op, Obey(r, op)
  PROVE  /\ open' \subseteq Runs /\ payload' \in Runs \cup {None} /\ performed' \in [Runs -> Nat]
         /\ \A q \in Runs \ {r} : /\ q \in open' <=> q \in open
                                  /\ payload' = q => payload = q
                                  /\ performed'[q] = performed[q]
<1>1. /\ open \subseteq Runs /\ payload \in Runs \cup {None} /\ performed \in [Runs -> Nat]
      /\ None \notin Runs
  BY DEF TypeOK, Runs, None
<1>2. open' \in {open, open \cup {r}, open \ {r}}
  BY DEF Obey
<1>3. payload' \in {r, None, payload}
  BY DEF Obey
<1>4. performed' \in {performed, [performed EXCEPT ![r] = @ + 1]}
  BY DEF Obey
<1>5. performed' \in [Runs -> Nat] /\ \A q \in Runs \ {r} : performed'[q] = performed[q]
  BY <1>1, <1>4
<1> QED
  BY <1>1, <1>2, <1>3, <1>5

\* The values stay of their types.
LEMMA TypeMove ==
  ASSUME TypeOK, NEW r \in Runs, Moves(r)
  PROVE  TypeOK'
<1> USE DEF TypeOK
<1> DEFINE P == Ops \cup {"idle", "console", "returned", "killed"}
<1>1. ASSUME NEW q \in Seq(Ops), q # <<>> PROVE Tail(q) \in Seq(Ops)
  BY <1>1
<1>2. ASSUME NEW op \in Ops, AskStep(r, op) PROVE TypeOK'
  <2>1. /\ pc' = [pc EXCEPT ![r] = op] /\ tries' = [tries EXCEPT ![r] = 0]
        /\ answer' = [answer EXCEPT ![r] = "none"] \/ answer' = [answer EXCEPT ![r] = "fail"]
        /\ flight' = [flight EXCEPT ![r] = Append(@, op)] \/ flight' = flight
        /\ UNCHANGED <<mode, patient, cancelled, open, payload, performed, events, faults>>
        /\ retries' \in [Runs -> Nat] /\ polls' \in [Runs -> Nat] /\ reported' \subseteq Runs
    BY <1>2 DEF AskStep, Ask, cardVars
  <2>2. Append(flight[r], op) \in Seq(Ops)
    OBVIOUS
  <2>3. flight' \in [Runs -> Seq(Ops)]
    BY ZenonT(90), <2>1, <2>2
  <2>4. answer' \in [Runs -> Answers]
    BY <2>1 DEF Answers
  <2>5. pc' \in [Runs -> P] /\ tries' \in [Runs -> Nat]
    BY <2>1
  <2> QED
    BY <2>1, <2>3, <2>4, <2>5
<1>3. CASE StartConsole(r)
  BY <1>3 DEF StartConsole, cardVars, historyVars
<1>4. CASE LeaveStep(r)
  <2>1. \/ Leave(r, "returned") \/ Leave(r, "killed")
    BY <1>4 DEF LeaveStep
  <2>2. faults' \in Nat
    BY <1>4 DEF LeaveStep
  <2>3. pc' \in [Runs -> P] /\ answer' \in [Runs -> Answers]
    BY <2>1 DEF Leave, Answers
  <2>4. /\ tries' = [tries EXCEPT ![r] = 0] /\ retries' = [retries EXCEPT ![r] = 0]
        /\ polls' = [polls EXCEPT ![r] = 0] /\ patient' = [patient EXCEPT ![r] = FALSE]
    BY <2>1, Zenon DEF Leave
  <2>6. tries' \in [Runs -> Nat] /\ retries' \in [Runs -> Nat] /\ polls' \in [Runs -> Nat]
    BY <2>4
  <2>7. patient' \in [Runs -> BOOLEAN]
    BY <2>4
  <2>5. UNCHANGED <<mode, cancelled, flight, open, payload, performed, reported, events>>
    BY <2>1 DEF Leave, cardVars, historyVars
  <2> QED
    BY <2>2, <2>3, <2>5, <2>6, <2>7
<1>5. CASE Cancel(r)
  BY SMTT(60), <1>5 DEF Cancel, cardVars, historyVars
<1>6. CASE Timeout(r)
  <2>1. /\ tries' = [tries EXCEPT ![r] = @ + 1] \/ tries' = tries
        /\ flight' = [flight EXCEPT ![r] = Append(@, pc[r])] \/ flight' = flight
        /\ answer' = [answer EXCEPT ![r] = "fail"] \/ answer' = answer
        /\ pc[r] \in Ops
    BY <1>6 DEF Timeout
  <2>2. Append(flight[r], pc[r]) \in Seq(Ops)
    BY <2>1
  <2>3. flight' \in [Runs -> Seq(Ops)]
    BY ZenonT(90), <2>1, <2>2
  <2>4. answer' \in [Runs -> Answers]
    BY <2>1 DEF Answers
  <2>5. events' \subseteq {"lost", "late", "denied", "kept"}
    BY <1>6 DEF Timeout
  <2>6. tries' \in [Runs -> Nat]
    <3>1. [tries EXCEPT ![r] = @ + 1] \in [Runs -> Nat]
      OBVIOUS
    <3>2. CASE tries' = tries
      BY <3>2
    <3>3. CASE tries' = [tries EXCEPT ![r] = @ + 1]
      BY <3>1, <3>3
    <3> QED
      BY <2>1, <3>2, <3>3, Zenon
  <2>7. UNCHANGED <<mode, pc, retries, patient, polls, cancelled, cardVars, reported, faults>>
    BY <1>6 DEF Timeout
  <2> QED
    BY <2>3, <2>4, <2>5, <2>6, <2>7 DEF cardVars
<1>7. CASE CancelRequest(r)
  BY <1>7 DEF CancelRequest, cardVars, historyVars, Answers
<1>8. CASE CardServes(r)
  <2>1. /\ flight[r] # <<>> /\ flight' = [flight EXCEPT ![r] = Tail(@)]
        /\ UNCHANGED <<mode, pc, tries, retries, patient, polls, cancelled, historyVars, faults>>
    BY <1>8 DEF CardServes
  <2>2. flight' \in [Runs -> Seq(Ops)]
    BY <1>1, <2>1
  <2>3. \/ Obey(r, Head(flight[r])) \/ UNCHANGED cardVars
    BY <1>8 DEF CardServes
  <2>4. open' \subseteq Runs /\ payload' \in Runs \cup {None} /\ performed' \in [Runs -> Nat]
    BY <2>3, ObeyTypes DEF cardVars
  <2>5. \/ answer' = answer \/ \E a \in Answers : answer' = [answer EXCEPT ![r] = a]
    BY <1>8 DEF CardServes, Answer, Replies, Answers
  <2>6. answer' \in [Runs -> Answers]
    BY ZenonT(90), <2>5
  <2> QED
    BY <2>1, <2>2, <2>4, <2>6 DEF historyVars
<1>9. CASE AnswerLost(r) \/ RequestLost(r)
  <2>1. /\ flight[r] # <<>> /\ flight' = [flight EXCEPT ![r] = Tail(@)]
        /\ UNCHANGED <<clientVars, reported>> /\ faults' = faults + 1
        /\ events' = events \cup {"lost"}
    BY <1>9 DEF AnswerLost, RequestLost
  <2>2. flight' \in [Runs -> Seq(Ops)]
    BY <1>1, <2>1
  <2>3. \/ Obey(r, Head(flight[r])) \/ UNCHANGED cardVars
    BY <1>9 DEF AnswerLost, RequestLost
  <2>4. open' \subseteq Runs /\ payload' \in Runs \cup {None} /\ performed' \in [Runs -> Nat]
    BY <2>3, ObeyTypes DEF cardVars
  <2>5. faults' \in Nat /\ events' \subseteq {"lost", "late", "denied", "kept"}
    BY <2>1
  <2>6. UNCHANGED <<mode, pc, answer, tries, retries, patient, polls, cancelled, reported>>
    BY <2>1 DEF clientVars
  <2> QED
    BY <2>2, <2>4, <2>5, <2>6
<1>10. CASE CardExpires(r)
  BY <1>10 DEF CardExpires, clientVars, historyVars
<1>11. CASE CardRefuses(r)
  <2>1. /\ flight[r] # <<>> /\ flight' = [flight EXCEPT ![r] = Tail(@)]
        /\ answer' = answer \/ answer' = [answer EXCEPT ![r] = "fail"]
        /\ UNCHANGED <<mode, pc, tries, retries, patient, polls, cancelled, cardVars, reported>>
    BY <1>11 DEF CardRefuses, Answer
  <2>2. flight' \in [Runs -> Seq(Ops)]
    BY <1>1, <2>1
  <2>3. answer' \in [Runs -> Answers]
    BY <2>1 DEF Answers
  <2>4. faults' \in Nat /\ events' \subseteq {"lost", "late", "denied", "kept"}
    BY <1>11 DEF CardRefuses, Refusal
  <2> QED
    BY <2>1, <2>2, <2>3, <2>4 DEF cardVars
<1> QED
  BY <1>2, <1>3, <1>4, <1>5, <1>6, <1>7, <1>8, <1>9, <1>10, <1>11 DEF Moves

\* What is one run's is not touched by the others; a payload can be taken, but not given.
LEMMA OthersKept ==
  ASSUME TypeOK, NEW q \in Runs, Moves(q), NEW r \in Runs, r # q
  PROVE  /\ pc'[r] = pc[r] /\ answer'[r] = answer[r] /\ flight'[r] = flight[r]
         /\ patient'[r] = patient[r] /\ cancelled'[r] = cancelled[r] /\ mode' = mode
         /\ performed'[r] = performed[r] /\ (r \in open' <=> r \in open)
         /\ (payload' = r => payload = r) /\ (r \in reported' <=> r \in reported)
         /\ events \subseteq events'
<1> USE DEF TypeOK
<1>1. None \notin Runs
  BY DEF None, Runs
<1>2. ASSUME NEW op \in Ops, AskStep(q, op)
      PROVE  /\ pc'[r] = pc[r] /\ answer'[r] = answer[r] /\ flight'[r] = flight[r]
             /\ UNCHANGED <<mode, patient, cancelled, open, payload, performed, events>>
             /\ (r \in reported' <=> r \in reported)
  BY ZenonT(90), <1>2 DEF AskStep, Ask, cardVars
<1>3. CASE StartConsole(q)
  BY <1>3 DEF StartConsole, cardVars, historyVars
<1>4. CASE LeaveStep(q)
  <2>1. \/ Leave(q, "returned") \/ Leave(q, "killed")
    BY <1>4 DEF LeaveStep
  <2> QED
    BY <2>1 DEF Leave, cardVars, historyVars
<1>5. CASE Cancel(q)
  BY <1>5 DEF Cancel, cardVars, historyVars
<1>6. CASE Timeout(q)
  <2>1. events \subseteq events' /\ UNCHANGED <<mode, pc, patient, cancelled, cardVars, reported>>
    BY <1>6 DEF Timeout
  <2>2. /\ flight' = [flight EXCEPT ![q] = Append(@, pc[q])] \/ flight' = flight
        /\ answer' = [answer EXCEPT ![q] = "fail"] \/ answer' = answer
    BY <1>6 DEF Timeout
  <2>3. flight'[r] = flight[r] /\ answer'[r] = answer[r]
    BY <2>2
  <2> QED
    BY <2>1, <2>3 DEF cardVars
<1>7. CASE CancelRequest(q)
  BY <1>7 DEF CancelRequest, cardVars, historyVars
<1>8. CASE CardServes(q)
  <2>1. /\ flight' = [flight EXCEPT ![q] = Tail(@)]
        /\ UNCHANGED <<mode, pc, patient, cancelled, historyVars>>
    BY <1>8 DEF CardServes
  <2>2. \/ Obey(q, Head(flight[q])) \/ UNCHANGED cardVars
    BY <1>8 DEF CardServes
  <2>3. /\ r \in open' <=> r \in open
        /\ payload' = r => payload = r
        /\ performed'[r] = performed[r]
    BY <2>2, ObeyTypes DEF cardVars
  <2>4. \/ answer' = answer \/ \E a : answer' = [answer EXCEPT ![q] = a]
    BY <1>8, Zenon DEF CardServes, Answer
  <2>5. answer'[r] = answer[r] /\ flight'[r] = flight[r]
    BY <2>1, <2>4
  <2> QED
    BY <2>1, <2>3, <2>5 DEF historyVars
<1>9. CASE AnswerLost(q) \/ RequestLost(q)
  <2>1. /\ flight' = [flight EXCEPT ![q] = Tail(@)]
        /\ UNCHANGED <<clientVars, reported>> /\ events \subseteq events'
    BY <1>9 DEF AnswerLost, RequestLost
  <2>2. \/ Obey(q, Head(flight[q])) \/ UNCHANGED cardVars
    BY <1>9 DEF AnswerLost, RequestLost
  <2>3. /\ r \in open' <=> r \in open
        /\ payload' = r => payload = r
        /\ performed'[r] = performed[r]
    BY <2>2, ObeyTypes DEF cardVars
  <2> QED
    BY <2>1, <2>3 DEF clientVars
<1>10. CASE CardExpires(q)
  BY <1>1, <1>10 DEF CardExpires, clientVars, historyVars
<1>11. CASE CardRefuses(q)
  <2>1. /\ flight' = [flight EXCEPT ![q] = Tail(@)]
        /\ answer' = answer \/ answer' = [answer EXCEPT ![q] = "fail"]
        /\ UNCHANGED <<mode, pc, patient, cancelled, cardVars, reported>>
        /\ events \subseteq events'
    BY <1>11 DEF CardRefuses, Answer
  <2>2. answer'[r] = answer[r] /\ flight'[r] = flight[r]
    BY <2>1
  <2> QED
    BY <2>1, <2>2 DEF cardVars
<1> QED
  BY <1>2, <1>3, <1>4, <1>5, <1>6, <1>7, <1>8, <1>9, <1>10, <1>11 DEF Moves

\* So what holds for a run goes on holding while another one moves.
LEMMA OthersSound ==
  ASSUME Inv, NEW q \in Runs, Moves(q), NEW r \in Runs, r # q
  PROVE  Tidy(r)' /\ OnceOnly(r)' /\ Obeyed(r)' /\ InOrder(r)'
<1>1. /\ pc'[r] = pc[r] /\ answer'[r] = answer[r] /\ flight'[r] = flight[r]
      /\ patient'[r] = patient[r] /\ cancelled'[r] = cancelled[r] /\ mode' = mode
      /\ performed'[r] = performed[r] /\ (r \in open' <=> r \in open)
      /\ (payload' = r => payload = r) /\ (r \in reported' <=> r \in reported)
      /\ events \subseteq events'
  BY OthersKept DEF Inv
<1>2. Tidy(r) /\ OnceOnly(r) /\ Obeyed(r) /\ InOrder(r)
  BY DEF Inv
<1>3. Tidy(r)'
  BY <1>1, <1>2 DEF Tidy, Clean, Settled
<1>4. OnceOnly(r)'
  BY <1>1, <1>2 DEF OnceOnly, Counted, In
<1>5. Obeyed(r)'
  BY <1>1, <1>2 DEF Obeyed
<1>6. InOrder(r)'
  BY <1>1, <1>2 DEF InOrder, In
<1> QED
  BY <1>3, <1>4, <1>5, <1>6

-----------------------------------------------------------------------------
(* What a command leaves.                                                  *)

\* What has gone wrong stays so.
LEMMA Grows ==
  ASSUME TypeOK, NEW r \in Runs, Moves(r)
  PROVE  events \subseteq events' /\ mode' = mode /\ (cancelled[r] => cancelled'[r])
<1>1. ASSUME NEW op \in Ops, AskStep(r, op)
      PROVE  UNCHANGED <<events, mode, cancelled>>
  BY <1>1 DEF AskStep
<1>2. CASE StartConsole(r) \/ LeaveStep(r) \/ CancelRequest(r) \/ CardServes(r) \/ CardExpires(r)
  BY <1>2, Zenon DEF StartConsole, LeaveStep, Leave, CancelRequest, CardServes, CardExpires, clientVars,
               historyVars
<1>3. CASE Cancel(r)
  BY <1>3 DEF Cancel, TypeOK, historyVars
<1>4. CASE Timeout(r) \/ CardRefuses(r) \/ AnswerLost(r) \/ RequestLost(r)
  BY <1>4 DEF Timeout, CardRefuses, AnswerLost, RequestLost, clientVars
<1> QED
  BY <1>1, <1>2, <1>3, <1>4 DEF Moves

\* A run that is neither cancelled nor loses a datagram goes on tidying up after itself.
LEMMA TidyMove ==
  ASSUME Inv, NEW r \in Runs, Moves(r)
  PROVE  Tidy(r)'
<1>1. SUFFICES ASSUME Clean(r)' PROVE Settled(r)'
  BY DEF Tidy
<1>2. TypeOK
  BY DEF Inv
<1>3. Clean(r) /\ Settled(r)
  BY <1>1, <1>2, Grows DEF Clean, Inv, Tidy
<1>4. r # None
  BY DEF Runs, None
<1>5. /\ pc \in [Runs -> Ops \cup {"idle", "console", "returned", "killed"}]
      /\ answer \in [Runs -> Answers] /\ flight \in [Runs -> Seq(Ops)]
      /\ patient \in [Runs -> BOOLEAN] /\ tries \in [Runs -> Nat]
  BY <1>2 DEF TypeOK
<1>6. PICK f \in Seq(Ops) : f = flight[r]
  BY <1>5
<1>7. ASSUME NEW op \in Ops, AskStep(r, op) PROVE Settled(r)'
  <2>1. /\ pc'[r] = op /\ answer'[r] = "none" /\ flight'[r] = Append(f, op)
        /\ UNCHANGED <<open, payload, patient>>
    BY <1>3, <1>5, <1>6, <1>7 DEF AskStep, Ask, Clean, cardVars
  <2>2. Follows(r, op)
    BY <1>7 DEF AskStep
  <2>3. CASE f = <<>>
    <3>1. flight'[r] = <<op>>
      BY <2>1, <2>3
    <3>2. CASE op \in Early
      <4>1. patient[r]
        BY <1>3, <2>2, <3>2 DEF Follows, Settled, Early
      <4>2. op = "connect" => r \notin open
        BY <1>3, <2>2 DEF Follows, Settled
      <4>3. op # "connect" => r \in open
        BY <1>3, <2>2, <3>2 DEF Follows, Settled, Early
      <4>4. payload = r => op = "poll"
        BY <1>3, <2>2, <3>2 DEF Follows, Settled, Early
      <4> QED
        BY <2>1, <3>1, <3>2, <4>1, <4>2, <4>3, <4>4 DEF Settled, Early
    <3>3. CASE op = "deactivate"
      <4>1. r \in open
        BY <1>3, <2>2, <3>3 DEF Follows, Settled, Early
      <4>2. <<op>> \in Seq({"deactivate"}) /\ <<op>> # <<>>
        BY <3>3
      <4> QED
        BY <2>1, <3>1, <3>3, <4>1, <4>2 DEF Settled, Early
    <3>4. CASE op = "close"
      <4>1. payload # r
        BY <1>3, <1>6, <2>2, <2>3, <3>4 DEF Follows, Settled, Early
      <4>2. /\ <<op>> \in Seq({"deactivate", "close"}) /\ <<op>> # <<>>
            /\ <<op>>[Len(<<op>>)] = "close"
        BY <3>4
      <4> QED
        BY <2>1, <3>1, <3>4, <4>1, <4>2 DEF Settled, Early
    <3> QED
      BY <3>2, <3>3, <3>4 DEF Ops, Early
  <2>4. CASE f # <<>>
    <3>1. pc[r] = "deactivate" /\ op = "close"
      BY <1>3, <1>6, <2>2, <2>4 DEF Follows, Settled, Early
    <3>2. f \in Seq({"deactivate"}) /\ r \in open
      BY <1>3, <1>6, <3>1 DEF Settled
    <3>3. PICK g : g = Append(f, op)
      OBVIOUS
    <3>4. /\ f \in Seq({"deactivate", "close"})
          /\ Len(f) \in Nat \ {0} /\ f[1] = "deactivate"
      BY <2>4, <3>2
    <3>5. /\ g \in Seq({"deactivate", "close"}) /\ g # <<>> /\ g[Len(g)] = "close"
          /\ Head(g) = "deactivate"
      BY <3>1, <3>3, <3>4
    <3> QED
      BY <2>1, <3>1, <3>2, <3>3, <3>5 DEF Settled, Early
  <2> QED
    BY <2>3, <2>4
<1>8. CASE StartConsole(r)
  BY <1>3, <1>5, <1>8 DEF StartConsole, Activated, Done, Settled, Early, cardVars
<1>9. CASE LeaveStep(r)
  <2>1. UNCHANGED <<open, payload, flight>> /\ pc'[r] \in {"returned", "killed"}
    BY <1>5, <1>9 DEF LeaveStep, Leave, cardVars
  <2>2. pc'[r] = "returned" => pc[r] = "close" \/ (pc[r] = "connect" /\ answer[r] = "fail")
    BY <1>3, <1>5, <1>9 DEF LeaveStep, Leave
  <2>3. pc[r] = "connect" /\ answer[r] = "fail" =>
          flight[r] \in Seq({"deactivate", "close"}) /\ r \notin open /\ payload # r
    <3>1. pc[r] = "connect" /\ answer[r] = "fail" =>
            flight[r] = <<>> /\ r \notin open /\ payload # r
      BY <1>3 DEF Settled, Early
    <3>2. <<>> \in Seq({"deactivate", "close"})
      OBVIOUS
    <3> QED
      BY <3>1, <3>2, Zenon
  <2> QED
    BY <1>3, <2>1, <2>2, <2>3 DEF Settled, Early
<1>10. CASE Cancel(r)
  BY <1>1, <1>2, <1>10 DEF Cancel, Clean, TypeOK
<1>11. CASE Timeout(r)
  <2>1. /\ pc[r] \in Ops /\ answer[r] = "none" /\ (f = <<>> \/ ~patient[r])
        /\ \/ flight'[r] = Append(f, pc[r]) /\ answer'[r] = "none"
           \/ flight'[r] = f /\ answer'[r] = "fail"
        /\ UNCHANGED <<pc, open, payload, patient>>
    BY <1>5, <1>6, <1>11 DEF Timeout, cardVars
  <2>2. CASE pc[r] \in Early
    <3>1. pc[r] = "poll" /\ f = <<>>
      <4>1. patient[r] /\ (f = <<pc[r]>> \/ (pc[r] = "poll" /\ f = <<>>))
        BY <1>3, <1>6, <2>1, <2>2 DEF Settled
      <4>2. <<pc[r]>> # <<>>
        OBVIOUS
      <4> QED
        BY <2>1, <4>1, <4>2, Zenon
    <3>2. flight'[r] = IF answer'[r] = "none" THEN <<pc[r]>> ELSE <<>>
      BY <2>1, <3>1
    <3> QED
      BY <1>3, <2>1, <3>1, <3>2 DEF Settled, Early
  <2>3. CASE pc[r] \in {"deactivate", "close"}
    <3>1. CASE flight'[r] = f
      BY <1>3, <1>6, <2>1, <2>3, <3>1 DEF Settled, Early
    <3>2. CASE flight'[r] = Append(f, pc[r])
      <4>1. PICK g : g = Append(f, pc[r])
        OBVIOUS
      <4>2. CASE pc[r] = "deactivate"
        <5>1. f \in Seq({"deactivate"})
          BY <1>3, <1>6, <4>2 DEF Settled
        <5>2. g \in Seq({"deactivate"}) /\ g # <<>>
          BY <4>1, <4>2, <5>1
        <5> QED
          BY <1>3, <2>1, <3>2, <4>1, <4>2, <5>2 DEF Settled, Early
      <4>3. CASE pc[r] = "close"
        <5>1. f \in Seq({"deactivate", "close"}) /\ (r \in open => f # <<>>)
          BY <1>3, <1>6, <4>3 DEF Settled
        <5>2. g \in Seq({"deactivate", "close"}) /\ g # <<>> /\ g[Len(g)] = "close"
          BY <4>1, <4>3, <5>1
        <5>3. f # <<>> => Head(g) = Head(f)
          BY <4>1, <4>3, <5>1
        <5> QED
          BY <1>3, <1>6, <2>1, <3>2, <4>1, <4>3, <5>1, <5>2, <5>3 DEF Settled, Early
      <4> QED
        BY <2>3, <4>2, <4>3
    <3> QED
      BY <2>1, <3>1, <3>2
  <2> QED
    BY <2>1, <2>2, <2>3 DEF Ops, Early
<1>12. CASE CancelRequest(r)
  BY <1>3, <1>12 DEF CancelRequest, Clean
<1>13. CASE CardServes(r)
  <2>1. /\ f # <<>> /\ flight'[r] = Tail(f)
        /\ UNCHANGED <<pc, patient>>
    BY <1>5, <1>6, <1>13 DEF CardServes
  <2>2. PICK op \in Ops : op = Head(f)
    BY <2>1
  <2>3. PICK g : g = Tail(f)
    OBVIOUS
  <2>4. CASE pc[r] \in Early
    <3>1. f = <<pc[r]>> /\ answer[r] = "none" /\ op = pc[r] /\ g = <<>> /\ patient[r]
      <4>1. f = <<pc[r]>> /\ answer[r] = "none" /\ patient[r]
        BY <1>3, <1>6, <2>1, <2>4 DEF Settled
      <4> QED
        BY <2>2, <2>3, <4>1
    <3>2. op = "connect" \/ r \in open
      BY <1>3, <2>4, <3>1 DEF Settled
    <3>3. PICK reply \in Replies(r, op) : Obey(r, op) /\ answer'[r] = reply
      BY <1>5, <1>6, <1>13, <2>2, <3>1, <3>2 DEF CardServes, Answer
    <3>4. r \in open'
      BY <2>4, <3>1, <3>2, <3>3 DEF Obey, Early
    <3>5. payload # r \/ op = "poll"
      BY <1>3, <2>4, <3>1 DEF Settled
    <3>6. payload' = r => op = "poll" \/ (op \in {"activate", "reactivate"} /\ reply = "ok")
      BY <1>4, <2>4, <3>1, <3>3, <3>5 DEF Obey, Replies, Early
    <3>7. reply # "none" \/ op = "poll"
      BY <3>3 DEF Replies
    <3>8. op = "connect" => reply = "ok"
      BY <3>3 DEF Replies
    <3> QED
      BY <2>1, <2>3, <2>4, <3>1, <3>3, <3>4, <3>6, <3>7, <3>8 DEF Settled, Early
  <2>5. CASE pc[r] = "deactivate"
    <3>1. f \in Seq({"deactivate"}) /\ r \in open
      BY <1>3, <1>6, <2>5 DEF Settled
    <3>2. op = "deactivate" /\ g \in Seq({"deactivate"})
      BY <2>1, <2>2, <2>3, <3>1
    <3>3. Obey(r, op)
      BY <1>6, <1>13, <2>2, <3>1 DEF CardServes
    <3>4. r \in open' /\ payload' = None
      BY <3>1, <3>2, <3>3 DEF Obey
    <3> QED
      BY <1>4, <2>1, <2>3, <2>5, <3>2, <3>4 DEF Settled, Early
  <2>6. CASE pc[r] \in {"close", "returned"}
    <3>1. /\ f \in Seq({"deactivate", "close"})
          /\ r \in open => f[Len(f)] = "close"
          /\ payload = r => r \in open /\ op = "deactivate"
      BY <1>3, <1>6, <2>2, <2>6 DEF Settled
    <3>2. op \in {"deactivate", "close"} /\ g \in Seq({"deactivate", "close"})
      BY <2>1, <2>2, <2>3, <3>1
    <3>3. CASE r \notin open
      <4>1. UNCHANGED cardVars
        BY <1>6, <1>13, <2>2, <3>2, <3>3 DEF CardServes
      <4> QED
        BY <2>1, <2>3, <2>6, <3>1, <3>2, <3>3, <4>1 DEF Settled, Early, cardVars
    <3>4. CASE r \in open
      <4>1. Obey(r, op)
        BY <1>6, <1>13, <2>2, <3>4 DEF CardServes
      <4>2. payload' # r
        BY <1>4, <3>1, <3>2, <4>1 DEF Obey
      <4>3. CASE op = "close"
        <5>1. r \notin open'
          BY <4>1, <4>3 DEF Obey
        <5> QED
          BY <2>1, <2>3, <2>6, <3>2, <4>2, <5>1 DEF Settled, Early
      <4>4. CASE op = "deactivate"
        <5>1. f[Len(f)] = "close" /\ f[1] = "deactivate"
          BY <2>1, <2>2, <3>1, <3>4, <4>4
        <5>2. g # <<>> /\ g[Len(g)] = "close"
          <6>1. PICK n \in Nat : n = Len(f) /\ n > 1
            BY <2>1, <3>1, <5>1
          <6>2. Len(g) = n - 1 /\ g[n - 1] = f[n]
            BY <2>1, <2>3, <3>1, <6>1
          <6> QED
            BY <5>1, <6>1, <6>2
        <5> QED
          BY <2>1, <2>3, <2>6, <3>2, <4>2, <5>2 DEF Settled, Early
      <4> QED
        BY <3>2, <4>3, <4>4
    <3> QED
      BY <3>3, <3>4
  <2>7. CASE pc[r] = "killed"
    BY <2>1, <2>7 DEF Settled, Early
  <2>8. pc[r] \notin {"idle", "console"}
    BY <1>3, <1>6, <2>1 DEF Settled
  <2> QED
    BY <1>5, <2>4, <2>5, <2>6, <2>7, <2>8 DEF Ops, Early
<1>14. CASE AnswerLost(r) \/ RequestLost(r)
  BY <1>1, <1>14 DEF AnswerLost, RequestLost, Clean
<1>15. CASE CardExpires(r)
  <2>1. /\ pc[r] \in {"idle", "returned", "killed"} /\ flight[r] = <<>> /\ r \in open
        /\ UNCHANGED <<pc, flight, answer, patient>>
    BY <1>15 DEF CardExpires, Alive, clientVars
  <2>2. pc[r] = "killed"
    BY <1>3, <2>1 DEF Settled
  <2> QED
    BY <2>1, <2>2 DEF Settled, Early
<1>16. CASE CardRefuses(r)
  <2>1. /\ f # <<>> /\ flight'[r] = Tail(f)
        /\ answer'[r] = IF pc[r] = Head(f) /\ answer[r] = "none" THEN "fail" ELSE answer[r]
        /\ Head(f) \notin {"deactivate", "close"}
        /\ UNCHANGED <<pc, patient, open, payload>>
    BY <1>1, <1>5, <1>6, <1>16 DEF CardRefuses, Answer, Refusal, Clean, cardVars
  <2>2. CASE pc[r] \in Early
    <3>1. f = <<pc[r]>> /\ answer[r] = "none"
      BY <1>3, <1>6, <2>1, <2>2 DEF Settled
    <3>2. flight'[r] = <<>> /\ answer'[r] = "fail"
      BY <2>1, <3>1
    <3> QED
      BY <1>3, <2>1, <2>2, <3>1, <3>2 DEF Settled, Early
  <2>3. CASE pc[r] = "killed"
    BY <2>1, <2>3 DEF Settled, Early
  <2>4. pc[r] \notin {"idle", "console"}
    BY <1>3, <1>6, <2>1 DEF Settled
  <2>5. pc[r] \notin {"deactivate", "close", "returned"}
    <3>1. pc[r] \in {"deactivate", "close", "returned"} =>
            f \in Seq({"deactivate"}) \/ f \in Seq({"deactivate", "close"})
      BY <1>3, <1>6 DEF Settled
    <3> QED
      BY <2>1, <3>1
  <2> QED
    BY <1>5, <2>2, <2>3, <2>4, <2>5 DEF Ops, Early
<1> QED
  BY <1>7, <1>8, <1>9, <1>10, <1>11, <1>12, <1>13, <1>14, <1>15, <1>16 DEF Moves

-----------------------------------------------------------------------------
(* Power actions.                                                          *)

\* What serving a request of its own does to the count of a run.
LEMMA Served ==
  ASSUME TypeOK, NEW r \in Runs, CardServes(r)
  PROVE  /\ flight[r] # <<>> /\ flight'[r] = Tail(flight[r])
         /\ UNCHANGED <<mode, pc, patient, cancelled, reported, events>>
         /\ \/ Obey(r, Head(flight[r])) \/ UNCHANGED cardVars
         /\ \/ performed'[r] = performed[r]
            \/ performed'[r] = performed[r] + 1 /\ Head(flight[r]) = "control"
         /\ \/ answer'[r] = answer[r]
            \/ /\ answer[r] = "none" /\ pc[r] = Head(flight[r])
               /\ pc[r] = "control" /\ answer'[r] # "none" => performed'[r] = performed[r] + 1
         /\ performed'[r] # performed[r] /\ pc[r] = "control" => answer'[r] # "none"
<1>1. /\ flight \in [Runs -> Seq(Ops)] /\ answer \in [Runs -> Answers]
      /\ performed \in [Runs -> Nat] /\ pc \in [Runs -> Ops \cup {"idle", "console", "returned", "killed"}]
  BY DEF TypeOK
<1>2. /\ flight[r] # <<>> /\ flight'[r] = Tail(flight[r])
      /\ UNCHANGED <<mode, pc, patient, cancelled, reported, events>>
  BY <1>1 DEF CardServes, historyVars
<1>3. PICK op : op = Head(flight[r])
  OBVIOUS
<1>4. CASE op = "connect" \/ r \in open
  <2>1. Obey(r, op)
    BY <1>3, <1>4 DEF CardServes
  <2>2. PICK reply \in Replies(r, op) :
          answer' = IF pc[r] = op /\ answer[r] = "none"
                      THEN [answer EXCEPT ![r] = reply] ELSE answer
    BY <1>3, <1>4 DEF CardServes, Answer
  <2>3. answer'[r] = IF pc[r] = op /\ answer[r] = "none" THEN reply ELSE answer[r]
    BY <1>1, <2>2
  <2>4. performed'[r] = IF op = "control" THEN performed[r] + 1 ELSE performed[r]
    BY <1>1, <2>1 DEF Obey
  <2>5. op = "control" => reply = "ok"
    BY <2>2 DEF Replies
  <2> QED
    BY <1>1, <1>2, <1>3, <2>1, <2>3, <2>4, <2>5
<1>5. CASE ~ (op = "connect" \/ r \in open)
  <2>1. UNCHANGED cardVars
    BY <1>3, <1>5 DEF CardServes
  <2>2. answer' = IF pc[r] = op /\ answer[r] = "none"
                    THEN [answer EXCEPT ![r] = "none"] ELSE answer
    BY <1>3, <1>5 DEF CardServes, Answer
  <2>3. answer'[r] = answer[r]
    BY <1>1, <2>2
  <2> QED
    BY <1>1, <1>2, <1>3, <2>1, <2>3 DEF cardVars
<1> QED
  BY <1>4, <1>5

\* Nor does a refusal count.
LEMMA Refused ==
  ASSUME TypeOK, NEW r \in Runs, CardRefuses(r)
  PROVE  /\ flight[r] # <<>> /\ flight'[r] = Tail(flight[r])
         /\ UNCHANGED <<mode, pc, patient, cancelled, open, payload, performed, reported>>
         /\ answer'[r] = "fail" \/ answer'[r] = answer[r]
<1>1. flight \in [Runs -> Seq(Ops)] /\ answer \in [Runs -> Answers]
  BY DEF TypeOK
<1>2. answer' = answer \/ answer' = [answer EXCEPT ![r] = "fail"]
  BY DEF CardRefuses, Answer
<1> QED
  BY <1>1, <1>2 DEF CardRefuses, cardVars

\* The answer of the card to an action means that it was obeyed.
LEMMA ObeyedMove ==
  ASSUME Inv, NEW r \in Runs, Moves(r)
  PROVE  Obeyed(r)'
<1>1. TypeOK /\ Obeyed(r)
  BY DEF Inv
<1>2. /\ pc \in [Runs -> Ops \cup {"idle", "console", "returned", "killed"}]
      /\ answer \in [Runs -> Answers] /\ performed \in [Runs -> Nat]
  BY <1>1 DEF TypeOK
<1>3. ASSUME NEW op \in Ops, AskStep(r, op) PROVE Obeyed(r)'
  <2>1. /\ answer'[r] # "ok" /\ performed' = performed
        /\ r \in reported' => r \in reported \/ (pc[r] = "control" /\ answer[r] = "ok")
    BY <1>2, <1>3 DEF AskStep, Ask, cardVars
  <2> QED
    BY <1>1, <2>1 DEF Obeyed
<1>4. CASE StartConsole(r)
  BY <1>1, <1>2, <1>4 DEF StartConsole, Obeyed, cardVars, historyVars
<1>5. CASE LeaveStep(r)
  BY <1>1, <1>2, <1>5 DEF LeaveStep, Leave, Obeyed, cardVars, historyVars
<1>6. CASE Cancel(r)
  BY <1>1, <1>6 DEF Cancel, Obeyed, cardVars, historyVars
<1>7. CASE Timeout(r) \/ CancelRequest(r)
  <2>1. /\ UNCHANGED <<pc, performed, reported>>
        /\ answer' = [answer EXCEPT ![r] = "fail"] \/ answer' = answer
    BY <1>7 DEF Timeout, CancelRequest, cardVars, historyVars
  <2>2. answer'[r] \in {answer[r], "fail"}
    BY <1>2, <2>1
  <2> QED
    BY <1>1, <2>1, <2>2 DEF Obeyed
<1>8. CASE CardServes(r)
  <2>1. PICK n \in Nat : n = performed[r]
    BY <1>2
  <2>2. performed'[r] \in {n, n + 1} /\ UNCHANGED <<pc, reported>>
    BY <1>1, <1>8, <2>1, Served
  <2>3. pc[r] = "control" /\ answer'[r] = "ok" => answer[r] = "ok" \/ performed'[r] = n + 1
    BY <1>1, <1>8, <2>1, Served
  <2>4. n > 0 \/ performed'[r] = n + 1 => performed'[r] > 0
    BY <2>2
  <2> QED
    BY <1>1, <2>1, <2>2, <2>3, <2>4 DEF Obeyed
<1>9. CASE AnswerLost(r) \/ RequestLost(r)
  <2>1. UNCHANGED <<pc, answer, reported>>
    BY <1>9 DEF AnswerLost, RequestLost, clientVars
  <2>2. performed' = performed \/ performed' = [performed EXCEPT ![r] = @ + 1]
    BY <1>9 DEF AnswerLost, RequestLost, Obey, cardVars
  <2>3. PICK n \in Nat : n = performed[r]
    BY <1>2
  <2>4. performed'[r] \in {n, n + 1}
    BY <1>2, <2>2, <2>3
  <2> QED
    BY <1>1, <2>1, <2>3, <2>4 DEF Obeyed
<1>10. CASE CardExpires(r)
  BY <1>1, <1>10 DEF CardExpires, Obeyed, clientVars, historyVars
<1>11. CASE CardRefuses(r)
  BY <1>1, <1>11, Refused DEF Obeyed
<1> QED
  BY <1>3, <1>4, <1>5, <1>6, <1>7, <1>8, <1>9, <1>10, <1>11 DEF Moves

\* Unless something is lost, an action is not obeyed twice.
LEMMA OnceMove ==
  ASSUME Inv, NEW r \in Runs, Moves(r)
  PROVE  OnceOnly(r)'
<1>1. SUFFICES ASSUME "lost" \notin events' PROVE Counted(r)'
  BY DEF OnceOnly
<1>2. TypeOK
  BY DEF Inv
<1>3. Counted(r)
  BY <1>1, <1>2, Grows DEF Inv, OnceOnly
<1>4. /\ pc \in [Runs -> Ops \cup {"idle", "console", "returned", "killed"}]
      /\ answer \in [Runs -> Answers] /\ flight \in [Runs -> Seq(Ops)]
      /\ patient \in [Runs -> BOOLEAN] /\ performed \in [Runs -> Nat]
  BY <1>2 DEF TypeOK
<1>5. PICK f \in Seq(Ops) : f = flight[r]
  BY <1>4
<1>6. PICK n \in Nat : n = performed[r]
  BY <1>4
<1>7. ASSUME NEW op \in Ops, AskStep(r, op) PROVE Counted(r)'
  <2>1. /\ pc'[r] = op /\ performed' = performed /\ patient' = patient
        /\ \/ flight'[r] = Append(f, op) /\ answer'[r] = "none"
           \/ flight'[r] = f /\ answer'[r] = "fail"
    BY <1>4, <1>5, <1>7 DEF AskStep, Ask, cardVars
  <2>2. Follows(r, op)
    BY <1>7 DEF AskStep
  <2>3. PICK g \in Seq(Ops) : g = flight'[r]
    <3>1. Append(f, op) \in Seq(Ops)
      OBVIOUS
    <3> QED
      BY <2>1, <3>1
  <2>4. CASE op \in {"connect", "control"}
    <3>1. f = <<>> /\ n = 0 /\ patient[r]
      BY <1>3, <1>5, <1>6, <2>2, <2>4 DEF Follows, Counted
    <3>2. g \in {<<>>, <<op>>} /\ answer'[r] # "ok"
      <4>1. Append(<<>>, op) = <<op>>
        OBVIOUS
      <4> QED
        BY <2>1, <2>3, <3>1, <4>1
    <3>3. \A i, j \in DOMAIN g : i = j
      BY <3>2
    <3> QED
      BY <1>6, <2>1, <2>3, <2>4, <3>1, <3>2, <3>3 DEF Counted
  <2>5. CASE op \notin {"connect", "control"}
    <3>1. op # "idle"
      BY DEF Ops
    <3>2. \A i \in DOMAIN g : g[i] = "control" => i \in DOMAIN f /\ f[i] = "control"
      <4>1. CASE g = f
        BY <4>1
      <4>2. CASE g = Append(f, op)
        BY <2>5, <4>2, QueueAppend
      <4> QED
        BY <2>1, <2>3, <4>1, <4>2
    <3>3. In("control", g) => In("control", f)
      BY <3>2, Zenon DEF In
    <3> QED
      BY <1>3, <1>5, <1>6, <2>1, <2>3, <2>5, <3>1, <3>2, <3>3 DEF Counted
  <2> QED
    BY <2>4, <2>5
<1>8. ASSUME UNCHANGED <<flight, performed>>, pc'[r] \notin {"idle", "connect", "control"}
      PROVE  Counted(r)'
  BY <1>3, <1>8 DEF Counted, In
<1>9. CASE StartConsole(r) \/ LeaveStep(r)
  BY <1>4, <1>8, <1>9 DEF StartConsole, LeaveStep, Leave, cardVars
<1>10. CASE Cancel(r) \/ CardExpires(r)
  <2>1. UNCHANGED <<flight, performed, pc, answer, patient>>
    BY <1>10 DEF Cancel, CardExpires, cardVars, clientVars
  <2> QED
    BY <1>3, <2>1 DEF Counted, In
<1>11. CASE Timeout(r)
  <2>1. /\ pc[r] \in Ops /\ answer[r] = "none" /\ (f = <<>> \/ ~patient[r])
        /\ \/ flight'[r] = Append(f, pc[r]) /\ answer'[r] = "none"
           \/ flight'[r] = f /\ answer'[r] = "fail"
        /\ UNCHANGED <<pc, performed, patient>>
    BY <1>4, <1>5, <1>11 DEF Timeout, cardVars
  <2>2. PICK g \in Seq(Ops) : g = flight'[r]
    <3>1. Append(f, pc[r]) \in Seq(Ops)
      BY <2>1
    <3> QED
      BY <2>1, <3>1
  <2>3. CASE pc[r] \in {"connect", "control"}
    <3>1. f = <<>> /\ n = 0 /\ patient[r]
      BY <1>3, <1>5, <1>6, <2>1, <2>3 DEF Counted
    <3>2. g \in {<<>>, <<pc[r]>>} /\ answer'[r] # "ok"
      <4>1. Append(<<>>, pc[r]) = <<pc[r]>>
        OBVIOUS
      <4> QED
        BY <2>1, <2>2, <3>1, <4>1
    <3>3. \A i, j \in DOMAIN g : i = j
      BY <3>2
    <3> QED
      BY <1>6, <2>1, <2>2, <2>3, <3>1, <3>2, <3>3 DEF Counted
  <2>4. CASE pc[r] \notin {"connect", "control"}
    <3>1. pc[r] # "idle"
      BY <2>1 DEF Ops
    <3>2. \A i \in DOMAIN g : g[i] = "control" => i \in DOMAIN f /\ f[i] = "control"
      <4>1. CASE g = f
        BY <4>1
      <4>2. CASE g = Append(f, pc[r])
        BY <2>1, <2>4, <4>2, QueueAppend
      <4> QED
        BY <2>1, <2>2, <4>1, <4>2
    <3>3. In("control", g) => In("control", f)
      BY <3>2, Zenon DEF In
    <3> QED
      BY <1>3, <1>5, <1>6, <2>1, <2>2, <2>4, <3>1, <3>2, <3>3 DEF Counted
  <2> QED
    BY <2>3, <2>4
<1>12. CASE CancelRequest(r)
  <2>1. answer'[r] = "fail" /\ UNCHANGED <<flight, performed, pc, patient>>
    BY <1>4, <1>12 DEF CancelRequest, cardVars
  <2> QED
    BY <1>3, <2>1 DEF Counted, In
<1>13. CASE CardServes(r) \/ CardRefuses(r)
  <2>1. PICK g : g = Tail(f)
    OBVIOUS
  <2>2. /\ f # <<>> /\ flight'[r] = g /\ UNCHANGED <<pc, patient>>
        /\ performed'[r] = n \/ (performed'[r] = n + 1 /\ Head(f) = "control")
        /\ performed'[r] # n /\ pc[r] = "control" => answer'[r] # "none"
    BY <1>2, <1>5, <1>6, <1>13, <2>1, Served, Refused
  <2>4. /\ g \in Seq(Ops) /\ DOMAIN f = 1..Len(f) /\ 1 \in DOMAIN f /\ f[1] = Head(f)
        /\ \A i \in DOMAIN g : i \in Nat /\ i + 1 \in DOMAIN f /\ g[i] = f[i + 1]
    BY <2>1, <2>2, QueueTail
  <2>5. \A i \in DOMAIN g : i \in Nat \ {0}
    BY <2>4
  <2>6. CASE Head(f) = "control"
    <3>1. n = 0 /\ \A i, j \in DOMAIN f : f[i] = "control" /\ f[j] = "control" => i = j
      BY <1>3, <1>5, <1>6, <2>4, <2>6 DEF Counted, In
    <3>2. ~In("control", g)
      <4>1. SUFFICES ASSUME NEW i \in DOMAIN g, g[i] = "control" PROVE FALSE
        BY DEF In
      <4>2. i + 1 = 1 /\ i \in Nat \ {0}
        BY <2>4, <2>5, <2>6, <3>1, <4>1
      <4> QED
        BY <4>2
    <3>3. \A i, j \in DOMAIN g : g[i] = "control" /\ g[j] = "control" => i = j
      BY <3>2 DEF In
    <3>4. pc[r] \notin {"idle", "connect"}
      <4>1. <<"connect">> # f
        BY <2>6
      <4> QED
        BY <1>3, <1>5, <2>2, <4>1 DEF Counted
    <3>5. pc[r] = "control" => patient[r] /\ g = <<>>
      <4>1. f = <<"control">> => g = <<>>
        BY <2>1
      <4> QED
        BY <1>3, <1>5, <2>2, <4>1 DEF Counted
    <3>6. performed'[r] \in {0, 1}
      BY <2>2, <3>1
    <3> QED
      BY <2>2, <3>1, <3>2, <3>3, <3>4, <3>5, <3>6 DEF Counted
  <2>7. CASE Head(f) # "control"
    <3>1. performed'[r] = n /\ pc[r] \notin {"idle", "control"}
      <4>1. <<"control">> # f
        BY <2>7
      <4> QED
        BY <1>3, <1>5, <2>2, <2>7, <4>1 DEF Counted
    <3>2. \A i, j \in DOMAIN g : g[i] = "control" /\ g[j] = "control" =>
            f[i + 1] = "control" /\ f[j + 1] = "control" /\ (i + 1 = j + 1 => i = j)
      BY <2>4
    <3>3. In("control", g) => In("control", f)
      BY <2>4 DEF In
    <3>4. \/ n = 0 /\ \A i, j \in DOMAIN g : g[i] = "control" /\ g[j] = "control" => i = j
          \/ n = 1 /\ ~In("control", g)
      BY ZenonT(90), <1>3, <1>5, <1>6, <2>4, <3>2, <3>3 DEF Counted
    <3>5. pc[r] = "connect" => n = 0 /\ patient[r] /\ g = <<>>
      <4>1. f = <<"connect">> => g = <<>>
        BY <2>1
      <4> QED
        BY <1>3, <1>5, <1>6, <2>2, <4>1 DEF Counted
    <3> QED
      BY <2>2, <3>1, <3>4, <3>5 DEF Counted
  <2> QED
    BY <2>6, <2>7
<1>14. CASE AnswerLost(r) \/ RequestLost(r)
  BY <1>1, <1>14 DEF AnswerLost, RequestLost
<1> QED
  BY <1>7, <1>9, <1>10, <1>11, <1>12, <1>13, <1>14 DEF Moves

-----------------------------------------------------------------------------
(* Who ends a console.                                                     *)

\* What a command has in flight stays in order.
LEMMA OrderMove ==
  ASSUME Inv, NEW r \in Runs, Moves(r)
  PROVE  InOrder(r)'
<1>1. TypeOK /\ InOrder(r)
  BY DEF Inv
<1>2. /\ pc \in [Runs -> Ops \cup {"idle", "console", "returned", "killed"}]
      /\ flight \in [Runs -> Seq(Ops)]
  BY <1>1 DEF TypeOK
<1>3. PICK f \in Seq(Ops) : f = flight[r]
  BY <1>2
<1>4. mode' = mode
  BY <1>1, Grows
<1>5. ASSUME NEW op \in Ops, pc'[r] = op,
             \/ flight'[r] = f
             \/ flight'[r] = Append(f, op),
             Follows(r, op) \/ pc[r] = op
      PROVE  InOrder(r)'
  <2>1. PICK g : g = flight'[r]
    OBVIOUS
  <2>2. \A x : In(x, g) => In(x, f) \/ x = op
    <3>1. g = f \/ g = Append(f, op)
      BY <1>5, <2>1
    <3> QED
      BY <3>1, QueueGrown, Zenon
  <2>3. op # "idle"
    BY DEF Ops
  <2>4. In("evict", g) \/ op \in {"evict", "reactivate"} => mode[r] = "force"
    BY <1>1, <1>3, <1>5, <2>2 DEF InOrder, Follows
  <2>5. In("deactivate", g) => op \in {"deactivate", "close"}
    BY <1>1, <1>3, <1>5, <2>2, <2>3 DEF InOrder, Follows, Ops
  <2>6. In("close", g) => op = "close"
    BY <1>1, <1>3, <1>5, <2>2, <2>3 DEF InOrder, Follows, Ops
  <2>7. op = "deactivate" => ~In("close", f)
    BY <1>1, <1>3, <1>5 DEF InOrder, Follows
  <2>8. ASSUME NEW i \in DOMAIN g, NEW j \in DOMAIN g, i < j, g[i] = "close"
        PROVE  g[j] # "deactivate"
    <3>1. CASE g = f
      BY <1>1, <1>3, <2>8, <3>1 DEF InOrder
    <3>2. CASE g = Append(f, op)
      <4>1. /\ DOMAIN f = 1..Len(f) /\ Len(f) \in Nat /\ DOMAIN g = 1..(Len(f) + 1)
            /\ \A k \in DOMAIN f : g[k] = f[k]
            /\ g[Len(f) + 1] = op
            /\ \A k \in DOMAIN g : k \in DOMAIN f \/ k = Len(f) + 1
        BY <3>2, QueueAppend
      <4>2. i \in DOMAIN f /\ f[i] = "close"
        BY <2>8, <4>1
      <4>3. CASE j \in DOMAIN f
        BY <1>1, <1>3, <2>8, <4>1, <4>2, <4>3 DEF InOrder
      <4>4. CASE j = Len(f) + 1
        BY <2>7, <4>1, <4>2, <4>4 DEF In
      <4> QED
        BY <4>1, <4>3, <4>4
    <3> QED
      BY <1>5, <2>1, <3>1, <3>2
  <2> QED
    BY <1>4, <1>5, <2>1, <2>3, <2>4, <2>5, <2>6, <2>8 DEF InOrder
<1>6. ASSUME NEW op \in Ops, AskStep(r, op) PROVE InOrder(r)'
  <2>1. /\ pc'[r] = op /\ Follows(r, op)
        /\ flight'[r] = Append(f, op) \/ flight'[r] = f
    BY <1>2, <1>3, <1>6 DEF AskStep, Ask
  <2> QED
    BY <1>5, <2>1
<1>7. CASE Timeout(r)
  <2>1. /\ pc[r] \in Ops /\ pc' = pc
        /\ flight'[r] = Append(f, pc[r]) \/ flight'[r] = f
    BY <1>2, <1>3, <1>7 DEF Timeout
  <2> QED
    BY <1>5, <2>1
<1>8. CASE StartConsole(r)
  <2>1. /\ pc[r] \in {"activate", "reactivate"} /\ pc'[r] = "console" /\ flight' = flight
    BY <1>2, <1>8 DEF StartConsole, Activated, Done
  <2> QED
    BY <1>1, <1>4, <2>1 DEF InOrder, In
<1>9. CASE LeaveStep(r)
  <2>1. pc'[r] \in {"returned", "killed"} /\ flight' = flight
    BY <1>2, <1>9 DEF LeaveStep, Leave
  <2> QED
    BY <1>1, <1>4, <2>1 DEF InOrder, In
<1>10. CASE Cancel(r) \/ CancelRequest(r) \/ CardExpires(r)
  <2>1. UNCHANGED <<pc, flight>>
    BY <1>10 DEF Cancel, CancelRequest, CardExpires, clientVars
  <2> QED
    BY <1>1, <1>4, <2>1 DEF InOrder, In
<1>11. CASE CardServes(r) \/ CardRefuses(r) \/ AnswerLost(r) \/ RequestLost(r)
  <2>1. PICK g : g = Tail(f)
    OBVIOUS
  <2>2. f # <<>> /\ flight'[r] = g /\ pc' = pc
    BY <1>2, <1>3, <1>11, <2>1 DEF CardServes, CardRefuses, AnswerLost, RequestLost, clientVars
  <2>3. /\ \A i \in DOMAIN g : i \in Nat /\ i + 1 \in DOMAIN f /\ g[i] = f[i + 1]
        /\ \A x : In(x, g) => In(x, f)
    BY <2>1, <2>2, QueueTail
  <2>4. ASSUME NEW i \in DOMAIN g, NEW j \in DOMAIN g, i < j, g[i] = "close"
        PROVE  g[j] # "deactivate"
    <3>1. i + 1 < j + 1 /\ f[i + 1] = "close" /\ i + 1 \in DOMAIN f /\ j + 1 \in DOMAIN f
          /\ g[j] = f[j + 1]
      BY <2>3, <2>4
    <3> QED
      BY <1>1, <1>3, <3>1 DEF InOrder
  <2> QED
    BY <1>1, <1>3, <1>4, <2>2, <2>3, <2>4 DEF InOrder
<1> QED
  BY <1>6, <1>7, <1>8, <1>9, <1>10, <1>11 DEF Moves

\* While all is quiet, a payload is not taken from a console, or from another run.
LEMMA PayloadKept ==
  ASSUME Inv, Quiet, NEW q \in Runs, Moves(q), NEW r \in Runs, payload = r,
         r # q \/ pc[r] = "console"
  PROVE  payload' = r
<1>1. TypeOK /\ InOrder(q) /\ Holds(q)
  BY DEF Inv
<1>2. r # None /\ q # None
  BY DEF Runs, None
<1>3. ASSUME NEW op, op = Head(flight[q]), flight[q] # <<>>, Obey(q, op) PROVE payload' = r
  <2>1. In(op, flight[q])
    <3>1. flight[q] \in Seq(Ops)
      BY <1>1 DEF TypeOK
    <3> QED
      BY <1>3, <3>1, QueueTail
  <2>2. op # "evict"
    BY <1>1, <1>3, <2>1 DEF InOrder, Quiet
  <2>3. op # "deactivate"
    <3>1. op = "deactivate" => payload = q
      BY <1>1, <2>1 DEF Holds, Owns, Claims
    <3>2. op = "deactivate" => pc[q] # "console"
      BY <1>1, <2>1 DEF InOrder
    <3> QED
      BY <3>1, <3>2
  <2>4. op = "close" => payload # q
    BY <1>1, <2>1 DEF InOrder
  <2> QED
    BY <1>2, <1>3, <2>2, <2>3, <2>4 DEF Obey
<1>4. CASE CardServes(q)
  BY <1>1, <1>3, <1>4, Served DEF cardVars
<1>5. CASE AnswerLost(q)
  BY <1>3, <1>5 DEF AnswerLost
<1>6. CASE CardExpires(q)
  BY <1>6 DEF CardExpires, Alive
<1>7. ASSUME NEW op \in Ops, AskStep(q, op) PROVE payload' = payload
  BY <1>7 DEF AskStep, cardVars
<1>8. CASE \/ StartConsole(q) \/ LeaveStep(q) \/ Cancel(q) \/ Timeout(q) \/ CancelRequest(q)
           \/ CardRefuses(q) \/ RequestLost(q)
  BY <1>8 DEF StartConsole, LeaveStep, Leave, Cancel, Timeout, CancelRequest, CardRefuses,
              RequestLost, cardVars
<1> QED
  BY <1>4, <1>5, <1>6, <1>7, <1>8 DEF Moves

\* What is not quiet any more does not become quiet again.
LEMMA QuietKept ==
  ASSUME TypeOK, NEW q \in Runs, Moves(q), Quiet'
  PROVE  Quiet
<1>1. events \subseteq events' /\ mode' = mode
  BY Grows
<1>2. ASSUME NEW r \in Runs, pc'[r] = "idle" PROVE pc[r] = "idle"
  <2>1. CASE r # q
    BY <1>2, <2>1, OthersKept
  <2>2. CASE r = q
    <3>1. pc \in [Runs -> Ops \cup {"idle", "console", "returned", "killed"}]
      BY DEF TypeOK
    <3>2. ASSUME NEW op \in Ops, AskStep(q, op) PROVE pc'[r] # "idle"
      BY <2>2, <3>1, <3>2 DEF AskStep, Ask, Ops
    <3>3. StartConsole(q) \/ LeaveStep(q) => pc'[r] # "idle"
      BY <2>2, <3>1 DEF StartConsole, LeaveStep, Leave
    <3>4. CASE \/ Cancel(q) \/ Timeout(q) \/ CancelRequest(q) \/ CardServes(q) \/ CardRefuses(q)
               \/ AnswerLost(q) \/ RequestLost(q) \/ CardExpires(q)
      BY <1>2, <3>4 DEF Cancel, Timeout, CancelRequest, CardServes, CardRefuses, AnswerLost,
                        RequestLost, CardExpires, clientVars
    <3> QED
      BY <1>2, <3>2, <3>3, <3>4 DEF Moves
  <2> QED
    BY <2>1, <2>2
<1> QED
  BY <1>1, <1>2 DEF Quiet

\* So a payload a command counts on stays its own while another run moves,
LEMMA HoldsOther ==
  ASSUME Inv, NEW q \in Runs, Moves(q), NEW r \in Runs, r # q
  PROVE  Holds(r)'
<1>1. SUFFICES ASSUME Quiet' PROVE Owns(r)'
  BY DEF Holds
<1>2. TypeOK
  BY DEF Inv
<1>3. Quiet /\ Owns(r)
  BY <1>1, <1>2, QuietKept DEF Inv, Holds
<1>4. pc'[r] = pc[r] /\ answer'[r] = answer[r] /\ flight'[r] = flight[r]
  BY <1>2, OthersKept
<1>5. payload = r => payload' = r
  BY <1>3, PayloadKept
<1> QED
  BY <1>3, <1>4, <1>5 DEF Owns, Claims, In

\* and while its own does, until its deactivation is served.
LEMMA HoldsMove ==
  ASSUME Inv, NEW r \in Runs, Moves(r)
  PROVE  Holds(r)'
<1>1. SUFFICES ASSUME Quiet' PROVE Owns(r)'
  BY DEF Holds
<1>2. TypeOK /\ InOrder(r)
  BY DEF Inv
<1>3. Quiet /\ Owns(r)
  BY <1>1, <1>2, QuietKept DEF Inv, Holds
<1>4. /\ pc \in [Runs -> Ops \cup {"idle", "console", "returned", "killed"}]
      /\ answer \in [Runs -> Answers] /\ flight \in [Runs -> Seq(Ops)]
  BY <1>2 DEF TypeOK
<1>5. PICK f \in Seq(Ops) : f = flight[r]
  BY <1>4
<1>6. ASSUME NEW op \in Ops, AskStep(r, op) PROVE Owns(r)'
  <2>1. /\ pc'[r] = op /\ payload' = payload /\ Follows(r, op) /\ answer'[r] # "ok"
        /\ flight'[r] = Append(f, op) \/ flight'[r] = f
    BY <1>4, <1>5, <1>6 DEF AskStep, Ask, cardVars
  <2>2. PICK g : g = flight'[r]
    OBVIOUS
  <2>3. In("deactivate", g) => In("deactivate", f) \/ op = "deactivate"
    <3>1. g = f \/ g = Append(f, op)
      BY <2>1, <2>2
    <3> QED
      BY <3>1, QueueGrown, ZenonT(90)
  <2>4. op \in {"poll", "deactivate"} => Claims(r)
    BY <2>1 DEF Follows, Claims
  <2>5. op # "console"
    BY DEF Ops
  <2>6. Claims(r)' => payload' = r
    BY <1>3, <1>5, <2>1, <2>2, <2>3, <2>4, <2>5 DEF Claims, Owns
  <2>7. op = "deactivate" => ~In("deactivate", f)
    BY <1>2, <1>5, <2>1 DEF InOrder, Follows
  <2>8. ASSUME NEW i \in DOMAIN g, NEW j \in DOMAIN g, g[i] = "deactivate", g[j] = "deactivate"
        PROVE  i = j
    <3>1. CASE g = f
      BY <1>3, <1>5, <2>8, <3>1 DEF Owns
    <3>2. CASE g = Append(f, op)
      <4>1. /\ \A k \in DOMAIN f : g[k] = f[k]
            /\ g[Len(f) + 1] = op
            /\ \A k \in DOMAIN g : k \in DOMAIN f \/ k = Len(f) + 1
        BY <3>2, QueueAppend
      <4>2. CASE op = "deactivate"
        BY <2>7, <2>8, <4>1, <4>2 DEF In
      <4>3. CASE op # "deactivate"
        BY <1>3, <1>5, <2>8, <4>1, <4>3 DEF Owns
      <4> QED
        BY <4>2, <4>3
    <3> QED
      BY <2>1, <2>2, <3>1, <3>2
  <2> QED
    BY <2>2, <2>6, <2>8 DEF Owns
<1>7. CASE StartConsole(r)
  <2>1. Claims(r) /\ UNCHANGED <<flight, payload>>
    BY <1>7 DEF StartConsole, Activated, Done, Claims, cardVars
  <2> QED
    BY <1>3, <2>1 DEF Owns, Claims, In
<1>8. CASE LeaveStep(r)
  <2>1. pc'[r] \in {"returned", "killed"} /\ UNCHANGED <<flight, payload>>
    BY <1>4, <1>8 DEF LeaveStep, Leave, cardVars
  <2> QED
    BY <1>3, <2>1 DEF Owns, Claims, In
<1>9. CASE Cancel(r)
  BY <1>3, <1>9 DEF Cancel, cardVars, Owns, Claims, In
<1>10. CASE Timeout(r)
  <2>1. /\ pc[r] \in Ops /\ answer[r] = "none" /\ UNCHANGED <<pc, payload>>
        /\ \/ flight'[r] = Append(f, pc[r])
           \/ flight'[r] = f
        /\ answer'[r] # "ok"
    BY <1>4, <1>5, <1>10 DEF Timeout, cardVars
  <2>2. f = <<>>
    BY <1>1, <1>5, <1>10 DEF Timeout, Quiet
  <2>3. PICK g : g = flight'[r]
    OBVIOUS
  <2>4. In("deactivate", g) => pc[r] = "deactivate"
    <3>1. ~In("deactivate", f)
      BY <2>2 DEF In
    <3>2. pc[r] \in Ops /\ (g = f \/ g = Append(f, pc[r]))
      BY <2>1, <2>3
    <3> QED
      BY <3>1, <3>2, QueueGrown, ZenonT(90)
  <2>5. Claims(r)' => payload' = r
    BY <1>3, <2>1, <2>3, <2>4 DEF Claims, Owns
  <2>6. \A i, j \in DOMAIN g : i = j
    <3>1. Append(<<>>, pc[r]) = <<pc[r]>>
      OBVIOUS
    <3>2. g = <<>> \/ g = <<pc[r]>>
      BY <2>1, <2>2, <2>3, <3>1
    <3> QED
      BY <3>2
  <2> QED
    BY <2>3, <2>5, <2>6 DEF Owns
<1>11. CASE CancelRequest(r)
  <2>1. answer'[r] = "fail" /\ UNCHANGED <<pc, flight, payload>>
    BY <1>4, <1>11 DEF CancelRequest, cardVars
  <2> QED
    BY <1>3, <2>1 DEF Owns, Claims, In
<1>12. CASE CardServes(r)
  <2>1. PICK op, g : op = Head(f) /\ g = Tail(f)
    OBVIOUS
  <2>2. /\ f # <<>> /\ flight'[r] = g /\ pc' = pc
        /\ \/ Obey(r, op) \/ UNCHANGED cardVars
    BY <1>2, <1>5, <1>12, <2>1, Served
  <2>3. /\ 1 \in DOMAIN f /\ f[1] = op /\ In(op, f)
        /\ \A i \in DOMAIN g : i \in Nat /\ i + 1 \in DOMAIN f /\ g[i] = f[i + 1]
    BY <2>1, <2>2, QueueTail
  <2>4. \A i \in DOMAIN g : 1 < i + 1
    <3>1. DOMAIN g = 1..Len(g) /\ Len(g) \in Nat
      BY <2>1, <2>2
    <3> QED
      BY <3>1
  <2>5. op # "evict"
    BY <1>2, <1>3, <1>5, <2>3 DEF InOrder, Quiet, In
  <2>6. op \in {"deactivate", "close"} => ~In("deactivate", g)
    <3>1. SUFFICES ASSUME op \in {"deactivate", "close"}, NEW i \in DOMAIN g, g[i] = "deactivate"
                   PROVE  FALSE
      BY DEF In
    <3>2. i + 1 \in DOMAIN f /\ f[i + 1] = "deactivate" /\ 1 < i + 1 /\ i \in Nat
      BY <2>3, <2>4, <3>1
    <3>3. CASE op = "deactivate"
      <4>1. 1 = i + 1
        BY <1>3, <1>5, <2>3, <3>2, <3>3 DEF Owns
      <4> QED
        BY <3>2, <4>1
    <3>4. CASE op = "close"
      BY <1>2, <1>5, <2>3, <3>2, <3>4 DEF InOrder
    <3> QED
      BY <3>1, <3>3, <3>4
  <2>7. op \notin {"deactivate", "close"} /\ payload = r => payload' = r
    <3>1. r # None
      BY DEF Runs, None
    <3> QED
      BY <2>2, <2>5, <3>1 DEF Obey, cardVars
  <2>8. op = "deactivate" => pc[r] \in {"deactivate", "close", "returned", "killed"}
    BY <1>2, <1>5, <2>3 DEF InOrder
  <2>9. op = "close" => pc[r] \in {"close", "returned", "killed"}
    BY <1>2, <1>5, <2>3 DEF InOrder
  <2>10. In("deactivate", g) => In("deactivate", f)
    BY <2>3 DEF In
  <2>11. In("deactivate", g) => payload' = r
    BY <1>3, <1>5, <2>6, <2>7, <2>10 DEF Owns, Claims
  <2>12. pc[r] \in {"console", "poll"} => payload' = r
    BY <1>3, <2>7, <2>8, <2>9 DEF Owns, Claims
  <2>13. \/ answer'[r] = answer[r] \/ answer[r] = "none"
    BY <1>2, <1>12, Served
  <2>14. ASSUME pc[r] = "deactivate", answer'[r] = "none" PROVE payload' = r
    <3>1. answer[r] = "none" /\ payload = r
      BY <1>3, <2>13, <2>14 DEF Owns, Claims
    <3>2. CASE op = "deactivate"
      <4>1. ~ (r \in open)
        <5>1. r \in open => \E reply \in Replies(r, op) : answer' = [answer EXCEPT ![r] = reply]
          BY <1>5, <1>12, <2>1, <2>14, <3>1, <3>2 DEF CardServes, Answer
        <5>2. "none" \notin Replies(r, op)
          BY <3>2 DEF Replies
        <5> QED
          BY <1>4, <2>14, <5>1, <5>2
      <4>2. UNCHANGED cardVars
        BY <1>5, <1>12, <2>1, <3>2, <4>1 DEF CardServes
      <4> QED
        BY <3>1, <4>2 DEF cardVars
    <3>3. CASE op # "deactivate"
      BY <2>7, <2>9, <2>14, <3>1, <3>3
    <3> QED
      BY <3>2, <3>3
  <2>15. ASSUME pc[r] \in {"activate", "reactivate"}, answer'[r] = "ok" PROVE payload' = r
    <3>1. CASE answer[r] = "ok"
      BY <1>3, <2>7, <2>8, <2>9, <2>15, <3>1 DEF Owns, Claims
    <3>2. CASE answer[r] # "ok"
      <4>1. op = pc[r] /\ answer[r] = "none" /\ (op = "connect" \/ r \in open)
        BY <1>4, <1>5, <1>12, <2>1, <2>15, <3>2 DEF CardServes, Answer
      <4>2. answer'[r] \in Replies(r, op) /\ Obey(r, op)
        BY <1>4, <1>5, <1>12, <2>1, <4>1 DEF CardServes, Answer
      <4>3. payload = None
        BY <2>15, <4>1, <4>2 DEF Replies
      <4> QED
        BY <2>15, <4>1, <4>2, <4>3 DEF Obey
    <3> QED
      BY <3>1, <3>2
  <2>16. Claims(r)' => payload' = r
    BY <2>2, <2>11, <2>12, <2>14, <2>15 DEF Claims
  <2>17. ASSUME NEW i \in DOMAIN g, NEW j \in DOMAIN g, g[i] = "deactivate", g[j] = "deactivate"
         PROVE  i = j
    <3>1. i + 1 = j + 1 /\ i \in Nat /\ j \in Nat
      BY <1>3, <1>5, <2>3, <2>17 DEF Owns
    <3> QED
      BY <3>1
  <2> QED
    BY <2>2, <2>16, <2>17 DEF Owns
<1>13. CASE AnswerLost(r) \/ RequestLost(r)
  BY <1>1, <1>13 DEF AnswerLost, RequestLost, Quiet
<1>14. CASE CardExpires(r)
  <2>1. /\ pc[r] \in {"idle", "returned", "killed"} /\ flight[r] = <<>>
        /\ UNCHANGED <<pc, flight, answer>>
    BY <1>14 DEF CardExpires, Alive, clientVars
  <2> QED
    BY <1>3, <2>1 DEF Owns, Claims, In
<1>15. CASE CardRefuses(r)
  <2>1. PICK g : g = Tail(f)
    OBVIOUS
  <2>2. /\ f # <<>> /\ flight'[r] = g /\ UNCHANGED <<pc, payload>>
        /\ answer'[r] = "fail" \/ answer'[r] = answer[r]
    BY <1>2, <1>5, <1>15, <2>1, Refused
  <2>3. /\ \A i \in DOMAIN g : i \in Nat /\ i + 1 \in DOMAIN f /\ g[i] = f[i + 1]
        /\ In("deactivate", g) => In("deactivate", f)
    BY <2>1, <2>2, QueueTail
  <2>4. Claims(r)' => payload' = r
    BY <1>3, <1>5, <2>2, <2>3 DEF Claims, Owns
  <2>5. ASSUME NEW i \in DOMAIN g, NEW j \in DOMAIN g, g[i] = "deactivate", g[j] = "deactivate"
        PROVE  i = j
    <3>1. i + 1 = j + 1 /\ i \in Nat /\ j \in Nat
      BY <1>3, <1>5, <2>3, <2>5 DEF Owns
    <3> QED
      BY <3>1
  <2> QED
    BY <2>2, <2>4, <2>5 DEF Owns
<1> QED
  BY <1>6, <1>7, <1>8, <1>9, <1>10, <1>11, <1>12, <1>13, <1>14, <1>15 DEF Moves

-----------------------------------------------------------------------------
(* The theorems.                                                           *)

\* At first nothing has happened.
LEMMA InvInit == Init => Inv
<1> SUFFICES ASSUME Init PROVE Inv
  OBVIOUS
<1>1. TypeOK
  BY TypeInit
<1>2. ASSUME NEW r \in Runs
      PROVE  Tidy(r) /\ OnceOnly(r) /\ Obeyed(r) /\ InOrder(r) /\ Holds(r)
  <2>1. /\ pc[r] = "idle" /\ flight[r] = <<>> /\ patient[r] /\ answer[r] = "none"
        /\ performed[r] = 0 /\ r \notin open /\ payload # r /\ reported = {}
    BY DEF Init, Runs, None
  <2>2. DOMAIN flight[r] = {}
    BY <2>1
  <2>3. \A op : ~In(op, flight[r])
    BY <2>2 DEF In
  <2>4. Tidy(r)
    BY <2>1 DEF Tidy, Settled, Early
  <2>5. OnceOnly(r) /\ Obeyed(r)
    BY <2>1, <2>2 DEF OnceOnly, Counted, Obeyed
  <2>6. InOrder(r) /\ Holds(r)
    BY <2>1, <2>2, <2>3 DEF InOrder, Holds, Owns, Claims
  <2> QED
    BY <2>4, <2>5, <2>6
<1> QED
  BY <1>1, <1>2 DEF Inv

\* Every step.
LEMMA InvStep == Inv /\ [Next]_vars => Inv'
<1> SUFFICES ASSUME Inv, [Next]_vars PROVE Inv'
  OBVIOUS
<1>1. ASSUME NEW q \in Runs, Moves(q) PROVE Inv'
  <2>1. TypeOK'
    BY <1>1, TypeMove DEF Inv
  <2>2. ASSUME NEW r \in Runs
        PROVE  (Tidy(r) /\ OnceOnly(r) /\ Obeyed(r) /\ InOrder(r) /\ Holds(r))'
    <3>1. CASE r = q
      BY <1>1, <3>1, TidyMove, OnceMove, ObeyedMove, OrderMove, HoldsMove
    <3>2. CASE r # q
      BY <1>1, <3>2, OthersSound, HoldsOther
    <3> QED
      BY <3>1, <3>2
  <2> QED
    BY <2>1, <2>2 DEF Inv
<1>2. CASE UNCHANGED vars
  <2>1. TypeOK'
    BY <1>2 DEF Inv, TypeOK, vars, clientVars, cardVars, historyVars
  <2>2. ASSUME NEW r \in Runs
        PROVE  (Tidy(r) /\ OnceOnly(r) /\ Obeyed(r) /\ InOrder(r) /\ Holds(r))'
    BY <1>2 DEF Inv, Tidy, Clean, Settled, OnceOnly, Counted, Obeyed, InOrder, Holds, Quiet, Owns,
                Claims, In, vars, clientVars, cardVars, historyVars
  <2> QED
    BY <2>1, <2>2 DEF Inv
<1> QED
  BY <1>1, <1>2, Steps DEF Inv

\* All of it holds always.
THEOREM SessionsSound == Spec => []Inv
  BY InvInit, InvStep, PTL DEF Spec

\* Whatever way a command returns, and however late the card answers, its session is closed and
\* its payload given up, unless it was cancelled, a datagram was lost, or the card refused a
\* deactivation or a close.
THEOREM LeavesSafety == Spec => []LeavesNothing
<1>1. Inv => LeavesNothing
  BY DEF Inv, Tidy, Clean, Settled, LeavesNothing
<1> QED
  BY <1>1, SessionsSound, PTL

\* An action reported was done, and none is done twice unless a datagram was lost.
THEOREM ActsSafety == Spec => []ActsOnce
<1>1. Inv => ActsOnce
  BY DEF Inv, Obeyed, OnceOnly, Counted, ActsOnce
<1> QED
  BY <1>1, SessionsSound, PTL

\* A console in use keeps its payload, whatever the card refuses.
THEOREM ConsoleSafety == Spec => ConsoleKept
<1>1. Inv /\ [Next]_vars =>
        [\A r \in Runs :
           pc[r] = "console" /\ payload = r /\ payload' # r =>
             \/ events' \cap {"lost", "late"} # {}
             \/ \E q \in Runs : mode[q] = "force" /\ pc[q] # "idle"]_vars
  <2> SUFFICES ASSUME Inv, [Next]_vars, NEW r \in Runs,
                      pc[r] = "console", payload = r, payload' # r,
                      events' \cap {"lost", "late"} = {}, \A q \in Runs : mode[q] = "force" => pc[q] = "idle"
               PROVE  FALSE
    OBVIOUS
  <2>1. TypeOK
    BY DEF Inv
  <2>2. PICK q \in Runs : Moves(q)
    BY <2>1, Steps DEF vars, cardVars
  <2>3. Quiet
    BY <2>1, <2>2, Grows DEF Quiet
  <2>4. payload' = r
    BY <2>2, <2>3, PayloadKept
  <2> QED
    BY <2>4
<1> QED
  BY <1>1, SessionsSound, PTL DEF Spec, ConsoleKept

=============================================================================
