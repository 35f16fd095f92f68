---------------------------- MODULE IpmiSessions ----------------------------
(***************************************************************************)
(* The commands that open an RMCP+ session on the card: `sol` with and     *)
(* without --force, `sol -info`, `sol -debug`, and the power actions and   *)
(* polls of the web panel.  Each run of a command is a process of its own; *)
(* they meet on the card, which has one Serial-over-LAN payload.           *)
(*                                                                         *)
(* A request is a datagram that go-ipmi sends again, up to its retries,    *)
(* when no answer comes within its timeout.  The card and go-ipmi are      *)
(* external.  A datagram or its answer can be lost; an answer can also be  *)
(* late, but only for a client that waits 200 ms: the default of one       *)
(* second is taken to be enough.  The card may refuse a request with a     *)
(* completion code.  What happens inside the console is in                 *)
(* SolConsole.                                                             *)
(***************************************************************************)
EXTENDS Naturals, Sequences, FiniteSets

CONSTANTS
  NRuns,      \* bound on the runs of a command
  Scenarios,  \* the commands and flags of the runs
  Retries,    \* ipmi.DefaultLanplusRetries
  Polls,      \* the polls of diagnoseSOL, 10
  MaxFaults   \* bound on datagrams lost, requests refused, processes killed and contexts
              \* cancelled

ASSUME RunsAssumption ==
  /\ {NRuns, Retries, Polls, MaxFaults} \subseteq Nat
  /\ Polls > 0

Runs == 1..NRuns
None == 0

Consoles == {"sol", "force", "debug"}
Modes == Consoles \cup {"info", "power", "status"}

ASSUME ScenariosAssumption == Scenarios \subseteq [Runs -> Modes]

Ops == {"connect", "deviceid", "chassis", "solconfig", "activate", "evict", "reactivate",
        "poll", "deactivate", "control", "close"}
Answers == {"none", "ok", "busy", "fail"}

VARIABLES
  mode,       \* the command and its flags
  pc,         \* the request awaited, or "idle", "console", "returned", "killed"
  answer,     \* the outcome of that request, once there is one
  tries,      \* how often it was sent again
  retries,    \* the client's retries and
  patient,    \* whether its timeout is the default
  polls,      \* polls sent by diagnoseSOL
  cancelled,  \* whether the context is cancelled
  flight,     \* the requests of a run that the card has not seen yet
  open,       \* card: the open sessions, each named by its run
  payload,    \* card: the session that holds the SOL payload, or None
  performed,  \* history: how often the chassis obeyed the action of a run
  reported,   \* history: the runs whose Do returned nil
  events,     \* history: "lost" and "late", once that has happened to a datagram, "denied" and
              \* "kept", once the card has refused to give a payload or to give one or a session up
  faults      \* counter for the bound

clientVars == <<mode, pc, answer, tries, retries, patient, polls, cancelled>>
cardVars == <<open, payload, performed>>
historyVars == <<reported, events>>
vars == <<clientVars, flight, cardVars, historyVars, faults>>

Alive(r) == pc[r] \notin {"idle", "returned", "killed"}

Init ==
  /\ mode \in Scenarios
  /\ pc = [r \in Runs |-> "idle"]
  /\ answer = [r \in Runs |-> "none"]
  /\ tries = [r \in Runs |-> 0]
  /\ retries = [r \in Runs |-> Retries]
  /\ patient = [r \in Runs |-> TRUE]
  /\ polls = [r \in Runs |-> 0]
  /\ cancelled = [r \in Runs |-> FALSE]
  /\ flight = [r \in Runs |-> <<>>]
  /\ open = {} /\ payload = None
  /\ performed = [r \in Runs |-> 0]
  /\ reported = {} /\ events = {} /\ faults = 0

-----------------------------------------------------------------------------
(* Requests.                                                               *)

\* One request is sent.  With a cancelled context it may fail before it is.
Ask(r, op) ==
  /\ pc' = [pc EXCEPT ![r] = op]
  /\ tries' = [tries EXCEPT ![r] = 0]
  /\ \/ /\ flight' = [flight EXCEPT ![r] = Append(@, op)]
        /\ answer' = [answer EXCEPT ![r] = "none"]
     \/ /\ cancelled[r]
        /\ answer' = [answer EXCEPT ![r] = "fail"]
        /\ UNCHANGED flight

\* No answer within the timeout: the request is sent again, or fails.
Timeout(r) ==
  /\ pc[r] \in Ops /\ answer[r] = "none"
  /\ flight[r] = <<>> \/ ~patient[r]
  /\ IF tries[r] < retries[r]
       THEN /\ tries' = [tries EXCEPT ![r] = @ + 1]
            /\ flight' = [flight EXCEPT ![r] = Append(@, pc[r])]
            /\ UNCHANGED answer
       ELSE /\ answer' = [answer EXCEPT ![r] = "fail"]
            /\ UNCHANGED <<tries, flight>>
  /\ events' = IF flight[r] = <<>> THEN events ELSE events \cup {"late"}
  /\ UNCHANGED <<mode, pc, retries, patient, polls, cancelled, cardVars, reported,
                 faults>>

\* A request fails when its context is cancelled while it waits.
CancelRequest(r) ==
  /\ pc[r] \in Ops /\ answer[r] = "none" /\ cancelled[r]
  /\ answer' = [answer EXCEPT ![r] = "fail"]
  /\ UNCHANGED <<mode, pc, tries, retries, patient, polls, cancelled, flight, cardVars,
                 historyVars, faults>>

-----------------------------------------------------------------------------
(* The card.                                                               *)

\* What the card may answer when it does as it is asked.  A poll is answered only while the
\* payload is the session's own, and then it may be left unanswered; there may be nothing to
\* deactivate.
Replies(r, op) ==
  CASE op \in {"activate", "reactivate"} -> {IF payload = None THEN "ok" ELSE "busy"}
    [] op = "poll" -> IF payload = r THEN {"ok", "none"} ELSE {"none"}
    [] op \in {"evict", "deactivate"} -> IF payload = None THEN {"ok", "fail"} ELSE {"ok"}
    [] OTHER -> {"ok"}

\* What it does.  Deactivation names the payload instance, whoever holds it.  A session that
\* closes may or may not give up its payload.
Obey(r, op) ==
  /\ open' = CASE op = "connect" -> open \cup {r}
               [] op = "close" -> open \ {r}
               [] OTHER -> open
  /\ \/ payload' = CASE op \in {"activate", "reactivate"} /\ payload = None -> r
                     [] op \in {"evict", "deactivate"} -> None
                     [] OTHER -> payload
     \/ op = "close" /\ payload = r /\ payload' = None
  /\ performed' = IF op = "control" THEN [performed EXCEPT ![r] = @ + 1] ELSE performed

\* An answer reaches the request it is for, unless nobody waits for it any more.
Answer(r, op, reply) ==
  answer' = IF pc[r] = op /\ answer[r] = "none" THEN [answer EXCEPT ![r] = reply] ELSE answer

\* The card serves the next request of a run.  Without an open session it does nothing.
CardServes(r) ==
  /\ flight[r] # <<>>
  /\ flight' = [flight EXCEPT ![r] = Tail(@)]
  /\ LET op == Head(flight[r])
         served == op = "connect" \/ r \in open
     IN /\ IF served THEN Obey(r, op) ELSE UNCHANGED cardVars
        /\ \E reply \in IF served THEN Replies(r, op) ELSE {"none"} : Answer(r, op, reply)
  /\ UNCHANGED <<mode, pc, tries, retries, patient, polls, cancelled, historyVars, faults>>

\* What it means for the payload and the session that the card refuses.
Refusal(op) ==
  CASE op \in {"activate", "evict", "reactivate"} -> {"denied"}
    [] op \in {"deactivate", "close"} -> {"kept"}
    [] OTHER -> {}

\* The card does nothing and answers with the completion code of an error, which ends the
\* request: go-ipmi does not repeat what was answered.
CardRefuses(r) ==
  /\ faults < MaxFaults
  /\ flight[r] # <<>> /\ (Head(flight[r]) = "connect" \/ r \in open)
  /\ flight' = [flight EXCEPT ![r] = Tail(@)]
  /\ Answer(r, Head(flight[r]), "fail")
  /\ events' = events \cup Refusal(Head(flight[r]))
  /\ faults' = faults + 1
  /\ UNCHANGED <<mode, pc, tries, retries, patient, polls, cancelled, cardVars, reported>>

\* The card serves a request and the answer is lost.
AnswerLost(r) ==
  /\ faults < MaxFaults
  /\ flight[r] # <<>> /\ (Head(flight[r]) = "connect" \/ r \in open)
  /\ flight' = [flight EXCEPT ![r] = Tail(@)]
  /\ Obey(r, Head(flight[r]))
  /\ events' = events \cup {"lost"}
  /\ faults' = faults + 1
  /\ UNCHANGED <<clientVars, reported>>

\* A request is lost.
RequestLost(r) ==
  /\ faults < MaxFaults
  /\ flight[r] # <<>>
  /\ flight' = [flight EXCEPT ![r] = Tail(@)]
  /\ events' = events \cup {"lost"}
  /\ faults' = faults + 1
  /\ UNCHANGED <<clientVars, cardVars, reported>>

\* The card drops a session nobody uses any more, and its payload with it.
CardExpires(r) ==
  /\ r \in open /\ ~Alive(r) /\ flight[r] = <<>>
  /\ open' = open \ {r}
  /\ payload' = IF payload = r THEN None ELSE payload
  /\ UNCHANGED <<clientVars, flight, performed, historyVars, faults>>

-----------------------------------------------------------------------------
(* The commands.                                                           *)

Done(r, op, outcomes) == pc[r] = op /\ answer[r] \in outcomes

\* RunCommand, or session() of the power controller: NewClient and Connect.
Begin(r) ==
  /\ pc[r] = "idle"
  /\ Ask(r, "connect")
  /\ UNCHANGED <<mode, retries, patient, polls, cancelled, cardVars, historyVars, faults>>

\* The first request of a connected command.
First(m) == CASE m = "info" -> "deviceid"
              [] m = "power" -> "control"
              [] m = "status" -> "chassis"
              [] OTHER -> "activate"

\* Connect returns nil: the keepalive is stopped and Close is deferred.
Connected(r) ==
  /\ Done(r, "connect", {"ok"})
  /\ Ask(r, First(mode[r]))
  /\ UNCHANGED <<mode, retries, patient, polls, cancelled, cardVars, historyVars, faults>>

\* The process is gone, and its memory with it.
Leave(r, how) ==
  /\ pc' = [pc EXCEPT ![r] = how]
  /\ answer' = [answer EXCEPT ![r] = "none"]
  /\ tries' = [tries EXCEPT ![r] = 0]
  /\ retries' = [retries EXCEPT ![r] = 0]
  /\ patient' = [patient EXCEPT ![r] = FALSE]
  /\ polls' = [polls EXCEPT ![r] = 0]
  /\ UNCHANGED <<mode, cancelled, flight, cardVars, historyVars>>

\* Connect fails: nothing was deferred yet.
NotConnected(r) ==
  /\ Done(r, "connect", {"fail"})
  /\ Leave(r, "returned")
  /\ UNCHANGED faults

\* showInfo and Status: the next of their requests, until one fails.
NextInfo(r) ==
  /\ \/ Done(r, "deviceid", {"ok"}) /\ Ask(r, "chassis")
     \/ Done(r, "chassis", {"ok"}) /\ mode[r] = "info" /\ Ask(r, "solconfig")
  /\ UNCHANGED <<mode, retries, patient, polls, cancelled, cardVars, historyVars, faults>>

EndInfo(r) ==
  /\ \/ Done(r, "deviceid", {"fail"})
     \/ Done(r, "chassis", {"fail"})
     \/ Done(r, "chassis", {"ok"}) /\ mode[r] = "status"
     \/ Done(r, "solconfig", {"ok", "fail"})
  /\ Ask(r, "close")
  /\ UNCHANGED <<mode, retries, patient, polls, cancelled, cardVars, historyVars, faults>>

\* Mutant: Do drops the error of ChassisControl.
SucceedsAnyway == {"ok", "fail"}

\* Do returns nil only when ChassisControl did.
Succeeds == {"ok"}

\* Do after ChassisControl.
EndControl(r) ==
  /\ Done(r, "control", {"ok", "fail"})
  /\ reported' = IF answer[r] \in Succeeds THEN reported \cup {r} ELSE reported
  /\ Ask(r, "close")
  /\ UNCHANGED <<mode, retries, patient, polls, cancelled, cardVars, events, faults>>

\* Mutant: the flag is not looked at.
TakesOverAlways(r) == TRUE

\* Mutant: the completion code is not recognised.
TakesOverNever(r) == FALSE

TakesOver(r) == mode[r] = "force"

\* activate: the payload is held, and with --force it is deactivated first, whatever comes
\* of that, and activation is tried once more.
Evict(r) ==
  /\ \/ Done(r, "activate", {"busy"}) /\ TakesOver(r) /\ Ask(r, "evict")
     \/ Done(r, "evict", {"ok", "fail"}) /\ Ask(r, "reactivate")
  /\ UNCHANGED <<mode, retries, patient, polls, cancelled, cardVars, historyVars, faults>>

\* activate returns an error: deactivate is not deferred yet, only Close is.
NotActivated(r) ==
  /\ \/ Done(r, "activate", {"busy"}) /\ ~TakesOver(r)
     \/ Done(r, "activate", {"fail"})
     \/ Done(r, "reactivate", {"busy", "fail"})
  /\ Ask(r, "close")
  /\ UNCHANGED <<mode, retries, patient, polls, cancelled, cardVars, historyVars, faults>>

Activated(r) == Done(r, "activate", {"ok"}) \/ Done(r, "reactivate", {"ok"})

\* The polling profile, 200 ms and no retries, and Console.Run.
StartConsole(r) ==
  /\ Activated(r) /\ mode[r] # "debug"
  /\ pc' = [pc EXCEPT ![r] = "console"]
  /\ patient' = [patient EXCEPT ![r] = FALSE]
  /\ retries' = [retries EXCEPT ![r] = 0]
  /\ UNCHANGED <<mode, answer, tries, polls, cancelled, flight, cardVars, historyVars, faults>>

\* diagnoseSOL: the next poll, up to the last.
NextPoll(r) ==
  /\ \/ Activated(r) /\ mode[r] = "debug"
     \/ Done(r, "poll", {"ok"}) /\ polls[r] < Polls
  /\ polls' = [polls EXCEPT ![r] = @ + 1]
  /\ Ask(r, "poll")
  /\ UNCHANGED <<mode, retries, patient, cancelled, cardVars, historyVars, faults>>

\* Mutant: the deferred calls run in the order they were written.
TeardownFirstDeferred == <<"close", "deactivate">>

\* The deferred calls, last in first out.
Teardown == <<"deactivate", "close">>

EndPolls(r) ==
  /\ \/ Done(r, "poll", {"fail"})
     \/ Done(r, "poll", {"ok"}) /\ polls[r] = Polls
  /\ Ask(r, Teardown[1])
  /\ UNCHANGED <<mode, retries, patient, polls, cancelled, cardVars, historyVars, faults>>

\* Console.Run returns: the user quits, the context ends, the terminal or the transport
\* fails.  The deferred statement of line 110 gives back the retries; the timeout it was to
\* give back was set when it was deferred, and line 111 replaced it.
EndConsole(r) ==
  /\ pc[r] = "console"
  /\ retries' = [retries EXCEPT ![r] = Retries]
  /\ Ask(r, Teardown[1])
  /\ UNCHANGED <<mode, patient, polls, cancelled, cardVars, historyVars, faults>>

\* deactivate drops its error, and Close follows.
NextDeferred(r) ==
  /\ Done(r, Teardown[1], {"ok", "fail"})
  /\ mode[r] \in Consoles
  /\ Ask(r, Teardown[2])
  /\ UNCHANGED <<mode, retries, patient, polls, cancelled, cardVars, historyVars, faults>>

\* The last deferred call has run.
Returns(r) ==
  /\ Done(r, "close", {"ok", "fail"})
  /\ Leave(r, "returned")
  /\ UNCHANGED faults

\* Ctrl-C before the terminal is raw, or the end of the connection the panel came from.
Cancel(r) ==
  /\ Alive(r) /\ ~cancelled[r] /\ faults < MaxFaults
  /\ cancelled' = [cancelled EXCEPT ![r] = TRUE]
  /\ faults' = faults + 1
  /\ UNCHANGED <<mode, pc, answer, tries, retries, patient, polls, flight, cardVars, historyVars>>

\* The process dies: nothing deferred is run.
Kill(r) ==
  /\ Alive(r) /\ faults < MaxFaults
  /\ Leave(r, "killed")
  /\ faults' = faults + 1

-----------------------------------------------------------------------------
Command(r) ==
  \/ Connected(r) \/ NotConnected(r)
  \/ NextInfo(r) \/ EndInfo(r) \/ EndControl(r)
  \/ Evict(r) \/ NotActivated(r) \/ StartConsole(r)
  \/ NextPoll(r) \/ EndPolls(r)
  \/ NextDeferred(r) \/ Returns(r)

Finished ==
  /\ \A r \in Runs : pc[r] \in {"returned", "killed"}
  /\ UNCHANGED vars

Next ==
  \/ \E r \in Runs :
       \/ Begin(r) \/ Command(r) \/ EndConsole(r)
       \/ Timeout(r) \/ CancelRequest(r)
       \/ CardServes(r) \/ CardRefuses(r) \/ AnswerLost(r) \/ RequestLost(r) \/ CardExpires(r)
       \/ Cancel(r) \/ Kill(r)
  \/ Finished

\* The program goes on, timers fire, the card serves what reaches it, and Run sees the end
\* of its context.  Nobody has to quit a console.
Spec ==
  /\ Init /\ [][Next]_vars
  /\ \A r \in Runs :
       /\ WF_vars(Command(r))
       /\ WF_vars(Timeout(r))
       /\ WF_vars(CardServes(r))
       /\ WF_vars(cancelled[r] /\ EndConsole(r))

-----------------------------------------------------------------------------
(* Properties.                                                             *)

\* A command that was not cancelled leaves nothing on the card, whether it did its work or gave
\* up at a step that failed, and however late the card answered its last requests, as long as
\* no datagram was lost and the card refused no deactivation or close: its session is closed
\* and the payload is not held by it.
LeavesNothing ==
  \A r \in Runs :
    pc[r] = "returned" /\ ~cancelled[r] /\ flight[r] = <<>> /\ events \cap {"lost", "kept"} = {} =>
      r \notin open /\ payload # r

\* As long as nobody uses --force, a console in use keeps its payload until its own process
\* ends it, unless an answer is lost or a deactivation was repeated because its answer was
\* late.  With --force there is a second way to lose it: the process that was evicted
\* deactivates the payload when it ends, and the payload is then its successor's.
ConsoleKept ==
  [][\A r \in Runs :
       pc[r] = "console" /\ payload = r /\ payload' # r =>
         \/ events' \cap {"lost", "late"} # {}
         \/ \E q \in Runs : mode[q] = "force" /\ pc[q] # "idle"]_vars

\* A power action that Do reports as done was done, and one press of the button does not act
\* twice unless the request had to be repeated because an answer was lost.
ActsOnce ==
  \A r \in Runs :
    /\ r \in reported => performed[r] > 0
    /\ performed[r] > 1 => "lost" \in events

\* A payload left behind by a killed process does not lock the console: a command with
\* --force gets it, unless it is itself cancelled or killed, a datagram is lost, the card
\* refuses it the payload, or another console command is under way.
ForceTakesOver ==
  \A r \in Runs :
    (pc[r] = "activate" /\ mode[r] = "force") ~>
      \/ pc[r] \in {"console", "killed"}
      \/ cancelled[r]
      \/ events \cap {"lost", "denied"} # {}
      \/ \E q \in Runs \ {r} : mode[q] \in Consoles /\ (Alive(q) \/ flight[q] # <<>>)

=============================================================================
