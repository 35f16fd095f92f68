-------------------------------- MODULE Bridge --------------------------------
(***************************************************************************)
(* The life of `rd450x-console kvm` started with credentials: the web      *)
(* server and its idle shutdown (webui.Serve), the goroutine that logs in  *)
(* to the BMC and runs the video session (connectBMC, Connect, Run,        *)
(* Close), and the end of the process.  The BMC has one thing to lose: the *)
(* web session the login opens, out of a small pool.                       *)
(***************************************************************************)
EXTENDS Naturals, FiniteSets

CONSTANTS
  Tabs,       \* noVNC pages, each connecting and disconnecting any number of times
  MaxTimers   \* bound on the number of grace timers started

ASSUME BridgeAssumption == IsFiniteSet(Tabs) /\ MaxTimers \in Nat

VARIABLES
  accepted,    \* the tabs whose /websockify handler has a WebSocket but has not counted it
  connected,   \* the tabs whose /websockify handler is between its two locked sections
  activeConn,  \* the counter the handlers keep
  used,        \* history: some session has ended
  timer,       \* each AfterFunc: "none", "pending", "stopped", "fired", "idle", "done"
  started,     \* timers started so far
  graceTimer,  \* the timer the variable points to, or 0
  ctxDone,     \* the context of RunCommand is cancelled
  srv,         \* the HTTP server: "starting", "open", "closed"
  main,        \* the main goroutine: "serving", "returned", "exited"
  bmc,         \* connectBMC: where it is
  web,         \* the web session on the card: "none", "open", "closed"
  video,       \* the video socket: "none", "open", "closed"
  published,   \* vmCtl and the late sink have been given the client
  logouts,     \* history: logout requests sent
  lost         \* history: a login request failed after it may have opened a session

uiVars == <<accepted, connected, activeConn, used, timer, started, graceTimer>>
procVars == <<ctxDone, srv, main>>
bmcVars == <<bmc, web, video, published, logouts, lost>>
vars == <<uiVars, procVars, bmcVars>>

Timers == 1..MaxTimers
Running == main # "exited"

Init ==
  /\ accepted = {} /\ connected = {} /\ activeConn = 0 /\ used = FALSE
  /\ timer = [t \in Timers |-> "none"] /\ started = 0 /\ graceTimer = 0
  /\ ctxDone = FALSE /\ srv = "starting" /\ main = "serving"
  /\ bmc = "login" /\ web = "none" /\ video = "none" /\ published = FALSE
  /\ logouts = 0 /\ lost = FALSE

-----------------------------------------------------------------------------
(* The /websockify handler and its grace timer.                            *)

\* Mutant: the timer is forgotten without being stopped.
ForgetTimer == graceTimer' = 0 /\ UNCHANGED timer

\* Stop the pending timer, if there is one; one that has fired runs on.
StopTimer ==
  /\ graceTimer' = 0
  /\ timer' = [t \in Timers |-> IF t = graceTimer /\ timer[t] = "pending" THEN "stopped"
                                                                          ELSE timer[t]]

\* websocket.Accept; from here on the connection is the handler's, and Shutdown leaves it alone.
Accept(s) ==
  /\ Running /\ srv = "open"
  /\ s \notin accepted \cup connected
  /\ accepted' = accepted \cup {s}
  /\ UNCHANGED <<connected, activeConn, used, timer, started, graceTimer, procVars, bmcVars>>

\* The first locked section of the handler, which may come after the server has closed.
Connect(s) ==
  /\ Running
  /\ s \in accepted
  /\ accepted' = accepted \ {s}
  /\ connected' = connected \cup {s}
  /\ activeConn' = activeConn + 1
  /\ StopTimer
  /\ UNCHANGED <<used, started, procVars, bmcVars>>

\* Mutant: a timer is started only when none was started before.
StartTimerOnce ==
  IF started = 0
  THEN /\ started < MaxTimers
       /\ started' = started + 1
       /\ graceTimer' = started + 1
       /\ timer' = [timer EXCEPT ![started + 1] = "pending"]
  ELSE UNCHANGED <<timer, started, graceTimer>>

\* time.AfterFunc(shutdownGrace, ...)
StartTimer ==
  /\ started < MaxTimers
  /\ started' = started + 1
  /\ graceTimer' = started + 1
  /\ timer' = [timer EXCEPT ![started + 1] = "pending"]

\* rfb.Serve has returned: the tab is closed or reloaded, or its socket failed.
Disconnect(s) ==
  /\ Running
  /\ s \in connected
  /\ connected' = connected \ {s}
  /\ activeConn' = activeConn - 1
  /\ used' = TRUE
  /\ IF activeConn = 1 THEN StartTimer ELSE UNCHANGED <<timer, started, graceTimer>>
  /\ UNCHANGED <<accepted, procVars, bmcVars>>

\* The grace period is over: the callback's goroutine starts.
TimerFires(t) ==
  /\ Running
  /\ timer[t] = "pending"
  /\ timer' = [timer EXCEPT ![t] = "fired"]
  /\ UNCHANGED <<accepted, connected, activeConn, used, started, graceTimer, procVars, bmcVars>>

\* The callback looks at activeConn under the lock...
CheckIdle(t) ==
  /\ Running
  /\ timer[t] = "fired"
  /\ timer' = [timer EXCEPT ![t] = IF activeConn = 0 THEN "idle" ELSE "done"]
  /\ UNCHANGED <<accepted, connected, activeConn, used, started, graceTimer, procVars, bmcVars>>

\* ... and calls onDisconnect, the cancel of RunCommand, after it has let go of it.
OnDisconnect(t) ==
  /\ Running
  /\ timer[t] = "idle"
  /\ timer' = [timer EXCEPT ![t] = "done"]
  /\ ctxDone' = TRUE
  /\ UNCHANGED <<accepted, connected, activeConn, used, started, graceTimer, srv, main, bmcVars>>

-----------------------------------------------------------------------------
(* The server and the process.                                             *)

\* os.Interrupt cancels the parent context.
Interrupt ==
  /\ Running
  /\ ~ctxDone
  /\ ctxDone' = TRUE
  /\ UNCHANGED <<uiVars, srv, main, bmcVars>>

\* ListenAndServe binds its port, or fails and makes Serve return.
Listen ==
  /\ Running
  /\ srv = "starting"
  /\ srv' \in {"open", "closed"}
  /\ UNCHANGED <<uiVars, ctxDone, main, bmcVars>>

\* srv.Shutdown in the goroutine that waits for ctx.  It leaves the WebSockets alone.
Shutdown ==
  /\ Running
  /\ ctxDone
  /\ srv # "closed"
  /\ srv' = "closed"
  /\ UNCHANGED <<uiVars, ctxDone, main, bmcVars>>

\* ListenAndServe returns as soon as Shutdown begins, and RunCommand with it; the deferred
\* cancel runs.
ServeReturns ==
  /\ main = "serving"
  /\ srv = "closed"
  /\ main' = "returned"
  /\ ctxDone' = TRUE
  /\ UNCHANGED <<uiVars, srv, bmcVars>>

\* main() returns; the other goroutines end with it, wherever they are.
Exit ==
  /\ main = "returned"
  /\ main' = "exited"
  /\ UNCHANGED <<uiVars, ctxDone, srv, bmcVars>>

-----------------------------------------------------------------------------
(* connectBMC.                                                             *)

\* create.asp: a session is opened and its cookie returned; or there is no cookie
\* (refused, timed out, cancelled), and the card may have opened one all the same.
CreateSession ==
  /\ Running
  /\ bmc = "login"
  /\ \/ ~ctxDone /\ bmc' = "jnlp" /\ web' = "open" /\ UNCHANGED lost
     \/ bmc' = "failed" /\ web' \in {"none", "open"} /\ lost' = TRUE
  /\ UNCHANGED <<uiVars, procVars, video, published, logouts>>

\* jviewer.jnlp: arguments with or without a token; or an error, a timeout, a cancelled
\* context or session_expired, and FetchLaunchArgs returns without the cookie.
FetchJnlp ==
  /\ Running
  /\ bmc = "jnlp"
  /\ \/ ~ctxDone /\ bmc' \in {"dial", "logout"} /\ UNCHANGED lost
     \/ bmc' = "failed" /\ lost' = TRUE
  /\ UNCHANGED <<uiVars, procVars, web, video, published, logouts>>

Dial ==
  /\ Running
  /\ bmc = "dial"
  /\ \/ bmc' = "handshake" /\ video' = "open"
     \/ bmc' = "logout" /\ UNCHANGED video
  /\ UNCHANGED <<uiVars, procVars, web, published, logouts, lost>>

\* Mutant: a failed handshake closes the socket and forgets the web session.
HandshakeFailsSilently ==
  /\ Running
  /\ bmc = "handshake"
  /\ bmc' = "failed"
  /\ video' = "closed"
  /\ UNCHANGED <<uiVars, procVars, web, published, logouts, lost>>

\* Mutant: no deadline, so only a BMC that answers ends the handshake.
HandshakeUnbounded == FALSE /\ UNCHANGED vars

\* The BMC rejects or stops the session, drops the socket, or the 15 s deadline passes.
HandshakeFails ==
  /\ Running
  /\ bmc = "handshake"
  /\ bmc' = "logout"
  /\ video' = "closed"
  /\ UNCHANGED <<uiVars, procVars, web, published, logouts, lost>>

\* The session is validated; connectBMC publishes the client and enters Run.
HandshakeDone ==
  /\ Running
  /\ bmc = "handshake"
  /\ bmc' = "run"
  /\ published' = TRUE
  /\ UNCHANGED <<uiVars, procVars, web, video, logouts, lost>>

\* Run returns and its deferred Close closes the socket: the context is done...
RunCancelled ==
  /\ Running
  /\ bmc = "run"
  /\ ctxDone
  /\ bmc' = "logout"
  /\ video' = "closed"
  /\ UNCHANGED <<uiVars, procVars, web, published, logouts, lost>>

\* ... or the read loop fails.
RunFails ==
  /\ Running
  /\ bmc = "run"
  /\ bmc' = "logout"
  /\ video' = "closed"
  /\ UNCHANGED <<uiVars, procVars, web, published, logouts, lost>>

\* Mutant: a second Close logs the same session out again.
LogoutAgain ==
  /\ Running
  /\ bmc = "logout"
  /\ bmc' \in {"ended", "logout"}
  /\ logouts' = logouts + 1
  /\ web' \in {"closed", web}
  /\ UNCHANGED <<uiVars, procVars, video, published, lost>>

\* Logout: best effort, an error is ignored.
Logout ==
  /\ Running
  /\ bmc = "logout"
  /\ bmc' = "ended"
  /\ logouts' = logouts + 1
  /\ web' \in {"closed", web}
  /\ UNCHANGED <<uiVars, procVars, video, published, lost>>

-----------------------------------------------------------------------------
TimerStep(t) == TimerFires(t) \/ CheckIdle(t) \/ OnDisconnect(t)
ServerStep == Listen \/ Shutdown
MainStep == ServeReturns \/ Exit
BmcStep ==
  \/ CreateSession
  \/ FetchJnlp
  \/ Dial
  \/ HandshakeFails
  \/ RunCancelled
  \/ Logout

Next ==
  \/ \E s \in Tabs : Accept(s) \/ Connect(s) \/ Disconnect(s)
  \/ \E t \in Timers : TimerStep(t)
  \/ Interrupt
  \/ ServerStep
  \/ MainStep
  \/ BmcStep
  \/ HandshakeDone
  \/ RunFails

Spec == Init /\ [][Next]_vars

\* Timers fire, goroutines run, and every call of connectBMC is bounded by a timeout or by
\* the context.  The users, the signal and what the BMC answers are free.
Fairness ==
  /\ \A s \in Tabs : WF_vars(Connect(s))
  /\ \A t \in Timers : WF_vars(TimerStep(t))
  /\ WF_vars(ServerStep)
  /\ WF_vars(MainStep)
  /\ WF_vars(BmcStep)

FairSpec == Spec /\ Fairness

-----------------------------------------------------------------------------
(* Properties.                                                             *)

\* Every variable keeps its type.
TypeOK ==
  /\ accepted \subseteq Tabs /\ connected \subseteq Tabs
  /\ activeConn \in Nat
  /\ used \in BOOLEAN
  /\ timer \in [Timers -> {"none", "pending", "stopped", "fired", "idle", "done"}]
  /\ started \in 0..MaxTimers
  /\ graceTimer \in 0..MaxTimers
  /\ ctxDone \in BOOLEAN
  /\ srv \in {"starting", "open", "closed"}
  /\ main \in {"serving", "returned", "exited"}
  /\ bmc \in {"login", "jnlp", "dial", "handshake", "run", "logout", "ended", "failed"}
  /\ web \in {"none", "open", "closed"}
  /\ video \in {"none", "open", "closed"}
  /\ published \in BOOLEAN
  /\ logouts \in 0..1
  /\ lost \in BOOLEAN

\* A page that reconnects within the grace period keeps the bridge alive: a timer that can
\* still fire is the one graceTimer points to, and nobody is counted while it runs, after
\* any sequence of overlapping connects, disconnects and late callbacks.
PendingTimerMeansIdle ==
  \A t \in Timers : timer[t] = "pending" => t = graceTimer /\ connected = {} /\ activeConn = 0

\* connectBMC never just drops a BMC session: once it is over, the video socket is closed
\* and the web session has been logged out exactly once, whichever step failed, unless the
\* login itself never gave it the cookie.
NothingLeftOpen ==
  bmc \in {"ended", "failed"} =>
    /\ video # "open"
    /\ ~lost => logouts = 1

\* Once the last page has gone for good, the bridge shuts down and the process ends.
IdleBridgeExits == <>[](used /\ connected = {}) => <>(main = "exited")

\* Whatever the BMC does, connectBMC gets to a running session or gives up, or the process
\* ends first: no step of the login or of the handshake waits for ever.
ConnectSettles == <>(bmc \in {"run", "ended", "failed"} \/ main = "exited")

\* "A noVNC disconnect (or signal) tears down both the web server and the BMC client - the
\* latter's deferred Close() releases the card's web session": a process that had a client
\* running and a page connected does not end before it has asked the card to log out.
ReleasedBeforeExit == main = "exited" /\ used /\ published => logouts = 1

=============================================================================
