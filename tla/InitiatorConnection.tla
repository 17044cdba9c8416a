------------------------ MODULE InitiatorConnection -------------------------
(***************************************************************************)
(* TCPInitiatorConnection between its three kinds of thread: the strand of *)
(* each socket (onConnected, onRead, onError, onClosed), the timer thread  *)
(* of the runtime (Session::onTimer, then the connection's onTimer), and   *)
(* those of the application (send, doLogout) and of FIXRuntime::stop.      *)
(*                                                                         *)
(* The transport state is atomic, m_socket is not protected at all, and the *)
(* session mutex protects the session only.  So a handler is several steps *)
(* here: one for what it does before it calls the session, one for the     *)
(* call, one for what it does after.  strand[s] and timer say how far each *)
(* has come.  Of the session only the status is kept.                      *)
(*                                                                         *)
(* A thread that waits for a strand is in the socket's closer or writers:  *)
(* close() from outside the strand waits until closeInternal has run on it, *)
(* and so does a TLS write until the strand has written.  A plain write is *)
(* done at once.                                                           *)
(***************************************************************************)
EXTENDS Integers, FiniteSets

CONSTANTS
  Sockets,      \* as many as may be alive at once
  Configs,      \* the configurations and surroundings to look at
  MaxTroubles   \* connections that break, deadlines missed, logouts

(* unopenable: endpoints for which no local socket can be opened;           *)
(* refusing: endpoints that cannot be reached;                              *)
(* overlap: start() and stop() may fall into the middle of a handler.       *)
ASSUME ConfigsAssumption ==
  \A c \in Configs :
    /\ c.useSSL \in BOOLEAN /\ c.overlap \in BOOLEAN
    /\ c.endpoints \in Nat \ {0}
    /\ c.unopenable \cup c.refusing \subseteq 0..(c.endpoints - 1)
    /\ ~(c.useSSL /\ c.overlap)
ASSUME SocketsAssumption == Sockets \cap {"none", "timer", "app", "main"} = {}
ASSUME TroublesAssumption == MaxTroubles \in Nat

VARIABLES
  config,
  transport,   \* m_transportState
  index,       \* m_nextConnectIndex
  socket,      \* m_socket
  sockets,     \* every socket, also those the connection has let go
  strand,      \* where the handler is that runs on a socket's strand
  status,      \* m_state.status
  holder,      \* who keeps the session mutex while it waits
  timer, app, main,   \* where each thread is
  left         \* troubles still to come

vars == <<config, transport, index, socket, sockets, strand, status, holder,
          timer, app, main, left>>

connection == <<transport, index, socket>>
threads    == <<timer, app, main>>

NoSocket == [phase |-> "closed", bound |-> FALSE, endpoint |-> 0,
             closer |-> "none", writers |-> {}]

Init ==
  /\ config \in Configs
  /\ transport = "Idle" /\ index = 0 /\ socket = "none"
  /\ sockets = [s \in Sockets |-> NoSocket]
  /\ strand = [s \in Sockets |-> "idle"]
  /\ status = "Disconnected" /\ holder = "none"
  /\ timer = "start" /\ app = "idle" /\ main = "running"   \* FIXRuntime::start calls start() itself
  /\ left = MaxTroubles

-----------------------------------------------------------------------------
Bound(s) == sockets[s].bound
Open(s)  == sockets[s].phase = "open" /\ sockets[s].closer = "none"
CanWrite == socket # "none" /\ Open(socket)
Free     == holder = "none"

Advanced(i) == (i + 1) % config.endpoints

Midway(s) == strand[s] \in {"up", "failed", "down", "drop", "closing"}

(* Without overlap nobody is in the middle of a handler when the others     *)
(* look, and no handler runs between their look and what they do then: a    *)
(* restriction of the schedules that are looked at, the code waits for      *)
(* nothing of the kind.                                                    *)
MayInterfere == config.overlap \/ \A s \in Sockets : ~Midway(s)
Undisturbed  == config.overlap \/ timer \notin {"start", "make"}

(* setCallbacks({}); m_socket.reset()                                      *)
LetGo ==
  /\ socket' = "none"
  /\ sockets' = IF socket = "none" THEN sockets ELSE [sockets EXCEPT ![socket].bound = FALSE]

Go(s, place) == strand' = [strand EXCEPT ![s] = place]

(* ISocket::close() from outside the strand, by thread t.                   *)
AskToClose(s, t) == sockets' = [sockets EXCEPT ![s].closer = t]
CanAskToClose == socket # "none" /\ sockets[socket].phase # "closed" /\ sockets[socket].closer = "none"

(* A message of thread t that must be written with the mutex held, and what *)
(* becomes of the status once it is written.                                *)
Wait(t) ==
  /\ CanWrite /\ config.useSSL
  /\ holder' = t
  /\ sockets' = [sockets EXCEPT ![socket].writers = @ \cup {t}]
  /\ UNCHANGED status
WriteAtOnce(new) ==
  /\ ~(CanWrite /\ config.useSSL)
  /\ status' = IF CanWrite THEN new ELSE status
  /\ UNCHANGED <<holder, sockets>>

-----------------------------------------------------------------------------
(* The timer thread: the duties of the session first.                       *)
Rest ==
  /\ timer = "sessions" /\ main = "running" /\ Free
  /\ timer' = "connections"
  /\ UNCHANGED <<config, connection, sockets, strand, status, holder, app, main, left>>

Heartbeat ==
  /\ timer = "sessions" /\ main = "running" /\ Free
  /\ status = "LoggedOn"
  /\ Wait("timer")
  /\ timer' = "writing"
  /\ UNCHANGED <<config, connection, strand, app, main, left>>

(* The mutex is unlocked before close().                                    *)
TestTimeout_bug ==   \* keeps the lock
  /\ timer = "sessions" /\ main = "running" /\ Free
  /\ status = "LoggedOn" /\ left > 0
  /\ status' = "Disconnected"
  /\ holder' = "timer"
  /\ timer' = "close"
  /\ left' = left - 1
  /\ UNCHANGED <<config, connection, sockets, strand, app, main>>
TestTimeout ==
  /\ timer = "sessions" /\ main = "running" /\ Free
  /\ status = "LoggedOn" /\ left > 0
  /\ status' = "Disconnected"
  /\ timer' = "close"
  /\ left' = left - 1
  /\ UNCHANGED <<config, connection, sockets, strand, holder, app, main>>

CloseAfterTimeout_bug ==   \* only sets the state
  /\ timer = "close"
  /\ transport' = IF socket = "none" THEN "Idle" ELSE "Closing"
  /\ timer' = "connections"
  /\ UNCHANGED <<config, index, socket, sockets, strand, status, holder, app, main, left>>
CloseAfterTimeout_hasty ==   \* does not wait for the strand
  /\ timer = "close"
  /\ transport' = IF socket = "none" THEN "Idle" ELSE "Closing"
  /\ IF CanAskToClose THEN AskToClose(socket, "timer") ELSE UNCHANGED sockets
  /\ timer' = "connections"
  /\ UNCHANGED <<config, index, socket, strand, status, holder, app, main, left>>
CloseAfterTimeout ==
  /\ timer = "close"
  /\ transport' = IF socket = "none" THEN "Idle" ELSE "Closing"
  /\ IF CanAskToClose
       THEN AskToClose(socket, "timer") /\ timer' = "closing"
       ELSE UNCHANGED sockets /\ timer' = "connections"
  /\ UNCHANGED <<config, index, socket, strand, status, holder, app, main, left>>

TimerCloses ==
  /\ timer = "closing"
  /\ \A s \in Sockets : sockets[s].closer # "timer"
  /\ timer' = "connections"
  /\ UNCHANGED <<config, connection, sockets, strand, status, holder, app, main, left>>

(* onTimer of the connection reads the status without the mutex.            *)
Tick_bug ==   \* starts unless logged on
  /\ timer = "connections" /\ MayInterfere
  /\ timer' = IF status # "LoggedOn" THEN "start" ELSE "sessions"
  /\ UNCHANGED <<config, connection, sockets, strand, status, holder, app, main, left>>
Tick ==
  /\ timer = "connections" /\ MayInterfere
  /\ timer' = IF status = "Disconnected" THEN "start" ELSE "sessions"
  /\ UNCHANGED <<config, connection, sockets, strand, status, holder, app, main, left>>

(* start(): let the old socket go,                                          *)
Start_bug ==   \* leaves the old socket's callbacks in place
  /\ timer = "start" /\ MayInterfere
  /\ IF transport = "Connecting"
       THEN UNCHANGED <<socket, sockets>> /\ timer' = "sessions"
       ELSE socket' = "none" /\ UNCHANGED sockets /\ timer' = "make"
  /\ UNCHANGED <<config, transport, index, strand, status, holder, app, main, left>>
Start ==
  /\ timer = "start" /\ MayInterfere
  /\ IF transport = "Connecting"
       THEN UNCHANGED <<socket, sockets>> /\ timer' = "sessions"
       ELSE LetGo /\ timer' = "make"
  /\ UNCHANGED <<config, transport, index, strand, status, holder, app, main, left>>

(* and make a new one.  A connect that fails at once calls onError from     *)
(* inside, and then start() advances as well.                               *)
Make ==
  /\ timer = "make" /\ MayInterfere
  /\ timer' = "sessions"
  /\ IF index \in config.unopenable
       THEN /\ transport' = "Idle"
            /\ index' = Advanced(Advanced(index))
            /\ socket' = "none"
            /\ UNCHANGED sockets
       ELSE /\ transport' = "Connecting"
            /\ \E s \in Sockets :
                 /\ s # socket /\ strand[s] = "idle"
                 /\ sockets[s].phase = "closed" /\ sockets[s].closer = "none" /\ sockets[s].writers = {}
                 /\ socket' = s
                 /\ sockets' = [sockets EXCEPT ![s] =
                      [NoSocket EXCEPT !.phase = "connecting", !.bound = TRUE, !.endpoint = index]]
            /\ UNCHANGED index
  /\ UNCHANGED <<config, strand, status, holder, app, main, left>>

-----------------------------------------------------------------------------
(* The strand of socket s.                                                  *)
Connects(s) ==
  /\ strand[s] = "idle" /\ sockets[s].phase = "connecting"
  /\ sockets[s].endpoint \notin config.refusing
  /\ sockets' = [sockets EXCEPT ![s].phase = "open"]
  /\ IF Bound(s) /\ transport = "Connecting"
       THEN transport' = "Connected" /\ index' = 0 /\ Go(s, "up")
       ELSE UNCHANGED <<transport, index, strand>>
  /\ UNCHANGED <<config, socket, status, holder, threads, left>>

(* Session::onConnected, with the Logon it sends.                           *)
Up(s) ==
  /\ strand[s] = "up" /\ Free
  /\ status' = CASE status # "Disconnected" -> status
                 [] CanWrite -> "LogonSent"
                 [] OTHER    -> "Connected"
  /\ Go(s, "idle")
  /\ UNCHANGED <<config, connection, sockets, holder, threads, left>>

(* A failed or timed out connect: onError sets Idle,                        *)
ConnectFails(s) ==
  /\ strand[s] = "idle" /\ sockets[s].phase = "connecting"
  /\ sockets[s].endpoint \in config.refusing
  /\ sockets' = [sockets EXCEPT ![s].phase = "closed"]
  /\ IF Bound(s) /\ transport = "Connecting"
       THEN transport' = "Idle" /\ Go(s, "failed")
       ELSE UNCHANGED <<transport, strand>>
  /\ UNCHANGED <<config, index, socket, status, holder, threads, left>>

(* and then advances and drops the socket that is the connection's by now.  *)
FailEnds_bug(s) ==   \* does not advance
  /\ strand[s] = "failed"
  /\ LetGo
  /\ Go(s, "idle")
  /\ UNCHANGED <<config, transport, index, status, holder, threads, left>>
FailEnds(s) ==
  /\ strand[s] = "failed"
  /\ index' = Advanced(index)
  /\ LetGo
  /\ Go(s, "idle")
  /\ UNCHANGED <<config, transport, status, holder, threads, left>>

(* closeInternal with onClosed, up to its call of the session.              *)
Closes(s, state) ==
  /\ sockets' = [sockets EXCEPT ![s].phase = "closed",
                                ![s].closer = IF Bound(s) THEN @ ELSE "none"]
  /\ IF Bound(s)
       THEN /\ transport' = "Idle"
            /\ index' = IF state = "Connecting" THEN Advanced(index) ELSE 0
            /\ Go(s, "down")
       ELSE Go(s, "idle") /\ UNCHANGED <<transport, index>>

(* The connection breaks.  A socket nobody holds is ended by the peer.      *)
Breaks(s) ==
  /\ strand[s] = "idle" /\ Open(s)
  /\ Bound(s) => left > 0
  /\ left' = IF Bound(s) THEN left - 1 ELSE left
  /\ Closes(s, transport)
  /\ UNCHANGED <<config, socket, status, holder, threads>>

(* The strand comes to the closeInternal that another thread waits for.     *)
CloseTask(s) ==
  /\ strand[s] = "idle" /\ sockets[s].closer # "none"
  /\ IF sockets[s].phase = "open"
       THEN Closes(s, transport)
       ELSE /\ sockets' = [sockets EXCEPT ![s].phase = "closed", ![s].closer = "none"]
            /\ UNCHANGED <<transport, index, strand>>
  /\ UNCHANGED <<config, socket, status, holder, threads, left>>

(* Session::onDisconnected                                                 *)
Down(s) ==
  /\ strand[s] = "down" /\ holder \in {"none", s}
  /\ status' = "Disconnected"
  /\ Go(s, "drop")
  /\ UNCHANGED <<config, connection, sockets, holder, threads, left>>

(* The end of onClosed, and of the close() and the onReceive around it.     *)
Drop(s) ==
  /\ strand[s] = "drop"
  /\ socket' = "none"
  /\ sockets' = [t \in Sockets |->
       [sockets[t] EXCEPT !.bound  = @ /\ t # socket,
                          !.closer = IF t = s THEN "none" ELSE @]]
  /\ Go(s, "idle")
  /\ holder' = IF holder = s THEN "none" ELSE holder
  /\ UNCHANGED <<config, transport, index, status, threads, left>>

(* onRead: the counterparty answers our Logon or Logout, or logs out.       *)
Arrives(s, message) ==
  /\ strand[s] = "idle" /\ Open(s) /\ Bound(s)
  /\ transport = "Connected"
  /\ \/ message = "logon" /\ status = "LogonSent" /\ UNCHANGED left
     \/ message = "logout" /\ status = "LogoutSent" /\ UNCHANGED left
     \/ message = "logout" /\ status = "LoggedOn" /\ left > 0 /\ left' = left - 1
  /\ Go(s, message)
  /\ UNCHANGED <<config, connection, sockets, status, holder, threads>>

ReceiveLogon(s) ==
  /\ strand[s] = "logon" /\ Free
  /\ status' = IF status \in {"LogonSent", "LogoutSent"} THEN "LoggedOn" ELSE status
  /\ Go(s, "idle")
  /\ UNCHANGED <<config, connection, sockets, holder, threads, left>>

(* handleLogoutReceived closes the connection's socket with the mutex held: *)
(* its own on the spot, another one by waiting for that one's strand.       *)
ReceiveLogout(s) ==
  /\ strand[s] = "logout" /\ Free
  /\ CASE status = "Disconnected" ->
            Go(s, "idle") /\ UNCHANGED <<transport, index, sockets, status, holder>>
       [] status # "Disconnected" /\ socket = s /\ Open(s) /\ Bound(s) ->
            Closes(s, "Closing") /\ holder' = s /\ UNCHANGED status
       [] status # "Disconnected" /\ socket # s /\ CanAskToClose ->
            /\ transport' = "Closing"
            /\ AskToClose(socket, s)
            /\ holder' = s
            /\ Go(s, "closing")
            /\ UNCHANGED <<index, status>>
       [] OTHER ->
            /\ transport' = IF socket = "none" THEN "Idle" ELSE "Closing"
            /\ sockets' = IF socket = s /\ Open(s)
                            THEN [sockets EXCEPT ![s].phase = "closed"] ELSE sockets
            /\ status' = "Disconnected"
            /\ Go(s, "idle")
            /\ UNCHANGED <<index, holder>>
  /\ UNCHANGED <<config, socket, threads, left>>

OtherClosed(s) ==
  /\ strand[s] = "closing"
  /\ \A t \in Sockets : sockets[t].closer # s
  /\ status' = "Disconnected"
  /\ holder' = "none"
  /\ Go(s, "idle")
  /\ UNCHANGED <<config, connection, sockets, threads, left>>

(* The strand writes for the thread that waits, which then goes on.         *)
WriteTask(s) ==
  /\ strand[s] = "idle"
  /\ \E t \in sockets[s].writers :
       /\ sockets' = [sockets EXCEPT ![s].writers = @ \ {t}]
       /\ timer' = IF t = "timer" THEN "connections" ELSE timer
       /\ app'   = IF t = "app" THEN "idle" ELSE app
       /\ main'  = IF t = "main" THEN "detach" ELSE main
       /\ status' = IF Open(s) /\ (t = "main" \/ (t = "app" /\ app = "logout"))
                      THEN "LogoutSent" ELSE status
  /\ holder' = "none"
  /\ UNCHANGED <<config, connection, strand, left>>

-----------------------------------------------------------------------------
(* The application.  A send that need not wait leaves all of this alone.    *)
Send ==
  /\ app = "idle" /\ main = "running" /\ Free
  /\ Wait("app")
  /\ app' = "writing"
  /\ UNCHANGED <<config, connection, strand, timer, main, left>>

CanLogout == status \in {"Connected", "LogonSent", "LoggedOn"}

DoLogout ==
  /\ app = "idle" /\ main = "running" /\ Free
  /\ CanLogout /\ left > 0
  /\ left' = left - 1
  /\ \/ WriteAtOnce("LogoutSent") /\ UNCHANGED app
     \/ Wait("app") /\ app' = "logout"
  /\ UNCHANGED <<config, connection, strand, timer, main>>

(* FIXRuntime::stop: join the timer thread and log out,                     *)
Stop ==
  /\ main = "running" /\ timer = "sessions" /\ app = "idle" /\ Free
  /\ \/ CanLogout /\ WriteAtOnce("LogoutSent") /\ main' = "detach"
     \/ CanLogout /\ Wait("main") /\ main' = "writing"
     \/ ~CanLogout /\ main' = "detach" /\ UNCHANGED <<status, holder, sockets>>
  /\ UNCHANGED <<config, connection, strand, timer, app, left>>

(* detach(),                                                                *)
Detach ==
  /\ main = "detach" /\ MayInterfere
  /\ main' = "close"
  /\ sockets' = IF socket = "none" THEN sockets ELSE [sockets EXCEPT ![socket].bound = FALSE]
  /\ UNCHANGED <<config, connection, strand, status, holder, timer, app, left>>

(* close(),                                                                 *)
CloseAll_bug ==   \* does not wait
  /\ main = "close"
  /\ transport' = IF socket = "none" THEN "Idle" ELSE "Closing"
  /\ main' = "clear"
  /\ UNCHANGED <<config, index, socket, sockets, strand, status, holder, timer, app, left>>
CloseAll ==
  /\ main = "close" /\ MayInterfere
  /\ transport' = IF socket = "none" THEN "Idle" ELSE "Closing"
  /\ main' = "clear"
  /\ IF CanAskToClose THEN AskToClose(socket, "main") ELSE UNCHANGED sockets
  /\ UNCHANGED <<config, index, socket, strand, status, holder, timer, app, left>>

(* and destroy the connection.                                              *)
Clear ==
  /\ main = "clear" /\ MayInterfere
  /\ \A s \in Sockets : sockets[s].closer # "main"
  /\ main' = "stopped"
  /\ socket' = "none"
  /\ UNCHANGED <<config, transport, index, sockets, strand, status, holder, timer, app, left>>

-----------------------------------------------------------------------------
Timer == Rest \/ Heartbeat \/ TestTimeout \/ CloseAfterTimeout \/ TimerCloses \/ Tick \/ Start \/ Make

Strand(s) ==
  /\ Undisturbed
  /\ \/ Connects(s) \/ Up(s) \/ ConnectFails(s) \/ FailEnds(s)
     \/ CloseTask(s) \/ Down(s) \/ Drop(s)
     \/ \E message \in {"logon", "logout"} : Arrives(s, message)
     \/ ReceiveLogon(s) \/ ReceiveLogout(s) \/ OtherClosed(s) \/ WriteTask(s)

Next ==
  \/ Timer
  \/ \E s \in Sockets : Strand(s) \/ (Undisturbed /\ Breaks(s))
  \/ Send \/ DoLogout
  \/ Stop \/ Detach \/ CloseAll \/ Clear

Spec == Init /\ [][Next]_vars

(* Threads that can go on do; a strand's next handler runs; an endpoint     *)
(* answers a connect, a Logon and a Logout.  Strong for the strands, which  *)
(* wait while start() runs undisturbed.                                     *)
Fairness ==
  /\ WF_vars(Timer)
  /\ \A s \in Sockets : SF_vars(Strand(s))
  /\ WF_vars(Detach \/ CloseAll \/ Clear)

FairSpec == Spec /\ Fairness

-----------------------------------------------------------------------------
Places == {"idle", "up", "failed", "down", "drop", "closing", "logon", "logout"}

TypeOK ==
  /\ config \in Configs
  /\ transport \in {"Idle", "Connecting", "Connected", "Closing"}
  /\ index \in 0..(config.endpoints - 1)
  /\ socket \in Sockets \cup {"none"}
  /\ sockets \in [Sockets -> [phase    : {"closed", "connecting", "open"},
                             bound    : BOOLEAN,
                             endpoint : Nat,
                             closer   : {"none", "timer", "main"} \cup Sockets,
                             writers  : SUBSET {"timer", "app", "main"}]]
  /\ strand \in [Sockets -> Places]
  /\ status \in {"Disconnected", "Connected", "LogonSent", "LoggedOn", "LogoutSent"}
  /\ holder \in {"none", "timer", "app", "main"} \cup Sockets
  /\ timer \in {"sessions", "writing", "close", "closing", "connections", "start", "make"}
  /\ app \in {"idle", "writing", "logout"}
  /\ main \in {"running", "writing", "detach", "close", "clear", "stopped"}
  /\ left \in 0..MaxTroubles

(* Whatever falls into the middle of what: only the socket in use can call  *)
(* back, so a socket that start() or onClosed has replaced cannot change    *)
(* the transport state again (setCallbacks before every m_socket.reset).    *)
OneSocketCallsBack == \A s \in Sockets : Bound(s) => socket = s

Running == main = "running" /\ \A s \in Sockets : ~Midway(s)

(* A session that is not Disconnected has an open socket whose end it will  *)
(* hear of; otherwise it would wait for ever, as onTimer starts nothing for *)
(* it (start() while the status is Disconnected, onClosed, the early return *)
(* of Session::onConnected).                                                *)
SessionHasSocket ==
  ~config.overlap /\ Running /\ status # "Disconnected" =>
    socket # "none" /\ Bound(socket) /\ sockets[socket].phase = "open"

(* The counterparty never sees two connections of one session: start() lets *)
(* go only of sockets that are closed.                                      *)
OneConnection ==
  ~config.overlap => Cardinality({s \in Sockets : sockets[s].phase # "closed"}) =< 1

(* A frame that waited for the mutex while its connection ended and another *)
(* began is not taken for a frame of the new one.                           *)
NoStaleFrame ==
  ~config.overlap => \A s \in Sockets :
    strand[s] \in {"logon", "logout"} /\ status # "Disconnected" /\ main = "running" => socket = s

NeedsMutex(s) == strand[s] \in {"up", "down", "logon", "logout"}

(* A thread that waits for a strand to close its socket does not hold the   *)
(* mutex that strand is waiting for (Session::onTimer unlocks first).       *)
CloseEnds ==
  ~config.overlap => \A s \in Sockets :
    ~(sockets[s].closer # "none" /\ holder = sockets[s].closer /\ NeedsMutex(s))

(* The same of a thread that waits for a strand to write: the callbacks are *)
(* "non-blocking".                                                          *)
WriteEnds ==
  \A s \in Sockets : ~(holder \in sockets[s].writers /\ NeedsMutex(s))

(* After stop() nothing of the connection is left: no open socket, and no   *)
(* handler that would call into the destroyed connection.                   *)
StoppedQuietly ==
  ~config.overlap /\ main = "stopped" =>
    \A s \in Sockets : sockets[s].phase = "closed" /\ strand[s] = "idle"

SomeoneAnswers == config.refusing # 0..(config.endpoints - 1)

(* Whatever breaks, and although some endpoints cannot be reached, the      *)
(* session is logged on again while the runtime runs: failed connects move  *)
(* on to the next endpoint, onTimer tries again (advanceToNextEndpoint).    *)
Reconnects ==
  ~config.overlap /\ ~config.useSSL /\ SomeoneAnswers =>
    []<>(status = "LoggedOn" \/ main # "running")

=============================================================================
