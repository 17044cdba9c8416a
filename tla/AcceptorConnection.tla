------------------------- MODULE AcceptorConnection -------------------------
(***************************************************************************)
(* TCPAcceptorConnection with its BoostTCPServer and the sockets that were *)
(* accepted, between the io threads, the timer thread of the runtime and   *)
(* the thread that calls FIXRuntime::stop.                                 *)
(*                                                                         *)
(* An io thread runs either the accept handler, which is on no strand, or  *)
(* the handler of one socket's strand, and is taken until that handler     *)
(* ends: also while it waits for the session mutex, or for another strand  *)
(* to close its socket.  There are config.threads of them (start(n) of the *)
(* socket context).  place[t] says how far t has come; a socket stands for *)
(* its strand.                                                             *)
(*                                                                         *)
(* close() has three parts, whoever calls it: the socket in use, the       *)
(* listener, and every socket the server has accepted and still has open.  *)
(* Of the session three fields are kept.                                   *)
(***************************************************************************)
EXTENDS Integers, FiniteSets

CONSTANTS
  Sockets,      \* as many as may be alive at once
  Configs,      \* the io threads and the surroundings to look at
  MaxTroubles   \* connections that break, deadlines missed, logouts, odd Logons

(* replaces: the counterparty may connect again before the end of its last  *)
(* connection was noticed; overlap: close() of the timer thread or of       *)
(* stop() may come while a handler runs.                                    *)
ASSUME ConfigsAssumption ==
  \A c \in Configs :
    c.threads \in Nat \ {0} /\ c.replaces \in BOOLEAN /\ c.overlap \in BOOLEAN
ASSUME SocketsAssumption ==
  IsFiniteSet(Sockets) /\ Sockets \cap {"none", "accept", "timer", "main"} = {}
ASSUME TroublesAssumption == MaxTroubles \in Nat

VARIABLES
  config,
  server,      \* m_server: listening, closed (close() walks its clients) or none
  clients,     \* m_clients of the server
  transport,   \* m_transportState
  socket,      \* m_socket
  sockets,     \* every accepted socket, also those the connection has let go
  place,       \* where each thread is
  session,     \* m_state: status, receivedLogon and sentLogout
  holder,      \* who keeps the session mutex while it waits
  left         \* troubles still to come

vars == <<config, server, clients, transport, socket, sockets, place, session, holder, left>>

connection == <<server, clients, transport, socket>>

Threads == Sockets \cup {"accept", "timer", "main"}
NoSocket == [phase |-> "closed", bound |-> FALSE, greeted |-> FALSE, closer |-> "none"]
Fresh == [status |-> "Disconnected", receivedLogon |-> FALSE, sentLogout |-> FALSE]

Init ==
  /\ config \in Configs
  /\ server = "listening" /\ clients = {}
  /\ transport = "Idle" /\ socket = "none"
  /\ sockets = [s \in Sockets |-> NoSocket]
  /\ place = [t \in Threads |-> CASE t = "timer" -> "sessions"
                                  [] t = "main"  -> "running"
                                  [] OTHER       -> "idle"]
  /\ session = Fresh /\ holder = "none"
  /\ left = MaxTroubles

-----------------------------------------------------------------------------
Bound(s) == sockets[s].bound
Open(s)  == sockets[s].phase = "open" /\ sockets[s].closer = "none"   \* isOpen()
CanWrite == socket # "none" /\ Open(socket)
Free     == holder = "none"
Closing  == session.status \in {"LogoutSent", "Closing"}
Running  == place["main"] = "running"
Trouble  == left > 0 /\ left' = left - 1

Handlers == Sockets \cup {"accept"}
Busy(t) == place[t] \notin {"idle", "off"}
FreeThread == Cardinality({t \in Handlers : Busy(t)}) < config.threads
CanRun(s) == place[s] = "idle" /\ FreeThread

(* Without overlap close() and detach() of the other threads do not fall    *)
(* into a handler, nor a handler into a close: a restriction of the         *)
(* schedules that are looked at, the code waits for nothing of the kind.    *)
Outside == {"timer", "main"}
InClose(t) == place[t] \in {"closing", "clients"}
Undisturbed == config.overlap \/ \A t \in Outside : ~InClose(t)
MayInterfere == config.overlap \/ \A t \in Handlers : ~Busy(t)

(* sendLogout                                                               *)
Logout ==
  session' = IF CanWrite /\ ~Closing /\ session.status # "Disconnected"
               THEN [session EXCEPT !.status = "LogoutSent", !.sentLogout = TRUE] ELSE session

Go(t, where) == place' = [place EXCEPT ![t] = where]

-----------------------------------------------------------------------------
(* The accept handler: forget clients that are closed, make one more, and   *)
(* onAccept, which lets the socket in use go and puts the new one into its  *)
(* place.  After detach() the server calls nobody.                          *)
Detached == place["main"] \in {"close", "closing", "clients", "stopped"}

Accept_bug(s) ==   \* leaves the callbacks of the socket it replaces
  /\ place["accept"] = "idle" /\ FreeThread /\ Undisturbed
  /\ server = "listening"
  /\ config.replaces \/ \A c \in Sockets : sockets[c].phase # "open"
  /\ s # socket /\ sockets[s].phase = "closed" /\ place[s] = "idle"
  /\ clients' = {c \in clients : Open(c)} \cup {s}
  /\ socket' = s /\ transport' = "Connecting"
  /\ sockets' = [sockets EXCEPT ![s] = [NoSocket EXCEPT !.phase = "made", !.bound = TRUE]]
  /\ Go("accept", "made")
  /\ UNCHANGED <<config, server, session, holder, left>>
Accept(s) ==
  /\ place["accept"] = "idle" /\ FreeThread /\ Undisturbed
  /\ server = "listening" \/ config.overlap   \* it may have been accepted before the listener was closed
  /\ config.replaces \/ \A c \in Sockets : sockets[c].phase # "open"
  /\ s # socket /\ sockets[s].phase = "closed" /\ place[s] = "idle"
  /\ clients' = {c \in clients : Open(c)} \cup {s}
  /\ IF Detached
       THEN /\ sockets' = [sockets EXCEPT ![s] = [NoSocket EXCEPT !.phase = "made"]]
            /\ UNCHANGED <<transport, socket>>
       ELSE /\ socket' = s /\ transport' = "Connecting"
            /\ sockets' = [c \in Sockets |->
                 CASE c = s      -> [NoSocket EXCEPT !.phase = "made", !.bound = TRUE]
                   [] c = socket -> [sockets[c] EXCEPT !.bound = FALSE]
                   [] OTHER      -> sockets[c]]
  /\ Go("accept", "made")
  /\ UNCHANGED <<config, server, session, holder, left>>

(* startAccept() again; the last to hold a closed server destroys it, and   *)
(* with it closes what it had accepted since.                               *)
NextAccept ==
  CASE server = "listening" -> "idle"
    [] server = "closed"    -> "off"
    [] server = "none"      -> "clients"

(* attach(): the socket is open and reads; onConnected.                     *)
Attach_bug(s) ==   \* expects the state onAccept has just left
  /\ place["accept"] = "made" /\ sockets[s].phase = "made"
  /\ sockets' = [sockets EXCEPT ![s].phase = "open"]
  /\ IF Bound(s) /\ transport = "Idle"
       THEN transport' = "Connected" /\ Go("accept", "up")
       ELSE UNCHANGED transport /\ Go("accept", NextAccept)
  /\ UNCHANGED <<config, server, clients, socket, session, holder, left>>
Attach(s) ==
  /\ place["accept"] = "made" /\ sockets[s].phase = "made"
  /\ sockets' = [sockets EXCEPT ![s].phase = "open"]
  /\ IF Bound(s) /\ transport = "Connecting"
       THEN transport' = "Connected" /\ Go("accept", "up")
       ELSE UNCHANGED transport /\ Go("accept", NextAccept)
  /\ UNCHANGED <<config, server, clients, socket, session, holder, left>>

(* Session::onConnected with the Logon it sends, from the accept handler.   *)
Up ==
  /\ place["accept"] = "up" /\ Free
  /\ session' = IF session.status # "Disconnected" THEN session
                ELSE [session EXCEPT !.status = IF CanWrite THEN "LogonSent" ELSE "Connected"]
  /\ Go("accept", NextAccept)
  /\ UNCHANGED <<config, connection, sockets, holder, left>>

(* An accept that fails is not followed by another one.                     *)
AcceptFails ==
  /\ place["accept"] = "idle" /\ FreeThread
  /\ IF server = "listening" THEN Trouble ELSE UNCHANGED left
  /\ Go("accept", "off")
  /\ UNCHANGED <<config, connection, sockets, session, holder>>

-----------------------------------------------------------------------------
(* The strand of socket s.  onRead: the counterparty's Logon, of which more *)
(* than one on a connection is odd, and its Logout.  Whatever comes while   *)
(* the transport is not Connected is dropped.                               *)
Arrives(s, message) ==
  /\ CanRun(s) /\ sockets[s].phase = "open" /\ Bound(s)
  /\ transport = "Connected"
  /\ IF (message = "logon" /\ ~sockets[s].greeted) \/ (message = "logout" /\ session.status = "LogoutSent")
       THEN UNCHANGED left ELSE Trouble
  /\ sockets' = [sockets EXCEPT ![s].greeted = @ \/ message = "logon"]
  /\ Go(s, message)
  /\ UNCHANGED <<config, connection, session, holder>>

Ignored(s) ==
  /\ place[s] \in {"logon", "logout"} /\ Free
  /\ session.status = "Disconnected"
  /\ Go(s, "idle")
  /\ UNCHANGED <<config, connection, sockets, session, holder, left>>

(* handleLogonReceived, with the Logon that answers it if onConnected could *)
(* not send one.                                                            *)
IsDuplicate == session.receivedLogon \/ session.status = "LoggedOn"

ReceiveLogon(s) ==
  /\ place[s] = "logon" /\ Free
  /\ session.status # "Disconnected" /\ ~IsDuplicate
  /\ session' = [session EXCEPT !.receivedLogon = TRUE,
                                !.status = IF @ = "Connected" /\ ~CanWrite THEN @ ELSE "LoggedOn"]
  /\ Go(s, "idle")
  /\ UNCHANGED <<config, connection, sockets, holder, left>>

(* A second Logon: sendLogout, then close() with the mutex held.  The       *)
(* session's own socket is closed on the spot, with onClosed and            *)
(* onDisconnected; another one by waiting for its strand.                   *)
OnOwnStrand_bug(s) == FALSE   \* posts the close and waits for itself
OnOwnStrand(s) == socket = s /\ Open(s)

RefuseDuplicate(s) ==
  /\ place[s] = "logon" /\ Free
  /\ session.status # "Disconnected" /\ IsDuplicate
  /\ IF Closing \/ CanWrite
       THEN /\ IF OnOwnStrand(s)
                 THEN /\ sockets' = [sockets EXCEPT ![s] = NoSocket]
                      /\ IF Bound(s)
                           THEN transport' = "Idle" /\ socket' = "none" /\ session' = Fresh
                           ELSE transport' = "Closing" /\ Logout /\ UNCHANGED socket
                 ELSE /\ transport' = "Closing"
                      /\ sockets' = IF CanWrite THEN [sockets EXCEPT ![socket].closer = s] ELSE sockets
                      /\ Logout
                      /\ UNCHANGED socket
            /\ holder' = s
            /\ Go(s, "closing")
       ELSE Go(s, "idle") /\ UNCHANGED <<transport, socket, sockets, session, holder>>
  /\ UNCHANGED <<config, server, clients, left>>

(* handleLogoutReceived: an acceptor waits for the counterparty to close.   *)
ReceiveLogout(s) ==
  /\ place[s] = "logout" /\ Free
  /\ session.status # "Disconnected"
  /\ session' = CASE session.sentLogout \/ Closing -> [session EXCEPT !.status = "Closing"]
                  [] ~(session.sentLogout \/ Closing) /\ CanWrite ->
                       [session EXCEPT !.status = "Closing", !.sentLogout = TRUE]
                  [] OTHER -> session
  /\ Go(s, "idle")
  /\ UNCHANGED <<config, connection, sockets, holder, left>>

(* closeInternal: on a socket with callbacks onClosed is about to run.      *)
Closes(s) ==
  /\ sockets' = [sockets EXCEPT ![s] = [NoSocket EXCEPT !.closer = IF Bound(s) THEN sockets[s].closer ELSE "none"]]
  /\ IF Bound(s) THEN Go(s, "closed") ELSE UNCHANGED place
  /\ UNCHANGED <<config, connection, session, holder>>

(* The counterparty closes, which ends a logout, or the connection breaks.  *)
Breaks(s) ==
  /\ CanRun(s) /\ Open(s)
  /\ IF Bound(s) /\ session.status # "Closing" THEN Trouble ELSE UNCHANGED left
  /\ Closes(s)

(* The strand comes to the closeInternal another thread waits for.          *)
CloseTask(s) ==
  /\ CanRun(s) /\ sockets[s].closer # "none"
  /\ Closes(s)
  /\ UNCHANGED left

(* onClosed up to its call of the session: it drops the socket that is the  *)
(* connection's by now.                                                     *)
OnClosed_bug(s) ==   \* does not tell the session
  /\ place[s] = "closed"
  /\ transport' = "Idle" /\ socket' = "none"
  /\ sockets' = [sockets EXCEPT ![s].closer = "none"]
  /\ Go(s, "idle")
  /\ UNCHANGED <<config, server, clients, session, holder, left>>
OnClosed(s) ==
  /\ place[s] = "closed"
  /\ transport' = "Idle" /\ socket' = "none"
  /\ Go(s, "down")
  /\ UNCHANGED <<config, server, clients, sockets, session, holder, left>>

(* Session::onDisconnected                                                  *)
Down(s) ==
  /\ place[s] = "down" /\ Free
  /\ session' = Fresh
  /\ sockets' = [sockets EXCEPT ![s].closer = "none"]
  /\ Go(s, "idle")
  /\ UNCHANGED <<config, connection, holder, left>>

-----------------------------------------------------------------------------
(* close() of thread t: the socket first,                                   *)
StartClose(t) ==
  /\ place[t] = "close" /\ MayInterfere
  /\ transport' = "Closing"
  /\ sockets' = IF CanWrite THEN [sockets EXCEPT ![socket].closer = t] ELSE sockets
  /\ Go(t, "closing")
  /\ UNCHANGED <<config, server, clients, socket, session, holder, left>>

Waits(t) == \E s \in Sockets : sockets[s].closer = t

(* then the listener,                                                       *)
CloseServer(t) ==
  /\ place[t] = "closing" /\ ~Waits(t)
  /\ server' = IF server = "none" THEN "none" ELSE "closed"
  /\ Go(t, "clients")
  /\ UNCHANGED <<config, clients, transport, socket, sockets, session, holder, left>>

(* then each client that is still open, its own strand's on the spot,       *)
Walks(t) == place[t] = "clients" /\ (server = "closed" \/ t = "accept")

CloseClient(t, c) ==
  /\ Walks(t) /\ ~Waits(t)
  /\ c \in clients /\ Open(c)
  /\ sockets' = [sockets EXCEPT ![c] = IF c = t THEN NoSocket ELSE [@ EXCEPT !.closer = t]]
  /\ IF c = t /\ Bound(c)
       THEN transport' = "Idle" /\ socket' = "none" /\ session' = Fresh
       ELSE UNCHANGED <<transport, socket, session>>
  /\ UNCHANGED <<config, server, clients, place, holder, left>>

(* and back to the caller.                                                  *)
CallerOf(t) == CASE t = "timer"  -> "sessions"
                 [] t = "main"   -> "stopped"
                 [] t = "accept" -> "off"
                 [] OTHER        -> "idle"

CloseDone_bug(t) ==   \* empties the list only
  /\ place[t] = "clients" /\ ~Waits(t)
  /\ server' = "none" /\ clients' = {}
  /\ transport' = IF socket = "none" /\ t # "accept" THEN "Idle" ELSE transport
  /\ holder' = IF holder = t THEN "none" ELSE holder
  /\ socket' = IF t = "main" THEN "none" ELSE socket
  /\ Go(t, CallerOf(t))
  /\ UNCHANGED <<config, sockets, session, left>>
CloseDone(t) ==
  /\ place[t] = "clients" /\ ~Waits(t)
  /\ Walks(t) => \A c \in clients : ~Open(c)
  /\ server' = "none" /\ clients' = IF Walks(t) THEN {} ELSE clients
  /\ transport' = IF socket = "none" /\ t # "accept" THEN "Idle" ELSE transport
  /\ holder' = IF holder = t THEN "none" ELSE holder
  /\ socket' = IF t = "main" THEN "none" ELSE socket   \* m_connections.clear()
  /\ Go(t, CallerOf(t))
  /\ UNCHANGED <<config, sockets, session, left>>

Close(t) == CloseServer(t) \/ CloseDone(t) \/ \E c \in Sockets : CloseClient(t, c)

-----------------------------------------------------------------------------
(* Session::onTimer: a test request stays unanswered.  The mutex is         *)
(* unlocked before close().                                                 *)
TestTimeout_bug ==   \* keeps the lock
  /\ place["timer"] = "sessions" /\ Running /\ Free
  /\ session.status = "LoggedOn"
  /\ Trouble
  /\ session' = [session EXCEPT !.status = "Disconnected"]
  /\ holder' = "timer"
  /\ Go("timer", "close")
  /\ UNCHANGED <<config, connection, sockets>>
TestTimeout ==
  /\ place["timer"] = "sessions" /\ Running /\ Free
  /\ session.status = "LoggedOn"
  /\ Trouble
  /\ session' = [session EXCEPT !.status = "Disconnected"]
  /\ Go("timer", "close")
  /\ UNCHANGED <<config, connection, sockets, holder>>

(* doLogout of the application, or of onTimer at the end of the schedule.    *)
DoLogout ==
  /\ Running /\ Free /\ session.status # "Disconnected"
  /\ Trouble
  /\ Logout
  /\ UNCHANGED <<config, connection, sockets, place, holder>>

(* FIXRuntime::stop: join the timer thread and log out, then detach(): it   *)
(* takes the callbacks of the socket in use and then those of the server,   *)
(* which may hand over one more socket between the two.                     *)
Stop ==
  /\ Running /\ place["timer"] = "sessions" /\ Free
  /\ Logout
  /\ Go("main", "detach")
  /\ UNCHANGED <<config, connection, sockets, holder, left>>

Detach ==
  /\ MayInterfere
  /\ \/ /\ place["main"] = "detach"
        /\ sockets' = IF socket = "none" THEN sockets ELSE [sockets EXCEPT ![socket].bound = FALSE]
        /\ Go("main", "detaching")
     \/ /\ place["main"] = "detaching"
        /\ Go("main", "close") /\ UNCHANGED sockets
  /\ UNCHANGED <<config, connection, session, holder, left>>

-----------------------------------------------------------------------------
Accepting == Up \/ Close("accept") \/ \E s \in Sockets : Attach(s)

Strand(s) ==
  \/ Ignored(s) \/ ReceiveLogon(s) \/ RefuseDuplicate(s) \/ ReceiveLogout(s)
  \/ CloseTask(s) \/ OnClosed(s) \/ Down(s) \/ Close(s)

Timer == StartClose("timer") \/ Close("timer")
Main == Detach \/ StartClose("main") \/ Close("main")

Next ==
  \/ Accepting \/ AcceptFails
  \/ \E s \in Sockets :
       Accept(s) \/ Strand(s) \/ Breaks(s) \/ \E message \in {"logon", "logout"} : Arrives(s, message)
  \/ Timer \/ TestTimeout
  \/ DoLogout
  \/ Stop \/ Main

Spec == Init /\ [][Next]_vars

(* Threads that can go on do, and no strand that is ready again and again   *)
(* is starved.  The counterparty connects again, sends its Logon, answers a *)
(* Logout, and closes after one.                                            *)
Answers(s) == Bound(s) /\ UNCHANGED left /\ (Breaks(s) \/ \E message \in {"logon", "logout"} : Arrives(s, message))

Fairness ==
  /\ WF_vars(Accepting) /\ WF_vars(Timer) /\ WF_vars(Main)
  /\ SF_vars(\E s \in Sockets : Accept(s))
  /\ \A s \in Sockets : SF_vars(Strand(s)) /\ SF_vars(Answers(s))

FairSpec == Spec /\ Fairness

-----------------------------------------------------------------------------
Places == {"idle", "off", "made", "up", "logon", "logout", "closed", "down", "sessions", "running",
           "detach", "detaching", "close", "closing", "clients", "stopped"}

TypeOK ==
  /\ config \in Configs
  /\ server \in {"listening", "closed", "none"} /\ clients \subseteq Sockets
  /\ transport \in {"Idle", "Connecting", "Connected", "Closing"}
  /\ socket \in Sockets \cup {"none"}
  /\ sockets \in [Sockets -> [phase   : {"closed", "made", "open"},
                             bound   : BOOLEAN,
                             greeted : BOOLEAN,
                             closer  : {"none"} \cup Threads]]
  /\ place \in [Threads -> Places]
  /\ session \in [status        : {"Disconnected", "Connected", "LogonSent", "LoggedOn", "LogoutSent", "Closing"},
                  receivedLogon : BOOLEAN,
                  sentLogout    : BOOLEAN]
  /\ holder \in {"none"} \cup Threads
  /\ left \in 0..MaxTroubles

InTurn == config.threads = 1   \* handlers run one after the other
Alive  == place["main"] # "stopped"   \* m_connections is not cleared yet
Alone  == InTurn /\ ~config.overlap
Quiet  == \A t \in Threads : ~InClose(t) /\ (t \in Handlers => ~Busy(t))

(* As long as the connection lives only the socket in use, of those that    *)
(* were accepted, can still call back, however often it is replaced and     *)
(* whoever closes meanwhile: one that was let go cannot take the transport  *)
(* state or m_socket from its successor (onAccept, onClosed).  With two io  *)
(* threads an onClosed that is already running does just that.              *)
OneSocketCallsBack == InTurn /\ Alive => \A s \in Sockets : Bound(s) => socket = s

(* A session that is not Disconnected has a socket whose end it will hear   *)
(* of.  The accept handler, not the strand, calls Session::onConnected: the *)
(* end of the connection must not overtake it.                              *)
SessionHasSocket ==
  InTurn /\ Running /\ Quiet /\ session.status # "Disconnected" =>
    socket # "none" /\ Bound(socket) /\ Open(socket)

(* A close() leaves no connection behind, not even one the connection had   *)
(* let go of: only the server's list still knows those                      *)
(* (BoostTCPServer::close).                                                 *)
NothingLeftOpen ==
  Alone /\ Quiet /\ server # "listening" => \A s \in Sockets : sockets[s].phase = "closed"

(* No handler ever waits for a strand: callbacks are "non-blocking".        *)
HandlersNonBlocking == \A t \in Handlers : ~Waits(t)

(* It does not as long as no connection replaces one that is still open.    *)
NoHandlerWaits == Alone /\ ~config.replaces => HandlersNonBlocking

(* Whoever closes comes back from it: a test timeout, a duplicate Logon and *)
(* stop() end (Session::onTimer unlocks before it closes).                  *)
CloseReturns == Alone /\ ~config.replaces => []<>(\A t \in Threads : ~InClose(t))

(* A counterparty that comes back after its connections were lost is logged *)
(* on again, as long as the acceptor listens at all.                        *)
Served ==
  InTurn /\ ~config.replaces =>
    []<>(session.status = "LoggedOn" \/ server # "listening" \/ place["accept"] = "off" \/ ~Running)

=============================================================================
