--------------------- MODULE InitiatorConnection_proofs ---------------------
(***************************************************************************)
(* Proofs about the initiator's connection: for any number of sockets and  *)
(* endpoints, and however often connections break, only the socket in use  *)
(* calls back; and as long as start() and stop() do not fall into the      *)
(* middle of a handler there is one connection, the session knows of it,   *)
(* no frame outlives it, nobody waits for ever to close it, and stop()     *)
(* leaves nothing behind.                                                  *)
(***************************************************************************)
EXTENDS InitiatorConnection, FiniteSetTheorems, TLAPS

Waiters == {"timer", "app", "main"}

(* Which thread may be where while another one is somewhere.                *)
Threads ==
  /\ main # "running" => timer = "sessions"
  /\ timer = "make" => socket = "none"
  /\ holder = "timer" => timer = "writing"
  /\ holder = "main" => main = "writing"
  /\ holder = "app" => app # "idle"
  /\ holder = "main" \/ (holder = "app" /\ app = "logout") => status # "Disconnected"
  /\ main \in {"close", "clear", "stopped"} => \A s \in Sockets : ~Bound(s)

Writers ==
  /\ \A s \in Sockets : \A t \in sockets[s].writers : holder = t
  /\ \A s, t \in Sockets : sockets[s].writers \cap sockets[t].writers # {} => s = t

Closers ==
  \A s \in Sockets :
    /\ sockets[s].closer = "timer" => timer = "closing"
    /\ sockets[s].closer = "main" => main = "clear"
    /\ strand[s] = "closing" => holder = s

(* What a handler in progress knows of its socket.                          *)
Handlers ==
  \A s \in Sockets :
    /\ Midway(s) => socket = s /\ Bound(s) /\ strand[s] # "closing"
    /\ strand[s] \in {"up", "logon", "logout"} => sockets[s].phase = "open"
    /\ strand[s] \in {"failed", "down", "drop"} => sockets[s].phase = "closed"
    /\ strand[s] \in {"up", "failed", "drop"} => status = "Disconnected"

(* A socket that is not closed is the connection's.  While it connects the  *)
(* session is disconnected, and a disconnected session's open socket is    *)
(* about to be reported or to be closed.                                   *)
Live ==
  \A s \in Sockets :
    /\ sockets[s].phase # "closed" => socket = s
    /\ sockets[s].phase = "connecting" =>
         /\ status = "Disconnected"
         /\ timer \notin {"close", "closing"}
         /\ main = "running" => Bound(s) /\ transport = "Connecting"
    /\ sockets[s].phase = "open" /\ status = "Disconnected" /\ main = "running" =>
         \/ strand[s] = "up" \/ timer = "close"
         \/ timer = "closing" /\ sockets[s].closer = "timer"
    /\ sockets[s].closer \notin Sockets
    /\ main = "clear" /\ sockets[s].phase # "closed" => sockets[s].closer = "main"
    /\ main = "stopped" => sockets[s].phase = "closed" /\ strand[s] = "idle"

(* The session's end of it.                                                 *)
Known ==
  /\ status # "Disconnected" /\ main = "running" =>
       /\ socket # "none" /\ Bound(socket)
       /\ sockets[socket].phase = "open" \/ strand[socket] = "down"
  /\ timer \in {"start", "make"} => status = "Disconnected"

Calm == Handlers /\ Live /\ Known

(* The inductive invariant.                                                 *)
Common == TypeOK /\ OneSocketCallsBack /\ Threads /\ Writers /\ Closers
Inv    == Common /\ (~config.overlap => Calm)

-----------------------------------------------------------------------------
(* The steps.  A thread's writing and a reset of the socket are met in      *)
(* several of them.                                                        *)

Socket == [phase    : {"closed", "connecting", "open"},
           bound    : BOOLEAN,
           endpoint : Nat,
           closer   : {"none", "timer", "main"} \cup Sockets,
           writers  : SUBSET {"timer", "app", "main"}]

Statuses == {"Disconnected", "Connected", "LogonSent", "LoggedOn", "LogoutSent"}

LEMMA AdvancedLemma ==
  ASSUME TypeOK, NEW i \in 0..(config.endpoints - 1)
  PROVE  Advanced(i) \in 0..(config.endpoints - 1)
<1>1. config.endpoints \in Nat \ {0} /\ i + 1 \in Nat
  BY ConfigsAssumption DEF TypeOK
<1>2. \A n \in Nat \ {0} : \A m \in Nat : m % n \in 0..(n - 1)
  OBVIOUS
<1> QED BY <1>1, <1>2 DEF Advanced

LEMMA LetGoType ==
  ASSUME TypeOK, LetGo
  PROVE  sockets' \in [Sockets -> Socket] /\ socket' = "none"
BY ZenonT(60) DEF TypeOK, LetGo, Socket

LEMMA ClosesType ==
  ASSUME TypeOK, NEW s \in Sockets, NEW state, Closes(s, state)
  PROVE  /\ sockets' \in [Sockets -> Socket]
         /\ strand' \in [Sockets -> Places]
         /\ transport' \in {"Idle", "Connecting", "Connected", "Closing"}
         /\ index' \in 0..(config.endpoints - 1)
<1>1. sockets' \in [Sockets -> Socket]
  <2> DEFINE c == IF Bound(s) THEN sockets[s].closer ELSE "none"
  <2>1. c \in {"none", "timer", "main"} \cup Sockets /\ sockets \in [Sockets -> Socket]
    BY DEF TypeOK, Socket
  <2>2. sockets' = [sockets EXCEPT ![s].phase = "closed", ![s].closer = c]
    BY DEF Closes
  <2>3. \A r \in Socket : [r EXCEPT !.phase = "closed", !.closer = c] \in Socket
    BY <2>1 DEF Socket
  <2> HIDE DEF c, Socket
  <2> QED BY <2>1, <2>2, <2>3
<1>2. strand' \in [Sockets -> Places]
  BY DEF TypeOK, Closes, Go, Places
<1>3. index' \in 0..(config.endpoints - 1)
  BY AdvancedLemma, ConfigsAssumption DEF TypeOK, Closes
<1> QED BY <1>1, <1>2, <1>3 DEF Closes, TypeOK

(* A socket that is made for the connection was not in use.                 *)
Fresh(s) ==
  /\ strand[s] = "idle" /\ sockets[s].phase = "closed"
  /\ sockets[s].closer = "none" /\ sockets[s].writers = {}
  /\ sockets'[s].phase = "connecting" /\ sockets'[s].bound
  /\ sockets'[s].closer = "none" /\ sockets'[s].writers = {}
  /\ \A t \in Sockets : t # s => sockets'[t] = sockets[t]

LEMMA MakeLemma ==
  ASSUME TypeOK, Make
  PROVE  \/ socket' = "none" /\ sockets' = sockets
         \/ socket' \in Sockets /\ Fresh(socket') /\ transport' = "Connecting"
<1>1. CASE index \in config.unopenable
  BY <1>1 DEF Make
<1>2. CASE index \notin config.unopenable
  <2>1. PICK s \in Sockets :
          /\ strand[s] = "idle"
          /\ sockets[s].phase = "closed" /\ sockets[s].closer = "none" /\ sockets[s].writers = {}
          /\ socket' = s
          /\ sockets' = [sockets EXCEPT ![s] =
               [NoSocket EXCEPT !.phase = "connecting", !.bound = TRUE, !.endpoint = index]]
    BY <1>2 DEF Make
  <2> DEFINE new == [NoSocket EXCEPT !.phase = "connecting", !.bound = TRUE, !.endpoint = index]
  <2>2. new.phase = "connecting" /\ new.bound /\ new.closer = "none" /\ new.writers = {}
    BY DEF NoSocket
  <2> HIDE DEF new
  <2>3. sockets' = [sockets EXCEPT ![s] = new] /\ sockets \in [Sockets -> Socket]
    BY <2>1 DEF new, TypeOK, Socket
  <2>4. sockets'[s] = new /\ \A t \in Sockets : t # s => sockets'[t] = sockets[t]
    BY <2>3
  <2> QED BY <1>2, <2>1, <2>2, <2>4 DEF Fresh, Make
<1> QED BY <1>1, <1>2

(* What dropping the connection's socket changes.                           *)
LEMMA DropLemma ==
  ASSUME TypeOK, NEW s \in Sockets, Drop(s), NEW t \in Sockets
  PROVE  /\ sockets'[t].phase = sockets[t].phase /\ sockets'[t].writers = sockets[t].writers
         /\ sockets'[t].bound => sockets[t].bound /\ t # socket
         /\ sockets'[t].closer = IF t = s THEN "none" ELSE sockets[t].closer
<1> DEFINE b == sockets[t].bound /\ t # socket
           c == IF t = s THEN "none" ELSE sockets[t].closer
<1>1. sockets'[t] = [sockets[t] EXCEPT !.bound = b, !.closer = c]
  BY DEF Drop
<1>2. sockets[t] \in Socket
  BY DEF TypeOK, Socket
<1>3. b => sockets[t].bound /\ t # socket
  OBVIOUS
<1> HIDE DEF b
<1>4. sockets'[t].bound = b
  BY <1>1, <1>2 DEF Socket
<1> HIDE DEF c
<1>5. sockets'[t].phase = sockets[t].phase /\ sockets'[t].writers = sockets[t].writers /\ sockets'[t].closer = c
  BY <1>1, <1>2 DEF Socket
<1> QED BY <1>3, <1>4, <1>5 DEF c

LEMMA TypeStep ==
  ASSUME TypeOK, Next
  PROVE  TypeOK'
<1> USE DEF TypeOK, connection, threads
<1>1. CASE Rest
  BY <1>1 DEF Rest
<1>2. CASE Heartbeat
  BY ZenonT(60), <1>2 DEF Heartbeat, Wait
<1>3. CASE TestTimeout
  BY <1>3, TroublesAssumption DEF TestTimeout
<1>4. CASE CloseAfterTimeout
  BY <1>4 DEF CloseAfterTimeout, AskToClose
<1>5. CASE TimerCloses
  BY <1>5 DEF TimerCloses
<1>6. CASE Tick
  BY <1>6 DEF Tick
<1>7. CASE Start
  <2>1. sockets' \in [Sockets -> Socket] /\ socket' \in Sockets \cup {"none"}
    BY <1>7, LetGoType DEF Start, Socket
  <2> QED BY <1>7, <2>1 DEF Start, Socket
<1>8. CASE Make
  <2>1. CASE index \in config.unopenable
    <3>1. index' \in 0..(config.endpoints - 1)
      BY <1>8, <2>1, AdvancedLemma DEF Make
    <3> QED BY <1>8, <2>1, <3>1 DEF Make
  <2>2. CASE index \notin config.unopenable
    <3>1. index \in Nat
      BY ConfigsAssumption
    <3>2. sockets' \in [Sockets -> Socket] /\ socket' \in Sockets
      <4>1. [NoSocket EXCEPT !.phase = "connecting", !.bound = TRUE, !.endpoint = index] \in Socket
        BY <3>1 DEF NoSocket, Socket
      <4>2. sockets \in [Sockets -> Socket]
        BY DEF Socket
      <4> HIDE DEF NoSocket, Socket
      <4> QED BY <1>8, <2>2, <4>1, <4>2 DEF Make
    <3> QED BY <1>8, <2>2, <3>2 DEF Make, Socket
  <2> QED BY <2>1, <2>2
<1>9. ASSUME NEW s \in Sockets, Connects(s) PROVE TypeOK'
  <2>1. sockets' \in [Sockets -> Socket]
    BY <1>9 DEF Connects, Socket
  <2>2. index' \in 0..(config.endpoints - 1)
    BY <1>9, ConfigsAssumption DEF Connects
  <2>3. strand' \in [Sockets -> Places] /\ transport' \in {"Idle", "Connecting", "Connected", "Closing"}
    BY <1>9 DEF Connects, Go, Places
  <2> QED BY <1>9, <2>1, <2>2, <2>3 DEF Connects, Socket
<1>10. ASSUME NEW s \in Sockets, Up(s) PROVE TypeOK'
  BY <1>10 DEF Up, Go, Places
<1>11. ASSUME NEW s \in Sockets, ConnectFails(s) PROVE TypeOK'
  BY <1>11 DEF ConnectFails, Go, Places
<1>12. ASSUME NEW s \in Sockets, FailEnds(s) PROVE TypeOK'
  <2>1. sockets' \in [Sockets -> Socket] /\ socket' = "none" /\ index' \in 0..(config.endpoints - 1)
    BY <1>12, LetGoType, AdvancedLemma DEF FailEnds
  <2>2. strand' \in [Sockets -> Places]
    BY <1>12 DEF FailEnds, Go, Places
  <2> QED BY <1>12, <2>1, <2>2 DEF FailEnds, Socket
<1>13. ASSUME NEW s \in Sockets, Breaks(s) PROVE TypeOK'
  <2>1. left' \in 0..MaxTroubles
    BY <1>13, TroublesAssumption DEF Breaks
  <2> QED BY <1>13, <2>1, ClosesType DEF Breaks, Socket
<1>14. ASSUME NEW s \in Sockets, CloseTask(s) PROVE TypeOK'
  <2>1. CASE sockets[s].phase = "open"
    BY <1>14, <2>1, ClosesType DEF CloseTask, Socket
  <2>2. CASE sockets[s].phase # "open"
    BY <1>14, <2>2 DEF CloseTask
  <2> QED BY <2>1, <2>2
<1>15. ASSUME NEW s \in Sockets, Down(s) PROVE TypeOK'
  BY <1>15 DEF Down, Go, Places
<1>16. ASSUME NEW s \in Sockets, Drop(s) PROVE TypeOK'
  <2>1. sockets' \in [Sockets -> Socket]
    <3>1. \A t \in Sockets : [sockets[t] EXCEPT !.bound = @ /\ t # socket, !.closer = IF t = s THEN "none" ELSE @] \in Socket
      <4> TAKE t \in Sockets
      <4>1. sockets[t] \in Socket
        BY DEF Socket
      <4>2. (sockets[t].bound /\ t # socket) \in BOOLEAN
        OBVIOUS
      <4>3. (IF t = s THEN "none" ELSE sockets[t].closer) \in {"none", "timer", "main"} \cup Sockets
        BY <4>1 DEF Socket
      <4> QED BY <4>1, <4>2, <4>3 DEF Socket
    <3>2. sockets' = [t \in Sockets |-> [sockets[t] EXCEPT !.bound = @ /\ t # socket, !.closer = IF t = s THEN "none" ELSE @]]
      BY <1>16 DEF Drop
    <3> HIDE DEF Socket
    <3> QED BY <3>1, <3>2
  <2>2. strand' \in [Sockets -> Places] /\ holder' \in {"none", "timer", "app", "main"} \cup Sockets
    BY <1>16 DEF Drop, Go, Places
  <2> QED BY ZenonT(60), <1>16, <2>1, <2>2 DEF Drop, Socket
<1>17. ASSUME NEW s \in Sockets, NEW message \in {"logon", "logout"}, Arrives(s, message) PROVE TypeOK'
  BY <1>17, TroublesAssumption DEF Arrives, Go, Places
<1>18. ASSUME NEW s \in Sockets, ReceiveLogon(s) PROVE TypeOK'
  BY <1>18 DEF ReceiveLogon, Go, Places
<1>19. ASSUME NEW s \in Sockets, ReceiveLogout(s) PROVE TypeOK'
  <2>1. ASSUME Closes(s, "Closing"), holder' = s, UNCHANGED status PROVE TypeOK'
    BY <1>19, <2>1, ClosesType DEF ReceiveLogout, Socket
  <2>2. ASSUME ~(Closes(s, "Closing") /\ holder' = s /\ UNCHANGED status) PROVE TypeOK'
    <3>1. sockets' \in [Sockets -> Socket] /\ holder' \in {"none", "timer", "app", "main"} \cup Sockets
      BY <1>19, <2>2 DEF ReceiveLogout, AskToClose, Socket
    <3>2. strand' \in [Sockets -> Places] /\ status' \in Statuses
      BY <1>19, <2>2 DEF ReceiveLogout, Go, Places, Statuses
    <3>3. index' = index /\ transport' \in {"Idle", "Connecting", "Connected", "Closing"}
      BY <1>19, <2>2 DEF ReceiveLogout
    <3> QED BY <1>19, <3>1, <3>2, <3>3 DEF ReceiveLogout, Statuses, Socket
  <2> QED BY <2>1, <2>2
<1>20. ASSUME NEW s \in Sockets, OtherClosed(s) PROVE TypeOK'
  BY <1>20 DEF OtherClosed, Go, Places
<1>21. ASSUME NEW s \in Sockets, WriteTask(s) PROVE TypeOK'
  BY <1>21 DEF WriteTask
<1>22. CASE Send
  BY ZenonT(60), <1>22 DEF Send, Wait
<1>23. CASE DoLogout
  BY <1>23, TroublesAssumption DEF DoLogout, Wait, WriteAtOnce
<1>24. CASE Stop
  BY <1>24 DEF Stop, Wait, WriteAtOnce
<1>25. CASE Detach
  <2>1. sockets' \in [Sockets -> Socket]
    <3>1. CASE socket = "none"
      BY <1>25, <3>1 DEF Detach, Socket
    <3>2. CASE socket # "none"
      <4>1. \A r \in Socket : [r EXCEPT !.bound = FALSE] \in Socket
        BY DEF Socket
      <4>2. sockets \in [Sockets -> Socket] /\ socket \in Sockets
        BY <3>2 DEF Socket
      <4>3. sockets' = [sockets EXCEPT ![socket].bound = FALSE]
        BY <1>25, <3>2 DEF Detach
      <4> HIDE DEF Socket
      <4> QED BY <4>1, <4>2, <4>3
    <3> QED BY <3>1, <3>2
  <2> QED BY <1>25, <2>1 DEF Detach, Socket
<1>26. CASE CloseAll
  BY <1>26 DEF CloseAll, AskToClose
<1>27. CASE Clear
  BY <1>27 DEF Clear
<1> QED BY <1>1, <1>2, <1>3, <1>4, <1>5, <1>6, <1>7, <1>8, <1>9, <1>10, <1>11, <1>12, <1>13, <1>14, <1>15, <1>16, <1>17, <1>18, <1>19, <1>20, <1>21, <1>22, <1>23, <1>24, <1>25, <1>26, <1>27 DEF Next, Timer, Strand

LEMMA OneSocketStep ==
  ASSUME Common, Next
  PROVE  OneSocketCallsBack'
<1> USE DEF Common, TypeOK, connection, threads, OneSocketCallsBack, Bound
<1>0. TypeOK'
  BY TypeStep DEF Common
<1>1. CASE Rest
  BY <1>0, <1>1, SocketsAssumption DEF Rest, Free, Threads
<1>2. CASE Heartbeat
  BY <1>0, <1>2, SocketsAssumption DEF Heartbeat, Wait, Free, CanWrite, Open, Threads
<1>3. CASE TestTimeout
  BY <1>0, <1>3, SocketsAssumption DEF TestTimeout, Free, Threads
<1>4. CASE CloseAfterTimeout
  BY <1>0, <1>4, SocketsAssumption DEF CloseAfterTimeout, CanAskToClose, AskToClose, Threads
<1>5. CASE TimerCloses
  BY <1>0, <1>5, SocketsAssumption DEF TimerCloses, Threads
<1>6. CASE Tick
  BY <1>0, <1>6, SocketsAssumption DEF Tick, MayInterfere, Midway, Threads
<1>7. CASE Start
  BY <1>0, <1>7, SocketsAssumption DEF Start, LetGo, MayInterfere, Midway, Threads
<1>8. CASE Make
  BY <1>0, <1>8, SocketsAssumption DEF Make, NoSocket, MayInterfere, Midway, Threads
<1>9. ASSUME NEW s \in Sockets, Connects(s) PROVE OneSocketCallsBack'
  BY <1>0, <1>9, SocketsAssumption DEF Connects, Go, Bound, Threads
<1>10. ASSUME NEW s \in Sockets, Up(s) PROVE OneSocketCallsBack'
  BY <1>0, <1>10, SocketsAssumption DEF Up, Go, Free, CanWrite, Open, Threads
<1>11. ASSUME NEW s \in Sockets, ConnectFails(s) PROVE OneSocketCallsBack'
  BY <1>0, <1>11, SocketsAssumption DEF ConnectFails, Go, Bound, Threads
<1>12. ASSUME NEW s \in Sockets, FailEnds(s) PROVE OneSocketCallsBack'
  BY <1>0, <1>12, SocketsAssumption DEF FailEnds, Go, LetGo, Threads
<1>13. ASSUME NEW s \in Sockets, Breaks(s) PROVE OneSocketCallsBack'
  BY <1>0, <1>13, SocketsAssumption DEF Breaks, Closes, Open, Bound, Go, Threads
<1>14. ASSUME NEW s \in Sockets, CloseTask(s) PROVE OneSocketCallsBack'
  BY <1>0, <1>14, SocketsAssumption DEF CloseTask, Closes, Bound, Go, Threads
<1>15. ASSUME NEW s \in Sockets, Down(s) PROVE OneSocketCallsBack'
  BY <1>0, <1>15, SocketsAssumption DEF Down, Go, Threads
<1>16. ASSUME NEW s \in Sockets, Drop(s) PROVE OneSocketCallsBack'
  <2>1. ASSUME NEW t \in Sockets PROVE ~sockets'[t].bound
    <3>1. sockets'[t] = [sockets[t] EXCEPT !.bound = @ /\ t # socket,
                                           !.closer = IF t = s THEN "none" ELSE @]
      BY <1>16 DEF Drop
    <3>2. sockets'[t].bound = (sockets[t].bound /\ t # socket)
      BY <3>1
    <3> QED BY <3>2
  <2> QED BY <2>1
<1>17. ASSUME NEW s \in Sockets, NEW message \in {"logon", "logout"}, Arrives(s, message) PROVE OneSocketCallsBack'
  BY <1>0, <1>17, SocketsAssumption DEF Arrives, Go, Open, Bound, Threads
<1>18. ASSUME NEW s \in Sockets, ReceiveLogon(s) PROVE OneSocketCallsBack'
  BY <1>0, <1>18, SocketsAssumption DEF ReceiveLogon, Go, Free, Threads
<1>19. ASSUME NEW s \in Sockets, ReceiveLogout(s) PROVE OneSocketCallsBack'
  BY <1>0, <1>19, SocketsAssumption DEF ReceiveLogout, Closes, Go, Free, Open, Bound, AskToClose, CanAskToClose, Threads
<1>20. ASSUME NEW s \in Sockets, OtherClosed(s) PROVE OneSocketCallsBack'
  BY <1>0, <1>20, SocketsAssumption DEF OtherClosed, Go, Threads
<1>21. ASSUME NEW s \in Sockets, WriteTask(s) PROVE OneSocketCallsBack'
  BY <1>0, <1>21, SocketsAssumption DEF WriteTask, Open, Threads
<1>22. CASE Send
  BY <1>0, <1>22, SocketsAssumption DEF Send, Wait, Free, CanWrite, Open, Threads
<1>23. CASE DoLogout
  BY <1>0, <1>23, SocketsAssumption DEF DoLogout, Wait, WriteAtOnce, CanLogout, CanWrite, Open, Free, Threads
<1>24. CASE Stop
  BY <1>0, <1>24, SocketsAssumption DEF Stop, Wait, WriteAtOnce, CanLogout, CanWrite, Open, Free, Threads
<1>25. CASE Detach
  BY <1>0, <1>25, SocketsAssumption DEF Detach, MayInterfere, Midway, Threads
<1>26. CASE CloseAll
  BY <1>0, <1>26, SocketsAssumption DEF CloseAll, CanAskToClose, AskToClose, MayInterfere, Midway, Threads
<1>27. CASE Clear
  BY <1>0, <1>27, SocketsAssumption DEF Clear, MayInterfere, Midway, Threads
<1> QED BY <1>1, <1>2, <1>3, <1>4, <1>5, <1>6, <1>7, <1>8, <1>9, <1>10, <1>11, <1>12, <1>13, <1>14, <1>15, <1>16, <1>17, <1>18, <1>19, <1>20, <1>21, <1>22, <1>23, <1>24, <1>25, <1>26, <1>27 DEF Next, Timer, Strand

LEMMA ThreadsStep ==
  ASSUME Common, Next
  PROVE  Threads'
<1> USE DEF Common, TypeOK, connection, threads, Threads, Bound
<1>0. TypeOK'
  BY TypeStep DEF Common
<1>1. CASE Rest
  BY <1>0, <1>1, SocketsAssumption DEF Rest, Free, OneSocketCallsBack, Writers, Closers
<1>2. CASE Heartbeat
  BY <1>0, <1>2, SocketsAssumption DEF Heartbeat, Wait, Free, CanWrite, Open, OneSocketCallsBack, Writers, Closers
<1>3. CASE TestTimeout
  BY <1>0, <1>3, SocketsAssumption DEF TestTimeout, Free, OneSocketCallsBack, Writers, Closers
<1>4. CASE CloseAfterTimeout
  BY <1>0, <1>4, SocketsAssumption DEF CloseAfterTimeout, CanAskToClose, AskToClose, OneSocketCallsBack, Writers, Closers
<1>5. CASE TimerCloses
  BY <1>0, <1>5, SocketsAssumption DEF TimerCloses, OneSocketCallsBack, Writers, Closers
<1>6. CASE Tick
  BY <1>0, <1>6, SocketsAssumption DEF Tick, MayInterfere, Midway, OneSocketCallsBack, Writers, Closers
<1>7. CASE Start
  BY <1>0, <1>7, SocketsAssumption DEF Start, LetGo, MayInterfere, Midway, OneSocketCallsBack, Writers, Closers
<1>8. CASE Make
  BY <1>0, <1>8, SocketsAssumption DEF Make, NoSocket, MayInterfere, Midway, OneSocketCallsBack, Writers, Closers
<1>9. ASSUME NEW s \in Sockets, Connects(s) PROVE Threads'
  BY <1>0, <1>9, SocketsAssumption DEF Connects, Go, Bound, OneSocketCallsBack, Writers, Closers
<1>10. ASSUME NEW s \in Sockets, Up(s) PROVE Threads'
  BY <1>0, <1>10, SocketsAssumption DEF Up, Go, Free, CanWrite, Open, OneSocketCallsBack, Writers, Closers
<1>11. ASSUME NEW s \in Sockets, ConnectFails(s) PROVE Threads'
  BY <1>0, <1>11, SocketsAssumption DEF ConnectFails, Go, Bound, OneSocketCallsBack, Writers, Closers
<1>12. ASSUME NEW s \in Sockets, FailEnds(s) PROVE Threads'
  BY <1>0, <1>12, SocketsAssumption DEF FailEnds, Go, LetGo, OneSocketCallsBack, Writers, Closers
<1>13. ASSUME NEW s \in Sockets, Breaks(s) PROVE Threads'
  BY <1>0, <1>13, SocketsAssumption DEF Breaks, Closes, Open, Bound, Go, OneSocketCallsBack, Writers, Closers
<1>14. ASSUME NEW s \in Sockets, CloseTask(s) PROVE Threads'
  BY <1>0, <1>14, SocketsAssumption DEF CloseTask, Closes, Bound, Go, OneSocketCallsBack, Writers, Closers
<1>15. ASSUME NEW s \in Sockets, Down(s) PROVE Threads'
  BY <1>0, <1>15, SocketsAssumption DEF Down, Go, OneSocketCallsBack, Writers, Closers
<1>16. ASSUME NEW s \in Sockets, Drop(s) PROVE Threads'
  BY ZenonT(60), <1>0, <1>16, SocketsAssumption DEF Drop, Go, OneSocketCallsBack, Writers, Closers
<1>17. ASSUME NEW s \in Sockets, NEW message \in {"logon", "logout"}, Arrives(s, message) PROVE Threads'
  BY <1>0, <1>17, SocketsAssumption DEF Arrives, Go, Open, Bound, OneSocketCallsBack, Writers, Closers
<1>18. ASSUME NEW s \in Sockets, ReceiveLogon(s) PROVE Threads'
  BY <1>0, <1>18, SocketsAssumption DEF ReceiveLogon, Go, Free, OneSocketCallsBack, Writers, Closers
<1>19. ASSUME NEW s \in Sockets, ReceiveLogout(s) PROVE Threads'
  BY <1>0, <1>19, SocketsAssumption DEF ReceiveLogout, Closes, Go, Free, Open, Bound, AskToClose, CanAskToClose, OneSocketCallsBack, Writers, Closers
<1>20. ASSUME NEW s \in Sockets, OtherClosed(s) PROVE Threads'
  BY <1>0, <1>20, SocketsAssumption DEF OtherClosed, Go, OneSocketCallsBack, Writers, Closers
<1>21. ASSUME NEW s \in Sockets, WriteTask(s) PROVE Threads'
  BY <1>0, <1>21, SocketsAssumption DEF WriteTask, Open, OneSocketCallsBack, Writers, Closers
<1>22. CASE Send
  BY <1>0, <1>22, SocketsAssumption DEF Send, Wait, Free, CanWrite, Open, OneSocketCallsBack, Writers, Closers
<1>23. CASE DoLogout
  BY <1>0, <1>23, SocketsAssumption DEF DoLogout, Wait, WriteAtOnce, CanLogout, CanWrite, Open, Free, OneSocketCallsBack, Writers, Closers
<1>24. CASE Stop
  BY <1>0, <1>24, SocketsAssumption DEF Stop, Wait, WriteAtOnce, CanLogout, CanWrite, Open, Free, OneSocketCallsBack, Writers, Closers
<1>25. CASE Detach
  BY <1>0, <1>25, SocketsAssumption DEF Detach, MayInterfere, Midway, OneSocketCallsBack, Writers, Closers
<1>26. CASE CloseAll
  BY <1>0, <1>26, SocketsAssumption DEF CloseAll, CanAskToClose, AskToClose, MayInterfere, Midway, OneSocketCallsBack, Writers, Closers
<1>27. CASE Clear
  BY <1>0, <1>27, SocketsAssumption DEF Clear, MayInterfere, Midway, OneSocketCallsBack, Writers, Closers
<1> QED BY <1>1, <1>2, <1>3, <1>4, <1>5, <1>6, <1>7, <1>8, <1>9, <1>10, <1>11, <1>12, <1>13, <1>14, <1>15, <1>16, <1>17, <1>18, <1>19, <1>20, <1>21, <1>22, <1>23, <1>24, <1>25, <1>26, <1>27 DEF Next, Timer, Strand

LEMMA WritersStep ==
  ASSUME Common, Next
  PROVE  Writers'
<1> USE DEF Common, TypeOK, connection, threads, Writers
<1>0. TypeOK'
  BY TypeStep DEF Common
<1>1. CASE Rest
  BY <1>0, <1>1, SocketsAssumption DEF Rest, Free, Threads, Closers
<1>2. CASE Heartbeat
  BY <1>0, <1>2, SocketsAssumption DEF Heartbeat, Wait, Free, CanWrite, Open, Threads, Closers
<1>3. CASE TestTimeout
  BY <1>0, <1>3, SocketsAssumption DEF TestTimeout, Free, Threads, Closers
<1>4. CASE CloseAfterTimeout
  BY SMTT(30), <1>0, <1>4, SocketsAssumption DEF CloseAfterTimeout, CanAskToClose, AskToClose, Threads, Closers
<1>5. CASE TimerCloses
  BY <1>0, <1>5, SocketsAssumption DEF TimerCloses, Threads, Closers
<1>6. CASE Tick
  BY <1>0, <1>6, SocketsAssumption DEF Tick, MayInterfere, Midway, Threads, Closers
<1>7. CASE Start
  BY <1>0, <1>7, SocketsAssumption DEF Start, LetGo, MayInterfere, Midway, Threads, Closers
<1>8. CASE Make
  <2>1. \A t \in Sockets : sockets'[t].writers = sockets[t].writers
    BY <1>8, MakeLemma DEF Fresh
  <2> QED BY <1>8, <2>1 DEF Make
<1>9. ASSUME NEW s \in Sockets, Connects(s) PROVE Writers'
  BY <1>0, <1>9, SocketsAssumption DEF Connects, Go, Bound, Threads, Closers
<1>10. ASSUME NEW s \in Sockets, Up(s) PROVE Writers'
  BY <1>0, <1>10, SocketsAssumption DEF Up, Go, Free, CanWrite, Open, Threads, Closers
<1>11. ASSUME NEW s \in Sockets, ConnectFails(s) PROVE Writers'
  BY <1>0, <1>11, SocketsAssumption DEF ConnectFails, Go, Bound, Threads, Closers
<1>12. ASSUME NEW s \in Sockets, FailEnds(s) PROVE Writers'
  BY <1>0, <1>12, SocketsAssumption DEF FailEnds, Go, LetGo, Threads, Closers
<1>13. ASSUME NEW s \in Sockets, Breaks(s) PROVE Writers'
  BY <1>0, <1>13, SocketsAssumption DEF Breaks, Closes, Open, Bound, Go, Threads, Closers
<1>14. ASSUME NEW s \in Sockets, CloseTask(s) PROVE Writers'
  <2>1. \A t \in Sockets : sockets'[t].writers = sockets[t].writers
    BY <1>14 DEF CloseTask, Closes
  <2> QED BY <1>14, <2>1 DEF CloseTask
<1>15. ASSUME NEW s \in Sockets, Down(s) PROVE Writers'
  BY <1>0, <1>15, SocketsAssumption DEF Down, Go, Threads, Closers
<1>16. ASSUME NEW s \in Sockets, Drop(s) PROVE Writers'
  <2>1. \A t \in Sockets : sockets'[t].writers = sockets[t].writers
    BY <1>16, DropLemma
  <2>2. holder' = IF holder = s THEN "none" ELSE holder
    BY <1>16 DEF Drop
  <2>3. \A t \in Sockets : \A w \in sockets[t].writers : w # s
    BY SocketsAssumption
  <2> QED BY <2>1, <2>2, <2>3
<1>17. ASSUME NEW s \in Sockets, NEW message \in {"logon", "logout"}, Arrives(s, message) PROVE Writers'
  BY <1>0, <1>17, SocketsAssumption DEF Arrives, Go, Open, Bound, Threads, Closers
<1>18. ASSUME NEW s \in Sockets, ReceiveLogon(s) PROVE Writers'
  BY <1>0, <1>18, SocketsAssumption DEF ReceiveLogon, Go, Free, Threads, Closers
<1>19. ASSUME NEW s \in Sockets, ReceiveLogout(s) PROVE Writers'
  BY <1>0, <1>19, SocketsAssumption DEF ReceiveLogout, Closes, Go, Free, Open, Bound, AskToClose, CanAskToClose, Threads, Closers
<1>20. ASSUME NEW s \in Sockets, OtherClosed(s) PROVE Writers'
  BY <1>0, <1>20, SocketsAssumption DEF OtherClosed, Go, Threads, Closers
<1>21. ASSUME NEW s \in Sockets, WriteTask(s) PROVE Writers'
  BY <1>0, <1>21, SocketsAssumption DEF WriteTask, Open, Threads, Closers
<1>22. CASE Send
  BY <1>0, <1>22, SocketsAssumption DEF Send, Wait, Free, CanWrite, Open, Threads, Closers
<1>23. CASE DoLogout
  BY <1>0, <1>23, SocketsAssumption DEF DoLogout, Wait, WriteAtOnce, CanLogout, CanWrite, Open, Free, Threads, Closers
<1>24. CASE Stop
  BY <1>0, <1>24, SocketsAssumption DEF Stop, Wait, WriteAtOnce, CanLogout, CanWrite, Open, Free, Threads, Closers
<1>25. CASE Detach
  BY <1>0, <1>25, SocketsAssumption DEF Detach, MayInterfere, Midway, Threads, Closers
<1>26. CASE CloseAll
  BY <1>0, <1>26, SocketsAssumption DEF CloseAll, CanAskToClose, AskToClose, MayInterfere, Midway, Threads, Closers
<1>27. CASE Clear
  BY <1>0, <1>27, SocketsAssumption DEF Clear, MayInterfere, Midway, Threads, Closers
<1> QED BY <1>1, <1>2, <1>3, <1>4, <1>5, <1>6, <1>7, <1>8, <1>9, <1>10, <1>11, <1>12, <1>13, <1>14, <1>15, <1>16, <1>17, <1>18, <1>19, <1>20, <1>21, <1>22, <1>23, <1>24, <1>25, <1>26, <1>27 DEF Next, Timer, Strand

LEMMA ClosersStep ==
  ASSUME Common, Next
  PROVE  Closers'
<1> USE DEF Common, TypeOK, connection, threads, Closers
<1>0. TypeOK'
  BY TypeStep DEF Common
<1>1. CASE Rest
  BY <1>0, <1>1, SocketsAssumption DEF Rest, Free, Threads, Writers, Bound
<1>2. CASE Heartbeat
  BY <1>0, <1>2, SocketsAssumption DEF Heartbeat, Wait, Free, CanWrite, Open, Threads, Writers, Bound
<1>3. CASE TestTimeout
  BY <1>0, <1>3, SocketsAssumption DEF TestTimeout, Free, Threads, Writers, Bound
<1>4. CASE CloseAfterTimeout
  BY <1>0, <1>4, SocketsAssumption DEF CloseAfterTimeout, CanAskToClose, AskToClose, Threads, Writers, Bound
<1>5. CASE TimerCloses
  BY <1>0, <1>5, SocketsAssumption DEF TimerCloses, Threads, Writers, Bound
<1>6. CASE Tick
  BY <1>0, <1>6, SocketsAssumption DEF Tick, MayInterfere, Midway, Threads, Writers, Bound
<1>7. CASE Start
  BY <1>0, <1>7, SocketsAssumption DEF Start, LetGo, MayInterfere, Midway, Threads, Writers, Bound
<1>8. CASE Make
  <2>1. \A t \in Sockets : sockets'[t].closer = sockets[t].closer
    BY <1>8, MakeLemma DEF Fresh
  <2>2. timer = "make" /\ timer' = "sessions" /\ UNCHANGED <<strand, holder, main>>
    BY <1>8 DEF Make
  <2> QED BY <2>1, <2>2
<1>9. ASSUME NEW s \in Sockets, Connects(s) PROVE Closers'
  BY <1>0, <1>9, SocketsAssumption DEF Connects, Go, Bound, Threads, Writers, Bound
<1>10. ASSUME NEW s \in Sockets, Up(s) PROVE Closers'
  BY <1>0, <1>10, SocketsAssumption DEF Up, Go, Free, CanWrite, Open, Threads, Writers, Bound
<1>11. ASSUME NEW s \in Sockets, ConnectFails(s) PROVE Closers'
  BY <1>0, <1>11, SocketsAssumption DEF ConnectFails, Go, Bound, Threads, Writers, Bound
<1>12. ASSUME NEW s \in Sockets, FailEnds(s) PROVE Closers'
  BY <1>0, <1>12, SocketsAssumption DEF FailEnds, Go, LetGo, Threads, Writers, Bound
<1>13. ASSUME NEW s \in Sockets, Breaks(s) PROVE Closers'
  BY <1>0, <1>13, SocketsAssumption DEF Breaks, Closes, Open, Bound, Go, Threads, Writers, Bound
<1>14. ASSUME NEW s \in Sockets, CloseTask(s) PROVE Closers'
  BY <1>0, <1>14, SocketsAssumption DEF CloseTask, Closes, Bound, Go, Threads, Writers, Bound
<1>15. ASSUME NEW s \in Sockets, Down(s) PROVE Closers'
  BY <1>0, <1>15, SocketsAssumption DEF Down, Go, Threads, Writers, Bound
<1>16. ASSUME NEW s \in Sockets, Drop(s) PROVE Closers'
  <2>1. \A t \in Sockets : sockets'[t].closer = IF t = s THEN "none" ELSE sockets[t].closer
    BY <1>16, DropLemma
  <2>2. \A t \in Sockets : strand'[t] = IF t = s THEN "idle" ELSE strand[t]
    BY <1>16 DEF Drop, Go
  <2>3. holder' = (IF holder = s THEN "none" ELSE holder) /\ UNCHANGED <<timer, main>>
    BY <1>16 DEF Drop
  <2> HIDE DEF TypeOK
  <2> QED BY <2>1, <2>2, <2>3
<1>17. ASSUME NEW s \in Sockets, NEW message \in {"logon", "logout"}, Arrives(s, message) PROVE Closers'
  BY <1>0, <1>17, SocketsAssumption DEF Arrives, Go, Open, Bound, Threads, Writers, Bound
<1>18. ASSUME NEW s \in Sockets, ReceiveLogon(s) PROVE Closers'
  BY <1>0, <1>18, SocketsAssumption DEF ReceiveLogon, Go, Free, Threads, Writers, Bound
<1>19. ASSUME NEW s \in Sockets, ReceiveLogout(s) PROVE Closers'
  BY <1>0, <1>19, SocketsAssumption DEF ReceiveLogout, Closes, Go, Free, Open, Bound, AskToClose, CanAskToClose, Threads, Writers, Bound
<1>20. ASSUME NEW s \in Sockets, OtherClosed(s) PROVE Closers'
  BY <1>0, <1>20, SocketsAssumption DEF OtherClosed, Go, Threads, Writers, Bound
<1>21. ASSUME NEW s \in Sockets, WriteTask(s) PROVE Closers'
  BY <1>0, <1>21, SocketsAssumption DEF WriteTask, Open, Threads, Writers, Bound
<1>22. CASE Send
  BY <1>0, <1>22, SocketsAssumption DEF Send, Wait, Free, CanWrite, Open, Threads, Writers, Bound
<1>23. CASE DoLogout
  BY <1>0, <1>23, SocketsAssumption DEF DoLogout, Wait, WriteAtOnce, CanLogout, CanWrite, Open, Free, Threads, Writers, Bound
<1>24. CASE Stop
  BY <1>0, <1>24, SocketsAssumption DEF Stop, Wait, WriteAtOnce, CanLogout, CanWrite, Open, Free, Threads, Writers, Bound
<1>25. CASE Detach
  BY <1>0, <1>25, SocketsAssumption DEF Detach, MayInterfere, Midway, Threads, Writers, Bound
<1>26. CASE CloseAll
  BY <1>0, <1>26, SocketsAssumption DEF CloseAll, CanAskToClose, AskToClose, MayInterfere, Midway, Threads, Writers, Bound
<1>27. CASE Clear
  BY <1>0, <1>27, SocketsAssumption DEF Clear, MayInterfere, Midway, Threads, Writers, Bound
<1> QED BY <1>1, <1>2, <1>3, <1>4, <1>5, <1>6, <1>7, <1>8, <1>9, <1>10, <1>11, <1>12, <1>13, <1>14, <1>15, <1>16, <1>17, <1>18, <1>19, <1>20, <1>21, <1>22, <1>23, <1>24, <1>25, <1>26, <1>27 DEF Next, Timer, Strand

LEMMA HandlersStep ==
  ASSUME Common, Calm, ~config.overlap, Next
  PROVE  Handlers'
<1> USE DEF Common, Calm, TypeOK, connection, threads, OneSocketCallsBack, Handlers, Live, Known, Bound, Midway, MayInterfere, Undisturbed
<1>0. TypeOK'
  BY TypeStep DEF Common
<1>1. CASE Rest
  BY <1>0, <1>1, SocketsAssumption DEF Rest, Free, Threads, Closers
<1>2. CASE Heartbeat
  BY <1>0, <1>2, SocketsAssumption DEF Heartbeat, Wait, Free, CanWrite, Open, Threads, Closers
<1>3. CASE TestTimeout
  BY <1>0, <1>3, SocketsAssumption DEF TestTimeout, Free, Threads, Closers
<1>4. CASE CloseAfterTimeout
  BY <1>0, <1>4, SocketsAssumption DEF CloseAfterTimeout, CanAskToClose, AskToClose, Threads, Closers
<1>5. CASE TimerCloses
  BY <1>0, <1>5, SocketsAssumption DEF TimerCloses, Threads, Closers
<1>6. CASE Tick
  BY <1>0, <1>6, SocketsAssumption DEF Tick, MayInterfere, Midway, Threads, Closers
<1>7. CASE Start
  BY <1>0, <1>7, SocketsAssumption DEF Start, LetGo, MayInterfere, Midway, Threads, Closers
<1>8. CASE Make
  BY <1>0, <1>8, SocketsAssumption DEF Make, NoSocket, MayInterfere, Midway, Threads, Closers
<1>9. ASSUME NEW s \in Sockets, Connects(s), Undisturbed PROVE Handlers'
  BY <1>0, <1>9, SocketsAssumption DEF Connects, Go, Bound, Threads, Closers
<1>10. ASSUME NEW s \in Sockets, Up(s), Undisturbed PROVE Handlers'
  BY <1>0, <1>10, SocketsAssumption DEF Up, Go, Free, CanWrite, Open, Threads, Closers
<1>11. ASSUME NEW s \in Sockets, ConnectFails(s), Undisturbed PROVE Handlers'
  BY <1>0, <1>11, SocketsAssumption DEF ConnectFails, Go, Bound, Threads, Closers
<1>12. ASSUME NEW s \in Sockets, FailEnds(s), Undisturbed PROVE Handlers'
  BY <1>0, <1>12, SocketsAssumption DEF FailEnds, Go, LetGo, Threads, Closers
<1>13. ASSUME NEW s \in Sockets, Breaks(s), Undisturbed PROVE Handlers'
  BY <1>0, <1>13, SocketsAssumption DEF Breaks, Closes, Open, Bound, Go, Threads, Closers
<1>14. ASSUME NEW s \in Sockets, CloseTask(s), Undisturbed PROVE Handlers'
  BY <1>0, <1>14, SocketsAssumption DEF CloseTask, Closes, Bound, Go, Threads, Closers
<1>15. ASSUME NEW s \in Sockets, Down(s), Undisturbed PROVE Handlers'
  BY <1>0, <1>15, SocketsAssumption DEF Down, Go, Threads, Closers
<1>16. ASSUME NEW s \in Sockets, Drop(s), Undisturbed PROVE Handlers'
  <2>1. \A t \in Sockets :
          /\ sockets'[t].phase = sockets[t].phase
          /\ sockets'[t].bound => sockets[t].bound /\ t # socket
          /\ t # s => sockets'[t].closer = sockets[t].closer
          /\ sockets'[t].closer \in {"none", sockets[t].closer}
    BY <1>16, DropLemma
  <2>2. /\ \A t \in Sockets : strand'[t] = IF t = s THEN "idle" ELSE strand[t]
        /\ strand[s] = "drop" /\ socket' = "none" /\ UNCHANGED <<config, transport, status, timer, main>>
    BY ZenonT(60), <1>16 DEF Drop, Go
  <2>3. socket = s /\ sockets[s].phase = "closed" /\ \A t \in Sockets : t # s => ~Midway(t)
    BY <2>2
  <2> QED BY <2>1, <2>2, <2>3
<1>17. ASSUME NEW s \in Sockets, NEW message \in {"logon", "logout"}, Arrives(s, message), Undisturbed PROVE Handlers'
  BY <1>0, <1>17, SocketsAssumption DEF Arrives, Go, Open, Bound, Threads, Closers
<1>18. ASSUME NEW s \in Sockets, ReceiveLogon(s), Undisturbed PROVE Handlers'
  BY <1>0, <1>18, SocketsAssumption DEF ReceiveLogon, Go, Free, Threads, Closers
<1>19. ASSUME NEW s \in Sockets, ReceiveLogout(s), Undisturbed PROVE Handlers'
  BY <1>0, <1>19, SocketsAssumption DEF ReceiveLogout, Closes, Go, Free, Open, Bound, AskToClose, CanAskToClose, Threads, Closers
<1>20. ASSUME NEW s \in Sockets, OtherClosed(s), Undisturbed PROVE Handlers'
  BY <1>0, <1>20, SocketsAssumption DEF OtherClosed, Go, Threads, Closers
<1>21. ASSUME NEW s \in Sockets, WriteTask(s), Undisturbed PROVE Handlers'
  BY <1>0, <1>21, SocketsAssumption DEF WriteTask, Open, Threads, Closers
<1>22. CASE Send
  BY <1>0, <1>22, SocketsAssumption DEF Send, Wait, Free, CanWrite, Open, Threads, Closers
<1>23. CASE DoLogout
  BY <1>0, <1>23, SocketsAssumption DEF DoLogout, Wait, WriteAtOnce, CanLogout, CanWrite, Open, Free, Threads, Closers
<1>24. CASE Stop
  BY <1>0, <1>24, SocketsAssumption DEF Stop, Wait, WriteAtOnce, CanLogout, CanWrite, Open, Free, Threads, Closers
<1>25. CASE Detach
  BY <1>0, <1>25, SocketsAssumption DEF Detach, MayInterfere, Midway, Threads, Closers
<1>26. CASE CloseAll
  BY <1>0, <1>26, SocketsAssumption DEF CloseAll, CanAskToClose, AskToClose, MayInterfere, Midway, Threads, Closers
<1>27. CASE Clear
  BY <1>0, <1>27, SocketsAssumption DEF Clear, MayInterfere, Midway, Threads, Closers
<1> QED BY <1>1, <1>2, <1>3, <1>4, <1>5, <1>6, <1>7, <1>8, <1>9, <1>10, <1>11, <1>12, <1>13, <1>14, <1>15, <1>16, <1>17, <1>18, <1>19, <1>20, <1>21, <1>22, <1>23, <1>24, <1>25, <1>26, <1>27 DEF Next, Timer, Strand

LEMMA LiveStep ==
  ASSUME Common, Calm, ~config.overlap, Next
  PROVE  Live'
<1> USE DEF Common, Calm, TypeOK, connection, threads, OneSocketCallsBack, Handlers, Live, Known, Bound, Midway, MayInterfere, Undisturbed
<1>0. TypeOK'
  BY TypeStep DEF Common
<1>1. CASE Rest
  BY <1>0, <1>1, SocketsAssumption DEF Rest, Free, Threads, Closers
<1>2. CASE Heartbeat
  BY <1>0, <1>2, SocketsAssumption DEF Heartbeat, Wait, Free, CanWrite, Open, Threads, Closers
<1>3. CASE TestTimeout
  BY <1>0, <1>3, SocketsAssumption DEF TestTimeout, Free, Threads, Closers
<1>4. CASE CloseAfterTimeout
  BY <1>0, <1>4, SocketsAssumption DEF CloseAfterTimeout, CanAskToClose, AskToClose, Threads, Closers
<1>5. CASE TimerCloses
  BY <1>0, <1>5, SocketsAssumption DEF TimerCloses, Threads, Closers
<1>6. CASE Tick
  BY <1>0, <1>6, SocketsAssumption DEF Tick, MayInterfere, Midway, Threads, Closers
<1>7. CASE Start
  BY <1>0, <1>7, SocketsAssumption DEF Start, LetGo, MayInterfere, Midway, Threads, Closers
<1>8. CASE Make
  <2>1. timer = "make" /\ timer' = "sessions" /\ socket = "none" /\ status = "Disconnected"
        /\ main = "running" /\ UNCHANGED <<status, strand, main>>
    BY <1>8 DEF Make, Threads
  <2>2. \A t \in Sockets : sockets[t].phase = "closed"
    BY <2>1, SocketsAssumption
  <2>3. CASE socket' = "none" /\ sockets' = sockets
    BY <2>1, <2>2, <2>3
  <2>4. CASE socket' \in Sockets /\ Fresh(socket') /\ transport' = "Connecting"
    BY <2>1, <2>2, <2>4, SocketsAssumption DEF Fresh
  <2> QED BY <1>8, <2>3, <2>4, MakeLemma
<1>9. ASSUME NEW s \in Sockets, Connects(s), Undisturbed PROVE Live'
  BY <1>0, <1>9, SocketsAssumption DEF Connects, Go, Bound, Threads, Closers
<1>10. ASSUME NEW s \in Sockets, Up(s), Undisturbed PROVE Live'
  BY <1>0, <1>10, SocketsAssumption DEF Up, Go, Free, CanWrite, Open, Threads, Closers
<1>11. ASSUME NEW s \in Sockets, ConnectFails(s), Undisturbed PROVE Live'
  BY <1>0, <1>11, SocketsAssumption DEF ConnectFails, Go, Bound, Threads, Closers
<1>12. ASSUME NEW s \in Sockets, FailEnds(s), Undisturbed PROVE Live'
  BY <1>0, <1>12, SocketsAssumption DEF FailEnds, Go, LetGo, Threads, Closers
<1>13. ASSUME NEW s \in Sockets, Breaks(s), Undisturbed PROVE Live'
  BY <1>0, <1>13, SocketsAssumption DEF Breaks, Closes, Open, Bound, Go, Threads, Closers
<1>14. ASSUME NEW s \in Sockets, CloseTask(s), Undisturbed PROVE Live'
  BY <1>0, <1>14, SocketsAssumption DEF CloseTask, Closes, Bound, Go, Threads, Closers
<1>15. ASSUME NEW s \in Sockets, Down(s), Undisturbed PROVE Live'
  BY <1>0, <1>15, SocketsAssumption DEF Down, Go, Threads, Closers
<1>16. ASSUME NEW s \in Sockets, Drop(s), Undisturbed PROVE Live'
  <2>1. \A t \in Sockets :
          /\ sockets'[t].phase = sockets[t].phase
          /\ sockets'[t].bound => sockets[t].bound /\ t # socket
          /\ t # s => sockets'[t].closer = sockets[t].closer
          /\ sockets'[t].closer \in {"none", sockets[t].closer}
    BY <1>16, DropLemma
  <2>2. /\ \A t \in Sockets : strand'[t] = IF t = s THEN "idle" ELSE strand[t]
        /\ strand[s] = "drop" /\ socket' = "none" /\ UNCHANGED <<config, transport, status, timer, main>>
    BY ZenonT(60), <1>16 DEF Drop, Go
  <2>3. socket = s /\ sockets[s].phase = "closed" /\ \A t \in Sockets : t # s => ~Midway(t)
    BY <2>2
  <2>4. ASSUME NEW t \in Sockets PROVE sockets'[t].closer \notin Sockets
    BY <2>1, SocketsAssumption
  <2>5. \A t \in Sockets : t # s => sockets[t].phase = "closed"
    BY <2>3
  <2>6. main = "stopped" => FALSE
    BY <2>2
  <2> QED BY <2>1, <2>2, <2>3, <2>4, <2>5, <2>6
<1>17. ASSUME NEW s \in Sockets, NEW message \in {"logon", "logout"}, Arrives(s, message), Undisturbed PROVE Live'
  BY <1>0, <1>17, SocketsAssumption DEF Arrives, Go, Open, Bound, Threads, Closers
<1>18. ASSUME NEW s \in Sockets, ReceiveLogon(s), Undisturbed PROVE Live'
  BY <1>0, <1>18, SocketsAssumption DEF ReceiveLogon, Go, Free, Threads, Closers
<1>19. ASSUME NEW s \in Sockets, ReceiveLogout(s), Undisturbed PROVE Live'
  BY <1>0, <1>19, SocketsAssumption DEF ReceiveLogout, Closes, Go, Free, Open, Bound, AskToClose, CanAskToClose, Threads, Closers
<1>20. ASSUME NEW s \in Sockets, OtherClosed(s), Undisturbed PROVE Live'
  BY <1>0, <1>20, SocketsAssumption DEF OtherClosed, Go, Threads, Closers
<1>21. ASSUME NEW s \in Sockets, WriteTask(s), Undisturbed PROVE Live'
  <2>1. \A t \in Sockets : sockets'[t].phase = sockets[t].phase /\ sockets'[t].bound = sockets[t].bound
                             /\ sockets'[t].closer = sockets[t].closer
    BY <1>21 DEF WriteTask
  <2>2. status' = status \/ (status # "Disconnected" /\ status' # "Disconnected")
    BY <1>21 DEF WriteTask, Writers, Threads
  <2>3. PICK t \in sockets[s].writers :
          /\ timer' = IF t = "timer" THEN "connections" ELSE timer
          /\ main' = IF t = "main" THEN "detach" ELSE main
    BY <1>21 DEF WriteTask
  <2>4. (t = "timer" => timer = "writing") /\ (t = "main" => main = "writing")
    BY <2>3 DEF Writers, Threads
  <2>5. UNCHANGED <<socket, strand, transport>>
    BY <1>21 DEF WriteTask
  <2> HIDE DEF TypeOK
  <2> QED BY <2>1, <2>2, <2>3, <2>4, <2>5
<1>22. CASE Send
  BY <1>0, <1>22, SocketsAssumption DEF Send, Wait, Free, CanWrite, Open, Threads, Closers
<1>23. CASE DoLogout
  BY <1>0, <1>23, SocketsAssumption DEF DoLogout, Wait, WriteAtOnce, CanLogout, CanWrite, Open, Free, Threads, Closers
<1>24. CASE Stop
  BY <1>0, <1>24, SocketsAssumption DEF Stop, Wait, WriteAtOnce, CanLogout, CanWrite, Open, Free, Threads, Closers
<1>25. CASE Detach
  BY <1>0, <1>25, SocketsAssumption DEF Detach, MayInterfere, Midway, Threads, Closers
<1>26. CASE CloseAll
  BY <1>0, <1>26, SocketsAssumption DEF CloseAll, CanAskToClose, AskToClose, MayInterfere, Midway, Threads, Closers
<1>27. CASE Clear
  <2>1. main = "clear" /\ main' = "stopped" /\ UNCHANGED <<sockets, strand, status, timer, transport>>
    BY <1>27 DEF Clear
  <2>2. ASSUME NEW s \in Sockets PROVE sockets[s].phase = "closed" /\ strand[s] = "idle"
    <3>1. sockets[s].phase = "closed"
      BY <1>27, <2>1 DEF Clear
    <3>2. ~Midway(s) /\ strand[s] \in Places
      BY <1>27 DEF Clear
    <3> QED BY <3>1, <3>2 DEF Places
  <2> QED BY <2>1, <2>2
<1> QED BY SMTT(60), <1>1, <1>2, <1>3, <1>4, <1>5, <1>6, <1>7, <1>8, <1>9, <1>10, <1>11, <1>12, <1>13, <1>14, <1>15, <1>16, <1>17, <1>18, <1>19, <1>20, <1>21, <1>22, <1>23, <1>24, <1>25, <1>26, <1>27 DEF Next, Timer, Strand

LEMMA KnownStep ==
  ASSUME Common, Calm, ~config.overlap, Next
  PROVE  Known'
<1> USE DEF Common, Calm, TypeOK, connection, threads, OneSocketCallsBack, Handlers, Live, Known, Bound, Midway, MayInterfere, Undisturbed
<1>0. TypeOK'
  BY TypeStep DEF Common
<1>1. CASE Rest
  BY <1>0, <1>1, SocketsAssumption DEF Rest, Free, Threads, Writers, Closers
<1>2. CASE Heartbeat
  BY <1>0, <1>2, SocketsAssumption DEF Heartbeat, Wait, Free, CanWrite, Open, Threads, Writers, Closers
<1>3. CASE TestTimeout
  BY <1>0, <1>3, SocketsAssumption DEF TestTimeout, Free, Threads, Writers, Closers
<1>4. CASE CloseAfterTimeout
  BY <1>0, <1>4, SocketsAssumption DEF CloseAfterTimeout, CanAskToClose, AskToClose, Threads, Writers, Closers
<1>5. CASE TimerCloses
  BY <1>0, <1>5, SocketsAssumption DEF TimerCloses, Threads, Writers, Closers
<1>6. CASE Tick
  BY <1>0, <1>6, SocketsAssumption DEF Tick, MayInterfere, Midway, Threads, Writers, Closers
<1>7. CASE Start
  BY <1>0, <1>7, SocketsAssumption DEF Start, LetGo, MayInterfere, Midway, Threads, Writers, Closers
<1>8. CASE Make
  BY <1>0, <1>8, SocketsAssumption DEF Make, NoSocket, MayInterfere, Midway, Threads, Writers, Closers
<1>9. ASSUME NEW s \in Sockets, Connects(s), Undisturbed PROVE Known'
  BY <1>0, <1>9, SocketsAssumption DEF Connects, Go, Bound, Threads, Writers, Closers
<1>10. ASSUME NEW s \in Sockets, Up(s), Undisturbed PROVE Known'
  BY <1>0, <1>10, SocketsAssumption DEF Up, Go, Free, CanWrite, Open, Threads, Writers, Closers
<1>11. ASSUME NEW s \in Sockets, ConnectFails(s), Undisturbed PROVE Known'
  BY <1>0, <1>11, SocketsAssumption DEF ConnectFails, Go, Bound, Threads, Writers, Closers
<1>12. ASSUME NEW s \in Sockets, FailEnds(s), Undisturbed PROVE Known'
  BY <1>0, <1>12, SocketsAssumption DEF FailEnds, Go, LetGo, Threads, Writers, Closers
<1>13. ASSUME NEW s \in Sockets, Breaks(s), Undisturbed PROVE Known'
  BY <1>0, <1>13, SocketsAssumption DEF Breaks, Closes, Open, Bound, Go, Threads, Writers, Closers
<1>14. ASSUME NEW s \in Sockets, CloseTask(s), Undisturbed PROVE Known'
  BY <1>0, <1>14, SocketsAssumption DEF CloseTask, Closes, Bound, Go, Threads, Writers, Closers
<1>15. ASSUME NEW s \in Sockets, Down(s), Undisturbed PROVE Known'
  BY <1>0, <1>15, SocketsAssumption DEF Down, Go, Threads, Writers, Closers
<1>16. ASSUME NEW s \in Sockets, Drop(s), Undisturbed PROVE Known'
  BY <1>0, <1>16, SocketsAssumption DEF Drop, Go, Threads, Writers, Closers
<1>17. ASSUME NEW s \in Sockets, NEW message \in {"logon", "logout"}, Arrives(s, message), Undisturbed PROVE Known'
  BY <1>0, <1>17, SocketsAssumption DEF Arrives, Go, Open, Bound, Threads, Writers, Closers
<1>18. ASSUME NEW s \in Sockets, ReceiveLogon(s), Undisturbed PROVE Known'
  BY <1>0, <1>18, SocketsAssumption DEF ReceiveLogon, Go, Free, Threads, Writers, Closers
<1>19. ASSUME NEW s \in Sockets, ReceiveLogout(s), Undisturbed PROVE Known'
  BY <1>0, <1>19, SocketsAssumption DEF ReceiveLogout, Closes, Go, Free, Open, Bound, AskToClose, CanAskToClose, Threads, Writers, Closers
<1>20. ASSUME NEW s \in Sockets, OtherClosed(s), Undisturbed PROVE Known'
  BY <1>0, <1>20, SocketsAssumption DEF OtherClosed, Go, Threads, Writers, Closers
<1>21. ASSUME NEW s \in Sockets, WriteTask(s), Undisturbed PROVE Known'
  BY <1>0, <1>21, SocketsAssumption DEF WriteTask, Open, Threads, Writers, Closers
<1>22. CASE Send
  BY <1>0, <1>22, SocketsAssumption DEF Send, Wait, Free, CanWrite, Open, Threads, Writers, Closers
<1>23. CASE DoLogout
  BY <1>0, <1>23, SocketsAssumption DEF DoLogout, Wait, WriteAtOnce, CanLogout, CanWrite, Open, Free, Threads, Writers, Closers
<1>24. CASE Stop
  BY <1>0, <1>24, SocketsAssumption DEF Stop, Wait, WriteAtOnce, CanLogout, CanWrite, Open, Free, Threads, Writers, Closers
<1>25. CASE Detach
  BY <1>0, <1>25, SocketsAssumption DEF Detach, MayInterfere, Midway, Threads, Writers, Closers
<1>26. CASE CloseAll
  BY <1>0, <1>26, SocketsAssumption DEF CloseAll, CanAskToClose, AskToClose, MayInterfere, Midway, Threads, Writers, Closers
<1>27. CASE Clear
  BY <1>0, <1>27, SocketsAssumption DEF Clear, MayInterfere, Midway, Threads, Writers, Closers
<1> QED BY <1>1, <1>2, <1>3, <1>4, <1>5, <1>6, <1>7, <1>8, <1>9, <1>10, <1>11, <1>12, <1>13, <1>14, <1>15, <1>16, <1>17, <1>18, <1>19, <1>20, <1>21, <1>22, <1>23, <1>24, <1>25, <1>26, <1>27 DEF Next, Timer, Strand

-----------------------------------------------------------------------------
(* The inductive invariant, and what follows from it.                       *)

LEMMA InitInv == Init => Inv
<1> SUFFICES ASSUME Init PROVE Inv
  OBVIOUS
<1> USE DEF Init
<1>1. \A s \in Sockets : sockets[s] = NoSocket /\ strand[s] = "idle"
  OBVIOUS
<1>2. TypeOK
  <2>1. NoSocket \in Socket /\ "idle" \in Places
    BY DEF NoSocket, Socket, Places
  <2>2. sockets \in [Sockets -> Socket] /\ strand \in [Sockets -> Places]
    BY <2>1
  <2>3. index \in 0..(config.endpoints - 1)
    BY ConfigsAssumption
  <2> QED BY <2>2, <2>3, TroublesAssumption DEF TypeOK, Socket
<1>3. OneSocketCallsBack /\ Threads /\ Writers /\ Closers
  BY <1>1, SocketsAssumption DEF OneSocketCallsBack, Threads, Writers, Closers, Bound, NoSocket
<1>4. Calm
  BY <1>1, SocketsAssumption DEF Calm, Handlers, Live, Known, Midway, NoSocket
<1> QED BY <1>2, <1>3, <1>4 DEF Inv, Common

LEMMA NextInv == Inv /\ [Next]_vars => Inv'
<1>1. ASSUME Inv, Next PROVE Inv'
  <2>1. Common'
    BY <1>1, TypeStep, OneSocketStep, ThreadsStep, WritersStep, ClosersStep DEF Inv, Common
  <2>2. config' = config
    BY <1>1 DEF Next, Timer, Strand, connection, threads, Rest, Heartbeat, TestTimeout, CloseAfterTimeout,
         TimerCloses, Tick, Start, Make, Connects, Up, ConnectFails, FailEnds, Breaks, CloseTask, Down, Drop,
         Arrives, ReceiveLogon, ReceiveLogout, OtherClosed, WriteTask, Send, DoLogout, Stop, Detach, CloseAll, Clear
  <2>3. ~config.overlap => Calm'
    BY <1>1, HandlersStep, LiveStep, KnownStep DEF Inv, Calm
  <2> QED BY <2>1, <2>2, <2>3 DEF Inv
<1>2. ASSUME Inv, UNCHANGED vars PROVE Inv'
  BY <1>2 DEF Inv, vars, Common, TypeOK, OneSocketCallsBack, Threads, Writers, Closers, Bound,
       Calm, Handlers, Live, Known, Midway
<1> QED BY <1>1, <1>2

THEOREM Invariance == Spec => []Inv
<1> QED BY InitInv, NextInv, PTL DEF Spec

(* The connection, its threads and all its sockets keep their types: the    *)
(* endpoint index in particular stays inside the list.                     *)
THEOREM TypeCorrect == Spec => []TypeOK
<1>1. Inv => TypeOK
  BY DEF Inv, Common
<1> QED BY <1>1, Invariance, PTL

(* Whatever falls into the middle of what, a socket that was replaced never *)
(* calls the connection back (setCallbacks before m_socket.reset).         *)
THEOREM OnlyOneSocketCallsBack == Spec => []OneSocketCallsBack
<1>1. Inv => OneSocketCallsBack
  BY DEF Inv, Common
<1> QED BY <1>1, Invariance, PTL

(* A session that is not disconnected has a socket that will tell it of its *)
(* end (start(), onClosed, Session::onConnected).                          *)
THEOREM SessionAlwaysHasSocket == Spec => []SessionHasSocket
<1>1. Inv => SessionHasSocket
  <2> SUFFICES ASSUME Inv, ~config.overlap, Running, status # "Disconnected"
               PROVE  socket # "none" /\ Bound(socket) /\ sockets[socket].phase = "open"
    BY DEF SessionHasSocket
  <2>1. /\ socket # "none" /\ Bound(socket)
        /\ sockets[socket].phase = "open" \/ strand[socket] = "down"
    BY DEF Inv, Calm, Known, Running
  <2>2. socket \in Sockets
    BY <2>1 DEF Inv, Common, TypeOK
  <2> QED BY <2>1, <2>2 DEF Running, Midway
<1> QED BY <1>1, Invariance, PTL

(* There are never two connections, with any number of sockets.             *)
THEOREM AlwaysOneConnection == Spec => []OneConnection
<1>1. Inv => OneConnection
  <2> SUFFICES ASSUME Inv, ~config.overlap
               PROVE  Cardinality({s \in Sockets : sockets[s].phase # "closed"}) =< 1
    BY DEF OneConnection
  <2> DEFINE live == {s \in Sockets : sockets[s].phase # "closed"}
  <2>1. live \subseteq {socket}
    BY DEF Inv, Calm, Live
  <2>2. IsFiniteSet({socket}) /\ Cardinality({socket}) = 1
    BY FS_Singleton
  <2>3. IsFiniteSet(live) /\ Cardinality(live) =< Cardinality({socket})
    BY <2>1, <2>2, FS_Subset
  <2> QED BY <2>2, <2>3
<1> QED BY <1>1, Invariance, PTL

(* No frame of an old connection reaches the session of a new one.          *)
THEOREM NeverStaleFrame == Spec => []NoStaleFrame
<1>1. Inv => NoStaleFrame
  BY DEF Inv, Calm, Handlers, Live, NoStaleFrame
<1> QED BY <1>1, Invariance, PTL

(* Nobody holds the session mutex while a strand that needs it must close a *)
(* socket first (Session::onTimer, FIXRuntime::stop).                      *)
THEOREM CloseAlwaysEnds == Spec => []CloseEnds
<1>1. Inv => CloseEnds
  <2> SUFFICES ASSUME Inv, ~config.overlap, NEW s \in Sockets,
                      sockets[s].closer # "none", holder = sockets[s].closer
               PROVE  FALSE
    BY DEF CloseEnds
  <2>1. sockets[s].closer \in {"timer", "main"}
    BY DEF Inv, Common, TypeOK, Calm, Live
  <2> QED BY <2>1 DEF Inv, Common, Closers, Threads
<1> QED BY <1>1, Invariance, PTL

(* stop() leaves no open socket and no handler.                             *)
THEOREM AlwaysStoppedQuietly == Spec => []StoppedQuietly
<1>1. Inv => StoppedQuietly
  BY DEF Inv, Calm, Live, StoppedQuietly
<1> QED BY <1>1, Invariance, PTL

=============================================================================
