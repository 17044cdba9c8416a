--------------------- MODULE AcceptorConnection_proofs ---------------------
(***************************************************************************)
(* Proofs about the acceptor's connection with one io thread: for any      *)
(* number of sockets, however often connections are replaced, break or are *)
(* closed, only the socket in use calls back and the session has one; and  *)
(* as long as nobody closes in the middle of a handler, a close leaves     *)
(* nothing open and no handler waits.                                      *)
(***************************************************************************)
EXTENDS AcceptorConnection, FiniteSetTheorems, TLAPS

(* Which thread may be where.                                               *)
Whereabouts ==
  /\ place["accept"] \in {"idle", "off", "made", "up", "clients"}
  /\ \A s \in Sockets : place[s] \in {"idle", "logon", "logout", "closed", "down", "closing", "clients"}
  /\ place["timer"] \in {"sessions", "close", "closing", "clients"}
  /\ place["main"] \in {"running", "detach", "detaching", "close", "closing", "clients", "stopped"}
  /\ ~Running => place["timer"] = "sessions"

(* One io thread runs one handler at a time.                                *)
OneAtATime == InTurn => \A t, u \in Handlers : Busy(t) /\ Busy(u) => t = u

(* A connection that has just ended leaves no socket that could call.       *)
NobodyCalls ==
  InTurn /\ Alive /\ (\E s \in Sockets : place[s] = "closed") => \A c \in Sockets : ~Bound(c)

(* A socket is made within one run of the accept handler.                   *)
Making ==
  /\ \A s \in Sockets :
       /\ Bound(s) => sockets[s].phase # "closed"
       /\ sockets[s].phase = "made" =>
            place["accept"] = "made" /\ (InTurn /\ Running => socket = s /\ Bound(s))
  /\ \A s, c \in Sockets : sockets[s].phase = "made" /\ sockets[c].phase = "made" => s = c

(* Whoever a socket is closed for is still in close().                      *)
Closers ==
  \A s \in Sockets : sockets[s].closer # "none" => InClose(sockets[s].closer)

(* A session with a connection has its socket, or its end is being told.    *)
HasSocket == socket # "none" /\ Bound(socket) /\ sockets[socket].phase = "open"
Known ==
  InTurn /\ Running =>
    /\ session.status # "Disconnected" =>
         \/ HasSocket \/ place["accept"] = "made"
         \/ \E s \in Sockets : place[s] \in {"closed", "down"}
    /\ place["accept"] = "up" => HasSocket

(* Undisturbed handlers: while another thread closes, strands only end      *)
(* connections, and nothing new comes in; a Logon in hand is the socket's   *)
(* own connection's.                                                        *)
Orderly ==
  /\ \A s \in Sockets : place[s] = "logon" => Bound(s) /\ Alive
  /\ \A t \in Outside : InClose(t) =>
       /\ transport # "Connected" /\ place["accept"] \in {"idle", "off"}
       /\ \A s \in Sockets : place[s] \in {"idle", "closed", "down"}
  /\ place["accept"] # "clients"
  /\ place["accept"] \in {"made", "up"} => server = "listening"

(* The server knows every socket that is not closed until it has closed it. *)
Tracked ==
  /\ \A s \in Sockets : sockets[s].phase # "closed" => s \in clients /\ server # "none"
  /\ server = "closed" => \E t \in Threads : place[t] = "clients"
  /\ server = "listening" => \A t \in Threads : place[t] # "clients"
  /\ place["main"] = "stopped" => server = "none"

(* Without replacements there is one connection at a time.                  *)
Single ==
  /\ \A s, c \in Sockets : sockets[s].phase # "closed" /\ sockets[c].phase # "closed" => s = c
  /\ \A s \in Sockets : sockets[s].closer \notin Handlers
  /\ \A s, c \in Sockets : InClose(s) /\ sockets[c].phase # "closed" => s = c

(* The inductive invariant.                                                 *)
Common == TypeOK /\ Whereabouts /\ OneAtATime /\ OneSocketCallsBack /\ NobodyCalls /\ Making /\ Closers
Inv ==
  /\ Common /\ Known
  /\ Alone => Orderly /\ Tracked
  /\ Alone /\ ~config.replaces => Single

-----------------------------------------------------------------------------
(* The steps.                                                               *)

Socket == [phase   : {"closed", "made", "open"},
           bound   : BOOLEAN,
           greeted : BOOLEAN,
           closer  : {"none"} \cup Threads]

Session == [status        : {"Disconnected", "Connected", "LogonSent", "LoggedOn", "LogoutSent", "Closing"},
            receivedLogon : BOOLEAN,
            sentLogout    : BOOLEAN]

LEMMA FreeThreadLemma ==
  ASSUME TypeOK, InTurn, FreeThread
  PROVE  \A t \in Handlers : ~Busy(t)
<1> DEFINE B == {t \in Handlers : Busy(t)}
<1>1. IsFiniteSet(Handlers)
  BY SocketsAssumption, FS_Singleton, FS_Union DEF Handlers
<1>2. IsFiniteSet(B)
  BY <1>1, FS_Subset
<1>3. Cardinality(B) \in Nat /\ Cardinality(B) < 1
  BY <1>2, FS_CardinalityType DEF InTurn, FreeThread
<1> QED BY <1>2, <1>3, FS_EmptySet

LEMMA SocketFields ==
  ASSUME NEW r \in Socket
  PROVE  /\ [r EXCEPT !.phase = "open"] \in Socket
         /\ \A b \in BOOLEAN : [r EXCEPT !.bound = b] \in Socket /\ [r EXCEPT !.greeted = b] \in Socket
         /\ \A t \in {"none"} \cup Threads :
              /\ [r EXCEPT !.closer = t] \in Socket
              /\ [NoSocket EXCEPT !.closer = t] \in Socket
BY DEF Socket, NoSocket

LEMMA SocketMade ==
  /\ [NoSocket EXCEPT !.phase = "made"] \in Socket
  /\ [NoSocket EXCEPT !.phase = "made", !.bound = TRUE] \in Socket
BY DEF Socket, NoSocket

LEMMA LogoutType ==
  ASSUME TypeOK, Logout
  PROVE  session' \in Session
BY DEF TypeOK, Logout, Session

LEMMA GoType ==
  ASSUME TypeOK, NEW t \in Threads, NEW where \in Places, Go(t, where)
  PROVE  place' \in [Threads -> Places]
BY DEF TypeOK, Go

LEMMA TypeStep ==
  ASSUME TypeOK, Whereabouts, [Next]_vars
  PROVE  TypeOK'
<1>0. NoSocket \in Socket /\ Fresh \in Session /\ sockets \in [Sockets -> Socket] /\ session \in Session
  BY DEF NoSocket, Fresh, Socket, Session, TypeOK
<1>1. ASSUME NEW s \in Sockets, Accept(s)
      PROVE  TypeOK'
  <2>1. sockets' \in [Sockets -> Socket]
    <3>1. CASE Detached
      BY <3>1, <1>0, <1>1, SocketMade DEF Accept
    <3>2. CASE ~Detached
      BY <3>2, <1>0, <1>1, SocketMade, SocketFields DEF Accept
    <3> QED BY <3>1, <3>2
  <2> QED BY <2>1, <1>1 DEF Accept, TypeOK, Go, Places, Threads, Socket
<1>2. ASSUME NEW s \in Sockets, Attach(s)
      PROVE  TypeOK'
  BY <1>0, <1>2 DEF Attach, NextAccept, TypeOK, Go, Places, Threads
<1>3. CASE Up
  BY <1>0, <1>3 DEF Up, NextAccept, TypeOK, Go, Places, Threads, connection
<1>4. CASE AcceptFails
  BY <1>0, <1>4, TroublesAssumption
     DEF AcceptFails, Trouble, TypeOK, Go, Places, Threads, connection
<1>5. ASSUME NEW s \in Sockets, NEW message \in {"logon", "logout"}, Arrives(s, message)
      PROVE  TypeOK'
  <2>1. sockets' \in [Sockets -> Socket]
    <3>1. (sockets[s].greeted \/ message = "logon") \in BOOLEAN
      BY DEF TypeOK
    <3> QED BY <3>1, <1>0, <1>5, SocketFields DEF Arrives
  <2> QED BY <2>1, <1>5, TroublesAssumption
     DEF Arrives, Trouble, TypeOK, Go, Places, Threads, connection, Socket
<1>6. ASSUME NEW s \in Sockets, Ignored(s)
      PROVE  TypeOK'
  BY <1>6 DEF Ignored, TypeOK, Go, Places, Threads, connection
<1>7. ASSUME NEW s \in Sockets, ReceiveLogon(s)
      PROVE  TypeOK'
  BY <1>7 DEF ReceiveLogon, TypeOK, Go, Places, Threads, connection
<1>8. ASSUME NEW s \in Sockets, RefuseDuplicate(s)
      PROVE  TypeOK'
  <2>1. sockets' \in [Sockets -> Socket]
    <3>1. s \in Threads /\ (CanWrite => socket \in Sockets)
      BY DEF Threads, CanWrite, TypeOK
    <3>2. \/ sockets' = [sockets EXCEPT ![s] = NoSocket]
          \/ CanWrite /\ sockets' = [sockets EXCEPT ![socket].closer = s]
          \/ sockets' = sockets
      BY <1>8 DEF RefuseDuplicate
    <3>3. CASE sockets' = [sockets EXCEPT ![s] = NoSocket]
      BY <3>3, <1>0
    <3>4. CASE CanWrite /\ sockets' = [sockets EXCEPT ![socket].closer = s]
      BY <3>1, <3>4, <1>0, SocketFields
    <3> QED BY <3>2, <3>3, <3>4, <1>0
  <2>2. session' \in Session
    BY <1>0, <1>8, LogoutType DEF RefuseDuplicate
  <2> QED BY <2>1, <2>2, <1>8 DEF RefuseDuplicate, TypeOK, Go, Places, Threads, Socket, Session
<1>9. ASSUME NEW s \in Sockets, ReceiveLogout(s)
      PROVE  TypeOK'
  BY <1>9 DEF ReceiveLogout, TypeOK, Go, Places, Threads, connection
<1>10. ASSUME NEW s \in Sockets, Breaks(s)
      PROVE  TypeOK'
  <2>1. sockets' \in [Sockets -> Socket]
    <3>1. sockets[s].closer \in {"none"} \cup Threads
      BY DEF TypeOK
    <3> QED BY <3>1, <1>0, <1>10, SocketFields DEF Breaks, Closes
  <2> QED BY <2>1, <1>10, TroublesAssumption
     DEF Breaks, Closes, Trouble, TypeOK, Go, Places, Threads, connection, Socket
<1>11. ASSUME NEW s \in Sockets, CloseTask(s)
      PROVE  TypeOK'
  <2>1. sockets' \in [Sockets -> Socket]
    <3>1. sockets[s].closer \in {"none"} \cup Threads
      BY DEF TypeOK
    <3> QED BY <3>1, <1>0, <1>11, SocketFields DEF CloseTask, Closes
  <2> QED BY <2>1, <1>11 DEF CloseTask, Closes, TypeOK, Go, Places, Threads, connection, Socket
<1>12. ASSUME NEW s \in Sockets, OnClosed(s)
      PROVE  TypeOK'
  BY <1>12 DEF OnClosed, TypeOK, Go, Places, Threads
<1>13. ASSUME NEW s \in Sockets, Down(s)
      PROVE  TypeOK'
  BY <1>0, <1>13 DEF Down, TypeOK, Go, Places, Threads, connection, Fresh
<1>14. ASSUME NEW t \in Threads, StartClose(t)
      PROVE  TypeOK'
  <2>1. sockets' \in [Sockets -> Socket]
    BY <1>0, <1>14, SocketFields DEF StartClose, TypeOK
  <2> QED BY <2>1, <1>14 DEF StartClose, TypeOK, Go, Places, Socket
<1>15. ASSUME NEW t \in Threads, CloseServer(t)
      PROVE  TypeOK'
  BY <1>15 DEF CloseServer, TypeOK, Go, Places
<1>16. ASSUME NEW t \in Threads, NEW c \in Sockets, CloseClient(t, c)
      PROVE  TypeOK'
  <2>1. sockets' \in [Sockets -> Socket]
    BY <1>0, <1>16, SocketFields DEF CloseClient
  <2>2. session' \in Session
    BY <1>0, <1>16 DEF CloseClient
  <2> QED BY <2>1, <2>2, <1>16 DEF CloseClient, TypeOK, Socket, Session
<1>17. ASSUME NEW t \in Threads, CloseDone(t)
      PROVE  TypeOK'
  BY <1>17 DEF CloseDone, CallerOf, TypeOK, Go, Places
<1>18. CASE TestTimeout
  BY <1>0, <1>18, TroublesAssumption
     DEF TestTimeout, Trouble, TypeOK, Go, Places, Threads, connection
<1>19. CASE DoLogout
  BY <1>19, LogoutType, TroublesAssumption DEF DoLogout, Trouble, TypeOK, connection, Session
<1>20. CASE Stop
  BY <1>20, LogoutType DEF Stop, TypeOK, Go, Places, Threads, connection, Session
<1>21. CASE Detach
  <2>1. sockets' \in [Sockets -> Socket]
    <3>1. \/ sockets' = sockets
          \/ sockets' = [sockets EXCEPT ![socket].bound = FALSE]
      BY <1>21 DEF Detach
    <3> QED BY <3>1, <1>0, SocketFields
  <2>2. place' \in [Threads -> Places]
    BY <1>21 DEF Detach, TypeOK, Go, Places
  <2> QED BY <2>1, <2>2, <1>21 DEF Detach, TypeOK, connection, Socket
<1>22. CASE UNCHANGED vars
  BY <1>22 DEF vars, TypeOK
<1> QED
  BY <1>1, <1>2, <1>3, <1>4, <1>5, <1>6, <1>7, <1>8, <1>9, <1>10, <1>11, <1>12, <1>13, <1>14,
     <1>15,
     <1>16, <1>17, <1>18, <1>19, <1>20, <1>21, <1>22
     DEF Next, Accepting, Strand, Timer, Main, Close, Threads


LEMMA WhereaboutsStep ==
  ASSUME TypeOK, Whereabouts, [Next]_vars
  PROVE  Whereabouts'
<1>0. place \in [Threads -> Places]
  BY DEF TypeOK
<1>1. ASSUME NEW s \in Sockets, Accept(s)
      PROVE  Whereabouts'
  BY <1>0, <1>1, SocketsAssumption DEF Accept, Whereabouts, Running, TypeOK, Threads, Go
<1>2. ASSUME NEW s \in Sockets, Attach(s)
      PROVE  Whereabouts'
  BY <1>0, <1>2 DEF Attach, NextAccept, Whereabouts, Running, TypeOK, Threads, Go
<1>3. CASE Up
  BY <1>0, <1>3 DEF Up, NextAccept, Whereabouts, Running, TypeOK, Threads, Go
<1>4. CASE AcceptFails
  BY <1>0, <1>4, SocketsAssumption DEF AcceptFails, Whereabouts, Running, TypeOK, Threads, Go
<1>5. ASSUME NEW s \in Sockets, NEW message \in {"logon", "logout"}, Arrives(s, message)
      PROVE  Whereabouts'
  BY <1>0, <1>5, SocketsAssumption DEF Arrives, Whereabouts, Running, TypeOK, Threads, Go
<1>6. ASSUME NEW s \in Sockets, Ignored(s)
      PROVE  Whereabouts'
  BY <1>0, <1>6 DEF Ignored, Whereabouts, Running, TypeOK, Threads, Go
<1>7. ASSUME NEW s \in Sockets, ReceiveLogon(s)
      PROVE  Whereabouts'
  BY <1>0, <1>7 DEF ReceiveLogon, Whereabouts, Running, TypeOK, Threads, Go
<1>8. ASSUME NEW s \in Sockets, RefuseDuplicate(s)
      PROVE  Whereabouts'
  BY <1>0, <1>8 DEF RefuseDuplicate, Whereabouts, Running, TypeOK, Threads, Go
<1>9. ASSUME NEW s \in Sockets, ReceiveLogout(s)
      PROVE  Whereabouts'
  BY <1>0, <1>9 DEF ReceiveLogout, Whereabouts, Running, TypeOK, Threads, Go
<1>10. ASSUME NEW s \in Sockets, Breaks(s)
      PROVE  Whereabouts'
  BY <1>0, <1>10, SocketsAssumption DEF Breaks, Closes, Whereabouts, Running, TypeOK, Threads, Go
<1>11. ASSUME NEW s \in Sockets, CloseTask(s)
      PROVE  Whereabouts'
  BY <1>0, <1>11, SocketsAssumption
     DEF CloseTask, Closes, Whereabouts, Running, TypeOK, Threads, Go
<1>12. ASSUME NEW s \in Sockets, OnClosed(s)
      PROVE  Whereabouts'
  BY <1>0, <1>12 DEF OnClosed, Whereabouts, Running, TypeOK, Threads, Go
<1>13. ASSUME NEW s \in Sockets, Down(s)
      PROVE  Whereabouts'
  BY <1>0, <1>13 DEF Down, Whereabouts, Running, TypeOK, Threads, Go
<1>14. ASSUME NEW t \in Threads, StartClose(t)
      PROVE  Whereabouts'
  BY <1>0, <1>14 DEF StartClose, Whereabouts, Running, TypeOK, Threads, Go
<1>15. ASSUME NEW t \in Threads, CloseServer(t)
      PROVE  Whereabouts'
  BY <1>0, <1>15 DEF CloseServer, Whereabouts, Running, TypeOK, Threads, Go
<1>16. ASSUME NEW t \in Threads, NEW c \in Sockets, CloseClient(t, c)
      PROVE  Whereabouts'
  BY <1>0, <1>16 DEF CloseClient, Whereabouts, Running, TypeOK, Threads, Go
<1>17. ASSUME NEW t \in Threads, CloseDone(t)
      PROVE  Whereabouts'
  BY <1>0, <1>17, SocketsAssumption
     DEF CloseDone, CallerOf, Whereabouts, Running, TypeOK, Threads, Go
<1>18. CASE TestTimeout
  BY <1>0, <1>18 DEF TestTimeout, Whereabouts, Running, TypeOK, Threads, Go
<1>19. CASE DoLogout
  BY <1>0, <1>19 DEF DoLogout, Whereabouts, Running, TypeOK, Threads, Go
<1>20. CASE Stop
  BY <1>0, <1>20 DEF Stop, Whereabouts, Running, TypeOK, Threads, Go
<1>21. CASE Detach
  BY <1>0, <1>21 DEF Detach, Whereabouts, Running, TypeOK, Threads, Go
<1>22. CASE UNCHANGED vars
  BY <1>0, <1>22 DEF vars, Whereabouts, Running, TypeOK, Threads, Go
<1> QED
  BY <1>1, <1>2, <1>3, <1>4, <1>5, <1>6, <1>7, <1>8, <1>9, <1>10, <1>11, <1>12, <1>13,
     <1>14, <1>15, <1>16, <1>17, <1>18, <1>19, <1>20, <1>21, <1>22
     DEF Next, Accepting, Strand, Timer, Main, Close, Threads

(* One thread at a time takes a step, and a handler starts on a free one.   *)
Steps(t) ==
  /\ \A u \in Threads : u # t => place'[u] = place[u]
  /\ t \in Handlers /\ Busy(t)' => Busy(t) \/ FreeThread
  /\ place'[t] # place[t] => place[t] # "stopped"

LEMMA StepsLemma ==
  ASSUME TypeOK, Whereabouts, [Next]_vars
  PROVE  config' = config /\ \E t \in Threads : Steps(t)
<1>0. place \in [Threads -> Places]
  BY DEF TypeOK
<1>1. ASSUME NEW s \in Sockets, Accept(s)
      PROVE  config' = config /\ \E u \in Threads : Steps(u)
  BY <1>0, <1>1 DEF Accept, Steps, Threads, Go
<1>2. ASSUME NEW s \in Sockets, Attach(s)
      PROVE  config' = config /\ \E u \in Threads : Steps(u)
  BY <1>0, <1>2 DEF Attach, Steps, Busy, Threads, Go
<1>3. CASE Up
  BY <1>0, <1>3 DEF Up, Steps, Busy, Threads, Go
<1>4. CASE AcceptFails
  BY <1>0, <1>4 DEF AcceptFails, Steps, Threads, Go
<1>5. ASSUME NEW s \in Sockets, NEW message \in {"logon", "logout"}, Arrives(s, message)
      PROVE  config' = config /\ \E u \in Threads : Steps(u)
  BY <1>0, <1>5 DEF Arrives, Steps, Threads, Go, CanRun
<1>6. ASSUME NEW s \in Sockets, Ignored(s)
      PROVE  config' = config /\ \E u \in Threads : Steps(u)
  BY <1>0, <1>6 DEF Ignored, Steps, Busy, Threads, Go
<1>7. ASSUME NEW s \in Sockets, ReceiveLogon(s)
      PROVE  config' = config /\ \E u \in Threads : Steps(u)
  BY <1>0, <1>7 DEF ReceiveLogon, Steps, Busy, Threads, Go
<1>8. ASSUME NEW s \in Sockets, RefuseDuplicate(s)
      PROVE  config' = config /\ \E u \in Threads : Steps(u)
  BY <1>0, <1>8 DEF RefuseDuplicate, Steps, Busy, Threads, Go
<1>9. ASSUME NEW s \in Sockets, ReceiveLogout(s)
      PROVE  config' = config /\ \E u \in Threads : Steps(u)
  BY <1>0, <1>9 DEF ReceiveLogout, Steps, Busy, Threads, Go
<1>10. ASSUME NEW s \in Sockets, Breaks(s)
      PROVE  config' = config /\ \E u \in Threads : Steps(u)
  BY <1>0, <1>10 DEF Breaks, Closes, Steps, Threads, Go, CanRun
<1>11. ASSUME NEW s \in Sockets, CloseTask(s)
      PROVE  config' = config /\ \E u \in Threads : Steps(u)
  BY <1>0, <1>11 DEF CloseTask, Closes, Steps, Threads, Go, CanRun
<1>12. ASSUME NEW s \in Sockets, OnClosed(s)
      PROVE  config' = config /\ \E u \in Threads : Steps(u)
  BY <1>0, <1>12 DEF OnClosed, Steps, Busy, Threads, Go
<1>13. ASSUME NEW s \in Sockets, Down(s)
      PROVE  config' = config /\ \E u \in Threads : Steps(u)
  BY <1>0, <1>13 DEF Down, Steps, Busy, Threads, Go
<1>14. ASSUME NEW t \in Threads, StartClose(t)
      PROVE  config' = config /\ \E u \in Threads : Steps(u)
  BY <1>0, <1>14 DEF StartClose, Steps, Busy, Threads, Go
<1>15. ASSUME NEW t \in Threads, CloseServer(t)
      PROVE  config' = config /\ \E u \in Threads : Steps(u)
  BY <1>0, <1>15 DEF CloseServer, Steps, Busy, Threads, Go
<1>16. ASSUME NEW t \in Threads, NEW c \in Sockets, CloseClient(t, c)
      PROVE  config' = config /\ \E u \in Threads : Steps(u)
  BY <1>0, <1>16 DEF CloseClient, Steps, Busy, Threads, Go
<1>17. ASSUME NEW t \in Threads, CloseDone(t)
      PROVE  config' = config /\ \E u \in Threads : Steps(u)
  BY <1>0, <1>17 DEF CloseDone, Steps, Busy, Threads, Go
<1>18. CASE TestTimeout
  BY <1>0, <1>18 DEF TestTimeout, Steps, Busy, Threads, Go
<1>19. CASE DoLogout
  BY <1>0, <1>19 DEF DoLogout, Steps, Busy, Threads, Go
<1>20. CASE Stop
  <2>1. place' = [place EXCEPT !["main"] = "detach"] /\ config' = config /\ place["main"] = "running"
    BY <1>20 DEF Stop, Go, Running
  <2> QED BY <2>1, <1>0, SocketsAssumption DEF Steps, Handlers, Threads
<1>21. CASE Detach
  BY <1>0, <1>21 DEF Detach, Steps, Busy, Threads, Go
<1>22. CASE UNCHANGED vars
  BY <1>0, <1>22 DEF vars, Steps, Busy, Threads, Go
<1> QED
  BY <1>1, <1>2, <1>3, <1>4, <1>5, <1>6, <1>7, <1>8, <1>9, <1>10, <1>11, <1>12, <1>13,
     <1>14, <1>15, <1>16, <1>17, <1>18, <1>19, <1>20, <1>21, <1>22
     DEF Next, Accepting, Strand, Timer, Main, Close, Threads

LEMMA OneAtATimeStep ==
  ASSUME TypeOK, Whereabouts, OneAtATime, [Next]_vars
  PROVE  OneAtATime'
<1>1. config' = config
  BY StepsLemma
<1>2. PICK t \in Threads : Steps(t)
  BY StepsLemma
<1> SUFFICES ASSUME InTurn PROVE \A u, v \in Handlers : Busy(u)' /\ Busy(v)' => u = v
  BY <1>1 DEF OneAtATime, InTurn, Handlers
<1>3. \A u \in Handlers : u # t => Busy(u)' = Busy(u)
  BY <1>2 DEF Steps, Busy, Handlers, Threads
<1>4. CASE t \in Handlers /\ Busy(t)' /\ ~Busy(t)
  BY <1>2, <1>3, <1>4, FreeThreadLemma DEF Steps
<1>5. CASE ~(t \in Handlers /\ Busy(t)' /\ ~Busy(t))
  BY <1>3, <1>5 DEF OneAtATime
<1> QED BY <1>4, <1>5


(* What an accept and the end of a connection do to the sockets.            *)
LEMMA AcceptLemma ==
  ASSUME TypeOK, NEW s \in Sockets, Accept(s)
  PROVE  /\ sockets'[s].phase = "made" /\ sockets'[s].closer = "none"
         /\ \A c \in Sockets \ {s} :
              /\ sockets'[c].phase = sockets[c].phase /\ sockets'[c].closer = sockets[c].closer
              /\ Bound(c)' => Bound(c)
         /\ place' = [place EXCEPT !["accept"] = "made"]
         /\ Running' => socket' = s /\ Bound(s)'
         /\ server' = server /\ session' = session
<1>0. sockets \in [Sockets -> Socket] /\ place \in [Threads -> Places]
  BY DEF TypeOK, Socket
<1>1. place' = [place EXCEPT !["accept"] = "made"]
  BY <1>0 DEF Accept, Go
<1>2. CASE Detached
  <2>1. sockets' = [sockets EXCEPT ![s] = [NoSocket EXCEPT !.phase = "made"]]
    BY <1>2 DEF Accept
  <2>2. ~Running'
    BY <1>0, <1>1, <1>2 DEF Detached, Running, Threads
  <2> QED BY <1>0, <1>1, <2>1, <2>2 DEF Bound, NoSocket, Socket, Accept
<1>3. CASE ~Detached
  <2>1. /\ sockets' = [c \in Sockets |->
              CASE c = s      -> [NoSocket EXCEPT !.phase = "made", !.bound = TRUE]
                [] c = socket -> [sockets[c] EXCEPT !.bound = FALSE]
                [] OTHER      -> sockets[c]]
        /\ socket' = s
    BY <1>3 DEF Accept
  <2>2. sockets'[s] = [NoSocket EXCEPT !.phase = "made", !.bound = TRUE]
    BY <2>1, s # socket DEF Accept
  <2>3. \A c \in Sockets \ {s} :
          /\ sockets'[c].phase = sockets[c].phase /\ sockets'[c].closer = sockets[c].closer
          /\ Bound(c)' => Bound(c)
    BY <1>0, <2>1 DEF Bound, Socket
  <2> QED BY <1>1, <2>1, <2>2, <2>3 DEF Accept, Bound, NoSocket
<1> QED BY <1>2, <1>3

LEMMA ClosesLemma ==
  ASSUME TypeOK, NEW s \in Sockets, Closes(s)
  PROVE  /\ \A c \in Sockets \ {s} : sockets'[c] = sockets[c]
         /\ sockets'[s].phase = "closed" /\ ~Bound(s)'
         /\ sockets'[s].closer \in {"none", sockets[s].closer}
         /\ place' = IF Bound(s) THEN [place EXCEPT ![s] = "closed"] ELSE place
         /\ UNCHANGED <<config, connection, session, holder>>
BY DEF TypeOK, Closes, Bound, NoSocket, Go

LEMMA DetachLemma ==
  ASSUME TypeOK, Detach
  PROVE  /\ \A s \in Sockets :
              /\ sockets'[s].phase = sockets[s].phase /\ sockets'[s].closer = sockets[s].closer
              /\ Bound(s)' => Bound(s)
         /\ sockets' \in [Sockets -> Socket]
         /\ place["main"] \in {"detach", "detaching"} /\ place'["main"] \in {"detaching", "close"}
         /\ \A t \in Threads \ {"main"} : place'[t] = place[t]
         /\ MayInterfere
         /\ config' = config /\ server' = server /\ clients' = clients /\ transport' = transport
         /\ socket' = socket /\ session' = session /\ holder' = holder /\ left' = left
<1>0. sockets \in [Sockets -> Socket] /\ place \in [Threads -> Places] /\ "main" \in Threads
  BY DEF TypeOK, Socket, Threads
<1>1. \/ sockets' = sockets
      \/ sockets' = [sockets EXCEPT ![socket].bound = FALSE]
  BY DEF Detach
<1>2. /\ \A s \in Sockets :
           /\ sockets'[s].phase = sockets[s].phase /\ sockets'[s].closer = sockets[s].closer
           /\ Bound(s)' => Bound(s)
      /\ sockets' \in [Sockets -> Socket]
  <2>1. CASE sockets' = sockets
    BY <2>1, <1>0 DEF Bound
  <2>2. CASE sockets' = [sockets EXCEPT ![socket].bound = FALSE]
    <3>1. sockets' \in [Sockets -> Socket]
      BY <2>2, <1>0, SocketFields
    <3>2. \A s \in Sockets :
            \/ sockets'[s] = sockets[s]
            \/ sockets'[s] = [sockets[s] EXCEPT !.bound = FALSE]
      BY <2>2, <1>0
    <3> QED BY <3>1, <3>2, <1>0 DEF Bound, Socket
  <2> QED BY <2>1, <2>2, <1>1
<1>3. /\ place["main"] \in {"detach", "detaching"} /\ place'["main"] \in {"detaching", "close"}
      /\ \A t \in Threads \ {"main"} : place'[t] = place[t]
  BY <1>0 DEF Detach, Go
<1> QED BY <1>2, <1>3 DEF Detach, connection

(* Once m_connections is cleared it stays so.                               *)
LEMMA AliveStep ==
  ASSUME TypeOK, Whereabouts, [Next]_vars, Alive'
  PROVE  Alive
<1>1. PICK t \in Threads : Steps(t)
  BY StepsLemma
<1> QED BY <1>1 DEF Alive, Steps, Threads

LEMMA OneSocketStep ==
  ASSUME TypeOK, Whereabouts, OneSocketCallsBack, NobodyCalls, [Next]_vars
  PROVE  OneSocketCallsBack'
<1>0. /\ place \in [Threads -> Places] /\ sockets \in [Sockets -> Socket]
      /\ socket \in Sockets \cup {"none"} /\ "none" \notin Sockets
  BY SocketsAssumption DEF TypeOK, Socket
<1> SUFFICES ASSUME Alive, Alive' PROVE OneSocketCallsBack'
  BY AliveStep DEF OneSocketCallsBack
<1>1. ASSUME NEW s \in Sockets, Accept(s)
      PROVE  OneSocketCallsBack'
  BY <1>0, <1>1 DEF Accept, OneSocketCallsBack, InTurn, Bound, Socket, NoSocket
<1>2. ASSUME NEW s \in Sockets, Attach(s)
      PROVE  OneSocketCallsBack'
  BY <1>0, <1>2 DEF Attach, OneSocketCallsBack, InTurn, Bound, Socket
<1>3. CASE Up
  BY <1>0, <1>3 DEF Up, connection, OneSocketCallsBack, InTurn, Bound, Socket
<1>4. CASE AcceptFails
  BY <1>0, <1>4 DEF AcceptFails, connection, OneSocketCallsBack, InTurn, Bound, Socket
<1>5. ASSUME NEW s \in Sockets, NEW message \in {"logon", "logout"}, Arrives(s, message)
      PROVE  OneSocketCallsBack'
  BY <1>0, <1>5 DEF Arrives, connection, OneSocketCallsBack, InTurn, Bound, Socket
<1>6. ASSUME NEW s \in Sockets, Ignored(s)
      PROVE  OneSocketCallsBack'
  BY <1>0, <1>6 DEF Ignored, connection, OneSocketCallsBack, InTurn, Bound, Socket
<1>7. ASSUME NEW s \in Sockets, ReceiveLogon(s)
      PROVE  OneSocketCallsBack'
  BY <1>0, <1>7 DEF ReceiveLogon, connection, OneSocketCallsBack, InTurn, Bound, Socket
<1>8. ASSUME NEW s \in Sockets, RefuseDuplicate(s)
      PROVE  OneSocketCallsBack'
  BY <1>0, <1>8 DEF RefuseDuplicate, OneSocketCallsBack, InTurn, Bound, Socket, NoSocket
<1>9. ASSUME NEW s \in Sockets, ReceiveLogout(s)
      PROVE  OneSocketCallsBack'
  BY <1>0, <1>9 DEF ReceiveLogout, connection, OneSocketCallsBack, InTurn, Bound, Socket
<1>10. ASSUME NEW s \in Sockets, Breaks(s)
      PROVE  OneSocketCallsBack'
  BY <1>0, <1>10
     DEF Breaks, Closes, connection, OneSocketCallsBack, InTurn, Bound, Socket, NoSocket
<1>11. ASSUME NEW s \in Sockets, CloseTask(s)
      PROVE  OneSocketCallsBack'
  BY <1>0, <1>11
     DEF CloseTask, Closes, connection, OneSocketCallsBack, InTurn, Bound, Socket, NoSocket
<1>12. ASSUME NEW s \in Sockets, OnClosed(s)
      PROVE  OneSocketCallsBack'
  BY <1>0, <1>12 DEF OnClosed, OneSocketCallsBack, NobodyCalls, InTurn, Bound, Socket
<1>13. ASSUME NEW s \in Sockets, Down(s)
      PROVE  OneSocketCallsBack'
  BY <1>0, <1>13 DEF Down, connection, OneSocketCallsBack, InTurn, Bound, Socket
<1>14. ASSUME NEW t \in Threads, StartClose(t)
      PROVE  OneSocketCallsBack'
  BY <1>0, <1>14 DEF StartClose, OneSocketCallsBack, InTurn, Bound, Socket
<1>15. ASSUME NEW t \in Threads, CloseServer(t)
      PROVE  OneSocketCallsBack'
  BY <1>0, <1>15 DEF CloseServer, OneSocketCallsBack, InTurn, Bound, Socket
<1>16. ASSUME NEW t \in Threads, NEW c \in Sockets, CloseClient(t, c)
      PROVE  OneSocketCallsBack'
  BY <1>0, <1>16 DEF CloseClient, OneSocketCallsBack, InTurn, Bound, Socket, NoSocket
<1>17. ASSUME NEW t \in Threads, CloseDone(t)
      PROVE  OneSocketCallsBack'
  <2>1. t # "main"
    BY <1>0, <1>17 DEF CloseDone, CallerOf, Go, Alive, Threads
  <2> QED BY <2>1, <1>17 DEF CloseDone, OneSocketCallsBack, InTurn, Bound
<1>18. CASE TestTimeout
  BY <1>0, <1>18 DEF TestTimeout, connection, OneSocketCallsBack, InTurn, Bound, Socket
<1>19. CASE DoLogout
  BY <1>0, <1>19 DEF DoLogout, connection, OneSocketCallsBack, InTurn, Bound, Socket
<1>20. CASE Stop
  BY <1>0, <1>20 DEF Stop, connection, OneSocketCallsBack, InTurn, Bound, Socket
<1>21. CASE Detach
  BY <1>0, <1>21 DEF Detach, connection, OneSocketCallsBack, InTurn, Bound, Socket
<1>22. CASE UNCHANGED vars
  BY <1>0, <1>22 DEF vars, connection, OneSocketCallsBack, InTurn, Bound, Socket
<1> QED
  BY <1>1, <1>2, <1>3, <1>4, <1>5, <1>6, <1>7, <1>8, <1>9, <1>10, <1>11, <1>12, <1>13,
     <1>14, <1>15, <1>16, <1>17, <1>18, <1>19, <1>20, <1>21, <1>22
     DEF Next, Accepting, Strand, Timer, Main, Close, Threads

LEMMA NobodyCallsStep ==
  ASSUME TypeOK, Whereabouts, OneAtATime, OneSocketCallsBack, NobodyCalls, [Next]_vars
  PROVE  NobodyCalls'
<1>0. /\ place \in [Threads -> Places] /\ sockets \in [Sockets -> Socket]
      /\ socket \in Sockets \cup {"none"} /\ "none" \notin Sockets
  BY SocketsAssumption DEF TypeOK, Socket
<1>1. ASSUME NEW s \in Sockets, Accept(s)
      PROVE  NobodyCalls'
  <2>1. InTurn => \A c \in Sockets : place[c] = "idle" \/ place[c] = "off"
    BY <1>1, FreeThreadLemma DEF Accept, Busy, Handlers
  <2> QED BY <2>1, <1>0, <1>1, SocketsAssumption
          DEF Accept, OneSocketCallsBack, NobodyCalls, InTurn, Alive, Bound, Detached, Socket,
              NoSocket, Go, Threads
<1>2. ASSUME NEW s \in Sockets, Attach(s)
      PROVE  NobodyCalls'
  BY <1>0, <1>2, SocketsAssumption
     DEF Attach, NobodyCalls, InTurn, Alive, Bound, Socket, Go, Threads
<1>3. CASE Up
  BY <1>0, <1>3, SocketsAssumption
     DEF Up, connection, NobodyCalls, InTurn, Alive, Bound, Socket, Go, Threads
<1>4. CASE AcceptFails
  BY <1>0, <1>4, SocketsAssumption
     DEF AcceptFails, connection, NobodyCalls, InTurn, Alive, Bound, Socket, Go, Threads
<1>5. ASSUME NEW s \in Sockets, NEW message \in {"logon", "logout"}, Arrives(s, message)
      PROVE  NobodyCalls'
  BY <1>0, <1>5, SocketsAssumption
     DEF Arrives, connection, NobodyCalls, InTurn, Alive, Socket, Go, Threads
<1>6. ASSUME NEW s \in Sockets, Ignored(s)
      PROVE  NobodyCalls'
  BY <1>0, <1>6, SocketsAssumption
     DEF Ignored, connection, NobodyCalls, InTurn, Alive, Bound, Socket, Go, Threads
<1>7. ASSUME NEW s \in Sockets, ReceiveLogon(s)
      PROVE  NobodyCalls'
  BY <1>0, <1>7, SocketsAssumption
     DEF ReceiveLogon, connection, NobodyCalls, InTurn, Alive, Bound, Socket, Go, Threads
<1>8. ASSUME NEW s \in Sockets, RefuseDuplicate(s)
      PROVE  NobodyCalls'
  BY <1>0, <1>8, SocketsAssumption
     DEF RefuseDuplicate, NobodyCalls, InTurn, Alive, Bound, Socket, NoSocket, Go, Threads
<1>9. ASSUME NEW s \in Sockets, ReceiveLogout(s)
      PROVE  NobodyCalls'
  BY <1>0, <1>9, SocketsAssumption
     DEF ReceiveLogout, connection, NobodyCalls, InTurn, Alive, Bound, Socket, Go, Threads
<1>10. ASSUME NEW s \in Sockets, Breaks(s)
      PROVE  NobodyCalls'
  BY <1>0, <1>10, SocketsAssumption
     DEF Breaks, Closes, connection, OneSocketCallsBack, NobodyCalls, InTurn, Alive, Bound,
         Socket, NoSocket, Go, Threads
<1>11. ASSUME NEW s \in Sockets, CloseTask(s)
      PROVE  NobodyCalls'
  BY <1>0, <1>11, SocketsAssumption
     DEF CloseTask, Closes, connection, OneSocketCallsBack, NobodyCalls, InTurn, Alive, Bound,
         Socket, NoSocket, Go, Threads
<1>12. ASSUME NEW s \in Sockets, OnClosed(s)
      PROVE  NobodyCalls'
  BY <1>0, <1>12, SocketsAssumption DEF OnClosed, NobodyCalls, InTurn, Alive, Bound, Socket, Go, Threads
<1>13. ASSUME NEW s \in Sockets, Down(s)
      PROVE  NobodyCalls'
  BY <1>0, <1>13, SocketsAssumption
     DEF Down, connection, NobodyCalls, InTurn, Alive, Bound, Socket, Go, Threads
<1>14. ASSUME NEW t \in Threads, StartClose(t)
      PROVE  NobodyCalls'
  BY <1>0, <1>14, SocketsAssumption
     DEF StartClose, NobodyCalls, InTurn, Alive, Bound, Socket, Go, Threads
<1>15. ASSUME NEW t \in Threads, CloseServer(t)
      PROVE  NobodyCalls'
  BY <1>0, <1>15, SocketsAssumption
     DEF CloseServer, NobodyCalls, InTurn, Alive, Bound, Socket, Go, Threads
<1>16. ASSUME NEW t \in Threads, NEW c \in Sockets, CloseClient(t, c)
      PROVE  NobodyCalls'
  BY <1>0, <1>16, SocketsAssumption
     DEF CloseClient, NobodyCalls, InTurn, Alive, Bound, Socket, NoSocket, Go, Threads
<1>17. ASSUME NEW t \in Threads, CloseDone(t)
      PROVE  NobodyCalls'
  BY <1>0, <1>17, SocketsAssumption
     DEF CloseDone, CallerOf, NobodyCalls, InTurn, Alive, Bound, Socket, Go, Threads
<1>18. CASE TestTimeout
  BY <1>0, <1>18, SocketsAssumption
     DEF TestTimeout, connection, NobodyCalls, InTurn, Alive, Bound, Socket, Go, Threads
<1>19. CASE DoLogout
  BY <1>0, <1>19, SocketsAssumption
     DEF DoLogout, connection, NobodyCalls, InTurn, Alive, Bound, Socket, Go, Threads
<1>20. CASE Stop
  BY <1>0, <1>20, SocketsAssumption
     DEF Stop, Running, connection, NobodyCalls, InTurn, Alive, Bound, Socket, Go, Threads
<1>21. CASE Detach
  <2>1. \A s \in Sockets : (Bound(s)' => Bound(s)) /\ place'[s] = place[s]
    BY <1>21, DetachLemma, SocketsAssumption DEF Threads
  <2>2. Alive /\ config' = config
    BY <1>21, DetachLemma DEF Alive
  <2> QED BY <2>1, <2>2 DEF NobodyCalls, InTurn
<1>22. CASE UNCHANGED vars
  BY <1>0, <1>22, SocketsAssumption
     DEF vars, connection, NobodyCalls, InTurn, Alive, Bound, Socket, Go, Threads
<1> QED
  BY <1>1, <1>2, <1>3, <1>4, <1>5, <1>6, <1>7, <1>8, <1>9, <1>10, <1>11, <1>12, <1>13,
     <1>14, <1>15, <1>16, <1>17, <1>18, <1>19, <1>20, <1>21, <1>22
     DEF Next, Accepting, Strand, Timer, Main, Close, Threads

LEMMA MakingStep ==
  ASSUME TypeOK, Whereabouts, OneAtATime, OneSocketCallsBack, NobodyCalls, Making, [Next]_vars
  PROVE  Making'
<1>0. /\ place \in [Threads -> Places] /\ sockets \in [Sockets -> Socket]
      /\ socket \in Sockets \cup {"none"} /\ "none" \notin Sockets
  BY SocketsAssumption DEF TypeOK, Socket
<1>1. ASSUME NEW s \in Sockets, Accept(s)
      PROVE  Making'
  <2>1. \A c \in Sockets : sockets[c].phase # "made"
    BY <1>1 DEF Accept, Making
  <2>2. place'["accept"] = "made"
    BY <1>0, <1>1, AcceptLemma DEF Threads
  <2> QED BY <2>1, <2>2, <1>1, AcceptLemma DEF Making
<1>2. ASSUME NEW s \in Sockets, Attach(s)
      PROVE  Making'
  BY <1>0, <1>2 DEF Attach, Making, Bound, Socket, Go, Threads
<1>3. CASE Up
  BY <1>0, <1>3 DEF Up, connection, Making, Bound, Socket, Go, Threads
<1>4. CASE AcceptFails
  BY <1>0, <1>4 DEF AcceptFails, connection, Making, Bound, Socket, Go, Threads
<1>5. ASSUME NEW s \in Sockets, NEW message \in {"logon", "logout"}, Arrives(s, message)
      PROVE  Making'
  BY <1>0, <1>5, SocketsAssumption
     DEF Arrives, connection, Making, InTurn, Bound, Running, Socket, Go, Threads, Handlers
<1>6. ASSUME NEW s \in Sockets, Ignored(s)
      PROVE  Making'
  BY <1>0, <1>6, SocketsAssumption
     DEF Ignored, connection, Making, OneAtATime, InTurn, Bound, Socket, Go, Threads, Busy,
         Handlers
<1>7. ASSUME NEW s \in Sockets, ReceiveLogon(s)
      PROVE  Making'
  BY <1>0, <1>7, SocketsAssumption
     DEF ReceiveLogon, connection, Making, OneAtATime, InTurn, Bound, Socket, Go, Threads, Busy,
         Handlers
<1>8. ASSUME NEW s \in Sockets, RefuseDuplicate(s)
      PROVE  Making'
  BY <1>0, <1>8, SocketsAssumption
     DEF RefuseDuplicate, Making, OneAtATime, InTurn, Bound, Socket, NoSocket, Go, Threads, Busy,
         Handlers
<1>9. ASSUME NEW s \in Sockets, ReceiveLogout(s)
      PROVE  Making'
  BY <1>0, <1>9, SocketsAssumption
     DEF ReceiveLogout, connection, Making, OneAtATime, InTurn, Bound, Socket, Go, Threads, Busy,
         Handlers
<1>10. ASSUME NEW s \in Sockets, Breaks(s)
      PROVE  Making'
  BY <1>0, <1>10, SocketsAssumption
     DEF Breaks, Closes, connection, Making, InTurn, Bound, Running, Socket, NoSocket, Go,
         Threads, Handlers
<1>11. ASSUME NEW s \in Sockets, CloseTask(s)
      PROVE  Making'
  BY <1>0, <1>11, SocketsAssumption
     DEF CloseTask, Closes, connection, Making, InTurn, Bound, Running, Socket, NoSocket, Go,
         Threads, Handlers
<1>12. ASSUME NEW s \in Sockets, OnClosed(s)
      PROVE  Making'
  BY <1>0, <1>12, SocketsAssumption
     DEF OnClosed, Making, OneAtATime, InTurn, Bound, Socket, Go, Threads, Busy, Handlers
<1>13. ASSUME NEW s \in Sockets, Down(s)
      PROVE  Making'
  BY <1>0, <1>13, SocketsAssumption
     DEF Down, connection, Making, OneAtATime, InTurn, Bound, Socket, Go, Threads, Busy, Handlers
<1>14. ASSUME NEW t \in Threads, StartClose(t)
      PROVE  Making'
  BY <1>0, <1>14, SocketsAssumption
     DEF StartClose, Making, InTurn, Bound, Running, Socket, Go, Threads, Handlers
<1>15. ASSUME NEW t \in Threads, CloseServer(t)
      PROVE  Making'
  BY <1>0, <1>15, SocketsAssumption
     DEF CloseServer, Making, InTurn, Bound, Running, Socket, Go, Threads, Handlers
<1>16. ASSUME NEW t \in Threads, NEW c \in Sockets, CloseClient(t, c)
      PROVE  Making'
  BY <1>0, <1>16, SocketsAssumption
     DEF CloseClient, Walks, Making, OneAtATime, InTurn, Bound, Running, Socket, NoSocket, Go,
         Threads, Busy, Handlers
<1>17. ASSUME NEW t \in Threads, CloseDone(t)
      PROVE  Making'
  BY <1>0, <1>17, SocketsAssumption
     DEF CloseDone, CallerOf, Making, InTurn, Bound, Running, Socket, Go, Threads, Handlers
<1>18. CASE TestTimeout
  BY <1>0, <1>18, SocketsAssumption
     DEF TestTimeout, connection, Making, InTurn, Bound, Socket, Go, Threads, Handlers
<1>19. CASE DoLogout
  BY <1>0, <1>19, SocketsAssumption
     DEF DoLogout, connection, Making, InTurn, Bound, Socket, Go, Threads, Handlers
<1>20. CASE Stop
  BY <1>0, <1>20 DEF Stop, connection, Making, Bound, Running, Socket, Go, Threads
<1>21. CASE Detach
  BY <1>0, <1>21 DEF Detach, connection, Making, Bound, Running, Socket, Go, Threads
<1>22. CASE UNCHANGED vars
  BY <1>0, <1>22, SocketsAssumption
     DEF vars, connection, Making, InTurn, Bound, Running, Socket, Go, Threads, Handlers
<1> QED
  BY <1>1, <1>2, <1>3, <1>4, <1>5, <1>6, <1>7, <1>8, <1>9, <1>10, <1>11, <1>12, <1>13,
     <1>14, <1>15, <1>16, <1>17, <1>18, <1>19, <1>20, <1>21, <1>22
     DEF Next, Accepting, Strand, Timer, Main, Close, Threads

LEMMA ClosersStep ==
  ASSUME TypeOK, Whereabouts, Closers, [Next]_vars
  PROVE  Closers'
<1>0. /\ place \in [Threads -> Places] /\ sockets \in [Sockets -> Socket]
      /\ socket \in Sockets \cup {"none"} /\ "none" \notin Sockets
  BY SocketsAssumption DEF TypeOK, Socket
<1>1. ASSUME NEW s \in Sockets, Accept(s)
      PROVE  Closers'
  BY <1>0, <1>1, AcceptLemma DEF Accept, Closers, InClose, Threads, Socket
<1>2. ASSUME NEW s \in Sockets, Attach(s)
      PROVE  Closers'
  BY <1>0, <1>2 DEF Attach, Closers, InClose, Socket, Go, Threads
<1>3. CASE Up
  BY <1>0, <1>3 DEF Up, connection, Closers, InClose, Socket, Go, Threads
<1>4. CASE AcceptFails
  BY <1>0, <1>4 DEF AcceptFails, connection, Closers, InClose, Socket, Go, Threads
<1>5. ASSUME NEW s \in Sockets, NEW message \in {"logon", "logout"}, Arrives(s, message)
      PROVE  Closers'
  <2>1. \A c \in Sockets : sockets'[c].closer = sockets[c].closer
    BY <1>0, <1>5 DEF Arrives, Socket
  <2>2. \A t \in Threads : InClose(t) => InClose(t)'
    BY <1>0, <1>5 DEF Arrives, CanRun, InClose, Go
  <2> QED BY <2>1, <2>2, <1>0 DEF Closers, Socket
<1>6. ASSUME NEW s \in Sockets, Ignored(s)
      PROVE  Closers'
  BY <1>0, <1>6 DEF Ignored, connection, Closers, InClose, Socket, Go, Threads
<1>7. ASSUME NEW s \in Sockets, ReceiveLogon(s)
      PROVE  Closers'
  BY <1>0, <1>7 DEF ReceiveLogon, connection, Closers, InClose, Socket, Go, Threads
<1>8. ASSUME NEW s \in Sockets, RefuseDuplicate(s)
      PROVE  Closers'
  BY <1>0, <1>8 DEF RefuseDuplicate, Closers, InClose, Socket, NoSocket, Go, Threads
<1>9. ASSUME NEW s \in Sockets, ReceiveLogout(s)
      PROVE  Closers'
  BY <1>0, <1>9 DEF ReceiveLogout, connection, Closers, InClose, Socket, Go, Threads
<1>10. ASSUME NEW s \in Sockets, Breaks(s)
      PROVE  Closers'
  <2>1. \A c \in Sockets : sockets'[c].closer \in {"none", sockets[c].closer}
    BY <1>10, ClosesLemma DEF Breaks
  <2>2. \A t \in Threads : InClose(t) => InClose(t)'
    BY <1>0, <1>10, ClosesLemma DEF Breaks, CanRun, InClose
  <2> QED BY <2>1, <2>2, <1>0 DEF Closers, Socket
<1>11. ASSUME NEW s \in Sockets, CloseTask(s)
      PROVE  Closers'
  <2>1. \A c \in Sockets : sockets'[c].closer \in {"none", sockets[c].closer}
    BY <1>11, ClosesLemma DEF CloseTask
  <2>2. \A t \in Threads : InClose(t) => InClose(t)'
    BY <1>0, <1>11, ClosesLemma DEF CloseTask, CanRun, InClose
  <2> QED BY <2>1, <2>2, <1>0 DEF Closers, Socket
<1>12. ASSUME NEW s \in Sockets, OnClosed(s)
      PROVE  Closers'
  BY <1>0, <1>12 DEF OnClosed, Closers, InClose, Socket, Go, Threads
<1>13. ASSUME NEW s \in Sockets, Down(s)
      PROVE  Closers'
  BY <1>0, <1>13 DEF Down, connection, Closers, InClose, Socket, Go, Threads
<1>14. ASSUME NEW t \in Threads, StartClose(t)
      PROVE  Closers'
  BY <1>0, <1>14 DEF StartClose, Closers, InClose, Socket, Go, Threads
<1>15. ASSUME NEW t \in Threads, CloseServer(t)
      PROVE  Closers'
  BY <1>0, <1>15 DEF CloseServer, Closers, InClose, Socket, Go, Threads
<1>16. ASSUME NEW t \in Threads, NEW c \in Sockets, CloseClient(t, c)
      PROVE  Closers'
  BY <1>0, <1>16 DEF CloseClient, Walks, Closers, InClose, Socket, NoSocket, Go, Threads
<1>17. ASSUME NEW t \in Threads, CloseDone(t)
      PROVE  Closers'
  BY <1>0, <1>17 DEF CloseDone, Waits, Closers, InClose, Socket, Go, Threads
<1>18. CASE TestTimeout
  BY <1>0, <1>18 DEF TestTimeout, connection, Closers, InClose, Socket, Go, Threads
<1>19. CASE DoLogout
  BY <1>0, <1>19 DEF DoLogout, connection, Closers, InClose, Socket, Go, Threads
<1>20. CASE Stop
  BY <1>0, <1>20 DEF Stop, Running, connection, Closers, InClose, Socket, Go, Threads
<1>21. CASE Detach
  BY <1>0, <1>21 DEF Detach, connection, Closers, InClose, Socket, Go, Threads
<1>22. CASE UNCHANGED vars
  BY <1>0, <1>22 DEF vars, connection, Closers, InClose, Socket, Go, Threads
<1> QED
  BY <1>1, <1>2, <1>3, <1>4, <1>5, <1>6, <1>7, <1>8, <1>9, <1>10, <1>11, <1>12, <1>13,
     <1>14, <1>15, <1>16, <1>17, <1>18, <1>19, <1>20, <1>21, <1>22
     DEF Next, Accepting, Strand, Timer, Main, Close, Threads

LEMMA KnownStep ==
  ASSUME TypeOK, Whereabouts, OneAtATime, OneSocketCallsBack, NobodyCalls, Making, Known, [Next]_vars
  PROVE  Known'
<1>0. /\ place \in [Threads -> Places] /\ sockets \in [Sockets -> Socket]
      /\ socket \in Sockets \cup {"none"} /\ "none" \notin Sockets
  BY SocketsAssumption DEF TypeOK, Socket
<1>1. ASSUME NEW s \in Sockets, Accept(s)
      PROVE  Known'
  BY <1>0, <1>1 DEF Accept, Known, Socket, Go, Threads
<1>2. ASSUME NEW s \in Sockets, Attach(s)
      PROVE  Known'
  BY <1>0, <1>2, SocketsAssumption
     DEF Attach, Making, Known, HasSocket, InTurn, Bound, Running, Socket, Go, Threads, Handlers
<1>3. CASE Up
  BY <1>0, <1>3, SocketsAssumption
     DEF Up, connection, Known, HasSocket, InTurn, Bound, Running, Socket, Go, Threads, Handlers
<1>4. CASE AcceptFails
  BY <1>0, <1>4, SocketsAssumption
     DEF AcceptFails, connection, Known, HasSocket, InTurn, Bound, Running, Socket, Go, Threads,
         Handlers
<1>5. ASSUME NEW s \in Sockets, NEW message \in {"logon", "logout"}, Arrives(s, message)
      PROVE  Known'
  BY <1>0, <1>5, SocketsAssumption
     DEF Arrives, connection, Known, HasSocket, OneSocketCallsBack, InTurn, Bound, Running, Alive,
         Socket, Go, Threads, Handlers
<1>6. ASSUME NEW s \in Sockets, Ignored(s)
      PROVE  Known'
  BY <1>0, <1>6, SocketsAssumption
     DEF Ignored, connection, Known, OneAtATime, InTurn, Socket, Go, Threads, Busy, Handlers
<1>7. ASSUME NEW s \in Sockets, ReceiveLogon(s)
      PROVE  Known'
  BY <1>0, <1>7, SocketsAssumption
     DEF ReceiveLogon, connection, Known, HasSocket, InTurn, Bound, Running, Socket, Go, Threads,
         Handlers
<1>8. ASSUME NEW s \in Sockets, RefuseDuplicate(s)
      PROVE  Known'
  BY <1>0, <1>8, SocketsAssumption
     DEF RefuseDuplicate, Fresh, Known, HasSocket, OneAtATime, InTurn, Bound, Running, Socket, Go,
         Threads, Busy, Handlers
<1>9. ASSUME NEW s \in Sockets, ReceiveLogout(s)
      PROVE  Known'
  BY <1>0, <1>9, SocketsAssumption
     DEF ReceiveLogout, connection, Known, HasSocket, InTurn, Bound, Running, Socket, Go, Threads,
         Handlers
<1>10. ASSUME NEW s \in Sockets, Breaks(s)
      PROVE  Known'
  <2>1. InTurn => ~Busy("accept") /\ \A c \in Sockets : ~Busy(c)
    BY <1>10, FreeThreadLemma DEF Breaks, CanRun, Handlers
  <2>2. CASE Bound(s)
    <3>1. place'[s] = "closed" /\ place'["accept"] = place["accept"] /\ Running' = Running /\ config' = config
      BY <1>0, <1>10, <2>2, ClosesLemma, SocketsAssumption DEF Breaks, Threads, Running
    <3> QED BY <2>1, <3>1 DEF Known, Busy, InTurn
  <2>3. CASE ~Bound(s)
    BY <1>0, <1>10, <2>3, ClosesLemma
       DEF Breaks, connection, Known, HasSocket, InTurn, Bound, Running
  <2> QED BY <2>2, <2>3
<1>11. ASSUME NEW s \in Sockets, CloseTask(s)
      PROVE  Known'
  <2>1. InTurn => ~Busy("accept") /\ \A c \in Sockets : ~Busy(c)
    BY <1>11, FreeThreadLemma DEF CloseTask, CanRun, Handlers
  <2>2. CASE Bound(s)
    <3>1. place'[s] = "closed" /\ place'["accept"] = place["accept"] /\ Running' = Running /\ config' = config
      BY <1>0, <1>11, <2>2, ClosesLemma, SocketsAssumption DEF CloseTask, Threads, Running
    <3> QED BY <2>1, <3>1 DEF Known, Busy, InTurn
  <2>3. CASE ~Bound(s)
    BY <1>0, <1>11, <2>3, ClosesLemma
       DEF CloseTask, connection, Known, HasSocket, InTurn, Bound, Running
  <2> QED BY <2>2, <2>3
<1>12. ASSUME NEW s \in Sockets, OnClosed(s)
      PROVE  Known'
  BY <1>0, <1>12, SocketsAssumption
     DEF OnClosed, Known, OneAtATime, InTurn, Socket, Go, Threads, Busy, Handlers
<1>13. ASSUME NEW s \in Sockets, Down(s)
      PROVE  Known'
  BY <1>0, <1>13, SocketsAssumption
     DEF Down, connection, Fresh, Known, OneAtATime, InTurn, Socket, Go, Threads, Busy, Handlers
<1>14. ASSUME NEW t \in Threads, StartClose(t)
      PROVE  Known'
  BY <1>0, <1>14, SocketsAssumption
     DEF StartClose, Known, HasSocket, InTurn, Bound, Running, Socket, Go, Threads, Handlers
<1>15. ASSUME NEW t \in Threads, CloseServer(t)
      PROVE  Known'
  BY <1>0, <1>15, SocketsAssumption
     DEF CloseServer, Known, HasSocket, InTurn, Bound, Running, Socket, Go, Threads, Handlers
<1>16. ASSUME NEW t \in Threads, NEW c \in Sockets, CloseClient(t, c)
      PROVE  Known'
  BY <1>0, <1>16, SocketsAssumption
     DEF CloseClient, Walks, Fresh, Known, HasSocket, OneAtATime, InTurn, Bound, Running, Socket,
         Go, Threads, Busy, Handlers
<1>17. ASSUME NEW t \in Threads, CloseDone(t)
      PROVE  Known'
  BY <1>0, <1>17, SocketsAssumption
     DEF CloseDone, CallerOf, Known, HasSocket, InTurn, Bound, Running, Socket, Go, Threads,
         Handlers
<1>18. CASE TestTimeout
  BY <1>0, <1>18, SocketsAssumption
     DEF TestTimeout, connection, Known, HasSocket, InTurn, Bound, Socket, Go, Threads, Handlers
<1>19. CASE DoLogout
  BY <1>0, <1>19, SocketsAssumption
     DEF DoLogout, connection, Known, HasSocket, InTurn, Bound, Socket, Go, Threads, Handlers
<1>20. CASE Stop
  BY <1>0, <1>20 DEF Stop, connection, Known, Running, Socket, Go, Threads
<1>21. CASE Detach
  BY <1>0, <1>21 DEF Detach, connection, Known, Running, Socket, Go, Threads
<1>22. CASE UNCHANGED vars
  BY <1>0, <1>22, SocketsAssumption
     DEF vars, connection, Known, HasSocket, InTurn, Bound, Running, Socket, Go, Threads, Handlers
<1> QED
  BY <1>1, <1>2, <1>3, <1>4, <1>5, <1>6, <1>7, <1>8, <1>9, <1>10, <1>11, <1>12, <1>13,
     <1>14, <1>15, <1>16, <1>17, <1>18, <1>19, <1>20, <1>21, <1>22
     DEF Next, Accepting, Strand, Timer, Main, Close, Threads

LEMMA OrderlyStep ==
  ASSUME Common, Alone, Orderly, Tracked, [Next]_vars
  PROVE  Orderly'
<1>0. /\ place \in [Threads -> Places] /\ sockets \in [Sockets -> Socket]
      /\ socket \in Sockets \cup {"none"} /\ "none" \notin Sockets
  BY SocketsAssumption DEF Common, TypeOK, Socket
<1>1. ASSUME NEW s \in Sockets, Accept(s)
      PROVE  Orderly'
  BY <1>0, <1>1, SocketsAssumption, FreeThreadLemma
     DEF Accept, Undisturbed, Common, Alone, Orderly, InClose, Alive, Socket, Go, Threads,
         Busy, Handlers
<1>2. ASSUME NEW s \in Sockets, Attach(s)
      PROVE  Orderly'
  BY <1>0, <1>2
     DEF Attach, NextAccept, Orderly, InClose, Outside, Bound, Alive, Socket, Go, Threads
<1>3. CASE Up
  BY <1>0, <1>3
     DEF Up, NextAccept, connection, Orderly, InClose, Bound, Alive, Socket, Go, Threads
<1>4. CASE AcceptFails
  BY <1>0, <1>4, SocketsAssumption
     DEF AcceptFails, connection, Orderly, InClose, Bound, Alive, Socket, Go, Threads
<1>5. ASSUME NEW s \in Sockets, NEW message \in {"logon", "logout"}, Arrives(s, message)
      PROVE  Orderly'
  BY <1>0, <1>5
     DEF Arrives, connection, Common, Alone, Orderly, Tracked, NobodyCalls, InClose, Bound, Alive,
         Socket, Go, Threads
<1>6. ASSUME NEW s \in Sockets, Ignored(s)
      PROVE  Orderly'
  BY <1>0, <1>6 DEF Ignored, connection, Orderly, InClose, Bound, Alive, Socket, Go, Threads
<1>7. ASSUME NEW s \in Sockets, ReceiveLogon(s)
      PROVE  Orderly'
  BY <1>0, <1>7
     DEF ReceiveLogon, connection, Common, Alone, Orderly, OneSocketCallsBack, InClose, Alive,
         Socket, Go, Threads
<1>8. ASSUME NEW s \in Sockets, RefuseDuplicate(s)
      PROVE  Orderly'
  BY <1>0, <1>8
     DEF RefuseDuplicate, Common, Alone, Orderly, Whereabouts, OneSocketCallsBack, InClose,
         Outside, Alive, Socket, Go, Threads
<1>9. ASSUME NEW s \in Sockets, ReceiveLogout(s)
      PROVE  Orderly'
  BY <1>0, <1>9
     DEF ReceiveLogout, connection, Orderly, InClose, Bound, Alive, Socket, Go, Threads
<1>10. ASSUME NEW s \in Sockets, Breaks(s)
      PROVE  Orderly'
  BY <1>0, <1>10, SocketsAssumption, ClosesLemma
     DEF Breaks, connection, Common, Alone, Orderly, NobodyCalls, InClose, Outside, Bound,
         Alive, Socket, Go, Threads
<1>11. ASSUME NEW s \in Sockets, CloseTask(s)
      PROVE  Orderly'
  BY <1>0, <1>11, SocketsAssumption, ClosesLemma
     DEF CloseTask, connection, Common, Alone, Orderly, NobodyCalls, InClose, Outside, Bound,
         Alive, Socket, Go, Threads
<1>12. ASSUME NEW s \in Sockets, OnClosed(s)
      PROVE  Orderly'
  BY <1>0, <1>12
     DEF OnClosed, Common, Alone, Orderly, NobodyCalls, InClose, Alive, Socket, Go, Threads
<1>13. ASSUME NEW s \in Sockets, Down(s)
      PROVE  Orderly'
  BY <1>0, <1>13 DEF Down, connection, Orderly, InClose, Bound, Alive, Socket, Go, Threads
<1>14. ASSUME NEW t \in Threads, StartClose(t)
      PROVE  Orderly'
  BY <1>0, <1>14
     DEF StartClose, MayInterfere, Common, Alone, Orderly, Whereabouts, Socket, Go, Threads, Busy,
         Handlers
<1>15. ASSUME NEW t \in Threads, CloseServer(t)
      PROVE  Orderly'
  BY <1>0, <1>15
     DEF CloseServer, Common, Alone, Orderly, Whereabouts, OneAtATime, InClose, Outside, Alive,
         Socket, Go, Threads, Busy, Handlers
<1>16. ASSUME NEW t \in Threads, NEW c \in Sockets, CloseClient(t, c)
      PROVE  Orderly'
  BY <1>0, <1>16 DEF CloseClient, Walks, Orderly, InClose, Bound, Alive, Socket, Go, Threads
<1>17. ASSUME NEW t \in Threads, CloseDone(t)
      PROVE  Orderly'
  BY <1>0, <1>17
     DEF CloseDone, CallerOf, Common, Alone, Orderly, OneAtATime, InClose, Outside, Alive,
         Socket, Go, Threads, Busy, Handlers
<1>18. CASE TestTimeout
  BY <1>0, <1>18
     DEF TestTimeout, connection, Orderly, InClose, Bound, Alive, Socket, Go, Threads
<1>19. CASE DoLogout
  BY <1>0, <1>19 DEF DoLogout, connection, Orderly, InClose, Bound, Alive, Socket, Go, Threads
<1>20. CASE Stop
  BY <1>0, <1>20
     DEF Stop, connection, Orderly, InClose, Outside, Bound, Alive, Socket, Go, Threads
<1>21. CASE Detach
  BY <1>0, <1>21, DetachLemma, SocketsAssumption
     DEF MayInterfere, Common, Alone, Orderly, Whereabouts, InClose, Outside, Alive, Threads, Busy, Handlers
<1>22. CASE UNCHANGED vars
  BY <1>0, <1>22 DEF vars, connection, Orderly, InClose, Bound, Alive, Socket, Go, Threads
<1> QED
  BY <1>1, <1>2, <1>3, <1>4, <1>5, <1>6, <1>7, <1>8, <1>9, <1>10, <1>11, <1>12, <1>13,
     <1>14, <1>15, <1>16, <1>17, <1>18, <1>19, <1>20, <1>21, <1>22
     DEF Next, Accepting, Strand, Timer, Main, Close, Threads

LEMMA TrackedStep ==
  ASSUME Common, Alone, Orderly, Tracked, [Next]_vars
  PROVE  Tracked'
<1>0. /\ place \in [Threads -> Places] /\ sockets \in [Sockets -> Socket]
      /\ socket \in Sockets \cup {"none"} /\ "none" \notin Sockets
  BY SocketsAssumption DEF Common, TypeOK, Socket
<1>1. ASSUME NEW s \in Sockets, Accept(s)
      PROVE  Tracked'
  <2>1. /\ \A t \in Handlers : ~Busy(t)
        /\ \A t \in Outside : ~InClose(t)
        /\ server = "listening"
    BY <1>1, FreeThreadLemma DEF Accept, Undisturbed, Alone, Common
  <2>2. \A t \in Threads : ~InClose(t)
    BY <2>1 DEF Busy, InClose, Handlers, Threads, Outside
  <2>3. \A c \in Sockets : sockets[c].closer = "none" /\ sockets[c].phase # "made"
    BY <2>2, <1>0, <1>1 DEF Accept, Common, Closers, Making, Socket
  <2>4. \A c \in Sockets : sockets[c].phase # "closed" => Open(c)
    BY <2>3, <1>0 DEF Open, Socket
  <2>5. \A c \in Sockets : sockets'[c].phase # "closed" => c \in clients'
    BY <2>4, <1>1, AcceptLemma DEF Accept, Tracked, Common
  <2>6. /\ \A t \in Threads : place'[t] # "clients"
        /\ place'["main"] = place["main"]
    BY <2>2, <1>0, <1>1, AcceptLemma DEF InClose, Threads, Common
  <2> QED BY <2>1, <2>5, <2>6, <1>1, AcceptLemma DEF Tracked, Common
<1>2. ASSUME NEW s \in Sockets, Attach(s)
      PROVE  Tracked'
  BY <1>0, <1>2 DEF Attach, NextAccept, Tracked, Socket, Go, Threads
<1>3. CASE Up
  BY <1>0, <1>3 DEF Up, NextAccept, connection, Tracked, Socket, Go, Threads
<1>4. CASE AcceptFails
  BY <1>0, <1>4 DEF AcceptFails, connection, Tracked, Socket, Go, Threads
<1>5. ASSUME NEW s \in Sockets, NEW message \in {"logon", "logout"}, Arrives(s, message)
      PROVE  Tracked'
  BY <1>0, <1>5 DEF Arrives, connection, CanRun, Tracked, Socket, Go, Threads
<1>6. ASSUME NEW s \in Sockets, Ignored(s)
      PROVE  Tracked'
  BY <1>0, <1>6 DEF Ignored, connection, Tracked, Socket, Go, Threads
<1>7. ASSUME NEW s \in Sockets, ReceiveLogon(s)
      PROVE  Tracked'
  BY <1>0, <1>7 DEF ReceiveLogon, connection, Tracked, Socket, Go, Threads
<1>8. ASSUME NEW s \in Sockets, RefuseDuplicate(s)
      PROVE  Tracked'
  BY <1>0, <1>8 DEF RefuseDuplicate, Tracked, Socket, NoSocket, Go, Threads
<1>9. ASSUME NEW s \in Sockets, ReceiveLogout(s)
      PROVE  Tracked'
  BY <1>0, <1>9 DEF ReceiveLogout, connection, Tracked, Socket, Go, Threads
<1>10. ASSUME NEW s \in Sockets, Breaks(s)
      PROVE  Tracked'
  <2>1. \A t \in Threads : \A p \in {"clients", "stopped"} : place[t] = p <=> place'[t] = p
    BY <1>0, <1>10, ClosesLemma DEF Breaks, CanRun, Common
  <2>2. \A c \in Sockets : sockets'[c].phase # "closed" => sockets[c].phase # "closed"
    BY <1>10, ClosesLemma DEF Breaks, Common
  <2> QED BY <2>1, <2>2, <1>10, ClosesLemma DEF Threads, Breaks, connection, Tracked, Common
<1>11. ASSUME NEW s \in Sockets, CloseTask(s)
      PROVE  Tracked'
  <2>1. \A t \in Threads : \A p \in {"clients", "stopped"} : place[t] = p <=> place'[t] = p
    BY <1>0, <1>11, ClosesLemma DEF CloseTask, CanRun, Common
  <2>2. \A c \in Sockets : sockets'[c].phase # "closed" => sockets[c].phase # "closed"
    BY <1>11, ClosesLemma DEF CloseTask, Common
  <2> QED BY <2>1, <2>2, <1>11, ClosesLemma DEF Threads, CloseTask, connection, Tracked, Common
<1>12. ASSUME NEW s \in Sockets, OnClosed(s)
      PROVE  Tracked'
  BY <1>0, <1>12 DEF OnClosed, Tracked, Socket, Go, Threads
<1>13. ASSUME NEW s \in Sockets, Down(s)
      PROVE  Tracked'
  BY <1>0, <1>13 DEF Down, connection, Tracked, Socket, Go, Threads
<1>14. ASSUME NEW t \in Threads, StartClose(t)
      PROVE  Tracked'
  BY <1>0, <1>14 DEF StartClose, Tracked, Socket, Go, Threads
<1>15. ASSUME NEW t \in Threads, CloseServer(t)
      PROVE  Tracked'
  BY <1>0, <1>15 DEF CloseServer, Tracked, Socket, Go, Threads
<1>16. ASSUME NEW t \in Threads, NEW c \in Sockets, CloseClient(t, c)
      PROVE  Tracked'
  BY <1>0, <1>16 DEF CloseClient, Tracked, Socket, NoSocket, Go, Threads
<1>17. ASSUME NEW t \in Threads, CloseDone(t)
      PROVE  Tracked'
  <2>1. \A u \in Threads : InClose(u) => u = t
    BY <1>17
       DEF CloseDone, InClose, Busy, Handlers, Outside, Threads, Common, OneAtATime, Alone,
           Orderly, Whereabouts, Running
  <2>2. \A c \in Sockets : sockets[c].closer = "none"
    BY <2>1, <1>0, <1>17 DEF CloseDone, Waits, Common, Closers, Socket
  <2>3. server # "listening"
    BY <1>17 DEF CloseDone, Tracked
  <2>4. \A c \in Sockets : sockets[c].phase # "made"
    BY <2>3 DEF Common, Making, Orderly
  <2>5. \A c \in Sockets : sockets[c].phase # "closed" => Open(c) /\ c \in clients /\ server = "closed"
    BY <2>2, <2>3, <2>4, <1>0 DEF Open, Socket, Tracked, Common, TypeOK
  <2>6. \A c \in Sockets : sockets[c].phase = "closed"
    BY <2>5, <1>17 DEF CloseDone, Walks
  <2>7. CallerOf(t) # "clients"
    BY DEF CallerOf
  <2> QED BY <2>3, <2>6, <2>7, <1>0, <1>17 DEF CloseDone, Tracked, Go
<1>18. CASE TestTimeout
  BY <1>0, <1>18 DEF TestTimeout, connection, Tracked, Socket, Go, Threads
<1>19. CASE DoLogout
  <2>1. \A t \in Threads : \A p \in {"clients", "stopped"} : place[t] = p <=> place'[t] = p
    BY <1>0, <1>19 DEF DoLogout
  <2> QED BY <2>1, <1>19 DEF Threads, DoLogout, connection, Tracked
<1>20. CASE Stop
  <2>1. \A t \in Threads : \A p \in {"clients", "stopped"} : place[t] = p <=> place'[t] = p
    BY <1>0, <1>20 DEF Stop, Running, Go
  <2> QED BY <2>1, <1>20 DEF Threads, Stop, connection, Tracked
<1>21. CASE Detach
  BY <1>0, <1>21 DEF Detach, connection, Tracked, Socket, Go, Threads
<1>22. CASE UNCHANGED vars
  BY <1>0, <1>22 DEF vars, connection, Tracked, Socket, Go, Threads
<1> QED
  BY <1>1, <1>2, <1>3, <1>4, <1>5, <1>6, <1>7, <1>8, <1>9, <1>10, <1>11, <1>12, <1>13,
     <1>14, <1>15, <1>16, <1>17, <1>18, <1>19, <1>20, <1>21, <1>22
     DEF Next, Accepting, Strand, Timer, Main, Close, Threads

LEMMA SingleStep ==
  ASSUME Common, Alone, ~config.replaces, Orderly, Single, [Next]_vars
  PROVE  Single'
<1>0. /\ place \in [Threads -> Places] /\ sockets \in [Sockets -> Socket]
      /\ socket \in Sockets \cup {"none"} /\ "none" \notin Sockets
  BY SocketsAssumption DEF Common, TypeOK, Socket
<1>1. ASSUME NEW s \in Sockets, Accept(s)
      PROVE  Single'
  <2>1. \A t \in Handlers : ~Busy(t)
    BY <1>1, FreeThreadLemma DEF Accept, Alone, Common
  <2>2. \A c \in Sockets : sockets[c].phase = "closed"
    BY <1>0, <1>1 DEF Accept, Common, Making, Socket
  <2>3. \A c \in Sockets : ~InClose(c)'
    BY <2>1, <1>0, <1>1, AcceptLemma DEF Busy, InClose, Handlers, Common, Threads
  <2> QED BY <2>2, <2>3, <1>1, AcceptLemma, SocketsAssumption DEF Single, Handlers, Common
<1>2. ASSUME NEW s \in Sockets, Attach(s)
      PROVE  Single'
  BY <1>0, <1>2 DEF Attach, NextAccept, Single, Orderly, InClose, Socket, Go, Threads
<1>3. CASE Up
  BY <1>0, <1>3 DEF Up, NextAccept, connection, Single, Orderly, InClose, Socket, Go, Threads
<1>4. CASE AcceptFails
  BY <1>0, <1>4 DEF AcceptFails, connection, Single, InClose, Socket, Go, Threads
<1>5. ASSUME NEW s \in Sockets, NEW message \in {"logon", "logout"}, Arrives(s, message)
      PROVE  Single'
  BY <1>0, <1>5 DEF Arrives, connection, Single, InClose, Socket, Go, Threads
<1>6. ASSUME NEW s \in Sockets, Ignored(s)
      PROVE  Single'
  BY <1>0, <1>6 DEF Ignored, connection, Single, InClose, Socket, Go, Threads
<1>7. ASSUME NEW s \in Sockets, ReceiveLogon(s)
      PROVE  Single'
  BY <1>0, <1>7 DEF ReceiveLogon, connection, Single, InClose, Socket, Go, Threads
<1>8. ASSUME NEW s \in Sockets, RefuseDuplicate(s)
      PROVE  Single'
  <2>1. socket = s /\ sockets[s].phase # "closed"
    BY <1>8 DEF RefuseDuplicate, Orderly, Common, OneSocketCallsBack, Alone, Making
  <2>2. sockets' = sockets \/ sockets' = [sockets EXCEPT ![s] = NoSocket]
    BY <1>8, <2>1 DEF RefuseDuplicate, OnOwnStrand, CanWrite
  <2>3. \A c \in Sockets : sockets'[c].phase # "closed" => c = s
    BY <2>1, <2>2, <1>0 DEF Single, Socket
  <2>4. \A c \in Sockets : sockets'[c].closer \notin Handlers
    BY <2>2, <1>0 DEF Single, NoSocket, Socket, Handlers
  <2>5. \A c \in Sockets : InClose(c)' => c = s \/ InClose(c)
    BY <1>0, <1>8 DEF RefuseDuplicate, InClose, Go, Threads
  <2>6. \A c \in Sockets : InClose(c) => c = s
    BY <2>1 DEF Single
  <2> QED BY <2>3, <2>4, <2>5, <2>6 DEF Single
<1>9. ASSUME NEW s \in Sockets, ReceiveLogout(s)
      PROVE  Single'
  BY <1>0, <1>9 DEF ReceiveLogout, connection, Single, InClose, Socket, Go, Threads
<1>10. ASSUME NEW s \in Sockets, Breaks(s)
      PROVE  Single'
  BY <1>0, <1>10, ClosesLemma
     DEF Breaks, connection, Single, Common, InClose, Socket, Go, Threads, Handlers
<1>11. ASSUME NEW s \in Sockets, CloseTask(s)
      PROVE  Single'
  BY <1>0, <1>11, ClosesLemma
     DEF CloseTask, connection, Single, Common, InClose, Socket, Go, Threads, Handlers
<1>12. ASSUME NEW s \in Sockets, OnClosed(s)
      PROVE  Single'
  BY <1>0, <1>12 DEF OnClosed, Single, InClose, Socket, Go, Threads
<1>13. ASSUME NEW s \in Sockets, Down(s)
      PROVE  Single'
  BY <1>0, <1>13 DEF Down, connection, Single, InClose, Socket, Go, Threads, Handlers
<1>14. ASSUME NEW t \in Threads, StartClose(t)
      PROVE  Single'
  <2>1. t \in Outside
    BY <1>14 DEF StartClose, Common, Whereabouts, Threads, Outside
  <2>2. \A c \in Sockets : sockets'[c].phase = sockets[c].phase /\ sockets'[c].closer \in {t, sockets[c].closer}
    BY <1>0, <1>14 DEF StartClose, Socket
  <2>3. \A c \in Sockets : InClose(c)' => InClose(c)
    BY <1>0, <1>14, <2>1, SocketsAssumption DEF StartClose, InClose, Go, Threads, Outside
  <2> QED BY <2>1, <2>2, <2>3, SocketsAssumption DEF Single, Handlers, Outside
<1>15. ASSUME NEW t \in Threads, CloseServer(t)
      PROVE  Single'
  BY <1>0, <1>15 DEF CloseServer, Single, InClose, Socket, Go, Threads
<1>16. ASSUME NEW t \in Threads, NEW c \in Sockets, CloseClient(t, c)
      PROVE  Single'
  <2>1. t \in Outside \/ t = c
    BY <1>16 DEF CloseClient, Walks, Open, InClose, Single, Orderly, Threads, Outside
  <2>2. /\ \A s \in Sockets : sockets'[s].phase # "closed" => sockets[s].phase # "closed"
        /\ \A s \in Sockets : sockets'[s].closer \in {sockets[s].closer, "none"} \cup Outside
    BY <1>0, <1>16, <2>1 DEF CloseClient, NoSocket, Socket
  <2>3. place' = place
    BY <1>16 DEF CloseClient
  <2> QED BY <2>2, <2>3, SocketsAssumption DEF Single, InClose, Handlers, Outside
<1>17. ASSUME NEW t \in Threads, CloseDone(t)
      PROVE  Single'
  BY <1>0, <1>17 DEF CloseDone, Single, InClose, Socket, Go, Threads
<1>18. CASE TestTimeout
  BY <1>0, <1>18 DEF TestTimeout, connection, Single, InClose, Socket, Go, Threads
<1>19. CASE DoLogout
  BY <1>0, <1>19 DEF DoLogout, connection, Single, InClose, Socket, Go, Threads
<1>20. CASE Stop
  BY <1>0, <1>20 DEF Stop, connection, Single, InClose, Socket, Go, Threads
<1>21. CASE Detach
  BY <1>0, <1>21 DEF Detach, connection, Single, InClose, Socket, Go, Threads
<1>22. CASE UNCHANGED vars
  BY <1>0, <1>22 DEF vars, connection, Single, InClose, Socket, Go, Threads
<1> QED
  BY <1>1, <1>2, <1>3, <1>4, <1>5, <1>6, <1>7, <1>8, <1>9, <1>10, <1>11, <1>12, <1>13,
     <1>14, <1>15, <1>16, <1>17, <1>18, <1>19, <1>20, <1>21, <1>22
     DEF Next, Accepting, Strand, Timer, Main, Close, Threads

LEMMA InitInv == Init => Inv
<1> SUFFICES ASSUME Init PROVE Inv
  OBVIOUS
<1>1. TypeOK
  BY ConfigsAssumption, TroublesAssumption DEF Init, TypeOK, NoSocket, Fresh, Places, Threads
<1>2. \A s \in Sockets : sockets[s] = NoSocket /\ place[s] = "idle"
  BY SocketsAssumption DEF Init, Threads
<1>3. place["accept"] = "idle" /\ place["timer"] = "sessions" /\ place["main"] = "running"
  BY DEF Init, Threads
<1>4. Common
  BY <1>1, <1>2, <1>3
     DEF Common, Whereabouts, OneAtATime, OneSocketCallsBack, NobodyCalls, Making, Closers,
         Running, Busy, Handlers, Bound, NoSocket
<1>5. Known
  BY <1>3 DEF Init, Known, Fresh
<1>6. Orderly
  BY <1>2, <1>3 DEF Orderly, Outside, InClose
<1>7. Tracked
  BY <1>2, <1>3 DEF Init, Tracked, NoSocket, Threads
<1>8. Single
  BY <1>2, SocketsAssumption DEF Single, NoSocket, Handlers
<1> QED BY <1>4, <1>5, <1>6, <1>7, <1>8 DEF Inv

LEMMA NextInv == Inv /\ [Next]_vars => Inv'
<1> SUFFICES ASSUME Inv, [Next]_vars PROVE Inv'
  OBVIOUS
<1>1. TypeOK /\ Whereabouts /\ OneAtATime /\ OneSocketCallsBack /\ NobodyCalls /\ Making /\ Closers
  BY DEF Inv, Common
<1>2. Common'
  BY <1>1, TypeStep, WhereaboutsStep, OneAtATimeStep, OneSocketStep, NobodyCallsStep, MakingStep,
     ClosersStep
     DEF Common
<1>3. Known'
  BY <1>1, KnownStep DEF Inv
<1>4. config' = config
  BY <1>1, StepsLemma
<1>5. Alone => Orderly' /\ Tracked'
  BY OrderlyStep, TrackedStep DEF Inv
<1>6. Alone /\ ~config.replaces => Single'
  BY SingleStep DEF Inv
<1> QED BY <1>2, <1>3, <1>4, <1>5, <1>6 DEF Inv, Alone, InTurn

-----------------------------------------------------------------------------
THEOREM Invariance == Spec => []Inv
BY InitInv, NextInv, PTL DEF Spec

(* The connection, the sockets and the threads keep their types.            *)
THEOREM TypeCorrect == Spec => []TypeOK
<1>1. Inv => TypeOK
  BY DEF Inv, Common
<1> QED BY <1>1, Invariance, PTL

(* onAccept, onClosed and detach leave no socket that could take m_socket   *)
(* or the transport state from its successor.                               *)
THEOREM OnlyOneSocketCallsBack == Spec => []OneSocketCallsBack
<1>1. Inv => OneSocketCallsBack
  BY DEF Inv, Common
<1> QED BY <1>1, Invariance, PTL

(* No end of a connection overtakes the onConnected of the accept handler,  *)
(* and none is kept from the session.                                       *)
THEOREM SessionAlwaysHasSocket == Spec => []SessionHasSocket
<1>1. Inv => SessionHasSocket
  <2> SUFFICES ASSUME Inv, InTurn, Running, Quiet, session.status # "Disconnected"
               PROVE  socket # "none" /\ Bound(socket) /\ Open(socket)
    BY DEF SessionHasSocket
  <2>1. place["accept"] # "made" /\ \A s \in Sockets : place[s] \notin {"closed", "down"}
    BY DEF Quiet, Busy, Handlers, Threads
  <2>2. HasSocket
    BY <2>1 DEF Inv, Known
  <2>3. socket \in Sockets /\ sockets[socket].closer \in {"none"} \cup Threads
    BY <2>2 DEF HasSocket, Inv, Common, TypeOK
  <2>4. sockets[socket].closer = "none"
    BY <2>3 DEF Inv, Common, Closers, Quiet
  <2> QED BY <2>2, <2>4 DEF HasSocket, Open
<1> QED BY <1>1, Invariance, PTL

(* close() closes also the sockets the connection had let go of, through    *)
(* the list of the server.                                                  *)
THEOREM NothingEverLeftOpen == Spec => []NothingLeftOpen
<1>1. Inv => NothingLeftOpen
  <2> SUFFICES ASSUME Inv, Alone, Quiet, server # "listening", NEW s \in Sockets
               PROVE  sockets[s].phase = "closed"
    BY DEF NothingLeftOpen
  <2>1. Tracked /\ server \in {"listening", "closed", "none"}
    BY DEF Inv, Common, TypeOK
  <2>2. server # "closed"
    BY <2>1 DEF Tracked, Quiet, InClose
  <2> QED BY <2>1, <2>2 DEF Tracked
<1> QED BY <1>1, Invariance, PTL

(* Without replaced connections a handler closes only its own socket, on    *)
(* the spot, and never waits for another strand.                            *)
THEOREM NoHandlerEverWaits == Spec => []NoHandlerWaits
<1>1. Inv => NoHandlerWaits
  BY DEF Inv, Single, NoHandlerWaits, HandlersNonBlocking, Waits
<1> QED BY <1>1, Invariance, PTL

=============================================================================
