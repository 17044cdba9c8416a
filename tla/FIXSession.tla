----------------------------- MODULE FIXSession -----------------------------
(***************************************************************************)
(* One FIX session against a counterparty and a network that may do        *)
(* anything: any frame may arrive at any time, the socket may break, fail  *)
(* or be replaced, the disk may refuse, the application may send or log    *)
(* out, and every deadline of the timer may be due.  Each action is one    *)
(* call that holds m_mutex from its first line to its last.                *)
(*                                                                         *)
(* Numbers are unbounded here; the model-checking module bounds the        *)
(* session's own numbers with MaxSeq and gives the counterparty's numbers  *)
(* the set SeqNums.                                                        *)
(***************************************************************************)
EXTENDS SessionCore

CONSTANTS
  Bodies,    \* payloads of application messages
  Configs,   \* the configurations the session may be created with
  SeqNums,   \* numbers a received message may carry or name
  MaxSeq,    \* no call is made once a number of the session has reached it
  MaxTests   \* the same for the number of its test requests

ASSUME ConfigsAssumption == Configs \subseteq AllConfigs
ASSUME SeqNumsAssumption == SeqNums \subseteq Nat
ASSUME BodiesAssumption  == NoBody \notin Bodies

VARIABLES
  config,       \* m_cfg, fixed when the session is created
  sess,         \* the session record of SessionCore
  timerCloses   \* the timer thread is between the unlock and close of a test timeout

vars == <<config, sess, timerCloses>>

-----------------------------------------------------------------------------
(* The frames a counterparty may send: well formed or not, of any number.  *)
Header == [seq : SeqNums \ {0}, possDup : BOOLEAN]

With(h, msg) == [msg EXCEPT !.seq = h.seq, !.possDup = h.possDup]

Flawed(seq, flaw) == [kind |-> "Flawed", seq |-> seq, possDup |-> FALSE, flaw |-> flaw]

Frames(h) ==
  {With(h, LogonMsg(reset, ok)) : reset \in BOOLEAN, ok \in BOOLEAN}
    \cup {With(h, Msg(kind)) : kind \in {"Logout", "Reject", "Unsupported"}}
    \cup {With(h, HeartbeatMsg(id)) : id \in SeqNums}
    \cup {With(h, TestRequestMsg(id)) : id \in SeqNums}
    \cup {With(h, ResendRequestMsg(b, e)) : b \in SeqNums \ {0}, e \in SeqNums}
    \cup {With(h, GapFillMsg(h.seq, new)) : new \in SeqNums}
    \cup {With(h, AppMsg(body)) : body \in Bodies}
    \cup {Flawed(h.seq, flaw) : flaw \in {"identity", "stale", "content"}}

Frame == {Flawed(seq, "unframed") : seq \in SeqNums} \cup UNION {Frames(h) : h \in Header}

-----------------------------------------------------------------------------
Init ==
  /\ config \in Configs
  /\ sess = [Created EXCEPT !.listening = ~config.initiator]
  /\ timerCloses = FALSE

(* The session's own numbers, which the model-checking runs bound.         *)
Bounded ==
  /\ sess.nextSender < MaxSeq
  /\ sess.nextTarget < MaxSeq
  /\ sess.testRequestID < MaxTests
  /\ Len(sess.outgoing) < MaxSeq

(* What a call wrote and called back is gone when the next one starts.     *)
Becomes(s) == sess' = Begin(s)

(* An initiator starts a connection when its session is disconnected; an   *)
(* acceptor takes a new socket whenever one arrives, and drops the one it  *)
(* had.  Both end in Session::onConnected, where the socket may already    *)
(* refuse what is sent.                                                    *)
Connect ==
  /\ Bounded
  /\ IF config.initiator
       THEN sess.socket = "none" /\ sess.status = "Disconnected"
       ELSE sess.listening
  /\ \E socket \in {"open", "failing"} :
       Becomes(OnConnected(config, [sess EXCEPT !.socket = socket]))
  /\ UNCHANGED <<config, timerCloses>>

(* onRead: a frame arrives on the socket.                                  *)
Receive(m) ==
  /\ Bounded
  /\ sess.socket # "none"
  /\ Becomes(OnReceive(config, sess, m))
  /\ UNCHANGED <<config, timerCloses>>

(* onClosed: the socket is gone before the session hears of it.            *)
ConnectionLost ==
  /\ sess.socket # "none"
  /\ Becomes(OnDisconnected(config, [sess EXCEPT !.socket = "none"]))
  /\ UNCHANGED <<config, timerCloses>>

(* Sends on the socket start to fail although it has not been closed yet.  *)
SocketFails ==
  /\ sess.socket = "open"
  /\ sess' = [sess EXCEPT !.socket = "failing"]
  /\ UNCHANGED <<config, timerCloses>>

(* The disk of a file store fills up, or has room again.                   *)
DiskChanges ==
  /\ config.store = "file"
  /\ sess' = [sess EXCEPT !.disk = IF @ = "ok" THEN "full" ELSE "ok"]
  /\ UNCHANGED <<config, timerCloses>>

(* onTimer, on the runtime's timer thread.                                 *)
Timer(due) ==
  /\ Bounded
  /\ ~timerCloses
  /\ Becomes(OnTimer(config, sess, due))
  /\ timerCloses' = (TimerActive(config, sess) /\ due = "testTimeout" /\ sess.awaitingTest)
  /\ UNCHANGED config

(* The rest of a test timeout: conn.close() without the mutex.             *)
TimerClose ==
  /\ timerCloses
  /\ Becomes(Close(config, sess))
  /\ timerCloses' = FALSE
  /\ UNCHANGED config

(* Session::doLogout from the application or the runtime.                  *)
Logout ==
  /\ Bounded
  /\ Becomes(DoLogout(config, sess))
  /\ UNCHANGED <<config, timerCloses>>

(* FIXRuntime::sendToTarget from the application, at any time.             *)
AppSend(body) ==
  /\ Bounded
  /\ Becomes(Send(config, sess, AppMsg(body)))
  /\ UNCHANGED <<config, timerCloses>>

Next ==
  \/ Connect
  \/ \E m \in Frame : Receive(m)
  \/ ConnectionLost
  \/ SocketFails
  \/ DiskChanges
  \/ \E due \in Deadlines : Timer(due)
  \/ TimerClose
  \/ Logout
  \/ \E body \in Bodies : AppSend(body)

Spec == Init /\ [][Next]_vars

-----------------------------------------------------------------------------
(* Type invariant.  Between calls nothing is pending in the record.        *)
StoredMessage == [seq : Nat \ {0}, admin : BOOLEAN, body : Bodies \cup {NoBody}]

TypeOK ==
  /\ config \in Configs
  /\ timerCloses \in BOOLEAN
  /\ sess \in [status : Statuses, sentLogon : BOOLEAN, receivedLogon : BOOLEAN,
               sentLogout : BOOLEAN, receivedLogout : BOOLEAN, awaitingResend : BOOLEAN,
               resetOnDisconnect : BOOLEAN, awaitingTest : BOOLEAN, testRequestID : Nat,
               nextSender : Nat \ {0}, nextTarget : Nat \ {0},
               outgoing : Seq(StoredMessage), disk : {"ok", "full"},
               socket : {"none", "open", "failing"}, listening : BOOLEAN,
               sent : {<<>>}, calls : {<<>>}, rc : {"ok"}]

(* The numbers of the store ascend and stay below the next number to be     *)
(* given out: getOutgoing stops its scan at the first number above the     *)
(* range, so one message out of place would hide every later one from a    *)
(* resend (MessageStoreBase::getOutgoing, Session::send, reset).  On a     *)
(* disk that refused an append the number is given out a second time.      *)
StoreAscends ==
  LET outgoing       == sess.outgoing
      Precedes(a, b) == IF config.store = "file" THEN a =< b ELSE a < b
  IN  /\ \A j, k \in 1..Len(outgoing) : j < k => Precedes(outgoing[j].seq, outgoing[k].seq)
      /\ \A j \in 1..Len(outgoing) : Precedes(outgoing[j].seq, sess.nextSender)

(* When the connection has no socket nothing of the last connection is      *)
(* left in the session: a stale receivedLogon would turn the next Logon    *)
(* into a duplicate, a stale awaitingResend would suppress the next        *)
(* ResendRequest (onDisconnected on every path that closes).               *)
CleanWhenClosed ==
  sess.socket = "none" =>
    /\ sess.status = "Disconnected"
    /\ ~sess.sentLogon /\ ~sess.receivedLogon
    /\ ~sess.sentLogout /\ ~sess.receivedLogout
    /\ ~sess.awaitingResend /\ ~sess.awaitingTest

(* A session is logged on only after a Logon has gone each way.             *)
LoggedOnBothWays == LoggedOn(sess) => sess.sentLogon /\ sess.receivedLogon

(* A test request is outstanding only while the session that sent it is     *)
(* still there: the answer of an old connection can never be awaited on a  *)
(* new one, and the timeout never fires on a fresh session.                *)
TestAwaitedInSession ==
  sess.awaitingTest => sess.sentLogon /\ sess.receivedLogon /\ sess.testRequestID > 0

(* Numbers go back only on purpose: without a reset setting the session's   *)
(* own numbers never do, and the counterparty's only when the first Logon  *)
(* of a connection asks for it (handleLogonReceived, onDisconnected).      *)
Resets(c) == c.resetOnLogon \/ c.resetOnLogout \/ c.resetOnDisconnect \/ c.resetDaily

NumbersKept ==
  [][~Resets(config) =>
       /\ sess'.nextSender >= sess.nextSender
       /\ sess'.nextTarget < sess.nextTarget => ~sess.receivedLogon /\ sess'.receivedLogon]_vars

-----------------------------------------------------------------------------
(* A duplicate of a message that was counted is not counted again.  So the  *)
(* rules for the session code have it (.github/instructions/               *)
(* session.instructions.md); the code counts it, and a run shows how.      *)
DuplicateNotCounted ==
  \A seq \in SeqNums \ {0} : \A body \in Bodies :
    LET dup == [AppMsg(body) EXCEPT !.seq = seq, !.possDup = TRUE]
    IN  seq < sess.nextTarget => OnReceive(config, sess, dup).nextTarget = sess.nextTarget

=============================================================================
