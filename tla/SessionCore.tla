---------------------------- MODULE SessionCore -----------------------------
(***************************************************************************)
(* The FIX session of session.cpp as operators on a session record.  Each  *)
(* method that runs under m_mutex is one operator from the record before   *)
(* the call to the record after it; FIXSession and SessionPair turn them   *)
(* into actions.                                                           *)
(*                                                                         *)
(* The record holds SessionState (status, the flags, testRequestID), the   *)
(* store (nextSender, nextTarget, outgoing, disk), the part of the         *)
(* connection a session can observe or change (socket, listening), and     *)
(* what the call produced: the messages written (sent), the application    *)
(* callbacks made (calls) and the class of the returned FFStatus (rc).     *)
(*                                                                         *)
(* Time is abstracted to which deadline of onTimer is due, a message to    *)
(* the fields the session reads.  toAdmin and toApp accept what is sent; a  *)
(* refusal would have the effect of a write that fails.                    *)
(*                                                                         *)
(* A definition X_bug is X with a plausible mistake in it.  The model does  *)
(* not use it: the runs are repeated with it to see that they notice.      *)
(***************************************************************************)
EXTENDS ResendPlan

CONSTANTS
  NoBody,   \* the payload of an administrative message
  Refused   \* bodies the application's fromApp answers with an error

(* SessionStatus, and SessionState::loggedOn and closing.                  *)
Statuses == {"Disconnected", "Connecting", "Connected", "LogonSent",
             "LoggedOn", "LogoutSent", "LogoutReceived", "Closing"}

LoggedOn(s) == s.status = "LoggedOn"
Closing(s)  == s.status \in {"Closing", "LogoutSent", "LogoutReceived"}

(* The stores: "null" keeps no message and fails getOutgoing, "seqs" is    *)
(* PersistMessages=N, "memory" and "file" keep what was sent.              *)
Stores == {"null", "seqs", "memory", "file"}

(* SessionConfig: the settings the session reads.                          *)
AllConfigs ==
  [initiator : BOOLEAN, store : Stores, enableResend : BOOLEAN,
   resetOnLogon : BOOLEAN, resetOnLogout : BOOLEAN, resetOnDisconnect : BOOLEAN,
   resetDaily : BOOLEAN, disableHeartbeat : BOOLEAN, ignoreTestRequest : BOOLEAN]

-----------------------------------------------------------------------------
(* Messages.  seq is filled in by Send.  A Flawed message stands for a     *)
(* frame the session refuses before it looks at its type: flaw says where. *)
Msg(kind) == [kind |-> kind, seq |-> 0, possDup |-> FALSE]

LogonMsg(reset, acceptable) ==
  [kind |-> "Logon", seq |-> 0, possDup |-> FALSE, reset |-> reset, acceptable |-> acceptable]
LogoutMsg == Msg("Logout")
RejectMsg == Msg("Reject")
HeartbeatMsg(id)   == [kind |-> "Heartbeat", seq |-> 0, possDup |-> FALSE, id |-> id]
TestRequestMsg(id) == [kind |-> "TestRequest", seq |-> 0, possDup |-> FALSE, id |-> id]
ResendRequestMsg(begin, end) ==
  [kind |-> "ResendRequest", seq |-> 0, possDup |-> FALSE, begin |-> begin, end |-> end]
AppMsg(body) == [kind |-> "App", seq |-> 0, possDup |-> FALSE, body |-> body]
GapFillMsg(seq, new) == [kind |-> "SequenceReset", seq |-> seq, possDup |-> FALSE, new |-> new]

BodyOf(m) == IF m.kind = "App" THEN m.body ELSE NoBody

(* A test request or heartbeat with no TestReqID.                          *)
NoId == 0

-----------------------------------------------------------------------------
(* A session that has just been created, its connection not started.       *)
Created ==
  [status |-> "Disconnected", sentLogon |-> FALSE, receivedLogon |-> FALSE,
   sentLogout |-> FALSE, receivedLogout |-> FALSE, awaitingResend |-> FALSE,
   resetOnDisconnect |-> FALSE, awaitingTest |-> FALSE, testRequestID |-> 0,
   nextSender |-> 1, nextTarget |-> 1, outgoing |-> <<>>, disk |-> "ok",
   socket |-> "none", listening |-> FALSE,
   sent |-> <<>>, calls |-> <<>>, rc |-> "ok"]

(* A call starts with nothing produced.                                    *)
Begin(s) == [s EXCEPT !.sent = <<>>, !.calls = <<>>, !.rc = "ok"]

Fail(s, rc)    == [s EXCEPT !.rc = rc]
Call(s, event, body) == [s EXCEPT !.calls = Append(@, [event |-> event, body |-> body])]
Ok(s)          == s.rc = "ok"

(* IConnection::write succeeds on an open socket whose sends still work.   *)
Writable(s) == s.socket = "open"
Write(s, m) == [s EXCEPT !.sent = Append(@, m)]

KeepsMessages(c) == c.store \in {"memory", "file"}

ResetStore(s) == [s EXCEPT !.outgoing = <<>>, !.nextSender = 1, !.nextTarget = 1]

(* FileMessageStore keeps the message in memory before it appends to disk, *)
(* so a refused append leaves it there.                                    *)
DiskRefuses(c, s) == c.store = "file" /\ s.disk = "full"

StoreOutgoing_bug(c, s, m) ==   \* newest first
  [s EXCEPT !.outgoing = IF KeepsMessages(c)
                           THEN <<Stored(m.seq, m.kind # "App", BodyOf(m))>> \o @ ELSE @,
            !.rc = IF DiskRefuses(c, s) THEN "io" ELSE "ok"]
StoreOutgoing(c, s, m) ==
  LET kept == IF KeepsMessages(c)
                THEN Append(s.outgoing, Stored(m.seq, m.kind # "App", BodyOf(m)))
                ELSE s.outgoing
  IN  [s EXCEPT !.outgoing = kept, !.rc = IF DiskRefuses(c, s) THEN "io" ELSE "ok"]

-----------------------------------------------------------------------------
Send_bug(c, s, msg) ==   \* takes the number before it knows of the write
  LET m       == [msg EXCEPT !.seq = s.nextSender]
      t       == [s EXCEPT !.nextSender = @ + 1]
  IN  IF ~Writable(s) THEN Fail(t, "io") ELSE StoreOutgoing(c, Write(t, m), m)

(* Session::send: number, write, store, and only then take the number.     *)
Send(c, s, msg) ==
  LET m       == [msg EXCEPT !.seq = s.nextSender]
      written == StoreOutgoing(c, Write(s, m), m)
  IN  IF ~Writable(s) THEN Fail(s, "io")
      ELSE IF ~Ok(written) THEN written
      ELSE [written EXCEPT !.nextSender = @ + 1]

SendLogon(c, s) ==
  LET r == Send(c, IF c.resetOnLogon THEN ResetStore(s) ELSE s,
                LogonMsg(c.resetOnLogon, TRUE))
  IN  IF Ok(r) THEN [r EXCEPT !.sentLogon = TRUE, !.status = "LogonSent"] ELSE r

SendLogout(c, s) ==
  IF Closing(s) \/ s.status = "Disconnected"
    THEN s
    ELSE LET r == Send(c, s, LogoutMsg)
         IN  IF Ok(r) THEN [r EXCEPT !.sentLogout = TRUE, !.status = "LogoutSent"] ELSE r

SendTestRequest(c, s) ==
  LET t == [s EXCEPT !.testRequestID = @ + 1]
      r == Send(c, t, TestRequestMsg(t.testRequestID))
  IN  IF Ok(r) THEN [r EXCEPT !.awaitingTest = TRUE] ELSE r

SendReject(c, s) == Send(c, s, RejectMsg)

(* Session::doLogout                                                       *)
DoLogout(c, s) ==
  IF Closing(s) \/ s.status = "Disconnected" THEN s
  ELSE IF s.awaitingResend THEN [s EXCEPT !.status = "Closing"]
  ELSE SendLogout(c, s)

-----------------------------------------------------------------------------
(* Session::onDisconnected                                                 *)
WasActive(s) == s.status # "Disconnected" /\ (LoggedOn(s) \/ s.sentLogout \/ s.receivedLogout)

ResetsOnDisconnect_bug(c, s) == s.resetOnDisconnect \/ WasActive(s)   \* settings ignored
ResetsOnDisconnect(c, s) ==
  \/ s.resetOnDisconnect
  \/ /\ WasActive(s)
     /\ IF s.sentLogout \/ s.receivedLogout THEN c.resetOnLogout ELSE c.resetOnDisconnect

ClearFlags_bug1(s) ==   \* keeps receivedLogon
  [s EXCEPT !.status = "Disconnected", !.sentLogon = FALSE,
            !.sentLogout = FALSE, !.receivedLogout = FALSE, !.awaitingResend = FALSE,
            !.awaitingTest = FALSE, !.testRequestID = 0]
ClearFlags_bug2(s) ==   \* keeps awaitingTest
  [s EXCEPT !.status = "Disconnected", !.sentLogon = FALSE, !.receivedLogon = FALSE,
            !.sentLogout = FALSE, !.receivedLogout = FALSE, !.awaitingResend = FALSE,
            !.testRequestID = 0]
ClearFlags(s) ==
  [s EXCEPT !.status = "Disconnected", !.sentLogon = FALSE, !.receivedLogon = FALSE,
            !.sentLogout = FALSE, !.receivedLogout = FALSE, !.awaitingResend = FALSE,
            !.awaitingTest = FALSE, !.testRequestID = 0]

OnDisconnected(c, s) ==
  LET cleared == IF WasActive(s) THEN Call(ClearFlags(s), "onLogout", NoBody) ELSE ClearFlags(s)
  IN  IF ResetsOnDisconnect(c, s)
        THEN [ResetStore(cleared) EXCEPT !.resetOnDisconnect = FALSE]
        ELSE cleared

(* IConnection::close, which on the socket's strand runs onClosed and      *)
(* onDisconnected before it returns.  An acceptor closes its listening     *)
(* server too.                                                             *)
Close(c, s) ==
  LET r == [s EXCEPT !.listening = FALSE, !.socket = "none"]
  IN  IF s.socket = "none" THEN r ELSE OnDisconnected(c, r)

(* Session::onConnected                                                    *)
OnConnected(c, s) ==
  IF s.status # "Disconnected" THEN s
  ELSE SendLogon(c, [s EXCEPT !.status = "Connected"])

-----------------------------------------------------------------------------
(* Session::onTimer.  due says which deadline the clock has reached.       *)
Deadlines == {"schedule", "testTimeout", "testRequest", "heartbeat"}

TimerActive(c, s) == LoggedOn(s) /\ ~c.disableHeartbeat

ScheduleEnded(c, s) == DoLogout(c, [s EXCEPT !.resetOnDisconnect = c.resetDaily])

(* The timeout unlocks the mutex before it closes the connection: this is  *)
(* the part up to the unlock, Close the part after it.                     *)
TestTimeout(s) == [s EXCEPT !.awaitingTest = FALSE, !.status = "Disconnected"]

OnTimer(c, s, due) ==
  CASE ~TimerActive(c, s)                          -> s
    [] TimerActive(c, s) /\ due = "schedule"       -> ScheduleEnded(c, s)
    [] TimerActive(c, s) /\ due = "testTimeout"    -> IF s.awaitingTest THEN TestTimeout(s) ELSE s
    [] TimerActive(c, s) /\ due = "testRequest"    -> IF s.awaitingTest THEN s ELSE SendTestRequest(c, s)
    [] TimerActive(c, s) /\ due = "heartbeat"      ->
         IF s.awaitingTest THEN s ELSE Send(c, s, HeartbeatMsg(NoId))

-----------------------------------------------------------------------------
(* The handlers of the administrative messages.                            *)
HandleDuplicateLogon(c, s) ==
  LET r == SendLogout(c, s)
  IN  IF Ok(r) THEN Fail(Close(c, r), "session") ELSE r

HandleUnacceptableLogon(c, s) ==
  LET r == SendLogout(c, s)
  IN  IF Ok(r) THEN Fail(r, "session") ELSE r

HandleLogon_bug1(c, s, m) ==   \* never answers
  LET reset    == IF m.reset THEN [ResetStore(s) EXCEPT !.nextSender = s.nextSender] ELSE s
  IN  IF s.receivedLogon \/ LoggedOn(s) THEN HandleDuplicateLogon(c, s)
      ELSE IF ~m.acceptable THEN HandleUnacceptableLogon(c, s)
      ELSE Call([reset EXCEPT !.receivedLogon = TRUE, !.status = "LoggedOn"], "onLogon", NoBody)

HandleLogon_bug2(c, s, m) ==   \* logged on only in the branch that answers
  LET received == [s EXCEPT !.receivedLogon = TRUE]
      answered == SendLogon(c, received)
  IN  IF s.receivedLogon \/ LoggedOn(s) THEN HandleDuplicateLogon(c, s)
      ELSE IF received.sentLogon THEN received
      ELSE IF ~Ok(answered) THEN answered
      ELSE Call([answered EXCEPT !.status = "LoggedOn"], "onLogon", NoBody)

HandleLogon(c, s, m) ==
  LET reset    == IF m.reset THEN [ResetStore(s) EXCEPT !.nextSender = s.nextSender] ELSE s
      received == [reset EXCEPT !.receivedLogon = TRUE]
      answered == IF received.sentLogon THEN received ELSE SendLogon(c, received)
  IN  IF s.receivedLogon \/ LoggedOn(s) THEN HandleDuplicateLogon(c, s)
      ELSE IF ~m.acceptable THEN HandleUnacceptableLogon(c, s)
      ELSE IF ~Ok(answered) THEN answered
      ELSE Call([answered EXCEPT !.status = "LoggedOn"], "onLogon", NoBody)

HandleLogout_bug(c, s) ==   \* the initiator does not close
  LET received == [s EXCEPT !.receivedLogout = TRUE]
      answered == IF received.sentLogout THEN received ELSE SendLogout(c, received)
  IN  IF ~Ok(answered) THEN answered ELSE [answered EXCEPT !.status = "Closing"]

HandleLogout(c, s) ==
  LET received == [s EXCEPT !.receivedLogout = TRUE]
      answered == IF received.sentLogout THEN received ELSE SendLogout(c, received)
      closing  == [answered EXCEPT !.status = "Closing"]
  IN  IF ~Ok(answered) THEN answered
      ELSE IF c.initiator THEN OnDisconnected(c, Close(c, closing))
      ELSE closing

HandleHeartbeat(s, m) ==
  IF s.awaitingTest /\ m.id # NoId /\ m.id = s.testRequestID
    THEN [s EXCEPT !.awaitingTest = FALSE]
    ELSE s

HandleTestRequest(c, s, m) ==
  IF s.sentLogout \/ s.receivedLogout \/ c.ignoreTestRequest
    THEN s
    ELSE Send(c, s, HeartbeatMsg(m.id))

(* The whole loop of the resend handler, and what it puts on the wire: the *)
(* replay neither takes numbers nor is stored again.                       *)
Replay(c, s, begin, end) ==
  IF c.store = "null"
    THEN <<Fill(begin, end + 1)>>
    ELSE Finish(Scanned(s.outgoing, begin, end), end).out

OnWire(w) ==
  IF w.kind = "Fill" THEN GapFillMsg(w.seq, w.new)
                     ELSE [AppMsg(w.body) EXCEPT !.seq = w.seq, !.possDup = TRUE]

HandleResendRequest(c, s, m) ==
  LET end    == IF m.end = 0 THEN s.nextSender - 1 ELSE m.end
      replay == Replay(c, s, m.begin, end)
      onWire == [j \in DOMAIN replay |-> OnWire(replay[j])]
  IN  IF replay = <<>> THEN s
      ELSE IF ~Writable(s) THEN Fail(s, "io")
      ELSE [s EXCEPT !.sent = @ \o onWire]

HandleSequenceReset(s, m) ==
  IF m.new =< s.nextTarget   \* a missing NewSeqNo is 0
    THEN Fail(s, "session")
    ELSE [s EXCEPT !.nextTarget = m.new]

(* dispatchInbound: the application sees the message, then the handler.  An *)
(* application that refuses a message is taken to do so with an error of    *)
(* its own; one of the domains fix_parse and fix_validation would have the  *)
(* message rejected like a "content" one.                                  *)
Deliver(s, m) ==
  LET r == Call(s, "fromApp", m.body)
  IN  IF m.body \in Refused THEN Fail(r, "app") ELSE r

Dispatch_bug(c, s, m) ==   \* application messages only once logged on
  CASE m.kind = "Logon"         -> HandleLogon(c, s, m)
    [] m.kind = "Logout"        -> HandleLogout(c, s)
    [] m.kind = "ResendRequest" -> HandleResendRequest(c, s, m)
    [] m.kind = "SequenceReset" -> HandleSequenceReset(s, m)
    [] m.kind = "App"           -> IF LoggedOn(s) THEN Deliver(s, m) ELSE s
    [] OTHER                    -> s

Dispatch(c, s, m) ==
  CASE m.kind = "Logon"         -> HandleLogon(c, s, m)
    [] m.kind = "Logout"        -> HandleLogout(c, s)
    [] m.kind = "Heartbeat"     -> HandleHeartbeat(s, m)
    [] m.kind = "TestRequest"   -> HandleTestRequest(c, s, m)
    [] m.kind = "ResendRequest" -> HandleResendRequest(c, s, m)
    [] m.kind = "SequenceReset" -> HandleSequenceReset(s, m)
    [] m.kind = "Reject"        -> s
    [] m.kind = "App"           -> Deliver(s, m)
    [] m.kind = "Unsupported"   -> SendReject(c, s)
    [] m.kind = "Flawed"        -> Fail(s, "invalid")

-----------------------------------------------------------------------------
(* Session::onReceive for one complete frame.                              *)

(* classifySeqNum                                                          *)
Classify_bug(seq, expected, possDup) ==   \* old numbers pass
  IF seq > expected THEN "Gap" ELSE "Expected"
Classify_bug2(seq, expected, possDup) ==   \* numbers beyond a gap pass
  IF seq >= expected THEN "Expected" ELSE IF possDup THEN "PossDupOld" ELSE "InvalidOld"
Classify(seq, expected, possDup) ==
  CASE seq = expected             -> "Expected"
    [] seq > expected             -> "Gap"
    [] seq < expected /\ possDup  -> "PossDupOld"
    [] seq < expected /\ ~possDup -> "InvalidOld"

(* A frame that failed: reject it, and keep the error.                     *)
RejectFrame(c, s, m) ==
  Fail(IF m.seq > 0 THEN SendReject(c, s) ELSE s, "invalid")

(* Ask once for what is missing; the frame itself is dropped.              *)
OnGap(c, s, m) ==
  IF c.enableResend /\ ~s.awaitingResend
    THEN LET r == Send(c, [s EXCEPT !.awaitingResend = TRUE],
                       ResendRequestMsg(s.nextTarget, m.seq))
         IN  IF Ok(r) THEN Fail(r, "session") ELSE r
    ELSE Fail(s, "session")

(* What follows a dispatch that succeeded: store, count, end the resend.   *)
EndResend(c, s) ==
  LET r == [s EXCEPT !.awaitingResend = FALSE]
  IN  IF s.status = "Closing" THEN SendLogout(c, r) ELSE r

Count_bug(c, s, m) ==   \* a gap fill counts too
  LET counted == [s EXCEPT !.nextTarget = @ + 1]
  IN  IF counted.awaitingResend /\ counted.nextTarget > m.seq THEN EndResend(c, counted) ELSE counted

Count(c, s, m) ==
  LET counted == IF m.kind = "SequenceReset" THEN s ELSE [s EXCEPT !.nextTarget = @ + 1]
  IN  IF s.status = "Disconnected" /\ (c.resetOnLogout \/ c.resetOnDisconnect \/ c.resetDaily)
        THEN s
      ELSE IF DiskRefuses(c, s) THEN Fail(s, "io")
      ELSE IF counted.awaitingResend /\ counted.nextTarget > m.seq THEN EndResend(c, counted)
      ELSE counted

Process(c, s, m) ==
  LET r == Dispatch(c, s, m)
  IN  IF Ok(r) THEN Count(c, r, m)
      ELSE IF r.rc = "invalid" THEN RejectFrame(c, r, m)
      ELSE r

(* A frame parseTCPFrame refuses or that was sent too long ago is rejected *)
(* before its number is looked at; a foreign identity is only logged.      *)
ReceiveFrame(c, s, m) ==
  LET class == Classify(m.seq, s.nextTarget, m.possDup)
      flaw  == IF m.kind = "Flawed" THEN m.flaw ELSE "none"
  IN  CASE flaw \in {"unframed", "stale"}  -> RejectFrame(c, s, m)
        [] flaw = "identity"               -> Fail(s, "session")
        [] flaw \in {"none", "content"} /\ class = "Gap"        -> OnGap(c, s, m)
        [] flaw \in {"none", "content"} /\ class = "InvalidOld" -> Fail(s, "session")
        [] flaw \in {"none", "content"} /\ class \in {"Expected", "PossDupOld"} ->
             Process(c, s, m)

OnReceive(c, s, m) ==
  IF s.status = "Disconnected" THEN s ELSE ReceiveFrame(c, s, m)

=============================================================================
