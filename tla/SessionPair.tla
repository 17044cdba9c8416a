---------------------------- MODULE SessionPair -----------------------------
(***************************************************************************)
(* An initiator and an acceptor of this engine, each with its session,     *)
(* timer thread and application, joined by a TCP connection that may be    *)
(* cut and made again.  Every action is one call into one session; what    *)
(* the call writes goes onto the wire in the same step.                    *)
(***************************************************************************)
EXTENDS SessionCore

CONSTANTS
  I, A,         \* the initiator and the acceptor
  Bodies,       \* messages of an application, 1..n
  Scenarios     \* the SessionConfigs of the two, with what may happen to them

Peers == {I, A}
Other(p) == IF p = I THEN A ELSE I

ASSUME PeersAssumption == I # A
(* connects: TCP connections that are made; cuts: how often the network     *)
(* breaks one; early: chunks the acceptor reads before its onConnected;     *)
(* timers: deadlines of onTimer that come due; logouts: of an application   *)
(* or the runtime; sends: messages accepted from the two applications.     *)
Inputs == {"connects", "cuts", "early", "timers", "logouts", "sends"}

ASSUME ScenariosAssumption == \A s \in Scenarios :
  /\ s.config \in [Peers -> AllConfigs]
  /\ s.config[I].initiator /\ ~s.config[A].initiator
  /\ s.left \in [Inputs -> Nat]

VARIABLES
  config,       \* config[p]: the SessionConfig of p
  sess,         \* sess[p]: the session record of SessionCore
  wire,         \* wire[p]: messages p wrote and the other has not read
  alive,        \* the network still carries what is written
  starting,     \* starting[p]: connected, but onConnected has not run yet
  timerCloses,  \* timerCloses[p]: between the unlock and close of a test timeout
  submitted,    \* submitted[p]: bodies p's send() accepted, in order
  delivered,    \* delivered[p]: bodies p's fromApp was called with
  left          \* how much of each bounded input is still to come

vars == <<config, sess, wire, alive, starting, timerCloses, submitted, delivered, left>>

Init ==
  /\ sess = [p \in Peers |-> [Created EXCEPT !.listening = p = A]]
  /\ wire = [p \in Peers |-> <<>>]
  /\ alive = FALSE
  /\ starting = [p \in Peers |-> FALSE]
  /\ timerCloses = [p \in Peers |-> FALSE]
  /\ submitted = [p \in Peers |-> <<>>]
  /\ delivered = [p \in Peers |-> <<>>]
  /\ \E s \in Scenarios : config = s.config /\ left = s.left

Spend(input) ==
  /\ left[input] > 0
  /\ left' = [left EXCEPT ![input] = @ - 1]

-----------------------------------------------------------------------------
(* What a call of p that ends in r leaves behind.                          *)
Reaches(p) == alive /\ sess[Other(p)].socket # "none"

(* The message the call handed to fromApp, if any: one frame, one call.    *)
Heard(calls) ==
  LET heard == {j \in DOMAIN calls : calls[j].event = "fromApp"}
  IN  IF heard = {} THEN <<>> ELSE <<calls[CHOOSE j \in heard : TRUE].body>>

(* The call has this outcome; unread is what p has not read of the other's  *)
(* wire.  A socket p closed reads nothing more.                            *)
CallEnds(p, outcome, unread) ==
  \E r \in {outcome} :
    /\ sess' = [sess EXCEPT ![p] = Begin(r)]
    /\ wire' = [wire EXCEPT ![p] = IF Reaches(p) THEN @ \o r.sent ELSE @,
                            ![Other(p)] = IF r.socket = "none" THEN <<>> ELSE unread]
    /\ delivered' = [delivered EXCEPT ![p] = @ \o Heard(r.calls)]

Calls(p, r) == CallEnds(p, r, wire[Other(p)])

-----------------------------------------------------------------------------
(* The runtime's timer finds the initiator's session disconnected, starts a *)
(* connection, and the acceptor accepts it, dropping the socket it had.    *)
Connect ==
  /\ Spend("connects")
  /\ sess[I].status = "Disconnected"
  /\ sess[I].socket = "none"
  /\ sess[A].listening
  /\ sess' = [p \in Peers |-> [sess[p] EXCEPT !.socket = "open"]]
  /\ wire' = [p \in Peers |-> <<>>]
  /\ alive' = TRUE
  /\ starting' = [p \in Peers |-> TRUE]
  /\ UNCHANGED <<config, timerCloses, submitted, delivered>>

(* onConnected reaches the session of p.                                   *)
Connected(p) ==
  /\ starting[p]
  /\ sess[p].socket # "none"
  /\ starting' = [starting EXCEPT ![p] = FALSE]
  /\ Calls(p, OnConnected(config[p], sess[p]))
  /\ UNCHANGED <<config, alive, timerCloses, submitted, left>>

(* onRead: p reads the next message of the other, the whole of it and with  *)
(* nothing pending.  A message that onReceive leaves at the head of m_in and *)
(* comes to again with the next chunk is a matter of Framing.              *)
Read(p) ==
  LET q == Other(p)
  IN  /\ wire[q] # <<>>
      /\ sess[p].socket # "none"
      /\ ~starting[p]
      /\ CallEnds(p, OnReceive(config[p], sess[p], Head(wire[q])), Tail(wire[q]))
      /\ UNCHANGED <<config, alive, starting, timerCloses, submitted, left>>

(* The accepted socket starts reading before its onConnected has run; what  *)
(* arrives in between is dropped, the transport is not Connected yet.      *)
EarlyRead ==
  /\ starting[A]
  /\ sess[A].socket # "none"
  /\ wire[I] # <<>>
  /\ Spend("early")
  /\ wire' = [wire EXCEPT ![I] = Tail(@)]
  /\ UNCHANGED <<config, sess, alive, starting, timerCloses, submitted, delivered>>

(* onClosed: the other side closed and everything it wrote has been read,  *)
(* or the network is gone.                                                 *)
ConnectionLost(p) ==
  LET q == Other(p)
  IN  /\ sess[p].socket # "none"
      /\ wire[q] = <<>>
      /\ ~alive \/ sess[q].socket = "none"
      /\ starting' = [starting EXCEPT ![p] = FALSE]
      /\ Calls(p, OnDisconnected(config[p], [sess[p] EXCEPT !.socket = "none"]))
      /\ UNCHANGED <<config, alive, timerCloses, submitted, left>>

(* The network cuts the connection: a suffix of what is under way is lost, *)
(* later writes vanish, and some of the sockets report errors from now on. *)
Cut ==
  /\ alive
  /\ \E p \in Peers : sess[p].socket # "none"
  /\ Spend("cuts")
  /\ alive' = FALSE
  /\ \E n \in 0..Len(wire[I]), k \in 0..Len(wire[A]) :
       wire' = [p \in Peers |-> SubSeq(wire[p], 1, IF p = I THEN n ELSE k)]
  /\ \E failing \in SUBSET Peers :
       sess' = [p \in Peers |->
                  IF p \in failing /\ sess[p].socket = "open"
                    THEN [sess[p] EXCEPT !.socket = "failing"] ELSE sess[p]]
  /\ UNCHANGED <<config, starting, timerCloses, submitted, delivered>>

(* onTimer of p's session, and the close that follows a test timeout.      *)
Timer(p, due) ==
  /\ Spend("timers")
  /\ TimerActive(config[p], sess[p])
  /\ ~timerCloses[p]
  /\ Calls(p, OnTimer(config[p], sess[p], due))
  /\ timerCloses' = [timerCloses EXCEPT ![p] = due = "testTimeout" /\ sess[p].awaitingTest]
  /\ UNCHANGED <<config, alive, starting, submitted>>

TimerClose(p) ==
  /\ timerCloses[p]
  /\ Calls(p, Close(config[p], sess[p]))
  /\ timerCloses' = [timerCloses EXCEPT ![p] = FALSE]
  /\ starting' = [starting EXCEPT ![p] = FALSE]
  /\ UNCHANGED <<config, alive, submitted, left>>

(* Session::doLogout, from the application or the runtime.                 *)
Logout(p) ==
  /\ Spend("logouts")
  /\ Calls(p, DoLogout(config[p], sess[p]))
  /\ UNCHANGED <<config, alive, starting, timerCloses, submitted>>

(* sendToTarget: the n-th message of an application has body n.            *)
AppSend(p) ==
  LET body == Len(submitted[p]) + 1
      r    == Send(config[p], sess[p], AppMsg(body))
  IN  /\ body \in Bodies
      /\ left.sends > 0
      /\ left' = [left EXCEPT !.sends = IF Ok(r) THEN @ - 1 ELSE @]
      /\ Calls(p, r)
      /\ submitted' = [submitted EXCEPT ![p] = IF Ok(r) THEN Append(@, body) ELSE @]
      /\ UNCHANGED <<config, alive, starting, timerCloses>>

(* What the strand of p's socket runs.                                     *)
Strand(p) == Connected(p) \/ Read(p) \/ ConnectionLost(p)

Step(p) ==
  \/ Strand(p)
  \/ TimerClose(p)
  \/ Logout(p)
  \/ AppSend(p)
  \/ \E due \in Deadlines : Timer(p, due)

Next == Connect \/ EarlyRead \/ Cut \/ \E p \in Peers : Step(p)

Spec == Init /\ [][Next]_vars

(* The strand of a socket runs the handlers that are ready, and the timer   *)
(* threads keep starting the initiator's connection and finish the close    *)
(* of a test timeout.  Nothing obliges an application to send or log out,   *)
(* a deadline to come due, or the network to cut.                          *)
Fairness ==
  /\ WF_vars(Connect)
  /\ \A p \in Peers : WF_vars(Strand(p)) /\ WF_vars(TimerClose(p))

FairSpec == Spec /\ Fairness

-----------------------------------------------------------------------------
Resets == \E p \in Peers :
  config[p].resetOnLogon \/ config[p].resetOnLogout \/ config[p].resetOnDisconnect \/ config[p].resetDaily
Concerned(traffic) == IF Resets THEN [p \in Peers |-> <<>>] ELSE traffic

(* Each direction delivers exactly what was sent, in order and without      *)
(* duplicates, across cuts, reconnections, resends and logouts             *)
(* (Session::onReceive, handleResendRequestReceived).  A reset forgets what *)
(* was delivered, so this is promised of sessions that never reset; and it  *)
(* is about frames that arrive one by one, because one that ends a resend   *)
(* in the middle of a buffer is delivered a second time (session.cpp        *)
(* 213-218, see SameFrames of Framing).                                    *)
Promise == INSTANCE Delivery WITH
  submitted <- Concerned(submitted), delivered <- Concerned(delivered)
InOrderDelivery == Promise!Spec

(* A session never expects a number beyond the next one its counterparty    *)
(* will use: everything the counterparty sent with a lower number would be *)
(* dropped as too old, silently and for good (the increment of onReceive,  *)
(* handleSequenceResetReceived, the gap fills of the counterparty).        *)
NotAhead == \A p \in Peers : sess[p].nextTarget =< sess[Other(p)].nextSender
TargetNotAhead == ~Resets => NotAhead

(* With resets on logout, disconnect or a new day the numbers of the two     *)
(* sides may disagree for a while, but not any more once both are logged on *)
(* over the same connection (the reset calls of handleLogonReceived and     *)
(* onDisconnected).  With resetOnLogon they may: what was sent before the   *)
(* Logon can open a gap, and the answer to the ResendRequest, which comes   *)
(* after the reset, is counted again as a possible duplicate (onReceive).   *)
BothUp == alive /\ \A p \in Peers : LoggedOn(sess[p]) /\ sess[p].socket # "none"
AgreedOnceUp ==
  (\A p \in Peers : ~config[p].resetOnLogon) => (BothUp => NotAhead)

(* Over a connection that loses nothing no gap is ever found: every number  *)
(* a session takes goes out, and in order (send, sendLogon, sendReject).   *)
NoGap == \A p \in Peers : ~sess[p].awaitingResend

(* A logon handshake ends, one way or the other.                            *)
LogonCompletes ==
  \A p \in Peers : sess[p].status = "LogonSent" ~> sess[p].status # "LogonSent"

(* A session on its way out gets out.                                       *)
LogoutCompletes == \A p \in Peers : Closing(sess[p]) ~> sess[p].status = "Disconnected"

(* A gap that has been reported is closed.                                  *)
GapCloses == \A p \in Peers : sess[p].awaitingResend ~> ~sess[p].awaitingResend

(* Everything an application sent reaches the other one, unless the other   *)
(* one's connection is closed first.                                       *)
AllDelivered ==
  \A p \in Peers : \A n \in Bodies :
    Len(submitted[p]) >= n
      ~> (Len(delivered[Other(p)]) >= n \/ sess[Other(p)].socket = "none")

=============================================================================
