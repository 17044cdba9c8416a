--------------------------- MODULE MCSessionPair ----------------------------
(* Small instances of SessionPair.                                         *)
EXTENDS SessionPair

CONSTANTS none

Plain(role) ==
  [initiator |-> role = I, store |-> "memory", enableResend |-> TRUE,
   resetOnLogon |-> FALSE, resetOnLogout |-> FALSE, resetOnDisconnect |-> FALSE,
   resetDaily |-> FALSE, disableHeartbeat |-> FALSE, ignoreTestRequest |-> FALSE]

PlainConfig == [p \in Peers |-> Plain(p)]

(* Both sides start again from one whenever a session has ended.            *)
ResetConfig == [p \in Peers |-> [Plain(p) EXCEPT !.resetOnDisconnect = TRUE, !.resetOnLogout = TRUE]]

None == [input \in Inputs |-> 0]
OneEach == 1..1
TwoEach == 1..2

(* Two connections, the first of which may break, and a logout: with two    *)
(* messages, from one application or from both; with one message and one   *)
(* deadline; and, with resets, with one message and two deadlines, so that  *)
(* a test request can time out.                                            *)
LossScenarios ==
  {[config |-> PlainConfig,
    left |-> [None EXCEPT !.connects = 2, !.cuts = 1, !.early = 1, !.logouts = 1, !.sends = 2]],
   [config |-> PlainConfig,
    left |-> [None EXCEPT !.connects = 2, !.cuts = 1, !.early = 1, !.timers = 1, !.logouts = 1, !.sends = 1]],
   [config |-> ResetConfig,
    left |-> [None EXCEPT !.connects = 2, !.cuts = 1, !.timers = 2, !.logouts = 1, !.sends = 1]]}

(* A connection that loses nothing.                                         *)
CalmScenarios ==
  {[config |-> PlainConfig,
    left |-> [None EXCEPT !.connects = 1, !.timers = 1, !.logouts = 1, !.sends = 2]]}

(* Nothing but a cut.                                                       *)
CutScenarios ==
  {[config |-> PlainConfig, left |-> [None EXCEPT !.connects = 2, !.cuts = 1]]}

NoUnreplayable == {}
NoRefused == {}
=============================================================================
