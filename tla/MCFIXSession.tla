---------------------------- MODULE MCFIXSession ----------------------------
(* Small instances of FIXSession: one payload, a counterparty that knows    *)
(* numbers up to 3, and a handful of configurations per run.               *)
EXTENDS FIXSession

CONSTANTS order, none

MCBodies == {order}

Plain == [initiator |-> TRUE, store |-> "memory", enableResend |-> TRUE,
          resetOnLogon |-> FALSE, resetOnLogout |-> FALSE, resetOnDisconnect |-> FALSE,
          resetDaily |-> FALSE, disableHeartbeat |-> FALSE, ignoreTestRequest |-> FALSE]

Acceptor(c) == [c EXCEPT !.initiator = FALSE]

(* No reset of the numbers is configured.                                  *)
PlainConfigs == {Plain, Acceptor(Plain)}

(* The other stores, and one configuration per kind of reset.  The disk of  *)
(* the file store may refuse at any time.                                  *)
StoreConfigs ==
  {[Plain EXCEPT !.store = "file"],
   [Plain EXCEPT !.resetOnLogout = TRUE, !.store = "seqs"],
   Acceptor([Plain EXCEPT !.resetOnDisconnect = TRUE, !.resetDaily = TRUE]),
   [Plain EXCEPT !.resetOnLogon = TRUE, !.store = "null", !.enableResend = FALSE]}

MixedConfigs == PlainConfigs \cup StoreConfigs

NoUnreplayable == {}
NoRefused == {}
=============================================================================
