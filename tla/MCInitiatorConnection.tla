----------------------- MODULE MCInitiatorConnection ------------------------
(* Small instances of InitiatorConnection.                                 *)
EXTENDS InitiatorConnection

TwoSockets == {"first", "second"}
ThreeSockets == {"first", "second", "third"}

Plain == [useSSL |-> FALSE, overlap |-> FALSE, endpoints |-> 1,
          unopenable |-> {}, refusing |-> {}]

(* One endpoint; two of which the first, the second, or both are down;      *)
(* three of which one cannot even be tried.                                 *)
CalmConfigs ==
  {Plain,
   [Plain EXCEPT !.endpoints = 2, !.refusing = {0}],
   [Plain EXCEPT !.endpoints = 2, !.refusing = {1}],
   [Plain EXCEPT !.endpoints = 2, !.refusing = {0, 1}],
   [Plain EXCEPT !.endpoints = 3, !.unopenable = {0}, !.refusing = {1}],
   [Plain EXCEPT !.useSSL = TRUE]}

(* start() and stop() may come in between.                                  *)
OverlapConfigs == {[Plain EXCEPT !.overlap = TRUE]}

TLSConfigs == {[Plain EXCEPT !.useSSL = TRUE]}

AllConfigs == CalmConfigs \cup OverlapConfigs
=============================================================================
