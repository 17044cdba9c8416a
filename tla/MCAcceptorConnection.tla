------------------------ MODULE MCAcceptorConnection ------------------------
(* Small instances of AcceptorConnection.                                  *)
EXTENDS AcceptorConnection

TwoSockets == {"first", "second"}
ThreeSockets == {"first", "second", "third"}

OneThread == [threads : {1}, replaces : BOOLEAN, overlap : BOOLEAN]
(* A counterparty that is back before its loss was noticed, and nothing else. *)
ReplacedOnly == {[threads |-> 1, replaces |-> TRUE, overlap |-> FALSE]}

(* For a look at two io threads, where none of this holds.                  *)
TwoThreads == [threads : {2}, replaces : BOOLEAN, overlap : BOOLEAN]
=============================================================================
