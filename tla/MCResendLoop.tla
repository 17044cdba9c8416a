---------------------------- MODULE MCResendLoop ----------------------------
(* A small instance of ResendLoop: four sequence numbers, two payloads of  *)
(* which one cannot be rebuilt for the replay.                             *)
EXTENDS ResendLoop

CONSTANTS plain, broken

MCBodies == {plain, broken}
MCUnreplayable == {broken}
=============================================================================
