----------------------------- MODULE DurableLog ------------------------------
(***************************************************************************)
(* What a message store promises the next process: the numbers it starts   *)
(* with and the messages it can replay.  FileStore implements it, one file *)
(* operation at a time.                                                    *)
(***************************************************************************)
EXTENDS Integers, Sequences

CONSTANT Number   \* numbers a message may have

VARIABLES
  log,       \* numbers of the messages that can be replayed
  numbers    \* the next number of the sender and of the target

Init == log = <<>> /\ numbers = <<1, 1>>

Keep == \E n \in Number : log' = Append(log, n) /\ UNCHANGED numbers

Advance ==
  /\ numbers' \in Nat \X Nat
  /\ numbers'[1] >= numbers[1] /\ numbers'[2] >= numbers[2]
  /\ UNCHANGED log

StartAgain == numbers' = <<1, 1>> /\ UNCHANGED log

Drop == log' = <<>> /\ UNCHANGED numbers

Next == Keep \/ Advance \/ StartAgain \/ Drop

Spec == Init /\ [][Next]_<<log, numbers>>

=============================================================================
