---------------------------- MODULE FrameStream -----------------------------
(***************************************************************************)
(* What the handlers of a session see of a connection, whatever pieces the *)
(* bytes arrive in: the frames that were sent, one after the other, each   *)
(* once, but for those that may be tried again at once; and all of them,   *)
(* unless something was wrong.                                             *)
(***************************************************************************)
EXTENDS Integers, Sequences

CONSTANTS
  Frame,
  Retried   \* the frames that may be handed over again

VARIABLES
  lossy,    \* frames may be passed over
  sent,     \* the frames of this connection
  handed    \* which of them the handlers have seen

Init == sent = <<>> /\ handed = <<>> /\ lossy \in BOOLEAN

Send == \E f \in Frame : sent' = Append(sent, f) /\ UNCHANGED <<lossy, handed>>

HandOver ==
  \E n \in DOMAIN sent :
    /\ \A i \in DOMAIN handed : handed[i] < n
    /\ lossy \/ n = Len(handed) + 1
    /\ handed' = Append(handed, n)
    /\ UNCHANGED <<lossy, sent>>

HandAgain ==
  \E n \in DOMAIN sent :
    /\ handed # <<>> /\ handed[Len(handed)] = n
    /\ sent[n] \in Retried
    /\ handed' = Append(handed, n)
    /\ UNCHANGED <<lossy, sent>>

NewConnection == sent' = <<>> /\ handed' = <<>> /\ UNCHANGED lossy

Next == Send \/ HandOver \/ HandAgain \/ NewConnection

Spec == Init /\ [][Next]_<<lossy, sent, handed>>

=============================================================================
