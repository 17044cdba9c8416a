----------------------------- MODULE ResendLoop -----------------------------
(***************************************************************************)
(* Session::handleResendRequestReceived as a loop, one stored message at a *)
(* time.  The loop reads the vector getOutgoing filled (stored) for the    *)
(* range begin..end; a write may fail at any iteration, and then the       *)
(* handler returns with what it has written so far.                        *)
(***************************************************************************)
EXTENDS ResendPlan

CONSTANTS
  Bodies,   \* application payloads
  MaxSeq    \* largest sequence number of the modelled session

ASSUME MaxSeqAssumption == MaxSeq \in Nat

VARIABLES
  stored,   \* the vector of StoredMessageView the loop visits
  begin,    \* BeginSeqNo of the request
  end,      \* EndSeqNo of the request, 0 already replaced
  i,        \* how many stored messages have been visited
  acc,      \* expectedSeqNum, gapFillBegin and the messages written
  phase     \* "loop", "done", or "failed" after a write error

vars == <<stored, begin, end, i, acc, phase>>

SeqNums == 1..MaxSeq

StoredMessages == [seq : SeqNums, admin : BOOLEAN, body : Bodies]

(* The vector is Ascending and inside the range: FIXSession shows that the *)
(* store it is taken from ascends unless a disk refused a message.         *)
InRange(s, b, e) == \A j \in DOMAIN s : b =< s[j].seq /\ s[j].seq =< e

(* Every vector that can be read for a range, and the loop about to start. *)
Init ==
  /\ begin \in SeqNums
  /\ end \in SeqNums
  /\ \E n \in 0..MaxSeq : stored \in [1..n -> StoredMessages]
  /\ Ascending(stored)
  /\ InRange(stored, begin, end)
  /\ i = 0
  /\ acc = Start(begin)
  /\ phase = "loop"

(* One iteration of the for loop whose writes succeed.                     *)
Iterate ==
  /\ phase = "loop"
  /\ i < Len(stored)
  /\ acc' = Visit(acc, stored[i + 1])
  /\ i' = i + 1
  /\ UNCHANGED <<stored, begin, end, phase>>

(* An application message is next and the connection refuses the gap fill   *)
(* or, once that is written, the message: the handler returns the error.   *)
WriteFails ==
  /\ phase = "loop"
  /\ i < Len(stored)
  /\ ~stored[i + 1].admin
  /\ LET skipped == Skip(acc, stored[i + 1].seq)
     IN  acc' \in {skipped, Flush(skipped)}
  /\ phase' = "failed"
  /\ UNCHANGED <<stored, begin, end, i>>

(* The loop is over: close the range and flush.                            *)
Return ==
  /\ phase = "loop"
  /\ i = Len(stored)
  /\ acc' = Finish(acc, end)
  /\ phase' = "done"
  /\ UNCHANGED <<stored, begin, end, i>>

(* The last flush is refused by the connection.                            *)
LastWriteFails ==
  /\ phase = "loop"
  /\ i = Len(stored)
  /\ Skip(acc, end + 1).gap # 0
  /\ acc' = Skip(acc, end + 1)
  /\ phase' = "failed"
  /\ UNCHANGED <<stored, begin, end, i>>

Next == Iterate \/ WriteFails \/ Return \/ LastWriteFails

Spec == Init /\ [][Next]_vars

-----------------------------------------------------------------------------
(* Type invariant.                                                         *)
Written == [kind : {"Fill"}, seq : Nat \ {0}, new : Nat \ {0}]
             \cup [kind : {"Dup"}, seq : Nat \ {0}, body : Bodies]

TypeOK ==
  /\ begin \in Nat \ {0}
  /\ end \in Nat
  /\ stored \in Seq([seq : Nat \ {0}, admin : BOOLEAN, body : Bodies])
  /\ i \in 0..Len(stored)
  /\ acc \in [expected : Nat \ {0}, gap : Nat, out : Seq(Written)]
  /\ phase \in {"loop", "done", "failed"}

(* What has been written leaves no hole and no overlap from BeginSeqNo to  *)
(* the frontier.  A receiver that applies it number by number never sees a *)
(* second gap and never skips a number (handleResendRequestReceived).      *)
Contiguous == Chain(acc.out, begin, Frontier(acc))

(* No application message that can be rebuilt is ever covered by a gap     *)
(* fill: a gap fill would make the receiver skip it for good.              *)
NoMessageSkipped == HidesNone(Held(stored), acc.out)

(* Everything that was replayed was in the store as an application         *)
(* message with that number: administrative messages are never replayed.   *)
OnlyStored == FromStore(Held(stored), acc.out)

(* When the handler returns after a non-empty range it has accounted for   *)
(* the whole range and nothing more.                                       *)
RangeCovered ==
  (phase = "done" /\ begin =< end) => (acc.gap = 0 /\ acc.expected = end + 1)

=============================================================================
