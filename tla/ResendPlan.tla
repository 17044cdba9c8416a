----------------------------- MODULE ResendPlan -----------------------------
(***************************************************************************)
(* What a session answers to a ResendRequest: the scan of the message     *)
(* store (MessageStoreBase::getOutgoing) and one iteration of the loop of  *)
(* Session::handleResendRequestReceived.  The stored messages are visited  *)
(* in order; numbers with no stored message and administrative messages    *)
(* are collected into one gap fill, which is flushed before the next       *)
(* application message is replayed under its own number.                   *)
(*                                                                         *)
(* Only operators are here: ResendLoop runs the loop one iteration at a    *)
(* time, SessionCore runs the whole of it (Scanned) in one step.           *)
(***************************************************************************)
EXTENDS Naturals, Sequences

CONSTANT Unreplayable   \* bodies whose raw text buildPossDupReplay refuses

(* A StoredMessageView: number, administrative or not, and the payload.    *)
Stored(seq, admin, body) == [seq |-> seq, admin |-> admin, body |-> body]

(* getOutgoing: skip what is below the range, stop at the first stored     *)
(* number above it.  These are the places of what it returns.              *)
GetOutgoing(outgoing, begin, end) ==
  {i \in DOMAIN outgoing :
     /\ outgoing[i].seq >= begin
     /\ \A j \in 1..i : outgoing[j].seq =< end}

(* What the replay writes: a SequenceReset-GapFill that carries number seq *)
(* and announces new, or an application message with PossDupFlag.          *)
Fill(seq, new) == [kind |-> "Fill", seq |-> seq, new |-> new]
Dup(seq, body) == [kind |-> "Dup", seq |-> seq, body |-> body]

(* The local variables of the handler: expectedSeqNum, gapFillBegin (0 when *)
(* no gap fill is pending) and what has been written so far.               *)
Scan(expected, gap, out) == [expected |-> expected, gap |-> gap, out |-> out]

Start(begin) == Scan(begin, 0, <<>>)

(* Number seq joins the pending gap, or opens one.                          *)
Joined(gap, seq) == IF gap = 0 THEN seq ELSE gap

(* The two while loops: every number below upTo joins the pending gap.     *)
Skip(acc, upTo) ==
  IF acc.expected < upTo
    THEN Scan(upTo, Joined(acc.gap, acc.expected), acc.out)
    ELSE acc

(* flushGapFill                                                            *)
Flush_bug(acc) ==   \* the gap stays pending
  IF acc.gap = 0
    THEN acc
    ELSE Scan(acc.expected, acc.gap, Append(acc.out, Fill(acc.gap, acc.expected)))
Flush(acc) ==
  IF acc.gap = 0
    THEN acc
    ELSE Scan(acc.expected, 0, Append(acc.out, Fill(acc.gap, acc.expected)))

(* resendApplicationMessage: the stored text with PossDupFlag=Y, or a gap  *)
(* fill of this one number when the text cannot be rebuilt.                *)
Resent(stored) ==
  IF stored.body \in Unreplayable
    THEN Fill(stored.seq, stored.seq + 1)
    ELSE Dup(stored.seq, stored.body)

(* An administrative message joins the gap; an application message is      *)
(* written after the gap before it is closed.                              *)
Withhold(acc, stored) == Scan(stored.seq + 1, Joined(acc.gap, stored.seq), acc.out)
Resend(acc, stored)   == Scan(stored.seq + 1, acc.gap, Append(acc.out, Resent(stored)))

(* One iteration of the for loop.                                          *)
Visit_bug1(acc, stored) ==   \* the pending gap fill is not flushed first
  IF stored.admin
    THEN Withhold(Skip(acc, stored.seq), stored)
    ELSE Resend(Skip(acc, stored.seq), stored)
Visit_bug2(acc, stored) ==   \* administrative messages are replayed
  Resend(Flush(Skip(acc, stored.seq)), stored)
Visit(acc, stored) ==
  IF stored.admin
    THEN Withhold(Skip(acc, stored.seq), stored)
    ELSE Resend(Flush(Skip(acc, stored.seq)), stored)

(* After the loop: the numbers up to the end of the range, and the flush.  *)
Finish_bug(acc, end) == Flush(Skip(acc, end))   \* < where <= is meant
Finish(acc, end) == Flush(Skip(acc, end + 1))

(* The whole for loop: acc[i] is the scan behind the first i messages.      *)
Scanned(outgoing, begin, end) ==
  LET acc[i \in 0..Len(outgoing)] ==
        IF i = 0 THEN Start(begin)
        ELSE IF i \in GetOutgoing(outgoing, begin, end) THEN Visit(acc[i - 1], outgoing[i])
        ELSE acc[i - 1]
  IN  acc[Len(outgoing)]

-----------------------------------------------------------------------------
(* What is said of a replay.                                               *)

(* The numbers a written message accounts for: first, and next after last. *)
First(m) == m.seq
After(m) == IF m.kind = "Fill" THEN m.new ELSE m.seq + 1

(* out accounts for the numbers from.. up to, but not including, to: each  *)
(* message continues where the one before it stopped.                      *)
Chain(out, from, to) ==
  /\ out = <<>> => from = to
  /\ out # <<>> => First(out[1]) = from /\ After(out[Len(out)]) = to
  /\ \A j \in 1..Len(out) - 1 : After(out[j]) = First(out[j + 1])
  /\ \A j \in 1..Len(out) : First(out[j]) < After(out[j])

(* Where the written part of the range ends.                               *)
Frontier(a) == IF a.gap = 0 THEN a.expected ELSE a.gap

(* A vector whose numbers ascend, and its messages.                        *)
Ascending(s) == \A j, k \in DOMAIN s : j < k => s[j].seq < s[k].seq

Held(s) == {s[j] : j \in DOMAIN s}

(* A message of these that can be replayed has a number in from..to-1.     *)
Covers(messages, from, to) ==
  \E m \in messages :
    /\ ~m.admin /\ m.body \notin Unreplayable
    /\ from =< m.seq /\ m.seq < to

(* No gap fill that was written covers one of them.                        *)
HidesNone(messages, out) ==
  \A k \in 1..Len(out) :
    out[k].kind = "Fill" => ~Covers(messages, out[k].seq, out[k].new)

(* Whatever was replayed is one of them, and not an administrative one.    *)
FromStore(messages, out) ==
  \A k \in 1..Len(out) :
    out[k].kind = "Dup"
      => \E m \in messages : m.seq = out[k].seq /\ m.body = out[k].body /\ ~m.admin

=============================================================================
