------------------------- MODULE ResendLoop_proofs --------------------------
(***************************************************************************)
(* Proofs about the resend handler: for every store, range and point at    *)
(* which a write fails, what has been written is a chain from BeginSeqNo,  *)
(* never hides a message that can be replayed, and covers the range when   *)
(* the handler returns.                                                    *)
(***************************************************************************)
EXTENDS ResendLoop, ResendPlan_proofs

StoredMessage == StoredIn(Bodies)
Replays       == ScansIn(Bodies)

(* What the loop keeps to while it runs: the visited messages are below    *)
(* expectedSeqNum, the others are not, the range is not left, and the gap  *)
(* that is pending covers no message that can be replayed.                 *)
Progress ==
  /\ Pending(acc)
  /\ \A j \in 1..i : stored[j].seq < acc.expected
  /\ \A j \in i + 1..Len(stored) : acc.expected =< stored[j].seq
  /\ begin =< end => acc.expected =< end + 1
  /\ acc.gap # 0 => ~Covers(Held(stored), acc.gap, acc.expected)

(* The inductive invariant.                                                *)
Inv ==
  /\ TypeOK
  /\ Ascending(stored)
  /\ InRange(stored, begin, end)
  /\ phase = "loop" => Progress
  /\ Contiguous
  /\ NoMessageSkipped
  /\ OnlyStored
  /\ RangeCovered

-----------------------------------------------------------------------------
(* The vector and the scan, as the lemmas about the handler see them.       *)
LEMMA StoredOrder ==
  ASSUME Inv
  PROVE  /\ Len(stored) \in Nat /\ i \in 0..Len(stored)
         /\ begin \in Nat \ {0} /\ end \in Nat /\ acc \in Replays
         /\ Held(stored) \in SUBSET StoredMessage
         /\ \A x \in Held(stored) : \E j \in 1..Len(stored) : x = stored[j]
         /\ \A j \in 1..Len(stored) : stored[j] \in Held(stored)
         /\ \A j \in 1..Len(stored) : stored[j].seq \in Nat \ {0}
         /\ \A j \in 1..Len(stored) : begin =< stored[j].seq /\ stored[j].seq =< end
         /\ \A j, k \in 1..Len(stored) : j < k => stored[j].seq < stored[k].seq
<1>1. /\ stored \in Seq(StoredMessage) /\ DOMAIN stored = 1..Len(stored) /\ Len(stored) \in Nat
      /\ \A j \in 1..Len(stored) : stored[j] \in StoredMessage
  BY LenProperties, ElementOfSeq DEF Inv, TypeOK, StoredMessage, StoredIn
<1>2. \A j \in 1..Len(stored) : stored[j].seq \in Nat \ {0}
  BY <1>1 DEF StoredMessage, StoredIn
<1>3. acc \in Replays
  BY DEF Inv, TypeOK, Replays, ScansIn, Written, WrittenIn
<1>4. /\ \A j \in 1..Len(stored) : begin =< stored[j].seq /\ stored[j].seq =< end
      /\ \A j, k \in 1..Len(stored) : j < k => stored[j].seq < stored[k].seq
  BY <1>1 DEF Inv, InRange, Ascending
<1>5. /\ Held(stored) \in SUBSET StoredMessage
      /\ \A x \in Held(stored) : \E j \in 1..Len(stored) : x = stored[j]
      /\ \A j \in 1..Len(stored) : stored[j] \in Held(stored)
  BY <1>1 DEF Held
<1>6. begin \in Nat \ {0} /\ end \in Nat /\ i \in 0..Len(stored)
  BY DEF Inv, TypeOK
<1> QED BY <1>1, <1>2, <1>3, <1>4, <1>5, <1>6

LEMMA LoopPromises ==
  ASSUME Inv, phase = "loop" PROVE Promised(Held(stored), begin, acc)
BY DEF Inv, Progress, Contiguous, NoMessageSkipped, OnlyStored, Promised

(* What a promise says of the invariants, once the scan is what it is.      *)
LEMMA Keeps ==
  ASSUME stored' = stored, begin' = begin, Promised(Held(stored), begin, acc')
  PROVE  Contiguous' /\ NoMessageSkipped' /\ OnlyStored'
BY DEF Promised, Contiguous, NoMessageSkipped, OnlyStored, Frontier

-----------------------------------------------------------------------------
LEMMA InitInv == Init => Inv
<1> SUFFICES ASSUME Init PROVE Inv
  OBVIOUS
<1> USE MaxSeqAssumption
<1>1. stored \in Seq(StoredMessage) /\ Len(stored) \in Nat
  <2>1. PICK n \in 0..MaxSeq : stored \in [1..n -> StoredMessages]
    BY DEF Init
  <2>2. StoredMessages \subseteq StoredMessage
    BY DEF StoredMessages, StoredMessage, StoredIn, SeqNums
  <2>3. stored \in [1..n -> StoredMessage] /\ n \in Nat
    BY <2>1, <2>2
  <2> QED BY <2>3, LenProperties
<1>2. acc = [expected |-> begin, gap |-> 0, out |-> <<>>] /\ begin \in Nat \ {0} /\ end \in Nat
  BY DEF Init, Start, Scan, SeqNums
<1>3. TypeOK
  BY <1>1, <1>2, EmptySeq DEF Init, TypeOK, StoredMessage, StoredIn
<1>4. Len(acc.out) = 0 /\ acc.out = <<>>
  BY <1>2, EmptySeq
<1>5. Contiguous /\ NoMessageSkipped /\ OnlyStored
  BY <1>2, <1>4 DEF Contiguous, Chain, Frontier, NoMessageSkipped, OnlyStored, HidesNone, FromStore
<1>6. Progress
  BY <1>1, <1>2 DEF Init, Progress, Pending, InRange
<1> QED BY <1>3, <1>5, <1>6 DEF Init, Inv, RangeCovered

-----------------------------------------------------------------------------
(* Each step keeps the invariant.                                          *)
LEMMA IterateInv == Inv /\ Iterate => Inv'
<1> SUFFICES ASSUME Inv, Iterate PROVE Inv'
  OBVIOUS
<1>1. /\ phase = "loop" /\ phase' = phase /\ i' = i + 1 /\ i < Len(stored)
      /\ stored' = stored /\ begin' = begin /\ end' = end
      /\ acc' = Visit(acc, stored[i + 1])
  BY DEF Iterate
<1>2. /\ Len(stored) \in Nat /\ i \in 0..Len(stored)
      /\ begin \in Nat \ {0} /\ end \in Nat /\ acc \in Replays
      /\ \A j \in 1..Len(stored) : stored[j].seq \in Nat \ {0}
      /\ \A j \in 1..Len(stored) : begin =< stored[j].seq /\ stored[j].seq =< end
      /\ \A j, k \in 1..Len(stored) : j < k => stored[j].seq < stored[k].seq
  BY StoredOrder
<1>3. i + 1 \in 1..Len(stored) /\ stored[i + 1].seq \in Nat \ {0}
  BY <1>1, <1>2
<1>4. PICK H, m, t : H = Held(stored) /\ m = stored[i + 1] /\ t = acc'
  OBVIOUS
<1>5. /\ H \in SUBSET StoredMessage /\ m \in H
      /\ \A x \in H : \E j \in 1..Len(stored) : x = stored[j]
  BY <1>3, <1>4, StoredOrder
<1>6. acc.expected =< m.seq /\ acc.expected \in Nat
  BY <1>1, <1>2, <1>3, <1>4 DEF Inv, Progress, Replays, ScansIn
<1>7. \A x \in H : x.seq < acc.expected \/ x = m \/ m.seq < x.seq
  <2> SUFFICES ASSUME NEW x \in H
               PROVE  x.seq < acc.expected \/ x = m \/ m.seq < x.seq
    OBVIOUS
  <2>1. PICK j \in 1..Len(stored) : x = stored[j]
    BY <1>5
  <2>2. CASE j =< i
    <3>1. j \in 1..i
      BY <1>2, <2>2
    <3> QED BY <1>1, <2>1, <3>1 DEF Inv, Progress
  <2>3. CASE j = i + 1
    BY <1>4, <2>1, <2>3
  <2>4. CASE i + 1 < j
    BY <1>2, <1>3, <1>4, <2>1, <2>4
  <2> QED BY <1>2, <2>2, <2>3, <2>4
<1>8. /\ acc \in ScansIn(Bodies) /\ Promised(H, begin, acc)
      /\ begin \in Nat /\ H \in SUBSET StoredIn(Bodies) /\ t = Visit(acc, m)
  BY <1>1, <1>2, <1>4, <1>5, LoopPromises DEF StoredMessage, Replays
<1>9. t \in ScansIn(Bodies) /\ Promised(H, begin, t)
  BY <1>5, <1>6, <1>7, <1>8, VisitLemma
<1>10. t.expected = m.seq + 1
  BY <1>5, <1>6, <1>7, <1>8, <1>9, VisitLemma
<1>11. Contiguous' /\ NoMessageSkipped' /\ OnlyStored'
  BY <1>1, <1>4, <1>9, Keeps
<1>12. Progress'
  <2>1. \A j \in 1..i + 1 : stored[j].seq < acc'.expected
    <3> SUFFICES ASSUME NEW j \in 1..i + 1 PROVE stored[j].seq < stored[i + 1].seq + 1
      BY <1>4, <1>10
    <3>1. j \in 1..Len(stored) /\ (j < i + 1 \/ j = i + 1)
      BY <1>2, <1>3
    <3> QED BY <1>2, <1>3, <3>1
  <2>2. \A j \in i + 1 + 1..Len(stored) : acc'.expected =< stored[j].seq
    <3> SUFFICES ASSUME NEW j \in i + 1 + 1..Len(stored)
                 PROVE  stored[i + 1].seq + 1 =< stored[j].seq
      BY <1>4, <1>10
    <3>1. j \in 1..Len(stored) /\ i + 1 < j
      BY <1>2, <1>3
    <3>2. stored[i + 1].seq < stored[j].seq /\ stored[j].seq \in Nat
      BY <1>2, <1>3, <3>1
    <3> QED BY <1>3, <3>2
  <2>3. acc'.expected =< end + 1
    BY <1>2, <1>3, <1>4, <1>10
  <2>4. Pending(acc') /\ (acc'.gap # 0 => ~Covers(Held(stored), acc'.gap, acc'.expected))
    BY <1>4, <1>9 DEF Promised
  <2> QED BY <1>1, <2>1, <2>2, <2>3, <2>4 DEF Progress
<1>13. TypeOK'
  BY <1>1, <1>3, <1>4, <1>9 DEF Inv, TypeOK, ScansIn, Written, WrittenIn
<1> QED BY <1>1, <1>11, <1>12, <1>13 DEF Inv, RangeCovered, Ascending, InRange

LEMMA WriteFailsInv == Inv /\ WriteFails => Inv'
<1> SUFFICES ASSUME Inv, WriteFails PROVE Inv'
  OBVIOUS
<1>1. PICK H, m, skipped, flushed :
        /\ H = Held(stored) /\ m = stored[i + 1]
        /\ skipped = Skip(acc, m.seq) /\ flushed = Flush(skipped)
  OBVIOUS
<1>2. /\ phase = "loop" /\ phase' = "failed" /\ i' = i /\ i < Len(stored)
      /\ stored' = stored /\ begin' = begin /\ end' = end
      /\ acc' = skipped \/ acc' = flushed
  BY <1>1 DEF WriteFails
<1>3. /\ Len(stored) \in Nat /\ i \in 0..Len(stored) /\ begin \in Nat
      /\ \A j \in 1..Len(stored) : stored[j].seq \in Nat \ {0}
      /\ \A j, k \in 1..Len(stored) : j < k => stored[j].seq < stored[k].seq
  BY StoredOrder
<1>4. i + 1 \in 1..Len(stored) /\ m.seq \in Nat
  BY <1>1, <1>2, <1>3
<1>5. /\ H \in SUBSET StoredIn(Bodies) /\ acc \in ScansIn(Bodies)
      /\ Promised(H, begin, acc)
      /\ \A x \in H : \E j \in 1..Len(stored) : x = stored[j]
  BY <1>1, <1>2, StoredOrder, LoopPromises DEF StoredMessage, Replays
<1>6. \A x \in H : x.seq < acc.expected \/ m.seq =< x.seq
  <2> SUFFICES ASSUME NEW x \in H PROVE x.seq < acc.expected \/ m.seq =< x.seq
    OBVIOUS
  <2>1. PICK j \in 1..Len(stored) : x = stored[j]
    BY <1>5
  <2>2. CASE j =< i
    <3>1. j \in 1..i
      BY <1>3, <2>2
    <3> QED BY <1>2, <2>1, <3>1 DEF Inv, Progress
  <2>3. CASE i + 1 =< j
    BY <1>1, <1>3, <1>4, <2>1, <2>3
  <2> QED BY <1>3, <2>2, <2>3
<1>7. skipped \in ScansIn(Bodies) /\ Promised(H, begin, skipped)
  BY <1>1, <1>3, <1>4, <1>5, <1>6, SkipLemma
<1>8. flushed \in ScansIn(Bodies) /\ Promised(H, begin, flushed)
  BY <1>1, <1>3, <1>7, FlushLemma
<1>9. acc' \in ScansIn(Bodies) /\ Promised(Held(stored), begin, acc')
  BY <1>1, <1>2, <1>7, <1>8
<1>10. Contiguous' /\ NoMessageSkipped' /\ OnlyStored'
  BY <1>2, <1>9, Keeps
<1> QED BY <1>2, <1>9, <1>10
        DEF Inv, TypeOK, ScansIn, Written, WrittenIn, RangeCovered, Ascending, InRange

(* What the end of the handler makes of the scan.                           *)
LEMMA AtEnd ==
  ASSUME Inv, phase = "loop", i = Len(stored),
         NEW skipped, skipped = Skip(acc, end + 1),
         NEW finished, finished = Finish(acc, end)
  PROVE  /\ skipped \in Replays /\ finished \in Replays
         /\ Promised(Held(stored), begin, skipped)
         /\ Promised(Held(stored), begin, finished)
         /\ finished.gap = 0
         /\ begin =< end => finished.expected = end + 1
<1>1. PICK H : H = Held(stored)
  OBVIOUS
<1>2. /\ Len(stored) \in Nat /\ i \in 0..Len(stored) /\ begin \in Nat /\ end \in Nat
      /\ H \in SUBSET StoredIn(Bodies) /\ acc \in ScansIn(Bodies)
      /\ Promised(H, begin, acc)
      /\ \A x \in H : \E j \in 1..Len(stored) : x = stored[j]
  BY <1>1, StoredOrder, LoopPromises DEF StoredMessage, Replays
<1>3. \A x \in H : x.seq < acc.expected
  BY <1>2 DEF Inv, Progress
<1>4. skipped \in ScansIn(Bodies) /\ Promised(H, begin, skipped)
  <2>1. end + 1 \in Nat /\ \A x \in H : x.seq < acc.expected \/ end + 1 =< x.seq
    BY <1>2, <1>3
  <2> QED BY <1>2, <2>1, SkipLemma
<1>5. finished \in ScansIn(Bodies) /\ Promised(H, begin, finished)
  BY <1>2, <1>3, FinishLemma
<1>6. finished.gap = 0
  BY <1>2, <1>3, <1>5, FinishLemma
<1>7. begin =< end => finished.expected = end + 1
  <2>1. begin =< end => acc.expected =< end + 1
    BY DEF Inv, Progress
  <2> QED BY <1>2, <1>3, <1>5, <2>1, FinishLemma
<1> QED BY <1>1, <1>4, <1>5, <1>6, <1>7 DEF Replays

LEMMA ReturnInv == Inv /\ Return => Inv'
<1> SUFFICES ASSUME Inv, Return PROVE Inv'
  OBVIOUS
<1>1. /\ phase = "loop" /\ phase' = "done" /\ i' = i /\ i = Len(stored)
      /\ stored' = stored /\ begin' = begin /\ end' = end
      /\ acc' = Finish(acc, end)
  BY DEF Return
<1>2. /\ acc' \in Replays /\ Promised(Held(stored), begin, acc')
      /\ acc'.gap = 0 /\ (begin =< end => acc'.expected = end + 1)
  BY <1>1, AtEnd
<1>3. Contiguous' /\ NoMessageSkipped' /\ OnlyStored' /\ RangeCovered'
  BY <1>1, <1>2, Keeps DEF RangeCovered
<1> QED BY <1>1, <1>2, <1>3
        DEF Inv, TypeOK, Replays, ScansIn, Written, WrittenIn, Ascending, InRange

LEMMA LastWriteFailsInv == Inv /\ LastWriteFails => Inv'
<1> SUFFICES ASSUME Inv, LastWriteFails PROVE Inv'
  OBVIOUS
<1>1. /\ phase = "loop" /\ phase' = "failed" /\ i' = i /\ i = Len(stored)
      /\ stored' = stored /\ begin' = begin /\ end' = end
      /\ acc' = Skip(acc, end + 1)
  BY DEF LastWriteFails
<1>2. acc' \in Replays /\ Promised(Held(stored), begin, acc')
  BY <1>1, AtEnd
<1>3. Contiguous' /\ NoMessageSkipped' /\ OnlyStored'
  BY <1>1, <1>2, Keeps
<1> QED BY <1>1, <1>2, <1>3
        DEF Inv, TypeOK, Replays, ScansIn, Written, WrittenIn, RangeCovered, Ascending, InRange

-----------------------------------------------------------------------------
(* The inductive invariant holds in every state of the handler.             *)
THEOREM Invariance == Spec => []Inv
<1>1. Inv /\ [Next]_vars => Inv'
  <2> SUFFICES ASSUME Inv, [Next]_vars PROVE Inv'
    OBVIOUS
  <2>1. CASE Iterate
    BY <2>1, IterateInv
  <2>2. CASE WriteFails
    BY <2>2, WriteFailsInv
  <2>3. CASE Return
    BY <2>3, ReturnInv
  <2>4. CASE LastWriteFails
    BY <2>4, LastWriteFailsInv
  <2>5. CASE UNCHANGED vars
    BY <2>5 DEF vars, Inv, TypeOK, Ascending, InRange, Progress, Contiguous,
                NoMessageSkipped, OnlyStored, RangeCovered
  <2> QED BY <2>1, <2>2, <2>3, <2>4, <2>5 DEF Next
<1> QED BY <1>1, InitInv, PTL DEF Spec

(* The scan's variables stay what the code declares them to be: numbers     *)
(* never reach zero, the index never leaves the vector.                    *)
THEOREM TypeCorrect == Spec => []TypeOK
<1>1. Inv => TypeOK
  BY DEF Inv
<1> QED BY <1>1, Invariance, PTL

(* At every point, a write error included, what has been written is a chain *)
(* from BeginSeqNo without hole or overlap, for a store of any length.     *)
THEOREM ContiguousAlways == Spec => []Contiguous
<1>1. Inv => Contiguous
  BY DEF Inv
<1> QED BY <1>1, Invariance, PTL

(* No gap fill ever covers an application message that could be replayed.   *)
THEOREM NoMessageEverSkipped == Spec => []NoMessageSkipped
<1>1. Inv => NoMessageSkipped
  BY DEF Inv
<1> QED BY <1>1, Invariance, PTL

(* Every replayed message was stored, under its number, by the application. *)
THEOREM ReplaysOnlyStored == Spec => []OnlyStored
<1>1. Inv => OnlyStored
  BY DEF Inv
<1> QED BY <1>1, Invariance, PTL

(* A handler that returns has accounted for the whole range it was asked    *)
(* for, and for nothing beyond it.                                         *)
THEOREM CoversRange == Spec => []RangeCovered
<1>1. Inv => RangeCovered
  BY DEF Inv
<1> QED BY <1>1, Invariance, PTL

=============================================================================
