------------------------- MODULE ResendPlan_proofs --------------------------
(***************************************************************************)
(* Lemmas about the replay of stored messages, for any messages, range and *)
(* payloads: what each helper of the resend handler does to a scan, that   *)
(* one iteration keeps what a scan promises, and, by induction over the    *)
(* store, that the whole loop does.  ResendLoop_proofs uses them step by   *)
(* step, SessionPair_proofs for the handler as a whole.                    *)
(***************************************************************************)
EXTENDS ResendPlan, SequenceTheorems, WellFoundedInduction, TLAPS

StoredIn(bodies) == [seq : Nat \ {0}, admin : BOOLEAN, body : bodies]

WrittenIn(bodies) ==
  [kind : {"Fill"}, seq : Nat \ {0}, new : Nat \ {0}]
    \cup [kind : {"Dup"}, seq : Nat \ {0}, body : bodies]

ScansIn(bodies) == [expected : Nat \ {0}, gap : Nat, out : Seq(WrittenIn(bodies))]

(* A gap fill that is pending covers at least one number.                  *)
Pending(a) == a.gap # 0 => a.gap < a.expected

(* What a scan of these messages that began at from has promised so far:   *)
(* what is written is a chain up to the frontier, and neither a gap fill    *)
(* that is written nor the pending one covers a message that can be        *)
(* replayed.                                                               *)
Promised(messages, from, a) ==
  /\ Pending(a)
  /\ Chain(a.out, from, Frontier(a))
  /\ a.gap # 0 => ~Covers(messages, a.gap, a.expected)
  /\ HidesNone(messages, a.out)
  /\ FromStore(messages, a.out)

-----------------------------------------------------------------------------
(* What the helpers return.                                                *)

(* A message that starts where the chain stops prolongs it.                 *)
LEMMA ChainAppend ==
  ASSUME NEW bodies, NEW out \in Seq(WrittenIn(bodies)), NEW from \in Nat, NEW to \in Nat,
         NEW m \in WrittenIn(bodies),
         Chain(out, from, to), First(m) = to, First(m) < After(m)
  PROVE  Chain(Append(out, m), from, After(m))
<1> DEFINE longer == Append(out, m)
<1>1. /\ longer \in Seq(WrittenIn(bodies))
      /\ Len(longer) = Len(out) + 1
      /\ \A j \in 1..Len(out) : longer[j] = out[j]
      /\ longer[Len(longer)] = m
      /\ Len(out) \in Nat
  BY AppendProperties, LenProperties
<1>2. longer # <<>>
  BY <1>1
<1>3. First(longer[1]) = from
  <2>1. CASE out = <<>>
    BY <2>1, <1>1 DEF Chain
  <2>2. CASE out # <<>>
    BY <2>2, <1>1, EmptySeq, LenProperties DEF Chain
  <2> QED BY <2>1, <2>2
<1>4. ASSUME NEW j \in 1..Len(longer) - 1
      PROVE  After(longer[j]) = First(longer[j + 1])
  <2>1. CASE j < Len(out)
    BY <2>1, <1>1 DEF Chain
  <2>2. CASE j = Len(out)
    BY <2>2, <1>1, EmptySeq DEF Chain
  <2> QED BY <2>1, <2>2, <1>1
<1>5. ASSUME NEW j \in 1..Len(longer)
      PROVE  First(longer[j]) < After(longer[j])
  BY <1>1 DEF Chain
<1> QED BY <1>1, <1>2, <1>3, <1>4, <1>5 DEF Chain

(* What a replayed message carries.                                         *)
LEMMA ResentLemma ==
  ASSUME NEW bodies, NEW m \in StoredIn(bodies)
  PROVE  /\ Resent(m) \in WrittenIn(bodies)
         /\ First(Resent(m)) = m.seq
         /\ After(Resent(m)) = m.seq + 1
         /\ Resent(m).kind = "Fill" => m.body \in Unreplayable
         /\ Resent(m).kind = "Fill" => Resent(m).new = m.seq + 1
         /\ Resent(m).kind = "Dup" => Resent(m).body = m.body
         /\ Resent(m).seq = m.seq
<1>1. CASE m.body \in Unreplayable
  BY <1>1 DEF Resent, StoredIn, WrittenIn, Fill, First, After
<1>2. CASE m.body \notin Unreplayable
  BY <1>2 DEF Resent, StoredIn, WrittenIn, Dup, First, After
<1> QED BY <1>1, <1>2

(* One more message keeps what holds of those before it.                    *)
LEMMA AppendKeeps ==
  ASSUME NEW bodies, NEW messages, NEW out \in Seq(WrittenIn(bodies)),
         NEW m \in WrittenIn(bodies),
         HidesNone(messages, out), FromStore(messages, out),
         m.kind = "Fill" => ~Covers(messages, m.seq, m.new),
         m.kind = "Dup" => \E x \in messages : x.seq = m.seq /\ x.body = m.body /\ ~x.admin
  PROVE  HidesNone(messages, Append(out, m)) /\ FromStore(messages, Append(out, m))
<1> DEFINE longer == Append(out, m)
<1>1. /\ Len(longer) = Len(out) + 1 /\ Len(out) \in Nat
      /\ \A k \in 1..Len(out) : longer[k] = out[k]
      /\ longer[Len(out) + 1] = m
  BY AppendProperties, LenProperties
<1>2. \A k \in 1..Len(longer) : k \in 1..Len(out) \/ k = Len(out) + 1
  BY <1>1
<1> HIDE DEF longer
<1>3. HidesNone(messages, longer)
  BY <1>1, <1>2 DEF HidesNone
<1>4. FromStore(messages, longer)
  BY <1>1, <1>2 DEF FromStore
<1> QED BY <1>3, <1>4 DEF longer

(* Skip raises expectedSeqNum to upTo, where no message of the store stands *)
(* in between.                                                             *)
LEMMA SkipLemma ==
  ASSUME NEW bodies, NEW messages \in SUBSET StoredIn(bodies), NEW from,
         NEW a \in ScansIn(bodies), NEW upTo \in Nat, Promised(messages, from, a),
         \A x \in messages : x.seq < a.expected \/ upTo =< x.seq,
         NEW t, t = Skip(a, upTo)
  PROVE  /\ t \in ScansIn(bodies)
         /\ Promised(messages, from, t)
         /\ a.expected =< upTo => t.expected = upTo
         /\ t.out = a.out
<1>1. /\ t \in ScansIn(bodies)
      /\ t.expected = IF a.expected < upTo THEN upTo ELSE a.expected
      /\ t.gap = IF a.expected < upTo /\ a.gap = 0 THEN a.expected ELSE a.gap
      /\ t.out = a.out
      /\ Frontier(t) = Frontier(a)
      /\ Pending(t)
  BY DEF Skip, Scan, Joined, ScansIn, Frontier, Pending, Promised
<1>2. a.expected \in Nat \ {0} /\ a.gap \in Nat /\ \A x \in messages : x.seq \in Nat
  BY DEF ScansIn, StoredIn
<1>3. ASSUME t.gap # 0
      PROVE  ~Covers(messages, t.gap, t.expected)
  BY <1>1, <1>2, <1>3 DEF Promised, Covers
<1>4. a.expected =< upTo => t.expected = upTo
  BY <1>1, <1>2
<1> QED BY <1>1, <1>3, <1>4 DEF Promised

(* Flush writes the pending gap, if any, and moves the frontier to          *)
(* expectedSeqNum.                                                         *)
LEMMA FlushLemma ==
  ASSUME NEW bodies, NEW messages, NEW from \in Nat,
         NEW a \in ScansIn(bodies), Promised(messages, from, a),
         NEW t, t = Flush(a)
  PROVE  /\ t \in ScansIn(bodies)
         /\ Promised(messages, from, t)
         /\ t.expected = a.expected
         /\ t.gap = 0
<1> DEFINE m == Fill(a.gap, a.expected)
<1>1. CASE a.gap = 0
  BY <1>1 DEF Flush
<1>2. CASE a.gap # 0
  <2>1. /\ m \in WrittenIn(bodies) /\ First(m) = a.gap /\ After(m) = a.expected
        /\ m.kind = "Fill" /\ m.seq = a.gap /\ m.new = a.expected
    BY <1>2 DEF ScansIn, WrittenIn, Fill, First, After
  <2>2. a.out \in Seq(WrittenIn(bodies)) /\ a.expected \in Nat \ {0} /\ a.gap \in Nat
    BY DEF ScansIn
  <2> HIDE DEF m
  <2>3. Append(a.out, m) \in Seq(WrittenIn(bodies))
    BY <2>1, <2>2, AppendProperties
  <2>4. Chain(Append(a.out, m), from, a.expected)
    <3>1. First(m) < After(m) /\ Chain(a.out, from, a.gap)
      BY <1>2, <2>1 DEF Pending, Frontier, Promised
    <3> QED BY <2>1, <2>2, <3>1, ChainAppend
  <2>5. HidesNone(messages, Append(a.out, m)) /\ FromStore(messages, Append(a.out, m))
    BY <1>2, <2>1, <2>2, AppendKeeps DEF Promised
  <2>6. t = [expected |-> a.expected, gap |-> 0, out |-> Append(a.out, m)]
    BY <1>2 DEF Flush, Scan, m
  <2> QED BY <2>2, <2>3, <2>4, <2>5, <2>6 DEF ScansIn, Promised, Pending, Frontier
<1> QED BY <1>1, <1>2

-----------------------------------------------------------------------------
(* One iteration of the loop keeps the promise, if no message stands        *)
(* between expectedSeqNum and the one visited.                             *)
LEMMA VisitLemma ==
  ASSUME NEW bodies, NEW messages \in SUBSET StoredIn(bodies), NEW from \in Nat,
         NEW a \in ScansIn(bodies), Promised(messages, from, a),
         NEW m \in messages, a.expected =< m.seq,
         \A x \in messages : x.seq < a.expected \/ x = m \/ m.seq < x.seq,
         NEW t, t = Visit(a, m)
  PROVE  /\ t \in ScansIn(bodies)
         /\ Promised(messages, from, t)
         /\ t.expected = m.seq + 1
<1> DEFINE skipped == Skip(a, m.seq)
           flushed == Flush(skipped)
<1>1. /\ m.seq \in Nat \ {0} /\ m.admin \in BOOLEAN /\ m \in StoredIn(bodies)
      /\ a.expected \in Nat
      /\ \A x \in messages : x.seq \in Nat
  BY DEF StoredIn, ScansIn
<1>2. t = IF m.admin THEN Withhold(skipped, m) ELSE Resend(flushed, m)
  BY DEF Visit
<1>7. skipped = Skip(a, m.seq) /\ flushed = Flush(skipped)
  OBVIOUS
<1> HIDE DEF skipped, flushed
<1>3. /\ skipped \in ScansIn(bodies) /\ Promised(messages, from, skipped)
      /\ skipped.expected = m.seq
  <2>1. \A x \in messages : x.seq < a.expected \/ m.seq =< x.seq
    BY <1>1
  <2>2. skipped \in ScansIn(bodies) /\ Promised(messages, from, skipped)
    BY <1>1, <1>7, <2>1, SkipLemma
  <2> QED BY <1>1, <1>7, <2>1, <2>2, SkipLemma
<1>4. /\ flushed \in ScansIn(bodies) /\ Promised(messages, from, flushed)
      /\ flushed.expected = m.seq /\ flushed.gap = 0
  BY <1>3, <1>7, FlushLemma
<1>5. CASE m.admin
  <2>1. t = [expected |-> m.seq + 1, gap |-> IF skipped.gap = 0 THEN m.seq ELSE skipped.gap,
             out |-> skipped.out]
    BY <1>2, <1>5 DEF Withhold, Scan, Joined
  <2>2. /\ t \in ScansIn(bodies) /\ Frontier(t) = Frontier(skipped) /\ Pending(t)
        /\ t.expected = m.seq + 1 /\ t.out = skipped.out
    BY <1>1, <1>3, <2>1 DEF ScansIn, Frontier, Pending, Promised
  <2>3. ~Covers(messages, t.gap, t.expected)
    <3>1. SUFFICES ASSUME NEW x \in messages, ~x.admin, x.body \notin Unreplayable,
                          t.gap =< x.seq, x.seq < t.expected
                   PROVE  FALSE
      BY DEF Covers
    <3>2. x.seq < m.seq
      BY <1>1, <1>5, <2>2, <3>1
    <3>3. skipped.gap # 0 /\ skipped.gap =< x.seq /\ x.seq < skipped.expected
      BY <1>1, <1>3, <2>1, <3>1, <3>2
    <3> QED BY <1>3, <3>1, <3>3 DEF Promised, Covers
  <2> QED BY <1>3, <2>2, <2>3 DEF Promised
<1>6. CASE ~m.admin
  <2> DEFINE w == Resent(m)
  <2>1. t = [expected |-> m.seq + 1, gap |-> 0, out |-> Append(flushed.out, w)]
    BY <1>2, <1>4, <1>6 DEF Resend, Scan
  <2>2. /\ w \in WrittenIn(bodies) /\ First(w) = m.seq /\ After(w) = m.seq + 1
        /\ w.kind = "Fill" => m.body \in Unreplayable
        /\ w.kind = "Fill" => w.new = m.seq + 1
        /\ w.kind = "Dup" => w.body = m.body
        /\ w.seq = m.seq
    BY <1>1, ResentLemma
  <2> HIDE DEF w
  <2>3. /\ flushed.out \in Seq(WrittenIn(bodies)) /\ Chain(flushed.out, from, m.seq)
        /\ HidesNone(messages, flushed.out) /\ FromStore(messages, flushed.out)
    BY <1>4 DEF ScansIn, Promised, Frontier
  <2>4. Append(flushed.out, w) \in Seq(WrittenIn(bodies))
    BY <2>2, <2>3, AppendProperties
  <2>5. Chain(Append(flushed.out, w), from, m.seq + 1)
    <3>1. First(w) < After(w)
      BY <1>1, <2>2
    <3> QED BY <1>1, <2>2, <2>3, <3>1, ChainAppend
  <2>6. w.kind = "Fill" => ~Covers(messages, w.seq, w.new)
    <3>1. SUFFICES ASSUME w.kind = "Fill", NEW x \in messages,
                          x.body \notin Unreplayable, m.seq =< x.seq, x.seq < m.seq + 1
                   PROVE  FALSE
      BY <2>2 DEF Covers
    <3>2. x.seq = m.seq
      BY <1>1, <3>1
    <3>3. x = m
      BY <1>1, <3>2
    <3> QED BY <2>2, <3>1, <3>3
  <2>7. HidesNone(messages, Append(flushed.out, w)) /\ FromStore(messages, Append(flushed.out, w))
    <3>1. w.kind = "Dup" => \E x \in messages : x.seq = w.seq /\ x.body = w.body /\ ~x.admin
      BY <1>6, <2>2
    <3> QED BY <2>2, <2>3, <2>6, <3>1, AppendKeeps
  <2> QED BY <1>1, <2>1, <2>4, <2>5, <2>7 DEF ScansIn, Promised, Pending, Frontier
<1> QED BY <1>1, <1>5, <1>6

(* The end of the handler keeps it too, and closes the range.               *)
LEMMA FinishLemma ==
  ASSUME NEW bodies, NEW messages \in SUBSET StoredIn(bodies), NEW from \in Nat, NEW to \in Nat,
         NEW a \in ScansIn(bodies), Promised(messages, from, a),
         \A x \in messages : x.seq < a.expected \/ to < x.seq,
         NEW t, t = Finish(a, to)
  PROVE  /\ t \in ScansIn(bodies)
         /\ Promised(messages, from, t)
         /\ t.gap = 0
         /\ a.expected =< to + 1 => t.expected = to + 1
<1> DEFINE skipped == Skip(a, to + 1)
<1>1. \A x \in messages : x.seq < a.expected \/ to + 1 =< x.seq
  BY DEF StoredIn
<1>2. t = Flush(skipped)
  BY DEF Finish
<1>3. /\ skipped \in ScansIn(bodies) /\ Promised(messages, from, skipped)
      /\ a.expected =< to + 1 => skipped.expected = to + 1
  BY <1>1, SkipLemma
<1> HIDE DEF skipped
<1> QED BY <1>2, <1>3, FlushLemma

-----------------------------------------------------------------------------
(* The loop, by induction over the store.                                  *)

(* Every non-empty set of numbers has a least one.                          *)
LEMMA Least ==
  ASSUME NEW T \in SUBSET Nat, T # {}
  PROVE  \E x \in T : \A y \in T : x =< y
<1> DEFINE R == OpToRel(<, Nat)
<1>1. IsWellFoundedOn(R, Nat)
  BY NatLessThanWellFounded
<1>2. R = {ss \in Nat \X Nat : ss[1] < ss[2]}
  BY DEF OpToRel
<1>3. \A x, y \in Nat : <<y, x>> \in R <=> y < x
  BY <1>2
<1> HIDE DEF R
<1>4. PICK x \in T : \A y \in T : ~(<<y, x>> \in R)
  BY <1>1, WFMin
<1>5. \A y \in T : ~(y < x)
  BY <1>3, <1>4
<1> QED BY <1>4, <1>5

(* The scan behind each message of the store.                              *)
Scans(outgoing, begin, end) ==
  LET acc[i \in 0..Len(outgoing)] ==
        IF i = 0 THEN Start(begin)
        ELSE IF i \in GetOutgoing(outgoing, begin, end) THEN Visit(acc[i - 1], outgoing[i])
        ELSE acc[i - 1]
  IN  acc

Following(a, outgoing, begin, end, i) ==
  IF i = 0 THEN Start(begin)
  ELSE IF i \in GetOutgoing(outgoing, begin, end) THEN Visit(a[i - 1], outgoing[i])
  ELSE a[i - 1]

(* The recursion of Scanned defines a function: were there a shortest       *)
(* prefix of the store on which it does not, the scan of the prefix before *)
(* it could be prolonged.                                                  *)
LEMMA ScansDefined ==
  ASSUME NEW bodies, NEW o \in Seq(StoredIn(bodies)), NEW begin, NEW end,
         NEW a, a = Scans(o, begin, end)
  PROVE  /\ \A i \in 0..Len(o) : a[i] = Following(a, o, begin, end, i)
         /\ Scanned(o, begin, end) = a[Len(o)]
<1> DEFINE Recurs(g, k) == g = [i \in 0..k |-> Following(g, o, begin, end, i)]
           T == {k \in Nat : ~ \E g : Recurs(g, k)}
<1>1. Len(o) \in Nat
  BY LenProperties
<1>2. T = {}
  <2>1. SUFFICES ASSUME T # {} PROVE FALSE
    OBVIOUS
  <2>2. PICK m \in T : \A y \in T : m =< y
    <3>1. T \in SUBSET Nat
      OBVIOUS
    <3> HIDE DEF T
    <3> QED BY <2>1, <3>1, Least
  <2>3. m # 0
    <3> DEFINE g == [i \in 0..0 |-> Start(begin)]
    <3>1. g = [i \in 0..0 |-> Following(g, o, begin, end, i)]
      BY DEF Following
    <3>2. \E h : Recurs(h, 0)
      BY <3>1
    <3> QED BY <3>2
  <2>4. m - 1 \in Nat /\ m - 1 \notin T
    BY <2>2, <2>3
  <2>5. PICK g : Recurs(g, m - 1)
    BY <2>4
  <2> DEFINE h == [i \in 0..m |-> IF i = m THEN Following(g, o, begin, end, m) ELSE g[i]]
  <2>6. ASSUME NEW i \in 0..m PROVE h[i] = Following(h, o, begin, end, i)
    <3>1. CASE i = m
      <4>1. h[m - 1] = g[m - 1]
        BY <2>3, <2>4
      <4> QED BY <3>1, <4>1, <2>3 DEF Following
    <3>2. CASE i # m
      <4>1. i \in 0..m - 1
        BY <3>2, <2>4
      <4>2. g[i] = Following(g, o, begin, end, i)
        BY <4>1, <2>5
      <4>3. i # 0 => h[i - 1] = g[i - 1]
        BY <4>1, <2>4
      <4> HIDE DEF Recurs, T
      <4> QED BY <3>2, <4>1, <4>2, <4>3 DEF Following
    <3> QED BY <3>1, <3>2
  <2>7. Recurs(h, m)
    <3>1. h = [i \in 0..m |-> h[i]]
      OBVIOUS
    <3> HIDE DEF h
    <3> QED BY <2>6, <3>1
  <2> QED BY <2>7
<1>3. \E g : Recurs(g, Len(o))
  BY <1>1, <1>2
<1>4. a = CHOOSE g : Recurs(g, Len(o))
  BY DEF Scans, Following
<1>5. Recurs(a, Len(o))
  BY <1>3, <1>4
<1>6. Scanned(o, begin, end) = a[Len(o)]
  BY DEF Scanned, Scans
<1> QED BY <1>5, <1>6

(* The scan of an ascending store: at each message it keeps its promise and *)
(* stands between what it has visited and what it has not.                 *)
LEMMA ScansLemma ==
  ASSUME NEW bodies, NEW o \in Seq(StoredIn(bodies)), Ascending(o),
         NEW begin \in Nat \ {0}, NEW end \in Nat, begin =< end,
         NEW a, a = Scans(o, begin, end), NEW s, s = a[Len(o)]
  PROVE  /\ s \in ScansIn(bodies) /\ Promised(Held(o), begin, s)
         /\ s.expected =< end + 1
         /\ \A x \in Held(o) : x.seq < s.expected \/ end < x.seq
<1> DEFINE read == GetOutgoing(o, begin, end)
           Kept(i) ==
             /\ a[i] \in ScansIn(bodies)
             /\ Promised(Held(o), begin, a[i])
             /\ begin =< a[i].expected /\ a[i].expected =< end + 1
             /\ \A j \in read : j =< i => o[j].seq < a[i].expected
             /\ \A j \in read : i < j => a[i].expected =< o[j].seq
           T == {i \in Nat : i =< Len(o) /\ ~Kept(i)}
<1>1. /\ Len(o) \in Nat /\ DOMAIN o = 1..Len(o)
      /\ \A j \in 1..Len(o) : o[j] \in StoredIn(bodies)
  BY LenProperties, ElementOfSeq
<1>2. \A j \in 1..Len(o) : o[j].seq \in Nat \ {0}
  BY <1>1 DEF StoredIn
<1>3. \A j, k \in 1..Len(o) : j < k => o[j].seq < o[k].seq
  BY <1>1 DEF Ascending
<1>4. /\ read \subseteq 1..Len(o)
      /\ \A j \in 1..Len(o) : j \in read <=> begin =< o[j].seq /\ o[j].seq =< end
  <2>1. ASSUME NEW j \in 1..Len(o), o[j].seq =< end
        PROVE  \A k \in 1..j : o[k].seq =< end
    <3>1. ASSUME NEW k \in 1..j PROVE o[k].seq =< end
      <4>1. k \in 1..Len(o) /\ (k = j \/ k < j)
        BY <1>1, <3>1
      <4> QED BY <1>2, <1>3, <2>1, <4>1
    <3> QED BY <3>1
  <2>2. \A j \in 1..Len(o) : j \in 1..j
    BY <1>1
  <2> QED BY <1>1, <1>2, <2>1, <2>2 DEF GetOutgoing
<1>5. \A i \in 0..Len(o) : a[i] = Following(a, o, begin, end, i)
  BY ScansDefined
<1>6. /\ Held(o) \in SUBSET StoredIn(bodies)
      /\ \A x \in Held(o) : \E j \in 1..Len(o) : x = o[j]
      /\ \A j \in 1..Len(o) : o[j] \in Held(o)
  BY <1>1 DEF Held
<1>7. T = {}
  <2>1. SUFFICES ASSUME T # {} PROVE FALSE
    OBVIOUS
  <2>2. PICK m \in T : \A y \in T : m =< y
    <3>1. T \in SUBSET Nat
      OBVIOUS
    <3> HIDE DEF T
    <3> QED BY <2>1, <3>1, Least
  <2>3. m \in 0..Len(o) /\ ~Kept(m)
    BY <2>2, <1>1
  <2>4. Kept(0)
    <3>1. a[0] = [expected |-> begin, gap |-> 0, out |-> <<>>]
      BY <1>1, <1>5 DEF Following, Start, Scan
    <3>2. a[0] \in ScansIn(bodies)
      BY <3>1, EmptySeq DEF ScansIn
    <3>3. Promised(Held(o), begin, a[0])
      BY <3>1, EmptySeq DEF Promised, Pending, Chain, Frontier, HidesNone, FromStore
    <3>4. /\ \A j \in read : ~(j =< 0)
          /\ \A j \in read : begin =< o[j].seq
      BY <1>1, <1>4
    <3> HIDE DEF read
    <3> QED BY <3>1, <3>2, <3>3, <3>4
  <2>5. m # 0 /\ m - 1 \in Nat /\ m - 1 \notin T /\ m \in 1..Len(o)
    BY <2>2, <2>3, <2>4
  <2>6. Kept(m - 1)
    BY <1>1, <2>5
  <2>7. a[m] = IF m \in read THEN Visit(a[m - 1], o[m]) ELSE a[m - 1]
    BY <1>5, <2>3, <2>5 DEF Following
  <2> HIDE DEF read
  <2>8. CASE m \in read
    <3>0. PICK last, next, m1 : last = a[m - 1] /\ next = a[m] /\ m1 = o[m]
      OBVIOUS
    <3>1. /\ begin =< o[m].seq /\ o[m].seq =< end /\ last.expected =< o[m].seq
          /\ last.expected \in Nat /\ o[m].seq \in Nat
      BY <1>2, <1>4, <2>5, <2>6, <2>8, <3>0 DEF ScansIn
    <3>2. ASSUME NEW x \in Held(o)
          PROVE  x.seq < last.expected \/ x = o[m] \/ o[m].seq < x.seq
      <4>1. PICK j \in 1..Len(o) : x = o[j]
        BY <1>6
      <4>2. CASE j < m
        <5>1. o[j].seq < o[m].seq /\ o[j].seq \in Nat
          BY <1>2, <1>3, <2>5, <4>2
        <5>2. CASE j \in read
          <6>1. j =< m - 1
            BY <2>5, <4>2
          <6> QED BY <2>6, <3>0, <4>1, <5>2, <6>1
        <5>3. CASE j \notin read
          <6>1. o[j].seq < begin
            BY <1>4, <3>1, <5>1, <5>3
          <6> QED BY <2>6, <3>0, <3>1, <4>1, <5>1, <6>1
        <5> QED BY <5>2, <5>3
      <4>3. CASE j = m
        BY <4>1, <4>3
      <4>4. CASE m < j
        BY <1>3, <2>5, <4>1, <4>4
      <4> QED BY <2>5, <4>2, <4>3, <4>4
    <3>3. /\ next \in ScansIn(bodies) /\ Promised(Held(o), begin, next)
          /\ next.expected = o[m].seq + 1
      <4>1. next = Visit(last, m1) /\ last \in ScansIn(bodies) /\ Promised(Held(o), begin, last)
        BY <2>6, <2>7, <2>8, <3>0
      <4>2. m1 \in Held(o) /\ last.expected =< m1.seq /\ begin \in Nat
        BY <1>6, <2>5, <3>0, <3>1
      <4>3. \A x \in Held(o) : x.seq < last.expected \/ x = m1 \/ m1.seq < x.seq
        BY <3>0, <3>2
      <4>4. PICK H : H = Held(o)
        OBVIOUS
      <4>5. /\ H \in SUBSET StoredIn(bodies) /\ Promised(H, begin, last) /\ m1 \in H
            /\ \A x \in H : x.seq < last.expected \/ x = m1 \/ m1.seq < x.seq
        BY <1>6, <4>1, <4>2, <4>3, <4>4
      <4>6. next \in ScansIn(bodies) /\ Promised(H, begin, next)
        BY <4>1, <4>2, <4>5, VisitLemma
      <4>7. next.expected = m1.seq + 1
        BY <4>1, <4>2, <4>5, <4>6, VisitLemma
      <4> QED BY <3>0, <4>4, <4>6, <4>7
    <3>4. \A j \in read : j =< m => o[j].seq < next.expected
      <4>1. \A j \in read : j =< m => o[j].seq =< o[m].seq /\ o[j].seq \in Nat
        BY <1>2, <1>3, <1>4, <2>5
      <4> QED BY <3>1, <3>3, <4>1
    <3>5. \A j \in read : m < j => next.expected =< o[j].seq
      <4>1. \A j \in read : m < j => o[m].seq < o[j].seq /\ o[j].seq \in Nat
        BY <1>2, <1>3, <1>4, <2>5
      <4> QED BY <3>1, <3>3, <4>1
    <3>6. begin =< next.expected /\ next.expected =< end + 1
      BY <3>1, <3>3
    <3> QED BY <2>3, <3>0, <3>3, <3>4, <3>5, <3>6
  <2>9. CASE m \notin read
    <3>1. a[m] = a[m - 1]
      BY <2>7, <2>9
    <3>2. \A j \in read : j =< m => j =< m - 1
      BY <1>4, <2>5, <2>9
    <3>3. \A j \in read : m < j => m - 1 < j
      BY <1>4, <2>5
    <3> QED BY <2>3, <2>6, <3>1, <3>2, <3>3
  <2> QED BY <2>8, <2>9
<1>8. Kept(Len(o))
  BY <1>1, <1>7
<1> HIDE DEF read
<1>9. ASSUME NEW x \in Held(o)
      PROVE  x.seq < a[Len(o)].expected \/ end < x.seq
  <2>1. PICK j \in 1..Len(o) : x = o[j]
    BY <1>6
  <2>2. CASE j \in read
    <3>1. j =< Len(o)
      BY <1>1
    <3> QED BY <1>8, <2>1, <2>2, <3>1
  <2>3. CASE j \notin read
    <3>1. o[j].seq < begin \/ end < o[j].seq
      BY <1>2, <1>4, <2>3
    <3>2. o[j].seq \in Nat /\ a[Len(o)].expected \in Nat
      BY <1>2, <1>8 DEF ScansIn
    <3> QED BY <1>8, <2>1, <3>1, <3>2
  <2> QED BY <2>2, <2>3
<1> QED BY <1>8, <1>9

(* The handler as a whole, for an ascending store and a range that is not   *)
(* empty: the replay covers the range exactly, and nothing that can be     *)
(* replayed is hidden behind a gap fill.                                   *)
THEOREM ScannedExactly ==
  ASSUME NEW bodies, NEW o \in Seq(StoredIn(bodies)), Ascending(o),
         NEW begin \in Nat \ {0}, NEW end \in Nat, begin =< end,
         NEW out, out = Finish(Scanned(o, begin, end), end).out
  PROVE  /\ out \in Seq(WrittenIn(bodies)) /\ out # <<>>
         /\ Chain(out, begin, end + 1)
         /\ HidesNone(Held(o), out)
         /\ FromStore(Held(o), out)
<1>0. PICK H : H = Held(o)
  OBVIOUS
<1>1. H \in SUBSET StoredIn(bodies) /\ begin \in Nat
  BY <1>0, LenProperties, ElementOfSeq DEF Held
<1>2. PICK s : s = Scanned(o, begin, end)
  OBVIOUS
<1>3. PICK t : t = Finish(s, end)
  OBVIOUS
<1>4. /\ s \in ScansIn(bodies) /\ Promised(H, begin, s)
      /\ s.expected =< end + 1
      /\ \A x \in H : x.seq < s.expected \/ end < x.seq
  BY <1>0, <1>2, ScansLemma, ScansDefined
<1>5. \A x \in H : x.seq < s.expected \/ end < x.seq
  BY <1>4
<1>6. /\ t \in ScansIn(bodies) /\ Promised(H, begin, t)
      /\ t.gap = 0 /\ t.expected = end + 1
  <2>1. t \in ScansIn(bodies) /\ Promised(H, begin, t)
    BY <1>1, <1>3, <1>4, <1>5, FinishLemma
  <2>2. t.gap = 0
    BY <1>1, <1>3, <1>4, <1>5, <2>1, FinishLemma
  <2>3. t.expected = end + 1
    BY <1>1, <1>3, <1>4, <1>5, <2>1, FinishLemma
  <2> QED BY <2>1, <2>2, <2>3
<1>7. out = t.out
  BY <1>2, <1>3
<1>8. Chain(out, begin, end + 1)
  BY <1>6, <1>7 DEF Promised, Frontier
<1>9. out # <<>>
  <2>1. begin # end + 1
    OBVIOUS
  <2> QED BY <1>8, <2>1 DEF Chain
<1> QED BY <1>0, <1>6, <1>7, <1>8, <1>9 DEF Promised, ScansIn

(* The messages of a chain ascend, and none goes beyond its end.            *)
LEMMA ChainAscends ==
  ASSUME NEW bodies, NEW out \in Seq(WrittenIn(bodies)), NEW from, NEW to \in Nat,
         Chain(out, from, to)
  PROVE  /\ \A k \in 1..Len(out) :
              First(out[k]) \in Nat \ {0} /\ After(out[k]) \in Nat /\ After(out[k]) =< to
         /\ \A j, k \in 1..Len(out) : j < k => After(out[j]) =< First(out[k])
<1>1. Len(out) \in Nat
  BY LenProperties
<1>2. \A k \in 1..Len(out) : First(out[k]) \in Nat \ {0} /\ After(out[k]) \in Nat
  <2> TAKE k \in 1..Len(out)
  <2>1. out[k] \in WrittenIn(bodies)
    BY ElementOfSeq
  <2>2. CASE out[k] \in [kind : {"Fill"}, seq : Nat \ {0}, new : Nat \ {0}]
    BY <2>2 DEF First, After
  <2>3. CASE out[k] \in [kind : {"Dup"}, seq : Nat \ {0}, body : bodies]
    BY <2>3 DEF First, After
  <2> QED BY <2>1, <2>2, <2>3 DEF WrittenIn
<1>3. ASSUME NEW j \in 1..Len(out), NEW k \in 1..Len(out), j < k
      PROVE  After(out[j]) =< First(out[k])
  <2> DEFINE late == {i \in 1..Len(out) : j < i /\ ~(After(out[j]) =< First(out[i]))}
  <2> SUFFICES ASSUME late # {} PROVE FALSE
    BY <1>3
  <2>0. late \in SUBSET Nat
    OBVIOUS
  <2>1. PICK i \in late : \A y \in late : i =< y
    BY <2>0, Least
  <2>2. /\ i \in 1..Len(out) /\ j < i /\ ~(After(out[j]) =< First(out[i]))
        /\ i - 1 \in 1..Len(out) - 1 /\ i - 1 \in 1..Len(out) /\ (i - 1) + 1 = i /\ j =< i - 1
    BY <2>1
  <2>3. After(out[i - 1]) = First(out[i]) /\ First(out[i - 1]) < After(out[i - 1])
    BY <2>2 DEF Chain
  <2>4. CASE j = i - 1
    BY <1>2, <2>2, <2>3, <2>4
  <2>5. CASE j # i - 1
    <3>1. i - 1 \notin late
      BY <2>1, <2>2
    <3>2. After(out[j]) =< First(out[i - 1])
      BY <2>2, <2>5, <3>1
    <3>3. /\ After(out[j]) \in Nat /\ After(out[i - 1]) \in Nat
          /\ First(out[i]) \in Nat /\ First(out[i - 1]) \in Nat
      BY <1>2, <2>2
    <3> HIDE DEF late
    <3> QED BY <2>2, <2>3, <3>2, <3>3
  <2> QED BY <2>4, <2>5
<1>4. ASSUME NEW k \in 1..Len(out)
      PROVE  After(out[k]) =< to
  <2>1. Len(out) \in 1..Len(out) /\ out # <<>>
    BY <1>1
  <2>2. After(out[Len(out)]) = to
    BY <2>1 DEF Chain
  <2>3. CASE k = Len(out)
    BY <2>2, <2>3
  <2>4. CASE k # Len(out)
    <3>1. k < Len(out)
      BY <1>1, <2>4
    <3>2. After(out[k]) =< First(out[Len(out)]) /\ First(out[Len(out)]) < After(out[Len(out)])
      BY <1>3, <2>1, <3>1 DEF Chain
    <3> QED BY SMTT(30), <1>2, <2>1, <2>2, <3>2
  <2> QED BY <2>3, <2>4
<1> QED BY <1>2, <1>3, <1>4

=============================================================================
