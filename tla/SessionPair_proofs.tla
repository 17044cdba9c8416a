------------------------- MODULE SessionPair_proofs -------------------------
(***************************************************************************)
(* Proofs about two sessions and the connection between them, most of them *)
(* about sessions that never reset, for any number of cuts, reconnections, *)
(* deadlines, logouts and messages: neither ever expects a number beyond   *)
(* the next one the other will use, and each application is handed what    *)
(* the other one sent, in order and once.                                  *)
(*                                                                         *)
(* The two directions are alike.  Of each, the invariant (Direction) says  *)
(* how the messages under way relate to the number the receiver expects:   *)
(* those sent for the first time ascend, those sent again are pieces of    *)
(* one unbroken replay, and a replay the receiver is waiting for begins at *)
(* the number it expects.  On top of it, InOrder says that the messages    *)
(* delivered are the sender's stored ones with a number below that, and    *)
(* that whatever is under way stands for stored ones or skips none.        *)
(*                                                                         *)
(* The last part is about sessions that do reset, though not in their      *)
(* Logon: what they do is compared with sessions that never reset.         *)
(***************************************************************************)
EXTENDS SessionPair, ResendPlan_proofs

-----------------------------------------------------------------------------
(* What is under way.                                                      *)

(* The messages of two sessions that never reset.                          *)
Numbers  == Nat \ {0}
Payloads == Bodies \cup {NoBody}

Once(kinds)    == [kind : kinds, seq : Numbers, possDup : {FALSE}]
LogonMessages  == [kind : {"Logon"}, seq : Numbers, possDup : {FALSE},
                   reset : {FALSE}, acceptable : {TRUE}]
ProbeMessages  == [kind : {"Heartbeat", "TestRequest"}, seq : Numbers, possDup : {FALSE},
                   id : Nat]
ResendRequests == [kind : {"ResendRequest"}, seq : Numbers, possDup : {FALSE},
                   begin : Nat, end : Nat]
AppMessages    == [kind : {"App"}, seq : Numbers, possDup : BOOLEAN, body : Payloads]
GapFills       == [kind : {"SequenceReset"}, seq : Numbers, possDup : {FALSE}, new : Nat]

Messages ==
  UNION {Once({"Logout", "Reject"}), LogonMessages, ProbeMessages, ResendRequests,
         AppMessages, GapFills}

(* A message that is sent again, and the first number it does not cover.    *)
Replayed(m) == m.kind = "SequenceReset" \/ m.possDup
Beyond(m)   == IF m.kind = "SequenceReset" THEN m.new ELSE m.seq + 1

(* A message asks for a range of numbers below n.                           *)
Asks(m) == m.kind = "ResendRequest"

AsksBelow(n, o) ==
  \A k \in 1..Len(o) :
    Asks(o[k]) => 1 =< o[k].begin /\ o[k].begin =< o[k].end /\ o[k].end < n

(* w stays below n, and what is sent for the first time is beyond all that  *)
(* was written before it.                                                  *)
Ordered(n, w) ==
  /\ \A k \in 1..Len(w) : w[k].seq < Beyond(w[k]) /\ Beyond(w[k]) =< n
  /\ \A j, k \in 1..Len(w) : j < k /\ ~Replayed(w[k]) => Beyond(w[j]) =< w[k].seq

(* From i to k everything is sent again, without a hole or an overlap.      *)
Unbroken(w, i, k) ==
  /\ \A j \in i..k : Replayed(w[j])
  /\ \A j \in i..k : j < k => Beyond(w[j]) = w[j + 1].seq
  /\ \A j \in i..k : j < k => Beyond(w[j]) =< w[k].seq

(* The receiver is not waiting: what is sent again stands first, and        *)
(* nothing of it is old.                                                   *)
Settled(e, w) ==
  \A k \in 1..Len(w) : Replayed(w[k]) => Unbroken(w, 1, k) /\ e =< w[1].seq

(* The receiver is waiting for number e: either it is not on its way, or    *)
(* the replay on its way from place i on begins with it.                   *)
NoneAt(e, w, k) == \A j \in 1..k : Replayed(w[j]) => e < w[j].seq

BeginsAt(e, w, i) ==
  /\ w[i].seq = e /\ Replayed(w[i])
  /\ NoneAt(e, w, i - 1)
  /\ \A k \in i..Len(w) : Replayed(w[k]) => Unbroken(w, i, k)

Waiting(e, w) ==
  /\ \A k \in 1..Len(w) : ~Replayed(w[k]) => e < w[k].seq
  /\ NoneAt(e, w, Len(w)) \/ \E i \in 1..Len(w) : BeginsAt(e, w, i)

(* There is one request at most, for what the receiver is waiting for, and  *)
(* it has not been answered.                                               *)
Asked(e, a, w, o) ==
  \A k \in 1..Len(o) :
    Asks(o[k]) =>
      /\ a /\ o[k].begin = e /\ NoneAt(e, w, Len(w))
      /\ \A j \in 1..Len(o) : Asks(o[j]) => j = k

(* One direction: the receiver expects e and is waiting for a replay or     *)
(* not (a), the sender uses n next, w is under way to the receiver and o    *)
(* back; up says that the receiver has a socket.                           *)
Direction(e, a, n, w, o, up) ==
  /\ e =< n
  /\ a => e < n
  /\ AsksBelow(n, o)
  /\ up => /\ Ordered(n, w)
           /\ IF a THEN Waiting(e, w) ELSE Settled(e, w)
           /\ Asked(e, a, w, o)

DirectionTo(p) ==
  LET q == Other(p)
  IN  Direction(sess[p].nextTarget, sess[p].awaitingResend, sess[q].nextSender,
                wire[q], wire[p], sess[p].socket # "none")

Directions == ~Resets => \A p \in Peers : DirectionTo(p)

-----------------------------------------------------------------------------
(* Messages and sequences of them.                                         *)

LEMMA MessageFacts ==
  ASSUME NEW m \in Messages
  PROVE  /\ m.seq \in Nat \ {0}
         /\ Beyond(m) \in Nat
         /\ ~Replayed(m) => Beyond(m) = m.seq + 1
         /\ Asks(m) => m.begin \in Nat /\ m.end \in Nat /\ ~Replayed(m)
<1>1. CASE m \in Once({"Logout", "Reject"})
  BY <1>1 DEF Once, Numbers, Beyond, Replayed, Asks
<1>2. CASE m \in LogonMessages
  BY <1>2 DEF LogonMessages, Numbers, Beyond, Replayed, Asks
<1>3. CASE m \in ProbeMessages
  BY <1>3 DEF ProbeMessages, Numbers, Beyond, Replayed, Asks
<1>4. CASE m \in ResendRequests
  <2>1. /\ m.kind = "ResendRequest" /\ m.seq \in Nat \ {0}
        /\ m.begin \in Nat /\ m.end \in Nat
    BY <1>4 DEF ResendRequests, Numbers
  <2>2. m.possDup = FALSE
    BY <1>4 DEF ResendRequests
  <2>3. ~Replayed(m)
    BY <2>1, <2>2 DEF Replayed
  <2> QED BY <2>1, <2>3 DEF Beyond
<1>5. CASE m \in AppMessages
  BY <1>5 DEF AppMessages, Numbers, Beyond, Replayed, Asks
<1>6. CASE m \in GapFills
  BY <1>6 DEF GapFills, Numbers, Beyond, Replayed, Asks
<1> QED BY <1>1, <1>2, <1>3, <1>4, <1>5, <1>6 DEF Messages

LEMMA MessageKinds ==
  ASSUME NEW m \in Messages
  PROVE  /\ m.kind = "App" => m \in AppMessages
         /\ m.kind = "SequenceReset" => m \in GapFills
         /\ m.kind = "ResendRequest" => m \in ResendRequests
         /\ m.kind = "Logon" => m \in LogonMessages
         /\ m.kind \in {"Heartbeat", "TestRequest"} => m \in ProbeMessages
         /\ m.kind \in {"Logout", "Reject", "Logon", "Heartbeat", "TestRequest",
                        "ResendRequest", "App", "SequenceReset"}
<1>1. CASE m \in Once({"Logout", "Reject"})
  BY <1>1 DEF Once
<1>2. CASE m \in LogonMessages
  <2>1. m.kind = "Logon"
    BY <1>2 DEF LogonMessages
  <2> QED BY <1>2, <2>1
<1>3. CASE m \in ProbeMessages
  <2>1. m.kind \in {"Heartbeat", "TestRequest"}
    BY <1>3 DEF ProbeMessages
  <2> QED BY <1>3, <2>1
<1>4. CASE m \in ResendRequests
  <2>1. m.kind = "ResendRequest"
    BY <1>4 DEF ResendRequests
  <2> QED BY <1>4, <2>1
<1>5. CASE m \in AppMessages
  <2>1. m.kind = "App"
    BY <1>5 DEF AppMessages
  <2> QED BY <1>5, <2>1
<1>6. CASE m \in GapFills
  <2>1. m.kind = "SequenceReset"
    BY <1>6 DEF GapFills
  <2> QED BY <1>6, <2>1
<1> QED BY <1>1, <1>2, <1>3, <1>4, <1>5, <1>6 DEF Messages

LEMMA WireFacts ==
  ASSUME NEW w \in Seq(Messages)
  PROVE  /\ Len(w) \in Nat
         /\ \A k \in 1..Len(w) :
              /\ w[k] \in Messages
              /\ w[k].seq \in Nat \ {0}
              /\ Beyond(w[k]) \in Nat
              /\ ~Replayed(w[k]) => Beyond(w[k]) = w[k].seq + 1
              /\ Asks(w[k]) => w[k].begin \in Nat /\ w[k].end \in Nat /\ ~Replayed(w[k])
<1>1. Len(w) \in Nat /\ \A k \in 1..Len(w) : w[k] \in Messages
  BY LenProperties, ElementOfSeq
<1> QED BY <1>1, MessageFacts

LEMMA TailFacts ==
  ASSUME NEW w \in Seq(Messages), w # <<>>
  PROVE  /\ Tail(w) \in Seq(Messages)
         /\ Len(Tail(w)) = Len(w) - 1
         /\ \A k \in 1..Len(Tail(w)) : Tail(w)[k] = w[k + 1]
         /\ Len(w) \in Nat \ {0}
         /\ Head(w) = w[1] /\ w[1] \in Messages
<1>1. Len(w) \in Nat \ {0} /\ Head(w) = w[1]
  BY EmptySeq
<1>2. w[1] \in Messages
  BY <1>1, ElementOfSeq
<1> QED BY <1>1, <1>2, HeadTailProperties

LEMMA AppendFacts ==
  ASSUME NEW w \in Seq(Messages), NEW m \in Messages
  PROVE  /\ Append(w, m) \in Seq(Messages)
         /\ Len(Append(w, m)) = Len(w) + 1
         /\ \A k \in 1..Len(w) : Append(w, m)[k] = w[k]
         /\ Append(w, m)[Len(w) + 1] = m
         /\ Append(w, m) = w \o <<m>>
BY AppendProperties, AppendIsConcat

LEMMA ConcatFacts ==
  ASSUME NEW w \in Seq(Messages), NEW d \in Seq(Messages)
  PROVE  /\ w \o d \in Seq(Messages)
         /\ Len(w \o d) = Len(w) + Len(d)
         /\ \A k \in 1..Len(w) : (w \o d)[k] = w[k]
         /\ \A k \in 1..Len(d) : (w \o d)[Len(w) + k] = d[k]
         /\ \A k \in 1..Len(w \o d) :
              k =< Len(w) \/ (k - Len(w) \in 1..Len(d) /\ k = Len(w) + (k - Len(w)))
<1>1. Len(w) \in Nat /\ Len(d) \in Nat
  BY LenProperties
<1>2. /\ w \o d \in Seq(Messages) /\ Len(w \o d) = Len(w) + Len(d)
      /\ \A k \in 1..Len(w) + Len(d) : (w \o d)[k] = IF k <= Len(w) THEN w[k] ELSE d[k - Len(w)]
  BY ConcatProperties
<1>3. ASSUME NEW k \in 1..Len(d) PROVE (w \o d)[Len(w) + k] = d[k]
  <2>1. Len(w) + k \in 1..Len(w) + Len(d) /\ ~(Len(w) + k =< Len(w)) /\ Len(w) + k - Len(w) = k
    BY <1>1
  <2> QED BY <1>2, <2>1
<1>4. ASSUME NEW k \in 1..Len(w) PROVE (w \o d)[k] = w[k]
  BY <1>1, <1>2
<1> QED BY <1>1, <1>2, <1>3, <1>4

-----------------------------------------------------------------------------
(* The parts of Direction when the first message under way is taken off.    *)
LEMMA TailOrdered ==
  ASSUME NEW n, NEW w \in Seq(Messages), w # <<>>, Ordered(n, w)
  PROVE  Ordered(n, Tail(w))
<1> DEFINE v == Tail(w)
<1>1. Len(v) = Len(w) - 1 /\ Len(w) \in Nat /\ \A k \in 1..Len(v) : v[k] = w[k + 1]
  BY TailFacts
<1> HIDE DEF v
<1>2. \A k \in 1..Len(v) : k + 1 \in 1..Len(w)
  BY <1>1
<1> QED BY <1>1, <1>2 DEF Ordered, v

LEMMA TailUnbroken ==
  ASSUME NEW w \in Seq(Messages), w # <<>>, NEW i \in Nat \ {0}, NEW j \in 1..i + 1,
         NEW k \in 1..Len(Tail(w)), Unbroken(w, j, k + 1)
  PROVE  Unbroken(Tail(w), i, k)
<1> DEFINE v == Tail(w)
<1>1. Len(v) = Len(w) - 1 /\ Len(w) \in Nat /\ \A x \in 1..Len(v) : v[x] = w[x + 1]
  BY TailFacts
<1> HIDE DEF v
<1>2. k \in 1..Len(v)
  BY DEF v
<1>3. ASSUME NEW x \in i..k
      PROVE  /\ Replayed(v[x])
             /\ x < k => Beyond(v[x]) = v[x + 1].seq
             /\ x < k => Beyond(v[x]) =< v[k].seq
  <2>1. /\ x \in 1..Len(v) /\ x + 1 \in j..k + 1
        /\ x < k => x + 1 < k + 1 /\ x + 1 \in 1..Len(v)
    BY <1>1, <1>2, <1>3
  <2>2. v[x] = w[x + 1] /\ v[k] = w[k + 1] /\ (x < k => v[x + 1] = w[x + 1 + 1])
    BY <1>1, <1>2, <2>1
  <2> QED BY <2>1, <2>2 DEF Unbroken
<1> QED BY <1>3 DEF Unbroken, v

LEMMA TailSettled ==
  ASSUME NEW e \in Nat, NEW n, NEW w \in Seq(Messages), w # <<>>, Ordered(n, w), Settled(e, w)
  PROVE  Settled(e, Tail(w))
<1> DEFINE v == Tail(w)
<1>1. Len(v) = Len(w) - 1 /\ Len(w) \in Nat /\ \A k \in 1..Len(v) : v[k] = w[k + 1]
  BY TailFacts
<1> HIDE DEF v
<1>2. ASSUME NEW k \in 1..Len(v), Replayed(v[k])
      PROVE  Unbroken(v, 1, k) /\ e =< v[1].seq
  <2>1. /\ k + 1 \in 1..Len(w) /\ Replayed(w[k + 1])
        /\ 1 \in 1..Len(v) /\ 1 \in 1..k + 1 /\ 1 < k + 1
    BY <1>1, <1>2
  <2>2. Unbroken(w, 1, k + 1) /\ e =< w[1].seq
    BY <2>1 DEF Settled
  <2>3. Unbroken(v, 1, k)
    BY <2>1, <2>2, TailUnbroken DEF v
  <2>4. Beyond(w[1]) = v[1].seq
    BY <1>1, <2>1, <2>2 DEF Unbroken
  <2>5. w[1].seq < Beyond(w[1]) /\ w[1].seq \in Nat /\ Beyond(w[1]) \in Nat
    <3>1. 1 \in 1..Len(w)
      BY <1>1, <2>1
    <3> QED BY <3>1, WireFacts DEF Ordered
  <2> QED BY <2>2, <2>3, <2>4, <2>5
<1> QED BY <1>2 DEF Settled, v

(* A replay that began at the message taken off goes on beyond e.           *)
LEMMA TailOfReplay ==
  ASSUME NEW e \in Nat, NEW n, NEW w \in Seq(Messages), w # <<>>, Ordered(n, w),
         e =< w[1].seq, \A k \in 1..Len(w) : Replayed(w[k]) => Unbroken(w, 1, k)
  PROVE  NoneAt(e, Tail(w), Len(Tail(w)))
<1> DEFINE v == Tail(w)
<1>1. Len(v) = Len(w) - 1 /\ Len(w) \in Nat \ {0} /\ \A k \in 1..Len(v) : v[k] = w[k + 1]
  BY TailFacts
<1> HIDE DEF v
<1>2. ASSUME NEW k \in 1..Len(v), Replayed(v[k])
      PROVE  e < v[k].seq
  <2>1. k + 1 \in 1..Len(w) /\ 1 \in 1..k + 1 /\ 1 < k + 1 /\ 1 \in 1..Len(w) /\ v[k] = w[k + 1]
    BY <1>1
  <2>2. Beyond(w[1]) =< v[k].seq
    BY <1>2, <2>1 DEF Unbroken
  <2>3. /\ w[1].seq < Beyond(w[1]) /\ w[1].seq \in Nat /\ Beyond(w[1]) \in Nat
        /\ v[k].seq \in Nat
    BY <2>1, WireFacts DEF Ordered
  <2> QED BY <2>2, <2>3
<1> QED BY <1>2 DEF NoneAt, v

LEMMA TailWaiting ==
  ASSUME NEW e \in Nat, NEW n, NEW w \in Seq(Messages), w # <<>>, Ordered(n, w), Waiting(e, w)
  PROVE  Waiting(e, Tail(w))
<1> DEFINE v == Tail(w)
<1>1. Len(v) = Len(w) - 1 /\ Len(w) \in Nat \ {0} /\ \A k \in 1..Len(v) : v[k] = w[k + 1]
  BY TailFacts
<1>0. \A k \in 1..Len(v) : k + 1 \in 1..Len(w)
  BY <1>1
<1> HIDE DEF v
<1>2. \A k \in 1..Len(v) : ~Replayed(v[k]) => e < v[k].seq
  BY <1>0, <1>1 DEF Waiting
<1>3. CASE NoneAt(e, w, Len(w))
  <2>1. NoneAt(e, v, Len(v))
    BY <1>0, <1>1, <1>3 DEF NoneAt
  <2> QED BY <1>2, <2>1 DEF Waiting, v
<1>4. ASSUME NEW i \in 1..Len(w), BeginsAt(e, w, i)
      PROVE  Waiting(e, v)
  <2>1. CASE i = 1
    <3>1. \A k \in 1..Len(w) : Replayed(w[k]) => Unbroken(w, 1, k)
      BY <1>4, <2>1 DEF BeginsAt
    <3>2. e =< w[1].seq
      BY <1>4, <2>1 DEF BeginsAt
    <3>3. NoneAt(e, v, Len(v))
      BY <3>1, <3>2, TailOfReplay DEF v
    <3> QED BY <1>2, <3>3 DEF Waiting
  <2>2. CASE i # 1
    <3>1. i - 1 \in 1..Len(v) /\ i - 1 \in Nat \ {0} /\ i \in 1..(i - 1) + 1
      BY <1>1, <2>2
    <3>2. v[i - 1] = w[i]
      BY <1>1, <3>1
    <3>3. NoneAt(e, v, (i - 1) - 1)
      <4>1. \A j \in 1..(i - 1) - 1 : j + 1 \in 1..i - 1 /\ j \in 1..Len(v)
        BY <1>1, <3>1
      <4> QED BY <1>1, <1>4, <4>1 DEF BeginsAt, NoneAt
    <3>4. ASSUME NEW k \in i - 1..Len(v), Replayed(v[k])
          PROVE  Unbroken(v, i - 1, k)
      <4>1. k \in 1..Len(v) /\ k + 1 \in i..Len(w) /\ Replayed(w[k + 1])
        BY <1>1, <3>1, <3>4
      <4>2. Unbroken(w, i, k + 1)
        BY <1>4, <4>1 DEF BeginsAt
      <4> QED BY <3>1, <4>1, <4>2, TailUnbroken DEF v
    <3>5. BeginsAt(e, v, i - 1)
      BY <1>4, <3>2, <3>3, <3>4 DEF BeginsAt
    <3> QED BY <1>2, <3>1, <3>5 DEF Waiting
  <2> QED BY <2>1, <2>2
<1> QED BY <1>3, <1>4 DEF Waiting, v

-----------------------------------------------------------------------------
(* The parts of Direction when two sequences agree up to a place.           *)
Agree(v, w, last) ==
  /\ last =< Len(v) /\ last =< Len(w)
  /\ \A k \in 1..last : v[k] = w[k]

LEMMA AgreeUnbroken ==
  ASSUME NEW v, NEW w, NEW last \in Nat, Agree(v, w, last),
         NEW i \in Nat \ {0}, NEW k \in 1..last, Unbroken(w, i, k)
  PROVE  Unbroken(v, i, k)
<1>1. ASSUME NEW j \in i..k
      PROVE  j \in 1..last /\ (j < k => j + 1 \in 1..last)
  OBVIOUS
<1>2. \A j \in 1..last : v[j] = w[j]
  BY DEF Agree
<1> QED BY <1>1, <1>2 DEF Unbroken

LEMMA AgreeNoneAt ==
  ASSUME NEW v, NEW w, NEW last \in Nat, Agree(v, w, last), NEW e, NEW k \in 0..last,
         NoneAt(e, w, k)
  PROVE  NoneAt(e, v, k)
BY DEF Agree, NoneAt

(* A prefix of what is under way.                                           *)
LEMMA PrefixForward ==
  ASSUME NEW v \in Seq(Messages), NEW w \in Seq(Messages), Agree(v, w, Len(v)), NEW e, NEW n
  PROVE  /\ Ordered(n, w) => Ordered(n, v)
         /\ Settled(e, w) => Settled(e, v)
         /\ NoneAt(e, w, Len(w)) => NoneAt(e, v, Len(v))
         /\ Waiting(e, w) => Waiting(e, v)
<1>1. /\ Len(v) \in Nat /\ Len(w) \in Nat /\ Len(v) =< Len(w)
      /\ \A k \in 1..Len(v) : k \in 1..Len(w) /\ v[k] = w[k]
  BY LenProperties DEF Agree
<1>2. Ordered(n, w) => Ordered(n, v)
  BY <1>1 DEF Ordered
<1>3. Settled(e, w) => Settled(e, v)
  <2> SUFFICES ASSUME Settled(e, w), NEW k \in 1..Len(v), Replayed(v[k])
               PROVE  Unbroken(v, 1, k) /\ e =< v[1].seq
    BY DEF Settled
  <2>1. Unbroken(w, 1, k) /\ e =< w[1].seq
    BY <1>1 DEF Settled
  <2> QED BY <1>1, <2>1, AgreeUnbroken
<1>4. NoneAt(e, w, Len(w)) => NoneAt(e, v, Len(v))
  BY <1>1 DEF NoneAt
<1>5. Waiting(e, w) => Waiting(e, v)
  <2> SUFFICES ASSUME Waiting(e, w) PROVE Waiting(e, v)
    OBVIOUS
  <2>1. \A k \in 1..Len(v) : ~Replayed(v[k]) => e < v[k].seq
    BY <1>1 DEF Waiting
  <2>2. ASSUME NEW i \in 1..Len(w), BeginsAt(e, w, i)
        PROVE  Waiting(e, v)
    <3>1. CASE i =< Len(v)
      <4>1. i \in 1..Len(v) /\ i - 1 \in 0..Len(v) /\ v[i] = w[i]
        BY <1>1, <3>1
      <4>2. ASSUME NEW k \in i..Len(v), Replayed(v[k])
            PROVE  Unbroken(v, i, k)
        <5>1. k \in i..Len(w) /\ k \in 1..Len(v) /\ v[k] = w[k]
          BY <1>1, <4>1
        <5>2. Unbroken(w, i, k)
          BY <2>2, <4>2, <5>1 DEF BeginsAt
        <5> QED BY <1>1, <5>1, <5>2, AgreeUnbroken
      <4>3. NoneAt(e, v, i - 1)
        BY <1>1, <2>2, <4>1, AgreeNoneAt DEF BeginsAt
      <4> QED BY <2>1, <2>2, <4>1, <4>2, <4>3 DEF Waiting, BeginsAt
    <3>2. CASE Len(v) < i
      <4>1. \A j \in 1..Len(v) : j \in 1..i - 1
        BY <1>1, <3>2
      <4>2. NoneAt(e, v, Len(v))
        BY <1>1, <2>2, <4>1 DEF NoneAt, BeginsAt
      <4> QED BY <2>1, <4>2 DEF Waiting
    <3> QED BY <1>1, <3>1, <3>2
  <2> QED BY <1>4, <2>1, <2>2 DEF Waiting
<1> QED BY <1>2, <1>3, <1>4, <1>5

(* One more message, sent for the first time.                               *)
LEMMA NewForward ==
  ASSUME NEW w \in Seq(Messages), NEW m \in Messages, ~Replayed(m), NEW e \in Nat,
         m.seq \in Nat
  PROVE  /\ Ordered(m.seq, w) => Ordered(m.seq + 1, Append(w, m))
         /\ Settled(e, w) => Settled(e, Append(w, m))
         /\ NoneAt(e, w, Len(w)) => NoneAt(e, Append(w, m), Len(w) + 1)
         /\ Waiting(e, w) /\ e < m.seq => Waiting(e, Append(w, m))
<1> PICK v : v = Append(w, m)
  OBVIOUS
<1>1. /\ v \in Seq(Messages) /\ Len(v) = Len(w) + 1 /\ Len(w) \in Nat
      /\ \A k \in 1..Len(w) : v[k] = w[k]
      /\ v[Len(w) + 1] = m
  BY AppendFacts, LenProperties
<1>2. \A k \in 1..Len(v) : k \in 1..Len(w) \/ k = Len(w) + 1
  BY <1>1
<1>3. Agree(v, w, Len(w))
  BY <1>1 DEF Agree
<1>4. Beyond(m) = m.seq + 1
  BY MessageFacts
<1>5. Ordered(m.seq, w) => Ordered(m.seq + 1, v)
  <2> SUFFICES ASSUME Ordered(m.seq, w) PROVE Ordered(m.seq + 1, v)
    OBVIOUS
  <2>1. ASSUME NEW k \in 1..Len(v)
        PROVE  v[k].seq < Beyond(v[k]) /\ Beyond(v[k]) =< m.seq + 1
    <3>1. CASE k \in 1..Len(w)
      <4>1. v[k].seq < Beyond(v[k]) /\ Beyond(v[k]) =< m.seq /\ Beyond(v[k]) \in Nat
        BY <1>1, <3>1, WireFacts DEF Ordered
      <4> QED BY <4>1
    <3>2. CASE k = Len(w) + 1
      BY <1>1, <1>4, <3>2
    <3> QED BY <1>2, <3>1, <3>2
  <2>2. ASSUME NEW j \in 1..Len(v), NEW k \in 1..Len(v), j < k, ~Replayed(v[k])
        PROVE  Beyond(v[j]) =< v[k].seq
    <3>1. j \in 1..Len(w)
      BY <1>1, <2>2
    <3>2. CASE k \in 1..Len(w)
      BY <1>1, <2>2, <3>1, <3>2 DEF Ordered
    <3>3. CASE k = Len(w) + 1
      BY <1>1, <3>1, <3>3 DEF Ordered
    <3> QED BY <1>2, <3>2, <3>3
  <2> QED BY <2>1, <2>2 DEF Ordered
<1>6. Settled(e, w) => Settled(e, v)
  <2> SUFFICES ASSUME Settled(e, w), NEW k \in 1..Len(v), Replayed(v[k])
               PROVE  Unbroken(v, 1, k) /\ e =< v[1].seq
    BY DEF Settled
  <2>1. k \in 1..Len(w)
    BY <1>1, <1>2
  <2>2. Unbroken(w, 1, k) /\ e =< w[1].seq /\ v[1] = w[1]
    BY <1>1, <2>1 DEF Settled
  <2> QED BY <1>1, <1>3, <2>1, <2>2, AgreeUnbroken
<1>7. NoneAt(e, w, Len(w)) => NoneAt(e, v, Len(w) + 1)
  BY <1>1, <1>2 DEF NoneAt
<1>8. Waiting(e, w) /\ e < m.seq => Waiting(e, v)
  <2> SUFFICES ASSUME Waiting(e, w), e < m.seq PROVE Waiting(e, v)
    OBVIOUS
  <2>1. \A k \in 1..Len(v) : ~Replayed(v[k]) => e < v[k].seq
    BY <1>1, <1>2 DEF Waiting
  <2>2. ASSUME NEW i \in 1..Len(w), BeginsAt(e, w, i)
        PROVE  Waiting(e, v)
    <3>1. i \in 1..Len(v) /\ i - 1 \in 0..Len(w) /\ v[i] = w[i] /\ i \in Nat \ {0}
      BY <1>1
    <3>2. ASSUME NEW k \in i..Len(v), Replayed(v[k])
          PROVE  Unbroken(v, i, k)
      <4>1. k \in 1..Len(w) /\ k \in i..Len(w) /\ v[k] = w[k]
        <5>1. k \in 1..Len(v) /\ k # Len(w) + 1
          BY <1>1, <3>1, <3>2
        <5> QED BY <1>1, <1>2, <5>1
      <4>2. Unbroken(w, i, k)
        BY <2>2, <3>2, <4>1 DEF BeginsAt
      <4> QED BY <1>1, <1>3, <3>1, <4>1, <4>2, AgreeUnbroken
    <3>3. NoneAt(e, v, i - 1)
      BY <1>1, <1>3, <2>2, <3>1, AgreeNoneAt DEF BeginsAt
    <3> QED BY <2>1, <2>2, <3>1, <3>2, <3>3 DEF Waiting, BeginsAt
  <2> QED BY <1>1, <1>7, <2>1, <2>2 DEF Waiting
<1> QED BY <1>5, <1>6, <1>7, <1>8

(* A whole replay: it starts at from and goes on without a hole, below n.    *)
ReplayFrom(d, from, n) ==
  /\ d # <<>> /\ d[1].seq = from
  /\ \A k \in 1..Len(d) : /\ Replayed(d[k])
                          /\ Unbroken(d, 1, k)
                          /\ d[k].seq < Beyond(d[k]) /\ Beyond(d[k]) =< n

(* The answer to the one who waits.                                         *)
LEMMA ReplayForward ==
  ASSUME NEW w \in Seq(Messages), NEW d \in Seq(Messages), NEW e \in Nat, NEW n \in Nat,
         Ordered(n, w), Waiting(e, w), NoneAt(e, w, Len(w)), ReplayFrom(d, e, n)
  PROVE  Ordered(n, w \o d) /\ Waiting(e, w \o d)
<1> PICK v : v = w \o d
  OBVIOUS
<1>1. /\ v \in Seq(Messages) /\ Len(v) = Len(w) + Len(d)
      /\ \A k \in 1..Len(w) : v[k] = w[k]
      /\ \A k \in 1..Len(d) : v[Len(w) + k] = d[k]
      /\ \A k \in 1..Len(v) :
           k \in 1..Len(w) \/ (k - Len(w) \in 1..Len(d) /\ k = Len(w) + (k - Len(w)))
      /\ Len(w) \in Nat /\ Len(d) \in Nat \ {0}
  <2>1. Len(w) \in Nat /\ Len(d) \in Nat \ {0}
    BY LenProperties, EmptySeq DEF ReplayFrom
  <2>2. /\ v \in Seq(Messages) /\ Len(v) = Len(w) + Len(d)
        /\ \A k \in 1..Len(w) : v[k] = w[k]
        /\ \A k \in 1..Len(d) : v[Len(w) + k] = d[k]
    BY ConcatFacts
  <2> QED BY <2>1, <2>2
<1>2. \A k \in 1..Len(v) : k \in 1..Len(w) \/ Replayed(v[k])
  BY <1>1 DEF ReplayFrom
<1>3. Ordered(n, v)
  <2>1. ASSUME NEW k \in 1..Len(v)
        PROVE  v[k].seq < Beyond(v[k]) /\ Beyond(v[k]) =< n
    BY <1>1 DEF ReplayFrom, Ordered
  <2>2. ASSUME NEW j \in 1..Len(v), NEW k \in 1..Len(v), j < k, ~Replayed(v[k])
        PROVE  Beyond(v[j]) =< v[k].seq
    <3>1. k \in 1..Len(w)
      BY <1>2, <2>2
    <3>2. j \in 1..Len(w)
      BY <1>1, <2>2, <3>1
    <3> QED BY <1>1, <2>2, <3>1, <3>2 DEF Ordered
  <2> QED BY <2>1, <2>2 DEF Ordered
<1> PICK i : i = Len(w) + 1
  OBVIOUS
<1>4. i \in 1..Len(v) /\ v[i] = d[1] /\ 1 \in 1..Len(d) /\ i - 1 = Len(w) /\ i \in Nat
  BY <1>1
<1>5. NoneAt(e, v, i - 1)
  BY <1>1, <1>4 DEF NoneAt
<1>6. ASSUME NEW k \in i..Len(v)
      PROVE  Unbroken(v, i, k)
  <2>1. k - Len(w) \in 1..Len(d) /\ k \in Nat
    BY <1>1, <1>4
  <2>2. Unbroken(d, 1, k - Len(w))
    BY <2>1 DEF ReplayFrom
  <2>3. v[k] = d[k - Len(w)]
    BY <1>1, <2>1
  <2>4. ASSUME NEW j \in i..k
        PROVE  /\ Replayed(v[j])
               /\ j < k => Beyond(v[j]) = v[j + 1].seq
               /\ j < k => Beyond(v[j]) =< v[k].seq
    <3>1. PICK y : y = j - Len(w)
      OBVIOUS
    <3>2. /\ y \in 1..k - Len(w) /\ y \in 1..Len(d) /\ j = Len(w) + y
          /\ j < k => y < k - Len(w) /\ y + 1 \in 1..Len(d) /\ j + 1 = Len(w) + (y + 1)
      BY <1>1, <1>4, <2>1, <2>4, <3>1
    <3>3. v[j] = d[y] /\ (j < k => v[j + 1] = d[y + 1])
      BY <1>1, <3>2
    <3> QED BY <2>2, <2>3, <3>2, <3>3 DEF Unbroken
  <2> QED BY <2>4 DEF Unbroken
<1>7. BeginsAt(e, v, i)
  BY <1>4, <1>5, <1>6 DEF BeginsAt, ReplayFrom
<1>8. \A k \in 1..Len(v) : ~Replayed(v[k]) => e < v[k].seq
  BY <1>1, <1>2 DEF Waiting
<1> QED BY <1>3, <1>4, <1>7, <1>8 DEF Waiting

(* The head is not old when it is sent again.                               *)
LEMMA HeadNotOld ==
  ASSUME NEW w \in Seq(Messages), w # <<>>, NEW e \in Nat, Replayed(Head(w)),
         Settled(e, w) \/ Waiting(e, w)
  PROVE  e =< Head(w).seq
<1>1. Len(w) \in Nat \ {0} /\ Head(w) = w[1] /\ w[1].seq \in Nat /\ 1 \in 1..Len(w)
  BY TailFacts, MessageFacts
<1>2. CASE Settled(e, w)
  BY <1>1, <1>2 DEF Settled
<1>3. CASE NoneAt(e, w, Len(w))
  BY <1>1, <1>3 DEF NoneAt
<1>4. ASSUME NEW i \in 1..Len(w), BeginsAt(e, w, i) PROVE e =< w[1].seq
  <2>1. CASE i = 1
    BY <1>4, <1>1, <2>1 DEF BeginsAt
  <2>2. CASE i # 1
    <3>1. 1 \in 1..i - 1
      BY <2>2
    <3> QED BY <1>1, <1>4, <3>1 DEF BeginsAt, NoneAt
  <2> QED BY <2>1, <2>2
<1> QED BY <1>1, <1>2, <1>3, <1>4 DEF Waiting

(* The head has the expected number: what stands behind it goes on from it. *)
LEMMA HeadExpected ==
  ASSUME NEW w \in Seq(Messages), w # <<>>, NEW e \in Nat, NEW n, Ordered(n, w),
         Settled(e, w) \/ Waiting(e, w), Head(w).seq = e
  PROVE  /\ Settled(Beyond(Head(w)), Tail(w))
         /\ Waiting(e, w) => ~NoneAt(e, w, Len(w))
<1>1. Len(w) \in Nat \ {0} /\ Head(w) = w[1] /\ w[1].seq \in Nat /\ 1 \in 1..Len(w)
  BY TailFacts, MessageFacts
<1>2. Waiting(e, w) => Replayed(w[1]) /\ BeginsAt(e, w, 1) /\ ~NoneAt(e, w, Len(w))
  <2> SUFFICES ASSUME Waiting(e, w)
               PROVE  Replayed(w[1]) /\ BeginsAt(e, w, 1) /\ ~NoneAt(e, w, Len(w))
    OBVIOUS
  <2>1. Replayed(w[1])
    BY <1>1 DEF Waiting
  <2>2. ~NoneAt(e, w, Len(w))
    BY <1>1, <2>1 DEF NoneAt
  <2>3. PICK i \in 1..Len(w) : BeginsAt(e, w, i)
    BY <2>2 DEF Waiting
  <2>4. ~(1 \in 1..i - 1)
    BY <1>1, <2>1, <2>3 DEF BeginsAt, NoneAt
  <2>5. i = 1
    BY <2>4
  <2> QED BY <2>1, <2>2, <2>3, <2>5
<1>3. \A k \in 1..Len(w) : Replayed(w[k]) => Unbroken(w, 1, k)
  <2>1. CASE Settled(e, w)
    BY <2>1 DEF Settled
  <2>2. CASE Waiting(e, w)
    BY <1>2, <2>2 DEF BeginsAt
  <2> QED BY <2>1, <2>2
<1> PICK v : v = Tail(w)
  OBVIOUS
<1>4. Len(v) = Len(w) - 1 /\ \A k \in 1..Len(v) : v[k] = w[k + 1]
  BY TailFacts
<1>5. ASSUME NEW k \in 1..Len(v), Replayed(v[k])
      PROVE  Unbroken(v, 1, k) /\ Beyond(w[1]) =< v[1].seq
  <2>1. k + 1 \in 1..Len(w) /\ 1 \in 1..k + 1 /\ 1 < k + 1 /\ v[k] = w[k + 1] /\ 1 \in 1..Len(v)
    BY <1>1, <1>4
  <2>2. Unbroken(w, 1, k + 1)
    BY <1>3, <1>5, <2>1
  <2>3. Unbroken(v, 1, k)
    BY <2>1, <2>2, TailUnbroken
  <2>4. Beyond(w[1]) = v[1].seq
    BY <1>4, <2>1, <2>2 DEF Unbroken
  <2>5. Beyond(w[1]) \in Nat
    BY <1>1, WireFacts
  <2> QED BY <2>3, <2>4, <2>5
<1>6. Settled(Beyond(Head(w)), v)
  BY <1>1, <1>5 DEF Settled
<1> QED BY <1>2, <1>6

(* The head is beyond a gap: from now on the receiver waits for e.          *)
LEMMA HeadBeyondGap ==
  ASSUME NEW w \in Seq(Messages), w # <<>>, NEW e \in Nat, NEW n, Ordered(n, w),
         Settled(e, w), e < Head(w).seq
  PROVE  Waiting(e, Tail(w)) /\ NoneAt(e, Tail(w), Len(Tail(w)))
<1>1. Len(w) \in Nat \ {0} /\ Head(w) = w[1] /\ w[1].seq \in Nat /\ 1 \in 1..Len(w)
  BY TailFacts, MessageFacts
<1> PICK v : v = Tail(w)
  OBVIOUS
<1>2. Len(v) = Len(w) - 1 /\ \A k \in 1..Len(v) : v[k] = w[k + 1]
  BY TailFacts
<1>3. NoneAt(e, v, Len(v))
  <2>1. \A k \in 1..Len(w) : Replayed(w[k]) => Unbroken(w, 1, k)
    BY DEF Settled
  <2>2. e =< w[1].seq
    BY <1>1
  <2> QED BY <2>1, <2>2, TailOfReplay
<1>4. ASSUME NEW k \in 1..Len(v), ~Replayed(v[k]) PROVE e < v[k].seq
  <2>1. k + 1 \in 1..Len(w) /\ 1 < k + 1 /\ v[k] = w[k + 1]
    BY <1>1, <1>2
  <2>2. Beyond(w[1]) =< v[k].seq
    BY <1>1, <1>4, <2>1 DEF Ordered
  <2>3. w[1].seq < Beyond(w[1]) /\ Beyond(w[1]) \in Nat /\ v[k].seq \in Nat
    BY <1>1, <2>1, WireFacts DEF Ordered
  <2> QED BY <1>1, <2>2, <2>3
<1> QED BY <1>3, <1>4 DEF Waiting

-----------------------------------------------------------------------------
(* What the steps do to a direction.                                        *)

(* The wire back carries no request that it did not carry before.           *)
Fewer(v, o, shift) ==
  \A k \in 1..Len(v) : Asks(v[k]) => k + shift \in 1..Len(o) /\ v[k] = o[k + shift]

LEMMA BackFewer ==
  ASSUME NEW e, NEW a, NEW n, NEW w, NEW o, NEW up, Direction(e, a, n, w, o, up),
         NEW v, NEW shift \in Nat, Fewer(v, o, shift)
  PROVE  Direction(e, a, n, w, v, up)
<1>1. AsksBelow(n, v)
  BY DEF Direction, AsksBelow, Fewer
<1>2. Asked(e, a, w, o) => Asked(e, a, w, v)
  <2> SUFFICES ASSUME Asked(e, a, w, o), NEW k \in 1..Len(v), Asks(v[k])
               PROVE  /\ a /\ v[k].begin = e /\ NoneAt(e, w, Len(w))
                      /\ \A j \in 1..Len(v) : Asks(v[j]) => j = k
    BY DEF Asked
  <2>1. k + shift \in 1..Len(o) /\ v[k] = o[k + shift]
    BY DEF Fewer
  <2>2. ASSUME NEW j \in 1..Len(v), Asks(v[j]) PROVE j = k
    <3>1. j + shift \in 1..Len(o) /\ v[j] = o[j + shift]
      BY <2>2 DEF Fewer
    <3>2. j + shift = k + shift
      BY <2>1, <2>2, <3>1 DEF Asked
    <3> QED BY <3>2
  <2> QED BY <2>1, <2>2 DEF Asked
<1> QED BY <1>1, <1>2 DEF Direction

LEMMA BackTail ==
  ASSUME NEW e, NEW a, NEW n, NEW w, NEW o \in Seq(Messages), NEW up,
         Direction(e, a, n, w, o, up), o # <<>>
  PROVE  Direction(e, a, n, w, Tail(o), up)
<1>1. /\ Len(Tail(o)) = Len(o) - 1 /\ Len(o) \in Nat
      /\ \A k \in 1..Len(Tail(o)) : Tail(o)[k] = o[k + 1]
  BY TailFacts
<1>2. Fewer(Tail(o), o, 1)
  BY <1>1 DEF Fewer
<1> QED BY <1>2, BackFewer

LEMMA BackEmpty ==
  ASSUME NEW e, NEW a, NEW n, NEW w, NEW o, NEW up, Direction(e, a, n, w, o, up)
  PROVE  Direction(e, a, n, w, <<>>, up)
<1>1. Fewer(<<>>, o, 0)
  BY DEF Fewer
<1> QED BY <1>1, BackFewer

LEMMA BackPrefix ==
  ASSUME NEW e, NEW a, NEW n, NEW w, NEW o \in Seq(Messages), NEW up,
         Direction(e, a, n, w, o, up), NEW v \in Seq(Messages), Agree(v, o, Len(v))
  PROVE  Direction(e, a, n, w, v, up)
<1>1. Len(v) \in Nat /\ Len(o) \in Nat
  BY LenProperties
<1>2. Fewer(v, o, 0)
  BY <1>1 DEF Fewer, Agree
<1> QED BY <1>2, BackFewer

LEMMA BackMore ==
  ASSUME NEW e, NEW a, NEW n, NEW w, NEW o \in Seq(Messages), NEW up,
         Direction(e, a, n, w, o, up),
         NEW d \in Seq(Messages), \A k \in 1..Len(d) : ~Asks(d[k])
  PROVE  Direction(e, a, n, w, o \o d, up)
<1>1. Len(o) \in Nat
  BY LenProperties
<1>2. Fewer(o \o d, o, 0)
  BY <1>1, ConcatFacts DEF Fewer
<1> QED BY <1>2, BackFewer

(* The sender takes a number, and what carries it is lost or on its way.    *)
LEMMA DirectionGrows ==
  ASSUME NEW e \in Nat, NEW a, NEW n \in Nat, NEW w \in Seq(Messages), NEW o \in Seq(Messages),
         NEW up, Direction(e, a, n, w, o, up)
  PROVE  Direction(e, a, n + 1, w, o, up)
<1>1. AsksBelow(n + 1, o)
  <2>1. ASSUME NEW k \in 1..Len(o), Asks(o[k])
        PROVE  1 =< o[k].begin /\ o[k].begin =< o[k].end /\ o[k].end < n + 1
    <3>1. 1 =< o[k].begin /\ o[k].begin =< o[k].end /\ o[k].end < n /\ o[k].end \in Nat
      BY <2>1, WireFacts DEF Direction, AsksBelow
    <3> QED BY <3>1
  <2> QED BY <2>1 DEF AsksBelow
<1>2. Ordered(n, w) => Ordered(n + 1, w)
  <2> SUFFICES ASSUME Ordered(n, w) PROVE Ordered(n + 1, w)
    OBVIOUS
  <2>1. ASSUME NEW k \in 1..Len(w)
        PROVE  w[k].seq < Beyond(w[k]) /\ Beyond(w[k]) =< n + 1
    <3>1. w[k].seq < Beyond(w[k]) /\ Beyond(w[k]) =< n /\ Beyond(w[k]) \in Nat
      BY WireFacts DEF Ordered
    <3> QED BY <3>1
  <2> QED BY <2>1 DEF Ordered
<1>3. e =< n + 1 /\ (a => e < n + 1)
  <2>1. e =< n
    BY DEF Direction
  <2> QED BY <2>1
<1> QED BY <1>1, <1>2, <1>3 DEF Direction

LEMMA DirectionNew ==
  ASSUME NEW e \in Nat, NEW a, NEW n \in Nat, NEW w \in Seq(Messages), NEW o \in Seq(Messages),
         NEW up, Direction(e, a, n, w, o, up),
         NEW m \in Messages, ~Replayed(m), m.seq = n
  PROVE  Direction(e, a, n + 1, Append(w, m), o, up)
<1>1. e =< n + 1 /\ (a => e < n + 1) /\ AsksBelow(n + 1, o)
  BY DirectionGrows DEF Direction
<1> SUFFICES ASSUME up
             PROVE  /\ Ordered(n + 1, Append(w, m))
                    /\ IF a THEN Waiting(e, Append(w, m)) ELSE Settled(e, Append(w, m))
                    /\ Asked(e, a, Append(w, m), o)
  BY <1>1 DEF Direction
<1>2. /\ Ordered(n, w) /\ Asked(e, a, w, o)
      /\ a => Waiting(e, w) /\ e < n
      /\ ~a => Settled(e, w)
  BY DEF Direction
<1>3. Ordered(n + 1, Append(w, m))
  BY <1>2, NewForward
<1>4. (a => Waiting(e, Append(w, m))) /\ (~a => Settled(e, Append(w, m)))
  BY <1>2, NewForward
<1>5. Asked(e, a, Append(w, m), o)
  <2>1. Len(Append(w, m)) = Len(w) + 1
    BY AppendFacts
  <2>2. NoneAt(e, w, Len(w)) => NoneAt(e, Append(w, m), Len(Append(w, m)))
    BY <2>1, NewForward
  <2> QED BY <1>2, <2>2 DEF Asked
<1> QED BY <1>3, <1>4, <1>5

(* The sender answers the request it read.                                  *)
LEMMA DirectionReplay ==
  ASSUME NEW e \in Nat, NEW a, NEW n \in Nat, NEW w \in Seq(Messages), NEW o \in Seq(Messages),
         NEW up, Direction(e, a, n, w, o, up), o # <<>>, Asks(Head(o)),
         NEW d \in Seq(Messages), ReplayFrom(d, Head(o).begin, n)
  PROVE  Direction(e, a, n, w \o d, Tail(o), up)
<1>1. /\ Len(Tail(o)) = Len(o) - 1 /\ Len(o) \in Nat \ {0} /\ Head(o) = o[1]
      /\ \A k \in 1..Len(Tail(o)) : Tail(o)[k] = o[k + 1]
  BY TailFacts
<1>2. e =< n /\ (a => e < n) /\ AsksBelow(n, Tail(o))
  BY BackTail DEF Direction
<1> SUFFICES ASSUME up
             PROVE  /\ Ordered(n, w \o d)
                    /\ IF a THEN Waiting(e, w \o d) ELSE Settled(e, w \o d)
                    /\ Asked(e, a, w \o d, Tail(o))
  BY <1>2 DEF Direction
<1>3. 1 \in 1..Len(o) /\ Asks(o[1])
  BY <1>1
<1>4. /\ a /\ o[1].begin = e /\ NoneAt(e, w, Len(w))
      /\ \A j \in 1..Len(o) : Asks(o[j]) => j = 1
  BY <1>3 DEF Direction, Asked
<1>5. Ordered(n, w) /\ Waiting(e, w)
  BY <1>4 DEF Direction
<1>6. Ordered(n, w \o d) /\ Waiting(e, w \o d)
  BY <1>1, <1>4, <1>5, ReplayForward
<1>7. ASSUME NEW k \in 1..Len(Tail(o)) PROVE ~Asks(Tail(o)[k])
  <2>1. k + 1 \in 1..Len(o) /\ k + 1 # 1 /\ Tail(o)[k] = o[k + 1]
    BY <1>1
  <2> QED BY <1>4, <2>1
<1> QED BY <1>4, <1>6, <1>7 DEF Asked

(* Something under way is lost, or dropped by the one who reads it.         *)
LEMMA DirectionPrefix ==
  ASSUME NEW e \in Nat, NEW a, NEW n \in Nat, NEW w \in Seq(Messages), NEW o, NEW up,
         Direction(e, a, n, w, o, up), NEW v \in Seq(Messages), Agree(v, w, Len(v))
  PROVE  Direction(e, a, n, v, o, up)
BY PrefixForward DEF Direction, Asked

LEMMA DirectionTail ==
  ASSUME NEW e \in Nat, NEW a, NEW n \in Nat, NEW w \in Seq(Messages), NEW o, NEW up,
         Direction(e, a, n, w, o, up), w # <<>>
  PROVE  Direction(e, a, n, Tail(w), o, up)
<1>1. /\ Len(Tail(w)) = Len(w) - 1 /\ Len(w) \in Nat
      /\ \A k \in 1..Len(Tail(w)) : Tail(w)[k] = w[k + 1]
  BY TailFacts
<1>2. NoneAt(e, w, Len(w)) => NoneAt(e, Tail(w), Len(Tail(w)))
  BY <1>1 DEF NoneAt
<1> QED BY <1>2, TailOrdered, TailSettled, TailWaiting DEF Direction, Asked

(* The receiver's socket is gone, and a new one has nothing to read.        *)
LEMMA DirectionDown ==
  ASSUME NEW e, NEW a, NEW n, NEW w, NEW o, NEW up, Direction(e, a, n, w, o, up), NEW v
  PROVE  Direction(e, a, n, v, o, FALSE) /\ Direction(e, FALSE, n, v, o, FALSE)
BY DEF Direction

LEMMA DirectionMade ==
  ASSUME NEW e, NEW a, NEW n, NEW w, NEW o, NEW up, Direction(e, a, n, w, o, up)
  PROVE  Direction(e, a, n, <<>>, <<>>, TRUE)
<1>1. /\ Ordered(n, <<>>) /\ Settled(e, <<>>) /\ Waiting(e, <<>>)
      /\ AsksBelow(n, <<>>) /\ Asked(e, a, <<>>, <<>>)
  BY DEF Ordered, Settled, Waiting, AsksBelow, Asked, NoneAt
<1> QED BY <1>1 DEF Direction

(* The receiver takes the message it expects.                               *)
LEMMA DirectionAccept ==
  ASSUME NEW e \in Nat, NEW a, NEW n \in Nat, NEW w \in Seq(Messages), NEW o,
         Direction(e, a, n, w, o, TRUE), w # <<>>, Head(w).seq = e
  PROVE  Direction(Beyond(Head(w)), FALSE, n, Tail(w), o, TRUE)
<1>1. Len(w) \in Nat \ {0} /\ Head(w) = w[1] /\ 1 \in 1..Len(w)
  BY TailFacts
<1>2. /\ Ordered(n, w) /\ Asked(e, a, w, o) /\ AsksBelow(n, o)
      /\ a => Waiting(e, w)
      /\ ~a => Settled(e, w)
  BY DEF Direction
<1>3. Settled(Beyond(Head(w)), Tail(w)) /\ (a => ~NoneAt(e, w, Len(w)))
  BY <1>2, HeadExpected
<1>4. Beyond(Head(w)) =< n
  BY <1>1, <1>2 DEF Ordered
<1>5. Ordered(n, Tail(w))
  BY <1>2, TailOrdered
<1>6. Asked(Beyond(Head(w)), FALSE, Tail(w), o)
  BY <1>2, <1>3 DEF Asked
<1> QED BY <1>2, <1>3, <1>4, <1>5, <1>6 DEF Direction

(* The receiver finds a gap, and may ask for what is missing.               *)
LEMMA DirectionGap ==
  ASSUME NEW e \in Nat \ {0}, NEW n \in Nat, NEW w \in Seq(Messages), NEW o \in Seq(Messages),
         Direction(e, FALSE, n, w, o, TRUE), w # <<>>, e < Head(w).seq
  PROVE  /\ Direction(e, TRUE, n, Tail(w), o, TRUE)
         /\ \A m \in Messages :
              Asks(m) /\ m.begin = e /\ m.end = Head(w).seq
                => Direction(e, TRUE, n, Tail(w), Append(o, m), TRUE)
<1>1. Len(w) \in Nat \ {0} /\ Head(w) = w[1] /\ 1 \in 1..Len(w) /\ w[1].seq \in Nat
  BY TailFacts, MessageFacts
<1>2. Ordered(n, w) /\ Asked(e, FALSE, w, o) /\ AsksBelow(n, o) /\ Settled(e, w)
  BY DEF Direction
<1>3. Waiting(e, Tail(w)) /\ NoneAt(e, Tail(w), Len(Tail(w)))
  BY <1>2, HeadBeyondGap
<1>4. Head(w).seq < n
  <2>1. w[1].seq < Beyond(w[1]) /\ Beyond(w[1]) =< n /\ Beyond(w[1]) \in Nat
    BY <1>1, <1>2, WireFacts DEF Ordered
  <2> QED BY <1>1, <2>1
<1>5. Ordered(n, Tail(w)) /\ e < n
  BY <1>1, <1>2, <1>4, TailOrdered
<1>6. \A k \in 1..Len(o) : ~Asks(o[k])
  BY <1>2 DEF Asked
<1>7. Direction(e, TRUE, n, Tail(w), o, TRUE)
  BY <1>2, <1>3, <1>5, <1>6 DEF Direction, Asked
<1>8. ASSUME NEW m \in Messages, Asks(m), m.begin = e, m.end = Head(w).seq
      PROVE  Direction(e, TRUE, n, Tail(w), Append(o, m), TRUE)
  <2> PICK v : v = Append(o, m)
    OBVIOUS
  <2>1. /\ Len(v) = Len(o) + 1 /\ Len(o) \in Nat /\ v[Len(o) + 1] = m
        /\ \A k \in 1..Len(o) : v[k] = o[k]
    BY AppendFacts, LenProperties
  <2>2. \A k \in 1..Len(v) : Asks(v[k]) => k = Len(o) + 1 /\ v[k] = m
    BY <1>6, <2>1
  <2>3. AsksBelow(n, v)
    <3>1. 1 =< e /\ e =< Head(w).seq
      BY <1>1
    <3> QED BY <1>4, <1>8, <2>2, <3>1 DEF AsksBelow
  <2>4. Asked(e, TRUE, Tail(w), v)
    BY <1>3, <1>8, <2>2 DEF Asked
  <2> QED BY <1>3, <1>5, <2>3, <2>4 DEF Direction
<1> QED BY <1>7, <1>8

-----------------------------------------------------------------------------
(* The answer to a request.                                                 *)

(* What one message of a replay becomes on the wire.                        *)
LEMMA OnWireFacts ==
  ASSUME NEW x \in WrittenIn(Payloads)
  PROVE  /\ OnWire(x) \in Messages
         /\ Replayed(OnWire(x))
         /\ OnWire(x).seq = First(x) /\ Beyond(OnWire(x)) = After(x)
         /\ OnWire(x).kind = IF x.kind = "Fill" THEN "SequenceReset" ELSE "App"
         /\ x.kind = "Dup" => OnWire(x).body = x.body
         /\ x.kind = "Fill" \/ x.kind = "Dup"
<1>1. CASE x \in [kind : {"Fill"}, seq : Nat \ {0}, new : Nat \ {0}]
  <2>1. x.kind = "Fill" /\ x.seq \in Numbers /\ x.new \in Nat
    BY <1>1 DEF Numbers
  <2>2. OnWire(x) = [kind |-> "SequenceReset", seq |-> x.seq, possDup |-> FALSE, new |-> x.new]
    BY <2>1 DEF OnWire, GapFillMsg
  <2>3. OnWire(x) \in GapFills
    BY <2>1, <2>2 DEF GapFills
  <2> QED BY <2>1, <2>2, <2>3 DEF Messages, Replayed, Beyond, First, After
<1>2. CASE x \in [kind : {"Dup"}, seq : Nat \ {0}, body : Payloads]
  <2>1. x.kind = "Dup" /\ x.seq \in Numbers /\ x.body \in Payloads
    BY <1>2 DEF Numbers
  <2>2. OnWire(x) = [kind |-> "App", seq |-> x.seq, possDup |-> TRUE, body |-> x.body]
    BY <2>1 DEF OnWire, AppMsg
  <2>3. OnWire(x) \in AppMessages
    BY <2>1, <2>2 DEF AppMessages
  <2> QED BY <2>1, <2>2, <2>3 DEF Messages, Replayed, Beyond, First, After
<1> QED BY <1>1, <1>2 DEF WrittenIn

(* Whatever the store, the answer covers the range that was asked for.      *)
LEMMA ReplayCovers ==
  ASSUME NEW c, NEW s, s.outgoing \in Seq(StoredIn(Payloads)), Ascending(s.outgoing),
         NEW begin \in Nat \ {0}, NEW end \in Nat, begin =< end,
         NEW out, out = Replay(c, s, begin, end)
  PROVE  /\ out \in Seq(WrittenIn(Payloads)) /\ out # <<>>
         /\ Chain(out, begin, end + 1)
         /\ c.store # "null" =>
              HidesNone(Held(s.outgoing), out) /\ FromStore(Held(s.outgoing), out)
<1>1. CASE c.store = "null"
  <2>1. PICK x : x = Fill(begin, end + 1)
    OBVIOUS
  <2>2. /\ x \in WrittenIn(Payloads)
        /\ x.kind = "Fill" /\ First(x) = begin /\ After(x) = end + 1
    BY <2>1 DEF Fill, WrittenIn, First, After
  <2>3. out = <<x>>
    BY <1>1, <2>1 DEF Replay
  <2>4. Len(out) = 1 /\ out[1] = x /\ out \in Seq(WrittenIn(Payloads)) /\ out # <<>>
    BY <2>2, <2>3
  <2> QED BY <1>1, <2>2, <2>4 DEF Chain
<1>2. CASE c.store # "null"
  <2>1. out = Finish(Scanned(s.outgoing, begin, end), end).out
    BY <1>2 DEF Replay
  <2> QED BY <2>1, ScannedExactly
<1> QED BY <1>1, <1>2

LEMMA ReplayOnWire ==
  ASSUME NEW out \in Seq(WrittenIn(Payloads)), out # <<>>,
         NEW begin \in Nat \ {0}, NEW end \in Nat, NEW n \in Nat, end < n,
         Chain(out, begin, end + 1),
         NEW d, d = [j \in DOMAIN out |-> OnWire(out[j])]
  PROVE  /\ d \in Seq(Messages) /\ ReplayFrom(d, begin, n)
         /\ Len(d) = Len(out)
         /\ \A k \in 1..Len(d) : d[k] = OnWire(out[k])
<1>1. Len(out) \in Nat \ {0} /\ DOMAIN out = 1..Len(out)
  BY LenProperties, EmptySeq
<1>2. \A k \in 1..Len(out) : out[k] \in WrittenIn(Payloads)
  BY ElementOfSeq
<1>3. \A k \in 1..Len(out) :
        /\ d[k] = OnWire(out[k]) /\ d[k] \in Messages /\ Replayed(d[k])
        /\ d[k].seq = First(out[k]) /\ Beyond(d[k]) = After(out[k])
  BY <1>1, <1>2, OnWireFacts
<1>4. d \in Seq(Messages) /\ Len(d) = Len(out) /\ d # <<>>
  <2>1. d \in [1..Len(out) -> Messages]
    BY <1>1, <1>3
  <2>2. d \in Seq(Messages)
    BY <1>1, <2>1, SeqDef
  <2> QED BY <1>1, <2>1, <2>2
<1>5. /\ \A k \in 1..Len(out) :
           First(out[k]) \in Nat /\ After(out[k]) \in Nat /\ After(out[k]) =< end + 1
      /\ \A j, k \in 1..Len(out) : j < k => After(out[j]) =< First(out[k])
  <2>1. end + 1 \in Nat
    OBVIOUS
  <2> QED BY <2>1, ChainAscends
<1>6. ASSUME NEW k \in 1..Len(d)
      PROVE  Unbroken(d, 1, k)
  <2>1. ASSUME NEW j \in 1..k
        PROVE  /\ Replayed(d[j])
               /\ j < k => Beyond(d[j]) = d[j + 1].seq
               /\ j < k => Beyond(d[j]) =< d[k].seq
    <3>1. /\ j \in 1..Len(out) /\ k \in 1..Len(out)
          /\ j < k => j \in 1..Len(out) - 1 /\ j + 1 \in 1..Len(out)
      BY <1>1, <1>4
    <3>2. j < k => After(out[j]) = First(out[j + 1])
      BY <3>1 DEF Chain
    <3> QED BY <1>3, <1>5, <3>1, <3>2
  <2> QED BY <2>1 DEF Unbroken
<1>7. ASSUME NEW k \in 1..Len(d)
      PROVE  d[k].seq < Beyond(d[k]) /\ Beyond(d[k]) =< n
  <2>1. k \in 1..Len(out)
    BY <1>4
  <2>2. First(out[k]) < After(out[k])
    BY <2>1 DEF Chain
  <2>3. After(out[k]) \in Nat /\ After(out[k]) =< n
    <3>1. After(out[k]) \in Nat /\ After(out[k]) =< end + 1
      BY <1>5, <2>1
    <3> QED BY <3>1
  <2>4. d[k].seq = First(out[k]) /\ Beyond(d[k]) = After(out[k])
    BY <1>3, <2>1
  <2> QED BY <2>2, <2>3, <2>4
<1>8. d[1].seq = begin
  <2>1. 1 \in 1..Len(out)
    BY <1>1
  <2> QED BY <1>3, <2>1 DEF Chain
<1> QED BY <1>3, <1>4, <1>6, <1>7, <1>8 DEF ReplayFrom

-----------------------------------------------------------------------------
(* A session that never resets.                                             *)
PlainConfigs ==
  {c \in AllConfigs :
     ~c.resetOnLogon /\ ~c.resetOnLogout /\ ~c.resetOnDisconnect /\ ~c.resetDaily}

Callbacks == [event : {"onLogon", "onLogout", "fromApp"}, body : Payloads]

Sessions ==
  [status : Statuses, sentLogon : BOOLEAN, receivedLogon : BOOLEAN,
   sentLogout : BOOLEAN, receivedLogout : BOOLEAN, awaitingResend : BOOLEAN,
   resetOnDisconnect : {FALSE}, awaitingTest : BOOLEAN, testRequestID : Nat,
   nextSender : Numbers, nextTarget : Numbers,
   outgoing : Seq(StoredIn(Payloads)), disk : {"ok"},
   socket : {"none", "open", "failing"}, listening : BOOLEAN,
   sent : Seq(Messages), calls : Seq(Callbacks),
   rc : {"ok", "io", "session", "app", "invalid"}]

(* A call leaves the store as it was and writes nothing, or it writes and   *)
(* keeps one message of these kinds and takes its number.                  *)
SameStore(s, r) ==
  r.nextSender = s.nextSender /\ r.outgoing = s.outgoing /\ r.sent = s.sent

Kept(m) == Stored(m.seq, m.kind # "App", BodyOf(m))

Writes(c, s, r, m) ==
  /\ m.seq = s.nextSender /\ r.nextSender = s.nextSender + 1
  /\ r.sent = Append(s.sent, m)
  /\ r.outgoing = IF KeepsMessages(c) THEN Append(s.outgoing, Kept(m)) ELSE s.outgoing

Fresh(kinds) == {m \in Messages : m.kind \in kinds /\ ~Replayed(m)}

Emits(c, s, r, kinds) == SameStore(s, r) \/ \E m \in Fresh(kinds) : Writes(c, s, r, m)

AdminKinds == {"Logon", "Logout", "Heartbeat", "TestRequest", "Reject"}

(* It does not change what the session expects of the other side.          *)
Stays(s, r) ==
  /\ r.nextTarget = s.nextTarget /\ r.awaitingResend = s.awaitingResend
  /\ r.socket = s.socket /\ r.calls = s.calls

(* m is msg with number n in it.                                            *)
Carries(m, msg, n) == m = [msg EXCEPT !.seq = n] /\ m.seq = n

LEMMA KeptFacts ==
  ASSUME NEW m \in Messages
  PROVE  /\ Kept(m) \in StoredIn(Payloads)
         /\ Kept(m).seq = m.seq /\ Kept(m).admin = (m.kind # "App")
         /\ m.kind = "App" => Kept(m).body = m.body
<1>1. BodyOf(m) \in Payloads /\ (m.kind = "App" => BodyOf(m) = m.body)
  <2>1. CASE m.kind = "App"
    <3>1. m \in AppMessages
      BY <2>1, MessageKinds
    <3> QED BY <2>1, <3>1 DEF AppMessages, BodyOf
  <2>2. CASE m.kind # "App"
    BY <2>2 DEF BodyOf, Payloads
  <2> QED BY <2>1, <2>2
<1>2. m.seq \in Nat \ {0}
  BY MessageFacts
<1> QED BY <1>1, <1>2 DEF Kept, Stored, StoredIn

(* Session::send: on a socket that works it takes the number, on any other  *)
(* it leaves everything alone.                                             *)
LEMMA SendLemma ==
  ASSUME NEW c \in PlainConfigs, NEW s \in Sessions, NEW msg, NEW m \in Messages,
         Carries(m, msg, s.nextSender),
         NEW r, r = Send(c, s, msg)
  PROVE  /\ r \in Sessions
         /\ Stays(s, r)
         /\ r.status = s.status /\ r.testRequestID = s.testRequestID
         /\ r.rc \in {"ok", "io"}
         /\ r.rc = "ok" => Writes(c, s, r, m)
         /\ r.rc # "ok" => SameStore(s, r)
<1> PICK new : new = Kept(m)
  OBVIOUS
<1>1. new \in StoredIn(Payloads)
  BY KeptFacts
<1>0. m = [msg EXCEPT !.seq = s.nextSender] /\ m.seq = s.nextSender
  BY DEF Carries
<1>2. CASE ~Writable(s)
  <2>1. r = [s EXCEPT !.rc = "io"]
    BY <1>2 DEF Send, Fail
  <2> QED BY <2>1 DEF Sessions, Stays, SameStore
<1>3. CASE Writable(s)
  <2>1. PICK w : w = [s EXCEPT !.sent = Append(s.sent, m)]
    OBVIOUS
  <2>2. PICK kept : kept = IF KeepsMessages(c) THEN Append(s.outgoing, new) ELSE s.outgoing
    OBVIOUS
  <2>3. Append(s.sent, m) \in Seq(Messages) /\ kept \in Seq(StoredIn(Payloads))
    <3>1. s.sent \in Seq(Messages) /\ s.outgoing \in Seq(StoredIn(Payloads))
      BY DEF Sessions
    <3> QED BY <1>1, <2>2, <3>1, AppendProperties
  <2>4. w \in Sessions /\ w.disk = "ok" /\ w.outgoing = s.outgoing
    BY <2>1, <2>3 DEF Sessions
  <2>5. Write(s, m) = w
    BY <2>1 DEF Write
  <2>6. StoreOutgoing(c, w, m) = [w EXCEPT !.outgoing = kept, !.rc = "ok"]
    BY <2>2, <2>4 DEF StoreOutgoing, DiskRefuses, Kept
  <2>7. r = [[w EXCEPT !.outgoing = kept, !.rc = "ok"] EXCEPT !.nextSender = @ + 1]
    <3>1. [w EXCEPT !.outgoing = kept, !.rc = "ok"].rc = "ok"
      BY <2>4 DEF Sessions
    <3> QED BY <1>0, <1>3, <2>5, <2>6, <3>1 DEF Send, Ok
  <2>8. s.nextSender + 1 \in Numbers
    BY DEF Sessions, Numbers
  <2>9. /\ r \in Sessions /\ Stays(s, r)
        /\ r.status = s.status /\ r.testRequestID = s.testRequestID /\ r.rc = "ok"
        /\ r.nextSender = s.nextSender + 1 /\ r.sent = Append(s.sent, m) /\ r.outgoing = kept
    BY <2>1, <2>3, <2>7, <2>8 DEF Sessions, Stays
  <2> QED BY <1>0, <2>2, <2>9 DEF Writes
<1> QED BY <1>2, <1>3

LEMMA PlainFacts ==
  ASSUME NEW c \in PlainConfigs
  PROVE  /\ c.resetOnLogon = FALSE /\ ~c.resetOnLogout /\ ~c.resetOnDisconnect /\ ~c.resetDaily
         /\ c.resetDaily = FALSE
         /\ c.store \in Stores
<1>1. /\ c \in AllConfigs /\ ~c.resetOnLogon /\ ~c.resetOnLogout
      /\ ~c.resetOnDisconnect /\ ~c.resetDaily
  BY DEF PlainConfigs
<1>2. c.resetOnLogon \in BOOLEAN /\ c.resetDaily \in BOOLEAN /\ c.store \in Stores
  BY <1>1 DEF AllConfigs
<1> QED BY Zenon, <1>1, <1>2

(* The messages a session writes, with their number.                        *)
LEMMA FreshRecords ==
  ASSUME NEW n \in Numbers
  PROVE  /\ [kind |-> "Logon", seq |-> n, possDup |-> FALSE, reset |-> FALSE, acceptable |-> TRUE]
              \in Fresh(AdminKinds)
         /\ \A kind \in {"Logout", "Reject"} :
              [kind |-> kind, seq |-> n, possDup |-> FALSE] \in Fresh(AdminKinds)
         /\ \A kind \in {"Heartbeat", "TestRequest"}, id \in Nat :
              [kind |-> kind, seq |-> n, possDup |-> FALSE, id |-> id] \in Fresh(AdminKinds)
<1>1. ASSUME NEW m \in Messages, m.possDup = FALSE, m.kind \in AdminKinds
      PROVE  m \in Fresh(AdminKinds)
  <2>1. ~Replayed(m)
    BY <1>1 DEF Replayed, AdminKinds
  <2> QED BY <1>1, <2>1 DEF Fresh
<1>2. ASSUME NEW m, m = [kind |-> "Logon", seq |-> n, possDup |-> FALSE, reset |-> FALSE,
                         acceptable |-> TRUE]
      PROVE  m \in Fresh(AdminKinds)
  <2>1. m \in LogonMessages
    BY <1>2 DEF LogonMessages
  <2>2. m.possDup = FALSE
    BY <1>2
  <2>3. m.kind \in AdminKinds
    BY <1>2 DEF AdminKinds
  <2> QED BY <1>1, <2>1, <2>2, <2>3 DEF Messages
<1>3. ASSUME NEW kind \in {"Logout", "Reject"},
             NEW m, m = [kind |-> kind, seq |-> n, possDup |-> FALSE]
      PROVE  m \in Fresh(AdminKinds)
  <2>1. m \in Once({"Logout", "Reject"})
    BY <1>3 DEF Once
  <2>2. m.possDup = FALSE
    BY <1>3
  <2>3. m.kind \in AdminKinds
    BY <1>3 DEF AdminKinds
  <2> QED BY <1>1, <2>1, <2>2, <2>3 DEF Messages
<1>4. ASSUME NEW kind \in {"Heartbeat", "TestRequest"}, NEW id \in Nat,
             NEW m, m = [kind |-> kind, seq |-> n, possDup |-> FALSE, id |-> id]
      PROVE  m \in Fresh(AdminKinds)
  <2>1. m \in ProbeMessages
    BY <1>4 DEF ProbeMessages
  <2>2. m.possDup = FALSE
    BY <1>4
  <2>3. m.kind \in AdminKinds
    BY <1>4 DEF AdminKinds
  <2> QED BY <1>1, <2>1, <2>2, <2>3 DEF Messages
<1> QED BY <1>2, <1>3, <1>4

Numbered(msg, n) == \E m \in Fresh(AdminKinds) : Carries(m, msg, n)

LEMMA FreshMessages ==
  ASSUME NEW n \in Numbers
  PROVE  /\ \A msg \in {LogonMsg(FALSE, TRUE), LogoutMsg, RejectMsg} :
              Numbered(msg, n)
         /\ \A id \in Nat : \A msg \in {HeartbeatMsg(id), TestRequestMsg(id)} :
              Numbered(msg, n)
<1>1. ASSUME NEW msg, msg = LogonMsg(FALSE, TRUE)
      PROVE  Numbered(msg, n)
  <2>1. PICK m : m = [msg EXCEPT !.seq = n]
    OBVIOUS
  <2>2. m = [kind |-> "Logon", seq |-> n, possDup |-> FALSE, reset |-> FALSE, acceptable |-> TRUE]
    BY <1>1, <2>1 DEF LogonMsg
  <2>3. m.seq = n /\ m \in Fresh(AdminKinds)
    BY <2>2, FreshRecords
  <2> QED BY <2>1, <2>3 DEF Numbered, Carries
<1>2. ASSUME NEW kind \in {"Logout", "Reject"}, NEW msg, msg = Msg(kind)
      PROVE  Numbered(msg, n)
  <2>1. PICK m : m = [msg EXCEPT !.seq = n]
    OBVIOUS
  <2>2. m = [kind |-> kind, seq |-> n, possDup |-> FALSE]
    BY <1>2, <2>1 DEF Msg
  <2>3. m.seq = n /\ m \in Fresh(AdminKinds)
    BY <2>2, FreshRecords
  <2> QED BY <2>1, <2>3 DEF Numbered, Carries
<1>3. ASSUME NEW kind \in {"Heartbeat", "TestRequest"}, NEW id \in Nat,
             NEW msg, msg = [kind |-> kind, seq |-> 0, possDup |-> FALSE, id |-> id]
      PROVE  Numbered(msg, n)
  <2>1. PICK m : m = [msg EXCEPT !.seq = n]
    OBVIOUS
  <2>2. m = [kind |-> kind, seq |-> n, possDup |-> FALSE, id |-> id]
    BY <1>3, <2>1
  <2>3. m.seq = n /\ m \in Fresh(AdminKinds)
    BY <2>2, FreshRecords
  <2> QED BY <2>1, <2>3 DEF Numbered, Carries
<1> QED BY <1>1, <1>2, <1>3 DEF LogoutMsg, RejectMsg, HeartbeatMsg, TestRequestMsg

-----------------------------------------------------------------------------
(* The calls that do not read a message.                                    *)

(* Nothing is delivered, unless the application may refuse it, and either   *)
(* nothing of what the session expects changes or its socket goes and it   *)
(* waits for nothing any more.                                             *)
Silent(calls) == \A j \in DOMAIN calls : calls[j].event # "fromApp"

Keeps(s, r) ==
  /\ r.nextTarget = s.nextTarget
  /\ Refused = {} /\ Silent(s.calls) => Silent(r.calls)
  /\ \/ r.awaitingResend = s.awaitingResend /\ r.socket = s.socket
     \/ r.awaitingResend = FALSE /\ r.socket = "none"

Quiet(c, s, r) == r \in Sessions /\ Emits(c, s, r, AdminKinds) /\ Keeps(s, r)

(* One of the messages above is sent, or not.                               *)
LEMMA SendQuiet ==
  ASSUME NEW c \in PlainConfigs, NEW s \in Sessions, NEW msg, Numbered(msg, s.nextSender),
         NEW r, r = Send(c, s, msg)
  PROVE  /\ r \in Sessions /\ Stays(s, r) /\ Emits(c, s, r, AdminKinds)
         /\ r.status = s.status /\ r.rc \in {"ok", "io"}
<1>1. PICK m \in Fresh(AdminKinds) : Carries(m, msg, s.nextSender)
  BY DEF Numbered
<1>2. m \in Messages
  BY DEF Fresh
<1>3. /\ r \in Sessions /\ Stays(s, r) /\ r.status = s.status /\ r.rc \in {"ok", "io"}
      /\ r.rc = "ok" => Writes(c, s, r, m)
      /\ r.rc # "ok" => SameStore(s, r)
  BY <1>1, <1>2, SendLemma
<1> QED BY <1>3 DEF Emits

LEMMA StaysKeeps ==
  ASSUME NEW s, NEW r, Stays(s, r) PROVE Keeps(s, r)
BY DEF Stays, Keeps

(* A change of fields nobody else reads.                                    *)
LEMMA SendLogonLemma ==
  ASSUME NEW c \in PlainConfigs, NEW s \in Sessions, NEW r, r = SendLogon(c, s)
  PROVE  /\ r \in Sessions /\ Stays(s, r) /\ Emits(c, s, r, AdminKinds) /\ r.rc \in {"ok", "io"}
<1> PICK t : t = Send(c, s, LogonMsg(FALSE, TRUE))
  OBVIOUS
<1>1. s.nextSender \in Numbers
  BY DEF Sessions
<1>2. t \in Sessions /\ Stays(s, t) /\ Emits(c, s, t, AdminKinds) /\ t.rc \in {"ok", "io"}
  BY <1>1, FreshMessages, SendQuiet
<1>3. r = IF t.rc = "ok" THEN [t EXCEPT !.sentLogon = TRUE, !.status = "LogonSent"] ELSE t
  BY PlainFacts DEF SendLogon, Ok
<1>4. "LogonSent" \in Statuses
  BY DEF Statuses
<1>5. r \in Sessions /\ Stays(t, r) /\ SameStore(t, r) /\ r.rc = t.rc
  <2>1. CASE r = t
    BY <1>2, <2>1 DEF Stays, SameStore
  <2>2. CASE r = [t EXCEPT !.sentLogon = TRUE, !.status = "LogonSent"]
    BY <1>2, <1>4, <2>2 DEF Sessions, Stays, SameStore
  <2> QED BY <1>3, <2>1, <2>2
<1> QED BY <1>2, <1>5 DEF Stays, SameStore, Emits, Writes

LEMMA SendLogoutLemma ==
  ASSUME NEW c \in PlainConfigs, NEW s \in Sessions, s.rc = "ok", NEW r, r = SendLogout(c, s)
  PROVE  /\ r \in Sessions /\ Stays(s, r) /\ Emits(c, s, r, AdminKinds) /\ r.rc \in {"ok", "io"}
         /\ s.status = "Closing" => r = s
<1>1. CASE Closing(s) \/ s.status = "Disconnected"
  BY <1>1 DEF SendLogout, Stays, Emits, SameStore
<1>2. CASE ~(Closing(s) \/ s.status = "Disconnected")
  <2> PICK t : t = Send(c, s, LogoutMsg)
    OBVIOUS
  <2>1. s.nextSender \in Numbers
    BY DEF Sessions
  <2>2. t \in Sessions /\ Stays(s, t) /\ Emits(c, s, t, AdminKinds) /\ t.rc \in {"ok", "io"}
    BY <2>1, FreshMessages, SendQuiet
  <2>3. r = IF t.rc = "ok" THEN [t EXCEPT !.sentLogout = TRUE, !.status = "LogoutSent"] ELSE t
    BY <1>2 DEF SendLogout, Ok
  <2>4. "LogoutSent" \in Statuses
    BY DEF Statuses
  <2>5. r \in Sessions /\ Stays(t, r) /\ SameStore(t, r) /\ r.rc = t.rc
    <3>1. CASE r = t
      BY <2>2, <3>1 DEF Stays, SameStore
    <3>2. CASE r = [t EXCEPT !.sentLogout = TRUE, !.status = "LogoutSent"]
      BY <2>2, <2>4, <3>2 DEF Sessions, Stays, SameStore
    <3> QED BY <2>3, <3>1, <3>2
  <2> QED BY <1>2, <2>2, <2>5 DEF Stays, SameStore, Emits, Writes, Closing
<1> QED BY <1>1, <1>2

LEMMA SendTestRequestLemma ==
  ASSUME NEW c \in PlainConfigs, NEW s \in Sessions, NEW r, r = SendTestRequest(c, s)
  PROVE  r \in Sessions /\ Stays(s, r) /\ Emits(c, s, r, AdminKinds)
<1> PICK t : t = [s EXCEPT !.testRequestID = @ + 1]
  OBVIOUS
<1>0. s.testRequestID + 1 \in Nat
  BY DEF Sessions
<1>1. /\ t \in Sessions /\ Stays(s, t) /\ SameStore(s, t)
      /\ t.testRequestID = s.testRequestID + 1 /\ t.nextSender = s.nextSender
      /\ s.nextSender \in Numbers
  BY <1>0 DEF Sessions, Stays, SameStore
<1> PICK u : u = Send(c, t, TestRequestMsg(t.testRequestID))
  OBVIOUS
<1>2. u \in Sessions /\ Stays(t, u) /\ Emits(c, t, u, AdminKinds)
  BY <1>0, <1>1, FreshMessages, SendQuiet
<1>3. r = IF u.rc = "ok" THEN [u EXCEPT !.awaitingTest = TRUE] ELSE u
  BY DEF SendTestRequest, Ok
<1>4. r \in Sessions /\ Stays(u, r) /\ SameStore(u, r)
  <2>1. CASE r = u
    BY <1>2, <2>1 DEF Stays, SameStore
  <2>2. CASE r = [u EXCEPT !.awaitingTest = TRUE]
    <3>1. r \in Sessions
      BY ZenonT(60), <1>2, <2>2 DEF Sessions
    <3>2. Stays(u, r) /\ SameStore(u, r)
      BY <1>2, <2>2 DEF Sessions, Stays, SameStore
    <3> QED BY <3>1, <3>2
  <2> QED BY <1>3, <2>1, <2>2
<1> QED BY <1>1, <1>2, <1>4 DEF Stays, SameStore, Emits, Writes

LEMMA DoLogoutLemma ==
  ASSUME NEW c \in PlainConfigs, NEW s \in Sessions, s.rc = "ok", NEW r, r = DoLogout(c, s)
  PROVE  r \in Sessions /\ Stays(s, r) /\ Emits(c, s, r, AdminKinds)
<1>1. CASE r = s
  BY <1>1 DEF Stays, Emits, SameStore
<1>2. CASE r = [s EXCEPT !.status = "Closing"]
  <2>1. "Closing" \in Statuses
    BY DEF Statuses
  <2> QED BY <1>2, <2>1 DEF Sessions, Stays, Emits, SameStore
<1>3. CASE r = SendLogout(c, s)
  BY <1>3, SendLogoutLemma
<1> QED BY <1>1, <1>2, <1>3 DEF DoLogout

LEMMA CallSilent ==
  ASSUME NEW calls \in Seq(Callbacks), NEW event \in {"onLogon", "onLogout"}
  PROVE  LET more == Append(calls, [event |-> event, body |-> NoBody])
         IN  more \in Seq(Callbacks) /\ (Silent(calls) => Silent(more))
<1> PICK x : x = [event |-> event, body |-> NoBody]
  OBVIOUS
<1>1. x \in Callbacks /\ x.event # "fromApp"
  BY DEF Callbacks, Payloads
<1> PICK more : more = Append(calls, x)
  OBVIOUS
<1>2. /\ more \in Seq(Callbacks) /\ Len(more) = Len(calls) + 1 /\ more[Len(calls) + 1] = x
      /\ \A k \in 1..Len(calls) : more[k] = calls[k]
      /\ Len(calls) \in Nat
      /\ DOMAIN more = 1..Len(more) /\ DOMAIN calls = 1..Len(calls)
  BY <1>1, AppendProperties, LenProperties
<1>3. Silent(calls) => Silent(more)
  BY <1>1, <1>2 DEF Silent
<1> QED BY <1>2, <1>3

(* The store, the numbers and the socket survive the end of a connection.   *)
LEMMA ClearFlagsFacts ==
  ASSUME NEW s \in Sessions, NEW t, t = ClearFlags(s)
  PROVE  /\ t \in Sessions /\ SameStore(s, t) /\ t.calls = s.calls /\ t.rc = s.rc
         /\ t.nextTarget = s.nextTarget /\ t.awaitingResend = FALSE /\ t.socket = s.socket
         /\ t.status = "Disconnected"
<1>1. "Disconnected" \in Statuses /\ FALSE \in BOOLEAN /\ 0 \in Nat
  BY DEF Statuses
<1>2. t \in Sessions
  BY ZenonT(60), <1>1 DEF Sessions, ClearFlags
<1>3. /\ t.nextSender = s.nextSender /\ t.outgoing = s.outgoing /\ t.sent = s.sent
      /\ t.calls = s.calls /\ t.rc = s.rc /\ t.nextTarget = s.nextTarget
      /\ t.socket = s.socket
  BY DEF Sessions, ClearFlags
<1>4. t.awaitingResend = FALSE /\ t.status = "Disconnected"
  BY DEF Sessions, ClearFlags
<1> QED BY <1>2, <1>3, <1>4 DEF SameStore

LEMMA OnDisconnectedLemma ==
  ASSUME NEW c \in PlainConfigs, NEW s \in Sessions, NEW r, r = OnDisconnected(c, s)
  PROVE  /\ r \in Sessions /\ SameStore(s, r)
         /\ r.nextTarget = s.nextTarget /\ r.awaitingResend = FALSE /\ r.socket = s.socket
         /\ r.rc = s.rc
         /\ Silent(s.calls) => Silent(r.calls)
<1> PICK t : t = ClearFlags(s)
  OBVIOUS
<1>1. /\ t \in Sessions /\ SameStore(s, t) /\ t.calls = s.calls /\ t.rc = s.rc
      /\ t.nextTarget = s.nextTarget /\ t.awaitingResend = FALSE /\ t.socket = s.socket
  BY ClearFlagsFacts
<1> PICK more : more = Append(t.calls, [event |-> "onLogout", body |-> NoBody])
  OBVIOUS
<1>2. more \in Seq(Callbacks) /\ (Silent(s.calls) => Silent(more))
  <2>1. t.calls \in Seq(Callbacks)
    BY <1>1 DEF Sessions
  <2> QED BY <1>1, <2>1, CallSilent
<1>3. r = IF WasActive(s) THEN [t EXCEPT !.calls = more] ELSE t
  <2>1. ~ResetsOnDisconnect(c, s)
    BY PlainFacts DEF ResetsOnDisconnect, Sessions
  <2> QED BY <2>1 DEF OnDisconnected, Call
<1>4. CASE r = t
  BY <1>1, <1>4 DEF SameStore
<1>5. CASE r = [t EXCEPT !.calls = more]
  <2>1. r \in Sessions
    BY <1>1, <1>2, <1>5 DEF Sessions
  <2>2. /\ SameStore(t, r) /\ r.calls = more
        /\ r.nextTarget = t.nextTarget /\ r.awaitingResend = t.awaitingResend
        /\ r.socket = t.socket /\ r.rc = t.rc
    BY <1>1, <1>5 DEF Sessions, SameStore
  <2> QED BY <1>1, <1>2, <2>1, <2>2 DEF SameStore
<1> QED BY <1>3, <1>4, <1>5

LEMMA CloseLemma ==
  ASSUME NEW c \in PlainConfigs, NEW s \in Sessions, NEW r, r = Close(c, s)
  PROVE  /\ r \in Sessions /\ SameStore(s, r) /\ Keeps(s, r) /\ r.socket = "none" /\ r.rc = s.rc
         /\ Silent(s.calls) => Silent(r.calls)
<1>0. PICK t : t = [s EXCEPT !.listening = FALSE, !.socket = "none"]
  OBVIOUS
<1>1. /\ t \in Sessions /\ SameStore(s, t) /\ t.calls = s.calls /\ t.rc = s.rc
      /\ t.nextTarget = s.nextTarget /\ t.awaitingResend = s.awaitingResend /\ t.socket = "none"
  BY <1>0 DEF Sessions, SameStore
<1>2. CASE s.socket = "none"
  <2>1. r = t
    BY <1>0, <1>2 DEF Close
  <2> QED BY <1>1, <1>2, <2>1 DEF Keeps
<1>3. CASE s.socket # "none"
  <2>1. r = OnDisconnected(c, t)
    BY <1>0, <1>3 DEF Close
  <2>2. /\ r \in Sessions /\ SameStore(t, r) /\ r.rc = t.rc
        /\ r.nextTarget = t.nextTarget /\ r.awaitingResend = FALSE /\ r.socket = t.socket
        /\ Silent(t.calls) => Silent(r.calls)
    BY <1>1, <2>1, OnDisconnectedLemma
  <2> QED BY <1>1, <2>2 DEF SameStore, Keeps
<1> QED BY <1>2, <1>3

LEMMA OnConnectedLemma ==
  ASSUME NEW c \in PlainConfigs, NEW s \in Sessions, NEW r, r = OnConnected(c, s)
  PROVE  r \in Sessions /\ Stays(s, r) /\ Emits(c, s, r, AdminKinds)
<1>1. CASE s.status # "Disconnected"
  BY <1>1 DEF OnConnected, Stays, Emits, SameStore
<1>2. CASE s.status = "Disconnected"
  <2> PICK t : t = [s EXCEPT !.status = "Connected"]
    OBVIOUS
  <2>1. "Connected" \in Statuses
    BY DEF Statuses
  <2>2. t \in Sessions /\ Stays(s, t) /\ SameStore(s, t)
    BY <2>1 DEF Sessions, Stays, SameStore
  <2>3. r = SendLogon(c, t)
    BY <1>2 DEF OnConnected
  <2>4. r \in Sessions /\ Stays(t, r) /\ Emits(c, t, r, AdminKinds)
    BY <2>2, <2>3, SendLogonLemma
  <2> QED BY <2>2, <2>4 DEF Stays, SameStore, Emits, Writes
<1> QED BY <1>1, <1>2

LEMMA OnTimerLemma ==
  ASSUME NEW c \in PlainConfigs, NEW s \in Sessions, s.rc = "ok", NEW due \in Deadlines,
         NEW r, r = OnTimer(c, s, due)
  PROVE  r \in Sessions /\ Stays(s, r) /\ Emits(c, s, r, AdminKinds)
<1>1. CASE r = s
  BY <1>1 DEF Stays, Emits, SameStore
<1>2. CASE r = ScheduleEnded(c, s)
  <2> PICK t : t = [s EXCEPT !.resetOnDisconnect = FALSE]
    OBVIOUS
  <2>1. t \in Sessions /\ Stays(s, t) /\ SameStore(s, t) /\ t.rc = "ok"
    BY DEF Sessions, Stays, SameStore
  <2>2. r = DoLogout(c, t)
    BY <1>2, PlainFacts DEF ScheduleEnded
  <2>3. r \in Sessions /\ Stays(t, r) /\ Emits(c, t, r, AdminKinds)
    BY <2>1, <2>2, DoLogoutLemma
  <2> QED BY <2>1, <2>3 DEF Stays, SameStore, Emits, Writes
<1>3. CASE r = TestTimeout(s)
  <2>1. "Disconnected" \in Statuses
    BY DEF Statuses
  <2> QED BY <1>3, <2>1 DEF TestTimeout, Sessions, Stays, Emits, SameStore
<1>4. CASE r = SendTestRequest(c, s)
  BY <1>4, SendTestRequestLemma
<1>5. CASE r = Send(c, s, HeartbeatMsg(NoId))
  <2>1. s.nextSender \in Numbers /\ NoId \in Nat
    BY DEF Sessions, NoId
  <2> QED BY <1>5, <2>1, FreshMessages, SendQuiet
<1> QED BY <1>1, <1>2, <1>3, <1>4, <1>5 DEF OnTimer, Deadlines

-----------------------------------------------------------------------------
(* The handlers of the messages two such sessions send each other.          *)
RCs == {"ok", "io", "session", "app", "invalid"}

LEMMA FailLemma ==
  ASSUME NEW s \in Sessions, NEW rc \in RCs, NEW r, r = Fail(s, rc)
  PROVE  r \in Sessions /\ Stays(s, r) /\ SameStore(s, r) /\ r.rc = rc
BY DEF Sessions, RCs, Fail, Stays, SameStore

(* A call changes nothing of what follows, so the ones around it compose.   *)
LEMMA EmitsAround ==
  ASSUME NEW c, NEW s, NEW t, NEW u, NEW r, NEW kinds,
         SameStore(s, t), Emits(c, t, u, kinds), SameStore(u, r)
  PROVE  Emits(c, s, r, kinds)
BY DEF SameStore, Emits, Writes

(* The answer to request m, whole and from the store.                       *)
Answers(c, s, r, m) ==
  \E out \in Seq(WrittenIn(Payloads)) :
    /\ out # <<>> /\ Chain(out, m.begin, m.end + 1)
    /\ c.store # "null" => HidesNone(Held(s.outgoing), out) /\ FromStore(Held(s.outgoing), out)
    /\ r.sent = s.sent \o [j \in DOMAIN out |-> OnWire(out[j])]
    /\ r.nextSender = s.nextSender /\ r.outgoing = s.outgoing

(* A request the session can answer.                                        *)
Answerable(s, m) ==
  /\ Ascending(s.outgoing)
  /\ Asks(m) => 1 =< m.begin /\ m.begin =< m.end /\ m.end < s.nextSender

(* Message m has been handled, before the session counts it.                *)
Handled(c, s, r, m) ==
  /\ r \in Sessions /\ r.rc = "ok"
  /\ Emits(c, s, r, AdminKinds) \/ (Asks(m) /\ Answers(c, s, r, m))
  /\ r.nextTarget = IF m.kind = "SequenceReset" THEN m.new ELSE s.nextTarget
  /\ m.kind = "SequenceReset" => s.nextTarget < m.new
  /\ IF m.kind = "App"
       THEN r.calls = Append(s.calls, [event |-> "fromApp", body |-> m.body])
       ELSE Silent(s.calls) => Silent(r.calls)
  /\ \/ r.awaitingResend = s.awaitingResend /\ r.socket = s.socket
     \/ r.awaitingResend = FALSE /\ r.socket = "none"

(* What every handler promises: message m is handled or nothing comes of it. *)
HandledOrQuiet(c, s, r, m) ==
  /\ r.rc = "ok" => Handled(c, s, r, m)
  /\ r.rc # "ok" => Quiet(c, s, r) /\ r.rc # "invalid"

(* A handler that only sends.                                               *)
LEMMA OnlySends ==
  ASSUME NEW c, NEW s \in Sessions, NEW m, m.kind \notin {"App", "SequenceReset"},
         NEW r \in Sessions, Stays(s, r), Emits(c, s, r, AdminKinds), r.rc \in {"ok", "io"}
  PROVE  HandledOrQuiet(c, s, r, m)
BY DEF HandledOrQuiet, Handled, Quiet, Keeps, Stays

LEMMA HandleLogonLemma ==
  ASSUME NEW c \in PlainConfigs, NEW s \in Sessions, s.rc = "ok",
         NEW m \in Messages, m.kind = "Logon", NEW r, r = HandleLogon(c, s, m)
  PROVE  HandledOrQuiet(c, s, r, m)
<1>1. m.reset = FALSE /\ m.acceptable = TRUE
  <2>1. m \in LogonMessages
    BY MessageKinds
  <2> QED BY <2>1 DEF LogonMessages
<1>2. CASE s.receivedLogon \/ LoggedOn(s)
  <2> PICK t : t = SendLogout(c, s)
    OBVIOUS
  <2>1. t \in Sessions /\ Stays(s, t) /\ Emits(c, s, t, AdminKinds) /\ t.rc \in {"ok", "io"}
    BY SendLogoutLemma
  <2>2. r = IF t.rc = "ok" THEN Fail(Close(c, t), "session") ELSE t
    BY <1>2 DEF HandleLogon, HandleDuplicateLogon, Ok
  <2>3. CASE t.rc # "ok"
    <3>1. r = t
      BY <2>2, <2>3
    <3> QED BY <2>1, <3>1, OnlySends
  <2>4. CASE t.rc = "ok"
    <3> PICK u : u = Close(c, t)
      OBVIOUS
    <3>1. u \in Sessions /\ SameStore(t, u) /\ Keeps(t, u) /\ u.socket = "none"
      BY <2>1, CloseLemma
    <3>2. r = Fail(u, "session")
      BY <2>2, <2>4
    <3>3. r \in Sessions /\ Stays(u, r) /\ SameStore(u, r) /\ r.rc = "session"
      BY <3>1, <3>2, FailLemma DEF RCs
    <3>4. SameStore(t, r) /\ SameStore(s, s)
      BY <3>1, <3>3 DEF SameStore
    <3>5. Emits(c, s, r, AdminKinds)
      BY <2>1, <3>4, EmitsAround
    <3>6. Keeps(s, r)
      BY <2>1, <3>1, <3>3 DEF Keeps, Stays
    <3> QED BY <3>3, <3>5, <3>6 DEF HandledOrQuiet, Quiet
  <2> QED BY <2>3, <2>4
<1>3. CASE ~(s.receivedLogon \/ LoggedOn(s))
  <2>0. PICK t : t = [s EXCEPT !.receivedLogon = TRUE]
    OBVIOUS
  <2>1. t \in Sessions /\ Stays(s, t) /\ SameStore(s, t) /\ t.rc = "ok"
    <3>1. t \in Sessions
      BY ZenonT(60), <2>0 DEF Sessions
    <3> QED BY <2>0, <3>1 DEF Sessions, Stays, SameStore
  <2>2. PICK u : u = IF t.sentLogon THEN t ELSE SendLogon(c, t)
    OBVIOUS
  <2>3. u \in Sessions /\ Stays(t, u) /\ Emits(c, t, u, AdminKinds) /\ u.rc \in {"ok", "io"}
    <3>1. CASE u = t
      BY <2>1, <3>1 DEF Stays, Emits, SameStore
    <3>2. CASE u = SendLogon(c, t)
      BY <2>1, <3>2, SendLogonLemma
    <3> QED BY <2>2, <3>1, <3>2
  <2>4. r = IF u.rc # "ok" THEN u ELSE Call([u EXCEPT !.status = "LoggedOn"], "onLogon", NoBody)
    BY <1>1, <1>3, <2>0, <2>2 DEF HandleLogon, Ok
  <2>5. SameStore(u, u) /\ Stays(s, u)
    BY <2>1, <2>3 DEF SameStore, Stays
  <2>6. Emits(c, s, u, AdminKinds)
    BY <2>1, <2>3, <2>5, EmitsAround
  <2>7. CASE u.rc # "ok"
    <3>1. r = u
      BY <2>4, <2>7
    <3> QED BY <2>3, <2>5, <2>6, <3>1, OnlySends
  <2>8. CASE u.rc = "ok"
    <3>0. PICK more : more = Append(u.calls, [event |-> "onLogon", body |-> NoBody])
      OBVIOUS
    <3>1. more \in Seq(Callbacks) /\ (Silent(u.calls) => Silent(more))
      <4>1. u.calls \in Seq(Callbacks)
        BY <2>3 DEF Sessions
      <4> QED BY <3>0, <4>1, CallSilent
    <3>2. r = [[u EXCEPT !.status = "LoggedOn"] EXCEPT !.calls = more]
      <4>1. [u EXCEPT !.status = "LoggedOn"].calls = u.calls
        BY <2>3 DEF Sessions
      <4> QED BY <2>4, <2>8, <3>0, <4>1 DEF Call
    <3>3. "LoggedOn" \in Statuses
      BY DEF Statuses
    <3>4. /\ r \in Sessions /\ SameStore(u, r) /\ r.rc = "ok"
          /\ r.nextTarget = u.nextTarget /\ r.awaitingResend = u.awaitingResend
          /\ r.socket = u.socket /\ r.calls = more
      BY <2>3, <2>8, <3>1, <3>2, <3>3 DEF Sessions, SameStore
    <3>5. Emits(c, s, r, AdminKinds)
      BY <2>1, <2>3, <3>4, EmitsAround
    <3> QED BY <2>5, <3>1, <3>4, <3>5 DEF HandledOrQuiet, Handled, Stays
  <2> QED BY <2>7, <2>8
<1> QED BY <1>2, <1>3

LEMMA HandleLogoutLemma ==
  ASSUME NEW c \in PlainConfigs, NEW s \in Sessions, s.rc = "ok",
         NEW m, m.kind = "Logout", NEW r, r = HandleLogout(c, s)
  PROVE  HandledOrQuiet(c, s, r, m)
<1>0. PICK t : t = [s EXCEPT !.receivedLogout = TRUE]
  OBVIOUS
<1>1. t \in Sessions /\ Stays(s, t) /\ SameStore(s, t) /\ t.rc = "ok"
  <2>1. t \in Sessions
    BY ZenonT(60), <1>0 DEF Sessions
  <2> QED BY <1>0, <2>1 DEF Sessions, Stays, SameStore
<1>2. PICK u : u = IF t.sentLogout THEN t ELSE SendLogout(c, t)
  OBVIOUS
<1>3. u \in Sessions /\ Stays(t, u) /\ Emits(c, t, u, AdminKinds) /\ u.rc \in {"ok", "io"}
  <2>1. CASE u = t
    BY <1>1, <2>1 DEF Stays, Emits, SameStore
  <2>2. CASE u = SendLogout(c, t)
    BY <1>1, <2>2, SendLogoutLemma
  <2> QED BY <1>2, <2>1, <2>2
<1>4. SameStore(u, u) /\ Stays(s, u)
  BY <1>1, <1>3 DEF SameStore, Stays
<1>5. Emits(c, s, u, AdminKinds)
  BY <1>1, <1>3, <1>4, EmitsAround
<1>6. PICK v : v = [u EXCEPT !.status = "Closing"]
  OBVIOUS
<1>7. r = IF u.rc # "ok" THEN u ELSE IF c.initiator THEN OnDisconnected(c, Close(c, v)) ELSE v
  BY <1>0, <1>2, <1>6 DEF HandleLogout, Ok
<1>8. v \in Sessions /\ Stays(u, v) /\ SameStore(u, v) /\ v.rc = u.rc
  <2>1. "Closing" \in Statuses
    BY DEF Statuses
  <2> QED BY <1>3, <1>6, <2>1 DEF Sessions, Stays, SameStore
<1>9. CASE u.rc # "ok"
  <2>1. r = u
    BY <1>7, <1>9
  <2> QED BY <1>3, <1>4, <1>5, <2>1, OnlySends
<1>10. CASE u.rc = "ok" /\ ~c.initiator
  <2>1. r = v
    BY <1>7, <1>10
  <2>2. Emits(c, s, v, AdminKinds)
    BY <1>1, <1>3, <1>8, EmitsAround
  <2>3. Stays(s, v) /\ v.rc = "ok"
    BY <1>4, <1>8, <1>10 DEF Stays
  <2> QED BY <1>8, <2>1, <2>2, <2>3, OnlySends
<1>11. CASE u.rc = "ok" /\ c.initiator
  <2> PICK x : x = Close(c, v)
    OBVIOUS
  <2>1. x \in Sessions /\ SameStore(v, x) /\ Keeps(v, x) /\ x.socket = "none" /\ x.rc = v.rc
    BY <1>8, CloseLemma
  <2>2. r = OnDisconnected(c, x)
    BY <1>7, <1>11
  <2>3. /\ r \in Sessions /\ SameStore(x, r) /\ r.rc = x.rc
        /\ r.nextTarget = x.nextTarget /\ r.awaitingResend = FALSE /\ r.socket = x.socket
        /\ Silent(x.calls) => Silent(r.calls)
    BY <2>1, <2>2, OnDisconnectedLemma
  <2>4. SameStore(u, r)
    BY <1>8, <2>1, <2>3 DEF SameStore
  <2>5. Emits(c, s, r, AdminKinds)
    BY <1>1, <1>3, <2>4, EmitsAround
  <2>6. Silent(s.calls) => Silent(r.calls)
    <3>1. Silent(v.calls) => Silent(x.calls)
      BY <1>8, CloseLemma
    <3> QED BY <1>4, <1>8, <2>3, <3>1 DEF Stays
  <2>7. r.nextTarget = s.nextTarget /\ r.rc = "ok" /\ r.socket = "none"
    BY <1>4, <1>8, <1>11, <2>1, <2>3 DEF Stays, Keeps
  <2> QED BY <2>3, <2>5, <2>6, <2>7 DEF HandledOrQuiet, Handled
<1> QED BY <1>9, <1>10, <1>11

LEMMA HandleHeartbeatLemma ==
  ASSUME NEW c, NEW s \in Sessions, s.rc = "ok",
         NEW m, m.kind = "Heartbeat", NEW r, r = HandleHeartbeat(s, m)
  PROVE  HandledOrQuiet(c, s, r, m)
<1>1. CASE r = s
  <2>1. Stays(s, r) /\ SameStore(s, r)
    BY <1>1 DEF Stays, SameStore
  <2> QED BY <1>1, <2>1, OnlySends DEF Emits
<1>2. CASE r = [s EXCEPT !.awaitingTest = FALSE]
  <2>1. r \in Sessions
    BY ZenonT(60), <1>2 DEF Sessions
  <2>2. Stays(s, r) /\ SameStore(s, r) /\ r.rc = "ok"
    BY <1>2 DEF Sessions, Stays, SameStore
  <2> QED BY <2>1, <2>2, OnlySends DEF Emits
<1> QED BY <1>1, <1>2 DEF HandleHeartbeat

LEMMA HandleTestRequestLemma ==
  ASSUME NEW c \in PlainConfigs, NEW s \in Sessions, s.rc = "ok",
         NEW m \in Messages, m.kind = "TestRequest", NEW r, r = HandleTestRequest(c, s, m)
  PROVE  HandledOrQuiet(c, s, r, m)
<1>1. CASE r = s
  <2>1. Stays(s, r) /\ SameStore(s, r)
    BY <1>1 DEF Stays, SameStore
  <2> QED BY <1>1, <2>1, OnlySends DEF Emits
<1>2. CASE r = Send(c, s, HeartbeatMsg(m.id))
  <2>1. m.id \in Nat
    <3>1. m \in ProbeMessages
      BY MessageKinds
    <3> QED BY <3>1 DEF ProbeMessages
  <2>2. s.nextSender \in Numbers
    BY DEF Sessions
  <2>3. /\ r \in Sessions /\ Stays(s, r) /\ Emits(c, s, r, AdminKinds)
        /\ r.rc \in {"ok", "io"}
    BY <1>2, <2>1, <2>2, FreshMessages, SendQuiet
  <2> QED BY <2>3, OnlySends
<1> QED BY <1>1, <1>2 DEF HandleTestRequest

LEMMA HandleResendRequestLemma ==
  ASSUME NEW c \in PlainConfigs, NEW s \in Sessions, s.rc = "ok",
         NEW m \in Messages, m.kind = "ResendRequest", Answerable(s, m),
         NEW r, r = HandleResendRequest(c, s, m)
  PROVE  HandledOrQuiet(c, s, r, m)
<1>1. m.begin \in Nat \ {0} /\ m.end \in Nat \ {0} /\ m.begin =< m.end /\ m.end < s.nextSender
  <2>1. m.begin \in Nat /\ m.end \in Nat /\ Asks(m)
    BY MessageFacts DEF Asks
  <2> QED BY <2>1 DEF Answerable
<1>2. s.outgoing \in Seq(StoredIn(Payloads)) /\ s.sent \in Seq(Messages) /\ s.nextSender \in Nat
  BY DEF Sessions, Numbers
<1>3. PICK out : out = Replay(c, s, m.begin, m.end)
  OBVIOUS
<1>4. /\ out \in Seq(WrittenIn(Payloads)) /\ out # <<>>
      /\ Chain(out, m.begin, m.end + 1)
      /\ c.store # "null" => HidesNone(Held(s.outgoing), out) /\ FromStore(Held(s.outgoing), out)
  BY <1>1, <1>2, <1>3, ReplayCovers DEF Answerable
<1>5. PICK d : d = [j \in DOMAIN out |-> OnWire(out[j])]
  OBVIOUS
<1>6. d \in Seq(Messages)
  BY <1>1, <1>2, <1>4, <1>5, ReplayOnWire
<1>7. r = IF ~Writable(s) THEN Fail(s, "io") ELSE [s EXCEPT !.sent = @ \o d]
  BY <1>1, <1>3, <1>4, <1>5 DEF HandleResendRequest
<1>8. CASE ~Writable(s)
  <2>1. r \in Sessions /\ Stays(s, r) /\ SameStore(s, r) /\ r.rc = "io"
    BY <1>7, <1>8, FailLemma DEF RCs
  <2> QED BY <2>1, OnlySends DEF Emits
<1>9. CASE Writable(s)
  <2>1. s.sent \o d \in Seq(Messages)
    BY <1>2, <1>6, ConcatFacts
  <2>2. /\ r \in Sessions /\ Stays(s, r) /\ r.rc = "ok"
        /\ r.nextSender = s.nextSender /\ r.outgoing = s.outgoing /\ r.sent = s.sent \o d
    BY <1>7, <1>9, <2>1 DEF Sessions, Stays
  <2>3. Answers(c, s, r, m)
    BY <1>4, <1>5, <2>2 DEF Answers
  <2> QED BY <2>2, <2>3 DEF HandledOrQuiet, Handled, Stays, Asks
<1> QED BY <1>8, <1>9

LEMMA HandleSequenceResetLemma ==
  ASSUME NEW c, NEW s \in Sessions, s.rc = "ok",
         NEW m \in Messages, m.kind = "SequenceReset", NEW r, r = HandleSequenceReset(s, m)
  PROVE  HandledOrQuiet(c, s, r, m)
<1>1. m.new \in Nat
  <2>1. m \in GapFills
    BY MessageKinds
  <2> QED BY <2>1 DEF GapFills
<1>2. CASE m.new =< s.nextTarget
  <2>1. r = Fail(s, "session")
    BY <1>2 DEF HandleSequenceReset
  <2>2. r \in Sessions /\ Stays(s, r) /\ SameStore(s, r) /\ r.rc = "session"
    BY <2>1, FailLemma DEF RCs
  <2> QED BY <2>2, StaysKeeps DEF HandledOrQuiet, Quiet, Emits
<1>3. CASE ~(m.new =< s.nextTarget)
  <2>1. r = [s EXCEPT !.nextTarget = m.new]
    BY <1>3 DEF HandleSequenceReset
  <2>2. s.nextTarget \in Nat /\ m.new \in Numbers /\ s.nextTarget < m.new
    BY <1>1, <1>3 DEF Sessions, Numbers
  <2>3. /\ r \in Sessions /\ SameStore(s, r) /\ r.rc = "ok" /\ r.nextTarget = m.new
        /\ r.awaitingResend = s.awaitingResend /\ r.socket = s.socket /\ r.calls = s.calls
    BY <2>1, <2>2 DEF Sessions, SameStore
  <2> QED BY <2>2, <2>3 DEF HandledOrQuiet, Handled, Emits
<1> QED BY <1>2, <1>3

LEMMA DeliverLemma ==
  ASSUME NEW c, NEW s \in Sessions, s.rc = "ok",
         NEW m \in Messages, m.kind = "App", NEW r, r = Deliver(s, m)
  PROVE  HandledOrQuiet(c, s, r, m)
<1>1. m.body \in Payloads
  <2>1. m \in AppMessages
    BY MessageKinds
  <2> QED BY <2>1 DEF AppMessages
<1>2. PICK more : more = Append(s.calls, [event |-> "fromApp", body |-> m.body])
  OBVIOUS
<1>3. more \in Seq(Callbacks)
  <2>1. [event |-> "fromApp", body |-> m.body] \in Callbacks
    BY <1>1 DEF Callbacks
  <2>2. s.calls \in Seq(Callbacks)
    BY DEF Sessions
  <2> QED BY <1>2, <2>1, <2>2, AppendProperties
<1>4. PICK t : t = [s EXCEPT !.calls = more]
  OBVIOUS
<1>5. /\ t \in Sessions /\ SameStore(s, t) /\ t.rc = "ok" /\ t.nextTarget = s.nextTarget
      /\ t.awaitingResend = s.awaitingResend /\ t.socket = s.socket /\ t.calls = more
  BY <1>3, <1>4 DEF Sessions, SameStore
<1>6. r = IF m.body \in Refused THEN Fail(t, "app") ELSE t
  BY <1>2, <1>4 DEF Deliver, Call
<1>7. CASE m.body \in Refused
  <2>1. r \in Sessions /\ Stays(t, r) /\ SameStore(t, r) /\ r.rc = "app"
    BY <1>5, <1>6, <1>7, FailLemma DEF RCs
  <2>2. Emits(c, s, r, AdminKinds)
    BY <1>5, <2>1 DEF SameStore, Emits
  <2>3. Keeps(s, r)
    BY <1>5, <1>7, <2>1 DEF Keeps, Stays
  <2> QED BY <2>1, <2>2, <2>3 DEF HandledOrQuiet, Quiet
<1>8. CASE m.body \notin Refused
  <2>1. r = t
    BY <1>6, <1>8
  <2> QED BY <1>2, <1>5, <2>1 DEF HandledOrQuiet, Handled, Emits
<1> QED BY <1>7, <1>8

LEMMA DispatchLemma ==
  ASSUME NEW c \in PlainConfigs, NEW s \in Sessions, s.rc = "ok",
         NEW m \in Messages, Answerable(s, m), NEW r, r = Dispatch(c, s, m)
  PROVE  HandledOrQuiet(c, s, r, m)
<1>1. CASE m.kind = "Logon"
  BY <1>1, HandleLogonLemma DEF Dispatch
<1>2. CASE m.kind = "Logout"
  BY <1>2, HandleLogoutLemma DEF Dispatch
<1>3. CASE m.kind = "Heartbeat"
  BY <1>3, HandleHeartbeatLemma DEF Dispatch
<1>4. CASE m.kind = "TestRequest"
  BY <1>4, HandleTestRequestLemma DEF Dispatch
<1>5. CASE m.kind = "ResendRequest"
  BY <1>5, HandleResendRequestLemma DEF Dispatch
<1>6. CASE m.kind = "SequenceReset"
  BY <1>6, HandleSequenceResetLemma DEF Dispatch
<1>7. CASE m.kind = "App"
  BY <1>7, DeliverLemma DEF Dispatch
<1>8. CASE m.kind = "Reject"
  <2>1. r = s
    BY <1>8 DEF Dispatch
  <2>2. Stays(s, r) /\ SameStore(s, r)
    BY <2>1 DEF Stays, SameStore
  <2> QED BY <1>8, <2>1, <2>2, OnlySends DEF Emits
<1> QED BY <1>1, <1>2, <1>3, <1>4, <1>5, <1>6, <1>7, <1>8, MessageKinds

-----------------------------------------------------------------------------
(* What reading a message comes to.                                         *)

(* The message had the expected number and was handled and counted.         *)
Takes(c, s, r, m) ==
  /\ r \in Sessions
  /\ m.seq = s.nextTarget /\ r.nextTarget = Beyond(m) /\ r.awaitingResend = FALSE
  /\ r.socket \in {s.socket, "none"}
  /\ Emits(c, s, r, AdminKinds) \/ (Asks(m) /\ Answers(c, s, r, m))
  /\ IF m.kind = "App"
       THEN r.calls = Append(s.calls, [event |-> "fromApp", body |-> m.body])
       ELSE Silent(s.calls) => Silent(r.calls)

(* The message is beyond a gap: the session waits, and may have asked.      *)
Finds(c, s, r, m) ==
  /\ r \in Sessions
  /\ s.nextTarget < m.seq /\ s.awaitingResend = FALSE /\ r.awaitingResend = TRUE
  /\ r.nextTarget = s.nextTarget /\ r.socket = s.socket /\ r.calls = s.calls
  /\ \/ SameStore(s, r)
     \/ \E q \in Fresh({"ResendRequest"}) :
          q.begin = s.nextTarget /\ q.end = m.seq /\ Writes(c, s, r, q)

LEMMA CountLemma ==
  ASSUME NEW c \in PlainConfigs, NEW s \in Sessions, NEW t, NEW m \in Messages,
         m.seq = s.nextTarget, Handled(c, s, t, m), NEW r, r = Count(c, t, m)
  PROVE  Takes(c, s, r, m)
<1>1. t \in Sessions /\ t.rc = "ok" /\ t.disk = "ok"
  BY DEF Handled, Sessions
<1>2. m.seq \in Nat \ {0} /\ Beyond(m) \in Nat
  BY MessageFacts
<1>3. PICK u : u = IF m.kind = "SequenceReset" THEN t ELSE [t EXCEPT !.nextTarget = @ + 1]
  OBVIOUS
<1>4. /\ u \in Sessions /\ SameStore(t, u) /\ u.rc = "ok" /\ u.calls = t.calls
      /\ u.awaitingResend = t.awaitingResend /\ u.socket = t.socket /\ u.status = t.status
      /\ u.nextTarget = Beyond(m)
  <2>1. CASE m.kind = "SequenceReset"
    BY <1>1, <1>3, <2>1 DEF SameStore, Handled, Beyond
  <2>2. CASE m.kind # "SequenceReset"
    <3>1. t.nextTarget = m.seq /\ t.nextTarget + 1 \in Numbers
      BY <1>2, <2>2 DEF Handled, Numbers
    <3> QED BY <1>1, <1>3, <2>2, <3>1 DEF SameStore, Sessions, Beyond
  <2> QED BY <2>1, <2>2
<1>5. m.seq < u.nextTarget
  <2>1. CASE m.kind = "SequenceReset"
    BY <1>4, <2>1 DEF Handled, Beyond
  <2>2. CASE m.kind # "SequenceReset"
    BY <1>2, <1>4, <2>2 DEF Beyond
  <2> QED BY <2>1, <2>2
<1>6. r = IF u.awaitingResend THEN EndResend(c, u) ELSE u
  <2>1. ~(t.status = "Disconnected" /\ (c.resetOnLogout \/ c.resetOnDisconnect \/ c.resetDaily))
    BY PlainFacts
  <2>2. ~DiskRefuses(c, t)
    BY <1>1 DEF DiskRefuses
  <2>3. r = IF u.awaitingResend /\ u.nextTarget > m.seq THEN EndResend(c, u) ELSE u
    BY <1>3, <2>1, <2>2 DEF Count
  <2>4. u.nextTarget > m.seq
    BY <1>2, <1>4, <1>5
  <2> QED BY <2>3, <2>4
<1>7. /\ r \in Sessions /\ SameStore(t, r) /\ r.calls = t.calls /\ r.socket = t.socket
      /\ r.awaitingResend = FALSE /\ r.nextTarget = Beyond(m)
  <2>1. CASE ~u.awaitingResend
    <3>1. u.awaitingResend = FALSE
      <4>1. u.awaitingResend \in BOOLEAN
        BY <1>4 DEF Sessions
      <4> QED BY Zenon, <2>1, <4>1
    <3>2. r = u
      BY <1>6, <2>1
    <3> QED BY <1>4, <3>1, <3>2
  <2>2. CASE u.awaitingResend
    <3>1. PICK v : v = [u EXCEPT !.awaitingResend = FALSE]
      OBVIOUS
    <3>2. v \in Sessions
      BY ZenonT(60), <1>4, <3>1 DEF Sessions
    <3>3. /\ SameStore(u, v) /\ v.calls = u.calls /\ v.socket = u.socket /\ v.status = u.status
          /\ v.awaitingResend = FALSE /\ v.nextTarget = u.nextTarget /\ v.rc = "ok"
      BY <1>4, <3>1 DEF Sessions, SameStore
    <3>4. r = v
      <4>1. r = IF u.status = "Closing" THEN SendLogout(c, v) ELSE v
        BY <1>6, <2>2, <3>1 DEF EndResend
      <4>2. v.status = "Closing" => SendLogout(c, v) = v
        BY <3>2, <3>3, SendLogoutLemma
      <4> QED BY <3>3, <4>1, <4>2
    <3> QED BY <1>4, <3>2, <3>3, <3>4 DEF SameStore
  <2> QED BY <2>1, <2>2
<1>8. r.socket \in {s.socket, "none"}
  BY <1>7 DEF Handled
<1>9. Emits(c, s, r, AdminKinds) \/ (Asks(m) /\ Answers(c, s, r, m))
  <2>1. CASE Emits(c, s, t, AdminKinds)
    BY <1>7, <2>1 DEF SameStore, Emits, Writes
  <2>2. CASE Asks(m) /\ Answers(c, s, t, m)
    BY <1>7, <2>2 DEF SameStore, Answers
  <2> QED BY <2>1, <2>2 DEF Handled
<1>10. IF m.kind = "App"
         THEN r.calls = Append(s.calls, [event |-> "fromApp", body |-> m.body])
         ELSE Silent(s.calls) => Silent(r.calls)
  BY <1>7 DEF Handled
<1> QED BY <1>7, <1>8, <1>9, <1>10 DEF Takes

LEMMA ProcessLemma ==
  ASSUME NEW c \in PlainConfigs, NEW s \in Sessions, s.rc = "ok", NEW m \in Messages,
         m.seq = s.nextTarget, Answerable(s, m), NEW r, r = Process(c, s, m)
  PROVE  Quiet(c, s, r) \/ Takes(c, s, r, m)
<1>1. PICK t : t = Dispatch(c, s, m)
  OBVIOUS
<1>2. HandledOrQuiet(c, s, t, m)
  BY <1>1, DispatchLemma
<1>3. CASE t.rc = "ok"
  <2>1. r = Count(c, t, m)
    BY <1>1, <1>3 DEF Process, Ok
  <2> QED BY <1>2, <1>3, <2>1, CountLemma DEF HandledOrQuiet
<1>4. CASE t.rc # "ok"
  <2>1. r = t
    BY <1>1, <1>2, <1>4 DEF Process, Ok, HandledOrQuiet
  <2> QED BY <1>2, <1>4, <2>1 DEF HandledOrQuiet
<1> QED BY <1>3, <1>4

LEMMA OnGapLemma ==
  ASSUME NEW c \in PlainConfigs, NEW s \in Sessions, NEW m \in Messages,
         s.nextTarget < m.seq, NEW r, r = OnGap(c, s, m)
  PROVE  Quiet(c, s, r) \/ Finds(c, s, r, m)
<1>1. s.nextTarget \in Numbers /\ s.nextSender \in Numbers /\ m.seq \in Nat \ {0}
  BY MessageFacts DEF Sessions
<1>2. CASE ~(c.enableResend /\ ~s.awaitingResend)
  <2>1. r = Fail(s, "session")
    BY <1>2 DEF OnGap
  <2>2. r \in Sessions /\ Stays(s, r) /\ SameStore(s, r)
    BY <2>1, FailLemma DEF RCs
  <2> QED BY <2>2, StaysKeeps DEF Quiet, Emits
<1>3. CASE c.enableResend /\ ~s.awaitingResend
  <2>0. s.awaitingResend = FALSE
    <3>1. s.awaitingResend \in BOOLEAN
      BY DEF Sessions
    <3> QED BY Zenon, <1>3, <3>1
  <2>1. PICK t : t = [s EXCEPT !.awaitingResend = TRUE]
    OBVIOUS
  <2>2. t \in Sessions
    BY ZenonT(60), <2>1 DEF Sessions
  <2>3. /\ SameStore(s, t) /\ t.nextTarget = s.nextTarget /\ t.awaitingResend = TRUE
        /\ t.socket = s.socket /\ t.calls = s.calls
    BY <2>1 DEF Sessions, SameStore
  <2>4. PICK msg : msg = ResendRequestMsg(s.nextTarget, m.seq)
    OBVIOUS
  <2>5. PICK q : q = [msg EXCEPT !.seq = s.nextSender]
    OBVIOUS
  <2>6. q = [kind |-> "ResendRequest", seq |-> s.nextSender, possDup |-> FALSE,
             begin |-> s.nextTarget, end |-> m.seq]
    BY <2>4, <2>5 DEF ResendRequestMsg
  <2>7. Carries(q, msg, t.nextSender)
    <3>1. q.seq = s.nextSender /\ t.nextSender = s.nextSender
      BY <2>3, <2>6 DEF SameStore
    <3> QED BY <2>5, <3>1 DEF Carries
  <2>8. /\ q \in Fresh({"ResendRequest"}) /\ q \in Messages
        /\ q.begin = s.nextTarget /\ q.end = m.seq
    <3>1. q \in ResendRequests
      BY <1>1, <2>6 DEF ResendRequests, Numbers
    <3>2. q.kind = "ResendRequest" /\ q.begin = s.nextTarget /\ q.end = m.seq
      BY <2>6
    <3>3. q \in Messages
      BY <3>1 DEF Messages
    <3>4. ~Replayed(q)
      BY <3>2, <3>3, MessageFacts DEF Asks
    <3> QED BY <3>2, <3>3, <3>4 DEF Fresh
  <2>9. PICK u : u = Send(c, t, msg)
    OBVIOUS
  <2>10. /\ u \in Sessions /\ Stays(t, u)
         /\ u.rc = "ok" => Writes(c, t, u, q)
         /\ u.rc # "ok" => SameStore(t, u)
    BY <2>2, <2>7, <2>8, <2>9, SendLemma
  <2>11. r = IF u.rc = "ok" THEN Fail(u, "session") ELSE u
    BY <1>3, <2>1, <2>4, <2>9 DEF OnGap, Ok
  <2>12. r \in Sessions /\ Stays(u, r) /\ SameStore(u, r)
    <3>1. CASE u.rc = "ok"
      BY <2>10, <2>11, <3>1, FailLemma DEF RCs
    <3>2. CASE u.rc # "ok"
      BY <2>10, <2>11, <3>2 DEF Stays, SameStore
    <3> QED BY <3>1, <3>2
  <2>13. SameStore(s, r) \/ Writes(c, s, r, q)
    BY <2>3, <2>10, <2>12 DEF SameStore, Writes
  <2>14. /\ r.nextTarget = s.nextTarget /\ r.socket = s.socket /\ r.calls = s.calls
         /\ r.awaitingResend = TRUE
    BY <2>3, <2>10, <2>12 DEF Stays
  <2> QED BY <2>0, <2>8, <2>12, <2>13, <2>14 DEF Finds
<1> QED BY <1>2, <1>3

(* Session::onReceive: the frame is dropped, opens a gap, or is taken.      *)
LEMMA OnReceiveLemma ==
  ASSUME NEW c \in PlainConfigs, NEW s \in Sessions, s.rc = "ok", NEW m \in Messages,
         m.possDup => s.nextTarget =< m.seq, Answerable(s, m),
         NEW r, r = OnReceive(c, s, m)
  PROVE  Quiet(c, s, r) \/ Finds(c, s, r, m) \/ Takes(c, s, r, m)
<1>1. s.nextTarget \in Nat /\ m.seq \in Nat
  BY MessageFacts DEF Sessions, Numbers
<1>2. CASE r = s
  <2>1. Stays(s, r) /\ SameStore(s, r)
    BY <1>2 DEF Stays, SameStore
  <2> QED BY <1>2, <2>1, StaysKeeps DEF Quiet, Emits
<1>3. CASE r = Fail(s, "session")
  <2>1. r \in Sessions /\ Stays(s, r) /\ SameStore(s, r)
    BY <1>3, FailLemma DEF RCs
  <2> QED BY <2>1, StaysKeeps DEF Quiet, Emits
<1>4. CASE r = OnGap(c, s, m) /\ s.nextTarget < m.seq
  BY <1>4, OnGapLemma
<1>5. CASE r = Process(c, s, m) /\ m.seq = s.nextTarget
  BY <1>5, ProcessLemma
<1>6. m.kind # "Flawed"
  BY MessageKinds
<1>7. ASSUME r = ReceiveFrame(c, s, m)
      PROVE  \/ r = Fail(s, "session")
             \/ r = OnGap(c, s, m) /\ s.nextTarget < m.seq
             \/ r = Process(c, s, m) /\ m.seq = s.nextTarget
  <2>1. CASE m.seq = s.nextTarget
    <3>1. Classify(m.seq, s.nextTarget, m.possDup) = "Expected"
      BY <1>1, <2>1 DEF Classify
    <3> QED BY <1>6, <1>7, <2>1, <3>1 DEF ReceiveFrame
  <2>2. CASE s.nextTarget < m.seq
    <3>1. Classify(m.seq, s.nextTarget, m.possDup) = "Gap"
      BY <1>1, <2>2 DEF Classify
    <3> QED BY <1>6, <1>7, <2>2, <3>1 DEF ReceiveFrame
  <2>3. CASE m.seq < s.nextTarget
    <3>1. ~m.possDup
      BY <1>1, <2>3
    <3>2. Classify(m.seq, s.nextTarget, m.possDup) = "InvalidOld"
      BY <1>1, <2>3, <3>1 DEF Classify
    <3> QED BY <1>6, <1>7, <3>2 DEF ReceiveFrame
  <2> QED BY <1>1, <2>1, <2>2, <2>3
<1> QED BY <1>2, <1>3, <1>4, <1>5, <1>7 DEF OnReceive

-----------------------------------------------------------------------------
(* One call, seen from the two directions it takes part in.                 *)

(* What a call writes in one step.                                          *)
LEMMA SentFacts ==
  ASSUME NEW c, NEW s, s.sent = <<>>, NEW r, NEW kinds, Emits(c, s, r, kinds)
  PROVE  /\ r.sent \in Seq(Messages)
         /\ "ResendRequest" \notin kinds => \A k \in 1..Len(r.sent) : ~Asks(r.sent[k])
<1>1. CASE SameStore(s, r)
  <2>1. r.sent = <<>> /\ <<>> \in Seq(Messages) /\ Len(<<>>) = 0
    BY <1>1 DEF SameStore
  <2> QED BY <2>1
<1>2. ASSUME NEW m \in Fresh(kinds), Writes(c, s, r, m)
      PROVE  /\ r.sent \in Seq(Messages)
             /\ "ResendRequest" \notin kinds => \A k \in 1..Len(r.sent) : ~Asks(r.sent[k])
  <2>1. m \in Messages /\ m.kind \in kinds
    BY DEF Fresh
  <2>2. r.sent = <<m>>
    BY <1>2 DEF Writes
  <2>3. r.sent \in Seq(Messages) /\ Len(r.sent) = 1 /\ r.sent[1] = m
    BY <2>1, <2>2
  <2> QED BY <2>1, <2>3 DEF Asks
<1> QED BY <1>1, <1>2 DEF Emits

(* The direction the caller sends in, when it answers nothing.              *)
LEMMA SenderEmits ==
  ASSUME NEW c, NEW s, s.sent = <<>>, s.nextSender \in Nat, NEW r, NEW kinds,
         Emits(c, s, r, kinds),
         NEW e \in Nat, NEW a, NEW w \in Seq(Messages), NEW o \in Seq(Messages), NEW up,
         Direction(e, a, s.nextSender, w, o, up)
  PROVE  /\ Direction(e, a, r.nextSender, w, o, up)
         /\ Direction(e, a, r.nextSender, w \o r.sent, o, up)
<1>1. CASE SameStore(s, r)
  <2>1. r.sent = <<>> /\ r.nextSender = s.nextSender
    BY <1>1 DEF SameStore
  <2>2. w \o <<>> = w
    BY ConcatEmptySeq
  <2> QED BY <2>1, <2>2
<1>2. ASSUME NEW m \in Fresh(kinds), Writes(c, s, r, m)
      PROVE  /\ Direction(e, a, r.nextSender, w, o, up)
             /\ Direction(e, a, r.nextSender, w \o r.sent, o, up)
  <2>1. m \in Messages /\ ~Replayed(m)
    BY DEF Fresh
  <2>2. r.sent = <<m>> /\ r.nextSender = s.nextSender + 1 /\ m.seq = s.nextSender
    BY <1>2 DEF Writes
  <2>3. w \o r.sent = Append(w, m)
    BY <2>1, <2>2, AppendFacts
  <2> QED BY <2>1, <2>2, <2>3, DirectionGrows, DirectionNew
<1> QED BY <1>1, <1>2 DEF Emits

(* The same when it answers the request it has just read.                   *)
LEMMA SenderAnswers ==
  ASSUME NEW c, NEW s, s.sent = <<>>, s.nextSender \in Nat, NEW r,
         NEW e \in Nat, NEW a, NEW w \in Seq(Messages), NEW o \in Seq(Messages), NEW up,
         Direction(e, a, s.nextSender, w, o, up),
         o # <<>>, Asks(Head(o)), Answers(c, s, r, Head(o))
  PROVE  /\ Direction(e, a, r.nextSender, w, Tail(o), up)
         /\ Direction(e, a, r.nextSender, w \o r.sent, Tail(o), up)
         /\ r.sent \in Seq(Messages) /\ \A k \in 1..Len(r.sent) : ~Asks(r.sent[k])
<1>1. /\ Head(o) \in Messages /\ Head(o) = o[1] /\ 1 \in 1..Len(o)
  BY TailFacts
<1>2. /\ Head(o).begin \in Nat \ {0} /\ Head(o).end \in Nat
      /\ Head(o).end < s.nextSender
  BY <1>1, MessageFacts DEF Direction, AsksBelow
<1>3. PICK out \in Seq(WrittenIn(Payloads)) :
        /\ out # <<>> /\ Chain(out, Head(o).begin, Head(o).end + 1)
        /\ r.sent = s.sent \o [j \in DOMAIN out |-> OnWire(out[j])]
        /\ r.nextSender = s.nextSender
  BY DEF Answers
<1>4. PICK d : d = [j \in DOMAIN out |-> OnWire(out[j])]
  OBVIOUS
<1>5. d \in Seq(Messages) /\ ReplayFrom(d, Head(o).begin, s.nextSender)
  BY <1>2, <1>3, <1>4, ReplayOnWire
<1>6. r.sent = d
  <2>1. <<>> \o d = d
    BY <1>5, ConcatEmptySeq
  <2> QED BY <1>3, <1>4, <2>1
<1>7. \A k \in 1..Len(d) : ~Asks(d[k])
  BY <1>5, WireFacts DEF ReplayFrom
<1> QED BY <1>3, <1>5, <1>6, <1>7, BackTail, DirectionReplay

(* The direction the caller receives in: nothing of it has changed,         *)
LEMMA ReceiverKeeps ==
  ASSUME NEW s, NEW r, Keeps(s, r), NEW n, NEW w, NEW o \in Seq(Messages),
         Direction(s.nextTarget, s.awaitingResend, n, w, o, s.socket # "none"),
         NEW d \in Seq(Messages), \A k \in 1..Len(d) : ~Asks(d[k]),
         NEW v, v = IF r.socket = "none" THEN <<>> ELSE w
  PROVE  /\ Direction(r.nextTarget, r.awaitingResend, n, v, o, r.socket # "none")
         /\ Direction(r.nextTarget, r.awaitingResend, n, v, o \o d, r.socket # "none")
<1>1. Direction(r.nextTarget, r.awaitingResend, n, v, o, r.socket # "none")
  <2>1. CASE r.awaitingResend = s.awaitingResend /\ r.socket = s.socket /\ r.socket # "none"
    BY <2>1 DEF Keeps
  <2>2. CASE r.awaitingResend = s.awaitingResend /\ r.socket = s.socket /\ r.socket = "none"
    BY <2>2, DirectionDown DEF Keeps
  <2>3. CASE r.awaitingResend = FALSE /\ r.socket = "none"
    <3>1. Direction(s.nextTarget, FALSE, n, v, o, FALSE)
      BY DirectionDown
    <3>2. (r.socket # "none") = FALSE /\ r.nextTarget = s.nextTarget
      BY <2>3 DEF Keeps
    <3> QED BY <2>3, <3>1, <3>2
  <2> QED BY <2>1, <2>2, <2>3 DEF Keeps
<1> QED BY <1>1, BackMore

(* the caller has taken the message,                                        *)
LEMMA ReceiverTakes ==
  ASSUME NEW c, NEW s, NEW r, s.nextTarget \in Nat, NEW n \in Nat, NEW w \in Seq(Messages),
         w # <<>>, Takes(c, s, r, Head(w)), NEW o \in Seq(Messages),
         Direction(s.nextTarget, s.awaitingResend, n, w, o, TRUE),
         NEW d \in Seq(Messages), \A k \in 1..Len(d) : ~Asks(d[k]),
         NEW v, v = IF r.socket = "none" THEN <<>> ELSE Tail(w)
  PROVE  /\ Direction(r.nextTarget, r.awaitingResend, n, v, o, r.socket # "none")
         /\ Direction(r.nextTarget, r.awaitingResend, n, v, o \o d, r.socket # "none")
<1>1. Direction(r.nextTarget, r.awaitingResend, n, Tail(w), o, TRUE)
  BY DirectionAccept DEF Takes
<1>2. Direction(r.nextTarget, r.awaitingResend, n, v, o, r.socket # "none")
  <2>1. CASE r.socket = "none"
    BY <1>1, <2>1, DirectionDown
  <2>2. CASE r.socket # "none"
    BY <1>1, <2>2
  <2> QED BY <2>1, <2>2
<1> QED BY <1>2, BackMore

(* or it has found a gap.                                                   *)
LEMMA ReceiverFinds ==
  ASSUME NEW c, NEW s, s.sent = <<>>, NEW r, s.nextTarget \in Nat \ {0}, NEW n \in Nat,
         NEW w \in Seq(Messages), w # <<>>, Finds(c, s, r, Head(w)), NEW o \in Seq(Messages),
         Direction(s.nextTarget, s.awaitingResend, n, w, o, TRUE)
  PROVE  /\ Direction(r.nextTarget, r.awaitingResend, n, Tail(w), o, TRUE)
         /\ Direction(r.nextTarget, r.awaitingResend, n, Tail(w), o \o r.sent, TRUE)
<1>1. Direction(s.nextTarget, FALSE, n, w, o, TRUE) /\ s.nextTarget < Head(w).seq
  BY DEF Finds
<1>2. /\ Direction(s.nextTarget, TRUE, n, Tail(w), o, TRUE)
      /\ \A m \in Messages :
           Asks(m) /\ m.begin = s.nextTarget /\ m.end = Head(w).seq
             => Direction(s.nextTarget, TRUE, n, Tail(w), Append(o, m), TRUE)
  BY <1>1, DirectionGap
<1>3. r.nextTarget = s.nextTarget /\ r.awaitingResend = TRUE
  BY DEF Finds
<1>4. Direction(s.nextTarget, TRUE, n, Tail(w), o \o r.sent, TRUE)
  <2>1. CASE SameStore(s, r)
    <3>1. r.sent = <<>> /\ o \o <<>> = o
      BY <2>1, ConcatEmptySeq DEF SameStore
    <3> QED BY <1>2, <3>1
  <2>2. ASSUME NEW q \in Fresh({"ResendRequest"}),
               q.begin = s.nextTarget, q.end = Head(w).seq, Writes(c, s, r, q)
        PROVE  Direction(s.nextTarget, TRUE, n, Tail(w), o \o r.sent, TRUE)
    <3>1. q \in Messages /\ Asks(q)
      BY DEF Fresh, Asks
    <3>2. r.sent = <<q>>
      BY <2>2 DEF Writes
    <3>3. o \o r.sent = Append(o, q)
      BY <3>1, <3>2, AppendFacts
    <3> QED BY <1>2, <2>2, <3>1, <3>3
  <2> QED BY <2>1, <2>2 DEF Finds
<1> QED BY <1>2, <1>3, <1>4

(* The store keeps ascending.                                               *)
StoreOk(s) ==
  /\ Ascending(s.outgoing)
  /\ \A j \in DOMAIN s.outgoing : s.outgoing[j].seq < s.nextSender

LEMMA StoreGrows ==
  ASSUME NEW c, NEW s \in Sessions, StoreOk(s), NEW r, NEW kinds, Emits(c, s, r, kinds)
  PROVE  StoreOk(r)
<1>1. CASE SameStore(s, r)
  BY <1>1 DEF StoreOk, SameStore
<1>2. ASSUME NEW m \in Fresh(kinds), Writes(c, s, r, m)
      PROVE  StoreOk(r)
  <2>1. m \in Messages
    BY DEF Fresh
  <2>2. PICK x : x = Kept(m)
    OBVIOUS
  <2>3. x \in StoredIn(Payloads) /\ x.seq = s.nextSender /\ s.nextSender \in Nat
    BY <1>2, <2>1, <2>2, KeptFacts DEF Writes, Sessions, Numbers
  <2>4. PICK o : o = s.outgoing
    OBVIOUS
  <2>5. /\ o \in Seq(StoredIn(Payloads)) /\ Len(o) \in Nat /\ DOMAIN o = 1..Len(o)
        /\ \A j \in 1..Len(o) : o[j].seq \in Nat /\ o[j].seq < s.nextSender
        /\ \A j, k \in 1..Len(o) : j < k => o[j].seq < o[k].seq
    <3>1. o \in Seq(StoredIn(Payloads)) /\ Len(o) \in Nat /\ DOMAIN o = 1..Len(o)
      BY <2>4, LenProperties DEF Sessions
    <3>2. \A j \in 1..Len(o) : o[j] \in StoredIn(Payloads)
      BY <3>1, ElementOfSeq
    <3>3. \A j \in 1..Len(o) : o[j].seq \in Nat
      BY <3>2 DEF StoredIn
    <3> QED BY <2>4, <3>1, <3>3 DEF StoreOk, Ascending
  <2>6. r.nextSender = s.nextSender + 1
    BY <1>2 DEF Writes
  <2>7. CASE r.outgoing = o
    BY <2>3, <2>5, <2>6, <2>7 DEF StoreOk, Ascending
  <2>8. CASE r.outgoing = Append(o, x)
    <3>1. PICK v : v = Append(o, x)
      OBVIOUS
    <3>2. /\ Len(v) = Len(o) + 1 /\ v[Len(o) + 1] = x /\ DOMAIN v = 1..Len(v)
          /\ \A j \in 1..Len(o) : v[j] = o[j]
      BY <2>3, <2>5, <3>1, AppendProperties, LenProperties
    <3>3. \A j \in 1..Len(v) : j \in 1..Len(o) \/ j = Len(o) + 1
      BY <2>5, <3>2
    <3>4. \A j \in 1..Len(v) : v[j].seq \in Nat /\ v[j].seq < r.nextSender
      BY <2>3, <2>5, <2>6, <3>2, <3>3
    <3>5. ASSUME NEW j \in 1..Len(v), NEW k \in 1..Len(v), j < k
          PROVE  v[j].seq < v[k].seq
      <4>1. j \in 1..Len(o)
        BY <2>5, <3>2, <3>5
      <4>2. CASE k \in 1..Len(o)
        BY <2>5, <3>2, <3>5, <4>1, <4>2
      <4>3. CASE k = Len(o) + 1
        BY <2>3, <2>5, <3>2, <4>1, <4>3
      <4> QED BY <3>3, <4>2, <4>3
    <3> QED BY <2>8, <3>1, <3>2, <3>4, <3>5 DEF StoreOk, Ascending
  <2> QED BY <1>2, <2>2, <2>4, <2>7, <2>8 DEF Writes
<1> QED BY <1>1, <1>2 DEF Emits

-----------------------------------------------------------------------------
(* The inductive invariant.                                                 *)
Idle(s) == s.rc = "ok" /\ s.sent = <<>> /\ s.calls = <<>>

Paired ==
  /\ \A p \in Peers : config[p] \in PlainConfigs
  /\ sess \in [Peers -> Sessions] /\ wire \in [Peers -> Seq(Messages)]
  /\ \A p \in Peers : Idle(sess[p]) /\ StoreOk(sess[p]) /\ DirectionTo(p)

LEMMA OtherFacts ==
  ASSUME NEW p \in Peers
  PROVE  /\ Other(p) \in Peers /\ Other(p) # p /\ Other(Other(p)) = p
         /\ \A q \in Peers : q = p \/ q = Other(p)
BY PeersAssumption DEF Peers, Other

LEMMA BeginFacts ==
  ASSUME NEW r \in Sessions, NEW s, s = Begin(r)
  PROVE  /\ s \in Sessions /\ Idle(s)
         /\ s.nextTarget = r.nextTarget /\ s.awaitingResend = r.awaitingResend
         /\ s.nextSender = r.nextSender /\ s.socket = r.socket /\ s.outgoing = r.outgoing
         /\ s.status = r.status /\ s.listening = r.listening
<1>1. <<>> \in Seq(Messages) /\ <<>> \in Seq(Callbacks)
  BY EmptySeq
<1> QED BY <1>1 DEF Begin, Sessions, Idle

(* A call of p keeps the invariant when it keeps both directions, whether   *)
(* what it writes arrives or not.                                          *)
LEMMA CallKeeps ==
  ASSUME Paired, UNCHANGED config, NEW p \in Peers, NEW q, q = Other(p),
         NEW r \in Sessions, StoreOk(r), r.sent \in Seq(Messages),
         NEW unread \in Seq(Messages), CallEnds(p, r, unread),
         NEW v, v = IF r.socket = "none" THEN <<>> ELSE unread,
         \A o \in {wire[p], wire[p] \o r.sent} :
           Direction(r.nextTarget, r.awaitingResend, sess[q].nextSender, v, o, r.socket # "none"),
         \A w \in {wire[p], wire[p] \o r.sent} :
           Direction(sess[q].nextTarget, sess[q].awaitingResend, r.nextSender, w, unread,
                     sess[q].socket # "none")
  PROVE  Paired'
<1>1. PICK s : s = Begin(r)
  OBVIOUS
<1>2. /\ s \in Sessions /\ Idle(s)
      /\ s.nextTarget = r.nextTarget /\ s.awaitingResend = r.awaitingResend
      /\ s.nextSender = r.nextSender /\ s.socket = r.socket /\ s.outgoing = r.outgoing
  BY <1>1, BeginFacts
<1>3. q \in Peers /\ q # p /\ Other(q) = p /\ \A x \in Peers : x = p \/ x = q
  BY OtherFacts
<1>4. PICK w : w = IF Reaches(p) THEN wire[p] \o r.sent ELSE wire[p]
  OBVIOUS
<1>5. /\ sess' = [sess EXCEPT ![p] = s]
      /\ wire' = [wire EXCEPT ![p] = w, ![q] = v]
  BY <1>1, <1>4 DEF CallEnds
<1>6. w \in Seq(Messages) /\ v \in Seq(Messages) /\ w \in {wire[p], wire[p] \o r.sent}
  <2>1. wire[p] \in Seq(Messages) /\ <<>> \in Seq(Messages)
    BY EmptySeq DEF Paired
  <2> QED BY <1>4, <2>1, ConcatFacts
<1>7. /\ sess' \in [Peers -> Sessions] /\ sess'[p] = s /\ sess'[q] = sess[q]
      /\ wire' \in [Peers -> Seq(Messages)] /\ wire'[p] = w /\ wire'[q] = v
  BY <1>2, <1>3, <1>5, <1>6 DEF Paired
<1>8. Idle(sess[q]) /\ StoreOk(sess[q])
  BY <1>3 DEF Paired
<1>9. StoreOk(s)
  BY <1>2 DEF StoreOk
<1>10. DirectionTo(p)'
  <2>1. Direction(s.nextTarget, s.awaitingResend, sess[q].nextSender, v, w, s.socket # "none")
    BY <1>2, <1>6
  <2> QED BY <1>7, <2>1 DEF DirectionTo
<1>11. DirectionTo(q)'
  <2>1. Direction(sess[q].nextTarget, sess[q].awaitingResend, r.nextSender, w, v,
                  sess[q].socket # "none")
    <3>1. Direction(sess[q].nextTarget, sess[q].awaitingResend, r.nextSender, w, unread,
                    sess[q].socket # "none")
      BY <1>6
    <3> QED BY <3>1, BackEmpty
  <2> QED BY <1>2, <1>3, <1>7, <2>1 DEF DirectionTo
<1>12. \A x \in Peers : Idle(sess'[x]) /\ StoreOk(sess'[x]) /\ DirectionTo(x)'
  BY <1>2, <1>3, <1>7, <1>8, <1>9, <1>10, <1>11
<1> QED BY <1>7, <1>12 DEF Paired

(* What the invariant says of the two sides of a call.                      *)
LEMMA Sides ==
  ASSUME Paired, NEW p \in Peers, NEW q, q = Other(p)
  PROVE  /\ q \in Peers /\ q # p
         /\ config[p] \in PlainConfigs
         /\ sess[p] \in Sessions /\ sess[q] \in Sessions
         /\ Idle(sess[p]) /\ StoreOk(sess[p])
         /\ sess[p].sent = <<>> /\ sess[p].rc = "ok" /\ sess[p].calls = <<>>
         /\ sess[p].nextTarget \in Numbers /\ sess[p].nextSender \in Numbers
         /\ sess[q].nextTarget \in Numbers /\ sess[q].nextSender \in Numbers
         /\ wire[p] \in Seq(Messages) /\ wire[q] \in Seq(Messages)
         /\ Direction(sess[p].nextTarget, sess[p].awaitingResend, sess[q].nextSender,
                      wire[q], wire[p], sess[p].socket # "none")
         /\ Direction(sess[q].nextTarget, sess[q].awaitingResend, sess[p].nextSender,
                      wire[p], wire[q], sess[q].socket # "none")
<1>1. q \in Peers /\ q # p /\ Other(q) = p
  BY OtherFacts
<1>2. /\ sess[p] \in Sessions /\ sess[q] \in Sessions
      /\ Idle(sess[p]) /\ StoreOk(sess[p]) /\ config[p] \in PlainConfigs
      /\ DirectionTo(p) /\ DirectionTo(q)
      /\ wire[p] \in Seq(Messages) /\ wire[q] \in Seq(Messages)
  BY <1>1 DEF Paired
<1>3. /\ sess[p].nextTarget \in Numbers /\ sess[p].nextSender \in Numbers
      /\ sess[q].nextTarget \in Numbers /\ sess[q].nextSender \in Numbers
  BY <1>2 DEF Sessions
<1> QED BY <1>1, <1>2, <1>3 DEF Idle, DirectionTo

(* A call that reads nothing.                                               *)
LEMMA UnreadKeeps ==
  ASSUME Paired, UNCHANGED config, NEW p \in Peers, NEW r \in Sessions,
         Keeps(sess[p], r), NEW kinds, "ResendRequest" \notin kinds,
         Emits(config[p], sess[p], r, kinds), Calls(p, r)
  PROVE  Paired'
<1>1. PICK q : q = Other(p)
  OBVIOUS
<1>2. PICK s : s = sess[p]
  OBVIOUS
<1>3. PICK v : v = IF r.socket = "none" THEN <<>> ELSE wire[q]
  OBVIOUS
<1>4. r.sent \in Seq(Messages) /\ \A k \in 1..Len(r.sent) : ~Asks(r.sent[k])
  BY <1>1, Sides, SentFacts
<1>5. StoreOk(r)
  BY <1>1, Sides, StoreGrows
<1>6. /\ Direction(r.nextTarget, r.awaitingResend, sess[q].nextSender, v, wire[p],
                   r.socket # "none")
      /\ Direction(r.nextTarget, r.awaitingResend, sess[q].nextSender, v, wire[p] \o r.sent,
                   r.socket # "none")
  BY <1>1, <1>3, <1>4, Sides, ReceiverKeeps
<1>7. /\ Direction(sess[q].nextTarget, sess[q].awaitingResend, r.nextSender, wire[p], wire[q],
                   sess[q].socket # "none")
      /\ Direction(sess[q].nextTarget, sess[q].awaitingResend, r.nextSender,
                   wire[p] \o r.sent, wire[q], sess[q].socket # "none")
  <2>1. sess[p].nextSender \in Nat /\ sess[q].nextTarget \in Nat
    BY <1>1, Sides DEF Numbers
  <2>2. /\ wire[p] \in Seq(Messages) /\ wire[q] \in Seq(Messages) /\ sess[p].sent = <<>>
        /\ Direction(sess[q].nextTarget, sess[q].awaitingResend, sess[p].nextSender,
                     wire[p], wire[q], sess[q].socket # "none")
    BY <1>1, Sides
  <2> QED BY <2>1, <2>2, SenderEmits
<1>8. wire[q] \in Seq(Messages) /\ CallEnds(p, r, wire[q])
  BY <1>1, Sides DEF Calls
<1> QED BY <1>1, <1>3, <1>4, <1>5, <1>6, <1>7, <1>8, CallKeeps

-----------------------------------------------------------------------------
(* The actions.                                                             *)

LEMMA ConnectedKeeps ==
  ASSUME Paired, NEW p \in Peers, Connected(p)
  PROVE  Paired'
<1>1. PICK r : r = OnConnected(config[p], sess[p])
  OBVIOUS
<1>2. config[p] \in PlainConfigs /\ sess[p] \in Sessions
  BY DEF Paired
<1>3. r \in Sessions /\ Stays(sess[p], r) /\ Emits(config[p], sess[p], r, AdminKinds)
  BY <1>1, <1>2, OnConnectedLemma
<1>4. Calls(p, r) /\ UNCHANGED config
  BY <1>1 DEF Connected
<1> QED BY <1>3, <1>4, StaysKeeps, UnreadKeeps DEF AdminKinds

LEMMA TimerKeeps ==
  ASSUME Paired, NEW p \in Peers, NEW due \in Deadlines, Timer(p, due)
  PROVE  Paired'
<1>1. PICK r : r = OnTimer(config[p], sess[p], due)
  OBVIOUS
<1>2. config[p] \in PlainConfigs /\ sess[p] \in Sessions /\ sess[p].rc = "ok"
  BY DEF Paired, Idle
<1>3. r \in Sessions /\ Stays(sess[p], r) /\ Emits(config[p], sess[p], r, AdminKinds)
  BY <1>1, <1>2, OnTimerLemma
<1>4. Calls(p, r) /\ UNCHANGED config
  BY <1>1 DEF Timer
<1> QED BY <1>3, <1>4, StaysKeeps, UnreadKeeps DEF AdminKinds

LEMMA TimerCloseKeeps ==
  ASSUME Paired, NEW p \in Peers, TimerClose(p)
  PROVE  Paired'
<1>1. PICK r : r = Close(config[p], sess[p])
  OBVIOUS
<1>2. config[p] \in PlainConfigs /\ sess[p] \in Sessions
  BY DEF Paired
<1>3. r \in Sessions /\ SameStore(sess[p], r) /\ Keeps(sess[p], r)
  BY <1>1, <1>2, CloseLemma
<1>4. Calls(p, r) /\ UNCHANGED config
  BY <1>1 DEF TimerClose
<1>5. Emits(config[p], sess[p], r, AdminKinds)
  BY <1>3 DEF Emits
<1> QED BY <1>3, <1>4, <1>5, UnreadKeeps DEF AdminKinds

LEMMA LogoutKeeps ==
  ASSUME Paired, NEW p \in Peers, Logout(p)
  PROVE  Paired'
<1>1. PICK r : r = DoLogout(config[p], sess[p])
  OBVIOUS
<1>2. config[p] \in PlainConfigs /\ sess[p] \in Sessions /\ sess[p].rc = "ok"
  BY DEF Paired, Idle
<1>3. r \in Sessions /\ Stays(sess[p], r) /\ Emits(config[p], sess[p], r, AdminKinds)
  BY <1>1, <1>2, DoLogoutLemma
<1>4. Calls(p, r) /\ UNCHANGED config
  BY <1>1 DEF Logout
<1> QED BY <1>3, <1>4, StaysKeeps, UnreadKeeps DEF AdminKinds

(* The application's message, with its number.                              *)
LEMMA FreshApp ==
  ASSUME NEW body \in Bodies, NEW n \in Numbers
  PROVE  \E m \in Fresh({"App"}) : Carries(m, AppMsg(body), n) /\ m.body = body
<1>1. PICK msg : msg = AppMsg(body)
  OBVIOUS
<1>2. PICK m : m = [msg EXCEPT !.seq = n]
  OBVIOUS
<1>3. m = [kind |-> "App", seq |-> n, possDup |-> FALSE, body |-> body]
  BY <1>1, <1>2 DEF AppMsg
<1>4. m \in AppMessages /\ m.kind = "App" /\ m.seq = n /\ m.body = body
  BY <1>3 DEF AppMessages, Payloads
<1>5. ~Replayed(m)
  BY <1>3 DEF Replayed
<1>6. m \in Fresh({"App"})
  BY <1>4, <1>5 DEF Fresh, Messages
<1> QED BY <1>1, <1>2, <1>4, <1>6 DEF Carries

LEMMA AppSendKeeps ==
  ASSUME Paired, NEW p \in Peers, AppSend(p)
  PROVE  Paired'
<1>1. PICK body \in Bodies : body = Len(submitted[p]) + 1
  BY DEF AppSend
<1>2. PICK r : r = Send(config[p], sess[p], AppMsg(body))
  OBVIOUS
<1>3. config[p] \in PlainConfigs /\ sess[p] \in Sessions
  BY DEF Paired
<1>4. sess[p].nextSender \in Numbers
  BY <1>3 DEF Sessions
<1>5. PICK m \in Fresh({"App"}) : Carries(m, AppMsg(body), sess[p].nextSender)
  BY <1>4, FreshApp
<1>6. m \in Messages
  BY DEF Fresh
<1>7. /\ r \in Sessions /\ Stays(sess[p], r) /\ r.rc \in {"ok", "io"}
      /\ r.rc = "ok" => Writes(config[p], sess[p], r, m)
      /\ r.rc # "ok" => SameStore(sess[p], r)
  BY <1>2, <1>3, <1>5, <1>6, SendLemma
<1>8. Emits(config[p], sess[p], r, {"App"})
  BY <1>7 DEF Emits
<1>9. Calls(p, r) /\ UNCHANGED config
  BY <1>1, <1>2 DEF AppSend
<1> QED BY <1>7, <1>8, <1>9, StaysKeeps, UnreadKeeps

LEMMA ConnectionLostKeeps ==
  ASSUME Paired, NEW p \in Peers, ConnectionLost(p)
  PROVE  Paired'
<1>1. PICK s : s = sess[p]
  OBVIOUS
<1>2. PICK t : t = [s EXCEPT !.socket = "none"]
  OBVIOUS
<1>3. PICK r : r = OnDisconnected(config[p], t)
  OBVIOUS
<1>4. config[p] \in PlainConfigs /\ s \in Sessions
  BY <1>1 DEF Paired
<1>5. /\ t \in Sessions /\ SameStore(s, t) /\ t.calls = s.calls
      /\ t.nextTarget = s.nextTarget /\ t.socket = "none"
  BY <1>2, <1>4 DEF Sessions, SameStore
<1>6. /\ r \in Sessions /\ SameStore(t, r)
      /\ r.nextTarget = t.nextTarget /\ r.awaitingResend = FALSE /\ r.socket = t.socket
      /\ Silent(t.calls) => Silent(r.calls)
  BY <1>3, <1>4, <1>5, OnDisconnectedLemma
<1>7. Keeps(s, r)
  BY <1>5, <1>6 DEF Keeps
<1>8. Emits(config[p], s, r, AdminKinds)
  BY <1>5, <1>6 DEF Emits, SameStore
<1>9. Calls(p, r) /\ UNCHANGED config
  BY <1>1, <1>2, <1>3 DEF ConnectionLost
<1> QED BY <1>1, <1>6, <1>7, <1>8, <1>9, UnreadKeeps DEF AdminKinds

LEMMA ConnectKeeps ==
  ASSUME Paired, Connect
  PROVE  Paired'
<1>1. /\ sess' = [p \in Peers |-> [sess[p] EXCEPT !.socket = "open"]]
      /\ wire' = [p \in Peers |-> <<>>] /\ config' = config
  BY DEF Connect
<1>2. ASSUME NEW p \in Peers
      PROVE  /\ sess'[p] \in Sessions /\ Idle(sess'[p]) /\ StoreOk(sess'[p])
             /\ sess'[p].nextTarget = sess[p].nextTarget
             /\ sess'[p].nextSender = sess[p].nextSender
             /\ sess'[p].awaitingResend = sess[p].awaitingResend
             /\ sess'[p].socket = "open" /\ wire'[p] = <<>>
  <2>1. PICK s : s = sess[p]
    OBVIOUS
  <2>2. s \in Sessions /\ Idle(s) /\ StoreOk(s)
    BY <2>1 DEF Paired
  <2>3. PICK t : t = [s EXCEPT !.socket = "open"]
    OBVIOUS
  <2>4. sess'[p] = t /\ wire'[p] = <<>>
    BY <1>1, <2>1, <2>3
  <2>5. /\ t \in Sessions /\ t.rc = s.rc /\ t.sent = s.sent /\ t.calls = s.calls
        /\ t.outgoing = s.outgoing /\ t.nextTarget = s.nextTarget
        /\ t.nextSender = s.nextSender /\ t.awaitingResend = s.awaitingResend
        /\ t.socket = "open"
    BY <2>2, <2>3 DEF Sessions
  <2>6. Idle(t) /\ StoreOk(t)
    BY <2>2, <2>5 DEF Idle, StoreOk
  <2> QED BY <2>1, <2>4, <2>5, <2>6
<1>3. sess' \in [Peers -> Sessions] /\ wire' \in [Peers -> Seq(Messages)]
  <2>1. <<>> \in Seq(Messages)
    BY EmptySeq
  <2>2. sess' = [p \in Peers |-> sess'[p]]
    BY <1>1
  <2> QED BY <1>1, <1>2, <2>1, <2>2
<1>4. ASSUME NEW p \in Peers PROVE DirectionTo(p)'
  <2>1. PICK q \in Peers : q = Other(p)
    BY OtherFacts
  <2>2. Direction(sess[p].nextTarget, sess[p].awaitingResend, sess[q].nextSender,
                  wire[q], wire[p], sess[p].socket # "none")
    BY <2>1 DEF Paired, DirectionTo
  <2>3. Direction(sess[p].nextTarget, sess[p].awaitingResend, sess[q].nextSender,
                  <<>>, <<>>, TRUE)
    BY <2>2, DirectionMade
  <2>4. Direction(sess'[p].nextTarget, sess'[p].awaitingResend, sess'[q].nextSender,
                  wire'[q], wire'[p], sess'[p].socket # "none")
    BY <1>2, <2>3
  <2> QED BY <2>1, <2>4 DEF DirectionTo
<1>5. \A p \in Peers : config'[p] \in PlainConfigs
  BY <1>1 DEF Paired
<1>6. \A p \in Peers : Idle(sess[p])' /\ StoreOk(sess[p])' /\ DirectionTo(p)'
  BY <1>2, <1>4 DEF Idle, StoreOk
<1> QED BY <1>3, <1>5, <1>6 DEF Paired

(* What a cut leaves of a wire is a prefix of it.                            *)
LEMMA CutShortens ==
  ASSUME wire \in [Peers -> Seq(Messages)], Cut
  PROVE  \A p \in Peers :
           /\ wire'[p] \in Seq(Messages) /\ wire[p] \in Seq(Messages)
           /\ Agree(wire'[p], wire[p], Len(wire'[p]))
<1>1. PICK n \in [Peers -> Nat] :
        /\ \A p \in Peers : n[p] \in 0..Len(wire[p])
        /\ wire' = [p \in Peers |-> SubSeq(wire[p], 1, n[p])]
  <2>1. PICK i \in 0..Len(wire[I]), a \in 0..Len(wire[A]) :
          wire' = [p \in Peers |-> SubSeq(wire[p], 1, IF p = I THEN i ELSE a)]
    BY DEF Cut
  <2>2. PICK n : n = [p \in Peers |-> IF p = I THEN i ELSE a]
    OBVIOUS
  <2>3. Len(wire[I]) \in Nat /\ Len(wire[A]) \in Nat
    <3>1. wire[I] \in Seq(Messages) /\ wire[A] \in Seq(Messages)
      BY DEF Peers
    <3> QED BY <3>1, LenProperties
  <2>4. n \in [Peers -> Nat]
    BY <2>2, <2>3
  <2>5. \A p \in Peers : n[p] \in 0..Len(wire[p])
    BY <2>2, <2>3 DEF Peers
  <2>6. wire' = [p \in Peers |-> SubSeq(wire[p], 1, n[p])]
    BY <2>1, <2>2
  <2> QED BY <2>4, <2>5, <2>6
<1>2. ASSUME NEW p \in Peers
      PROVE  /\ wire'[p] \in Seq(Messages) /\ wire[p] \in Seq(Messages)
             /\ Agree(wire'[p], wire[p], Len(wire'[p]))
  <2>1. PICK w : w = wire[p]
    OBVIOUS
  <2>2. PICK k : k = n[p]
    OBVIOUS
  <2>3. w \in Seq(Messages) /\ k \in 0..Len(w) /\ wire'[p] = SubSeq(w, 1, k)
    BY <1>1, <2>1, <2>2
  <2>4. PICK v : v = SubSeq(w, 1, k)
    OBVIOUS
  <2>5. Len(w) \in Nat /\ DOMAIN w = 1..Len(w)
    BY <2>3, LenProperties
  <2>6. \A j \in 1..k : w[j] \in Messages
    BY <2>3, <2>5, ElementOfSeq
  <2>7. v \in Seq(Messages) /\ Len(v) = k /\ \A j \in 1..k : v[j] = w[j]
    <3>1. CASE k = 0
      <4>1. v = <<>>
        BY <2>4, <2>5, <3>1, SubSeqEmpty
      <4>2. <<>> \in Seq(Messages) /\ Len(<<>>) = 0
        BY EmptySeq
      <4> QED BY <3>1, <4>1, <4>2
    <3>2. CASE k # 0
      <4>1. 1 \in 1..Len(w) + 1 /\ k \in 0..Len(w)
        BY <2>3, <2>5
      <4>2. v \in Seq(Messages) /\ Len(v) = k /\ \A j \in 1..k : v[j] = w[j]
        BY <2>3, <2>4, <2>5, <3>2, SubSeqProperties
      <4> QED BY <4>2
    <3> QED BY <3>1, <3>2
  <2>8. Len(v) =< Len(w) /\ v = wire'[p]
    BY <2>3, <2>4, <2>5, <2>7
  <2> QED BY <2>1, <2>3, <2>7, <2>8 DEF Agree
<1> QED BY <1>2

LEMMA CutKeeps ==
  ASSUME Paired, Cut
  PROVE  Paired'
<1>1. wire' = [p \in Peers |-> wire'[p]]
  BY DEF Cut
<1>2. PICK failing \in SUBSET Peers :
        sess' = [p \in Peers |->
                   IF p \in failing /\ sess[p].socket = "open"
                     THEN [sess[p] EXCEPT !.socket = "failing"] ELSE sess[p]]
  BY DEF Cut
<1>3. config' = config
  BY DEF Cut
<1>4. \A p \in Peers : /\ wire'[p] \in Seq(Messages) /\ wire[p] \in Seq(Messages)
                      /\ Agree(wire'[p], wire[p], Len(wire'[p]))
  BY CutShortens DEF Paired
<1>5. ASSUME NEW p \in Peers
      PROVE  /\ sess'[p] \in Sessions /\ Idle(sess'[p]) /\ StoreOk(sess'[p])
             /\ sess'[p].nextTarget = sess[p].nextTarget
             /\ sess'[p].nextSender = sess[p].nextSender
             /\ sess'[p].awaitingResend = sess[p].awaitingResend
             /\ (sess'[p].socket # "none") = (sess[p].socket # "none")
  <2>1. PICK s : s = sess[p]
    OBVIOUS
  <2>2. s \in Sessions /\ Idle(s) /\ StoreOk(s)
    BY <2>1 DEF Paired
  <2>3. CASE sess'[p] = s
    BY <2>1, <2>2, <2>3
  <2>4. CASE s.socket = "open" /\ sess'[p] = [s EXCEPT !.socket = "failing"]
    <3>1. PICK t : t = [s EXCEPT !.socket = "failing"]
      OBVIOUS
    <3>2. /\ t \in Sessions /\ t.rc = s.rc /\ t.sent = s.sent /\ t.calls = s.calls
          /\ t.outgoing = s.outgoing /\ t.nextTarget = s.nextTarget
          /\ t.nextSender = s.nextSender /\ t.awaitingResend = s.awaitingResend
          /\ t.socket = "failing"
      BY <2>2, <3>1 DEF Sessions
    <3>3. Idle(t) /\ StoreOk(t)
      BY <2>2, <3>2 DEF Idle, StoreOk
    <3> QED BY <2>1, <2>4, <3>1, <3>2, <3>3
  <2>5. sess'[p] = s \/ (s.socket = "open" /\ sess'[p] = [s EXCEPT !.socket = "failing"])
    BY <1>2, <2>1
  <2> QED BY <2>3, <2>4, <2>5
<1>6. sess' \in [Peers -> Sessions] /\ wire' \in [Peers -> Seq(Messages)]
  <2>1. sess' = [p \in Peers |-> sess'[p]]
    BY <1>2
  <2>2. wire' = [p \in Peers |-> wire'[p]]
    BY <1>1
  <2> QED BY <1>4, <1>5, <2>1, <2>2
<1>7. ASSUME NEW p \in Peers PROVE DirectionTo(p)'
  <2>1. PICK q \in Peers : q = Other(p)
    BY OtherFacts
  <2>2. PICK e, a, k, u : e = sess[p].nextTarget /\ a = sess[p].awaitingResend
                          /\ k = sess[q].nextSender /\ u = (sess[p].socket # "none")
    OBVIOUS
  <2>3. Direction(e, a, k, wire[q], wire[p], u) /\ e \in Nat /\ k \in Nat
    BY <2>1, <2>2 DEF Paired, DirectionTo, Sessions, Numbers
  <2>4. Direction(e, a, k, wire'[q], wire[p], u)
    BY <1>4, <2>3, DirectionPrefix
  <2>5. Direction(e, a, k, wire'[q], wire'[p], u)
    BY <1>4, <2>4, BackPrefix
  <2>6. Direction(sess'[p].nextTarget, sess'[p].awaitingResend, sess'[q].nextSender,
                  wire'[q], wire'[p], sess'[p].socket # "none")
    BY <1>5, <2>2, <2>5
  <2> QED BY <2>1, <2>6 DEF DirectionTo
<1>8. \A p \in Peers : config'[p] \in PlainConfigs
  BY <1>3 DEF Paired
<1>9. \A p \in Peers : Idle(sess[p])' /\ StoreOk(sess[p])' /\ DirectionTo(p)'
  BY <1>5, <1>7 DEF Idle, StoreOk
<1> QED BY <1>6, <1>8, <1>9 DEF Paired

LEMMA EarlyReadKeeps ==
  ASSUME Paired, EarlyRead
  PROVE  Paired'
<1>1. /\ I \in Peers /\ A \in Peers /\ I # A /\ Other(A) = I /\ Other(I) = A
      /\ \A p \in Peers : p = I \/ p = A
  BY PeersAssumption DEF Peers, Other
<1>2. wire[I] # <<>> /\ wire' = [wire EXCEPT ![I] = Tail(@)] /\ sess' = sess /\ config' = config
  BY DEF EarlyRead
<1>3. /\ wire[I] \in Seq(Messages) /\ wire[A] \in Seq(Messages)
      /\ wire \in [Peers -> Seq(Messages)] /\ sess \in [Peers -> Sessions]
  BY <1>1 DEF Paired
<1>4. Tail(wire[I]) \in Seq(Messages)
  BY <1>2, <1>3, TailFacts
<1>5. /\ wire' \in [Peers -> Seq(Messages)] /\ wire'[I] = Tail(wire[I]) /\ wire'[A] = wire[A]
  BY <1>1, <1>2, <1>3, <1>4
<1>6. DirectionTo(A)'
  <2>1. PICK e, a, n, up : e = sess[A].nextTarget /\ a = sess[A].awaitingResend
                           /\ n = sess[I].nextSender /\ up = (sess[A].socket # "none")
    OBVIOUS
  <2>2. Direction(e, a, n, wire[I], wire[A], up) /\ e \in Nat /\ n \in Nat
    BY <1>1, <2>1 DEF Paired, DirectionTo, Sessions, Numbers
  <2>3. Direction(e, a, n, Tail(wire[I]), wire[A], up)
    BY <1>2, <1>3, <2>2, DirectionTail
  <2> QED BY <1>1, <1>2, <1>5, <2>1, <2>3 DEF DirectionTo
<1>7. DirectionTo(I)'
  <2>1. PICK e, a, n, up : e = sess[I].nextTarget /\ a = sess[I].awaitingResend
                           /\ n = sess[A].nextSender /\ up = (sess[I].socket # "none")
    OBVIOUS
  <2>2. Direction(e, a, n, wire[A], wire[I], up)
    BY <1>1, <2>1 DEF Paired, DirectionTo
  <2>3. Direction(e, a, n, wire[A], Tail(wire[I]), up)
    BY <1>2, <1>3, <2>2, BackTail
  <2> QED BY <1>1, <1>2, <1>5, <2>1, <2>3 DEF DirectionTo
<1>8. \A p \in Peers : config'[p] \in PlainConfigs /\ Idle(sess'[p]) /\ StoreOk(sess'[p])
  BY <1>2 DEF Paired
<1>9. \A p \in Peers : Idle(sess[p])' /\ StoreOk(sess[p])' /\ DirectionTo(p)'
  BY <1>1, <1>6, <1>7, <1>8 DEF Idle, StoreOk
<1> QED BY <1>2, <1>3, <1>5, <1>8, <1>9 DEF Paired

(* A message is read: what comes of it in the direction it came from, and   *)
(* of what is written in the other one.                                    *)
LEMMA ReadKeeps ==
  ASSUME Paired, NEW p \in Peers, Read(p)
  PROVE  Paired'
<1>1. PICK q : q = Other(p)
  OBVIOUS
<1>2. PICK c : c = config[p]
  OBVIOUS
<1>3. PICK s : s = sess[p]
  OBVIOUS
<1>4. PICK w : w = wire[q]
  OBVIOUS
<1>5. PICK r : r = OnReceive(c, s, Head(w))
  OBVIOUS
<1>6. /\ w # <<>> /\ s.socket # "none" /\ CallEnds(p, r, Tail(w)) /\ config' = config
  BY <1>1, <1>2, <1>3, <1>4, <1>5 DEF Read
<1>7. /\ q \in Peers /\ q # p /\ c \in PlainConfigs
      /\ s \in Sessions /\ sess[q] \in Sessions /\ Idle(s) /\ StoreOk(s)
      /\ s.sent = <<>> /\ s.rc = "ok"
      /\ s.nextTarget \in Numbers /\ s.nextSender \in Numbers
      /\ sess[q].nextTarget \in Numbers /\ sess[q].nextSender \in Numbers
      /\ wire[p] \in Seq(Messages) /\ w \in Seq(Messages)
      /\ Direction(s.nextTarget, s.awaitingResend, sess[q].nextSender, w, wire[p],
                   s.socket # "none")
      /\ Direction(sess[q].nextTarget, sess[q].awaitingResend, s.nextSender, wire[p], w,
                   sess[q].socket # "none")
  BY <1>1, <1>2, <1>3, <1>4, Sides
<1>8. PICK m : m = Head(w)
  OBVIOUS
<1>9. /\ m \in Messages /\ m = w[1] /\ 1 \in 1..Len(w) /\ Tail(w) \in Seq(Messages)
  BY <1>6, <1>7, <1>8, TailFacts
<1>10. PICK e, a, n : e = s.nextTarget /\ a = s.awaitingResend /\ n = sess[q].nextSender
  OBVIOUS
<1>11. PICK f, b, up : f = sess[q].nextTarget /\ b = sess[q].awaitingResend
                       /\ up = (sess[q].socket # "none")
  OBVIOUS
<1>12. /\ e \in Nat \ {0} /\ n \in Nat /\ f \in Nat /\ s.nextSender \in Nat
       /\ Direction(e, a, n, w, wire[p], TRUE)
       /\ Direction(f, b, s.nextSender, wire[p], w, up)
  <2>1. (s.socket # "none") = TRUE
    BY <1>6
  <2> QED BY <1>7, <1>10, <1>11, <2>1 DEF Numbers
<1>13. m.possDup => e =< m.seq
  <2>1. Settled(e, w) \/ Waiting(e, w)
    BY <1>12 DEF Direction
  <2> QED BY <1>6, <1>7, <1>8, <1>12, <2>1, HeadNotOld DEF Replayed
<1>14. Answerable(s, m)
  <2>1. Asks(m) => 1 =< m.begin /\ m.begin =< m.end /\ m.end < s.nextSender
    BY <1>9, <1>12 DEF Direction, AsksBelow
  <2> QED BY <1>7, <2>1 DEF Answerable, StoreOk
<1>15. Quiet(c, s, r) \/ Finds(c, s, r, m) \/ Takes(c, s, r, m)
  BY <1>5, <1>7, <1>8, <1>9, <1>10, <1>13, <1>14, OnReceiveLemma
<1>16. ASSUME NEW kinds, Emits(c, s, r, kinds)
       PROVE  /\ r.sent \in Seq(Messages) /\ StoreOk(r)
              /\ Direction(f, b, r.nextSender, wire[p], Tail(w), up)
              /\ Direction(f, b, r.nextSender, wire[p] \o r.sent, Tail(w), up)
  <2>1. r.sent \in Seq(Messages) /\ StoreOk(r)
    BY <1>7, <1>16, SentFacts, StoreGrows
  <2>2. /\ Direction(f, b, r.nextSender, wire[p], w, up)
        /\ Direction(f, b, r.nextSender, wire[p] \o r.sent, w, up)
    BY <1>7, <1>12, <1>16, SenderEmits
  <2> QED BY <1>6, <1>7, <2>1, <2>2, BackTail
<1>17. PICK v : v = IF r.socket = "none" THEN <<>> ELSE Tail(w)
  OBVIOUS
<1>18. ASSUME r \in Sessions, StoreOk(r), r.sent \in Seq(Messages),
              Direction(r.nextTarget, r.awaitingResend, n, v, wire[p], r.socket # "none"),
              Direction(r.nextTarget, r.awaitingResend, n, v, wire[p] \o r.sent,
                        r.socket # "none"),
              Direction(f, b, r.nextSender, wire[p], Tail(w), up),
              Direction(f, b, r.nextSender, wire[p] \o r.sent, Tail(w), up)
       PROVE  Paired'
  <2>1. \A o \in {wire[p], wire[p] \o r.sent} :
          Direction(r.nextTarget, r.awaitingResend, sess[q].nextSender, v, o, r.socket # "none")
    BY <1>10, <1>18
  <2>2. \A o \in {wire[p], wire[p] \o r.sent} :
          Direction(sess[q].nextTarget, sess[q].awaitingResend, r.nextSender, o, Tail(w),
                    sess[q].socket # "none")
    BY <1>11, <1>18
  <2>3. PICK unread \in Seq(Messages) : unread = Tail(w)
    BY <1>9
  <2>4. CallEnds(p, r, unread) /\ UNCHANGED config
    BY <1>6, <2>3
  <2>5. v = IF r.socket = "none" THEN <<>> ELSE unread
    BY <1>17, <2>3
  <2>6. r \in Sessions /\ StoreOk(r) /\ r.sent \in Seq(Messages)
    BY <1>18
  <2>7. /\ \A o \in {wire[p], wire[p] \o r.sent} :
             Direction(r.nextTarget, r.awaitingResend, sess[q].nextSender, v, o,
                       r.socket # "none")
        /\ \A o \in {wire[p], wire[p] \o r.sent} :
             Direction(sess[q].nextTarget, sess[q].awaitingResend, r.nextSender, o, unread,
                       sess[q].socket # "none")
    BY <2>1, <2>2, <2>3
  <2> QED BY SMTT(60), <1>1, <2>4, <2>5, <2>6, <2>7, CallKeeps
<1>19. CASE Quiet(c, s, r)
  <2>1. r \in Sessions /\ Emits(c, s, r, AdminKinds) /\ Keeps(s, r)
    BY <1>19 DEF Quiet
  <2>2. \A k \in 1..Len(r.sent) : ~Asks(r.sent[k])
    <3>1. "ResendRequest" \notin AdminKinds
      BY DEF AdminKinds
    <3> QED BY <1>7, <2>1, <3>1, SentFacts
  <2>3. Direction(e, a, n, Tail(w), wire[p], s.socket # "none")
    <3>1. (s.socket # "none") = TRUE
      BY <1>6
    <3> QED BY <1>6, <1>7, <1>12, <3>1, DirectionTail
  <2>4. /\ Direction(r.nextTarget, r.awaitingResend, n, v, wire[p], r.socket # "none")
        /\ Direction(r.nextTarget, r.awaitingResend, n, v, wire[p] \o r.sent,
                     r.socket # "none")
    BY <1>7, <1>10, <1>16, <1>17, <2>1, <2>2, <2>3, ReceiverKeeps
  <2> QED BY <1>16, <1>18, <2>1, <2>4
<1>20. CASE Finds(c, s, r, m)
  <2>1. r \in Sessions /\ r.socket # "none"
    BY <1>6, <1>20 DEF Finds
  <2>2. PICK kinds : Emits(c, s, r, kinds)
    BY <1>20 DEF Finds, Emits
  <2>3. /\ Direction(r.nextTarget, r.awaitingResend, n, Tail(w), wire[p], TRUE)
        /\ Direction(r.nextTarget, r.awaitingResend, n, Tail(w), wire[p] \o r.sent, TRUE)
    BY <1>6, <1>7, <1>8, <1>10, <1>12, <1>20, ReceiverFinds
  <2>4. v = Tail(w) /\ (r.socket # "none") = TRUE
    BY <1>17, <2>1
  <2> QED BY <1>16, <1>18, <2>1, <2>2, <2>3, <2>4
<1>21. CASE Takes(c, s, r, m)
  <2>1. /\ r.sent \in Seq(Messages) /\ StoreOk(r)
        /\ \A k \in 1..Len(r.sent) : ~Asks(r.sent[k])
        /\ Direction(f, b, r.nextSender, wire[p], Tail(w), up)
        /\ Direction(f, b, r.nextSender, wire[p] \o r.sent, Tail(w), up)
    <3>1. CASE Emits(c, s, r, AdminKinds)
      <4>1. \A k \in 1..Len(r.sent) : ~Asks(r.sent[k])
        <5>1. "ResendRequest" \notin AdminKinds
          BY DEF AdminKinds
        <5> QED BY <1>7, <3>1, <5>1, SentFacts
      <4> QED BY <1>16, <3>1, <4>1
    <3>2. CASE Asks(m) /\ Answers(c, s, r, m)
      <4>1. /\ Direction(f, b, r.nextSender, wire[p], Tail(w), up)
            /\ Direction(f, b, r.nextSender, wire[p] \o r.sent, Tail(w), up)
            /\ r.sent \in Seq(Messages) /\ \A k \in 1..Len(r.sent) : ~Asks(r.sent[k])
        BY <1>6, <1>7, <1>8, <1>12, <3>2, SenderAnswers
      <4>2. StoreOk(r)
        BY <1>7, <3>2 DEF Answers, StoreOk
      <4> QED BY <4>1, <4>2
    <3> QED BY <1>21, <3>1, <3>2 DEF Takes
  <2>2. r \in Sessions
    BY <1>21 DEF Takes
  <2>3. Direction(s.nextTarget, s.awaitingResend, n, w, wire[p], TRUE) /\ s.nextTarget \in Nat
    BY <1>10, <1>12
  <2>4. /\ Direction(r.nextTarget, r.awaitingResend, n, v, wire[p], r.socket # "none")
        /\ Direction(r.nextTarget, r.awaitingResend, n, v, wire[p] \o r.sent,
                     r.socket # "none")
    BY <1>6, <1>7, <1>8, <1>12, <1>17, <1>21, <2>1, <2>3, ReceiverTakes
  <2> QED BY <1>18, <2>1, <2>2, <2>4
<1> QED BY <1>15, <1>19, <1>20, <1>21

-----------------------------------------------------------------------------
(* The settings never change.                                               *)
ConfigTyped == config \in [Peers -> AllConfigs]

LEMMA PlainWhenNoResets ==
  ASSUME ConfigTyped, ~Resets
  PROVE  \A p \in Peers : config[p] \in PlainConfigs
BY DEF ConfigTyped, Resets, PlainConfigs

LEMMA ConfigStays ==
  ASSUME [Next]_vars
  PROVE  config' = config
<1>1. CASE UNCHANGED vars
  BY <1>1 DEF vars
<1>2. CASE Connect \/ EarlyRead \/ Cut
  BY <1>2 DEF Connect, EarlyRead, Cut
<1>3. ASSUME NEW p \in Peers, Step(p)
      PROVE  config' = config
  BY <1>3 DEF Step, Strand, Connected, Read, ConnectionLost, TimerClose, Logout, AppSend, Timer
<1> QED BY <1>1, <1>2, <1>3 DEF Next

(* The invariant: of sessions that never reset, Paired.                     *)
PairInv == ConfigTyped /\ (~Resets => Paired)

LEMMA CreatedFacts ==
  ASSUME NEW b \in BOOLEAN, NEW s, s = [Created EXCEPT !.listening = b]
  PROVE  /\ s \in Sessions /\ Idle(s) /\ StoreOk(s)
         /\ s.nextTarget = 1 /\ s.nextSender = 1 /\ s.awaitingResend = FALSE
         /\ s.socket = "none"
<1>1. s = [status |-> "Disconnected", sentLogon |-> FALSE, receivedLogon |-> FALSE,
           sentLogout |-> FALSE, receivedLogout |-> FALSE, awaitingResend |-> FALSE,
           resetOnDisconnect |-> FALSE, awaitingTest |-> FALSE, testRequestID |-> 0,
           nextSender |-> 1, nextTarget |-> 1, outgoing |-> <<>>, disk |-> "ok",
           socket |-> "none", listening |-> b,
           sent |-> <<>>, calls |-> <<>>, rc |-> "ok"]
  BY DEF Created
<1>2. /\ <<>> \in Seq(StoredIn(Payloads)) /\ <<>> \in Seq(Messages)
      /\ <<>> \in Seq(Callbacks)
  BY EmptySeq
<1>3. "Disconnected" \in Statuses /\ 1 \in Numbers /\ 0 \in Nat
  BY DEF Statuses, Numbers
<1>4. /\ s.outgoing = <<>> /\ s.nextTarget = 1 /\ s.nextSender = 1
      /\ s.awaitingResend = FALSE /\ s.socket = "none"
      /\ s.rc = "ok" /\ s.sent = <<>> /\ s.calls = <<>>
  BY <1>1
<1>5. s \in Sessions
  <2>1. /\ s.status \in Statuses /\ s.nextSender \in Numbers /\ s.nextTarget \in Numbers
        /\ s.testRequestID \in Nat /\ s.outgoing \in Seq(StoredIn(Payloads))
        /\ s.sent \in Seq(Messages) /\ s.calls \in Seq(Callbacks)
    <3>1. s.status = "Disconnected" /\ s.testRequestID = 0
      BY <1>1
    <3> QED BY <1>2, <1>3, <1>4, <3>1
  <2>2. /\ s.sentLogon = FALSE /\ s.receivedLogon = FALSE /\ s.sentLogout = FALSE
        /\ s.receivedLogout = FALSE /\ s.resetOnDisconnect = FALSE
        /\ s.awaitingTest = FALSE /\ s.listening = b
        /\ s.disk = "ok" /\ s.socket = "none" /\ s.rc = "ok"
    BY <1>1
  <2>3. /\ s.sentLogon \in BOOLEAN /\ s.receivedLogon \in BOOLEAN
        /\ s.sentLogout \in BOOLEAN /\ s.receivedLogout \in BOOLEAN
        /\ s.awaitingResend \in BOOLEAN /\ s.awaitingTest \in BOOLEAN
        /\ s.listening \in BOOLEAN /\ s.resetOnDisconnect \in {FALSE}
        /\ s.disk \in {"ok"} /\ s.socket \in {"none", "open", "failing"}
        /\ s.rc \in {"ok", "io", "session", "app", "invalid"}
    BY ZenonT(60), <1>4, <2>2
  <2>4. s = [status |-> s.status, sentLogon |-> s.sentLogon,
             receivedLogon |-> s.receivedLogon, sentLogout |-> s.sentLogout,
             receivedLogout |-> s.receivedLogout, awaitingResend |-> s.awaitingResend,
             resetOnDisconnect |-> s.resetOnDisconnect, awaitingTest |-> s.awaitingTest,
             testRequestID |-> s.testRequestID, nextSender |-> s.nextSender,
             nextTarget |-> s.nextTarget, outgoing |-> s.outgoing, disk |-> s.disk,
             socket |-> s.socket, listening |-> s.listening, sent |-> s.sent,
             calls |-> s.calls, rc |-> s.rc]
    BY <1>1
  <2> QED BY <2>1, <2>2, <2>3, <2>4 DEF Sessions
<1>6. Idle(s) /\ StoreOk(s)
  BY <1>4 DEF Idle, StoreOk, Ascending
<1> QED BY <1>4, <1>5, <1>6

LEMMA PairInit ==
  ASSUME Init
  PROVE  PairInv
<1>1. ConfigTyped
  BY ScenariosAssumption DEF Init, ConfigTyped
<1>2. /\ sess = [p \in Peers |-> [Created EXCEPT !.listening = (p = A)]]
      /\ wire = [p \in Peers |-> <<>>]
  BY DEF Init
<1>3. ASSUME NEW p \in Peers
      PROVE  /\ sess[p] \in Sessions /\ Idle(sess[p]) /\ StoreOk(sess[p])
             /\ sess[p].nextTarget = 1 /\ sess[p].nextSender = 1
             /\ sess[p].awaitingResend = FALSE /\ sess[p].socket = "none" /\ wire[p] = <<>>
  <2>1. PICK b \in BOOLEAN : b = (p = A)
    OBVIOUS
  <2>2. sess[p] = [Created EXCEPT !.listening = b] /\ wire[p] = <<>>
    BY <1>2, <2>1
  <2> QED BY <2>2, CreatedFacts
<1>4. sess \in [Peers -> Sessions] /\ wire \in [Peers -> Seq(Messages)]
  <2>1. <<>> \in Seq(Messages)
    BY EmptySeq
  <2>2. sess = [p \in Peers |-> sess[p]]
    BY <1>2
  <2> QED BY <1>2, <1>3, <2>1, <2>2
<1>5. ASSUME NEW p \in Peers PROVE DirectionTo(p)
  <2>1. PICK q \in Peers : q = Other(p)
    BY OtherFacts
  <2>2. AsksBelow(1, <<>>)
    BY DEF AsksBelow
  <2>3. Direction(1, FALSE, 1, <<>>, <<>>, FALSE)
    BY <2>2 DEF Direction
  <2>4. Direction(sess[p].nextTarget, sess[p].awaitingResend, sess[q].nextSender,
                  wire[q], wire[p], sess[p].socket # "none")
    <3>1. (sess[p].socket # "none") = FALSE
      BY <1>3
    <3> QED BY <1>3, <2>1, <2>3, <3>1
  <2> QED BY <2>1, <2>4 DEF DirectionTo
<1>6. ~Resets => Paired
  BY <1>1, <1>3, <1>4, <1>5, PlainWhenNoResets DEF Paired
<1> QED BY <1>1, <1>6 DEF PairInv

LEMMA PairStep ==
  ASSUME PairInv, [Next]_vars
  PROVE  PairInv'
<1>1. config' = config
  BY ConfigStays
<1>2. ConfigTyped' /\ (Resets' = Resets)
  BY <1>1 DEF PairInv, ConfigTyped, Resets
<1>3. ASSUME Paired
      PROVE  Paired'
  <2>1. CASE UNCHANGED vars
    BY <1>3, <2>1 DEF vars, Paired, DirectionTo
  <2>2. CASE Connect
    BY <1>3, <2>2, ConnectKeeps
  <2>3. CASE EarlyRead
    BY <1>3, <2>3, EarlyReadKeeps
  <2>4. CASE Cut
    BY <1>3, <2>4, CutKeeps
  <2>5. ASSUME NEW p \in Peers, Step(p)
        PROVE  Paired'
    <3>1. CASE Connected(p)
      BY <1>3, <3>1, ConnectedKeeps
    <3>2. CASE Read(p)
      BY <1>3, <3>2, ReadKeeps
    <3>3. CASE ConnectionLost(p)
      BY <1>3, <3>3, ConnectionLostKeeps
    <3>4. CASE TimerClose(p)
      BY <1>3, <3>4, TimerCloseKeeps
    <3>5. CASE Logout(p)
      BY <1>3, <3>5, LogoutKeeps
    <3>6. CASE AppSend(p)
      BY <1>3, <3>6, AppSendKeeps
    <3>7. ASSUME NEW due \in Deadlines, Timer(p, due)
          PROVE  Paired'
      BY <1>3, <3>7, TimerKeeps
    <3> QED BY <2>5, <3>1, <3>2, <3>3, <3>4, <3>5, <3>6, <3>7 DEF Step, Strand
  <2> QED BY <2>1, <2>2, <2>3, <2>4, <2>5 DEF Next
<1> QED BY <1>2, <1>3 DEF PairInv

(* The inductive invariant of the pair.                                     *)
THEOREM PairInvariant == Spec => []PairInv
<1>1. Init => PairInv
  BY PairInit
<1>2. PairInv /\ [Next]_vars => PairInv'
  BY PairStep
<1> QED BY <1>1, <1>2, PTL DEF Spec

(* Of two sessions that never reset, neither ever expects a number beyond   *)
(* the next one the other will use, whatever is lost, replayed or broken   *)
(* off, for any settings of the two and any number of messages.            *)
THEOREM NeverAhead == Spec => []TargetNotAhead
<1>1. PairInv => TargetNotAhead
  <2> SUFFICES ASSUME Paired, NEW p \in Peers
               PROVE  sess[p].nextTarget =< sess[Other(p)].nextSender
    BY DEF PairInv, TargetNotAhead, NotAhead
  <2>1. DirectionTo(p)
    BY DEF Paired
  <2> QED BY <2>1 DEF DirectionTo, Direction
<1> QED BY <1>1, PairInvariant, PTL

(* Nothing that is under way is numbered out of turn: what is sent for the  *)
(* first time ascends, what is sent again is one unbroken replay, and a    *)
(* replay the receiver waits for begins with the number it expects; at     *)
(* most one request is unanswered (onGap, handleResendRequestReceived).    *)
THEOREM WiresInOrder == Spec => []Directions
<1>1. PairInv => Directions
  BY DEF PairInv, Directions, Paired
<1> QED BY <1>1, PairInvariant, PTL

-----------------------------------------------------------------------------
(* What has been delivered.  Of a direction, S is what was submitted and D   *)
(* what was delivered, o is the sender's store, w is under way and e is     *)
(* the number the receiver expects.                                        *)

(* The store holds the application's messages, each and in their order.    *)
Recorded(S, o) ==
  /\ S \in Seq(Nat) /\ \A i \in 1..Len(S) : S[i] = i
  /\ \A j \in 1..Len(o) : ~o[j].admin => o[j].body \in 1..Len(S)
  /\ \A j, k \in 1..Len(o) :
       j < k /\ ~o[j].admin /\ ~o[k].admin => o[j].body < o[k].body
  /\ \A b \in 1..Len(S) : \E j \in 1..Len(o) : ~o[j].admin /\ o[j].body = b

(* Those with a number below e, and no others, have been delivered.         *)
Had(e, D, S, o) ==
  /\ D \in Seq(Nat) /\ \A i \in 1..Len(D) : D[i] = i
  /\ Len(D) =< Len(S)
  /\ \A j \in 1..Len(o) : ~o[j].admin => (o[j].seq < e <=> o[j].body =< Len(D))

(* A message under way is one of them, or stands for none of them.          *)
TrueTo(m, o) ==
  IF m.kind = "App"
    THEN \E j \in 1..Len(o) : ~o[j].admin /\ o[j].seq = m.seq /\ o[j].body = m.body
    ELSE \A j \in 1..Len(o) : o[j].admin \/ o[j].seq < m.seq \/ Beyond(m) =< o[j].seq

AllTrue(w, o) == \A k \in 1..Len(w) : TrueTo(w[k], o)

OrderedTo(p) ==
  LET q == Other(p)
      o == sess[q].outgoing
  IN  /\ Recorded(submitted[q], o)
      /\ Had(sess[p].nextTarget, delivered[p], submitted[q], o)
      /\ sess[p].socket # "none" => AllTrue(wire[q], o)

InOrder ==
  /\ submitted \in [Peers -> Seq(Nat)] /\ delivered \in [Peers -> Seq(Nat)]
  /\ \A p \in Peers : KeepsMessages(config[p]) /\ OrderedTo(p)

LEMMA StoreFacts ==
  ASSUME NEW o \in Seq(StoredIn(Payloads))
  PROVE  /\ Len(o) \in Nat /\ DOMAIN o = 1..Len(o)
         /\ \A j \in 1..Len(o) : o[j].seq \in Nat
<1>1. \A j \in 1..Len(o) : o[j] \in StoredIn(Payloads)
  BY ElementOfSeq
<1> QED BY <1>1, LenProperties DEF StoredIn

LEMMA MoreKept ==
  ASSUME NEW o \in Seq(StoredIn(Payloads)), NEW x \in StoredIn(Payloads),
         NEW v, v = Append(o, x)
  PROVE  /\ Len(o) \in Nat /\ Len(v) = Len(o) + 1 /\ v[Len(o) + 1] = x
         /\ \A j \in 1..Len(o) : v[j] = o[j] /\ o[j].seq \in Nat
         /\ \A j \in 1..Len(v) : j \in 1..Len(o) \/ j = Len(o) + 1
         /\ \A j \in 1..Len(o) : j \in 1..Len(v)
         /\ Len(o) + 1 \in 1..Len(v)
         /\ x.seq \in Nat
<1>1. Len(o) \in Nat /\ \A j \in 1..Len(o) : o[j].seq \in Nat
  BY StoreFacts
<1>2. Len(v) = Len(o) + 1 /\ v[Len(o) + 1] = x /\ \A j \in 1..Len(o) : v[j] = o[j]
  BY AppendProperties
<1>3. x.seq \in Nat
  BY DEF StoredIn
<1> QED BY <1>1, <1>2, <1>3

(* An administrative message is kept.                                       *)
LEMMA AdminKept ==
  ASSUME NEW o \in Seq(StoredIn(Payloads)), NEW x \in StoredIn(Payloads), x.admin,
         NEW v, v = Append(o, x), NEW S, Recorded(S, o)
  PROVE  /\ Recorded(S, v)
         /\ \A e, D : Had(e, D, S, o) => Had(e, D, S, v)
         /\ \A m : TrueTo(m, o) => TrueTo(m, v)
<1>1. /\ Len(o) \in Nat /\ v[Len(o) + 1] = x
      /\ \A j \in 1..Len(o) : v[j] = o[j]
      /\ \A j \in 1..Len(v) : j \in 1..Len(o) \/ j = Len(o) + 1
      /\ \A j \in 1..Len(o) : j \in 1..Len(v)
  BY MoreKept
<1>2. \A j \in 1..Len(v) : ~v[j].admin => j \in 1..Len(o) /\ v[j] = o[j]
  BY <1>1
<1>3. Recorded(S, v)
  <2>1. \A j \in 1..Len(v) : ~v[j].admin => v[j].body \in 1..Len(S)
    BY <1>2 DEF Recorded
  <2>2. \A j, k \in 1..Len(v) :
          j < k /\ ~v[j].admin /\ ~v[k].admin => v[j].body < v[k].body
    BY <1>2 DEF Recorded
  <2>3. \A b \in 1..Len(S) : \E j \in 1..Len(v) : ~v[j].admin /\ v[j].body = b
    BY <1>1 DEF Recorded
  <2> QED BY <2>1, <2>2, <2>3 DEF Recorded
<1>4. ASSUME NEW e, NEW D, Had(e, D, S, o) PROVE Had(e, D, S, v)
  BY <1>2, <1>4 DEF Had
<1>5. ASSUME NEW m, TrueTo(m, o) PROVE TrueTo(m, v)
  <2>1. CASE m.kind = "App"
    BY <1>1, <1>5, <2>1 DEF TrueTo
  <2>2. CASE m.kind # "App"
    BY <1>2, <1>5, <2>2 DEF TrueTo
  <2> QED BY <2>1, <2>2
<1> QED BY <1>3, <1>4, <1>5

(* A sequence and the next one.                                             *)
Grown(v, o, x) == v = Append(o, x)

(* The next message of the application is kept.                             *)
LEMMA AppKept ==
  ASSUME NEW o \in Seq(StoredIn(Payloads)), NEW x \in StoredIn(Payloads), ~x.admin,
         NEW v, Grown(v, o, x), NEW S, Recorded(S, o), x.body = Len(S) + 1,
         NEW T, Grown(T, S, Len(S) + 1)
  PROVE  /\ Recorded(T, v)
         /\ \A e \in Nat : \A D : Had(e, D, S, o) /\ e =< x.seq => Had(e, D, T, v)
         /\ \A m \in Messages : TrueTo(m, o) /\ Beyond(m) =< x.seq => TrueTo(m, v)
<1>0. v = Append(o, x)
  BY DEF Grown
<1>1. /\ Len(o) \in Nat /\ v[Len(o) + 1] = x /\ Len(o) + 1 \in 1..Len(v)
      /\ \A j \in 1..Len(o) : v[j] = o[j]
      /\ \A j \in 1..Len(v) : j \in 1..Len(o) \/ j = Len(o) + 1
      /\ \A j \in 1..Len(o) : j \in 1..Len(v)
      /\ x.seq \in Nat
  BY <1>0, MoreKept
<1>2. Len(S) \in Nat /\ S \in Seq(Nat)
  BY LenProperties DEF Recorded
<1>3. /\ T \in Seq(Nat) /\ Len(T) = Len(S) + 1 /\ T[Len(S) + 1] = Len(S) + 1
      /\ \A i \in 1..Len(S) : T[i] = S[i]
  <2>1. PICK n \in Nat : n = Len(S) + 1
    BY <1>2
  <2>2. T = Append(S, n)
    BY <2>1 DEF Grown
  <2>3. /\ T \in Seq(Nat) /\ Len(T) = Len(S) + 1 /\ T[Len(S) + 1] = n
        /\ \A i \in 1..Len(S) : T[i] = S[i]
    BY <1>2, <2>2, AppendProperties
  <2> QED BY <2>1, <2>3
<1>4. Recorded(T, v)
  <2>1. \A i \in 1..Len(T) : T[i] = i
    <3>1. \A i \in 1..Len(S) : S[i] = i
      BY DEF Recorded
    <3>2. \A i \in 1..Len(T) : i \in 1..Len(S) \/ i = Len(S) + 1
      BY <1>2, <1>3
    <3> QED BY <1>3, <3>1, <3>2
  <2>2. ASSUME NEW j \in 1..Len(v), ~v[j].admin PROVE v[j].body \in 1..Len(T)
    <3>1. CASE j \in 1..Len(o)
      <4>1. v[j].body \in 1..Len(S)
        BY <1>1, <2>2, <3>1 DEF Recorded
      <4> QED BY <1>2, <1>3, <4>1
    <3>2. CASE j = Len(o) + 1
      BY <1>1, <1>2, <1>3, <3>2
    <3> QED BY <1>1, <3>1, <3>2
  <2>3. ASSUME NEW j \in 1..Len(v), NEW k \in 1..Len(v), j < k, ~v[j].admin, ~v[k].admin
        PROVE  v[j].body < v[k].body
    <3>1. j \in 1..Len(o) /\ v[j] = o[j]
      BY <1>1, <2>3
    <3>2. o[j].body \in 1..Len(S)
      BY <2>3, <3>1 DEF Recorded
    <3>3. CASE k \in 1..Len(o)
      BY <1>1, <2>3, <3>1, <3>3 DEF Recorded
    <3>4. CASE k = Len(o) + 1
      BY <1>1, <1>2, <3>1, <3>2, <3>4
    <3> QED BY <1>1, <3>3, <3>4
  <2>4. ASSUME NEW b \in 1..Len(T)
        PROVE  \E j \in 1..Len(v) : ~v[j].admin /\ v[j].body = b
    <3>1. CASE b \in 1..Len(S)
      BY <1>1, <3>1 DEF Recorded
    <3>2. CASE b = Len(S) + 1
      BY <1>1, <3>2
    <3> QED BY <1>2, <1>3, <3>1, <3>2
  <2> QED BY <1>3, <2>1, <2>2, <2>3, <2>4 DEF Recorded
<1>5. ASSUME NEW e \in Nat, NEW D, Had(e, D, S, o), e =< x.seq
      PROVE  Had(e, D, T, v)
  <2>1. Len(D) \in Nat /\ Len(D) =< Len(S)
    BY <1>5, LenProperties DEF Had
  <2>2. Len(D) =< Len(T)
    BY <1>2, <1>3, <2>1
  <2>3. \A j \in 1..Len(v) : ~v[j].admin => (v[j].seq < e <=> v[j].body =< Len(D))
    <3>1. ~(x.seq < e) /\ ~(x.body =< Len(D))
      BY <1>1, <1>2, <1>5, <2>1
    <3> QED BY <1>1, <1>5, <3>1 DEF Had
  <2> QED BY <1>5, <2>2, <2>3 DEF Had
<1>6. ASSUME NEW m \in Messages, TrueTo(m, o), Beyond(m) =< x.seq
      PROVE  TrueTo(m, v)
  <2>1. CASE m.kind = "App"
    BY <1>1, <1>6, <2>1 DEF TrueTo
  <2>2. CASE m.kind # "App"
    BY <1>1, <1>6, <2>2 DEF TrueTo
  <2> QED BY <2>1, <2>2
<1> QED BY <1>4, <1>5, <1>6

(* The expected message is read: an application message is the next one     *)
(* that was submitted, and anything else passes over none.                 *)
LEMMA NextDelivered ==
  ASSUME NEW o \in Seq(StoredIn(Payloads)), Ascending(o), NEW S, Recorded(S, o),
         NEW m \in Messages, m.seq < Beyond(m), TrueTo(m, o), NEW D, Had(m.seq, D, S, o)
  PROVE  /\ m.kind = "App" => /\ m.body = Len(D) + 1 /\ Len(D) < Len(S)
                              /\ Had(Beyond(m), Append(D, m.body), S, o)
         /\ m.kind # "App" => Had(Beyond(m), D, S, o)
<1>1. /\ Len(o) \in Nat /\ DOMAIN o = 1..Len(o)
      /\ \A j \in 1..Len(o) : o[j].seq \in Nat
  BY StoreFacts
<1>2. m.seq \in Nat /\ Beyond(m) \in Nat
  BY MessageFacts
<1>3. Len(D) \in Nat /\ Len(S) \in Nat /\ D \in Seq(Nat) /\ Len(D) =< Len(S)
  BY LenProperties DEF Had, Recorded
<1>4. CASE m.kind = "App"
  <2>1. PICK j \in 1..Len(o) : ~o[j].admin /\ o[j].seq = m.seq /\ o[j].body = m.body
    BY <1>4 DEF TrueTo
  <2>2. m.body \in 1..Len(S) /\ ~(m.body =< Len(D))
    <3>1. ~(o[j].seq < m.seq)
      BY <1>2, <2>1
    <3> QED BY <2>1, <3>1 DEF Recorded, Had
  <2>3. m.body = Len(D) + 1
    <3>1. SUFFICES ASSUME Len(D) + 1 < m.body PROVE FALSE
      BY <1>3, <2>2
    <3>2. Len(D) + 1 \in 1..Len(S)
      BY <1>3, <2>2, <3>1
    <3>3. PICK k \in 1..Len(o) : ~o[k].admin /\ o[k].body = Len(D) + 1
      BY <3>2 DEF Recorded
    <3>4. ~(o[k].seq < m.seq)
      BY <1>3, <3>3 DEF Had
    <3>5. k < j
      <4>1. ~(j < k)
        BY <1>3, <2>1, <2>2, <3>1, <3>3 DEF Recorded
      <4>2. j # k
        BY <1>3, <2>1, <2>2, <3>1, <3>3
      <4> QED BY <1>1, <4>1, <4>2
    <3>6. o[k].seq < o[j].seq
      BY <1>1, <3>5 DEF Ascending
    <3> QED BY <2>1, <3>4, <3>6
  <2>4. Beyond(m) = m.seq + 1
    BY <1>4 DEF Beyond
  <2>5. PICK E : E = Append(D, m.body)
    OBVIOUS
  <2>6. /\ E \in Seq(Nat) /\ Len(E) = Len(D) + 1 /\ E[Len(D) + 1] = m.body
        /\ \A i \in 1..Len(D) : E[i] = D[i]
    <3>1. m.body \in Nat
      BY <1>3, <2>3
    <3> QED BY <1>3, <2>5, <3>1, AppendProperties
  <2>7. \A i \in 1..Len(E) : E[i] = i
    <3>1. \A i \in 1..Len(D) : D[i] = i
      BY DEF Had
    <3>2. \A i \in 1..Len(E) : i \in 1..Len(D) \/ i = Len(D) + 1
      BY <1>3, <2>6
    <3> QED BY <2>3, <2>6, <3>1, <3>2
  <2>8. ASSUME NEW k \in 1..Len(o), ~o[k].admin
        PROVE  o[k].seq < m.seq + 1 <=> o[k].body =< Len(D) + 1
    <3>1. o[k].body \in 1..Len(S) /\ (o[k].seq < m.seq <=> o[k].body =< Len(D))
      BY <2>8 DEF Recorded, Had
    <3>2. CASE k = j
      BY <1>2, <1>3, <2>1, <2>3, <3>2
    <3>3. CASE k < j
      <4>1. o[k].seq < o[j].seq
        BY <1>1, <3>3 DEF Ascending
      <4> QED BY <1>1, <1>2, <1>3, <2>1, <3>1, <4>1
    <3>4. CASE j < k
      <4>1. o[j].seq < o[k].seq
        BY <1>1, <3>4 DEF Ascending
      <4>2. o[j].body < o[k].body
        BY <2>1, <2>8, <3>4 DEF Recorded
      <4> QED BY <1>1, <1>2, <1>3, <2>1, <2>3, <3>1, <4>1, <4>2
    <3> QED BY <3>2, <3>3, <3>4
  <2>9. Had(Beyond(m), E, S, o)
    <3>1. Len(E) =< Len(S)
      BY <1>3, <2>2, <2>3, <2>6
    <3> QED BY <2>4, <2>6, <2>7, <2>8, <3>1 DEF Had
  <2>10. Len(D) < Len(S)
    BY <1>3, <2>2, <2>3
  <2> QED BY <1>4, <2>3, <2>5, <2>9, <2>10
<1>5. CASE m.kind # "App"
  <2>1. ASSUME NEW j \in 1..Len(o), ~o[j].admin
        PROVE  o[j].seq < Beyond(m) <=> o[j].body =< Len(D)
    <3>1. o[j].seq < m.seq \/ Beyond(m) =< o[j].seq
      BY <1>5, <2>1 DEF TrueTo
    <3>2. o[j].seq < m.seq <=> o[j].body =< Len(D)
      BY <2>1 DEF Had
    <3> QED BY <1>1, <1>2, <3>1, <3>2
  <2>2. Had(Beyond(m), D, S, o)
    BY <2>1 DEF Had
  <2> QED BY <1>5, <2>2
<1> QED BY <1>4, <1>5

(* A call that sends nothing of the application's keeps what is true.       *)
LEMMA EmitsTrue ==
  ASSUME NEW c, KeepsMessages(c), NEW s \in Sessions, StoreOk(s), s.sent = <<>>,
         NEW r, NEW kinds, "App" \notin kinds, Emits(c, s, r, kinds),
         NEW S, Recorded(S, s.outgoing),
         NEW w \in Seq(Messages), AllTrue(w, s.outgoing)
  PROVE  AllTrue(w, r.outgoing) /\ AllTrue(w \o r.sent, r.outgoing)
<1>1. CASE SameStore(s, r)
  <2>1. r.sent = <<>> /\ r.outgoing = s.outgoing /\ w \o <<>> = w
    BY <1>1, ConcatEmptySeq DEF SameStore
  <2> QED BY <2>1
<1>2. ASSUME NEW m \in Fresh(kinds), Writes(c, s, r, m)
      PROVE  AllTrue(w, r.outgoing) /\ AllTrue(w \o r.sent, r.outgoing)
  <2>1. m \in Messages /\ m.kind # "App" /\ ~Replayed(m)
    BY DEF Fresh
  <2>2. PICK x : x = Kept(m)
    OBVIOUS
  <2>3. x \in StoredIn(Payloads) /\ x.admin
    BY <2>1, <2>2, KeptFacts
  <2>4. PICK o : o = s.outgoing
    OBVIOUS
  <2>5. PICK v : v = Append(o, x)
    OBVIOUS
  <2>6. o \in Seq(StoredIn(Payloads)) /\ r.outgoing = v
    BY <1>2, <2>2, <2>4, <2>5 DEF Sessions, Writes
  <2>7. \A y : TrueTo(y, o) => TrueTo(y, v)
    BY <2>3, <2>4, <2>5, <2>6, AdminKept
  <2>8. TrueTo(m, v)
    <3>1. m.seq = s.nextSender
      BY <1>2 DEF Writes
    <3>2. /\ \A j \in 1..Len(o) : v[j] = o[j] /\ o[j].seq < m.seq
          /\ \A j \in 1..Len(v) : j \in 1..Len(o) \/ j = Len(o) + 1
          /\ v[Len(o) + 1] = x
      BY <2>3, <2>4, <2>5, <2>6, <3>1, MoreKept, StoreFacts DEF StoreOk
    <3> QED BY <2>1, <2>3, <3>2 DEF TrueTo
  <2>9. r.sent = <<m>> /\ w \o r.sent = Append(w, m)
    BY <1>2, <2>1, AppendFacts DEF Writes
  <2>10. AllTrue(w, v)
    BY <2>4, <2>7 DEF AllTrue
  <2>11. AllTrue(Append(w, m), v)
    <3>1. PICK u : u = Append(w, m)
      OBVIOUS
    <3>2. /\ Len(u) = Len(w) + 1 /\ u[Len(w) + 1] = m /\ Len(w) \in Nat
          /\ \A k \in 1..Len(w) : u[k] = w[k]
      BY <2>1, <3>1, AppendFacts, LenProperties
    <3> QED BY <2>8, <2>10, <3>1, <3>2 DEF AllTrue
  <2> QED BY <2>6, <2>9, <2>10, <2>11
<1> QED BY <1>1, <1>2 DEF Emits

(* Nor does it change what is recorded and what was had.                    *)
LEMMA EmitsRecorded ==
  ASSUME NEW c, KeepsMessages(c), NEW s \in Sessions,
         NEW r, NEW kinds, "App" \notin kinds, Emits(c, s, r, kinds),
         NEW S, Recorded(S, s.outgoing), NEW e, NEW D, Had(e, D, S, s.outgoing)
  PROVE  Recorded(S, r.outgoing) /\ Had(e, D, S, r.outgoing)
<1>1. CASE SameStore(s, r)
  BY <1>1 DEF SameStore
<1>2. ASSUME NEW m \in Fresh(kinds), Writes(c, s, r, m)
      PROVE  Recorded(S, r.outgoing) /\ Had(e, D, S, r.outgoing)
  <2>1. m \in Messages /\ m.kind # "App"
    BY DEF Fresh
  <2>2. PICK x : x = Kept(m)
    OBVIOUS
  <2>3. x \in StoredIn(Payloads) /\ x.admin
    BY <2>1, <2>2, KeptFacts
  <2>4. PICK v : v = Append(s.outgoing, x)
    OBVIOUS
  <2>5. s.outgoing \in Seq(StoredIn(Payloads)) /\ r.outgoing = v
    BY <1>2, <2>2, <2>4 DEF Sessions, Writes
  <2>6. Recorded(S, v) /\ Had(e, D, S, v)
    BY <2>3, <2>4, <2>5, AdminKept
  <2> QED BY <2>5, <2>6
<1> QED BY <1>1, <1>2 DEF Emits

(* The answer to a request is true to the store it is made from.            *)
LEMMA AnswersTrue ==
  ASSUME Unreplayable = {}, NEW c, KeepsMessages(c), NEW s \in Sessions, s.sent = <<>>,
         NEW r, NEW m, Answers(c, s, r, m),
         NEW w \in Seq(Messages), AllTrue(w, s.outgoing)
  PROVE  AllTrue(w \o r.sent, s.outgoing)
<1>0. PICK o : o = s.outgoing
  OBVIOUS
<1>1. PICK out \in Seq(WrittenIn(Payloads)) :
        /\ HidesNone(Held(o), out) /\ FromStore(Held(o), out)
        /\ r.sent = s.sent \o [j \in DOMAIN out |-> OnWire(out[j])]
  <2>1. c.store # "null"
    BY DEF KeepsMessages
  <2> QED BY <1>0, <2>1 DEF Answers
<1>2. PICK d : d = [j \in DOMAIN out |-> OnWire(out[j])]
  OBVIOUS
<1>3. /\ Len(out) \in Nat /\ DOMAIN out = 1..Len(out)
      /\ \A k \in 1..Len(out) : out[k] \in WrittenIn(Payloads)
  BY LenProperties, ElementOfSeq
<1>4. d \in Seq(Messages) /\ Len(d) = Len(out) /\ \A k \in 1..Len(d) : d[k] = OnWire(out[k])
  <2>1. \A k \in 1..Len(out) : d[k] = OnWire(out[k]) /\ d[k] \in Messages
    BY <1>2, <1>3, OnWireFacts
  <2>2. d \in [1..Len(out) -> Messages]
    BY <1>2, <1>3, <2>1
  <2>3. d \in Seq(Messages)
    BY <1>3, <2>2, SeqDef
  <2> QED BY <1>3, <2>1, <2>2, <2>3
<1>5. r.sent = d
  <2>1. <<>> \o d = d
    BY <1>4, ConcatEmptySeq
  <2> QED BY <1>1, <1>2, <2>1
<1>6. /\ o \in Seq(StoredIn(Payloads)) /\ DOMAIN o = 1..Len(o)
      /\ \A j \in 1..Len(o) : o[j].seq \in Nat /\ o[j] \in Held(o)
      /\ \A x \in Held(o) : \E j \in 1..Len(o) : x = o[j]
  <2>1. o \in Seq(StoredIn(Payloads))
    BY <1>0 DEF Sessions
  <2> QED BY <2>1, StoreFacts DEF Held
<1>7. ASSUME NEW k \in 1..Len(d)
      PROVE  TrueTo(d[k], o)
  <2>1. PICK x \in WrittenIn(Payloads) : x = out[k]
    BY <1>3, <1>4
  <2>2. PICK y : y = d[k]
    OBVIOUS
  <2>3. /\ y.seq = First(x) /\ Beyond(y) = After(x)
        /\ y.kind = IF x.kind = "Fill" THEN "SequenceReset" ELSE "App"
        /\ x.kind = "Dup" => y.body = x.body
        /\ x.kind = "Fill" \/ x.kind = "Dup"
    BY <1>4, <2>1, <2>2, OnWireFacts
  <2>4. k \in 1..Len(out)
    BY <1>4
  <2>5. CASE x.kind = "Fill"
    <3>1. ~Covers(Held(o), x.seq, x.new)
      BY <1>1, <2>1, <2>4, <2>5 DEF HidesNone
    <3>2. y.seq = x.seq /\ Beyond(y) = x.new /\ y.kind = "SequenceReset"
      BY <2>3, <2>5 DEF First, After
    <3>3. x.seq \in Nat /\ x.new \in Nat
      BY <2>5 DEF WrittenIn
    <3>4. ASSUME NEW j \in 1..Len(o)
          PROVE  o[j].admin \/ o[j].seq < x.seq \/ x.new =< o[j].seq
      <4>1. o[j].admin \/ ~(x.seq =< o[j].seq /\ o[j].seq < x.new)
        BY <1>6, <3>1 DEF Covers
      <4> QED BY <1>6, <3>3, <4>1
    <3>5. TrueTo(y, o)
      BY <3>2, <3>4 DEF TrueTo
    <3> QED BY <2>2, <3>5
  <2>6. CASE x.kind = "Dup"
    <3>1. y.seq = x.seq /\ y.body = x.body /\ y.kind = "App"
      BY <2>3, <2>6 DEF First
    <3>2. PICK z \in Held(o) : z.seq = x.seq /\ z.body = x.body /\ ~z.admin
      BY <1>1, <2>1, <2>4, <2>6 DEF FromStore
    <3>3. PICK j \in 1..Len(o) : z = o[j]
      BY <1>6
    <3>4. TrueTo(y, o)
      BY <3>1, <3>2, <3>3 DEF TrueTo
    <3> QED BY <2>2, <3>4
  <2> QED BY <2>3, <2>5, <2>6
<1>8. PICK u : u = w \o d
  OBVIOUS
<1>9. AllTrue(u, o)
  <2> SUFFICES ASSUME NEW k \in 1..Len(u) PROVE TrueTo(u[k], o)
    BY DEF AllTrue
  <2>1. /\ \A i \in 1..Len(w) : u[i] = w[i]
        /\ \A i \in 1..Len(d) : u[Len(w) + i] = d[i]
        /\ k =< Len(w) \/ (k - Len(w) \in 1..Len(d) /\ k = Len(w) + (k - Len(w)))
    BY <1>4, <1>8, ConcatFacts
  <2>2. CASE k =< Len(w)
    BY <1>0, <2>1, <2>2 DEF AllTrue
  <2>3. CASE k - Len(w) \in 1..Len(d) /\ k = Len(w) + (k - Len(w))
    <3>1. PICK i \in 1..Len(d) : k = Len(w) + i
      BY <2>3
    <3>2. u[k] = d[i]
      BY <2>1, <3>1
    <3> QED BY <1>7, <3>2
  <2> QED BY <2>1, <2>2, <2>3
<1> QED BY <1>0, <1>5, <1>8, <1>9

(* What a call hands to the application.                                    *)
LEMMA HeardNothing ==
  ASSUME NEW calls, Silent(calls)
  PROVE  Heard(calls) = <<>>
<1>1. {j \in DOMAIN calls : calls[j].event = "fromApp"} = {}
  BY DEF Silent
<1> QED BY <1>1 DEF Heard

LEMMA HeardOne ==
  ASSUME NEW b, NEW calls, calls = Append(<<>>, [event |-> "fromApp", body |-> b])
  PROVE  Heard(calls) = <<b>>
<1>1. PICK x : x = [event |-> "fromApp", body |-> b]
  OBVIOUS
<1>2. x.event = "fromApp" /\ x.body = b
  BY <1>1
<1>3. calls = <<x>> /\ DOMAIN calls = {1} /\ calls[1] = x
  BY <1>1
<1>4. {j \in DOMAIN calls : calls[j].event = "fromApp"} = {1}
  BY <1>2, <1>3
<1>5. (CHOOSE j \in {1} : TRUE) = 1
  OBVIOUS
<1>6. Heard(calls) = <<calls[1].body>>
  BY <1>4, <1>5 DEF Heard
<1> QED BY <1>2, <1>3, <1>6

(* A call of p keeps the order when it does so in both directions, whether  *)
(* what it writes arrives or not.                                          *)
LEMMA CallOrders ==
  ASSUME Paired, InOrder, UNCHANGED config, NEW p \in Peers, NEW q, q = Other(p),
         NEW r \in Sessions, NEW unread, CallEnds(p, r, unread),
         NEW S \in Seq(Nat), submitted' = [submitted EXCEPT ![p] = S],
         Recorded(S, r.outgoing),
         Had(sess[q].nextTarget, delivered[q], S, r.outgoing),
         sess[q].socket # "none" =>
           AllTrue(wire[p], r.outgoing) /\ AllTrue(wire[p] \o r.sent, r.outgoing),
         NEW D, D = delivered[p] \o Heard(r.calls),
         Had(r.nextTarget, D, submitted[q], sess[q].outgoing),
         r.socket # "none" => AllTrue(unread, sess[q].outgoing)
  PROVE  InOrder'
<1>1. PICK s : s = Begin(r)
  OBVIOUS
<1>2. /\ s.nextTarget = r.nextTarget /\ s.socket = r.socket /\ s.outgoing = r.outgoing
  BY <1>1, BeginFacts
<1>3. q \in Peers /\ q # p /\ Other(q) = p /\ \A x \in Peers : x = p \/ x = q
  BY OtherFacts
<1>4. PICK w : w = IF Reaches(p) THEN wire[p] \o r.sent ELSE wire[p]
  OBVIOUS
<1>5. PICK v : v = IF r.socket = "none" THEN <<>> ELSE unread
  OBVIOUS
<1>6. /\ sess' = [sess EXCEPT ![p] = s]
      /\ wire' = [wire EXCEPT ![p] = w, ![q] = v]
      /\ delivered' = [delivered EXCEPT ![p] = D]
  BY <1>1, <1>4, <1>5 DEF CallEnds
<1>7. D \in Seq(Nat)
  BY DEF Had
<1>8. /\ sess'[p] = s /\ sess'[q] = sess[q] /\ wire'[p] = w /\ wire'[q] = v
      /\ delivered' \in [Peers -> Seq(Nat)] /\ delivered'[p] = D /\ delivered'[q] = delivered[q]
      /\ submitted' \in [Peers -> Seq(Nat)] /\ submitted'[p] = S /\ submitted'[q] = submitted[q]
  BY <1>3, <1>6, <1>7 DEF Paired, InOrder
<1>9. OrderedTo(q)'
  <2>1. Recorded(S, s.outgoing) /\ Had(sess[q].nextTarget, delivered[q], S, s.outgoing)
    BY <1>2
  <2>2. sess[q].socket # "none" => AllTrue(w, s.outgoing)
    BY <1>2, <1>4
  <2> QED BY <1>3, <1>8, <2>1, <2>2 DEF OrderedTo
<1>10. OrderedTo(p)'
  <2>1. Recorded(submitted[q], sess[q].outgoing)
    BY <1>3 DEF InOrder, OrderedTo
  <2>2. s.socket # "none" => AllTrue(v, sess[q].outgoing)
    BY <1>2, <1>5
  <2>3. Had(s.nextTarget, D, submitted[q], sess[q].outgoing)
    BY <1>2
  <2> QED BY <1>8, <2>1, <2>2, <2>3 DEF OrderedTo
<1>11. \A x \in Peers : KeepsMessages(config'[x]) /\ OrderedTo(x)'
  BY <1>3, <1>9, <1>10 DEF InOrder
<1> QED BY <1>8, <1>11 DEF InOrder

(* What the order says of the two sides of a call.                          *)
LEMMA OrderSides ==
  ASSUME Paired, InOrder, NEW p \in Peers, NEW q, q = Other(p)
  PROVE  /\ KeepsMessages(config[p])
         /\ submitted[p] \in Seq(Nat) /\ delivered[p] \in Seq(Nat)
         /\ delivered[p] \o <<>> = delivered[p]
         /\ [submitted EXCEPT ![p] = submitted[p]] = submitted
         /\ [delivered EXCEPT ![p] = delivered[p]] = delivered
         /\ Recorded(submitted[p], sess[p].outgoing)
         /\ Had(sess[q].nextTarget, delivered[q], submitted[p], sess[p].outgoing)
         /\ sess[q].socket # "none" => AllTrue(wire[p], sess[p].outgoing)
         /\ Recorded(submitted[q], sess[q].outgoing)
         /\ Had(sess[p].nextTarget, delivered[p], submitted[q], sess[q].outgoing)
         /\ sess[p].socket # "none" => AllTrue(wire[q], sess[q].outgoing)
<1>1. q \in Peers /\ Other(q) = p
  BY OtherFacts
<1>2. /\ KeepsMessages(config[p])
      /\ submitted \in [Peers -> Seq(Nat)] /\ delivered \in [Peers -> Seq(Nat)]
      /\ OrderedTo(p) /\ OrderedTo(q)
  BY <1>1 DEF InOrder
<1>3. submitted[p] \in Seq(Nat) /\ delivered[p] \in Seq(Nat)
  BY <1>2
<1>4. delivered[p] \o <<>> = delivered[p]
  BY <1>3, ConcatEmptySeq
<1>5. /\ [submitted EXCEPT ![p] = submitted[p]] = submitted
      /\ [delivered EXCEPT ![p] = delivered[p]] = delivered
  BY <1>2
<1>6. /\ Recorded(submitted[p], sess[p].outgoing)
      /\ Had(sess[q].nextTarget, delivered[q], submitted[p], sess[p].outgoing)
      /\ sess[q].socket # "none" => AllTrue(wire[p], sess[p].outgoing)
  BY <1>1, <1>2 DEF OrderedTo
<1>7. /\ Recorded(submitted[q], sess[q].outgoing)
      /\ Had(sess[p].nextTarget, delivered[p], submitted[q], sess[q].outgoing)
      /\ sess[p].socket # "none" => AllTrue(wire[q], sess[q].outgoing)
  BY <1>1, <1>2 DEF OrderedTo
<1> QED BY <1>2, <1>3, <1>4, <1>5, <1>6, <1>7

(* A call of p that neither reads nor sends anything of an application's.   *)
LEMMA UnreadOrders ==
  ASSUME Paired, InOrder, Refused = {}, UNCHANGED <<config, submitted>>, NEW p \in Peers,
         NEW r \in Sessions, Keeps(sess[p], r), NEW kinds, "App" \notin kinds,
         Emits(config[p], sess[p], r, kinds), Calls(p, r)
  PROVE  InOrder' /\ delivered' = delivered
<1>1. PICK q : q = Other(p)
  OBVIOUS
<1>2. Silent(<<>>)
  BY DEF Silent
<1>3. Heard(r.calls) = <<>>
  <2>1. sess[p].calls = <<>>
    BY <1>1, Sides
  <2> QED BY <1>2, <2>1, HeardNothing DEF Keeps
<1>4. PICK D : D = delivered[p] \o Heard(r.calls)
  OBVIOUS
<1>5. D = delivered[p]
  BY <1>1, <1>3, <1>4, OrderSides
<1>6. PICK S : S = submitted[p]
  OBVIOUS
<1>7. PICK s : s = sess[p]
  OBVIOUS
<1>8. /\ s \in Sessions /\ StoreOk(s) /\ s.sent = <<>> /\ wire[p] \in Seq(Messages)
      /\ KeepsMessages(config[p]) /\ S \in Seq(Nat) /\ Recorded(S, s.outgoing)
  BY <1>1, <1>6, <1>7, Sides, OrderSides
<1>9. Recorded(S, r.outgoing) /\ Had(sess[q].nextTarget, delivered[q], S, r.outgoing)
  <2>1. Had(sess[q].nextTarget, delivered[q], S, s.outgoing)
    BY <1>1, <1>6, <1>7, OrderSides
  <2> QED BY <1>7, <1>8, <2>1, EmitsRecorded
<1>10. ASSUME sess[q].socket # "none"
       PROVE  AllTrue(wire[p], r.outgoing) /\ AllTrue(wire[p] \o r.sent, r.outgoing)
  <2>1. AllTrue(wire[p], s.outgoing)
    BY <1>1, <1>7, <1>10, OrderSides
  <2> QED BY <1>7, <1>8, <2>1, EmitsTrue
<1>11. Had(r.nextTarget, D, submitted[q], sess[q].outgoing)
  <2>1. r.nextTarget = sess[p].nextTarget
    BY DEF Keeps
  <2> QED BY <1>1, <1>5, <2>1, OrderSides
<1>12. r.socket # "none" => AllTrue(wire[q], sess[q].outgoing)
  <2>1. r.socket # "none" => sess[p].socket # "none"
    BY DEF Keeps
  <2> QED BY <1>1, <2>1, OrderSides
<1>13. submitted' = [submitted EXCEPT ![p] = S]
  BY <1>1, <1>6, OrderSides
<1>14. CallEnds(p, r, wire[q]) /\ UNCHANGED config
  BY <1>1 DEF Calls
<1>15. InOrder'
  BY <1>1, <1>4, <1>8, <1>9, <1>10, <1>11, <1>12, <1>13, <1>14, CallOrders
<1>16. delivered' = delivered
  <2>1. delivered' = [delivered EXCEPT ![p] = D]
    BY <1>4, <1>14 DEF CallEnds
  <2> QED BY <1>1, <1>5, <2>1, OrderSides
<1> QED BY <1>15, <1>16

LEMMA ConnectedOrders ==
  ASSUME Paired, InOrder, Refused = {}, NEW p \in Peers, Connected(p)
  PROVE  InOrder' /\ UNCHANGED <<submitted, delivered>>
<1>1. PICK r : r = OnConnected(config[p], sess[p])
  OBVIOUS
<1>2. config[p] \in PlainConfigs /\ sess[p] \in Sessions
  BY DEF Paired
<1>3. r \in Sessions /\ Stays(sess[p], r) /\ Emits(config[p], sess[p], r, AdminKinds)
  BY <1>1, <1>2, OnConnectedLemma
<1>4. Calls(p, r) /\ UNCHANGED <<config, submitted>>
  BY <1>1 DEF Connected
<1> QED BY <1>3, <1>4, StaysKeeps, UnreadOrders DEF AdminKinds

LEMMA TimerOrders ==
  ASSUME Paired, InOrder, Refused = {}, NEW p \in Peers, NEW due \in Deadlines, Timer(p, due)
  PROVE  InOrder' /\ UNCHANGED <<submitted, delivered>>
<1>1. PICK r : r = OnTimer(config[p], sess[p], due)
  OBVIOUS
<1>2. config[p] \in PlainConfigs /\ sess[p] \in Sessions /\ sess[p].rc = "ok"
  BY DEF Paired, Idle
<1>3. r \in Sessions /\ Stays(sess[p], r) /\ Emits(config[p], sess[p], r, AdminKinds)
  BY <1>1, <1>2, OnTimerLemma
<1>4. Calls(p, r) /\ UNCHANGED <<config, submitted>>
  BY <1>1 DEF Timer
<1> QED BY <1>3, <1>4, StaysKeeps, UnreadOrders DEF AdminKinds

LEMMA TimerCloseOrders ==
  ASSUME Paired, InOrder, Refused = {}, NEW p \in Peers, TimerClose(p)
  PROVE  InOrder' /\ UNCHANGED <<submitted, delivered>>
<1>1. PICK r : r = Close(config[p], sess[p])
  OBVIOUS
<1>2. config[p] \in PlainConfigs /\ sess[p] \in Sessions
  BY DEF Paired
<1>3. r \in Sessions /\ SameStore(sess[p], r) /\ Keeps(sess[p], r)
  BY <1>1, <1>2, CloseLemma
<1>4. Calls(p, r) /\ UNCHANGED <<config, submitted>>
  BY <1>1 DEF TimerClose
<1>5. Emits(config[p], sess[p], r, AdminKinds)
  BY <1>3 DEF Emits
<1> QED BY <1>3, <1>4, <1>5, UnreadOrders DEF AdminKinds

LEMMA LogoutOrders ==
  ASSUME Paired, InOrder, Refused = {}, NEW p \in Peers, Logout(p)
  PROVE  InOrder' /\ UNCHANGED <<submitted, delivered>>
<1>1. PICK r : r = DoLogout(config[p], sess[p])
  OBVIOUS
<1>2. config[p] \in PlainConfigs /\ sess[p] \in Sessions /\ sess[p].rc = "ok"
  BY DEF Paired, Idle
<1>3. r \in Sessions /\ Stays(sess[p], r) /\ Emits(config[p], sess[p], r, AdminKinds)
  BY <1>1, <1>2, DoLogoutLemma
<1>4. Calls(p, r) /\ UNCHANGED <<config, submitted>>
  BY <1>1 DEF Logout
<1> QED BY <1>3, <1>4, StaysKeeps, UnreadOrders DEF AdminKinds

LEMMA ConnectionLostOrders ==
  ASSUME Paired, InOrder, Refused = {}, NEW p \in Peers, ConnectionLost(p)
  PROVE  InOrder' /\ UNCHANGED <<submitted, delivered>>
<1>1. PICK s : s = sess[p]
  OBVIOUS
<1>2. PICK t : t = [s EXCEPT !.socket = "none"]
  OBVIOUS
<1>3. PICK r : r = OnDisconnected(config[p], t)
  OBVIOUS
<1>4. config[p] \in PlainConfigs /\ s \in Sessions
  BY <1>1 DEF Paired
<1>5. /\ t \in Sessions /\ SameStore(s, t) /\ t.calls = s.calls
      /\ t.nextTarget = s.nextTarget /\ t.socket = "none"
  BY <1>2, <1>4 DEF Sessions, SameStore
<1>6. /\ r \in Sessions /\ SameStore(t, r)
      /\ r.nextTarget = t.nextTarget /\ r.awaitingResend = FALSE /\ r.socket = t.socket
      /\ Silent(t.calls) => Silent(r.calls)
  BY <1>3, <1>4, <1>5, OnDisconnectedLemma
<1>7. Keeps(s, r)
  BY <1>5, <1>6 DEF Keeps
<1>8. Emits(config[p], s, r, AdminKinds)
  BY <1>5, <1>6 DEF Emits, SameStore
<1>9. Calls(p, r) /\ UNCHANGED <<config, submitted>>
  BY <1>1, <1>2, <1>3 DEF ConnectionLost
<1> QED BY <1>1, <1>6, <1>7, <1>8, <1>9, UnreadOrders DEF AdminKinds

(* A step between calls: what is under way may get lost, what is recorded   *)
(* and expected stays.                                                     *)
LEMMA LossOrders ==
  ASSUME InOrder, UNCHANGED <<config, submitted, delivered>>,
         \A p \in Peers : /\ sess'[p].outgoing = sess[p].outgoing
                          /\ sess'[p].nextTarget = sess[p].nextTarget
                          /\ sess'[p].socket # "none" =>
                               AllTrue(wire'[Other(p)], sess[Other(p)].outgoing)
  PROVE  InOrder'
<1>1. ASSUME NEW p \in Peers PROVE OrderedTo(p)'
  <2>1. PICK q \in Peers : q = Other(p)
    BY OtherFacts
  <2>2. /\ Recorded(submitted[q], sess[q].outgoing)
        /\ Had(sess[p].nextTarget, delivered[p], submitted[q], sess[q].outgoing)
    BY <2>1 DEF InOrder, OrderedTo
  <2>3. /\ Recorded(submitted'[q], sess'[q].outgoing)
        /\ Had(sess'[p].nextTarget, delivered'[p], submitted'[q], sess'[q].outgoing)
    BY <2>1, <2>2
  <2>4. sess'[p].socket # "none" => AllTrue(wire'[q], sess'[q].outgoing)
    BY <2>1
  <2> QED BY <2>1, <2>3, <2>4 DEF OrderedTo
<1>2. \A p \in Peers : KeepsMessages(config'[p]) /\ OrderedTo(p)'
  BY <1>1 DEF InOrder
<1> QED BY <1>2 DEF InOrder

LEMMA ConnectOrders ==
  ASSUME Paired, InOrder, Connect
  PROVE  InOrder' /\ UNCHANGED <<submitted, delivered>>
<1>1. /\ sess' = [p \in Peers |-> [sess[p] EXCEPT !.socket = "open"]]
      /\ wire' = [p \in Peers |-> <<>>] /\ UNCHANGED <<config, submitted, delivered>>
  BY DEF Connect
<1>2. ASSUME NEW p \in Peers
      PROVE  /\ sess'[p].outgoing = sess[p].outgoing
             /\ sess'[p].nextTarget = sess[p].nextTarget
             /\ sess'[p].socket # "none" =>
                  AllTrue(wire'[Other(p)], sess[Other(p)].outgoing)
  <2>1. PICK s \in Sessions : s = sess[p]
    BY DEF Paired
  <2>2. sess'[p] = [s EXCEPT !.socket = "open"]
    BY <1>1, <2>1
  <2>3. sess'[p].outgoing = s.outgoing /\ sess'[p].nextTarget = s.nextTarget
    BY <2>2 DEF Sessions
  <2>4. wire'[Other(p)] = <<>>
    BY <1>1, OtherFacts
  <2>5. AllTrue(<<>>, sess[Other(p)].outgoing)
    BY DEF AllTrue
  <2> QED BY <2>1, <2>3, <2>4, <2>5
<1> QED BY <1>1, <1>2, LossOrders

LEMMA CutOrders ==
  ASSUME Paired, InOrder, Cut
  PROVE  InOrder' /\ UNCHANGED <<submitted, delivered>>
<1>1. UNCHANGED <<config, submitted, delivered>>
  BY DEF Cut
<1>2. ASSUME NEW p \in Peers
      PROVE  /\ sess'[p].outgoing = sess[p].outgoing
             /\ sess'[p].nextTarget = sess[p].nextTarget
             /\ sess'[p].socket # "none" =>
                  AllTrue(wire'[Other(p)], sess[Other(p)].outgoing)
  <2>1. PICK s \in Sessions : s = sess[p]
    BY DEF Paired
  <2>2. sess'[p] = s \/ (sess'[p] = [s EXCEPT !.socket = "failing"] /\ s.socket = "open")
    BY <2>1 DEF Cut
  <2>3. /\ sess'[p].outgoing = s.outgoing /\ sess'[p].nextTarget = s.nextTarget
        /\ sess'[p].socket # "none" => s.socket # "none"
    BY <2>2 DEF Sessions
  <2>4. PICK q \in Peers : q = Other(p)
    BY OtherFacts
  <2>5. PICK o : o = sess[q].outgoing
    OBVIOUS
  <2>6. ASSUME s.socket # "none" PROVE AllTrue(wire'[q], o)
    <3>1. AllTrue(wire[q], o)
      BY <2>1, <2>4, <2>5, <2>6 DEF InOrder, OrderedTo
    <3>2. PICK v, w : v = wire'[q] /\ w = wire[q]
      OBVIOUS
    <3>3. Agree(v, w, Len(v)) /\ Len(v) \in Nat /\ Len(w) \in Nat
      <4>1. v \in Seq(Messages) /\ w \in Seq(Messages) /\ Agree(v, w, Len(v))
        BY <2>4, <3>2, CutShortens DEF Paired
      <4> QED BY <4>1, LenProperties
    <3>4. AllTrue(v, o)
      BY <3>1, <3>2, <3>3 DEF AllTrue, Agree
    <3> QED BY <3>2, <3>4
  <2> QED BY <2>1, <2>3, <2>4, <2>5, <2>6
<1> QED BY <1>1, <1>2, LossOrders

LEMMA TailTrue ==
  ASSUME NEW w \in Seq(Messages), w # <<>>, NEW o, AllTrue(w, o)
  PROVE  AllTrue(Tail(w), o)
<1>1. PICK v : v = Tail(w)
  OBVIOUS
<1>2. /\ Len(w) \in Nat /\ Len(v) = Len(w) - 1
      /\ \A k \in 1..Len(v) : v[k] = w[k + 1]
  BY <1>1, TailFacts
<1>3. \A k \in 1..Len(v) : k + 1 \in 1..Len(w)
  BY <1>2
<1> QED BY <1>1, <1>2, <1>3 DEF AllTrue

LEMMA EarlyReadOrders ==
  ASSUME Paired, InOrder, EarlyRead
  PROVE  InOrder' /\ UNCHANGED <<submitted, delivered>>
<1>1. /\ UNCHANGED <<sess, config, submitted, delivered>>
      /\ wire[I] # <<>> /\ wire' = [wire EXCEPT ![I] = Tail(@)]
  BY DEF EarlyRead
<1>2. ASSUME NEW p \in Peers
      PROVE  /\ sess'[p].outgoing = sess[p].outgoing
             /\ sess'[p].nextTarget = sess[p].nextTarget
             /\ sess'[p].socket # "none" =>
                  AllTrue(wire'[Other(p)], sess[Other(p)].outgoing)
  <2>1. PICK q \in Peers : q = Other(p)
    BY OtherFacts
  <2>2. PICK o : o = sess[q].outgoing
    OBVIOUS
  <2>3. sess[p].socket # "none" => AllTrue(wire[q], o)
    BY <2>1, <2>2 DEF InOrder, OrderedTo
  <2>4. wire'[q] = wire[q] \/ (wire'[q] = Tail(wire[q]) /\ wire[q] # <<>>)
    BY <1>1, <2>1 DEF Paired
  <2>5. wire[q] \in Seq(Messages)
    BY <2>1 DEF Paired
  <2>6. ASSUME sess[p].socket # "none" PROVE AllTrue(wire'[q], o)
    BY <2>3, <2>4, <2>5, <2>6, TailTrue
  <2> QED BY <1>1, <2>1, <2>2, <2>6
<1> QED BY <1>1, <1>2, LossOrders

LEMMA AppSendOrders ==
  ASSUME Paired, InOrder, Refused = {}, NEW p \in Peers, AppSend(p)
  PROVE  /\ InOrder' /\ delivered' = delivered
         /\ \/ submitted' = submitted
            \/ \E body \in Bodies : submitted' = [submitted EXCEPT ![p] = Append(@, body)]
<1>1. PICK body \in Bodies : body = Len(submitted[p]) + 1
  BY DEF AppSend
<1>2. PICK r : r = Send(config[p], sess[p], AppMsg(body))
  OBVIOUS
<1>3. config[p] \in PlainConfigs /\ sess[p] \in Sessions
  BY DEF Paired
<1>4. sess[p].nextSender \in Numbers
  BY <1>3 DEF Sessions
<1>5. PICK m \in Fresh({"App"}) : Carries(m, AppMsg(body), sess[p].nextSender) /\ m.body = body
  BY <1>4, FreshApp
<1>6. m \in Messages /\ m.kind = "App"
  BY DEF Fresh
<1>7. /\ r \in Sessions /\ Stays(sess[p], r) /\ r.rc \in {"ok", "io"}
      /\ r.rc = "ok" => Writes(config[p], sess[p], r, m)
      /\ r.rc # "ok" => SameStore(sess[p], r)
  BY <1>2, <1>3, <1>5, <1>6, SendLemma
<1>8. /\ Calls(p, r) /\ UNCHANGED config
      /\ submitted' = [submitted EXCEPT ![p] = IF r.rc = "ok" THEN Append(@, body) ELSE @]
  BY <1>1, <1>2 DEF AppSend, Ok
<1>9. CASE r.rc # "ok"
  <2>1. submitted' = submitted
    BY <1>8, <1>9, OrderSides
  <2>2. Emits(config[p], sess[p], r, AdminKinds)
    BY <1>7, <1>9 DEF Emits
  <2> QED BY <1>7, <1>8, <2>1, <2>2, StaysKeeps, UnreadOrders DEF AdminKinds
<1>10. CASE r.rc = "ok"
  <2>1. PICK q : q = Other(p)
    OBVIOUS
  <2>2. PICK s : s = sess[p]
    OBVIOUS
  <2>3. PICK S : S = submitted[p]
    OBVIOUS
  <2>4. PICK T : T = Append(S, Len(S) + 1)
    OBVIOUS
  <2>5. PICK x : x = Kept(m)
    OBVIOUS
  <2>6. PICK o : o = s.outgoing
    OBVIOUS
  <2>7. PICK v : v = Append(o, x)
    OBVIOUS
  <2>8. /\ s \in Sessions /\ s.sent = <<>> /\ s.calls = <<>> /\ s.nextSender \in Nat
        /\ wire[p] \in Seq(Messages) /\ sess[q].nextTarget \in Nat
        /\ KeepsMessages(config[p]) /\ S \in Seq(Nat) /\ Recorded(S, o)
        /\ Had(sess[q].nextTarget, delivered[q], S, o)
        /\ sess[q].socket # "none" => AllTrue(wire[p], o)
    BY <2>1, <2>2, <2>3, <2>6, Sides, OrderSides DEF Numbers
  <2>9. /\ sess[q].nextTarget =< s.nextSender
        /\ sess[q].socket # "none" => Ordered(s.nextSender, wire[p])
    <3>1. Direction(sess[q].nextTarget, sess[q].awaitingResend, s.nextSender,
                    wire[p], wire[q], sess[q].socket # "none")
      BY <2>1, <2>2, Sides
    <3> QED BY <3>1 DEF Direction
  <2>10. /\ m.seq = s.nextSender /\ r.sent = <<m>> /\ r.outgoing = v
    BY <1>7, <1>10, <2>2, <2>5, <2>6, <2>7, <2>8 DEF Writes
  <2>11. /\ x \in StoredIn(Payloads) /\ x.seq = s.nextSender /\ ~x.admin
         /\ x.body = Len(S) + 1
    BY <1>1, <1>5, <1>6, <2>3, <2>5, <2>10, KeptFacts
  <2>12. o \in Seq(StoredIn(Payloads))
    BY <2>6, <2>8 DEF Sessions
  <2>13. /\ Recorded(T, v)
         /\ \A e \in Nat : \A D : Had(e, D, S, o) /\ e =< x.seq => Had(e, D, T, v)
         /\ \A y \in Messages : TrueTo(y, o) /\ Beyond(y) =< x.seq => TrueTo(y, v)
    <3>1. Recorded(S, o) /\ x \in StoredIn(Payloads) /\ ~x.admin /\ x.body = Len(S) + 1
      BY <2>8, <2>11
    <3>2. Grown(T, S, Len(S) + 1) /\ Grown(v, o, x)
      BY <2>4, <2>7 DEF Grown
    <3> QED BY <2>12, <3>1, <3>2, AppKept
  <2>14. Had(sess[q].nextTarget, delivered[q], T, v)
    BY <2>8, <2>9, <2>11, <2>13
  <2>15. TrueTo(m, v)
    <3>1. v[Len(o) + 1] = x /\ Len(o) + 1 \in 1..Len(v)
      BY <2>7, <2>11, <2>12, MoreKept
    <3> QED BY <1>1, <1>5, <1>6, <2>3, <2>10, <2>11, <3>1 DEF TrueTo
  <2>16. ASSUME sess[q].socket # "none"
         PROVE  AllTrue(wire[p], v) /\ AllTrue(wire[p] \o r.sent, v)
    <3>1. PICK w : w = wire[p]
      OBVIOUS
    <3>2. w \in Seq(Messages) /\ Ordered(s.nextSender, w) /\ AllTrue(w, o)
      BY <2>8, <2>9, <2>16, <3>1
    <3>3. \A k \in 1..Len(w) : w[k] \in Messages
      BY <3>2, ElementOfSeq, LenProperties
    <3>4. AllTrue(w, v)
      BY <2>11, <2>13, <3>2, <3>3 DEF AllTrue, Ordered
    <3>5. w \o r.sent = Append(w, m)
      BY <1>6, <2>10, <3>2, AppendFacts
    <3>6. AllTrue(Append(w, m), v)
      <4>1. PICK u : u = Append(w, m)
        OBVIOUS
      <4>2. /\ Len(u) = Len(w) + 1 /\ u[Len(w) + 1] = m /\ Len(w) \in Nat
            /\ \A k \in 1..Len(w) : u[k] = w[k]
        BY <1>6, <3>2, <4>1, AppendFacts, LenProperties
      <4> QED BY <2>15, <3>4, <4>1, <4>2 DEF AllTrue
    <3> QED BY <3>1, <3>4, <3>5, <3>6
  <2>17. T \in Seq(Nat)
    BY <2>13 DEF Recorded
  <2>18. submitted' = [submitted EXCEPT ![p] = T]
    BY <1>1, <1>8, <1>10, <2>3, <2>4
  <2>19. Heard(r.calls) = <<>>
    <3>1. Silent(<<>>)
      BY DEF Silent
    <3>2. r.calls = <<>>
      BY <1>7, <2>2, <2>8 DEF Stays
    <3> QED BY <3>1, <3>2, HeardNothing
  <2>20. PICK D : D = delivered[p] \o Heard(r.calls)
    OBVIOUS
  <2>21. D = delivered[p]
    BY <2>1, <2>19, <2>20, OrderSides
  <2>22. r.nextTarget = s.nextTarget /\ r.socket = s.socket
    BY <1>7, <2>2 DEF Stays
  <2>23. /\ Had(r.nextTarget, D, submitted[q], sess[q].outgoing)
         /\ r.socket # "none" => AllTrue(wire[q], sess[q].outgoing)
    BY <2>1, <2>2, <2>21, <2>22, OrderSides
  <2>24. CallEnds(p, r, wire[q]) /\ UNCHANGED config
    BY <1>8, <2>1 DEF Calls
  <2>25. Recorded(T, r.outgoing) /\ Had(sess[q].nextTarget, delivered[q], T, r.outgoing)
    BY <2>10, <2>13, <2>14
  <2>26. sess[q].socket # "none" =>
           AllTrue(wire[p], r.outgoing) /\ AllTrue(wire[p] \o r.sent, r.outgoing)
    BY <2>10, <2>16
  <2>27. r \in Sessions
    BY <1>7
  <2>28. InOrder'
    BY <2>1, <2>17, <2>18, <2>20, <2>23, <2>24, <2>25, <2>26, <2>27, CallOrders
  <2>29. delivered' = delivered
    <3>1. delivered' = [delivered EXCEPT ![p] = D]
      BY <2>20, <2>24 DEF CallEnds
    <3> QED BY <2>1, <2>21, <3>1, OrderSides
  <2>30. submitted' = [submitted EXCEPT ![p] = Append(@, body)]
    BY <1>8, <1>10
  <2> QED BY <2>28, <2>29, <2>30
<1> QED BY <1>9, <1>10

(* A message is read: nothing is delivered, or the next one submitted is.   *)
LEMMA ReadOrders ==
  ASSUME Paired, InOrder, Refused = {}, Unreplayable = {}, NEW p \in Peers, Read(p)
  PROVE  /\ InOrder' /\ submitted' = submitted
         /\ \/ delivered' = delivered
            \/ /\ Len(delivered[p]) < Len(submitted[Other(p)])
               /\ delivered' =
                    [delivered EXCEPT ![p] = Append(@, Len(delivered[p]) + 1)]
<1>1. PICK q : q = Other(p)
  OBVIOUS
<1>2. PICK c : c = config[p]
  OBVIOUS
<1>3. PICK s : s = sess[p]
  OBVIOUS
<1>4. PICK w : w = wire[q]
  OBVIOUS
<1>5. PICK r : r = OnReceive(c, s, Head(w))
  OBVIOUS
<1>6. /\ w # <<>> /\ s.socket # "none" /\ CallEnds(p, r, Tail(w))
      /\ config' = config /\ submitted' = submitted
  BY <1>1, <1>2, <1>3, <1>4, <1>5 DEF Read
<1>7. /\ q \in Peers /\ c \in PlainConfigs
      /\ s \in Sessions /\ sess[q] \in Sessions /\ StoreOk(s)
      /\ s.sent = <<>> /\ s.calls = <<>> /\ s.rc = "ok"
      /\ s.nextTarget \in Numbers
      /\ wire[p] \in Seq(Messages) /\ w \in Seq(Messages)
      /\ Direction(s.nextTarget, s.awaitingResend, sess[q].nextSender, w, wire[p], TRUE)
      /\ Direction(sess[q].nextTarget, sess[q].awaitingResend, s.nextSender, wire[p], w,
                   sess[q].socket # "none")
  <2>1. (s.socket # "none") = TRUE
    BY <1>6
  <2> QED BY <1>1, <1>2, <1>3, <1>4, <2>1, Sides
<1>8. PICK m : m = Head(w)
  OBVIOUS
<1>9. m \in Messages /\ m = w[1] /\ 1 \in 1..Len(w)
  BY <1>6, <1>7, <1>8, TailFacts
<1>10. Quiet(c, s, r) \/ Finds(c, s, r, m) \/ Takes(c, s, r, m)
  <2>1. m.possDup => s.nextTarget =< m.seq
    <3>1. Settled(s.nextTarget, w) \/ Waiting(s.nextTarget, w)
      BY <1>7 DEF Direction
    <3>2. s.nextTarget \in Nat
      BY <1>7 DEF Numbers
    <3> QED BY <1>6, <1>7, <1>8, <3>1, <3>2, HeadNotOld DEF Replayed
  <2>2. Asks(m) => 1 =< m.begin /\ m.begin =< m.end /\ m.end < s.nextSender
    BY <1>7, <1>9 DEF Direction, AsksBelow
  <2>3. Answerable(s, m)
    BY <1>7, <2>2 DEF Answerable, StoreOk
  <2> QED BY <1>5, <1>7, <1>8, <1>9, <2>1, <2>3, OnReceiveLemma
<1>11. PICK S, o, D, E, f :
         /\ S = submitted[q] /\ o = sess[q].outgoing /\ D = delivered[p]
         /\ E = D \o Heard(r.calls) /\ f = s.nextTarget
  OBVIOUS
<1>12. /\ Recorded(S, o) /\ Had(f, D, S, o) /\ AllTrue(w, o)
       /\ o \in Seq(StoredIn(Payloads)) /\ Ascending(o)
       /\ D \in Seq(Nat) /\ D \o <<>> = D
       /\ [delivered EXCEPT ![p] = D] = delivered
  <2>1. /\ Recorded(S, o) /\ Had(f, D, S, o) /\ AllTrue(w, o)
        /\ D \in Seq(Nat) /\ D \o <<>> = D
        /\ [delivered EXCEPT ![p] = D] = delivered
    BY <1>1, <1>3, <1>4, <1>6, <1>11, OrderSides
  <2>2. o \in Seq(StoredIn(Payloads)) /\ Ascending(o)
    BY <1>7, <1>11 DEF Sessions, Paired, StoreOk
  <2> QED BY <2>1, <2>2
<1>13. AllTrue(Tail(w), o)
  BY <1>6, <1>7, <1>12, TailTrue
<1>14. PICK B, v : B = submitted[p] /\ v = s.outgoing
  OBVIOUS
<1>15. /\ KeepsMessages(c) /\ B \in Seq(Nat) /\ Recorded(B, v)
       /\ Had(sess[q].nextTarget, delivered[q], B, v)
       /\ sess[q].socket # "none" => AllTrue(wire[p], v)
       /\ [submitted EXCEPT ![p] = B] = submitted
  BY <1>1, <1>2, <1>3, <1>14, OrderSides
<1>16. ASSUME r \in Sessions, Recorded(B, r.outgoing),
              Had(sess[q].nextTarget, delivered[q], B, r.outgoing),
              sess[q].socket # "none" =>
                AllTrue(wire[p], r.outgoing) /\ AllTrue(wire[p] \o r.sent, r.outgoing),
              Had(r.nextTarget, E, S, o)
       PROVE  InOrder' /\ delivered' = [delivered EXCEPT ![p] = E]
  <2>1. E = delivered[p] \o Heard(r.calls)
    BY <1>11
  <2>2. submitted' = [submitted EXCEPT ![p] = B]
    BY <1>6, <1>15
  <2>3. Had(r.nextTarget, E, submitted[q], sess[q].outgoing)
    BY <1>11, <1>16
  <2>4. r.socket # "none" => AllTrue(Tail(w), sess[q].outgoing)
    BY <1>11, <1>13
  <2>5. UNCHANGED config /\ CallEnds(p, r, Tail(w)) /\ B \in Seq(Nat)
    BY <1>6, <1>15
  <2>6. InOrder'
    BY <1>1, <1>16, <2>1, <2>2, <2>3, <2>4, <2>5, CallOrders
  <2>7. delivered' = [delivered EXCEPT ![p] = E]
    BY <1>6, <2>1 DEF CallEnds
  <2> QED BY <2>6, <2>7
<1>17. ASSUME NEW kinds, "App" \notin kinds, Emits(c, s, r, kinds)
       PROVE  /\ Recorded(B, r.outgoing)
              /\ Had(sess[q].nextTarget, delivered[q], B, r.outgoing)
              /\ sess[q].socket # "none" =>
                   AllTrue(wire[p], r.outgoing) /\ AllTrue(wire[p] \o r.sent, r.outgoing)
  <2>1. Recorded(B, r.outgoing) /\ Had(sess[q].nextTarget, delivered[q], B, r.outgoing)
    BY <1>7, <1>14, <1>15, <1>17, EmitsRecorded
  <2>2. ASSUME sess[q].socket # "none"
        PROVE  AllTrue(wire[p], r.outgoing) /\ AllTrue(wire[p] \o r.sent, r.outgoing)
    BY <1>7, <1>14, <1>15, <1>17, <2>2, EmitsTrue
  <2> QED BY <2>1, <2>2
<1>18. ASSUME Silent(r.calls)
       PROVE  E = D
  <2>1. Heard(r.calls) = <<>>
    BY <1>18, HeardNothing
  <2> QED BY <1>11, <1>12, <2>1
<1>19. Silent(s.calls)
  BY <1>7 DEF Silent
<1>20. CASE Quiet(c, s, r)
  <2>1. r \in Sessions /\ Emits(c, s, r, AdminKinds) /\ r.nextTarget = f /\ Silent(r.calls)
    BY <1>11, <1>19, <1>20 DEF Quiet, Keeps
  <2>2. "App" \notin AdminKinds
    BY DEF AdminKinds
  <2>3. E = D
    BY <1>18, <2>1
  <2>4. Had(r.nextTarget, E, S, o)
    BY <1>12, <2>1, <2>3
  <2>5. InOrder' /\ delivered' = [delivered EXCEPT ![p] = E]
    BY <1>16, <1>17, <2>1, <2>2, <2>4
  <2> QED BY <1>6, <1>12, <2>3, <2>5
<1>21. CASE Finds(c, s, r, m)
  <2>1. /\ r \in Sessions /\ Emits(c, s, r, {"ResendRequest"})
        /\ r.nextTarget = f /\ Silent(r.calls)
    BY <1>11, <1>19, <1>21 DEF Finds, Emits
  <2>2. E = D
    BY <1>18, <2>1
  <2>3. Had(r.nextTarget, E, S, o)
    BY <1>12, <2>1, <2>2
  <2>4. InOrder' /\ delivered' = [delivered EXCEPT ![p] = E]
    BY <1>16, <1>17, <2>1, <2>3
  <2> QED BY <1>6, <1>12, <2>2, <2>4
<1>22. CASE Takes(c, s, r, m)
  <2>1. /\ Recorded(B, r.outgoing)
        /\ Had(sess[q].nextTarget, delivered[q], B, r.outgoing)
        /\ sess[q].socket # "none" =>
             AllTrue(wire[p], r.outgoing) /\ AllTrue(wire[p] \o r.sent, r.outgoing)
    <3>1. CASE Emits(c, s, r, AdminKinds)
      BY <1>17, <3>1 DEF AdminKinds
    <3>2. CASE Answers(c, s, r, m)
      <4>1. r.outgoing = v
        BY <1>14, <3>2 DEF Answers
      <4>2. ASSUME sess[q].socket # "none" PROVE AllTrue(wire[p] \o r.sent, v)
        BY <1>7, <1>14, <1>15, <3>2, <4>2, AnswersTrue
      <4> QED BY <1>15, <4>1, <4>2
    <3> QED BY <1>22, <3>1, <3>2 DEF Takes
  <2>2. r \in Sessions /\ m.seq = f /\ r.nextTarget = Beyond(m)
    BY <1>11, <1>22 DEF Takes
  <2>3. m.seq < Beyond(m) /\ TrueTo(m, o)
    BY <1>7, <1>9, <1>12 DEF Direction, Ordered, AllTrue
  <2>4. /\ m.kind = "App" => /\ m.body = Len(D) + 1 /\ Len(D) < Len(S)
                             /\ Had(Beyond(m), Append(D, m.body), S, o)
        /\ m.kind # "App" => Had(Beyond(m), D, S, o)
    BY <1>9, <1>12, <2>2, <2>3, NextDelivered
  <2>5. CASE m.kind = "App"
    <3>1. PICK b : b = m.body
      OBVIOUS
    <3>2. Heard(r.calls) = <<b>>
      <4>1. r.calls = Append(<<>>, [event |-> "fromApp", body |-> b])
        BY <1>7, <1>22, <2>5, <3>1 DEF Takes
      <4> QED BY <4>1, HeardOne
    <3>3. b \in Nat
      BY <1>12, <2>4, <2>5, <3>1, LenProperties
    <3>4. E = Append(D, b)
      BY <1>11, <1>12, <3>2, <3>3, AppendIsConcat
    <3>5. Had(r.nextTarget, E, S, o)
      BY <2>2, <2>4, <2>5, <3>1, <3>4
    <3>6. InOrder' /\ delivered' = [delivered EXCEPT ![p] = E]
      BY <1>16, <2>1, <2>2, <3>5
    <3>7. b = Len(D) + 1 /\ Len(D) < Len(S)
      BY <2>4, <2>5, <3>1
    <3>8. delivered' = [delivered EXCEPT ![p] = Append(@, Len(delivered[p]) + 1)]
      BY <1>11, <3>4, <3>6, <3>7
    <3>9. Len(delivered[p]) < Len(submitted[Other(p)])
      BY <1>1, <1>11, <3>7
    <3> QED BY <1>6, <3>6, <3>8, <3>9
  <2>6. CASE m.kind # "App"
    <3>1. E = D
      BY <1>18, <1>19, <1>22, <2>6 DEF Takes
    <3>2. Had(r.nextTarget, E, S, o)
      BY <2>2, <2>4, <2>6, <3>1
    <3>3. InOrder' /\ delivered' = [delivered EXCEPT ![p] = E]
      BY <1>16, <2>1, <2>2, <3>2
    <3> QED BY <1>6, <1>12, <3>1, <3>3
  <2> QED BY <2>5, <2>6
<1> QED BY <1>10, <1>20, <1>21, <1>22

(* Initially nothing is recorded, under way or delivered.                   *)
LEMMA OrderInit ==
  ASSUME Init, \A p \in Peers : KeepsMessages(config[p])
  PROVE  InOrder
<1>1. /\ sess = [p \in Peers |-> [Created EXCEPT !.listening = (p = A)]]
      /\ submitted = [p \in Peers |-> <<>>] /\ delivered = [p \in Peers |-> <<>>]
  BY DEF Init
<1>2. ASSUME NEW p \in Peers
      PROVE  /\ sess[p].outgoing = <<>> /\ sess[p].socket = "none"
             /\ submitted[p] = <<>> /\ delivered[p] = <<>>
  BY <1>1, <1>2 DEF Created
<1>3. <<>> \in Seq(Nat) /\ Len(<<>>) = 0
  BY EmptySeq
<1>4. Recorded(<<>>, <<>>)
  BY <1>3 DEF Recorded
<1>5. \A e : Had(e, <<>>, <<>>, <<>>)
  BY <1>3 DEF Had
<1>6. ASSUME NEW p \in Peers PROVE OrderedTo(p)
  <2>1. PICK q \in Peers : q = Other(p)
    BY OtherFacts
  <2>2. /\ Recorded(submitted[q], sess[q].outgoing)
        /\ Had(sess[p].nextTarget, delivered[p], submitted[q], sess[q].outgoing)
    BY <1>2, <1>4, <1>5
  <2> QED BY <1>2, <2>1, <2>2 DEF OrderedTo
<1>7. submitted \in [Peers -> Seq(Nat)] /\ delivered \in [Peers -> Seq(Nat)]
  BY <1>1, <1>3
<1> QED BY <1>6, <1>7 DEF InOrder

(* What a step may do to what was submitted and delivered.                  *)
Submits(p) ==
  /\ delivered' = delivered
  /\ \E body \in Bodies : submitted' = [submitted EXCEPT ![p] = Append(@, body)]

Delivers(p) ==
  /\ submitted' = submitted /\ Len(delivered[p]) < Len(submitted[Other(p)])
  /\ delivered' = [delivered EXCEPT ![p] = Append(@, Len(delivered[p]) + 1)]

LEMMA OrderStep ==
  ASSUME Paired, InOrder, Refused = {}, Unreplayable = {}, [Next]_vars
  PROVE  /\ InOrder'
         /\ \/ UNCHANGED <<submitted, delivered>>
            \/ \E p \in Peers : Submits(p) \/ Delivers(p)
<1>1. CASE UNCHANGED vars
  <2>1. UNCHANGED <<config, sess, wire, submitted, delivered>>
    BY <1>1 DEF vars
  <2>2. \A p \in Peers : OrderedTo(p)' = OrderedTo(p)
    BY <2>1 DEF OrderedTo
  <2> QED BY <2>1, <2>2 DEF InOrder
<1>2. CASE Connect
  BY <1>2, ConnectOrders
<1>3. CASE EarlyRead
  BY <1>3, EarlyReadOrders
<1>4. CASE Cut
  BY <1>4, CutOrders
<1>5. ASSUME NEW p \in Peers, Step(p)
      PROVE  /\ InOrder'
             /\ \/ UNCHANGED <<submitted, delivered>>
                \/ Submits(p) \/ Delivers(p)
  <2>1. CASE Connected(p)
    BY <2>1, ConnectedOrders
  <2>2. CASE Read(p)
    BY <2>2, ReadOrders DEF Delivers
  <2>3. CASE ConnectionLost(p)
    BY <2>3, ConnectionLostOrders
  <2>4. CASE TimerClose(p)
    BY <2>4, TimerCloseOrders
  <2>5. CASE Logout(p)
    BY <2>5, LogoutOrders
  <2>6. CASE AppSend(p)
    BY <2>6, AppSendOrders DEF Submits
  <2>7. ASSUME NEW due \in Deadlines, Timer(p, due)
        PROVE  InOrder' /\ UNCHANGED <<submitted, delivered>>
    BY <2>7, TimerOrders
  <2> QED BY <1>5, <2>1, <2>2, <2>3, <2>4, <2>5, <2>6, <2>7 DEF Step, Strand
<1> QED BY <1>1, <1>2, <1>3, <1>4, <1>5 DEF Next

(* The sessions keep what they send, every message can be sent again, and   *)
(* the applications refuse none.                                           *)
NothingForgotten ==
  /\ Refused = {} /\ Unreplayable = {}
  /\ \A s \in Scenarios : \A p \in Peers : KeepsMessages(s.config[p])

OrderInv == PairInv /\ (~Resets => InOrder)

LEMMA OrderInvInit ==
  ASSUME NothingForgotten, Init
  PROVE  OrderInv /\ Promise!Init
<1>1. \A p \in Peers : KeepsMessages(config[p])
  BY DEF Init, NothingForgotten
<1>2. InOrder
  BY <1>1, OrderInit
<1>3. submitted = [p \in Peers |-> <<>>] /\ delivered = [p \in Peers |-> <<>>]
  BY DEF Init
<1> QED BY <1>2, <1>3, PairInit DEF OrderInv, Promise!Init, Concerned

LEMMA OrderInvStep ==
  ASSUME NothingForgotten, OrderInv, [Next]_vars
  PROVE  OrderInv' /\ [Promise!Next]_<<Concerned(submitted), Concerned(delivered)>>
<1>1. PairInv' /\ (Resets' = Resets)
  BY PairStep, ConfigStays DEF OrderInv, Resets
<1>2. CASE Resets
  <2>1. /\ Concerned(submitted)' = Concerned(submitted)
        /\ Concerned(delivered)' = Concerned(delivered)
    BY <1>1, <1>2 DEF Concerned
  <2> QED BY <1>1, <1>2, <2>1 DEF OrderInv
<1>3. CASE ~Resets
  <2>1. Paired /\ InOrder
    BY <1>3 DEF OrderInv, PairInv
  <2>2. /\ InOrder'
        /\ \/ UNCHANGED <<submitted, delivered>>
           \/ \E p \in Peers : Submits(p) \/ Delivers(p)
    BY <2>1, OrderStep DEF NothingForgotten
  <2>3. /\ Concerned(submitted) = submitted /\ Concerned(submitted)' = submitted'
        /\ Concerned(delivered) = delivered /\ Concerned(delivered)' = delivered'
    BY <1>1, <1>3 DEF Concerned
  <2>4. CASE UNCHANGED <<submitted, delivered>>
    BY <1>1, <2>2, <2>3, <2>4 DEF OrderInv
  <2>5. ASSUME NEW p \in Peers, Submits(p)
        PROVE  Promise!Next
    BY <2>3, <2>5 DEF Submits, Promise!Next, Promise!Submit
  <2>6. ASSUME NEW p \in Peers, Delivers(p)
        PROVE  Promise!Next
    <3>1. PICK n : n = Len(delivered[p]) + 1
      OBVIOUS
    <3>2. PICK from : from = submitted[Other(p)]
      OBVIOUS
    <3>3. n \in 1..Len(from) /\ from[n] = n
      <4>1. Recorded(from, sess[Other(p)].outgoing)
        BY <2>1, <3>2 DEF InOrder, OrderedTo
      <4>2. Len(delivered[p]) \in Nat /\ Len(from) \in Nat
        <5>1. delivered[p] \in Seq(Nat) /\ from \in Seq(Nat)
          BY <2>1, <4>1 DEF InOrder, Recorded
        <5> QED BY <5>1, LenProperties
      <4>3. n \in 1..Len(from)
        BY <2>6, <3>1, <3>2, <4>2 DEF Delivers
      <4> QED BY <4>1, <4>3 DEF Recorded
    <3>4. delivered' = [delivered EXCEPT ![p] = Append(@, from[n])]
      BY <2>6, <3>1, <3>3 DEF Delivers
    <3>5. n =< Len(from) /\ submitted' = submitted
      BY <2>6, <3>3 DEF Delivers
    <3> QED BY <2>3, <3>1, <3>2, <3>4, <3>5 DEF Promise!Next, Promise!Receive
  <2> QED BY <1>1, <2>2, <2>4, <2>5, <2>6 DEF OrderInv
<1> QED BY <1>2, <1>3

(* Two sessions that never reset, with stores that keep what they send,     *)
(* hand each application exactly what the other one sent, in order and     *)
(* without duplicates, across any number of cuts, reconnections, resends,  *)
(* deadlines and logouts (onReceive, onGap, handleResendRequestReceived).  *)
THEOREM DeliversInOrder ==
  ASSUME NothingForgotten
  PROVE  Spec => InOrderDelivery
<1>1. Init => OrderInv /\ Promise!Init
  BY OrderInvInit
<1>2. OrderInv /\ [Next]_vars
        => OrderInv' /\ [Promise!Next]_<<Concerned(submitted), Concerned(delivered)>>
  BY OrderInvStep
<1> QED BY <1>1, <1>2, PTL DEF Spec, InOrderDelivery, Promise!Spec, Promise!vars


-----------------------------------------------------------------------------
(* A connection that loses nothing.                                         *)

(* Everything from number e on is under way, in order and for the first     *)
(* time, and nothing was missing before it.                                *)
Exact(e, n, w) ==
  /\ e + Len(w) = n
  /\ \A k \in 1..Len(w) : w[k].seq = e + k - 1 /\ ~Replayed(w[k]) /\ ~Asks(w[k])

(* The session may still take what arrives: it drops all of it once it is   *)
(* Disconnected and its onConnected has run.                               *)
Listens(p) ==
  sess[p].socket # "none" /\ (starting[p] \/ sess[p].status # "Disconnected")

CalmTo(p) ==
  LET q == Other(p)
  IN  /\ sess[p].awaitingResend = FALSE
      /\ sess[p].socket = "open" \/ sess[p].socket = "none"
      /\ sess[p].socket = "open" => alive
      /\ Listens(p) => Exact(sess[p].nextTarget, sess[q].nextSender, wire[q])
      /\ left.connects # 0 => /\ sess[p].socket = "none" /\ sess[p].status = "Disconnected"
                              /\ sess[p].nextTarget = sess[q].nextSender

Calm ==
  /\ starting \in [Peers -> BOOLEAN] /\ left \in [Inputs -> Nat]
  /\ left.connects =< 1 /\ left.cuts = 0 /\ left.early = 0
  /\ \A p \in Peers : CalmTo(p)

(* A send on an open socket succeeds.                                       *)
LEMMA SendWorks ==
  ASSUME NEW c, NEW s \in Sessions, s.socket = "open", NEW msg
  PROVE  Send(c, s, msg).rc = "ok"
<1>1. PICK m : m = [msg EXCEPT !.seq = s.nextSender]
  OBVIOUS
<1>2. PICK w : w = Write(s, m)
  OBVIOUS
<1>3. w = [s EXCEPT !.sent = Append(@, m)]
  BY <1>2 DEF Write
<1>4. w.disk = "ok"
  BY <1>3 DEF Sessions
<1>5. PICK t : t = StoreOutgoing(c, w, m)
  OBVIOUS
<1>6. ~DiskRefuses(c, w)
  BY <1>4 DEF DiskRefuses
<1>7. t.rc = "ok"
  BY <1>3, <1>5, <1>6 DEF StoreOutgoing, Sessions
<1>8. Send(c, s, msg) = [t EXCEPT !.nextSender = @ + 1]
  BY <1>1, <1>2, <1>5, <1>7 DEF Send, Writable, Ok
<1>9. \E x : t = [w EXCEPT !.outgoing = x, !.rc = "ok"]
  BY <1>5, <1>6 DEF StoreOutgoing
<1> QED BY <1>3, <1>7, <1>8, <1>9 DEF Sessions

LEMMA SendLogonWorks ==
  ASSUME NEW c \in PlainConfigs, NEW s \in Sessions, s.socket = "open"
  PROVE  SendLogon(c, s).rc = "ok"
<1>1. PICK t : t = Send(c, s, LogonMsg(FALSE, TRUE))
  OBVIOUS
<1>2. t.rc = "ok"
  BY <1>1, SendWorks
<1>3. t \in Sessions
  <2>1. s.nextSender \in Numbers
    BY DEF Sessions
  <2> QED BY <1>1, <2>1, FreshMessages, SendQuiet
<1>4. SendLogon(c, s) = [t EXCEPT !.sentLogon = TRUE, !.status = "LogonSent"]
  BY <1>1, <1>2, PlainFacts DEF SendLogon, Ok
<1> QED BY <1>2, <1>3, <1>4 DEF Sessions

LEMMA SendLogoutWorks ==
  ASSUME NEW c \in PlainConfigs, NEW s \in Sessions, s.rc = "ok", s.socket = "open"
  PROVE  SendLogout(c, s).rc = "ok"
<1>1. CASE Closing(s) \/ s.status = "Disconnected"
  BY <1>1 DEF SendLogout
<1>2. CASE ~(Closing(s) \/ s.status = "Disconnected")
  <2>1. PICK t : t = Send(c, s, LogoutMsg)
    OBVIOUS
  <2>2. t.rc = "ok"
    BY <2>1, SendWorks
  <2>3. t \in Sessions
    <3>1. s.nextSender \in Numbers
      BY DEF Sessions
    <3> QED BY <2>1, <3>1, FreshMessages, SendQuiet
  <2>4. SendLogout(c, s) = [t EXCEPT !.sentLogout = TRUE, !.status = "LogoutSent"]
    BY <1>2, <2>1, <2>2 DEF SendLogout, Ok
  <2> QED BY <2>2, <2>3, <2>4 DEF Sessions
<1> QED BY <1>1, <1>2

(* A message with the expected number is handled, or it costs the socket.   *)
LEMMA LogonWorks ==
  ASSUME NEW c \in PlainConfigs, NEW s \in Sessions, s.rc = "ok", s.socket = "open",
         NEW m \in Messages, m.kind = "Logon", NEW r, r = HandleLogon(c, s, m)
  PROVE  r.rc = "ok" \/ r.socket = "none"
<1>1. m.reset = FALSE /\ m.acceptable = TRUE
  <2>1. m \in LogonMessages
    BY MessageKinds
  <2> QED BY <2>1 DEF LogonMessages
<1>2. CASE s.receivedLogon \/ LoggedOn(s)
  <2>1. PICK t : t = SendLogout(c, s)
    OBVIOUS
  <2>2. t \in Sessions /\ t.rc = "ok"
    BY <2>1, SendLogoutLemma, SendLogoutWorks
  <2>3. PICK u : u = Close(c, t)
    OBVIOUS
  <2>4. u \in Sessions /\ u.socket = "none"
    BY <2>2, <2>3, CloseLemma
  <2>5. r = Fail(u, "session")
    BY <1>2, <2>1, <2>2, <2>3 DEF HandleLogon, HandleDuplicateLogon, Ok
  <2> QED BY <2>4, <2>5 DEF Fail, Sessions
<1>3. CASE ~(s.receivedLogon \/ LoggedOn(s))
  <2>1. PICK t : t = [s EXCEPT !.receivedLogon = TRUE]
    OBVIOUS
  <2>2. t \in Sessions /\ t.rc = "ok" /\ t.socket = "open"
    <3>1. TRUE \in BOOLEAN
      OBVIOUS
    <3> QED BY <2>1, <3>1 DEF Sessions
  <2>3. PICK u : u = IF t.sentLogon THEN t ELSE SendLogon(c, t)
    OBVIOUS
  <2>4. u \in Sessions /\ u.rc = "ok"
    BY <2>2, <2>3, SendLogonLemma, SendLogonWorks
  <2>5. r = Call([u EXCEPT !.status = "LoggedOn"], "onLogon", NoBody)
    BY <1>1, <1>3, <2>1, <2>3, <2>4 DEF HandleLogon, Ok
  <2> QED BY <2>4, <2>5 DEF Call, Sessions
<1> QED BY <1>2, <1>3

LEMMA LogoutWorks ==
  ASSUME NEW c \in PlainConfigs, NEW s \in Sessions, s.rc = "ok", s.socket = "open",
         NEW r, r = HandleLogout(c, s)
  PROVE  r.rc = "ok" \/ r.socket = "none"
<1>1. PICK t : t = [s EXCEPT !.receivedLogout = TRUE]
  OBVIOUS
<1>2. t \in Sessions /\ t.rc = "ok" /\ t.socket = "open"
  <2>1. TRUE \in BOOLEAN
    OBVIOUS
  <2> QED BY <1>1, <2>1 DEF Sessions
<1>3. PICK u : u = IF t.sentLogout THEN t ELSE SendLogout(c, t)
  OBVIOUS
<1>4. u \in Sessions /\ u.rc = "ok"
  BY <1>2, <1>3, SendLogoutLemma, SendLogoutWorks
<1>5. PICK v : v = [u EXCEPT !.status = "Closing"]
  OBVIOUS
<1>6. v \in Sessions /\ v.rc = "ok"
  <2>1. "Closing" \in Statuses
    BY DEF Statuses
  <2> QED BY <1>4, <1>5, <2>1 DEF Sessions
<1>7. r = IF c.initiator THEN OnDisconnected(c, Close(c, v)) ELSE v
  BY <1>1, <1>3, <1>4, <1>5 DEF HandleLogout, Ok
<1>8. Close(c, v) \in Sessions /\ Close(c, v).rc = "ok"
  BY <1>6, CloseLemma
<1>9. OnDisconnected(c, Close(c, v)).rc = "ok"
  BY <1>8, OnDisconnectedLemma
<1> QED BY <1>6, <1>7, <1>9

LEMMA DispatchWorks ==
  ASSUME NEW c \in PlainConfigs, Refused = {}, NEW s \in Sessions, s.rc = "ok",
         s.socket = "open", NEW m \in Messages, ~Replayed(m), ~Asks(m),
         NEW r, r = Dispatch(c, s, m)
  PROVE  r.rc = "ok" \/ r.socket = "none"
<1>1. CASE m.kind = "Logon"
  BY <1>1, LogonWorks DEF Dispatch
<1>2. CASE m.kind = "Logout"
  BY <1>2, LogoutWorks DEF Dispatch
<1>3. CASE m.kind = "Heartbeat"
  <2>1. r = s \/ r = [s EXCEPT !.awaitingTest = FALSE]
    BY <1>3 DEF Dispatch, HandleHeartbeat
  <2> QED BY <2>1 DEF Sessions
<1>4. CASE m.kind = "TestRequest"
  <2>1. r = s \/ r = Send(c, s, HeartbeatMsg(m.id))
    BY <1>4 DEF Dispatch, HandleTestRequest
  <2> QED BY <2>1, SendWorks
<1>5. CASE m.kind = "App"
  <2>1. r = Call(s, "fromApp", m.body)
    BY <1>5 DEF Dispatch, Deliver
  <2> QED BY <2>1 DEF Call, Sessions
<1>6. CASE m.kind = "Reject"
  BY <1>6 DEF Dispatch
<1> QED BY <1>1, <1>2, <1>3, <1>4, <1>5, <1>6, MessageKinds DEF Replayed, Asks

LEMMA ExpectedTaken ==
  ASSUME NEW c \in PlainConfigs, Refused = {}, NEW s \in Sessions, s.rc = "ok",
         s.socket = "open", s.status # "Disconnected", NEW m \in Messages,
         m.seq = s.nextTarget, ~Replayed(m), ~Asks(m), Answerable(s, m),
         NEW r, r = OnReceive(c, s, m)
  PROVE  Takes(c, s, r, m) \/ (Quiet(c, s, r) /\ r.socket = "none")
<1>1. PICK t : t = Dispatch(c, s, m)
  OBVIOUS
<1>2. t.rc = "ok" \/ t.socket = "none"
  BY <1>1, DispatchWorks
<1>3. HandledOrQuiet(c, s, t, m)
  BY <1>1, DispatchLemma
<1>4. r = Process(c, s, m)
  <2>1. Classify(m.seq, s.nextTarget, m.possDup) = "Expected"
    <3>1. m.seq \in Nat
      BY MessageFacts
    <3> QED BY <3>1 DEF Classify
  <2>2. m.kind # "Flawed"
    BY MessageKinds
  <2> QED BY <2>1, <2>2 DEF OnReceive, ReceiveFrame
<1>5. CASE t.rc = "ok"
  <2>1. r = Count(c, t, m)
    BY <1>1, <1>4, <1>5 DEF Process, Ok
  <2> QED BY <1>3, <1>5, <2>1, CountLemma DEF HandledOrQuiet
<1>6. CASE t.rc # "ok"
  <2>1. r = t
    BY <1>1, <1>3, <1>4, <1>6 DEF Process, Ok, HandledOrQuiet
  <2> QED BY <1>2, <1>3, <1>6, <2>1 DEF HandledOrQuiet
<1> QED BY <1>5, <1>6

(* What one more message, and reading the first one, leaves of Exact.       *)
LEMMA ExactSent ==
  ASSUME NEW c, NEW s, NEW r, s.sent = <<>>, s.nextSender \in Nat,
         NEW kinds, "ResendRequest" \notin kinds, Emits(c, s, r, kinds),
         NEW e \in Nat, NEW w \in Seq(Messages), Exact(e, s.nextSender, w)
  PROVE  Exact(e, r.nextSender, w \o r.sent)
<1>1. CASE SameStore(s, r)
  <2>1. r.sent = <<>> /\ r.nextSender = s.nextSender /\ w \o <<>> = w
    BY <1>1, ConcatEmptySeq DEF SameStore
  <2> QED BY <2>1
<1>2. ASSUME NEW m \in Fresh(kinds), Writes(c, s, r, m)
      PROVE  Exact(e, r.nextSender, w \o r.sent)
  <2>1. m \in Messages /\ ~Replayed(m) /\ ~Asks(m)
    BY DEF Fresh, Asks
  <2>2. /\ m.seq = s.nextSender /\ r.nextSender = s.nextSender + 1
        /\ w \o r.sent = Append(w, m)
    BY <1>2, <2>1, AppendFacts DEF Writes
  <2>3. PICK u : u = Append(w, m)
    OBVIOUS
  <2>4. /\ Len(u) = Len(w) + 1 /\ u[Len(w) + 1] = m /\ Len(w) \in Nat
        /\ \A k \in 1..Len(w) : u[k] = w[k]
    BY <2>1, <2>3, AppendFacts, LenProperties
  <2>5. e + Len(w) = s.nextSender
    BY DEF Exact
  <2>6. ASSUME NEW k \in 1..Len(u)
        PROVE  u[k].seq = e + k - 1 /\ ~Replayed(u[k]) /\ ~Asks(u[k])
    <3>1. CASE k \in 1..Len(w)
      BY <2>4, <3>1 DEF Exact
    <3>2. CASE k = Len(w) + 1
      BY <2>1, <2>2, <2>4, <2>5, <3>2
    <3> QED BY <2>4, <3>1, <3>2
  <2>7. Exact(e, r.nextSender, u)
    BY <2>2, <2>4, <2>5, <2>6 DEF Exact
  <2> QED BY <2>2, <2>3, <2>7
<1> QED BY <1>1, <1>2 DEF Emits

LEMMA ExactTail ==
  ASSUME NEW e \in Nat, NEW n \in Nat, NEW w \in Seq(Messages), w # <<>>, Exact(e, n, w)
  PROVE  /\ Exact(e + 1, n, Tail(w))
         /\ Head(w).seq = e /\ ~Replayed(Head(w)) /\ ~Asks(Head(w))
<1>1. PICK v : v = Tail(w)
  OBVIOUS
<1>2. /\ Len(w) \in Nat \ {0} /\ Len(v) = Len(w) - 1 /\ Head(w) = w[1]
      /\ \A k \in 1..Len(v) : v[k] = w[k + 1]
  BY <1>1, TailFacts
<1>3. ASSUME NEW k \in 1..Len(v)
      PROVE  v[k].seq = (e + 1) + k - 1 /\ ~Replayed(v[k]) /\ ~Asks(v[k])
  <2>1. k + 1 \in 1..Len(w) /\ v[k] = w[k + 1]
    BY <1>2
  <2>2. w[k + 1].seq = e + (k + 1) - 1 /\ ~Replayed(w[k + 1]) /\ ~Asks(w[k + 1])
    BY <2>1 DEF Exact
  <2> QED BY <2>1, <2>2
<1>4. Exact(e + 1, n, v)
  <2>1. e + Len(w) = n
    BY DEF Exact
  <2>2. Len(w) \in Nat /\ Len(v) = Len(w) - 1
    BY <1>2
  <2>3. PICK a, b : a = Len(w) /\ b = Len(v)
    OBVIOUS
  <2>4. (e + 1) + b = n
    BY <2>1, <2>2, <2>3
  <2>5. (e + 1) + Len(v) = n
    BY ZenonT(30), <2>3, <2>4
  <2> QED BY ZenonT(30), <1>3, <2>5 DEF Exact
<1>5. 1 \in 1..Len(w)
  BY <1>2
<1>6. PICK m : m = w[1]
  OBVIOUS
<1>7. m.seq = e /\ ~Replayed(m) /\ ~Asks(m)
  BY <1>5, <1>6 DEF Exact
<1>8. Head(w) = m
  BY <1>2, <1>6
<1> QED BY <1>1, <1>4, <1>7, <1>8

(* A call of p over the calm connection: it expects what is exactly next    *)
(* as long as it listens, and sends, if anything, what is.                 *)
LEMMA CallCalm ==
  ASSUME Paired, Calm, NEW p \in Peers, NEW q, q = Other(p),
         UNCHANGED <<alive, left.connects, left.cuts, left.early>>,
         left' \in [Inputs -> Nat], starting' \in [Peers -> BOOLEAN],
         starting'[q] = starting[q],
         NEW r \in Sessions, NEW unread, CallEnds(p, r, unread),
         NEW kinds, "ResendRequest" \notin kinds, Emits(config[p], sess[p], r, kinds),
         r.awaitingResend = FALSE, r.socket \in {sess[p].socket, "none"},
         r.socket = "open" /\ (starting'[p] \/ r.status # "Disconnected") =>
           Exact(r.nextTarget, sess[q].nextSender, unread),
         left.connects # 0 =>
           r.status = "Disconnected" /\ SameStore(sess[p], r) /\ r.nextTarget = sess[p].nextTarget
  PROVE  Calm'
<1>1. PICK s : s = Begin(r)
  OBVIOUS
<1>2. /\ s.nextTarget = r.nextTarget /\ s.awaitingResend = r.awaitingResend
      /\ s.nextSender = r.nextSender /\ s.socket = r.socket /\ s.status = r.status
  BY <1>1, BeginFacts
<1>3. q \in Peers /\ q # p /\ Other(q) = p /\ \A x \in Peers : x = p \/ x = q
  BY OtherFacts
<1>4. PICK w : w = IF Reaches(p) THEN wire[p] \o r.sent ELSE wire[p]
  OBVIOUS
<1>5. PICK v : v = IF r.socket = "none" THEN <<>> ELSE unread
  OBVIOUS
<1>6. /\ sess' = [sess EXCEPT ![p] = s]
      /\ wire' = [wire EXCEPT ![p] = w, ![q] = v]
  BY <1>1, <1>4, <1>5 DEF CallEnds
<1>7. sess'[p] = s /\ sess'[q] = sess[q] /\ wire'[p] = w /\ wire'[q] = v
  BY <1>3, <1>6 DEF Paired
<1>8. CalmTo(p) /\ CalmTo(q)
  BY <1>3 DEF Calm
<1>9. CalmTo(p)'
  <2>1. /\ s.awaitingResend = FALSE /\ (s.socket = "open" \/ s.socket = "none")
        /\ s.socket = "open" => alive
    BY <1>2, <1>8 DEF CalmTo
  <2>2. s.socket # "none" /\ (starting'[p] \/ s.status # "Disconnected") =>
          Exact(s.nextTarget, sess[q].nextSender, v)
    BY <1>2, <1>5, <2>1
  <2>3. left.connects # 0 => /\ s.socket = "none" /\ s.status = "Disconnected"
                             /\ s.nextTarget = sess[q].nextSender
    BY <1>2, <1>8 DEF CalmTo
  <2> QED BY <1>7, <2>1, <2>2, <2>3 DEF CalmTo, Listens
<1>10. CalmTo(q)'
  <2>1. ASSUME Listens(q) PROVE Exact(sess[q].nextTarget, r.nextSender, w)
    <3>1. alive /\ sess[q].socket # "none"
      BY <1>8, <2>1 DEF CalmTo, Listens
    <3>2. w = wire[p] \o r.sent
      BY <1>4, <3>1 DEF Reaches
    <3>3. Exact(sess[q].nextTarget, sess[p].nextSender, wire[p])
      BY <1>3, <1>8, <2>1 DEF CalmTo
    <3>4. /\ sess[q].nextTarget \in Nat /\ sess[p].nextSender \in Nat
          /\ sess[p].sent = <<>> /\ wire[p] \in Seq(Messages)
      BY Sides DEF Numbers
    <3> QED BY <3>2, <3>3, <3>4, ExactSent
  <2>2. left.connects # 0 => sess[q].nextTarget = s.nextSender
    BY <1>2, <1>3, <1>8 DEF CalmTo, SameStore
  <2>3. Listens(q)' = Listens(q)
    BY <1>7 DEF Listens
  <2> QED BY <1>2, <1>3, <1>7, <1>8, <2>1, <2>2, <2>3 DEF CalmTo
<1>11. \A x \in Peers : CalmTo(x)'
  BY <1>3, <1>9, <1>10
<1> QED BY <1>11 DEF Calm

(* A call that reads nothing.                                               *)
LEMMA UnreadCalm ==
  ASSUME Paired, Calm, NEW p \in Peers,
         UNCHANGED <<alive, left.connects, left.cuts, left.early>>,
         left' \in [Inputs -> Nat],
         starting' = starting \/ starting' = [starting EXCEPT ![p] = FALSE],
         NEW r \in Sessions, Keeps(sess[p], r), Calls(p, r),
         NEW kinds, "ResendRequest" \notin kinds, Emits(config[p], sess[p], r, kinds),
         starting[p] \/ sess[p].status # "Disconnected" \/ r.socket = "none"
           \/ r.status = "Disconnected",
         left.connects # 0 => r.status = "Disconnected" /\ SameStore(sess[p], r)
  PROVE  Calm'
<1>1. PICK q : q = Other(p)
  OBVIOUS
<1>2. q \in Peers /\ q # p
  BY <1>1, OtherFacts
<1>3. /\ starting' \in [Peers -> BOOLEAN] /\ starting'[q] = starting[q]
      /\ starting'[p] => starting[p]
  BY <1>2 DEF Calm
<1>4. CalmTo(p)
  BY DEF Calm
<1>5. /\ r.awaitingResend = FALSE /\ r.socket \in {sess[p].socket, "none"}
      /\ r.nextTarget = sess[p].nextTarget
  BY <1>4 DEF Keeps, CalmTo
<1>6. ASSUME r.socket = "open", starting'[p] \/ r.status # "Disconnected"
      PROVE  Exact(r.nextTarget, sess[q].nextSender, wire[q])
  <2>1. sess[p].socket # "none"
    BY <1>5, <1>6
  <2>2. starting[p] \/ sess[p].status # "Disconnected"
    BY <1>3, <1>6
  <2> QED BY <1>1, <1>4, <1>5, <2>1, <2>2 DEF CalmTo, Listens
<1>7. PICK unread : unread = wire[q]
  OBVIOUS
<1>8. CallEnds(p, r, unread)
  BY <1>1, <1>7 DEF Calls
<1>9. r.socket = "open" /\ (starting'[p] \/ r.status # "Disconnected") =>
        Exact(r.nextTarget, sess[q].nextSender, unread)
  BY <1>6, <1>7
<1>10. left.connects # 0 =>
         r.status = "Disconnected" /\ SameStore(sess[p], r) /\ r.nextTarget = sess[p].nextTarget
  BY <1>5
<1> QED BY ZenonT(60), <1>1, <1>3, <1>5, <1>8, <1>9, <1>10, CallCalm

LEMMA ConnectCalm ==
  ASSUME Paired, Calm, Connect
  PROVE  Calm'
<1>1. /\ left.connects > 0 /\ left' = [left EXCEPT !["connects"] = @ - 1]
      /\ sess' = [p \in Peers |-> [sess[p] EXCEPT !.socket = "open"]]
      /\ wire' = [p \in Peers |-> <<>>] /\ alive' = TRUE
      /\ starting' = [p \in Peers |-> TRUE]
  BY DEF Connect, Spend
<1>2. /\ left \in [Inputs -> Nat] /\ left.connects \in Nat /\ left.cuts = 0
      /\ left.early = 0 /\ left.connects =< 1
  BY DEF Calm, Inputs
<1>3. /\ left' \in [Inputs -> Nat] /\ left'.connects = 0 /\ left'.cuts = 0
      /\ left'.early = 0
  BY <1>1, <1>2 DEF Inputs
<1>4. ASSUME NEW p \in Peers PROVE CalmTo(p)'
  <2>1. PICK q \in Peers : q = Other(p)
    BY OtherFacts
  <2>2. PICK s, t \in Sessions : s = sess[p] /\ t = sess[q]
    BY <2>1 DEF Paired
  <2>3. PICK u, v : u = [s EXCEPT !.socket = "open"] /\ v = [t EXCEPT !.socket = "open"]
    OBVIOUS
  <2>4. sess'[p] = u /\ sess'[q] = v /\ wire'[q] = <<>>
    BY <1>1, <2>1, <2>2, <2>3
  <2>5. /\ u.socket = "open" /\ u.nextTarget = s.nextTarget
        /\ u.awaitingResend = s.awaitingResend
        /\ v.nextSender = t.nextSender
    BY <2>2, <2>3 DEF Sessions
  <2>6. s.awaitingResend = FALSE /\ s.nextTarget = t.nextSender
    BY <1>1, <1>2, <2>1, <2>2 DEF Calm, CalmTo
  <2>7. Exact(s.nextTarget, t.nextSender, <<>>)
    <3>1. s.nextTarget \in Nat /\ Len(<<>>) = 0
      BY <2>2, EmptySeq DEF Sessions, Numbers
    <3> QED BY <2>6, <3>1 DEF Exact
  <2> QED BY <1>1, <1>3, <2>1, <2>4, <2>5, <2>6, <2>7 DEF CalmTo
<1>5. starting' \in [Peers -> BOOLEAN]
  BY <1>1
<1> QED BY <1>3, <1>4, <1>5 DEF Calm

LEMMA ConnectedCalm ==
  ASSUME Paired, Calm, NEW p \in Peers, Connected(p)
  PROVE  Calm'
<1>1. PICK r : r = OnConnected(config[p], sess[p])
  OBVIOUS
<1>2. config[p] \in PlainConfigs /\ sess[p] \in Sessions
  BY DEF Paired
<1>3. r \in Sessions /\ Stays(sess[p], r) /\ Emits(config[p], sess[p], r, AdminKinds)
  BY <1>1, <1>2, OnConnectedLemma
<1>4. /\ Calls(p, r) /\ starting[p] /\ sess[p].socket # "none"
      /\ starting' = [starting EXCEPT ![p] = FALSE] /\ UNCHANGED <<alive, left>>
  BY <1>1 DEF Connected
<1>5. left.connects = 0 /\ left \in [Inputs -> Nat]
  BY <1>4 DEF Calm, CalmTo
<1> QED BY <1>3, <1>4, <1>5, StaysKeeps, UnreadCalm DEF AdminKinds

LEMMA TimerCalm ==
  ASSUME Paired, Calm, NEW p \in Peers, NEW due \in Deadlines, Timer(p, due)
  PROVE  Calm'
<1>1. PICK r : r = OnTimer(config[p], sess[p], due)
  OBVIOUS
<1>2. config[p] \in PlainConfigs /\ sess[p] \in Sessions /\ sess[p].rc = "ok"
  BY DEF Paired, Idle
<1>3. r \in Sessions /\ Stays(sess[p], r) /\ Emits(config[p], sess[p], r, AdminKinds)
  BY <1>1, <1>2, OnTimerLemma
<1>4. /\ Calls(p, r) /\ UNCHANGED <<alive, starting>> /\ sess[p].status # "Disconnected"
      /\ left.timers > 0 /\ left' = [left EXCEPT !["timers"] = @ - 1]
  BY <1>1 DEF Timer, TimerActive, LoggedOn, Spend
<1>5. left.connects = 0 /\ left \in [Inputs -> Nat]
  BY <1>4 DEF Calm, CalmTo
<1>6. left' \in [Inputs -> Nat] /\ UNCHANGED <<left.connects, left.cuts, left.early>>
  BY <1>4, <1>5 DEF Inputs
<1> QED BY <1>3, <1>4, <1>5, <1>6, StaysKeeps, UnreadCalm DEF AdminKinds

LEMMA TimerCloseCalm ==
  ASSUME Paired, Calm, NEW p \in Peers, TimerClose(p)
  PROVE  Calm'
<1>1. PICK r : r = Close(config[p], sess[p])
  OBVIOUS
<1>2. config[p] \in PlainConfigs /\ sess[p] \in Sessions
  BY DEF Paired
<1>3. r \in Sessions /\ SameStore(sess[p], r) /\ Keeps(sess[p], r) /\ r.socket = "none"
  BY <1>1, <1>2, CloseLemma
<1>4. /\ Calls(p, r) /\ UNCHANGED <<alive, left>>
      /\ starting' = [starting EXCEPT ![p] = FALSE]
  BY <1>1 DEF TimerClose
<1>5. Emits(config[p], sess[p], r, AdminKinds)
  BY <1>3 DEF Emits
<1>6. left.connects # 0 => r.status = "Disconnected"
  <2>1. left.connects # 0 => sess[p].socket = "none" /\ sess[p].status = "Disconnected"
    BY DEF Calm, CalmTo
  <2>2. sess[p].socket = "none" => r.status = sess[p].status
    BY <1>1, <1>2 DEF Close, Sessions
  <2> QED BY <2>1, <2>2
<1>7. left \in [Inputs -> Nat]
  BY DEF Calm
<1> QED BY <1>3, <1>4, <1>5, <1>6, <1>7, UnreadCalm DEF AdminKinds

LEMMA LogoutCalm ==
  ASSUME Paired, Calm, NEW p \in Peers, Logout(p)
  PROVE  Calm'
<1>1. PICK r : r = DoLogout(config[p], sess[p])
  OBVIOUS
<1>2. config[p] \in PlainConfigs /\ sess[p] \in Sessions /\ sess[p].rc = "ok"
  BY DEF Paired, Idle
<1>3. r \in Sessions /\ Stays(sess[p], r) /\ Emits(config[p], sess[p], r, AdminKinds)
  BY <1>1, <1>2, DoLogoutLemma
<1>4. /\ Calls(p, r) /\ UNCHANGED <<alive, starting>>
      /\ left.logouts > 0 /\ left' = [left EXCEPT !["logouts"] = @ - 1]
  BY <1>1 DEF Logout, Spend
<1>5. left' \in [Inputs -> Nat] /\ UNCHANGED <<left.connects, left.cuts, left.early>>
  <2>1. left \in [Inputs -> Nat]
    BY DEF Calm
  <2> QED BY <1>4, <2>1 DEF Inputs
<1>6. sess[p].status = "Disconnected" => r = sess[p]
  BY <1>1 DEF DoLogout
<1>7. left.connects # 0 => r.status = "Disconnected" /\ SameStore(sess[p], r)
  BY <1>6 DEF Calm, CalmTo, SameStore
<1> QED BY <1>3, <1>4, <1>5, <1>6, <1>7, StaysKeeps, UnreadCalm DEF AdminKinds

LEMMA AppSendCalm ==
  ASSUME Paired, Calm, NEW p \in Peers, AppSend(p)
  PROVE  Calm'
<1>1. PICK body \in Bodies : body = Len(submitted[p]) + 1
  BY DEF AppSend
<1>2. PICK r : r = Send(config[p], sess[p], AppMsg(body))
  OBVIOUS
<1>3. config[p] \in PlainConfigs /\ sess[p] \in Sessions
  BY DEF Paired
<1>4. sess[p].nextSender \in Numbers
  BY <1>3 DEF Sessions
<1>5. PICK m \in Fresh({"App"}) : Carries(m, AppMsg(body), sess[p].nextSender)
  BY <1>4, FreshApp
<1>6. m \in Messages
  BY DEF Fresh
<1>7. /\ r \in Sessions /\ Stays(sess[p], r) /\ r.status = sess[p].status
      /\ r.rc \in {"ok", "io"}
      /\ r.rc = "ok" => Writes(config[p], sess[p], r, m)
      /\ r.rc # "ok" => SameStore(sess[p], r)
  BY <1>2, <1>3, <1>5, <1>6, SendLemma
<1>8. Emits(config[p], sess[p], r, {"App"})
  BY <1>7 DEF Emits
<1>9. /\ Calls(p, r) /\ UNCHANGED <<alive, starting>> /\ left.sends > 0
      /\ left' = [left EXCEPT !["sends"] = IF r.rc = "ok" THEN @ - 1 ELSE @]
  BY <1>1, <1>2 DEF AppSend, Ok
<1>10. left' \in [Inputs -> Nat] /\ UNCHANGED <<left.connects, left.cuts, left.early>>
  <2>1. left \in [Inputs -> Nat]
    BY DEF Calm
  <2> QED BY <1>9, <2>1 DEF Inputs
<1>11. left.connects # 0 => r.status = "Disconnected" /\ SameStore(sess[p], r)
  <2>1. left.connects # 0 => sess[p].socket = "none" /\ sess[p].status = "Disconnected"
    BY DEF Calm, CalmTo
  <2>2. sess[p].socket = "none" => r = Fail(sess[p], "io")
    BY <1>2 DEF Send, Writable
  <2>3. r = Fail(sess[p], "io") => SameStore(sess[p], r)
    BY <1>3, FailLemma DEF RCs
  <2> QED BY <1>7, <2>1, <2>2, <2>3
<1> QED BY <1>7, <1>8, <1>9, <1>10, <1>11, StaysKeeps, UnreadCalm

LEMMA ConnectionLostCalm ==
  ASSUME Paired, Calm, NEW p \in Peers, ConnectionLost(p)
  PROVE  Calm'
<1>1. PICK s : s = sess[p]
  OBVIOUS
<1>2. PICK t : t = [s EXCEPT !.socket = "none"]
  OBVIOUS
<1>3. PICK r : r = OnDisconnected(config[p], t)
  OBVIOUS
<1>4. config[p] \in PlainConfigs /\ s \in Sessions
  BY <1>1 DEF Paired
<1>5. /\ t \in Sessions /\ SameStore(s, t) /\ t.calls = s.calls
      /\ t.nextTarget = s.nextTarget /\ t.socket = "none"
  BY <1>2, <1>4 DEF Sessions, SameStore
<1>6. /\ r \in Sessions /\ SameStore(t, r)
      /\ r.nextTarget = t.nextTarget /\ r.awaitingResend = FALSE /\ r.socket = t.socket
      /\ Silent(t.calls) => Silent(r.calls)
  BY <1>3, <1>4, <1>5, OnDisconnectedLemma
<1>7. Keeps(s, r)
  BY <1>5, <1>6 DEF Keeps
<1>8. Emits(config[p], s, r, AdminKinds)
  BY <1>5, <1>6 DEF Emits, SameStore
<1>9. /\ Calls(p, r) /\ UNCHANGED <<alive, left>> /\ s.socket # "none"
      /\ starting' = [starting EXCEPT ![p] = FALSE]
  BY <1>1, <1>2, <1>3 DEF ConnectionLost
<1>10. left.connects = 0 /\ left \in [Inputs -> Nat]
  BY <1>1, <1>9 DEF Calm, CalmTo
<1> QED BY <1>1, <1>5, <1>6, <1>7, <1>8, <1>9, <1>10, UnreadCalm DEF AdminKinds

LEMMA ReadCalm ==
  ASSUME Paired, Calm, Refused = {}, NEW p \in Peers, Read(p)
  PROVE  Calm'
<1>1. PICK q : q = Other(p)
  OBVIOUS
<1>2. PICK c, s, w : c = config[p] /\ s = sess[p] /\ w = wire[q]
  OBVIOUS
<1>3. PICK r : r = OnReceive(c, s, Head(w))
  OBVIOUS
<1>4. /\ w # <<>> /\ s.socket # "none" /\ ~starting[p] /\ CallEnds(p, r, Tail(w))
      /\ UNCHANGED <<alive, starting, left>>
  BY <1>1, <1>2, <1>3 DEF Read
<1>5. /\ c \in PlainConfigs /\ s \in Sessions /\ StoreOk(s)
      /\ s.sent = <<>> /\ s.rc = "ok"
      /\ s.nextTarget \in Numbers /\ sess[q].nextSender \in Numbers
      /\ w \in Seq(Messages)
  BY <1>1, <1>2, Sides
<1>6. /\ left.connects = 0 /\ left \in [Inputs -> Nat] /\ starting \in [Peers -> BOOLEAN]
      /\ s.awaitingResend = FALSE /\ s.socket = "open"
      /\ s.status # "Disconnected" => Exact(s.nextTarget, sess[q].nextSender, w)
  BY <1>1, <1>2, <1>4 DEF Calm, CalmTo, Listens
<1>7. ASSUME r \in Sessions, NEW kinds, "ResendRequest" \notin kinds, Emits(c, s, r, kinds),
             r.awaitingResend = FALSE, r.socket \in {s.socket, "none"},
             r.socket = "open" /\ r.status # "Disconnected" =>
               Exact(r.nextTarget, sess[q].nextSender, Tail(w))
      PROVE  Calm'
  <2>1. Emits(config[p], sess[p], r, kinds) /\ r.socket \in {sess[p].socket, "none"}
    BY <1>2, <1>7
  <2>2. /\ starting' \in [Peers -> BOOLEAN] /\ starting'[q] = starting[q] /\ ~starting'[p]
        /\ left' \in [Inputs -> Nat]
        /\ UNCHANGED <<alive, left.connects, left.cuts, left.early>>
    BY <1>4, <1>6
  <2> QED BY <1>1, <1>4, <1>6, <1>7, <2>1, <2>2, CallCalm
<1>8. CASE s.status = "Disconnected"
  <2>1. r = s
    BY <1>3, <1>8 DEF OnReceive
  <2>2. Emits(c, s, r, AdminKinds)
    BY <2>1 DEF Emits, SameStore
  <2> QED BY <1>5, <1>6, <1>7, <1>8, <2>1, <2>2 DEF AdminKinds
<1>9. CASE s.status # "Disconnected"
  <2>1. PICK m : m = Head(w)
    OBVIOUS
  <2>2. s.nextTarget \in Nat /\ sess[q].nextSender \in Nat
    BY <1>5 DEF Numbers
  <2>3. Exact(s.nextTarget, sess[q].nextSender, w)
    BY <1>6, <1>9
  <2>4. /\ m \in Messages /\ m.seq = s.nextTarget /\ ~Replayed(m) /\ ~Asks(m)
        /\ Exact(s.nextTarget + 1, sess[q].nextSender, Tail(w))
    BY <1>4, <1>5, <2>1, <2>2, <2>3, ExactTail, TailFacts
  <2>5. Answerable(s, m)
    BY <1>5, <2>4 DEF Answerable, StoreOk
  <2>6. r = OnReceive(c, s, m)
    BY <1>3, <2>1
  <2>7. Takes(c, s, r, m) \/ (Quiet(c, s, r) /\ r.socket = "none")
    BY <1>5, <1>6, <1>9, <2>4, <2>5, <2>6, ExpectedTaken
  <2>8. CASE Takes(c, s, r, m)
    <3>1. /\ r \in Sessions /\ Emits(c, s, r, AdminKinds)
          /\ r.awaitingResend = FALSE /\ r.socket \in {s.socket, "none"}
          /\ r.nextTarget = Beyond(m)
      BY <2>4, <2>8 DEF Takes
    <3>2. Beyond(m) = s.nextTarget + 1
      BY <2>4, MessageFacts
    <3> QED BY <1>7, <2>4, <3>1, <3>2 DEF AdminKinds
  <2>9. CASE Quiet(c, s, r) /\ r.socket = "none"
    <3>1. /\ r \in Sessions /\ Emits(c, s, r, AdminKinds)
          /\ r.awaitingResend = FALSE
      BY <1>6, <2>9 DEF Quiet, Keeps
    <3> QED BY <1>7, <2>9, <3>1 DEF AdminKinds
  <2> QED BY <2>7, <2>8, <2>9
<1> QED BY <1>8, <1>9

(* What may happen to a connection that loses nothing: the two connect      *)
(* once, the network does not cut, nothing arrives before onConnected, and *)
(* neither application refuses a message.                                  *)
NothingLost ==
  /\ Refused = {}
  /\ \A s \in Scenarios :
       /\ \A p \in Peers : s.config[p] \in PlainConfigs
       /\ s.left.connects =< 1 /\ s.left.cuts = 0 /\ s.left.early = 0

CalmInv == PairInv /\ ~Resets /\ Calm

LEMMA CalmInit ==
  ASSUME NothingLost, Init
  PROVE  CalmInv
<1>1. PICK s \in Scenarios : config = s.config /\ left = s.left
  BY DEF Init
<1>2. /\ left \in [Inputs -> Nat] /\ \A p \in Peers : config[p] \in PlainConfigs
      /\ left.connects =< 1 /\ left.cuts = 0 /\ left.early = 0
  BY <1>1, ScenariosAssumption DEF NothingLost
<1>3. /\ sess = [p \in Peers |-> [Created EXCEPT !.listening = (p = A)]]
      /\ wire = [p \in Peers |-> <<>>] /\ starting = [p \in Peers |-> FALSE]
  BY DEF Init
<1>4. ASSUME NEW p \in Peers
      PROVE  /\ sess[p].nextTarget = 1 /\ sess[p].nextSender = 1
             /\ sess[p].awaitingResend = FALSE /\ sess[p].socket = "none"
             /\ sess[p].status = "Disconnected"
  <2>1. PICK b \in BOOLEAN : b = (p = A)
    OBVIOUS
  <2>2. sess[p] = [Created EXCEPT !.listening = b]
    BY <1>3, <2>1
  <2>3. sess[p].status = "Disconnected"
    BY <2>2 DEF Created
  <2> QED BY <2>2, <2>3, CreatedFacts
<1>5. \A p \in Peers : CalmTo(p)
  BY <1>4, OtherFacts DEF CalmTo, Listens
<1>6. ~Resets
  BY <1>2 DEF Resets, PlainConfigs
<1>7. starting \in [Peers -> BOOLEAN]
  BY <1>3
<1> QED BY <1>2, <1>5, <1>6, <1>7, PairInit DEF CalmInv, Calm

LEMMA CalmStep ==
  ASSUME Refused = {}, CalmInv, [Next]_vars
  PROVE  CalmInv'
<1>1. PairInv' /\ ~Resets'
  BY PairStep, ConfigStays DEF CalmInv, Resets
<1>2. Paired /\ Calm
  BY DEF CalmInv, PairInv
<1>3. ASSUME UNCHANGED vars PROVE Calm'
  <2>1. UNCHANGED <<sess, wire, alive, starting, left>>
    BY <1>3 DEF vars
  <2> QED BY <1>2, <2>1 DEF Calm, CalmTo, Listens
<1>4. ASSUME Connect PROVE Calm'
  BY <1>2, <1>4, ConnectCalm
<1>5. ~EarlyRead /\ ~Cut
  BY <1>2 DEF EarlyRead, Cut, Spend, Calm
<1>6. ASSUME NEW p \in Peers, Step(p)
      PROVE  Calm'
  <2>1. ASSUME NEW due \in Deadlines, Timer(p, due)
        PROVE  Calm'
    BY <1>2, <2>1, TimerCalm
  <2> QED BY <1>2, <1>6, <2>1, ConnectedCalm, ReadCalm, ConnectionLostCalm,
             TimerCloseCalm, LogoutCalm, AppSendCalm DEF Step, Strand
<1> QED BY <1>1, <1>3, <1>4, <1>5, <1>6 DEF Next, CalmInv

(* Of two sessions that never reset, whose connection loses nothing,        *)
(* neither ever finds a gap: every number a session takes goes out, and in *)
(* order, whether the application, the timer, the runtime or the strand of *)
(* the socket takes it, and a message that is not counted costs the socket *)
(* (send, sendLogon, sendReject, onReceive).                               *)
THEOREM NoGapWithoutLoss ==
  ASSUME NothingLost
  PROVE  Spec => []NoGap
<1>1. Init => CalmInv
  BY CalmInit
<1>2. CalmInv /\ [Next]_vars => CalmInv'
  BY CalmStep DEF NothingLost
<1>3. CalmInv => NoGap
  BY DEF CalmInv, Calm, CalmTo, NoGap
<1> QED BY <1>1, <1>2, <1>3, PTL DEF Spec

-----------------------------------------------------------------------------
(* Sessions that reset, though not in their Logon.                          *)

(* A call of such a session does what the call of one that never resets     *)
(* does, except that the end of a connection may clear its store.          *)
MildConfigs == {c \in AllConfigs : ~c.resetOnLogon}

Eased(c) ==
  [c EXCEPT !.resetOnLogout = FALSE, !.resetOnDisconnect = FALSE, !.resetDaily = FALSE]

(* Session s with its resetOnDisconnect set to b.                           *)
Marked(s, b) == [s EXCEPT !.resetOnDisconnect = b]

LEMMA EasedFacts ==
  ASSUME NEW c \in MildConfigs, NEW d, d = Eased(c)
  PROVE  /\ d \in PlainConfigs /\ c.resetOnLogon = FALSE /\ d.resetOnLogon = FALSE
         /\ d.store = c.store /\ d.enableResend = c.enableResend
         /\ d.initiator = c.initiator /\ d.disableHeartbeat = c.disableHeartbeat
         /\ d.ignoreTestRequest = c.ignoreTestRequest
<1>1. c \in AllConfigs /\ ~c.resetOnLogon
  BY DEF MildConfigs
<1>2. c.resetOnLogon \in BOOLEAN
  BY <1>1 DEF AllConfigs
<1>3. c.resetOnLogon = FALSE
  BY Zenon, <1>1, <1>2
<1>4. d \in AllConfigs
  BY ZenonT(60), <1>1 DEF Eased, AllConfigs
<1>5. /\ d.resetOnLogon = c.resetOnLogon /\ ~d.resetOnLogout /\ ~d.resetOnDisconnect
      /\ ~d.resetDaily
      /\ d.store = c.store /\ d.enableResend = c.enableResend
      /\ d.initiator = c.initiator /\ d.disableHeartbeat = c.disableHeartbeat
      /\ d.ignoreTestRequest = c.ignoreTestRequest
  BY <1>1 DEF Eased, AllConfigs
<1> QED BY <1>3, <1>4, <1>5 DEF PlainConfigs

LEMMA MarkedFacts ==
  ASSUME NEW s \in Sessions, NEW b, NEW t, t = Marked(s, b)
  PROVE  /\ t.status = s.status /\ t.sentLogon = s.sentLogon
         /\ t.receivedLogon = s.receivedLogon /\ t.sentLogout = s.sentLogout
         /\ t.receivedLogout = s.receivedLogout /\ t.awaitingResend = s.awaitingResend
         /\ t.awaitingTest = s.awaitingTest /\ t.testRequestID = s.testRequestID
         /\ t.nextSender = s.nextSender /\ t.nextTarget = s.nextTarget
         /\ t.outgoing = s.outgoing /\ t.disk = s.disk /\ t.socket = s.socket
         /\ t.listening = s.listening /\ t.sent = s.sent /\ t.calls = s.calls
         /\ t.rc = s.rc /\ t.resetOnDisconnect = b
BY DEF Marked, Sessions

(* What sends, sends the same, whatever the marks.                          *)
LEMMA SendMarked ==
  ASSUME NEW c \in MildConfigs, NEW d, d = Eased(c), NEW s \in Sessions, NEW b,
         NEW t, t = Marked(s, b), NEW msg
  PROVE  Send(c, t, msg) = Marked(Send(d, s, msg), b)
<1>1. d.store = c.store
  BY EasedFacts
<1>2. /\ t.socket = s.socket /\ t.nextSender = s.nextSender /\ t.sent = s.sent
      /\ t.outgoing = s.outgoing /\ t.disk = s.disk
  BY MarkedFacts
<1>3. CASE ~Writable(s)
  <2>1. Send(c, t, msg) = Fail(t, "io") /\ Send(d, s, msg) = Fail(s, "io")
    BY <1>2, <1>3 DEF Send, Writable
  <2> QED BY <2>1 DEF Fail, Marked
<1>4. CASE Writable(s)
  <2>1. PICK m : m = [msg EXCEPT !.seq = s.nextSender]
    OBVIOUS
  <2>2. PICK x : x = Append(s.sent, m)
    OBVIOUS
  <2>3. PICK kept : kept = IF KeepsMessages(c)
                             THEN Append(s.outgoing, Stored(m.seq, m.kind # "App", BodyOf(m)))
                             ELSE s.outgoing
    OBVIOUS
  <2>4. PICK w : w = [s EXCEPT !.sent = x]
    OBVIOUS
  <2>5. Write(s, m) = w /\ Write(t, m) = Marked(w, b)
    BY <1>2, <2>2, <2>4 DEF Write, Marked
  <2>6. w.disk = "ok" /\ w.outgoing = s.outgoing /\ w.nextSender = s.nextSender
    BY <2>4 DEF Sessions
  <2>7. Marked(w, b).disk = "ok" /\ Marked(w, b).outgoing = s.outgoing
    BY <2>4 DEF Sessions, Marked
  <2>8. PICK u : u = [w EXCEPT !.outgoing = kept, !.rc = "ok"]
    OBVIOUS
  <2>9. StoreOutgoing(d, w, m) = u
    BY <1>1, <2>3, <2>6, <2>8 DEF StoreOutgoing, DiskRefuses, KeepsMessages
  <2>10. StoreOutgoing(c, Marked(w, b), m) = Marked(u, b)
    <3>1. StoreOutgoing(c, Marked(w, b), m) = [Marked(w, b) EXCEPT !.outgoing = kept, !.rc = "ok"]
      BY <2>3, <2>7 DEF StoreOutgoing, DiskRefuses
    <3> QED BY <2>8, <3>1 DEF Marked
  <2>11. u.rc = "ok" /\ Marked(u, b).rc = "ok" /\ u.nextSender = s.nextSender
         /\ Marked(u, b).nextSender = s.nextSender
    BY <2>4, <2>8 DEF Sessions, Marked
  <2>12. Send(d, s, msg) = [u EXCEPT !.nextSender = s.nextSender + 1]
    BY <1>4, <2>1, <2>5, <2>9, <2>11 DEF Send, Ok
  <2>13. Send(c, t, msg) = [Marked(u, b) EXCEPT !.nextSender = s.nextSender + 1]
    <3>1. Writable(t)
      BY <1>2, <1>4 DEF Writable
    <3> QED BY <1>2, <2>1, <2>5, <2>10, <2>11, <3>1 DEF Send, Ok
  <2> QED BY <2>12, <2>13 DEF Marked
<1> QED BY <1>3, <1>4

LEMMA SendLogonMarked ==
  ASSUME NEW c \in MildConfigs, NEW d, d = Eased(c), NEW s \in Sessions, NEW b,
         NEW t, t = Marked(s, b)
  PROVE  SendLogon(c, t) = Marked(SendLogon(d, s), b)
<1>0. PICK msg : msg = LogonMsg(FALSE, TRUE)
  OBVIOUS
<1>1. PICK u : u = Send(d, s, msg)
  OBVIOUS
<1>2. Send(c, t, msg) = Marked(u, b)
  BY <1>1, SendMarked
<1>3. d \in PlainConfigs /\ c.resetOnLogon = FALSE /\ d.resetOnLogon = FALSE
  BY EasedFacts
<1>4. u \in Sessions
  <2>1. s.nextSender \in Numbers
    BY DEF Sessions
  <2> QED BY <1>0, <1>1, <1>3, <2>1, FreshMessages, SendQuiet
<1>5. Marked(u, b).rc = u.rc
  BY <1>4, MarkedFacts
<1>6. SendLogon(d, s) = IF u.rc = "ok" THEN [u EXCEPT !.sentLogon = TRUE, !.status = "LogonSent"]
                        ELSE u
  BY <1>0, <1>1, <1>3 DEF SendLogon, Ok
<1>7. SendLogon(c, t) = IF u.rc = "ok"
                          THEN [Marked(u, b) EXCEPT !.sentLogon = TRUE, !.status = "LogonSent"]
                          ELSE Marked(u, b)
  BY <1>0, <1>2, <1>3, <1>5 DEF SendLogon, Ok
<1> QED BY <1>6, <1>7 DEF Marked

LEMMA SendLogoutMarked ==
  ASSUME NEW c \in MildConfigs, NEW d, d = Eased(c), NEW s \in Sessions, NEW b,
         NEW t, t = Marked(s, b)
  PROVE  SendLogout(c, t) = Marked(SendLogout(d, s), b)
<1>1. t.status = s.status
  BY MarkedFacts
<1>2. CASE Closing(s) \/ s.status = "Disconnected"
  BY <1>1, <1>2 DEF SendLogout, Closing
<1>3. CASE ~(Closing(s) \/ s.status = "Disconnected")
  <2>1. PICK u : u = Send(d, s, LogoutMsg)
    OBVIOUS
  <2>2. Send(c, t, LogoutMsg) = Marked(u, b)
    BY <2>1, SendMarked
  <2>3. u \in Sessions
    <3>1. s.nextSender \in Numbers /\ d \in PlainConfigs
      BY EasedFacts DEF Sessions
    <3> QED BY <2>1, <3>1, FreshMessages, SendQuiet
  <2>4. Marked(u, b).rc = u.rc
    BY <2>3, MarkedFacts
  <2>5. SendLogout(d, s) = IF u.rc = "ok"
                             THEN [u EXCEPT !.sentLogout = TRUE, !.status = "LogoutSent"] ELSE u
    BY <1>3, <2>1 DEF SendLogout, Ok
  <2>6. SendLogout(c, t) = IF u.rc = "ok"
                             THEN [Marked(u, b) EXCEPT !.sentLogout = TRUE, !.status = "LogoutSent"]
                             ELSE Marked(u, b)
    BY <1>1, <1>3, <2>2, <2>4 DEF SendLogout, Ok, Closing
  <2> QED BY <2>5, <2>6 DEF Marked
<1> QED BY <1>2, <1>3

LEMMA DoLogoutMarked ==
  ASSUME NEW c \in MildConfigs, NEW d, d = Eased(c), NEW s \in Sessions, NEW b,
         NEW t, t = Marked(s, b)
  PROVE  DoLogout(c, t) = Marked(DoLogout(d, s), b)
<1>1. t.status = s.status /\ t.awaitingResend = s.awaitingResend
  BY MarkedFacts
<1>2. SendLogout(c, t) = Marked(SendLogout(d, s), b)
  BY SendLogoutMarked
<1>3. [t EXCEPT !.status = "Closing"] = Marked([s EXCEPT !.status = "Closing"], b)
  BY DEF Marked
<1> QED BY <1>1, <1>2, <1>3 DEF DoLogout, Closing

LEMMA OnConnectedMarked ==
  ASSUME NEW c \in MildConfigs, NEW d, d = Eased(c), NEW s \in Sessions, NEW b,
         NEW t, t = Marked(s, b)
  PROVE  OnConnected(c, t) = Marked(OnConnected(d, s), b)
<1>1. t.status = s.status
  BY MarkedFacts
<1>2. PICK u : u = [s EXCEPT !.status = "Connected"]
  OBVIOUS
<1>3. u \in Sessions
  <2>1. "Connected" \in Statuses
    BY DEF Statuses
  <2> QED BY <1>2, <2>1 DEF Sessions
<1>4. [t EXCEPT !.status = "Connected"] = Marked(u, b)
  BY <1>2 DEF Marked
<1>5. SendLogon(c, Marked(u, b)) = Marked(SendLogon(d, u), b)
  BY <1>3, SendLogonMarked
<1> QED BY <1>1, <1>2, <1>4, <1>5 DEF OnConnected

LEMMA OnTimerMarked ==
  ASSUME NEW c \in MildConfigs, NEW d, d = Eased(c), NEW s \in Sessions, NEW b \in BOOLEAN,
         NEW t, t = Marked(s, b), NEW due \in Deadlines
  PROVE  \E x \in BOOLEAN : OnTimer(c, t, due) = Marked(OnTimer(d, s, due), x)
<1>1. t.status = s.status /\ t.awaitingTest = s.awaitingTest
      /\ t.testRequestID = s.testRequestID
  BY MarkedFacts
<1>2. TimerActive(c, t) = TimerActive(d, s)
  BY <1>1, EasedFacts DEF TimerActive, LoggedOn
<1>3. CASE ~TimerActive(d, s)
  BY <1>2, <1>3 DEF OnTimer
<1>4. CASE TimerActive(d, s) /\ due = "schedule"
  <2>1. PICK x \in BOOLEAN : x = c.resetDaily
    BY DEF MildConfigs, AllConfigs
  <2>2. [t EXCEPT !.resetOnDisconnect = x] = Marked(s, x)
    BY DEF Marked
  <2>3. DoLogout(c, Marked(s, x)) = Marked(DoLogout(d, s), x)
    BY DoLogoutMarked
  <2>4. ScheduleEnded(d, s) = DoLogout(d, s)
    <3>1. d.resetDaily = FALSE
      BY EasedFacts, PlainFacts
    <3>2. [s EXCEPT !.resetOnDisconnect = FALSE] = s
      BY DEF Sessions
    <3> QED BY <3>1, <3>2 DEF ScheduleEnded
  <2>5. OnTimer(c, t, due) = ScheduleEnded(c, t) /\ OnTimer(d, s, due) = ScheduleEnded(d, s)
    BY <1>2, <1>4 DEF OnTimer
  <2> QED BY <2>1, <2>2, <2>3, <2>4, <2>5 DEF ScheduleEnded
<1>5. CASE TimerActive(d, s) /\ due = "testTimeout"
  <2>1. TestTimeout(t) = Marked(TestTimeout(s), b)
    BY DEF TestTimeout, Marked
  <2> QED BY <1>1, <1>2, <1>5, <2>1 DEF OnTimer
<1>6. CASE TimerActive(d, s) /\ due = "testRequest"
  <2>1. PICK u : u = [s EXCEPT !.testRequestID = s.testRequestID + 1]
    OBVIOUS
  <2>2. u \in Sessions /\ u.testRequestID = s.testRequestID + 1
    <3>1. s.testRequestID + 1 \in Nat
      BY DEF Sessions
    <3>2. u \in Sessions /\ SameStore(s, u)
      BY <2>1, <3>1 DEF Sessions, SameStore
    <3> QED BY <2>1, <3>2 DEF Sessions
  <2>3. PICK w : w = Marked(u, b)
    OBVIOUS
  <2>11. [t EXCEPT !.testRequestID = @ + 1] = w /\ w.testRequestID = u.testRequestID
    <3>1. w.testRequestID = u.testRequestID
      BY <2>2, <2>3, MarkedFacts
    <3> QED BY <1>1, <2>1, <2>3, <3>1 DEF Marked
  <2>4. PICK v : v = Send(d, u, TestRequestMsg(u.testRequestID))
    OBVIOUS
  <2>5. PICK y : y = Marked(v, b)
    OBVIOUS
  <2>12. Send(c, w, TestRequestMsg(w.testRequestID)) = y
    <3>1. PICK msg : msg = TestRequestMsg(u.testRequestID)
      OBVIOUS
    <3>2. Send(c, w, msg) = Marked(Send(d, u, msg), b)
      BY <2>2, <2>3, SendMarked
    <3> QED BY <2>4, <2>5, <2>11, <3>1, <3>2
  <2>6. v \in Sessions
    <3>1. u.nextSender \in Numbers /\ d \in PlainConfigs /\ u.testRequestID \in Nat
      BY <2>2, EasedFacts DEF Sessions
    <3> QED BY <2>2, <2>4, <3>1, FreshMessages, SendQuiet
  <2>7. y.rc = v.rc
    BY <2>5, <2>6, MarkedFacts
  <2>8. SendTestRequest(d, s) = IF v.rc = "ok" THEN [v EXCEPT !.awaitingTest = TRUE] ELSE v
    BY <2>1, <2>4 DEF SendTestRequest, Ok
  <2>9. SendTestRequest(c, t) = IF v.rc = "ok" THEN [y EXCEPT !.awaitingTest = TRUE] ELSE y
    <3>1. PICK z : z = Send(c, w, TestRequestMsg(w.testRequestID))
      OBVIOUS
    <3>2. SendTestRequest(c, t) = IF Ok(z) THEN [z EXCEPT !.awaitingTest = TRUE] ELSE z
      <4>1. w = [t EXCEPT !.testRequestID = t.testRequestID + 1]
        BY <2>11
      <4> QED BY <3>1, <4>1 DEF SendTestRequest
    <3>3. z = y
      BY Zenon, <2>12, <3>1
    <3>4. Ok(z) <=> v.rc = "ok"
      BY Zenon, <2>7, <3>3 DEF Ok
    <3> QED BY Zenon, <3>2, <3>3, <3>4
  <2>10. SendTestRequest(c, t) = Marked(SendTestRequest(d, s), b)
    BY <2>5, <2>8, <2>9 DEF Marked
  <2> QED BY <1>1, <1>2, <1>6, <2>10 DEF OnTimer
<1>7. CASE TimerActive(d, s) /\ due = "heartbeat"
  <2>1. Send(c, t, HeartbeatMsg(NoId)) = Marked(Send(d, s, HeartbeatMsg(NoId)), b)
    BY SendMarked
  <2> QED BY <1>1, <1>2, <1>7, <2>1 DEF OnTimer
<1> QED BY <1>3, <1>4, <1>5, <1>6, <1>7 DEF Deadlines

(* The sessions of such a configuration.                                    *)
MildSessions == {Marked(s, b) : s \in Sessions, b \in BOOLEAN}

(* r has lost its socket, and what it wrote before is what u wrote.         *)
Gone(u, r) ==
  /\ u.socket = "none" /\ r.socket = "none"
  /\ r \in MildSessions /\ StoreOk(r) /\ r.sent = u.sent /\ r.rc = u.rc

Mirrors(u, r) == (\E x \in BOOLEAN : r = Marked(u, x)) \/ Gone(u, r)

LEMMA MildFacts ==
  ASSUME NEW s \in Sessions, NEW b \in BOOLEAN, NEW t, t = Marked(s, b)
  PROVE  t \in MildSessions /\ (StoreOk(t) <=> StoreOk(s))
<1>1. t \in MildSessions
  BY DEF MildSessions
<1>2. t.outgoing = s.outgoing /\ t.nextSender = s.nextSender
  BY MarkedFacts
<1> QED BY <1>1, <1>2 DEF StoreOk

LEMMA MarkedGone ==
  ASSUME NEW s \in Sessions, NEW b \in BOOLEAN, StoreOk(s), s.socket = "none",
         NEW t, t = Marked(s, b)
  PROVE  Gone(s, t)
<1>1. t.socket = s.socket /\ t.sent = s.sent /\ t.rc = s.rc
  BY MarkedFacts
<1>2. t \in MildSessions /\ StoreOk(t)
  BY MildFacts
<1> QED BY <1>1, <1>2 DEF Gone

(* The end of a connection.                                                 *)
LEMMA OnDisconnectedGone ==
  ASSUME NEW c \in MildConfigs, NEW t \in MildSessions, StoreOk(t), t.socket = "none",
         NEW r, r = OnDisconnected(c, t)
  PROVE  Gone(t, r)
<1>1. PICK s \in Sessions, b \in BOOLEAN : t = Marked(s, b)
  BY DEF MildSessions
<1>2. /\ t.socket = s.socket /\ t.sent = s.sent /\ t.rc = s.rc /\ t.calls = s.calls
      /\ StoreOk(s)
  BY <1>1, MarkedFacts, MildFacts
<1>3. PICK v : v = ClearFlags(s)
  OBVIOUS
<1>4. /\ v \in Sessions /\ SameStore(s, v) /\ v.calls = s.calls /\ v.rc = s.rc
      /\ v.socket = s.socket
  BY <1>3, ClearFlagsFacts
<1>5. ClearFlags(t) = Marked(v, b)
  BY <1>1, <1>3 DEF ClearFlags, Marked
<1>6. PICK more : more = Append(v.calls, [event |-> "onLogout", body |-> NoBody])
  OBVIOUS
<1>7. more \in Seq(Callbacks)
  <2>1. v.calls \in Seq(Callbacks)
    BY <1>4 DEF Sessions
  <2> QED BY <1>6, <2>1, CallSilent
<1>8. PICK w : w = IF WasActive(t) THEN [v EXCEPT !.calls = more] ELSE v
  OBVIOUS
<1>9. /\ w \in Sessions /\ SameStore(v, w) /\ w.rc = v.rc /\ w.socket = v.socket
  <2>1. CASE w = v
    BY <1>4, <2>1 DEF SameStore
  <2>2. CASE w = [v EXCEPT !.calls = more]
    BY <1>4, <1>7, <2>2 DEF Sessions, SameStore
  <2> QED BY <1>8, <2>1, <2>2
<1>10. r = IF ResetsOnDisconnect(c, t)
             THEN [ResetStore(Marked(w, b)) EXCEPT !.resetOnDisconnect = FALSE]
             ELSE Marked(w, b)
  <2>1. Marked(v, b).calls = v.calls
    BY <1>4, MarkedFacts
  <2>2. Call(Marked(v, b), "onLogout", NoBody) = [Marked(v, b) EXCEPT !.calls = more]
    BY <1>6, <2>1 DEF Call
  <2>3. [Marked(v, b) EXCEPT !.calls = more] = Marked([v EXCEPT !.calls = more], b)
    BY DEF Marked
  <2> QED BY <1>5, <1>8, <2>2, <2>3 DEF OnDisconnected
<1>11. ASSUME r = Marked(w, b) PROVE Gone(t, r)
  <2>1. StoreOk(w)
    BY <1>2, <1>4, <1>9 DEF SameStore, StoreOk
  <2>2. Gone(w, r)
    BY <1>2, <1>4, <1>9, <1>11, <2>1, MarkedGone
  <2> QED BY <1>2, <1>4, <1>9, <2>2 DEF Gone, SameStore
<1>12. ASSUME r = [ResetStore(Marked(w, b)) EXCEPT !.resetOnDisconnect = FALSE]
       PROVE  Gone(t, r)
  <2>1. PICK x : x = ResetStore(w)
    OBVIOUS
  <2>2. r = Marked(x, FALSE)
    BY <1>12, <2>1 DEF ResetStore, Marked
  <2>3. /\ x \in Sessions /\ x.sent = w.sent /\ x.rc = w.rc /\ x.socket = w.socket
        /\ x.outgoing = <<>> /\ x.nextSender = 1
    <3>1. <<>> \in Seq(StoredIn(Payloads)) /\ 1 \in Numbers
      BY DEF Numbers
    <3> QED BY <1>9, <2>1, <3>1 DEF ResetStore, Sessions
  <2>4. StoreOk(x)
    BY <2>3 DEF StoreOk, Ascending
  <2>5. Gone(x, r)
    BY <1>2, <1>4, <1>9, <2>2, <2>3, <2>4, MarkedGone
  <2> QED BY <1>2, <1>4, <1>9, <2>3, <2>5 DEF Gone, SameStore
<1> QED BY <1>10, <1>11, <1>12

LEMMA CloseGone ==
  ASSUME NEW c \in MildConfigs, NEW s \in Sessions, NEW b \in BOOLEAN, StoreOk(s),
         NEW t, t = Marked(s, b), NEW r, r = Close(c, t)
  PROVE  r \in MildSessions /\ StoreOk(r) /\ r.socket = "none" /\ r.sent = s.sent /\ r.rc = s.rc
<1>1. t.socket = s.socket
  BY MarkedFacts
<1>2. PICK v : v = [s EXCEPT !.listening = FALSE, !.socket = "none"]
  OBVIOUS
<1>3. v \in Sessions /\ SameStore(s, v) /\ v.rc = s.rc /\ v.socket = "none"
  BY <1>2 DEF Sessions, SameStore
<1>4. [t EXCEPT !.listening = FALSE, !.socket = "none"] = Marked(v, b)
  BY <1>2 DEF Marked
<1>5. StoreOk(v)
  BY <1>3 DEF SameStore, StoreOk
<1>6. PICK y : y = Marked(v, b)
  OBVIOUS
<1>7. Gone(v, y)
  BY <1>3, <1>5, <1>6, MarkedGone
<1>8. r = y \/ r = OnDisconnected(c, y)
  BY <1>4, <1>6 DEF Close
<1>9. ASSUME r = OnDisconnected(c, y) PROVE Gone(y, r)
  BY <1>7, <1>9, OnDisconnectedGone DEF Gone
<1> QED BY <1>3, <1>7, <1>8, <1>9 DEF Gone, SameStore

LEMMA FailGone ==
  ASSUME NEW t \in MildSessions, StoreOk(t), NEW rc \in RCs, NEW r, r = Fail(t, rc)
  PROVE  /\ r \in MildSessions /\ StoreOk(r) /\ r.socket = t.socket /\ r.sent = t.sent
         /\ r.rc = rc
<1>1. PICK s \in Sessions, b \in BOOLEAN : t = Marked(s, b)
  BY DEF MildSessions
<1>2. t.socket = s.socket /\ t.sent = s.sent /\ StoreOk(s)
  BY <1>1, MarkedFacts, MildFacts
<1>3. PICK v : v = Fail(s, rc)
  OBVIOUS
<1>4. v \in Sessions /\ Stays(s, v) /\ SameStore(s, v) /\ v.rc = rc
  BY <1>3, FailLemma
<1>5. r = Marked(v, b)
  BY <1>1, <1>3 DEF Fail, Marked
<1>6. r.socket = v.socket /\ r.sent = v.sent /\ r.rc = v.rc
  BY <1>4, <1>5, MarkedFacts
<1>7. StoreOk(v)
  BY <1>2, <1>4 DEF SameStore, StoreOk
<1>8. r \in MildSessions /\ StoreOk(r)
  BY <1>4, <1>5, <1>7, MildFacts
<1> QED BY <1>2, <1>4, <1>6, <1>8 DEF Stays, SameStore

(* The handlers.                                                            *)
LEMMA HandleLogonMirrors ==
  ASSUME NEW c \in MildConfigs, NEW d, d = Eased(c), NEW s \in Sessions, s.rc = "ok", StoreOk(s),
         NEW b \in BOOLEAN, NEW t, t = Marked(s, b), NEW m \in Messages, m.kind = "Logon",
         NEW u, u = HandleLogon(d, s, m), NEW r, r = HandleLogon(c, t, m)
  PROVE  Mirrors(u, r)
<1>1. m.reset = FALSE /\ m.acceptable = TRUE
  <2>1. m \in LogonMessages
    BY MessageKinds
  <2> QED BY <2>1 DEF LogonMessages
<1>0. d \in PlainConfigs
  BY EasedFacts
<1>2. t.status = s.status /\ t.receivedLogon = s.receivedLogon /\ t.sentLogon = s.sentLogon
  BY MarkedFacts
<1>3. CASE s.receivedLogon \/ LoggedOn(s)
  <2>1. PICK v : v = SendLogout(d, s)
    OBVIOUS
  <2>2. v \in Sessions /\ Emits(d, s, v, AdminKinds)
    BY <1>0, <2>1, SendLogoutLemma
  <2>3. StoreOk(v)
    BY <2>2, StoreGrows
  <2>4. PICK w : w = Marked(v, b)
    OBVIOUS
  <2>5. SendLogout(c, t) = w /\ w.rc = v.rc
    BY <2>1, <2>2, <2>4, SendLogoutMarked, MarkedFacts
  <2>6. u = IF v.rc = "ok" THEN Fail(Close(d, v), "session") ELSE v
    BY <1>3, <2>1 DEF HandleLogon, HandleDuplicateLogon, Ok
  <2>7. r = IF v.rc = "ok" THEN Fail(Close(c, w), "session") ELSE w
    BY <1>2, <1>3, <2>5 DEF HandleLogon, HandleDuplicateLogon, Ok, LoggedOn
  <2>8. CASE v.rc # "ok"
    BY <2>4, <2>6, <2>7, <2>8 DEF Mirrors
  <2>9. CASE v.rc = "ok"
    <3>1. PICK x : x = Close(d, v)
      OBVIOUS
    <3>2. x \in Sessions /\ SameStore(v, x) /\ x.socket = "none"
      BY <1>0, <2>2, <3>1, CloseLemma
    <3>3. u.socket = "none" /\ u.sent = v.sent /\ u.rc = "session"
      BY <2>6, <2>9, <3>1, <3>2, FailLemma DEF RCs, Stays, SameStore
    <3>4. PICK y : y = Close(c, w)
      OBVIOUS
    <3>5. y \in MildSessions /\ StoreOk(y) /\ y.socket = "none" /\ y.sent = v.sent
      BY <2>2, <2>3, <2>4, <3>4, CloseGone
    <3>6. r = Fail(y, "session") /\ "session" \in RCs
      BY <2>7, <2>9, <3>4 DEF RCs
    <3>7. r \in MildSessions /\ StoreOk(r)
             /\ r.socket = y.socket /\ r.sent = y.sent /\ r.rc = "session"
      BY <3>5, <3>6, FailGone
    <3> QED BY <3>3, <3>5, <3>7 DEF Mirrors, Gone
  <2> QED BY <2>8, <2>9
<1>4. CASE ~(s.receivedLogon \/ LoggedOn(s))
  <2>1. PICK v : v = [s EXCEPT !.receivedLogon = TRUE]
    OBVIOUS
  <2>2. v \in Sessions /\ v.sentLogon = s.sentLogon /\ v.rc = "ok"
    <3>1. v \in Sessions
      BY ZenonT(60), <2>1 DEF Sessions
    <3> QED BY <2>1, <3>1 DEF Sessions
  <2>3. [t EXCEPT !.receivedLogon = TRUE] = Marked(v, b)
    BY <2>1 DEF Marked
  <2>4. PICK x : x = IF s.sentLogon THEN v ELSE SendLogon(d, v)
    OBVIOUS
  <2>5. x \in Sessions
    BY <1>0, <2>2, <2>4, SendLogonLemma
  <2>6. PICK y : y = Marked(x, b)
    OBVIOUS
  <2>7. y = IF s.sentLogon THEN Marked(v, b) ELSE SendLogon(c, Marked(v, b))
    <3>1. SendLogon(c, Marked(v, b)) = Marked(SendLogon(d, v), b)
      BY <2>2, SendLogonMarked
    <3> QED BY <2>4, <2>6, <3>1
  <2>8. y.rc = x.rc /\ y.calls = x.calls
    BY <2>5, <2>6, MarkedFacts
  <2>9. u = IF x.rc # "ok" THEN x ELSE Call([x EXCEPT !.status = "LoggedOn"], "onLogon", NoBody)
    BY <1>1, <1>4, <2>1, <2>2, <2>4 DEF HandleLogon, Ok
  <2>10. PICK w : w = Marked(v, b)
    OBVIOUS
  <2>18. w.sentLogon = s.sentLogon /\ [t EXCEPT !.receivedLogon = TRUE] = w
         /\ y = IF s.sentLogon THEN w ELSE SendLogon(c, w)
    BY <2>2, <2>3, <2>7, <2>10, MarkedFacts
  <2>11. r = IF x.rc # "ok" THEN y ELSE Call([y EXCEPT !.status = "LoggedOn"], "onLogon", NoBody)
    BY <1>1, <1>2, <1>4, <2>8, <2>18 DEF HandleLogon, Ok, LoggedOn
  <2>12. PICK more : more = Append(x.calls, [event |-> "onLogon", body |-> NoBody])
    OBVIOUS
  <2>13. [x EXCEPT !.status = "LoggedOn"].calls = x.calls
         /\ [y EXCEPT !.status = "LoggedOn"].calls = x.calls
    BY <2>5, <2>6, <2>8 DEF Sessions, Marked
  <2>14. Call([x EXCEPT !.status = "LoggedOn"], "onLogon", NoBody)
           = [[x EXCEPT !.status = "LoggedOn"] EXCEPT !.calls = more]
    BY <2>12, <2>13 DEF Call
  <2>15. Call([y EXCEPT !.status = "LoggedOn"], "onLogon", NoBody)
           = [[y EXCEPT !.status = "LoggedOn"] EXCEPT !.calls = more]
    BY <2>12, <2>13 DEF Call
  <2>16. [[y EXCEPT !.status = "LoggedOn"] EXCEPT !.calls = more]
           = Marked([[x EXCEPT !.status = "LoggedOn"] EXCEPT !.calls = more], b)
    BY <2>6 DEF Marked
  <2>17. r = Marked(u, b)
    BY Zenon, <2>6, <2>9, <2>11, <2>14, <2>15, <2>16
  <2> QED BY <2>17 DEF Mirrors
<1> QED BY <1>3, <1>4

LEMMA HandleLogoutMirrors ==
  ASSUME NEW c \in MildConfigs, NEW d, d = Eased(c), NEW s \in Sessions, s.rc = "ok", StoreOk(s),
         NEW b \in BOOLEAN, NEW t, t = Marked(s, b),
         NEW u, u = HandleLogout(d, s), NEW r, r = HandleLogout(c, t)
  PROVE  Mirrors(u, r)
<1>0. d \in PlainConfigs /\ d.initiator = c.initiator
  BY EasedFacts
<1>1. PICK v : v = [s EXCEPT !.receivedLogout = TRUE]
  OBVIOUS
<1>2. v \in Sessions /\ v.sentLogout = s.sentLogout /\ v.rc = "ok" /\ SameStore(s, v)
  <2>1. v \in Sessions
    BY ZenonT(60), <1>1 DEF Sessions
  <2> QED BY <1>1, <2>1 DEF Sessions, SameStore
<1>3. [t EXCEPT !.receivedLogout = TRUE] = Marked(v, b) /\ Marked(v, b).sentLogout = s.sentLogout
  <2>1. Marked(v, b).sentLogout = s.sentLogout
    BY <1>2, MarkedFacts
  <2> QED BY <1>1, <2>1 DEF Marked
<1>4. PICK x : x = IF s.sentLogout THEN v ELSE SendLogout(d, v)
  OBVIOUS
<1>5. x \in Sessions /\ Emits(d, v, x, AdminKinds)
  <2>1. CASE x = v
    BY <1>2, <2>1 DEF Emits, SameStore
  <2>2. CASE x = SendLogout(d, v)
    BY <1>0, <1>2, <2>2, SendLogoutLemma
  <2> QED BY <1>4, <2>1, <2>2
<1>6. PICK y : y = Marked(x, b)
  OBVIOUS
<1>7. y = IF s.sentLogout THEN Marked(v, b) ELSE SendLogout(c, Marked(v, b))
  <2>1. SendLogout(c, Marked(v, b)) = Marked(SendLogout(d, v), b)
    BY <1>2, SendLogoutMarked
  <2> QED BY <1>4, <1>6, <2>1
<1>8. y.rc = x.rc
  BY <1>5, <1>6, MarkedFacts
<1>9. PICK z : z = [x EXCEPT !.status = "Closing"]
  OBVIOUS
<1>10. z \in Sessions /\ SameStore(x, z) /\ z.rc = x.rc
  <2>1. "Closing" \in Statuses
    BY DEF Statuses
  <2> QED BY <1>5, <1>9, <2>1 DEF Sessions, SameStore
<1>11. [y EXCEPT !.status = "Closing"] = Marked(z, b)
  BY <1>6, <1>9 DEF Marked
<1>12. u = IF x.rc # "ok" THEN x ELSE IF c.initiator THEN OnDisconnected(d, Close(d, z)) ELSE z
  BY <1>0, <1>1, <1>2, <1>4, <1>9 DEF HandleLogout, Ok
<1>13. r = IF x.rc # "ok" THEN y
           ELSE IF c.initiator THEN OnDisconnected(c, Close(c, Marked(z, b))) ELSE Marked(z, b)
  BY <1>3, <1>7, <1>8, <1>11 DEF HandleLogout, Ok
<1>14. CASE x.rc # "ok"
  BY <1>6, <1>12, <1>13, <1>14 DEF Mirrors
<1>15. CASE x.rc = "ok" /\ ~c.initiator
  BY <1>12, <1>13, <1>15 DEF Mirrors
<1>16. CASE x.rc = "ok" /\ c.initiator
  <2>1. StoreOk(z)
    <3>1. StoreOk(v)
      BY <1>2 DEF SameStore, StoreOk
    <3>2. StoreOk(x)
      BY <1>2, <1>5, <3>1, StoreGrows
    <3> QED BY <1>10, <3>2 DEF SameStore, StoreOk
  <2>2. PICK f : f = Close(d, z)
    OBVIOUS
  <2>3. f \in Sessions /\ SameStore(z, f) /\ f.socket = "none" /\ f.rc = z.rc
    BY <1>0, <1>10, <2>2, CloseLemma
  <2>4. u.socket = "none" /\ u.sent = z.sent /\ u.rc = z.rc
    <3>1. u = OnDisconnected(d, f)
      BY <1>12, <1>16, <2>2
    <3>2. SameStore(f, u) /\ u.socket = f.socket /\ u.rc = f.rc
      BY <1>0, <2>3, <3>1, OnDisconnectedLemma
    <3> QED BY <2>3, <3>2 DEF SameStore
  <2>5. PICK g : g = Close(c, Marked(z, b))
    OBVIOUS
  <2>6. g \in MildSessions /\ StoreOk(g) /\ g.socket = "none" /\ g.sent = z.sent /\ g.rc = z.rc
    BY <1>10, <2>1, <2>5, CloseGone
  <2>7. r = OnDisconnected(c, g)
    BY <1>13, <1>16, <2>5
  <2>8. Gone(g, r)
    BY <2>6, <2>7, OnDisconnectedGone
  <2> QED BY <2>4, <2>6, <2>8 DEF Mirrors, Gone
<1> QED BY <1>14, <1>15, <1>16

LEMMA HandleResendRequestMarked ==
  ASSUME NEW c \in MildConfigs, NEW d, d = Eased(c), NEW s \in Sessions,
         NEW b \in BOOLEAN, NEW t, t = Marked(s, b), NEW m
  PROVE  HandleResendRequest(c, t, m) = Marked(HandleResendRequest(d, s, m), b)
<1>1. d.store = c.store
  BY EasedFacts
<1>2. t.outgoing = s.outgoing /\ t.nextSender = s.nextSender /\ t.sent = s.sent
      /\ t.socket = s.socket
  BY MarkedFacts
<1>3. PICK end : end = IF m.end = 0 THEN s.nextSender - 1 ELSE m.end
  OBVIOUS
<1>4. PICK replay : replay = Replay(d, s, m.begin, end)
  OBVIOUS
<1>5. Replay(c, t, m.begin, end) = replay
  BY <1>1, <1>2, <1>4 DEF Replay
<1>6. PICK more : more = s.sent \o [j \in DOMAIN replay |-> OnWire(replay[j])]
  OBVIOUS
<1>7. HandleResendRequest(d, s, m) =
        IF replay = <<>> THEN s ELSE IF ~Writable(s) THEN Fail(s, "io")
          ELSE [s EXCEPT !.sent = more]
  BY <1>3, <1>4, <1>6 DEF HandleResendRequest
<1>8. HandleResendRequest(c, t, m) =
        IF replay = <<>> THEN t ELSE IF ~Writable(s) THEN Fail(t, "io")
          ELSE [t EXCEPT !.sent = more]
  <2>1. Writable(t) = Writable(s)
    BY <1>2 DEF Writable
  <2> QED BY <1>2, <1>3, <1>5, <1>6, <2>1 DEF HandleResendRequest
<1>9. Fail(t, "io") = Marked(Fail(s, "io"), b)
  BY DEF Fail, Marked
<1>10. [t EXCEPT !.sent = more] = Marked([s EXCEPT !.sent = more], b)
  BY DEF Marked
<1> QED BY Zenon, <1>7, <1>8, <1>9, <1>10

LEMMA DispatchMirrors ==
  ASSUME NEW c \in MildConfigs, NEW d, d = Eased(c), NEW s \in Sessions, s.rc = "ok", StoreOk(s),
         NEW b \in BOOLEAN, NEW t, t = Marked(s, b), NEW m \in Messages,
         NEW u, u = Dispatch(d, s, m), NEW r, r = Dispatch(c, t, m)
  PROVE  Mirrors(u, r)
<1>1. CASE m.kind = "Logon"
  BY <1>1, HandleLogonMirrors DEF Dispatch
<1>2. CASE m.kind = "Logout"
  BY <1>2, HandleLogoutMirrors DEF Dispatch
<1>0. ASSUME r = Marked(u, b) PROVE Mirrors(u, r)
  BY <1>0 DEF Mirrors
<1>3. CASE m.kind = "Heartbeat"
  <2>1. t.awaitingTest = s.awaitingTest /\ t.testRequestID = s.testRequestID
    BY MarkedFacts
  <2>2. u = HandleHeartbeat(s, m) /\ r = HandleHeartbeat(t, m)
    BY <1>3 DEF Dispatch
  <2>3. [t EXCEPT !.awaitingTest = FALSE] = Marked([s EXCEPT !.awaitingTest = FALSE], b)
    BY DEF Marked
  <2> QED BY <1>0, <2>1, <2>2, <2>3 DEF HandleHeartbeat
<1>4. CASE m.kind = "TestRequest"
  <2>1. t.sentLogout = s.sentLogout /\ t.receivedLogout = s.receivedLogout
    BY MarkedFacts
  <2>4. d.ignoreTestRequest = c.ignoreTestRequest
    BY EasedFacts
  <2>2. u = HandleTestRequest(d, s, m) /\ r = HandleTestRequest(c, t, m)
    BY <1>4 DEF Dispatch
  <2>3. Send(c, t, HeartbeatMsg(m.id)) = Marked(Send(d, s, HeartbeatMsg(m.id)), b)
    BY SendMarked
  <2> QED BY <1>0, <2>1, <2>2, <2>3, <2>4 DEF HandleTestRequest
<1>5. CASE m.kind = "ResendRequest"
  <2>1. u = HandleResendRequest(d, s, m) /\ r = HandleResendRequest(c, t, m)
    BY <1>5 DEF Dispatch
  <2> QED BY <1>0, <2>1, HandleResendRequestMarked
<1>6. CASE m.kind = "SequenceReset"
  <2>1. t.nextTarget = s.nextTarget
    BY MarkedFacts
  <2>2. u = HandleSequenceReset(s, m) /\ r = HandleSequenceReset(t, m)
    BY <1>6 DEF Dispatch
  <2>3. /\ Fail(t, "session") = Marked(Fail(s, "session"), b)
        /\ [t EXCEPT !.nextTarget = m.new] = Marked([s EXCEPT !.nextTarget = m.new], b)
    BY DEF Fail, Marked
  <2> QED BY <1>0, <2>1, <2>2, <2>3 DEF HandleSequenceReset
<1>7. CASE m.kind = "App"
  <2>1. t.calls = s.calls
    BY MarkedFacts
  <2>2. PICK more : more = Append(s.calls, [event |-> "fromApp", body |-> m.body])
    OBVIOUS
  <2>3. PICK v : v = [s EXCEPT !.calls = more]
    OBVIOUS
  <2>4. [t EXCEPT !.calls = more] = Marked(v, b)
    BY <2>3 DEF Marked
  <2>5. u = IF m.body \in Refused THEN Fail(v, "app") ELSE v
    BY <1>7, <2>2, <2>3 DEF Dispatch, Deliver, Call
  <2>6. r = IF m.body \in Refused THEN Fail(Marked(v, b), "app") ELSE Marked(v, b)
    BY <1>7, <2>1, <2>2, <2>4 DEF Dispatch, Deliver, Call
  <2>7. Fail(Marked(v, b), "app") = Marked(Fail(v, "app"), b)
    BY DEF Fail, Marked
  <2> QED BY <1>0, <2>5, <2>6, <2>7
<1>8. CASE m.kind = "Reject"
  BY <1>0, <1>8 DEF Dispatch
<1> QED BY <1>1, <1>2, <1>3, <1>4, <1>5, <1>6, <1>7, <1>8, MessageKinds

(* A handler that makes the session Disconnected has closed its socket.     *)
LEMMA SendLogoutStatus ==
  ASSUME NEW d \in PlainConfigs, NEW s \in Sessions, NEW u, u = SendLogout(d, s)
  PROVE  u.status \in {s.status, "LogoutSent"}
<1>1. PICK v : v = Send(d, s, LogoutMsg)
  OBVIOUS
<1>2. v \in Sessions /\ v.status = s.status
  <2>1. s.nextSender \in Numbers
    BY DEF Sessions
  <2>2. PICK msg : msg = LogoutMsg
    OBVIOUS
  <2>3. Numbered(msg, s.nextSender)
    BY <2>1, <2>2, FreshMessages
  <2> QED BY <1>1, <2>2, <2>3, SendQuiet
<1>3. u \in {s, v, [v EXCEPT !.sentLogout = TRUE, !.status = "LogoutSent"]}
  BY <1>1 DEF SendLogout
<1>4. [v EXCEPT !.sentLogout = TRUE, !.status = "LogoutSent"].status = "LogoutSent"
  BY <1>2 DEF Sessions
<1> QED BY <1>2, <1>3, <1>4

LEMMA SendLogonStatus ==
  ASSUME NEW d \in PlainConfigs, NEW s \in Sessions, NEW u, u = SendLogon(d, s)
  PROVE  u.status \in {s.status, "LogonSent"}
<1>1. PICK v : v = Send(d, s, LogonMsg(FALSE, TRUE))
  OBVIOUS
<1>2. v \in Sessions /\ v.status = s.status
  <2>1. s.nextSender \in Numbers
    BY DEF Sessions
  <2>2. PICK msg : msg = LogonMsg(FALSE, TRUE)
    OBVIOUS
  <2>3. Numbered(msg, s.nextSender)
    BY <2>1, <2>2, FreshMessages
  <2>4. v = Send(d, s, msg)
    BY Zenon, <1>1, <2>2
  <2> QED BY <2>3, <2>4, SendQuiet
<1>3. u \in {v, [v EXCEPT !.sentLogon = TRUE, !.status = "LogonSent"]}
  BY <1>1, PlainFacts DEF SendLogon
<1>4. [v EXCEPT !.sentLogon = TRUE, !.status = "LogonSent"].status = "LogonSent"
  BY <1>2 DEF Sessions
<1> QED BY <1>2, <1>3, <1>4

LEMMA DispatchStatus ==
  ASSUME NEW d \in PlainConfigs, NEW s \in Sessions, s.rc = "ok", s.status # "Disconnected",
         NEW m \in Messages, NEW u, u = Dispatch(d, s, m), u.status = "Disconnected"
  PROVE  u.socket = "none"
<1>1. CASE m.kind = "Logon"
  <2>1. m.acceptable = TRUE /\ m.reset = FALSE
    <3>1. m \in LogonMessages
      BY <1>1, MessageKinds
    <3> QED BY <3>1 DEF LogonMessages
  <2>2. u = HandleLogon(d, s, m)
    BY <1>1 DEF Dispatch
  <2>3. CASE s.receivedLogon \/ LoggedOn(s)
    <3>1. PICK v : v = SendLogout(d, s)
      OBVIOUS
    <3>2. v \in Sessions /\ v.status # "Disconnected"
      BY <3>1, SendLogoutLemma, SendLogoutStatus
    <3>3. u = v \/ u = Fail(Close(d, v), "session")
      BY <2>2, <2>3, <3>1 DEF HandleLogon, HandleDuplicateLogon
    <3>4. ASSUME u = Fail(Close(d, v), "session") PROVE u.socket = "none"
      <4>1. PICK x : x = Close(d, v)
        OBVIOUS
      <4>2. x \in Sessions /\ x.socket = "none"
        BY <3>2, <4>1, CloseLemma
      <4> QED BY <3>4, <4>1, <4>2, FailLemma DEF RCs, Stays
    <3> QED BY <3>2, <3>3, <3>4
  <2>4. CASE ~(s.receivedLogon \/ LoggedOn(s))
    <3>1. PICK v : v = [s EXCEPT !.receivedLogon = TRUE]
      OBVIOUS
    <3>2. v \in Sessions /\ v.status = s.status
      <4>1. v \in Sessions
        BY ZenonT(60), <3>1 DEF Sessions
      <4> QED BY <3>1, <4>1 DEF Sessions
    <3>3. PICK x : x = IF v.sentLogon THEN v ELSE SendLogon(d, v)
      OBVIOUS
    <3>4. x \in Sessions /\ x.status # "Disconnected"
      BY <3>2, <3>3, SendLogonLemma, SendLogonStatus
    <3>5. u = x \/ u = Call([x EXCEPT !.status = "LoggedOn"], "onLogon", NoBody)
      BY <2>1, <2>2, <2>4, <3>1, <3>3 DEF HandleLogon
    <3>6. ASSUME u = Call([x EXCEPT !.status = "LoggedOn"], "onLogon", NoBody)
          PROVE  u.status = "LoggedOn"
      BY <3>4, <3>6 DEF Call, Sessions
    <3> QED BY <3>4, <3>5, <3>6
  <2> QED BY <2>3, <2>4
<1>2. CASE m.kind = "Logout"
  <2>1. u = HandleLogout(d, s)
    BY <1>2 DEF Dispatch
  <2>2. PICK v : v = [s EXCEPT !.receivedLogout = TRUE]
    OBVIOUS
  <2>3. v \in Sessions /\ v.status = s.status /\ v.rc = "ok"
    <3>1. v \in Sessions
      BY ZenonT(60), <2>2 DEF Sessions
    <3> QED BY <2>2, <3>1 DEF Sessions
  <2>4. PICK x : x = IF v.sentLogout THEN v ELSE SendLogout(d, v)
    OBVIOUS
  <2>5. x \in Sessions /\ x.status # "Disconnected"
    BY <2>3, <2>4, SendLogoutLemma, SendLogoutStatus
  <2>6. PICK z : z = [x EXCEPT !.status = "Closing"]
    OBVIOUS
  <2>7. z \in Sessions /\ z.status = "Closing"
    <3>1. "Closing" \in Statuses
      BY DEF Statuses
    <3> QED BY <2>5, <2>6, <3>1 DEF Sessions
  <2>8. u \in {x, z, OnDisconnected(d, Close(d, z))}
    BY <2>1, <2>2, <2>4, <2>6 DEF HandleLogout
  <2>9. ASSUME u = OnDisconnected(d, Close(d, z)) PROVE u.socket = "none"
    <3>1. PICK f : f = Close(d, z)
      OBVIOUS
    <3>2. f \in Sessions /\ f.socket = "none"
      BY <2>7, <3>1, CloseLemma
    <3> QED BY <2>9, <3>1, <3>2, OnDisconnectedLemma
  <2> QED BY <2>5, <2>7, <2>8, <2>9
<1>3. CASE m.kind \notin {"Logon", "Logout"}
  <2>1. u.status = s.status
    <3>1. CASE m.kind = "Heartbeat"
      BY <3>1 DEF Dispatch, HandleHeartbeat, Sessions
    <3>2. CASE m.kind = "TestRequest"
      <4>1. m.id \in Nat /\ s.nextSender \in Numbers
        <5>1. m \in ProbeMessages
          BY <3>2, MessageKinds
        <5> QED BY <5>1 DEF ProbeMessages, Sessions
      <4>2. Send(d, s, HeartbeatMsg(m.id)).status = s.status
        <5>1. PICK msg : msg = HeartbeatMsg(m.id)
          OBVIOUS
        <5>2. Numbered(msg, s.nextSender)
          BY <4>1, <5>1, FreshMessages
        <5>3. PICK v : v = Send(d, s, msg)
          OBVIOUS
        <5>4. v.status = s.status
          BY <5>2, <5>3, SendQuiet
        <5> QED BY <5>1, <5>3, <5>4
      <4> QED BY <3>2, <4>2 DEF Dispatch, HandleTestRequest
    <3>3. CASE m.kind = "ResendRequest"
      <4>1. u = HandleResendRequest(d, s, m)
        BY <3>3 DEF Dispatch
      <4>2. \/ u = s \/ u = Fail(s, "io")
            \/ \E more : u = [s EXCEPT !.sent = more]
        BY <4>1 DEF HandleResendRequest
      <4> QED BY <4>2 DEF Fail, Sessions
    <3>4. CASE m.kind = "SequenceReset"
      BY <3>4 DEF Dispatch, HandleSequenceReset, Fail, Sessions
    <3>5. CASE m.kind = "App"
      <4>1. u = Deliver(s, m)
        BY <3>5 DEF Dispatch
      <4>2. PICK more : more = Append(s.calls, [event |-> "fromApp", body |-> m.body])
        OBVIOUS
      <4>3. PICK v : v = [s EXCEPT !.calls = more]
        OBVIOUS
      <4>4. u = v \/ u = [v EXCEPT !.rc = "app"]
        BY <4>1, <4>2, <4>3 DEF Deliver, Call, Fail
      <4> QED BY <4>3, <4>4 DEF Sessions
    <3>6. CASE m.kind = "Reject"
      BY <3>6 DEF Dispatch
    <3> QED BY <1>3, <3>1, <3>2, <3>3, <3>4, <3>5, <3>6, MessageKinds
  <2> QED BY <2>1
<1> QED BY <1>1, <1>2, <1>3

(* Counting a message.                                                      *)
LEMMA CountMarked ==
  ASSUME NEW c \in MildConfigs, NEW d, d = Eased(c), NEW s \in Sessions,
         s.status # "Disconnected", NEW b \in BOOLEAN, NEW t, t = Marked(s, b), NEW m
  PROVE  Count(c, t, m) = Marked(Count(d, s, m), b)
<1>0. d \in PlainConfigs
  BY EasedFacts
<1>1. t.status = s.status /\ t.nextTarget = s.nextTarget /\ t.disk = "ok" /\ s.disk = "ok"
  <2>1. s.disk = "ok"
    BY DEF Sessions
  <2> QED BY <2>1, MarkedFacts
<1>2. PICK v : v = IF m.kind = "SequenceReset" THEN s
                   ELSE [s EXCEPT !.nextTarget = s.nextTarget + 1]
  OBVIOUS
<1>3. v \in Sessions /\ v.status = s.status
  <2>1. s.nextTarget + 1 \in Numbers
    BY DEF Sessions, Numbers
  <2> QED BY <1>2, <2>1 DEF Sessions
<1>4. PICK w : w = Marked(v, b)
  OBVIOUS
<1>5. w = IF m.kind = "SequenceReset" THEN t ELSE [t EXCEPT !.nextTarget = s.nextTarget + 1]
  <2>1. Marked([s EXCEPT !.nextTarget = s.nextTarget + 1], b)
          = [t EXCEPT !.nextTarget = s.nextTarget + 1]
    BY DEF Marked
  <2> QED BY <1>2, <1>4, <2>1
<1>6. w.awaitingResend = v.awaitingResend /\ w.nextTarget = v.nextTarget /\ w.status = v.status
  BY <1>3, <1>4, MarkedFacts
<1>7. Count(d, s, m) = IF v.awaitingResend /\ v.nextTarget > m.seq THEN EndResend(d, v) ELSE v
  <2>1. ~DiskRefuses(d, s)
    BY <1>1 DEF DiskRefuses
  <2> QED BY <1>2, <2>1 DEF Count
<1>8. Count(c, t, m) = IF v.awaitingResend /\ v.nextTarget > m.seq THEN EndResend(c, w) ELSE w
  <2>1. ~DiskRefuses(c, t) /\ t.status # "Disconnected"
    BY <1>1 DEF DiskRefuses
  <2> QED BY <1>1, <1>5, <1>6, <2>1 DEF Count
<1>9. EndResend(c, w) = Marked(EndResend(d, v), b)
  <2>1. PICK x : x = [v EXCEPT !.awaitingResend = FALSE]
    OBVIOUS
  <2>2. x \in Sessions
    BY ZenonT(60), <1>3, <2>1 DEF Sessions
  <2>3. [w EXCEPT !.awaitingResend = FALSE] = Marked(x, b)
    BY <1>4, <2>1 DEF Marked
  <2>4. SendLogout(c, Marked(x, b)) = Marked(SendLogout(d, x), b)
    BY <2>2, SendLogoutMarked
  <2> QED BY <1>6, <2>1, <2>3, <2>4 DEF EndResend
<1> QED BY Zenon, <1>4, <1>7, <1>8, <1>9

LEMMA CountGone ==
  ASSUME NEW c \in MildConfigs, NEW t \in MildSessions, StoreOk(t), t.socket = "none",
         NEW m, NEW r, r = Count(c, t, m)
  PROVE  r \in MildSessions /\ StoreOk(r) /\ r.socket = "none" /\ r.sent = t.sent /\ r.rc = t.rc
<1>1. PICK s \in Sessions, b \in BOOLEAN : t = Marked(s, b)
  BY DEF MildSessions
<1>2. /\ t.socket = s.socket /\ t.sent = s.sent /\ t.rc = s.rc /\ t.nextTarget = s.nextTarget
      /\ StoreOk(s) /\ t.disk = "ok"
  <2>1. s.disk = "ok"
    BY DEF Sessions
  <2> QED BY <1>1, <2>1, MarkedFacts, MildFacts
<1>3. PICK v : v = IF m.kind = "SequenceReset" THEN s
                   ELSE [s EXCEPT !.nextTarget = s.nextTarget + 1]
  OBVIOUS
<1>4. v \in Sessions /\ SameStore(s, v) /\ v.rc = s.rc /\ v.socket = s.socket
  <2>1. s.nextTarget + 1 \in Numbers
    BY DEF Sessions, Numbers
  <2> QED BY <1>3, <2>1 DEF Sessions, SameStore
<1>5. PICK w : w = Marked(v, b)
  OBVIOUS
<1>6. w = IF m.kind = "SequenceReset" THEN t ELSE [t EXCEPT !.nextTarget = s.nextTarget + 1]
  <2>1. Marked([s EXCEPT !.nextTarget = s.nextTarget + 1], b)
          = [t EXCEPT !.nextTarget = s.nextTarget + 1]
    BY <1>1 DEF Marked
  <2> QED BY <1>1, <1>3, <1>5, <2>1
<1>7. PICK x : x = [v EXCEPT !.awaitingResend = FALSE]
  OBVIOUS
<1>8. x \in Sessions /\ SameStore(v, x) /\ x.rc = v.rc /\ x.socket = v.socket /\ x.status = v.status
  <2>1. x \in Sessions
    BY ZenonT(60), <1>4, <1>7 DEF Sessions
  <2> QED BY <1>4, <1>7, <2>1 DEF Sessions, SameStore
<1>9. PICK y : y = Marked(x, b)
  OBVIOUS
<1>10. EndResend(c, w) = y
  <2>1. [w EXCEPT !.awaitingResend = FALSE] = y
    BY <1>5, <1>7, <1>9 DEF Marked
  <2>2. w.status = y.status
    BY <1>4, <1>5, <1>8, <1>9, MarkedFacts
  <2>3. y.status = "Closing" => SendLogout(c, y) = y
    BY DEF SendLogout, Closing
  <2> QED BY <2>1, <2>2, <2>3 DEF EndResend
<1>11. r \in {t, w, y}
  <2>1. ~DiskRefuses(c, t)
    BY <1>2 DEF DiskRefuses
  <2>2. w = IF m.kind = "SequenceReset" THEN t ELSE [t EXCEPT !.nextTarget = @ + 1]
    BY <1>2, <1>6
  <2>3. r = t \/ r = w \/ r = EndResend(c, w)
    BY <2>1, <2>2 DEF Count
  <2> QED BY <1>10, <2>3
<1>12. Gone(v, w) /\ Gone(x, y)
  <2>1. StoreOk(v) /\ StoreOk(x)
    BY <1>2, <1>4, <1>8 DEF SameStore, StoreOk
  <2> QED BY <1>2, <1>4, <1>5, <1>8, <1>9, <2>1, MarkedGone
<1> QED BY <1>2, <1>4, <1>8, <1>11, <1>12 DEF Gone, SameStore

LEMMA PlainIsMild ==
  ASSUME NEW c \in MildConfigs, NEW d, d = Eased(c)
  PROVE  d \in MildConfigs /\ \A s \in Sessions : s \in MildSessions
<1>1. d \in MildConfigs
  BY EasedFacts DEF PlainConfigs, MildConfigs
<1>2. ASSUME NEW s \in Sessions PROVE s \in MildSessions
  <2>1. s = Marked(s, FALSE)
    <3>1. [s EXCEPT !.resetOnDisconnect = FALSE] = s
      BY DEF Sessions
    <3> QED BY <3>1 DEF Marked
  <2>2. PICK t : t = Marked(s, FALSE)
    OBVIOUS
  <2>3. t \in MildSessions
    BY <2>2, MildFacts
  <2> QED BY Zenon, <2>1, <2>2, <2>3
<1> QED BY <1>1, <1>2

LEMMA HandledStore ==
  ASSUME NEW c, NEW s \in Sessions, StoreOk(s), NEW r, NEW m, HandledOrQuiet(c, s, r, m)
  PROVE  /\ r \in Sessions /\ StoreOk(r) /\ s.nextSender =< r.nextSender
         /\ r.rc # "invalid"
<1>1. s.nextSender \in Nat
  BY DEF Sessions, Numbers
<1>2. CASE Emits(c, s, r, AdminKinds)
  <2>1. StoreOk(r)
    BY <1>2, StoreGrows
  <2>2. r.nextSender = s.nextSender \/ r.nextSender = s.nextSender + 1
    BY <1>2 DEF Emits, SameStore, Writes
  <2> QED BY <1>1, <2>1, <2>2 DEF HandledOrQuiet, Handled, Quiet
<1>3. CASE Answers(c, s, r, m) /\ r.rc = "ok"
  <2>1. r.outgoing = s.outgoing /\ r.nextSender = s.nextSender
    BY <1>3 DEF Answers
  <2> QED BY <1>1, <1>3, <2>1 DEF HandledOrQuiet, Handled, StoreOk
<1> QED BY <1>2, <1>3 DEF HandledOrQuiet, Handled, Quiet

LEMMA CountTyped ==
  ASSUME NEW d \in PlainConfigs, NEW s \in Sessions, NEW m, NEW r, r = Count(d, s, m)
  PROVE  r \in Sessions /\ SameStore(s, r)
<1>1. s.disk = "ok"
  BY DEF Sessions
<1>2. PICK v : v = IF m.kind = "SequenceReset" THEN s ELSE [s EXCEPT !.nextTarget = @ + 1]
  OBVIOUS
<1>3. v \in Sessions /\ SameStore(s, v)
  <2>1. s.nextTarget + 1 \in Numbers
    BY DEF Sessions, Numbers
  <2> QED BY <1>2, <2>1 DEF Sessions, SameStore
<1>4. PICK x : x = [v EXCEPT !.awaitingResend = FALSE]
  OBVIOUS
<1>5. x \in Sessions /\ SameStore(v, x) /\ x.status = v.status
  <2>1. x \in Sessions
    BY ZenonT(60), <1>3, <1>4 DEF Sessions
  <2> QED BY <1>3, <1>4, <2>1 DEF Sessions, SameStore
<1>6. EndResend(d, v) = x
  <2>1. x.status = "Closing" => SendLogout(d, x) = x
    BY DEF SendLogout, Closing
  <2> QED BY <1>4, <1>5, <2>1 DEF EndResend
<1>7. r \in {v, x}
  <2>1. ~DiskRefuses(d, s)
    BY <1>1 DEF DiskRefuses
  <2>2. ~(d.resetOnLogout \/ d.resetOnDisconnect \/ d.resetDaily)
    BY PlainFacts
  <2>3. r = v \/ r = EndResend(d, v)
    BY <1>2, <2>1, <2>2 DEF Count
  <2> QED BY <1>6, <2>3
<1> QED BY <1>3, <1>5, <1>7 DEF SameStore

(* What reading any answerable message leaves, whatever its number.         *)
LEMMA ProcessMirrors ==
  ASSUME NEW c \in MildConfigs, NEW d, d = Eased(c), NEW s \in Sessions, s.rc = "ok", StoreOk(s),
         s.status # "Disconnected", NEW b \in BOOLEAN, NEW t, t = Marked(s, b),
         NEW m \in Messages, Answerable(s, m),
         NEW u, u = Process(d, s, m), NEW r, r = Process(c, t, m)
  PROVE  /\ Mirrors(u, r)
         /\ u \in Sessions /\ StoreOk(u) /\ s.nextSender =< u.nextSender
<1>0. d \in PlainConfigs
  BY EasedFacts
<1>1. PICK v : v = Dispatch(d, s, m)
  OBVIOUS
<1>2. PICK w : w = Dispatch(c, t, m)
  OBVIOUS
<1>3. HandledOrQuiet(d, s, v, m)
  BY <1>0, <1>1, DispatchLemma
<1>4. v \in Sessions /\ StoreOk(v) /\ s.nextSender =< v.nextSender /\ v.rc # "invalid"
  BY <1>3, HandledStore
<1>5. Mirrors(v, w)
  BY <1>1, <1>2, DispatchMirrors
<1>6. w.rc = v.rc
  BY <1>4, <1>5, MarkedFacts DEF Mirrors, Gone
<1>7. /\ u = IF v.rc = "ok" THEN Count(d, v, m) ELSE v
      /\ r = IF v.rc = "ok" THEN Count(c, w, m) ELSE w
  BY <1>1, <1>2, <1>4, <1>6 DEF Process, Ok
<1>8. CASE v.rc # "ok"
  BY <1>4, <1>5, <1>7, <1>8
<1>9. CASE v.rc = "ok"
  <2>1. u = Count(d, v, m) /\ r = Count(c, w, m)
    BY <1>7, <1>9
  <2>2. u \in Sessions /\ SameStore(v, u)
    BY <1>0, <1>4, <2>1, CountTyped
  <2>3. StoreOk(u) /\ s.nextSender =< u.nextSender
    BY <1>4, <2>2 DEF SameStore, StoreOk
  <2>4. CASE v.socket = "none"
    <3>1. Gone(v, w)
      BY <1>4, <1>5, <2>4, MarkedGone DEF Mirrors
    <3>2. r \in MildSessions /\ StoreOk(r) /\ r.socket = "none" /\ r.sent = w.sent /\ r.rc = w.rc
      BY <2>1, <3>1, CountGone DEF Gone
    <3>3. u.socket = "none" /\ u.sent = v.sent /\ u.rc = v.rc
      <4>1. d \in MildConfigs /\ v \in MildSessions
        BY <1>4, PlainIsMild
      <4> QED BY <1>4, <2>1, <2>4, <4>1, CountGone
    <3> QED BY <2>2, <2>3, <3>1, <3>2, <3>3 DEF Gone, Mirrors
  <2>5. CASE v.socket # "none"
    <3>1. PICK x \in BOOLEAN : w = Marked(v, x)
      BY <1>5, <2>5 DEF Mirrors, Gone
    <3>2. v.status # "Disconnected"
      BY <1>0, <1>1, <2>5, DispatchStatus
    <3>3. r = Marked(u, x)
      BY <1>4, <2>1, <3>1, <3>2, CountMarked
    <3> QED BY <2>2, <2>3, <3>3 DEF Mirrors
  <2> QED BY <2>4, <2>5
<1> QED BY <1>8, <1>9

LEMMA OnGapMirrors ==
  ASSUME NEW c \in MildConfigs, NEW d, d = Eased(c), NEW s \in Sessions, StoreOk(s),
         NEW b \in BOOLEAN, NEW t, t = Marked(s, b), NEW m \in Messages, s.nextTarget < m.seq,
         NEW u, u = OnGap(d, s, m), NEW r, r = OnGap(c, t, m)
  PROVE  /\ Mirrors(u, r)
         /\ u \in Sessions /\ StoreOk(u) /\ s.nextSender =< u.nextSender
<1>0. d \in PlainConfigs /\ d.enableResend = c.enableResend
  BY EasedFacts
<1>1. t.awaitingResend = s.awaitingResend /\ t.nextTarget = s.nextTarget
  BY MarkedFacts
<1>2. u \in Sessions /\ StoreOk(u) /\ s.nextSender =< u.nextSender
  <2>1. Quiet(d, s, u) \/ Finds(d, s, u, m)
    BY <1>0, OnGapLemma
  <2>2. u \in Sessions /\ (Emits(d, s, u, AdminKinds) \/ Emits(d, s, u, {"ResendRequest"}))
    BY <2>1 DEF Quiet, Finds, Emits
  <2>3. StoreOk(u)
    BY <2>2, StoreGrows
  <2>4. u.nextSender = s.nextSender \/ u.nextSender = s.nextSender + 1
    BY <2>2 DEF Emits, SameStore, Writes
  <2>5. s.nextSender \in Nat
    BY DEF Sessions, Numbers
  <2> QED BY <2>2, <2>3, <2>4, <2>5
<1>3. CASE ~(c.enableResend /\ ~s.awaitingResend)
  <2>1. u = Fail(s, "session") /\ r = Fail(t, "session")
    BY <1>0, <1>1, <1>3 DEF OnGap
  <2>2. r = Marked(u, b)
    BY <2>1 DEF Fail, Marked
  <2> QED BY <1>2, <2>2 DEF Mirrors
<1>4. CASE c.enableResend /\ ~s.awaitingResend
  <2>1. PICK v : v = [s EXCEPT !.awaitingResend = TRUE]
    OBVIOUS
  <2>2. v \in Sessions
    BY ZenonT(60), <2>1 DEF Sessions
  <2>3. [t EXCEPT !.awaitingResend = TRUE] = Marked(v, b)
    BY <2>1 DEF Marked
  <2>4. PICK msg : msg = ResendRequestMsg(s.nextTarget, m.seq)
    OBVIOUS
  <2>5. PICK x : x = Send(d, v, msg)
    OBVIOUS
  <2>6. Send(c, Marked(v, b), msg) = Marked(x, b)
    BY <2>2, <2>5, SendMarked
  <2>7. u = IF x.rc = "ok" THEN Fail(x, "session") ELSE x
    BY <1>0, <1>4, <2>1, <2>4, <2>5 DEF OnGap, Ok
  <2>8. Marked(x, b).rc = "ok" <=> x.rc = "ok"
    <3>1. DOMAIN x = DOMAIN v
      BY <2>5 DEF Send, Fail, StoreOutgoing, Write
    <3>2. "rc" \in DOMAIN v
      BY <2>2 DEF Sessions
    <3> QED BY <3>1, <3>2 DEF Marked
  <2>9. r = IF Marked(x, b).rc = "ok" THEN Fail(Marked(x, b), "session") ELSE Marked(x, b)
    BY <1>1, <1>4, <2>3, <2>4, <2>6 DEF OnGap, Ok
  <2>10. Fail(Marked(x, b), "session") = Marked(Fail(x, "session"), b)
    BY DEF Fail, Marked
  <2>11. r = Marked(u, b)
    BY <2>7, <2>8, <2>9, <2>10
  <2> QED BY <1>2, <2>11 DEF Mirrors
<1> QED BY <1>3, <1>4

LEMMA OnReceiveMirrors ==
  ASSUME NEW c \in MildConfigs, NEW d, d = Eased(c), NEW s \in Sessions, s.rc = "ok", StoreOk(s),
         NEW b \in BOOLEAN, NEW t, t = Marked(s, b), NEW m \in Messages, Answerable(s, m),
         NEW u, u = OnReceive(d, s, m), NEW r, r = OnReceive(c, t, m)
  PROVE  /\ Mirrors(u, r)
         /\ u \in Sessions /\ StoreOk(u) /\ s.nextSender =< u.nextSender
<1>0. d \in PlainConfigs
  BY EasedFacts
<1>1. t.status = s.status /\ t.nextTarget = s.nextTarget
  BY MarkedFacts
<1>2. s.nextTarget \in Nat /\ s.nextSender \in Nat /\ m.seq \in Nat /\ m.kind # "Flawed"
  BY MessageFacts, MessageKinds DEF Sessions, Numbers
<1>3. CASE s.status = "Disconnected"
  BY <1>1, <1>2, <1>3 DEF OnReceive, Mirrors
<1>4. CASE s.status # "Disconnected"
  <2>1. u = ReceiveFrame(d, s, m) /\ r = ReceiveFrame(c, t, m)
    BY <1>1, <1>4 DEF OnReceive
  <2>2. CASE Classify(m.seq, s.nextTarget, m.possDup) = "Gap"
    <3>1. s.nextTarget < m.seq
      BY <1>2, <2>2 DEF Classify
    <3>2. u = OnGap(d, s, m) /\ r = OnGap(c, t, m)
      BY <1>1, <1>2, <2>1, <2>2 DEF ReceiveFrame
    <3> QED BY <3>1, <3>2, OnGapMirrors
  <2>3. CASE Classify(m.seq, s.nextTarget, m.possDup) = "InvalidOld"
    <3>1. u = Fail(s, "session") /\ r = Fail(t, "session")
      BY <1>1, <1>2, <2>1, <2>3 DEF ReceiveFrame
    <3>2. r = Marked(u, b)
      BY <3>1 DEF Fail, Marked
    <3>3. u \in Sessions /\ SameStore(s, u)
      BY <3>1, FailLemma DEF RCs
    <3> QED BY <1>2, <3>2, <3>3 DEF Mirrors, SameStore, StoreOk
  <2>4. CASE Classify(m.seq, s.nextTarget, m.possDup) \in {"Expected", "PossDupOld"}
    <3>1. u = Process(d, s, m) /\ r = Process(c, t, m)
      BY <1>1, <1>2, <2>1, <2>4 DEF ReceiveFrame
    <3> QED BY <1>4, <3>1, ProcessMirrors
  <2>5. Classify(m.seq, s.nextTarget, m.possDup) \in {"Gap", "InvalidOld", "Expected", "PossDupOld"}
    BY <1>2 DEF Classify
  <2> QED BY <2>2, <2>3, <2>4, <2>5
<1> QED BY <1>3, <1>4

(* A call that neither logs on nor writes a Logon.                          *)
NoLogon(w) == \A k \in 1..Len(w) : w[k].kind # "Logon"

Tame(s, r) ==
  /\ LoggedOn(r) => LoggedOn(s)
  /\ NoLogon(s.sent) => NoLogon(r.sent)

LEMMA TameSame ==
  ASSUME NEW s, NEW r, r.status = s.status \/ r.status # "LoggedOn", r.sent = s.sent
  PROVE  Tame(s, r)
BY DEF Tame, LoggedOn

LEMMA TameSend ==
  ASSUME NEW d \in PlainConfigs, NEW s \in Sessions, NEW msg, NEW m \in Messages,
         Carries(m, msg, s.nextSender), m.kind # "Logon", NEW r, r = Send(d, s, msg)
  PROVE  Tame(s, r)
<1>1. /\ r.status = s.status
      /\ r.rc = "ok" => Writes(d, s, r, m)
      /\ r.rc # "ok" => SameStore(s, r)
  BY SendLemma
<1>2. CASE r.rc # "ok"
  BY <1>1, <1>2, TameSame DEF SameStore
<1>3. CASE r.rc = "ok"
  <2>1. PICK v : v = s.sent
    OBVIOUS
  <2>2. PICK w : w = Append(v, m)
    OBVIOUS
  <2>3. r.sent = w
    BY <1>1, <1>3, <2>1, <2>2 DEF Writes
  <2>4. v \in Seq(Messages)
    BY <2>1 DEF Sessions
  <2>5. /\ Len(w) = Len(v) + 1 /\ w[Len(v) + 1] = m /\ Len(v) \in Nat
        /\ \A k \in 1..Len(v) : w[k] = v[k]
    BY <2>2, <2>4, AppendFacts, LenProperties
  <2>6. NoLogon(v) => NoLogon(w)
    <3>1. \A k \in 1..Len(w) : k \in 1..Len(v) \/ k = Len(v) + 1
      BY <2>5
    <3> QED BY <2>5, <3>1 DEF NoLogon
  <2> QED BY <1>1, <2>1, <2>3, <2>6 DEF Tame, LoggedOn
<1> QED BY <1>2, <1>3

LEMMA TameMessages ==
  ASSUME NEW d \in PlainConfigs, NEW s \in Sessions
  PROVE  /\ \A msg \in {LogoutMsg, RejectMsg} : Tame(s, Send(d, s, msg))
         /\ \A id \in Nat : \A msg \in {HeartbeatMsg(id), TestRequestMsg(id)} :
              Tame(s, Send(d, s, msg))
<1>1. s.nextSender \in Numbers
  BY DEF Sessions
<1>2. ASSUME NEW msg \in {LogoutMsg, RejectMsg} PROVE Tame(s, Send(d, s, msg))
  <2>1. PICK m \in Fresh(AdminKinds) : Carries(m, msg, s.nextSender)
    BY <1>1, <1>2, FreshMessages DEF Numbered
  <2>2. m.kind # "Logon"
    BY <2>1 DEF Carries, LogoutMsg, RejectMsg, Msg
  <2> QED BY <2>1, <2>2, TameSend DEF Fresh
<1>3. ASSUME NEW id \in Nat, NEW msg \in {HeartbeatMsg(id), TestRequestMsg(id)}
      PROVE  Tame(s, Send(d, s, msg))
  <2>1. PICK m \in Fresh(AdminKinds) : Carries(m, msg, s.nextSender)
    BY <1>1, <1>3, FreshMessages DEF Numbered
  <2>2. m.kind # "Logon"
    BY <2>1 DEF Carries, HeartbeatMsg, TestRequestMsg
  <2> QED BY <2>1, <2>2, TameSend DEF Fresh
<1> QED BY <1>2, <1>3

LEMMA TameLogout ==
  ASSUME NEW d \in PlainConfigs, NEW s \in Sessions, NEW r, r = SendLogout(d, s)
  PROVE  Tame(s, r)
<1>1. CASE r = s
  BY <1>1, TameSame
<1>2. CASE r # s
  <2>1. PICK v : v = Send(d, s, LogoutMsg)
    OBVIOUS
  <2>2. Tame(s, v)
    BY <2>1, TameMessages
  <2>3. v \in Sessions
    <3>1. s.nextSender \in Numbers
      BY DEF Sessions
    <3> QED BY <2>1, <3>1, FreshMessages, SendQuiet
  <2>4. r = v \/ r = [v EXCEPT !.sentLogout = TRUE, !.status = "LogoutSent"]
    BY <1>2, <2>1 DEF SendLogout
  <2>5. ASSUME r = [v EXCEPT !.sentLogout = TRUE, !.status = "LogoutSent"] PROVE Tame(v, r)
    <3>1. r.status = "LogoutSent" /\ r.sent = v.sent
      BY <2>3, <2>5 DEF Sessions
    <3> QED BY <3>1, TameSame
  <2> QED BY <2>2, <2>4, <2>5 DEF Tame
<1> QED BY <1>1, <1>2

LEMMA TameDoLogout ==
  ASSUME NEW d \in PlainConfigs, NEW s \in Sessions, NEW r, r = DoLogout(d, s)
  PROVE  Tame(s, r)
<1>1. r \in {s, [s EXCEPT !.status = "Closing"], SendLogout(d, s)}
  BY DEF DoLogout
<1>2. ASSUME r = [s EXCEPT !.status = "Closing"] PROVE Tame(s, r)
  BY <1>2, TameSame DEF Sessions
<1> QED BY <1>1, <1>2, TameSame, TameLogout

LEMMA TameOnTimer ==
  ASSUME NEW d \in PlainConfigs, NEW s \in Sessions, NEW due \in Deadlines,
         NEW r, r = OnTimer(d, s, due)
  PROVE  Tame(s, r)
<1>1. CASE r = s
  BY <1>1, TameSame
<1>2. CASE r = ScheduleEnded(d, s)
  <2>1. [s EXCEPT !.resetOnDisconnect = d.resetDaily] = s
    BY PlainFacts DEF Sessions
  <2> QED BY <1>2, <2>1, TameDoLogout DEF ScheduleEnded
<1>3. CASE r = TestTimeout(s)
  <2>1. r.status = "Disconnected" /\ r.sent = s.sent
    BY <1>3 DEF TestTimeout, Sessions
  <2> QED BY <2>1, TameSame
<1>4. CASE r = SendTestRequest(d, s)
  <2>1. PICK t : t = [s EXCEPT !.testRequestID = @ + 1]
    OBVIOUS
  <2>2. t \in Sessions /\ t.status = s.status /\ t.sent = s.sent /\ t.testRequestID \in Nat
    <3>1. s.testRequestID + 1 \in Nat
      BY DEF Sessions
    <3>2. t \in Sessions
      BY <2>1, <3>1 DEF Sessions
    <3> QED BY <2>1, <3>2 DEF Sessions
  <2>3. PICK v : v = Send(d, t, TestRequestMsg(t.testRequestID))
    OBVIOUS
  <2>4. Tame(t, v)
    BY <2>2, <2>3, TameMessages
  <2>5. v \in Sessions
    <3>1. t.nextSender \in Numbers
      BY <2>2 DEF Sessions
    <3> QED BY <2>2, <2>3, <3>1, FreshMessages, SendQuiet
  <2>6. r = v \/ r = [v EXCEPT !.awaitingTest = TRUE]
    BY <1>4, <2>1, <2>3 DEF SendTestRequest
  <2>7. r.status = v.status /\ r.sent = v.sent
    BY <2>5, <2>6 DEF Sessions
  <2> QED BY <2>2, <2>4, <2>7 DEF Tame, LoggedOn
<1>5. CASE r = Send(d, s, HeartbeatMsg(NoId))
  BY <1>5, TameMessages DEF NoId
<1> QED BY <1>1, <1>2, <1>3, <1>4, <1>5 DEF OnTimer, Deadlines

LEMMA TameClose ==
  ASSUME NEW d \in PlainConfigs, NEW s \in Sessions
  PROVE  /\ \A r : r = OnDisconnected(d, s) => Tame(s, r)
         /\ \A r : r = Close(d, s) => Tame(s, r)
<1>1. ASSUME NEW v \in Sessions, NEW r, r = OnDisconnected(d, v) PROVE Tame(v, r)
  <2>1. SameStore(v, r)
    BY <1>1, OnDisconnectedLemma
  <2>2. r.status # "LoggedOn"
    <3>1. PICK x : x = ClearFlags(v)
      OBVIOUS
    <3>2. x \in Sessions /\ x.status = "Disconnected"
      BY <3>1, ClearFlagsFacts
    <3>3. ~ResetsOnDisconnect(d, v)
      BY PlainFacts DEF ResetsOnDisconnect, Sessions
    <3>4. r = x \/ r = Call(x, "onLogout", NoBody)
      BY <1>1, <3>1, <3>3 DEF OnDisconnected
    <3> QED BY <3>2, <3>4 DEF Call, Sessions
  <2> QED BY <2>1, <2>2, TameSame DEF SameStore
<1>2. ASSUME NEW r, r = Close(d, s) PROVE Tame(s, r)
  <2>1. PICK v : v = [s EXCEPT !.listening = FALSE, !.socket = "none"]
    OBVIOUS
  <2>2. v \in Sessions /\ v.status = s.status /\ v.sent = s.sent
    BY <2>1 DEF Sessions
  <2>3. r = v \/ r = OnDisconnected(d, v)
    BY <1>2, <2>1 DEF Close
  <2>4. Tame(v, r)
    BY <1>1, <2>2, <2>3, TameSame
  <2> QED BY <2>2, <2>4 DEF Tame, LoggedOn
<1> QED BY <1>1, <1>2

(* A replay contains no Logon.                                              *)
LEMMA TameAnswer ==
  ASSUME NEW d \in PlainConfigs, NEW s \in Sessions, NEW m \in Messages,
         m.kind = "ResendRequest", Answerable(s, m), NEW r, r = HandleResendRequest(d, s, m)
  PROVE  Tame(s, r)
<1>1. m.begin \in Nat \ {0} /\ m.end \in Nat \ {0} /\ m.begin =< m.end /\ m.end < s.nextSender
  <2>1. m.begin \in Nat /\ m.end \in Nat /\ Asks(m)
    BY MessageFacts DEF Asks
  <2> QED BY <2>1 DEF Answerable
<1>2. s.outgoing \in Seq(StoredIn(Payloads)) /\ s.sent \in Seq(Messages) /\ s.nextSender \in Nat
  BY DEF Sessions, Numbers
<1>3. PICK out : out = Replay(d, s, m.begin, m.end)
  OBVIOUS
<1>4. out \in Seq(WrittenIn(Payloads)) /\ out # <<>> /\ Chain(out, m.begin, m.end + 1)
  BY <1>1, <1>2, <1>3, ReplayCovers DEF Answerable
<1>5. PICK w : w = [j \in DOMAIN out |-> OnWire(out[j])]
  OBVIOUS
<1>6. w \in Seq(Messages) /\ ReplayFrom(w, m.begin, s.nextSender)
  BY <1>1, <1>2, <1>4, <1>5, ReplayOnWire
<1>7. NoLogon(w)
  <2>1. ASSUME NEW k \in 1..Len(w) PROVE w[k].kind # "Logon"
    <3>1. w[k] \in Messages /\ Replayed(w[k])
      BY <1>6, WireFacts DEF ReplayFrom
    <3>2. w[k].kind = "Logon" => w[k].possDup = FALSE
      BY <3>1, MessageKinds DEF LogonMessages
    <3> QED BY <3>1, <3>2 DEF Replayed
  <2> QED BY <2>1 DEF NoLogon
<1>8. PICK v : v = s.sent
  OBVIOUS
<1>9. NoLogon(v) => NoLogon(v \o w)
  <2>1. v \in Seq(Messages)
    BY <1>2, <1>8
  <2>2. PICK x : x = v \o w
    OBVIOUS
  <2>3. /\ \A k \in 1..Len(v) : x[k] = v[k]
        /\ \A k \in 1..Len(w) : x[Len(v) + k] = w[k]
        /\ \A k \in 1..Len(x) :
             k =< Len(v) \/ (k - Len(v) \in 1..Len(w) /\ k = Len(v) + (k - Len(v)))
        /\ Len(v) \in Nat
    BY <1>6, <2>1, <2>2, ConcatFacts, LenProperties
  <2>4. ASSUME NEW k \in 1..Len(x), NoLogon(v) PROVE x[k].kind # "Logon"
    <3>1. CASE k =< Len(v)
      <4>1. k \in 1..Len(v)
        BY <2>3, <3>1
      <4> QED BY <2>3, <2>4, <4>1 DEF NoLogon
    <3>2. CASE ~(k =< Len(v))
      <4>1. k - Len(v) \in 1..Len(w) /\ x[k] = w[k - Len(v)]
        BY <2>3, <3>2
      <4> QED BY <1>7, <4>1 DEF NoLogon
    <3> QED BY <3>1, <3>2
  <2>5. NoLogon(v) => NoLogon(x)
    BY <2>4 DEF NoLogon
  <2> QED BY <2>2, <2>5
<1>10. r = IF ~Writable(s) THEN Fail(s, "io") ELSE [s EXCEPT !.sent = v \o w]
  BY <1>1, <1>3, <1>4, <1>5, <1>8 DEF HandleResendRequest
<1>11. r.status = s.status /\ (r.sent = s.sent \/ r.sent = v \o w)
  BY <1>10 DEF Fail, Sessions
<1> QED BY <1>8, <1>9, <1>11 DEF Tame, LoggedOn

(* Of what reading a message does, only a Logon of a session that is not    *)
(* logged on is not tame.                                                  *)
LEMMA TameDispatch ==
  ASSUME NEW d \in PlainConfigs, NEW s \in Sessions, s.rc = "ok", NEW m \in Messages,
         m.kind = "Logon" => LoggedOn(s), Answerable(s, m), NEW r, r = Dispatch(d, s, m)
  PROVE  Tame(s, r)
<1>1. CASE m.kind = "Logon"
  <2>1. PICK v : v = SendLogout(d, s)
    OBVIOUS
  <2>2. v \in Sessions /\ Tame(s, v)
    BY <2>1, SendLogoutLemma, TameLogout
  <2>3. r = v \/ r = Fail(Close(d, v), "session")
    BY <1>1, <2>1 DEF Dispatch, HandleLogon, HandleDuplicateLogon
  <2>4. ASSUME r = Fail(Close(d, v), "session") PROVE Tame(s, r)
    <3>1. PICK x : x = Close(d, v)
      OBVIOUS
    <3>2. x \in Sessions /\ Tame(v, x)
      BY <2>2, <3>1, CloseLemma, TameClose
    <3>3. r.status = x.status /\ r.sent = x.sent
      BY <2>4, <3>1, <3>2 DEF Fail, Sessions
    <3> QED BY <2>2, <3>2, <3>3 DEF Tame, LoggedOn
  <2> QED BY <2>2, <2>3, <2>4
<1>2. CASE m.kind = "Logout"
  <2>1. r = HandleLogout(d, s)
    BY <1>2 DEF Dispatch
  <2>2. PICK v : v = [s EXCEPT !.receivedLogout = TRUE]
    OBVIOUS
  <2>3. v \in Sessions /\ v.status = s.status /\ v.sent = s.sent /\ v.rc = "ok"
    <3>1. v \in Sessions
      BY ZenonT(60), <2>2 DEF Sessions
    <3> QED BY <2>2, <3>1 DEF Sessions
  <2>4. PICK x : x = IF v.sentLogout THEN v ELSE SendLogout(d, v)
    OBVIOUS
  <2>5. x \in Sessions /\ Tame(v, x)
    BY <2>3, <2>4, SendLogoutLemma, TameLogout, TameSame
  <2>6. PICK z : z = [x EXCEPT !.status = "Closing"]
    OBVIOUS
  <2>7. z \in Sessions /\ z.status = "Closing" /\ z.sent = x.sent
    <3>1. "Closing" \in Statuses
      BY DEF Statuses
    <3> QED BY <2>5, <2>6, <3>1 DEF Sessions
  <2>8. r \in {x, z, OnDisconnected(d, Close(d, z))}
    BY <2>1, <2>2, <2>4, <2>6 DEF HandleLogout
  <2>9. ASSUME r = OnDisconnected(d, Close(d, z)) PROVE Tame(z, r)
    <3>1. PICK f : f = Close(d, z)
      OBVIOUS
    <3>2. f \in Sessions /\ Tame(z, f)
      BY <2>7, <3>1, CloseLemma, TameClose
    <3>3. Tame(f, r)
      BY <2>9, <3>1, <3>2, TameClose
    <3> QED BY <3>2, <3>3 DEF Tame
  <2>10. Tame(x, z)
    BY <2>7, TameSame
  <2> QED BY <2>3, <2>5, <2>8, <2>9, <2>10 DEF Tame, LoggedOn
<1>3. CASE m.kind = "Heartbeat"
  BY <1>3, TameSame DEF Dispatch, HandleHeartbeat, Sessions
<1>4. CASE m.kind = "TestRequest"
  <2>1. m.id \in Nat
    <3>1. m \in ProbeMessages
      BY <1>4, MessageKinds
    <3> QED BY <3>1 DEF ProbeMessages
  <2> QED BY <1>4, <2>1, TameMessages, TameSame DEF Dispatch, HandleTestRequest
<1>5. CASE m.kind = "ResendRequest"
  <2>1. r = HandleResendRequest(d, s, m)
    BY <1>5 DEF Dispatch
  <2> QED BY <1>5, <2>1, TameAnswer
<1>6. CASE m.kind = "SequenceReset"
  BY <1>6, TameSame DEF Dispatch, HandleSequenceReset, Fail, Sessions
<1>7. CASE m.kind = "App"
  <2>1. PICK more : more = Append(s.calls, [event |-> "fromApp", body |-> m.body])
    OBVIOUS
  <2>2. PICK v : v = [s EXCEPT !.calls = more]
    OBVIOUS
  <2>3. r = v \/ r = [v EXCEPT !.rc = "app"]
    BY <1>7, <2>1, <2>2 DEF Dispatch, Deliver, Call, Fail
  <2>4. r.status = s.status /\ r.sent = s.sent
    BY <2>2, <2>3 DEF Sessions
  <2> QED BY <2>4, TameSame
<1>8. CASE m.kind = "Reject"
  BY <1>8, TameSame DEF Dispatch
<1> QED BY <1>1, <1>2, <1>3, <1>4, <1>5, <1>6, <1>7, <1>8, MessageKinds

LEMMA TameCount ==
  ASSUME NEW d \in PlainConfigs, NEW s \in Sessions, NEW m, NEW r, r = Count(d, s, m)
  PROVE  Tame(s, r)
<1>1. PICK v : v = IF m.kind = "SequenceReset" THEN s ELSE [s EXCEPT !.nextTarget = @ + 1]
  OBVIOUS
<1>2. PICK x : x = [v EXCEPT !.awaitingResend = FALSE]
  OBVIOUS
<1>3. v.status = s.status /\ x.status = v.status
  BY <1>1, <1>2 DEF Sessions
<1>4. r \in {s, v, x, Fail(s, "io")}
  <2>1. x.status = "Closing" => SendLogout(d, x) = x
    BY DEF SendLogout, Closing
  <2>2. EndResend(d, v) = x
    BY <1>2, <1>3, <2>1 DEF EndResend
  <2> QED BY <1>1, <2>2 DEF Count
<1>5. Fail(s, "io").status = s.status
  BY DEF Fail, Sessions
<1>6. SameStore(s, r)
  BY CountTyped
<1> QED BY <1>3, <1>4, <1>5, <1>6, TameSame DEF SameStore

LEMMA TameOnReceive ==
  ASSUME NEW d \in PlainConfigs, NEW s \in Sessions, s.rc = "ok", NEW m \in Messages,
         m.possDup => s.nextTarget =< m.seq, Answerable(s, m),
         NEW r, r = OnReceive(d, s, m)
  PROVE  \/ Tame(s, r)
         \/ m.kind = "Logon" /\ m.seq = s.nextTarget /\ ~LoggedOn(s)
<1>1. s.nextTarget \in Nat /\ m.seq \in Nat /\ m.kind # "Flawed"
  BY MessageFacts, MessageKinds DEF Sessions, Numbers
<1>2. CASE r \in {s, Fail(s, "session")}
  <2>1. r.status = s.status /\ r.sent = s.sent
    BY <1>2 DEF Fail, Sessions
  <2> QED BY <2>1, TameSame
<1>3. CASE r = OnGap(d, s, m)
  <2>1. CASE r = Fail(s, "session")
    BY <1>2, <2>1
  <2>2. CASE r # Fail(s, "session")
    <3>1. PICK v : v = [s EXCEPT !.awaitingResend = TRUE]
      OBVIOUS
    <3>2. v \in Sessions
      BY ZenonT(60), <3>1 DEF Sessions
    <3>3. v.status = s.status /\ v.sent = s.sent /\ v.nextSender = s.nextSender
      BY <3>1 DEF Sessions
    <3>5. PICK msg : msg = ResendRequestMsg(s.nextTarget, m.seq)
      OBVIOUS
    <3>12. PICK q : q = [msg EXCEPT !.seq = s.nextSender]
      OBVIOUS
    <3>4. q = [kind |-> "ResendRequest", seq |-> s.nextSender, possDup |-> FALSE,
               begin |-> s.nextTarget, end |-> m.seq]
      BY <3>5, <3>12 DEF ResendRequestMsg
    <3>6. q.seq = s.nextSender /\ q.kind = "ResendRequest"
      BY <3>4
    <3>7. q \in Messages
      <4>1. s.nextSender \in Numbers
        BY DEF Sessions
      <4>2. q \in ResendRequests
        BY <1>1, <3>4, <4>1 DEF ResendRequests
      <4> QED BY <4>2 DEF Messages
    <3>8. PICK x : x = Send(d, v, msg)
      OBVIOUS
    <3>9. x \in Sessions /\ Tame(v, x)
      <4>1. Carries(q, msg, v.nextSender)
        BY <3>3, <3>6, <3>12 DEF Carries
      <4> QED BY <3>2, <3>6, <3>7, <3>8, <4>1, SendLemma, TameSend
    <3>10. r = x \/ r = Fail(x, "session")
      BY <1>3, <2>2, <3>1, <3>5, <3>8 DEF OnGap
    <3>11. r.status = x.status /\ r.sent = x.sent
      BY <3>9, <3>10 DEF Fail, Sessions
    <3> QED BY <3>3, <3>9, <3>11 DEF Tame, LoggedOn
  <2> QED BY <2>1, <2>2
<1>4. CASE r = Process(d, s, m) /\ m.seq = s.nextTarget
  <2>1. CASE m.kind = "Logon" /\ ~LoggedOn(s)
    BY <1>4, <2>1
  <2>2. CASE ~(m.kind = "Logon" /\ ~LoggedOn(s))
    <3>1. PICK v : v = Dispatch(d, s, m)
      OBVIOUS
    <3>2. Tame(s, v) /\ HandledOrQuiet(d, s, v, m)
      BY <2>2, <3>1, TameDispatch, DispatchLemma
    <3>3. v \in Sessions /\ v.rc # "invalid"
      BY <3>2 DEF HandledOrQuiet, Handled, Quiet
    <3>4. r = v \/ r = Count(d, v, m)
      BY <1>4, <3>1, <3>3 DEF Process
    <3> QED BY <3>2, <3>3, <3>4, TameCount DEF Tame
  <2> QED BY <2>1, <2>2
<1>5. ASSUME r = ReceiveFrame(d, s, m)
      PROVE  \/ r = Fail(s, "session")
             \/ r = OnGap(d, s, m)
             \/ r = Process(d, s, m) /\ m.seq = s.nextTarget
  <2>1. CASE m.seq = s.nextTarget
    <3>1. Classify(m.seq, s.nextTarget, m.possDup) = "Expected"
      BY <1>1, <2>1 DEF Classify
    <3> QED BY <1>1, <1>5, <2>1, <3>1 DEF ReceiveFrame
  <2>2. CASE s.nextTarget < m.seq
    <3>1. Classify(m.seq, s.nextTarget, m.possDup) = "Gap"
      BY <1>1, <2>2 DEF Classify
    <3> QED BY <1>1, <1>5, <3>1 DEF ReceiveFrame
  <2>3. CASE m.seq < s.nextTarget
    <3>1. ~m.possDup
      BY <1>1, <2>3
    <3>2. Classify(m.seq, s.nextTarget, m.possDup) = "InvalidOld"
      BY <1>1, <2>3, <3>1 DEF Classify
    <3> QED BY <1>1, <1>5, <3>2 DEF ReceiveFrame
  <2> QED BY <1>1, <2>1, <2>2, <2>3
<1> QED BY <1>2, <1>3, <1>4, <1>5 DEF OnReceive

-----------------------------------------------------------------------------
(* One connection between two such sessions.                                *)

(* Nothing on its way to the receiver is sent again, and nothing on its way *)
(* back asks for that: the receiver may be ahead of the sender.            *)
Unreplayed(n, w, o) ==
  /\ Ordered(n, w)
  /\ \A k \in 1..Len(w) : ~Replayed(w[k])
  /\ \A k \in 1..Len(o) : ~Asks(o[k])

Link(e, a, n, w, o) == Unreplayed(n, w, o) \/ Direction(e, a, n, w, o, TRUE)

LEMMA LinkFacts ==
  ASSUME NEW e, NEW a, NEW n, NEW w, NEW o, Link(e, a, n, w, o)
  PROVE  Ordered(n, w) /\ AsksBelow(n, o)
BY DEF Link, Unreplayed, Direction, AsksBelow

LEMMA LinkMade ==
  ASSUME NEW e, NEW a, NEW n
  PROVE  Link(e, a, n, <<>>, <<>>)
BY DEF Link, Unreplayed, Ordered

LEMMA UnreplayedIsSettled ==
  ASSUME NEW e, NEW n, NEW w, NEW o, Unreplayed(n, w, o), e =< n
  PROVE  Direction(e, FALSE, n, w, o, TRUE)
BY DEF Unreplayed, Direction, AsksBelow, Settled, Asked

LEMMA AsksBelowMore ==
  ASSUME NEW n, NEW o \in Seq(Messages), AsksBelow(n, o),
         NEW d \in Seq(Messages), \A k \in 1..Len(d) : ~Asks(d[k])
  PROVE  AsksBelow(n, o \o d)
<1>1. PICK v : v = o \o d
  OBVIOUS
<1>2. /\ \A k \in 1..Len(o) : v[k] = o[k]
      /\ \A k \in 1..Len(d) : v[Len(o) + k] = d[k]
      /\ \A k \in 1..Len(v) :
           k =< Len(o) \/ (k - Len(o) \in 1..Len(d) /\ k = Len(o) + (k - Len(o)))
      /\ Len(o) \in Nat
  BY <1>1, ConcatFacts, LenProperties
<1>3. ASSUME NEW k \in 1..Len(v), Asks(v[k])
      PROVE  1 =< v[k].begin /\ v[k].begin =< v[k].end /\ v[k].end < n
  <2>1. CASE k =< Len(o)
    <3>1. k \in 1..Len(o)
      BY <1>2, <2>1
    <3> QED BY <1>2, <1>3, <3>1 DEF AsksBelow
  <2>2. CASE ~(k =< Len(o))
    <3>1. k - Len(o) \in 1..Len(d) /\ v[k] = d[k - Len(o)]
      BY <1>2, <2>2
    <3> QED BY <1>3, <3>1
  <2> QED BY <2>1, <2>2
<1>4. AsksBelow(n, v)
  BY <1>3 DEF AsksBelow
<1> QED BY <1>1, <1>4

LEMMA AsksBelowTail ==
  ASSUME NEW n, NEW o \in Seq(Messages), o # <<>>, AsksBelow(n, o)
  PROVE  AsksBelow(n, Tail(o))
<1>1. /\ Len(Tail(o)) = Len(o) - 1 /\ Len(o) \in Nat
      /\ \A k \in 1..Len(Tail(o)) : Tail(o)[k] = o[k + 1]
  BY TailFacts
<1>2. \A k \in 1..Len(Tail(o)) : k + 1 \in 1..Len(o)
  BY <1>1
<1> QED BY <1>1, <1>2 DEF AsksBelow

LEMMA AsksBelowGrows ==
  ASSUME NEW n \in Nat, NEW k \in Nat, n =< k, NEW o \in Seq(Messages), AsksBelow(n, o)
  PROVE  AsksBelow(k, o)
BY WireFacts DEF AsksBelow

LEMMA AsksBelowPrefix ==
  ASSUME NEW n, NEW o \in Seq(Messages), NEW v \in Seq(Messages), Agree(v, o, Len(v)),
         AsksBelow(n, o)
  PROVE  AsksBelow(n, v)
<1>1. Len(v) \in Nat /\ Len(o) \in Nat
  BY LenProperties
<1> QED BY <1>1 DEF AsksBelow, Agree

(* What is written back asks for nothing, or what comes back is read.       *)
LEMMA LinkBack ==
  ASSUME NEW e, NEW a, NEW n, NEW w, NEW o \in Seq(Messages), Link(e, a, n, w, o),
         NEW d \in Seq(Messages), \A k \in 1..Len(d) : ~Asks(d[k])
  PROVE  Link(e, a, n, w, o \o d)
<1>1. ASSUME Unreplayed(n, w, o) PROVE Unreplayed(n, w, o \o d)
  <2>1. PICK v : v = o \o d
    OBVIOUS
  <2>2. /\ \A k \in 1..Len(o) : v[k] = o[k]
        /\ \A k \in 1..Len(d) : v[Len(o) + k] = d[k]
        /\ \A k \in 1..Len(v) :
             k =< Len(o) \/ (k - Len(o) \in 1..Len(d) /\ k = Len(o) + (k - Len(o)))
        /\ Len(o) \in Nat
    BY <2>1, ConcatFacts, LenProperties
  <2>3. ASSUME NEW k \in 1..Len(v) PROVE ~Asks(v[k])
    <3>1. CASE k =< Len(o)
      <4>1. k \in 1..Len(o)
        BY <2>2, <3>1
      <4> QED BY <1>1, <2>2, <4>1 DEF Unreplayed
    <3>2. CASE ~(k =< Len(o))
      <4>1. k - Len(o) \in 1..Len(d) /\ v[k] = d[k - Len(o)]
        BY <2>2, <3>2
      <4> QED BY <4>1
    <3> QED BY <3>1, <3>2
  <2>4. Unreplayed(n, w, v)
    BY <1>1, <2>3 DEF Unreplayed
  <2> QED BY <2>1, <2>4
<1> QED BY <1>1, BackMore DEF Link

LEMMA LinkBackTail ==
  ASSUME NEW e, NEW a, NEW n, NEW w, NEW o \in Seq(Messages), o # <<>>, Link(e, a, n, w, o)
  PROVE  Link(e, a, n, w, Tail(o))
<1>1. ASSUME Unreplayed(n, w, o) PROVE Unreplayed(n, w, Tail(o))
  <2>1. /\ Len(Tail(o)) = Len(o) - 1 /\ Len(o) \in Nat
        /\ \A k \in 1..Len(Tail(o)) : Tail(o)[k] = o[k + 1]
    BY TailFacts
  <2>2. \A k \in 1..Len(Tail(o)) : k + 1 \in 1..Len(o)
    BY <2>1
  <2> QED BY <1>1, <2>1, <2>2 DEF Unreplayed
<1> QED BY <1>1, BackTail DEF Link

(* A message is gone without having been counted.                           *)
LEMMA UnreplayedTail ==
  ASSUME NEW n, NEW w \in Seq(Messages), w # <<>>, NEW o, Unreplayed(n, w, o)
  PROVE  Unreplayed(n, Tail(w), o)
<1>1. /\ Len(Tail(w)) = Len(w) - 1 /\ Len(w) \in Nat
      /\ \A k \in 1..Len(Tail(w)) : Tail(w)[k] = w[k + 1]
  BY TailFacts
<1>2. \A k \in 1..Len(Tail(w)) : k + 1 \in 1..Len(w)
  BY <1>1
<1>3. Ordered(n, Tail(w))
  BY TailOrdered DEF Unreplayed
<1> QED BY <1>1, <1>2, <1>3 DEF Unreplayed

LEMMA LinkTail ==
  ASSUME NEW e \in Nat, NEW a, NEW n \in Nat, NEW w \in Seq(Messages), w # <<>>, NEW o,
         Link(e, a, n, w, o)
  PROVE  Link(e, a, n, Tail(w), o)
BY UnreplayedTail, DirectionTail DEF Link

(* The direction the caller sends in.                                       *)
LEMMA LinkEmits ==
  ASSUME NEW c, NEW s, s.sent = <<>>, s.nextSender \in Nat, NEW r, NEW kinds,
         Emits(c, s, r, kinds),
         NEW e \in Nat, NEW a, NEW w \in Seq(Messages), NEW o \in Seq(Messages),
         Link(e, a, s.nextSender, w, o)
  PROVE  Link(e, a, r.nextSender, w \o r.sent, o)
<1>1. ASSUME Unreplayed(s.nextSender, w, o) PROVE Unreplayed(r.nextSender, w \o r.sent, o)
  <2>1. CASE SameStore(s, r)
    <3>1. r.sent = <<>> /\ r.nextSender = s.nextSender
      BY <2>1 DEF SameStore
    <3>2. w \o <<>> = w
      BY ConcatEmptySeq
    <3> QED BY <1>1, <3>1, <3>2
  <2>2. ASSUME NEW m \in Fresh(kinds), Writes(c, s, r, m)
        PROVE  Unreplayed(r.nextSender, w \o r.sent, o)
    <3>1. m \in Messages /\ ~Replayed(m)
      BY DEF Fresh
    <3>2. r.sent = <<m>> /\ r.nextSender = s.nextSender + 1 /\ m.seq = s.nextSender
      BY <2>2 DEF Writes
    <3>3. w \o r.sent = Append(w, m)
      BY <3>1, <3>2, AppendFacts
    <3>4. PICK v : v = Append(w, m)
      OBVIOUS
    <3>5. /\ Len(v) = Len(w) + 1 /\ v[Len(w) + 1] = m /\ Len(w) \in Nat
          /\ \A k \in 1..Len(w) : v[k] = w[k]
      BY <3>1, <3>4, AppendFacts, LenProperties
    <3>6. Ordered(s.nextSender + 1, v)
      <4>1. Ordered(m.seq, w) => Ordered(m.seq + 1, v)
        BY <3>1, <3>2, <3>4, NewForward
      <4> QED BY <1>1, <3>2, <4>1 DEF Unreplayed
    <3>7. ASSUME NEW k \in 1..Len(v) PROVE ~Replayed(v[k])
      <4>1. k \in 1..Len(w) \/ k = Len(w) + 1
        BY <3>5
      <4> QED BY <1>1, <3>1, <3>5, <4>1 DEF Unreplayed
    <3>8. Unreplayed(s.nextSender + 1, v, o)
      BY <1>1, <3>6, <3>7 DEF Unreplayed
    <3> QED BY <3>2, <3>3, <3>4, <3>8
  <2> QED BY <2>1, <2>2 DEF Emits
<1> QED BY <1>1, SenderEmits DEF Link

LEMMA LinkAnswers ==
  ASSUME NEW c, NEW s, s.sent = <<>>, s.nextSender \in Nat, NEW r,
         NEW e \in Nat, NEW a, NEW w \in Seq(Messages), NEW o \in Seq(Messages),
         Link(e, a, s.nextSender, w, o), o # <<>>, Asks(Head(o)), Answers(c, s, r, Head(o))
  PROVE  /\ Link(e, a, r.nextSender, w \o r.sent, Tail(o))
         /\ r.sent \in Seq(Messages) /\ \A k \in 1..Len(r.sent) : ~Asks(r.sent[k])
<1>1. Head(o) = o[1] /\ 1 \in 1..Len(o)
  BY TailFacts
<1>2. Direction(e, a, s.nextSender, w, o, TRUE)
  BY <1>1 DEF Link, Unreplayed
<1> QED BY <1>2, SenderAnswers DEF Link

(* The direction the caller receives in.                                    *)
LEMMA LinkTakes ==
  ASSUME NEW c, NEW s, NEW r, s.nextTarget \in Nat, NEW n \in Nat, NEW w \in Seq(Messages),
         w # <<>>, Takes(c, s, r, Head(w)), NEW o,
         Link(s.nextTarget, s.awaitingResend, n, w, o)
  PROVE  Link(r.nextTarget, r.awaitingResend, n, Tail(w), o) /\ r.nextTarget =< n
<1>1. Head(w) = w[1] /\ 1 \in 1..Len(w)
  BY TailFacts
<1>2. r.nextTarget = Beyond(w[1]) /\ r.awaitingResend = FALSE /\ Head(w).seq = s.nextTarget
  BY <1>1 DEF Takes
<1>3. r.nextTarget =< n
  BY <1>1, <1>2, LinkFacts DEF Ordered
<1>4. ASSUME Direction(s.nextTarget, s.awaitingResend, n, w, o, TRUE)
      PROVE  Direction(r.nextTarget, r.awaitingResend, n, Tail(w), o, TRUE)
  BY <1>1, <1>2, <1>4, DirectionAccept
<1> QED BY <1>3, <1>4, UnreplayedTail DEF Link

LEMMA LinkFinds ==
  ASSUME NEW c, NEW s, s.sent = <<>>, NEW r, s.nextTarget \in Nat \ {0}, NEW n \in Nat,
         NEW w \in Seq(Messages), w # <<>>, Finds(c, s, r, Head(w)), NEW o \in Seq(Messages),
         Link(s.nextTarget, s.awaitingResend, n, w, o)
  PROVE  Link(r.nextTarget, r.awaitingResend, n, Tail(w), o \o r.sent)
<1>1. Head(w) = w[1] /\ 1 \in 1..Len(w) /\ w[1].seq \in Nat /\ Beyond(w[1]) \in Nat
  BY TailFacts, WireFacts
<1>2. s.awaitingResend = FALSE /\ s.nextTarget < w[1].seq
  BY <1>1 DEF Finds
<1>3. Direction(s.nextTarget, s.awaitingResend, n, w, o, TRUE)
  <2>1. ASSUME Unreplayed(n, w, o) PROVE Direction(s.nextTarget, FALSE, n, w, o, TRUE)
    <3>1. w[1].seq < Beyond(w[1]) /\ Beyond(w[1]) =< n
      BY <1>1, <2>1 DEF Unreplayed, Ordered
    <3>2. s.nextTarget =< n
      BY <1>1, <1>2, <3>1
    <3> QED BY <2>1, <3>2, UnreplayedIsSettled
  <2> QED BY <1>2, <2>1 DEF Link
<1> QED BY <1>3, ReceiverFinds DEF Link

(* Both sockets are open, and what is written reaches the other one.        *)
Attached == alive /\ \A p \in Peers : sess[p].socket # "none"

LinkTo(p) ==
  LET q == Other(p)
  IN  Link(sess[p].nextTarget, sess[p].awaitingResend, sess[q].nextSender, wire[q], wire[p])

(* A session that is ahead of the other one is not logged on together with  *)
(* it, and what the acceptor (y) writes (w) will not log on the initiator  *)
(* (x): the Logon that would is one the acceptor has not written yet, or    *)
(* one the initiator expects.                                              *)
Apart(x, y, w) ==
  /\ x.nextTarget > y.nextSender => ~LoggedOn(x)
  /\ y.nextTarget > x.nextSender /\ LoggedOn(y) => ~LoggedOn(x) /\ NoLogon(w)

MildPaired ==
  /\ \A p \in Peers : config[p] \in MildConfigs
  /\ sess \in [Peers -> MildSessions] /\ wire \in [Peers -> Seq(Messages)]
  /\ \A p \in Peers : Idle(sess[p]) /\ StoreOk(sess[p])
  /\ \A p \in Peers : sess[p].socket # "none" => AsksBelow(sess[p].nextSender, wire[Other(p)])
  /\ Attached => /\ \A p \in Peers : LinkTo(p)
                 /\ Apart(sess[I], sess[A], wire[A])

LEMMA MildTyped ==
  ASSUME NEW t \in MildSessions
  PROVE  t.nextTarget \in Numbers /\ t.nextSender \in Numbers /\ t.sent \in Seq(Messages)
<1>1. PICK s \in Sessions, b \in BOOLEAN : t = Marked(s, b)
  BY DEF MildSessions
<1>2. s.nextTarget \in Numbers /\ s.nextSender \in Numbers /\ s.sent \in Seq(Messages)
  BY DEF Sessions
<1> QED BY <1>1, <1>2, MarkedFacts

LEMMA BeginMild ==
  ASSUME NEW r \in MildSessions, NEW t, t = Begin(r)
  PROVE  /\ t \in MildSessions /\ Idle(t)
         /\ t.nextTarget = r.nextTarget /\ t.awaitingResend = r.awaitingResend
         /\ t.nextSender = r.nextSender /\ t.socket = r.socket /\ t.outgoing = r.outgoing
         /\ t.status = r.status
<1>1. PICK s \in Sessions, b \in BOOLEAN : r = Marked(s, b)
  BY DEF MildSessions
<1>2. PICK v : v = Begin(s)
  OBVIOUS
<1>3. /\ v \in Sessions /\ Idle(v)
      /\ v.nextTarget = s.nextTarget /\ v.awaitingResend = s.awaitingResend
      /\ v.nextSender = s.nextSender /\ v.socket = s.socket /\ v.outgoing = s.outgoing
      /\ v.status = s.status
  BY <1>2, BeginFacts
<1>4. t = Marked(v, b)
  BY <1>1, <1>2 DEF Begin, Marked
<1>5. t \in MildSessions
  BY <1>3, <1>4, MildFacts
<1>6. /\ t.nextTarget = v.nextTarget /\ t.awaitingResend = v.awaitingResend
      /\ t.nextSender = v.nextSender /\ t.socket = v.socket /\ t.outgoing = v.outgoing
      /\ t.status = v.status /\ t.rc = v.rc /\ t.sent = v.sent /\ t.calls = v.calls
  BY <1>3, <1>4, MarkedFacts
<1>7. /\ r.nextTarget = s.nextTarget /\ r.awaitingResend = s.awaitingResend
      /\ r.nextSender = s.nextSender /\ r.socket = s.socket /\ r.outgoing = s.outgoing
      /\ r.status = s.status
  BY <1>1, MarkedFacts
<1> QED BY <1>3, <1>5, <1>6, <1>7 DEF Idle

(* A call of p keeps the invariant when it keeps both links, if they are    *)
(* still there.                                                            *)
LEMMA CallLinks ==
  ASSUME MildPaired, UNCHANGED <<config, alive>>, NEW p \in Peers, NEW q, q = Other(p),
         NEW r \in MildSessions, StoreOk(r), r.sent \in Seq(Messages),
         NEW unread \in Seq(Messages), CallEnds(p, r, unread),
         r.socket # "none" => AsksBelow(r.nextSender, unread),
         Reaches(p) => AsksBelow(sess[q].nextSender, wire[p] \o r.sent),
         Reaches(p) /\ r.socket # "none" =>
           /\ Link(r.nextTarget, r.awaitingResend, sess[q].nextSender, unread,
                   wire[p] \o r.sent)
           /\ Link(sess[q].nextTarget, sess[q].awaitingResend, r.nextSender,
                   wire[p] \o r.sent, unread)
           /\ p = I => Apart(r, sess[A], unread)
           /\ p = A => Apart(sess[I], r, wire[A] \o r.sent)
  PROVE  MildPaired'
<1>1. PICK s : s = Begin(r)
  OBVIOUS
<1>2. /\ s \in MildSessions /\ Idle(s)
      /\ s.nextTarget = r.nextTarget /\ s.awaitingResend = r.awaitingResend
      /\ s.nextSender = r.nextSender /\ s.socket = r.socket /\ s.outgoing = r.outgoing
      /\ s.status = r.status
  BY <1>1, BeginMild
<1>3. q \in Peers /\ q # p /\ Other(q) = p /\ \A x \in Peers : x = p \/ x = q
  BY OtherFacts
<1>4. PICK w : w = IF Reaches(p) THEN wire[p] \o r.sent ELSE wire[p]
  OBVIOUS
<1>5. PICK v : v = IF r.socket = "none" THEN <<>> ELSE unread
  OBVIOUS
<1>6. /\ sess' = [sess EXCEPT ![p] = s]
      /\ wire' = [wire EXCEPT ![p] = w, ![q] = v]
  BY <1>1, <1>4, <1>5 DEF CallEnds
<1>7. w \in Seq(Messages) /\ v \in Seq(Messages)
  <2>1. wire[p] \in Seq(Messages) /\ <<>> \in Seq(Messages)
    BY EmptySeq DEF MildPaired
  <2> QED BY <1>4, <1>5, <2>1, ConcatFacts
<1>8. /\ sess' \in [Peers -> MildSessions] /\ sess'[p] = s /\ sess'[q] = sess[q]
      /\ wire' \in [Peers -> Seq(Messages)] /\ wire'[p] = w /\ wire'[q] = v
  BY <1>2, <1>3, <1>6, <1>7 DEF MildPaired
<1>9. Idle(sess[q]) /\ StoreOk(sess[q]) /\ StoreOk(s)
  BY <1>2, <1>3 DEF MildPaired, StoreOk
<1>10. \A x \in Peers : Idle(sess'[x]) /\ StoreOk(sess'[x])
  BY <1>2, <1>3, <1>8, <1>9
<1>11. s.socket # "none" => AsksBelow(s.nextSender, v)
  BY <1>2, <1>5
<1>12. sess[q].socket # "none" => AsksBelow(sess[q].nextSender, w)
  <2>1. sess[q].socket # "none" => AsksBelow(sess[q].nextSender, wire[p])
    BY <1>3 DEF MildPaired
  <2> QED BY <1>4, <2>1
<1>13. \A x \in Peers : sess'[x].socket # "none" => AsksBelow(sess'[x].nextSender, wire'[Other(x)])
  BY <1>3, <1>8, <1>11, <1>12
<1>14. ASSUME Attached'
       PROVE  (\A x \in Peers : LinkTo(x)') /\ Apart(sess'[I], sess'[A], wire'[A])
  <2>1. r.socket # "none" /\ sess[q].socket # "none" /\ Reaches(p)
    BY <1>2, <1>3, <1>8, <1>14 DEF Attached, Reaches
  <2>2. v = unread /\ w = wire[p] \o r.sent
    BY <1>4, <1>5, <2>1
  <2>3. LinkTo(p)'
    BY <1>2, <1>8, <2>1, <2>2 DEF LinkTo
  <2>4. LinkTo(q)'
    BY <1>2, <1>3, <1>8, <2>1, <2>2 DEF LinkTo
  <2>5. CASE p = I
    <3>1. q = A /\ Apart(r, sess[A], unread)
      BY <2>1, <2>5, PeersAssumption DEF Other
    <3>2. Apart(s, sess[A], v)
      BY <1>2, <2>2, <3>1 DEF Apart, LoggedOn
    <3> QED BY <1>3, <1>8, <2>3, <2>4, <2>5, <3>1, <3>2
  <2>6. CASE p = A
    <3>1. q = I /\ Apart(sess[I], r, wire[A] \o r.sent)
      BY <2>1, <2>6, PeersAssumption DEF Other
    <3>2. Apart(sess[I], s, w)
      BY <1>2, <2>2, <2>6, <3>1 DEF Apart, LoggedOn
    <3> QED BY <1>3, <1>8, <2>3, <2>4, <2>6, <3>1, <3>2
  <2> QED BY <2>5, <2>6 DEF Peers
<1>15. \A x \in Peers : config'[x] \in MildConfigs
  BY DEF MildPaired
<1> QED BY <1>8, <1>10, <1>13, <1>14, <1>15 DEF MildPaired

(* What the invariant says of the two sides of a call.                      *)
LEMMA MildSides ==
  ASSUME MildPaired, NEW p \in Peers, NEW q, q = Other(p)
  PROVE  /\ q \in Peers /\ q # p /\ config[p] \in MildConfigs
         /\ sess[p] \in MildSessions /\ sess[q] \in MildSessions
         /\ StoreOk(sess[p])
         /\ sess[p].sent = <<>> /\ sess[p].rc = "ok" /\ sess[p].calls = <<>>
         /\ sess[p].nextTarget \in Numbers /\ sess[p].nextSender \in Numbers
         /\ sess[q].nextTarget \in Numbers /\ sess[q].nextSender \in Numbers
         /\ wire[p] \in Seq(Messages) /\ wire[q] \in Seq(Messages)
         /\ sess[p].socket # "none" => AsksBelow(sess[p].nextSender, wire[q])
         /\ sess[q].socket # "none" => AsksBelow(sess[q].nextSender, wire[p])
         /\ Reaches(p) /\ sess[p].socket # "none" =>
              /\ Link(sess[p].nextTarget, sess[p].awaitingResend, sess[q].nextSender,
                      wire[q], wire[p])
              /\ Link(sess[q].nextTarget, sess[q].awaitingResend, sess[p].nextSender,
                      wire[p], wire[q])
              /\ Apart(sess[I], sess[A], wire[A])
<1>1. q \in Peers /\ q # p /\ Other(q) = p /\ \A x \in Peers : x = p \/ x = q
  BY OtherFacts
<1>2. /\ sess[p] \in MildSessions /\ sess[q] \in MildSessions
      /\ Idle(sess[p]) /\ StoreOk(sess[p]) /\ config[p] \in MildConfigs
      /\ wire[p] \in Seq(Messages) /\ wire[q] \in Seq(Messages)
      /\ sess[p].socket # "none" => AsksBelow(sess[p].nextSender, wire[q])
      /\ sess[q].socket # "none" => AsksBelow(sess[q].nextSender, wire[p])
  BY <1>1 DEF MildPaired
<1>3. /\ sess[p].nextTarget \in Numbers /\ sess[p].nextSender \in Numbers
      /\ sess[q].nextTarget \in Numbers /\ sess[q].nextSender \in Numbers
  BY <1>2, MildTyped
<1>4. ASSUME Reaches(p), sess[p].socket # "none"
      PROVE  LinkTo(p) /\ LinkTo(q) /\ Apart(sess[I], sess[A], wire[A])
  <2>1. Attached
    BY <1>1, <1>4 DEF Reaches, Attached
  <2> QED BY <1>1, <2>1 DEF MildPaired
<1> QED BY <1>1, <1>2, <1>3, <1>4 DEF Idle, LinkTo

(* Both stay apart when the caller is not ahead or logged on for the first  *)
(* time.                                                                   *)
LEMMA ApartCaller ==
  ASSUME NEW x, NEW y, NEW w, Apart(x, y, w), NEW r, NEW v, r.nextSender \in Nat,
         x.nextSender \in Nat, x.nextTarget \in Nat, y.nextSender \in Nat, y.nextTarget \in Nat,
         r.nextTarget \in Nat
  PROVE  /\ /\ x.nextSender =< r.nextSender /\ (LoggedOn(r) => LoggedOn(x))
            /\ r.nextTarget = x.nextTarget \/ r.nextTarget =< y.nextSender
            /\ NoLogon(w) => NoLogon(v)
            => Apart(r, y, v)
         /\ /\ y.nextSender =< r.nextSender
            /\ LoggedOn(r) => LoggedOn(y) /\ (NoLogon(w) => NoLogon(v))
            /\ r.nextTarget = y.nextTarget \/ r.nextTarget =< x.nextSender
            => Apart(x, r, v)
BY DEF Apart

LEMMA NoLogonTail ==
  ASSUME NEW w \in Seq(Messages), w # <<>>, NoLogon(w)
  PROVE  NoLogon(Tail(w))
<1>1. /\ Len(Tail(w)) = Len(w) - 1 /\ Len(w) \in Nat
      /\ \A k \in 1..Len(Tail(w)) : Tail(w)[k] = w[k + 1]
  BY TailFacts
<1>2. \A k \in 1..Len(Tail(w)) : k + 1 \in 1..Len(w)
  BY <1>1
<1> QED BY <1>1, <1>2 DEF NoLogon

LEMMA NoLogonMore ==
  ASSUME NEW w \in Seq(Messages), NoLogon(w), NEW d \in Seq(Messages), NoLogon(d)
  PROVE  NoLogon(w \o d)
<1>1. PICK v : v = w \o d
  OBVIOUS
<1>2. /\ \A k \in 1..Len(w) : v[k] = w[k]
      /\ \A k \in 1..Len(d) : v[Len(w) + k] = d[k]
      /\ \A k \in 1..Len(v) :
           k =< Len(w) \/ (k - Len(w) \in 1..Len(d) /\ k = Len(w) + (k - Len(w)))
      /\ Len(w) \in Nat
  BY <1>1, ConcatFacts, LenProperties
<1>3. ASSUME NEW k \in 1..Len(v) PROVE v[k].kind # "Logon"
  <2>1. CASE k =< Len(w)
    <3>1. k \in 1..Len(w)
      BY <1>2, <2>1
    <3> QED BY <1>2, <3>1 DEF NoLogon
  <2>2. CASE ~(k =< Len(w))
    <3>1. k - Len(w) \in 1..Len(d) /\ v[k] = d[k - Len(w)]
      BY <1>2, <2>2
    <3> QED BY <3>1 DEF NoLogon
  <2> QED BY <2>1, <2>2
<1>4. NoLogon(v)
  BY <1>3 DEF NoLogon
<1> QED BY <1>1, <1>4

(* A call that reads nothing, and one that ends the connection.             *)
LEMMA UnreadLinks ==
  ASSUME MildPaired, UNCHANGED <<config, alive>>, NEW p \in Peers,
         NEW s \in Sessions, NEW b \in BOOLEAN, sess[p] = Marked(s, b),
         NEW d, NEW u \in Sessions, Stays(s, u),
         NEW kinds, "ResendRequest" \notin kinds, Emits(d, s, u, kinds),
         LoggedOn(u) => Tame(s, u),
         NEW x \in BOOLEAN, NEW r, r = Marked(u, x), Calls(p, r)
  PROVE  MildPaired'
<1>1. PICK q : q = Other(p)
  OBVIOUS
<1>2. PICK t : t = sess[p]
  OBVIOUS
<1>3. /\ q \in Peers /\ q # p
      /\ StoreOk(t) /\ t.sent = <<>>
      /\ t.nextTarget \in Numbers /\ t.nextSender \in Numbers
      /\ sess[q].nextTarget \in Numbers /\ sess[q].nextSender \in Numbers
      /\ wire[p] \in Seq(Messages) /\ wire[q] \in Seq(Messages)
      /\ t.socket # "none" => AsksBelow(t.nextSender, wire[q])
      /\ sess[q].socket # "none" => AsksBelow(sess[q].nextSender, wire[p])
      /\ Reaches(p) /\ t.socket # "none" =>
           /\ Link(t.nextTarget, t.awaitingResend, sess[q].nextSender, wire[q], wire[p])
           /\ Link(sess[q].nextTarget, sess[q].awaitingResend, t.nextSender, wire[p], wire[q])
           /\ Apart(sess[I], sess[A], wire[A])
  BY <1>1, <1>2, MildSides
<1>4. /\ t.status = s.status /\ t.awaitingResend = s.awaitingResend
      /\ t.nextSender = s.nextSender /\ t.nextTarget = s.nextTarget
      /\ t.socket = s.socket /\ t.sent = s.sent
      /\ StoreOk(s)
  <2>1. t = Marked(s, b)
    BY <1>2
  <2> QED BY <1>3, <2>1, MarkedFacts, MildFacts
<1>5. /\ r.status = u.status /\ r.awaitingResend = u.awaitingResend
      /\ r.nextSender = u.nextSender /\ r.nextTarget = u.nextTarget
      /\ r.socket = u.socket /\ r.sent = u.sent
  BY MarkedFacts
<1>6. r \in MildSessions /\ StoreOk(r)
  <2>1. StoreOk(u)
    BY <1>4, StoreGrows
  <2> QED BY <2>1, MildFacts
<1>7. r.sent \in Seq(Messages) /\ \A k \in 1..Len(r.sent) : ~Asks(r.sent[k])
  BY <1>3, <1>4, <1>5, SentFacts
<1>8. /\ r.nextTarget = t.nextTarget /\ r.awaitingResend = t.awaitingResend
      /\ r.socket = t.socket
  BY <1>4, <1>5 DEF Stays
<1>9. /\ t.nextSender \in Nat /\ r.nextSender \in Nat /\ t.nextSender =< r.nextSender
      /\ t.nextTarget \in Nat /\ sess[q].nextSender \in Nat /\ sess[q].nextTarget \in Nat
  <2>1. u.nextSender = s.nextSender \/ u.nextSender = s.nextSender + 1
    BY DEF Emits, SameStore, Writes
  <2> QED BY <1>3, <1>4, <1>5, <2>1 DEF Numbers
<1>10. r.socket # "none" => AsksBelow(r.nextSender, wire[q])
  BY <1>3, <1>8, <1>9, AsksBelowGrows
<1>11. Reaches(p) => AsksBelow(sess[q].nextSender, wire[p] \o r.sent)
  <2>1. Reaches(p) => sess[q].socket # "none"
    BY <1>1 DEF Reaches
  <2> QED BY <1>3, <1>7, <2>1, AsksBelowMore
<1>12. ASSUME Reaches(p), r.socket # "none"
       PROVE  /\ Link(r.nextTarget, r.awaitingResend, sess[q].nextSender, wire[q],
                      wire[p] \o r.sent)
              /\ Link(sess[q].nextTarget, sess[q].awaitingResend, r.nextSender,
                      wire[p] \o r.sent, wire[q])
              /\ p = I => Apart(r, sess[A], wire[q])
              /\ p = A => Apart(sess[I], r, wire[A] \o r.sent)
  <2>1. /\ Link(t.nextTarget, t.awaitingResend, sess[q].nextSender, wire[q], wire[p])
        /\ Link(sess[q].nextTarget, sess[q].awaitingResend, t.nextSender, wire[p], wire[q])
        /\ Apart(sess[I], sess[A], wire[A])
    BY <1>3, <1>8, <1>12
  <2>2. Link(r.nextTarget, r.awaitingResend, sess[q].nextSender, wire[q], wire[p] \o r.sent)
    <3>1. Link(r.nextTarget, r.awaitingResend, sess[q].nextSender, wire[q], wire[p])
      BY <1>8, <2>1
    <3> QED BY <1>3, <1>7, <3>1, LinkBack
  <2>3. Link(sess[q].nextTarget, sess[q].awaitingResend, r.nextSender,
             wire[p] \o r.sent, wire[q])
    <3>1. Link(sess[q].nextTarget, sess[q].awaitingResend, s.nextSender, wire[p], wire[q])
      BY <1>4, <2>1
    <3>2. s.sent = <<>> /\ s.nextSender \in Nat
      BY <1>3, <1>4, <1>9
    <3>3. Link(sess[q].nextTarget, sess[q].awaitingResend, u.nextSender,
               wire[p] \o u.sent, wire[q])
      BY <1>3, <1>9, <3>1, <3>2, LinkEmits
    <3> QED BY <1>5, <3>3
  <2>4. LoggedOn(r) => LoggedOn(t) /\ NoLogon(r.sent)
    <3>1. NoLogon(<<>>)
      BY DEF NoLogon
    <3> QED BY <1>3, <1>4, <1>5, <3>1 DEF Tame, LoggedOn
  <2>5. ASSUME p = I PROVE Apart(r, sess[A], wire[q])
    <3>1. q = A /\ t = sess[I]
      BY <1>1, <1>2, <2>5 DEF Other
    <3> QED BY <1>8, <1>9, <2>1, <2>4, <3>1, ApartCaller
  <2>6. ASSUME p = A PROVE Apart(sess[I], r, wire[A] \o r.sent)
    <3>1. q = I /\ t = sess[A]
      BY <1>1, <1>2, <2>6, PeersAssumption DEF Other
    <3>2. LoggedOn(r) => (NoLogon(wire[A]) => NoLogon(wire[A] \o r.sent))
      BY <1>3, <1>7, <2>4, <2>6, NoLogonMore
    <3> QED BY <1>8, <1>9, <2>1, <2>4, <3>1, <3>2, ApartCaller
  <2> QED BY <2>2, <2>3, <2>5, <2>6
<1>13. CallEnds(p, r, wire[q])
  BY <1>1 DEF Calls
<1> QED BY <1>1, <1>3, <1>6, <1>7, <1>10, <1>11, <1>12, <1>13, CallLinks

LEMMA GoneLinks ==
  ASSUME MildPaired, UNCHANGED <<config, alive>>, NEW p \in Peers,
         NEW r \in MildSessions, StoreOk(r), r.socket = "none", r.sent = <<>>, Calls(p, r)
  PROVE  MildPaired'
<1>1. PICK q : q = Other(p)
  OBVIOUS
<1>2. /\ wire[p] \in Seq(Messages) /\ wire[q] \in Seq(Messages)
      /\ sess[q].socket # "none" => AsksBelow(sess[q].nextSender, wire[p])
  BY <1>1, MildSides
<1>3. wire[p] \o r.sent = wire[p] /\ r.sent \in Seq(Messages)
  BY <1>2, ConcatEmptySeq, EmptySeq
<1>4. Reaches(p) => AsksBelow(sess[q].nextSender, wire[p] \o r.sent)
  BY <1>1, <1>2, <1>3 DEF Reaches
<1>5. CallEnds(p, r, wire[q])
  BY <1>1 DEF Calls
<1> QED BY <1>1, <1>2, <1>3, <1>4, <1>5, CallLinks

(* The actions.                                                             *)
LEMMA ConnectedLinks ==
  ASSUME MildPaired, NEW p \in Peers, Connected(p)
  PROVE  MildPaired'
<1>1. PICK s \in Sessions, b \in BOOLEAN : sess[p] = Marked(s, b)
  BY DEF MildPaired, MildSessions
<1>2. PICK c \in MildConfigs : c = config[p]
  BY DEF MildPaired
<1>3. PICK d : d = Eased(c)
  OBVIOUS
<1>4. d \in PlainConfigs
  BY <1>3, EasedFacts
<1>5. PICK u : u = OnConnected(d, s)
  OBVIOUS
<1>6. PICK r : r = OnConnected(c, sess[p])
  OBVIOUS
<1>7. r = Marked(u, b)
  BY <1>1, <1>3, <1>5, <1>6, OnConnectedMarked
<1>8. u \in Sessions /\ Stays(s, u) /\ Emits(d, s, u, AdminKinds)
  BY <1>4, <1>5, OnConnectedLemma
<1>9. LoggedOn(u) => Tame(s, u)
  <2>1. CASE s.status # "Disconnected"
    <3>1. u = s
      BY <1>5, <2>1 DEF OnConnected
    <3> QED BY <3>1, TameSame
  <2>2. CASE s.status = "Disconnected"
    <3>1. PICK t : t = [s EXCEPT !.status = "Connected"]
      OBVIOUS
    <3>2. "Connected" \in Statuses
      BY DEF Statuses
    <3>3. t \in Sessions /\ t.status = "Connected" /\ SameStore(s, t)
      BY <3>1, <3>2 DEF Sessions, SameStore
    <3>4. u = SendLogon(d, t)
      BY <1>5, <2>2, <3>1 DEF OnConnected
    <3>5. u.status \in {"Connected", "LogonSent"}
      BY <1>4, <3>3, <3>4, SendLogonStatus
    <3> QED BY <3>5 DEF LoggedOn
  <2> QED BY <2>1, <2>2
<1>10. Calls(p, r) /\ UNCHANGED <<config, alive>>
  BY <1>2, <1>6 DEF Connected
<1> QED BY <1>1, <1>7, <1>8, <1>9, <1>10, UnreadLinks DEF AdminKinds

LEMMA TimerLinks ==
  ASSUME MildPaired, NEW p \in Peers, NEW due \in Deadlines, Timer(p, due)
  PROVE  MildPaired'
<1>1. PICK s \in Sessions, b \in BOOLEAN : sess[p] = Marked(s, b)
  BY DEF MildPaired, MildSessions
<1>2. PICK c \in MildConfigs : c = config[p]
  BY DEF MildPaired
<1>3. PICK d : d = Eased(c)
  OBVIOUS
<1>4. d \in PlainConfigs /\ s.rc = "ok"
  <2>1. PICK t : t = sess[p]
    OBVIOUS
  <2>2. t.rc = "ok"
    BY <2>1, MildSides
  <2>3. t = Marked(s, b)
    BY <1>1, <2>1
  <2>4. s.rc = "ok"
    BY <2>2, <2>3, MarkedFacts
  <2> QED BY <1>3, <2>4, EasedFacts
<1>5. PICK u : u = OnTimer(d, s, due)
  OBVIOUS
<1>6. PICK r : r = OnTimer(c, sess[p], due)
  OBVIOUS
<1>7. PICK x \in BOOLEAN : r = Marked(u, x)
  BY <1>1, <1>3, <1>5, <1>6, OnTimerMarked
<1>8. u \in Sessions /\ Stays(s, u) /\ Emits(d, s, u, AdminKinds)
  BY <1>4, <1>5, OnTimerLemma
<1>9. Tame(s, u)
  BY <1>4, <1>5, TameOnTimer
<1>10. Calls(p, r) /\ UNCHANGED <<config, alive>>
  BY <1>2, <1>6 DEF Timer
<1> QED BY <1>1, <1>7, <1>8, <1>9, <1>10, UnreadLinks DEF AdminKinds

LEMMA LogoutLinks ==
  ASSUME MildPaired, NEW p \in Peers, Logout(p)
  PROVE  MildPaired'
<1>1. PICK s \in Sessions, b \in BOOLEAN : sess[p] = Marked(s, b)
  BY DEF MildPaired, MildSessions
<1>2. PICK c \in MildConfigs : c = config[p]
  BY DEF MildPaired
<1>3. PICK d : d = Eased(c)
  OBVIOUS
<1>4. d \in PlainConfigs /\ s.rc = "ok"
  <2>1. PICK t : t = sess[p]
    OBVIOUS
  <2>2. t.rc = "ok"
    BY <2>1, MildSides
  <2>3. t = Marked(s, b)
    BY <1>1, <2>1
  <2>4. s.rc = "ok"
    BY <2>2, <2>3, MarkedFacts
  <2> QED BY <1>3, <2>4, EasedFacts
<1>5. PICK u : u = DoLogout(d, s)
  OBVIOUS
<1>6. PICK r : r = DoLogout(c, sess[p])
  OBVIOUS
<1>7. r = Marked(u, b)
  BY <1>1, <1>3, <1>5, <1>6, DoLogoutMarked
<1>8. u \in Sessions /\ Stays(s, u) /\ Emits(d, s, u, AdminKinds)
  BY <1>4, <1>5, DoLogoutLemma
<1>9. Tame(s, u)
  BY <1>4, <1>5, TameDoLogout
<1>10. Calls(p, r) /\ UNCHANGED <<config, alive>>
  BY <1>2, <1>6 DEF Logout
<1> QED BY <1>1, <1>7, <1>8, <1>9, <1>10, UnreadLinks DEF AdminKinds

LEMMA AppSendLinks ==
  ASSUME MildPaired, NEW p \in Peers, AppSend(p)
  PROVE  MildPaired'
<1>1. PICK s \in Sessions, b \in BOOLEAN : sess[p] = Marked(s, b)
  BY DEF MildPaired, MildSessions
<1>2. PICK c \in MildConfigs : c = config[p]
  BY DEF MildPaired
<1>3. PICK d : d = Eased(c)
  OBVIOUS
<1>4. d \in PlainConfigs /\ s.nextSender \in Numbers
  BY <1>3, EasedFacts DEF Sessions
<1>5. PICK body \in Bodies : body = Len(submitted[p]) + 1
  BY DEF AppSend
<1>6. PICK msg : msg = AppMsg(body)
  OBVIOUS
<1>7. PICK m \in Fresh({"App"}) : Carries(m, msg, s.nextSender)
  BY <1>4, <1>6, FreshApp
<1>8. m \in Messages /\ m.kind = "App"
  BY DEF Fresh
<1>9. PICK u : u = Send(d, s, msg)
  OBVIOUS
<1>10. PICK r : r = Send(c, sess[p], msg)
  OBVIOUS
<1>11. r = Marked(u, b)
  BY <1>1, <1>3, <1>9, <1>10, SendMarked
<1>12. u \in Sessions /\ Stays(s, u) /\ Emits(d, s, u, {"App"})
  <2>1. /\ u \in Sessions /\ Stays(s, u) /\ u.rc \in {"ok", "io"}
        /\ u.rc = "ok" => Writes(d, s, u, m)
        /\ u.rc # "ok" => SameStore(s, u)
    BY <1>4, <1>7, <1>8, <1>9, SendLemma
  <2> QED BY <2>1 DEF Emits
<1>13. Tame(s, u)
  BY <1>4, <1>7, <1>8, <1>9, TameSend
<1>14. Calls(p, r) /\ UNCHANGED <<config, alive>>
  BY <1>2, <1>5, <1>6, <1>10 DEF AppSend
<1> QED BY <1>1, <1>11, <1>12, <1>13, <1>14, UnreadLinks

LEMMA TimerCloseLinks ==
  ASSUME MildPaired, NEW p \in Peers, TimerClose(p)
  PROVE  MildPaired'
<1>1. PICK s \in Sessions, b \in BOOLEAN : sess[p] = Marked(s, b)
  BY DEF MildPaired, MildSessions
<1>2. PICK c \in MildConfigs : c = config[p]
  BY DEF MildPaired
<1>3. PICK r : r = Close(c, sess[p])
  OBVIOUS
<1>4. StoreOk(s) /\ s.sent = <<>>
  <2>1. PICK t : t = sess[p]
    OBVIOUS
  <2>2. StoreOk(t) /\ t.sent = <<>>
    BY <2>1, MildSides
  <2>3. t = Marked(s, b)
    BY <1>1, <2>1
  <2> QED BY <2>2, <2>3, MarkedFacts, MildFacts
<1>5. r \in MildSessions /\ StoreOk(r) /\ r.socket = "none" /\ r.sent = s.sent
  BY <1>1, <1>3, <1>4, CloseGone
<1>6. Calls(p, r) /\ UNCHANGED <<config, alive>>
  BY <1>2, <1>3 DEF TimerClose
<1> QED BY <1>4, <1>5, <1>6, GoneLinks

LEMMA ConnectionLostLinks ==
  ASSUME MildPaired, NEW p \in Peers, ConnectionLost(p)
  PROVE  MildPaired'
<1>1. PICK s \in Sessions, b \in BOOLEAN : sess[p] = Marked(s, b)
  BY DEF MildPaired, MildSessions
<1>2. PICK c \in MildConfigs : c = config[p]
  BY DEF MildPaired
<1>3. StoreOk(s) /\ s.sent = <<>>
  <2>1. PICK t : t = sess[p]
    OBVIOUS
  <2>2. StoreOk(t) /\ t.sent = <<>>
    BY <2>1, MildSides
  <2>3. t = Marked(s, b)
    BY <1>1, <2>1
  <2> QED BY <2>2, <2>3, MarkedFacts, MildFacts
<1>4. PICK v : v = [s EXCEPT !.socket = "none"]
  OBVIOUS
<1>5. v \in Sessions /\ SameStore(s, v) /\ v.socket = "none"
  BY <1>4 DEF Sessions, SameStore
<1>6. PICK t : t = Marked(v, b)
  OBVIOUS
<1>7. [sess[p] EXCEPT !.socket = "none"] = t
  BY <1>1, <1>4, <1>6 DEF Marked
<1>8. t \in MildSessions /\ StoreOk(t) /\ t.socket = "none" /\ t.sent = <<>>
  <2>1. StoreOk(v)
    BY <1>3, <1>5 DEF SameStore, StoreOk
  <2>2. t \in MildSessions /\ StoreOk(t)
    BY <1>5, <1>6, <2>1, MildFacts
  <2>3. t.socket = v.socket /\ t.sent = v.sent
    BY <1>5, <1>6, MarkedFacts
  <2>4. v.sent = s.sent
    BY <1>5 DEF SameStore
  <2> QED BY <1>3, <1>5, <2>2, <2>3, <2>4
<1>9. PICK r : r = OnDisconnected(c, t)
  OBVIOUS
<1>10. Gone(t, r)
  BY <1>8, <1>9, OnDisconnectedGone
<1>11. Calls(p, r) /\ UNCHANGED <<config, alive>>
  BY <1>2, <1>7, <1>9 DEF ConnectionLost
<1> QED BY <1>8, <1>10, <1>11, GoneLinks DEF Gone

(* A message is read.                                                       *)
LEMMA LinkHead ==
  ASSUME NEW e \in Nat, NEW a, NEW n, NEW w \in Seq(Messages), w # <<>>, NEW o,
         Link(e, a, n, w, o)
  PROVE  Head(w).possDup => e =< Head(w).seq
<1>1. Head(w) = w[1] /\ 1 \in 1..Len(w)
  BY TailFacts
<1>2. CASE Unreplayed(n, w, o)
  BY <1>1, <1>2 DEF Unreplayed, Replayed
<1>3. CASE Direction(e, a, n, w, o, TRUE)
  <2>1. Settled(e, w) \/ Waiting(e, w)
    BY <1>3 DEF Direction
  <2> QED BY <2>1, HeadNotOld DEF Replayed
<1> QED BY <1>2, <1>3 DEF Link

(* What it does to both links.                                              *)
LEMMA ReceiptLinks ==
  ASSUME NEW c \in PlainConfigs, NEW s \in Sessions, s.rc = "ok", s.sent = <<>>,
         NEW w \in Seq(Messages), w # <<>>, NEW m, m = Head(w), Answerable(s, m),
         NEW u, u = OnReceive(c, s, m), NEW n \in Nat, NEW f \in Nat, NEW b,
         NEW o \in Seq(Messages), s.socket # "none",
         Link(s.nextTarget, s.awaitingResend, n, w, o), Link(f, b, s.nextSender, o, w)
  PROVE  /\ AsksBelow(n, o \o u.sent)
         /\ u.socket # "none" =>
              /\ Link(u.nextTarget, u.awaitingResend, n, Tail(w), o \o u.sent)
              /\ Link(f, b, u.nextSender, o \o u.sent, Tail(w))
              /\ u.nextTarget = s.nextTarget \/ u.nextTarget =< n
<1>1. /\ m \in Messages /\ Tail(w) \in Seq(Messages)
      /\ s.nextTarget \in Nat \ {0} /\ s.nextSender \in Nat
  BY TailFacts DEF Sessions, Numbers
<1>2. m.possDup => s.nextTarget =< m.seq
  BY <1>1, LinkHead
<1>3. Quiet(c, s, u) \/ Finds(c, s, u, m) \/ Takes(c, s, u, m)
  BY <1>1, <1>2, OnReceiveLemma
<1>4. AsksBelow(n, o)
  BY LinkFacts
<1>5. ASSUME NEW kinds, Emits(c, s, u, kinds)
      PROVE  Link(f, b, u.nextSender, o \o u.sent, Tail(w))
  <2>1. Link(f, b, u.nextSender, o \o u.sent, w)
    BY <1>1, <1>5, LinkEmits
  <2> QED BY <2>1, LinkBackTail
<1>6. ASSUME u.sent \in Seq(Messages), \A k \in 1..Len(u.sent) : ~Asks(u.sent[k])
      PROVE  AsksBelow(n, o \o u.sent)
  BY <1>4, <1>6, AsksBelowMore
<1>7. ASSUME Emits(c, s, u, AdminKinds)
      PROVE  u.sent \in Seq(Messages) /\ \A k \in 1..Len(u.sent) : ~Asks(u.sent[k])
  <2>1. "ResendRequest" \notin AdminKinds
    BY DEF AdminKinds
  <2> QED BY <1>7, <2>1, SentFacts
<1>8. CASE Quiet(c, s, u)
  <2>1. Emits(c, s, u, AdminKinds) /\ Keeps(s, u)
    BY <1>8 DEF Quiet
  <2>2. u.socket # "none" =>
          u.nextTarget = s.nextTarget /\ u.awaitingResend = s.awaitingResend
    BY <2>1 DEF Keeps
  <2>3. Link(s.nextTarget, s.awaitingResend, n, Tail(w), o)
    BY <1>1, LinkTail
  <2>4. Link(s.nextTarget, s.awaitingResend, n, Tail(w), o \o u.sent)
    BY <1>1, <1>7, <2>1, <2>3, LinkBack
  <2> QED BY <1>5, <1>6, <1>7, <2>1, <2>2, <2>4
<1>9. CASE Finds(c, s, u, m)
  <2>1. PICK kinds : Emits(c, s, u, kinds)
    BY <1>9 DEF Finds, Emits
  <2>2. Link(u.nextTarget, u.awaitingResend, n, Tail(w), o \o u.sent)
    BY <1>1, <1>9, LinkFinds
  <2>3. AsksBelow(n, o \o u.sent)
    BY <2>2, LinkFacts
  <2>4. u.nextTarget = s.nextTarget
    BY <1>9 DEF Finds
  <2> QED BY <1>5, <2>1, <2>2, <2>3, <2>4
<1>10. CASE Takes(c, s, u, m)
  <2>1. /\ u.sent \in Seq(Messages) /\ \A k \in 1..Len(u.sent) : ~Asks(u.sent[k])
        /\ Link(f, b, u.nextSender, o \o u.sent, Tail(w))
    <3>1. CASE Emits(c, s, u, AdminKinds)
      BY <1>5, <1>7, <3>1
    <3>2. CASE Asks(m) /\ Answers(c, s, u, m)
      BY <1>1, <3>2, LinkAnswers
    <3> QED BY <1>10, <3>1, <3>2 DEF Takes
  <2>2. Link(u.nextTarget, u.awaitingResend, n, Tail(w), o) /\ u.nextTarget =< n
    BY <1>1, <1>10, LinkTakes
  <2>3. Link(u.nextTarget, u.awaitingResend, n, Tail(w), o \o u.sent)
    BY <2>1, <2>2, LinkBack
  <2> QED BY <1>6, <2>1, <2>2, <2>3
<1> QED BY <1>3, <1>8, <1>9, <1>10

(* The reader of a Logon it expected is not ahead.                          *)
LEMMA ApartLogon ==
  ASSUME NEW x, NEW y, NEW w, Apart(x, y, w), NEW r, NEW v, r.nextSender \in Nat,
         x.nextSender \in Nat, x.nextTarget \in Nat, y.nextSender \in Nat, y.nextTarget \in Nat,
         r.nextTarget \in Nat
  PROVE  /\ /\ x.nextSender =< r.nextSender /\ r.nextTarget =< y.nextSender /\ ~NoLogon(w)
            => Apart(r, y, v)
         /\ /\ y.nextSender =< r.nextSender /\ r.nextTarget =< x.nextSender
            => Apart(x, r, v)
BY DEF Apart

LEMMA ReadLinks ==
  ASSUME MildPaired, NEW p \in Peers, Read(p)
  PROVE  MildPaired'
<1>1. PICK q : q = Other(p)
  OBVIOUS
<1>2. PICK t : t = sess[p]
  OBVIOUS
<1>3. PICK c \in MildConfigs : c = config[p]
  BY DEF MildPaired
<1>4. PICK d : d = Eased(c)
  OBVIOUS
<1>5. PICK w : w = wire[q]
  OBVIOUS
<1>6. PICK m : m = Head(w)
  OBVIOUS
<1>7. PICK r : r = OnReceive(c, t, m)
  OBVIOUS
<1>8. /\ w # <<>> /\ t.socket # "none" /\ CallEnds(p, r, Tail(w))
      /\ UNCHANGED <<config, alive>>
  BY <1>1, <1>2, <1>3, <1>5, <1>6, <1>7 DEF Read
<1>9. /\ q \in Peers /\ q # p /\ t \in MildSessions
      /\ StoreOk(t) /\ t.sent = <<>> /\ t.rc = "ok"
      /\ t.nextTarget \in Numbers /\ t.nextSender \in Numbers
      /\ sess[q].nextTarget \in Numbers /\ sess[q].nextSender \in Numbers
      /\ wire[p] \in Seq(Messages) /\ w \in Seq(Messages)
      /\ t.socket # "none" => AsksBelow(t.nextSender, w)
      /\ sess[q].socket # "none" => AsksBelow(sess[q].nextSender, wire[p])
      /\ Reaches(p) /\ t.socket # "none" =>
           /\ Link(t.nextTarget, t.awaitingResend, sess[q].nextSender, w, wire[p])
           /\ Link(sess[q].nextTarget, sess[q].awaitingResend, t.nextSender, wire[p], w)
           /\ Apart(sess[I], sess[A], wire[A])
  BY <1>1, <1>2, <1>5, MildSides
<1>10. /\ m \in Messages /\ m = w[1] /\ 1 \in 1..Len(w) /\ Tail(w) \in Seq(Messages)
  BY <1>6, <1>8, <1>9, TailFacts
<1>11. PICK s \in Sessions, b \in BOOLEAN : t = Marked(s, b)
  BY <1>9 DEF MildSessions
<1>12. /\ t.status = s.status /\ t.awaitingResend = s.awaitingResend
       /\ t.nextSender = s.nextSender /\ t.nextTarget = s.nextTarget
       /\ t.socket = s.socket /\ t.sent = s.sent /\ t.rc = s.rc
  BY <1>11, MarkedFacts
<1>13. StoreOk(s)
  BY <1>9, <1>11, MildFacts
<1>14. Answerable(s, m)
  <2>1. Asks(m) => 1 =< m.begin /\ m.begin =< m.end /\ m.end < s.nextSender
    BY <1>8, <1>9, <1>10, <1>12 DEF AsksBelow
  <2> QED BY <1>13, <2>1 DEF Answerable, StoreOk
<1>15. PICK u : u = OnReceive(d, s, m)
  OBVIOUS
<1>16. s.rc = "ok" /\ s.sent = <<>> /\ s.socket # "none" /\ d \in PlainConfigs
  BY <1>4, <1>8, <1>9, <1>12, EasedFacts
<1>17. Mirrors(u, r) /\ u \in Sessions /\ StoreOk(u) /\ s.nextSender =< u.nextSender
  BY <1>4, <1>7, <1>10, <1>11, <1>13, <1>14, <1>15, <1>16, OnReceiveMirrors
<1>18. /\ r \in MildSessions /\ StoreOk(r) /\ r.sent = u.sent
       /\ r.socket # "none" =>
            /\ r.status = u.status /\ r.awaitingResend = u.awaitingResend
            /\ r.nextSender = u.nextSender /\ r.nextTarget = u.nextTarget
            /\ u.socket # "none"
  <2>1. ASSUME NEW x \in BOOLEAN, r = Marked(u, x)
        PROVE  /\ r.status = u.status /\ r.awaitingResend = u.awaitingResend
               /\ r.nextSender = u.nextSender /\ r.nextTarget = u.nextTarget
               /\ u.socket = r.socket /\ r.sent = u.sent
    BY <1>17, <2>1, MarkedFacts
  <2>2. ASSUME NEW x \in BOOLEAN, r = Marked(u, x)
        PROVE  r \in MildSessions /\ StoreOk(r)
    BY <1>17, <2>2, MildFacts
  <2>3. CASE Gone(u, r)
    BY <2>3 DEF Gone
  <2> QED BY <1>17, <2>1, <2>2, <2>3 DEF Mirrors
<1>19. /\ t.nextSender \in Nat /\ t.nextTarget \in Nat
       /\ sess[q].nextSender \in Nat /\ sess[q].nextTarget \in Nat
       /\ r.nextSender \in Nat /\ r.nextTarget \in Nat
       /\ r.socket # "none" => t.nextSender =< r.nextSender
  <2>1. r.nextSender \in Numbers /\ r.nextTarget \in Numbers
    BY <1>18, MildTyped
  <2> QED BY <1>9, <1>12, <1>17, <1>18, <2>1 DEF Numbers
<1>20. r.sent \in Seq(Messages)
  BY <1>18, MildTyped
<1>21. r.socket # "none" => AsksBelow(r.nextSender, Tail(w))
  BY <1>8, <1>9, <1>10, <1>19, AsksBelowGrows, AsksBelowTail
<1>22. ASSUME Reaches(p)
       PROVE  /\ AsksBelow(sess[q].nextSender, wire[p] \o r.sent)
              /\ r.socket # "none" =>
                   /\ Link(r.nextTarget, r.awaitingResend, sess[q].nextSender, Tail(w),
                           wire[p] \o r.sent)
                   /\ Link(sess[q].nextTarget, sess[q].awaitingResend, r.nextSender,
                           wire[p] \o r.sent, Tail(w))
                   /\ r.nextTarget = t.nextTarget \/ r.nextTarget =< sess[q].nextSender
  <2>1. PICK n, f, a, o : /\ n = sess[q].nextSender /\ f = sess[q].nextTarget
                          /\ a = sess[q].awaitingResend /\ o = wire[p]
    OBVIOUS
  <2>2. /\ Link(s.nextTarget, s.awaitingResend, n, w, o) /\ Link(f, a, s.nextSender, o, w)
        /\ n \in Nat /\ f \in Nat /\ o \in Seq(Messages)
    BY <1>8, <1>9, <1>12, <1>19, <1>22, <2>1
  <2>3. /\ AsksBelow(n, o \o u.sent)
        /\ u.socket # "none" =>
             /\ Link(u.nextTarget, u.awaitingResend, n, Tail(w), o \o u.sent)
             /\ Link(f, a, u.nextSender, o \o u.sent, Tail(w))
             /\ u.nextTarget = s.nextTarget \/ u.nextTarget =< n
    BY <1>6, <1>8, <1>9, <1>14, <1>15, <1>16, <2>2, ReceiptLinks
  <2> QED BY <1>12, <1>18, <2>1, <2>3
<1>23. ASSUME Reaches(p), r.socket # "none"
       PROVE  /\ p = I => Apart(r, sess[A], Tail(w))
              /\ p = A => Apart(sess[I], r, wire[A] \o r.sent)
  <2>1. Apart(sess[I], sess[A], wire[A])
    BY <1>8, <1>9, <1>23
  <2>2. Link(t.nextTarget, t.awaitingResend, sess[q].nextSender, w, wire[p])
    BY <1>8, <1>9, <1>23
  <2>3. m.possDup => s.nextTarget =< m.seq
    BY <1>6, <1>8, <1>9, <1>12, <1>19, <2>2, LinkHead
  <2>4. Tame(s, u) \/ (m.kind = "Logon" /\ m.seq = s.nextTarget /\ ~LoggedOn(s))
    BY <1>10, <1>14, <1>15, <1>16, <2>3, TameOnReceive
  <2>5. r.nextTarget = t.nextTarget \/ r.nextTarget =< sess[q].nextSender
    BY <1>22, <1>23
  <2>6. CASE Tame(s, u)
    <3>1. LoggedOn(r) => LoggedOn(t)
      BY <1>12, <1>18, <1>23, <2>6 DEF Tame, LoggedOn
    <3>2. NoLogon(r.sent)
      <4>1. NoLogon(<<>>)
        BY DEF NoLogon
      <4> QED BY <1>16, <1>18, <2>6, <4>1 DEF Tame
    <3>3. ASSUME p = I PROVE Apart(r, sess[A], Tail(w))
      <4>1. q = A /\ t = sess[I]
        BY <1>1, <1>2, <3>3 DEF Other
      <4>2. NoLogon(wire[A]) => NoLogon(Tail(w))
        BY <1>5, <1>8, <1>9, <4>1, NoLogonTail
      <4> QED BY <1>19, <1>23, <2>1, <2>5, <3>1, <4>1, <4>2, ApartCaller
    <3>4. ASSUME p = A PROVE Apart(sess[I], r, wire[A] \o r.sent)
      <4>1. q = I /\ t = sess[A]
        BY <1>1, <1>2, <3>4, PeersAssumption DEF Other
      <4>2. NoLogon(wire[A]) => NoLogon(wire[A] \o r.sent)
        BY <1>9, <1>20, <3>2, <3>4, NoLogonMore
      <4> QED BY <1>19, <1>23, <2>1, <2>5, <3>1, <4>1, <4>2, ApartCaller
    <3> QED BY <3>3, <3>4
  <2>7. CASE m.kind = "Logon" /\ m.seq = s.nextTarget
    <3>1. r.nextTarget =< sess[q].nextSender
      <4>1. m.seq < Beyond(m) /\ Beyond(m) =< sess[q].nextSender
        BY <1>10, <2>2, LinkFacts DEF Ordered
      <4>2. m.seq \in Nat /\ Beyond(m) \in Nat
        BY <1>10, MessageFacts
      <4> QED BY <1>12, <1>19, <2>5, <2>7, <4>1, <4>2
    <3>2. ~NoLogon(w)
      BY <1>10, <2>7 DEF NoLogon
    <3>3. ASSUME p = I PROVE Apart(r, sess[A], Tail(w))
      <4>1. q = A /\ t = sess[I]
        BY <1>1, <1>2, <3>3 DEF Other
      <4>2. ~NoLogon(wire[A])
        BY <1>5, <3>2, <4>1
      <4> QED BY <1>19, <1>23, <2>1, <3>1, <4>1, <4>2, ApartLogon
    <3>4. ASSUME p = A PROVE Apart(sess[I], r, wire[A] \o r.sent)
      <4>1. q = I /\ t = sess[A]
        BY <1>1, <1>2, <3>4, PeersAssumption DEF Other
      <4> QED BY <1>19, <1>23, <2>1, <3>1, <4>1, ApartLogon
    <3> QED BY <3>3, <3>4
  <2> QED BY <2>4, <2>6, <2>7
<1>24. PICK unread \in Seq(Messages) : unread = Tail(w)
  BY <1>10
<1>25. CallEnds(p, r, unread) /\ r \in MildSessions /\ StoreOk(r) /\ r.sent \in Seq(Messages)
  BY <1>8, <1>18, <1>20, <1>24
<1>26. /\ r.socket # "none" => AsksBelow(r.nextSender, unread)
       /\ Reaches(p) => AsksBelow(sess[q].nextSender, wire[p] \o r.sent)
       /\ Reaches(p) /\ r.socket # "none" =>
            /\ Link(r.nextTarget, r.awaitingResend, sess[q].nextSender, unread,
                    wire[p] \o r.sent)
            /\ Link(sess[q].nextTarget, sess[q].awaitingResend, r.nextSender,
                    wire[p] \o r.sent, unread)
            /\ p = I => Apart(r, sess[A], unread)
            /\ p = A => Apart(sess[I], r, wire[A] \o r.sent)
  BY <1>21, <1>22, <1>23, <1>24
<1> QED BY <1>1, <1>8, <1>25, <1>26, CallLinks

(* A new connection: nothing is under way, and the initiator is not logged  *)
(* on.                                                                     *)
LEMMA ConnectLinks ==
  ASSUME MildPaired, Connect
  PROVE  MildPaired'
<1>1. /\ sess' = [p \in Peers |-> [sess[p] EXCEPT !.socket = "open"]]
      /\ wire' = [p \in Peers |-> <<>>] /\ config' = config
      /\ sess[I].status = "Disconnected"
  BY DEF Connect
<1>2. ASSUME NEW p \in Peers
      PROVE  /\ sess'[p] \in MildSessions /\ Idle(sess'[p]) /\ StoreOk(sess'[p])
             /\ sess'[p].status = sess[p].status /\ wire'[p] = <<>>
  <2>1. PICK t : t = sess[p]
    OBVIOUS
  <2>2. t \in MildSessions /\ Idle(t) /\ StoreOk(t)
    BY <2>1 DEF MildPaired
  <2>3. PICK s \in Sessions, b \in BOOLEAN : t = Marked(s, b)
    BY <2>2 DEF MildSessions
  <2>4. PICK v : v = [s EXCEPT !.socket = "open"]
    OBVIOUS
  <2>5. /\ v \in Sessions /\ v.rc = s.rc /\ v.sent = s.sent /\ v.calls = s.calls
        /\ v.outgoing = s.outgoing /\ v.nextSender = s.nextSender /\ v.status = s.status
    BY <2>4 DEF Sessions
  <2>6. PICK x : x = Marked(v, b)
    OBVIOUS
  <2>7. sess'[p] = x /\ wire'[p] = <<>>
    BY <1>1, <2>1, <2>3, <2>4, <2>6 DEF Marked
  <2>8. /\ t.rc = s.rc /\ t.sent = s.sent /\ t.calls = s.calls /\ t.status = s.status
    BY <2>3, MarkedFacts
  <2>9. /\ x.rc = v.rc /\ x.sent = v.sent /\ x.calls = v.calls /\ x.status = v.status
    BY <2>5, <2>6, MarkedFacts
  <2>10. StoreOk(s)
    BY <2>2, <2>3, MildFacts
  <2>11. StoreOk(v)
    BY <2>5, <2>10 DEF StoreOk
  <2>12. x \in MildSessions /\ StoreOk(x)
    BY <2>5, <2>6, <2>11, MildFacts
  <2>13. Idle(x) /\ x.status = t.status
    BY <2>2, <2>5, <2>8, <2>9 DEF Idle
  <2> QED BY <2>1, <2>7, <2>12, <2>13
<1>3. sess' \in [Peers -> MildSessions] /\ wire' \in [Peers -> Seq(Messages)]
  <2>1. <<>> \in Seq(Messages)
    BY EmptySeq
  <2>2. sess' = [p \in Peers |-> sess'[p]]
    BY <1>1
  <2> QED BY <1>1, <1>2, <2>1, <2>2
<1>4. ASSUME NEW p \in Peers
      PROVE  /\ LinkTo(p)'
             /\ AsksBelow(sess'[p].nextSender, wire'[Other(p)])
  <2>1. PICK q \in Peers : q = Other(p)
    BY OtherFacts
  <2>2. wire'[q] = <<>> /\ wire'[p] = <<>>
    BY <1>2
  <2>3. AsksBelow(sess'[p].nextSender, <<>>)
    BY DEF AsksBelow
  <2>4. Link(sess'[p].nextTarget, sess'[p].awaitingResend, sess'[q].nextSender, <<>>, <<>>)
    BY LinkMade
  <2> QED BY <2>1, <2>2, <2>3, <2>4 DEF LinkTo
<1>5. Apart(sess'[I], sess'[A], wire'[A])
  <2>1. I \in Peers /\ A \in Peers
    BY DEF Peers
  <2>2. ~LoggedOn(sess'[I])
    BY <1>1, <1>2, <2>1 DEF LoggedOn
  <2>3. NoLogon(wire'[A])
    BY <1>2, <2>1 DEF NoLogon
  <2> QED BY <2>2, <2>3 DEF Apart
<1>6. \A p \in Peers : config'[p] \in MildConfigs
  BY <1>1 DEF MildPaired
<1> QED BY <1>2, <1>3, <1>4, <1>5, <1>6 DEF MildPaired

(* The network is gone: nothing is promised any more but that what is left   *)
(* to read is from before.                                                 *)
LEMMA CutLinks ==
  ASSUME MildPaired, Cut
  PROVE  MildPaired'
<1>1. wire' = [p \in Peers |-> wire'[p]]
  BY DEF Cut
<1>2. PICK failing \in SUBSET Peers :
        sess' = [p \in Peers |->
                   IF p \in failing /\ sess[p].socket = "open"
                     THEN [sess[p] EXCEPT !.socket = "failing"] ELSE sess[p]]
  BY DEF Cut
<1>3. config' = config /\ alive' = FALSE
  BY DEF Cut
<1>4. \A p \in Peers : /\ wire'[p] \in Seq(Messages) /\ wire[p] \in Seq(Messages)
                      /\ Agree(wire'[p], wire[p], Len(wire'[p]))
  <2>1. wire \in [Peers -> Seq(Messages)]
    BY DEF MildPaired
  <2> QED BY <2>1, CutShortens
<1>5. ASSUME NEW p \in Peers
      PROVE  /\ sess'[p] \in MildSessions /\ Idle(sess'[p]) /\ StoreOk(sess'[p])
             /\ sess'[p].nextSender = sess[p].nextSender
             /\ sess'[p].socket # "none" => sess[p].socket # "none"
  <2>1. PICK t : t = sess[p]
    OBVIOUS
  <2>2. t \in MildSessions /\ Idle(t) /\ StoreOk(t)
    BY <2>1 DEF MildPaired
  <2>3. CASE sess'[p] = t
    BY <2>1, <2>2, <2>3
  <2>4. CASE t.socket = "open" /\ sess'[p] = [t EXCEPT !.socket = "failing"]
    <3>1. PICK s \in Sessions, b \in BOOLEAN : t = Marked(s, b)
      BY <2>2 DEF MildSessions
    <3>2. PICK v : v = [s EXCEPT !.socket = "failing"]
      OBVIOUS
    <3>3. /\ v \in Sessions /\ v.rc = s.rc /\ v.sent = s.sent /\ v.calls = s.calls
          /\ v.outgoing = s.outgoing /\ v.nextSender = s.nextSender
      BY <3>2 DEF Sessions
    <3>4. PICK x : x = Marked(v, b)
      OBVIOUS
    <3>5. sess'[p] = x
      BY <2>4, <3>1, <3>2, <3>4 DEF Marked
    <3>6. /\ t.rc = s.rc /\ t.sent = s.sent /\ t.calls = s.calls
          /\ t.nextSender = s.nextSender
      BY <3>1, MarkedFacts
    <3>7. /\ x.rc = v.rc /\ x.sent = v.sent /\ x.calls = v.calls
          /\ x.nextSender = v.nextSender
      BY <3>3, <3>4, MarkedFacts
    <3>8. StoreOk(s)
      BY <2>2, <3>1, MildFacts
    <3>9. StoreOk(v)
      BY <3>3, <3>8 DEF StoreOk
    <3>10. x \in MildSessions /\ StoreOk(x)
      BY <3>3, <3>4, <3>9, MildFacts
    <3>11. Idle(x) /\ x.nextSender = t.nextSender /\ t.socket # "none"
      BY <2>2, <2>4, <3>3, <3>6, <3>7 DEF Idle
    <3> QED BY <2>1, <3>5, <3>10, <3>11
  <2>5. sess'[p] = t \/ (t.socket = "open" /\ sess'[p] = [t EXCEPT !.socket = "failing"])
    BY <1>2, <2>1
  <2> QED BY <2>3, <2>4, <2>5
<1>6. sess' \in [Peers -> MildSessions] /\ wire' \in [Peers -> Seq(Messages)]
  <2>1. sess' = [p \in Peers |-> sess'[p]]
    BY <1>2
  <2>2. wire' = [p \in Peers |-> wire'[p]]
    BY <1>1
  <2> QED BY <1>4, <1>5, <2>1, <2>2
<1>7. ASSUME NEW p \in Peers, sess'[p].socket # "none"
      PROVE  AsksBelow(sess'[p].nextSender, wire'[Other(p)])
  <2>1. PICK q \in Peers : q = Other(p)
    BY OtherFacts
  <2>2. AsksBelow(sess[p].nextSender, wire[q])
    BY <1>5, <1>7, <2>1 DEF MildPaired
  <2>3. AsksBelow(sess[p].nextSender, wire'[q])
    BY <1>4, <2>2, AsksBelowPrefix
  <2> QED BY <1>5, <2>1, <2>3
<1>8. \A p \in Peers : config'[p] \in MildConfigs
  BY <1>3 DEF MildPaired
<1>9. ~Attached'
  BY <1>3 DEF Attached
<1> QED BY <1>5, <1>6, <1>7, <1>8, <1>9 DEF MildPaired

LEMMA EarlyReadLinks ==
  ASSUME MildPaired, EarlyRead
  PROVE  MildPaired'
<1>1. /\ I \in Peers /\ A \in Peers /\ I # A /\ Other(A) = I /\ Other(I) = A
      /\ \A p \in Peers : p = I \/ p = A
  BY PeersAssumption DEF Peers, Other
<1>2. /\ wire[I] # <<>> /\ wire' = [wire EXCEPT ![I] = Tail(@)]
      /\ sess' = sess /\ config' = config /\ alive' = alive
  BY DEF EarlyRead
<1>3. /\ wire[I] \in Seq(Messages) /\ wire[A] \in Seq(Messages)
      /\ wire \in [Peers -> Seq(Messages)] /\ sess \in [Peers -> MildSessions]
  BY <1>1 DEF MildPaired
<1>4. Tail(wire[I]) \in Seq(Messages)
  BY <1>2, <1>3, TailFacts
<1>5. /\ wire' \in [Peers -> Seq(Messages)] /\ wire'[I] = Tail(wire[I]) /\ wire'[A] = wire[A]
  BY <1>1, <1>2, <1>3, <1>4
<1>6. ASSUME Attached'
      PROVE  LinkTo(A)' /\ LinkTo(I)' /\ Apart(sess'[I], sess'[A], wire'[A])
  <2>1. Attached
    BY <1>2, <1>6 DEF Attached
  <2>2. LinkTo(A) /\ LinkTo(I) /\ Apart(sess[I], sess[A], wire[A])
    BY <1>1, <2>1 DEF MildPaired
  <2>3. LinkTo(A)'
    <3>1. PICK e, a, n : e = sess[A].nextTarget /\ a = sess[A].awaitingResend
                         /\ n = sess[I].nextSender
      OBVIOUS
    <3>2. e \in Nat /\ n \in Nat
      BY <1>1, <1>3, <3>1, MildTyped DEF Numbers
    <3>3. Link(e, a, n, Tail(wire[I]), wire[A])
      BY <1>1, <1>2, <1>3, <2>2, <3>1, <3>2, LinkTail DEF LinkTo
    <3> QED BY <1>1, <1>2, <1>5, <3>1, <3>3 DEF LinkTo
  <2>4. LinkTo(I)'
    <3>1. PICK e, a, n : e = sess[I].nextTarget /\ a = sess[I].awaitingResend
                         /\ n = sess[A].nextSender
      OBVIOUS
    <3>2. Link(e, a, n, wire[A], Tail(wire[I]))
      BY <1>1, <1>2, <1>3, <2>2, <3>1, LinkBackTail DEF LinkTo
    <3> QED BY <1>1, <1>2, <1>5, <3>1, <3>2 DEF LinkTo
  <2> QED BY <1>2, <1>5, <2>2, <2>3, <2>4
<1>7. /\ sess[A].socket # "none" => AsksBelow(sess[A].nextSender, Tail(wire[I]))
      /\ sess[I].socket # "none" => AsksBelow(sess[I].nextSender, wire[A])
  <2>1. /\ sess[A].socket # "none" => AsksBelow(sess[A].nextSender, wire[I])
        /\ sess[I].socket # "none" => AsksBelow(sess[I].nextSender, wire[A])
    BY <1>1 DEF MildPaired
  <2> QED BY <1>2, <1>3, <2>1, AsksBelowTail
<1>8. \A p \in Peers :
        sess'[p].socket # "none" => AsksBelow(sess'[p].nextSender, wire'[Other(p)])
  BY <1>1, <1>2, <1>5, <1>7
<1>9. \A p \in Peers : config'[p] \in MildConfigs /\ Idle(sess'[p]) /\ StoreOk(sess'[p])
  BY <1>2 DEF MildPaired
<1> QED BY <1>1, <1>2, <1>3, <1>5, <1>6, <1>8, <1>9 DEF MildPaired

(* The inductive invariant when nobody resets on logon.                     *)
MildInv ==
  ConfigTyped /\ ((\A p \in Peers : ~config[p].resetOnLogon) => MildPaired)

LEMMA MildInit ==
  ASSUME Init
  PROVE  MildInv
<1>1. ConfigTyped
  BY ScenariosAssumption DEF Init, ConfigTyped
<1>2. /\ sess = [p \in Peers |-> [Created EXCEPT !.listening = (p = A)]]
      /\ wire = [p \in Peers |-> <<>>]
  BY DEF Init
<1>3. ASSUME NEW p \in Peers
      PROVE  /\ sess[p] \in MildSessions /\ Idle(sess[p]) /\ StoreOk(sess[p])
             /\ sess[p].socket = "none" /\ wire[p] = <<>>
  <2>1. PICK b \in BOOLEAN : b = (p = A)
    OBVIOUS
  <2>2. PICK s : s = [Created EXCEPT !.listening = b]
    OBVIOUS
  <2>3. s \in Sessions /\ Idle(s) /\ StoreOk(s) /\ s.socket = "none"
    BY <2>2, CreatedFacts
  <2>4. s \in MildSessions
    <3>1. s.resetOnDisconnect = FALSE /\ s = [s EXCEPT !.resetOnDisconnect = FALSE]
      BY <2>3 DEF Sessions
    <3>2. s = Marked(s, FALSE)
      BY <3>1 DEF Marked
    <3> QED BY <2>3, <3>2, MildFacts
  <2>5. sess[p] = s /\ wire[p] = <<>>
    BY <1>2, <2>1, <2>2
  <2> QED BY <2>3, <2>4, <2>5
<1>4. sess \in [Peers -> MildSessions] /\ wire \in [Peers -> Seq(Messages)]
  <2>1. <<>> \in Seq(Messages)
    BY EmptySeq
  <2>2. sess = [p \in Peers |-> sess[p]]
    BY <1>2
  <2> QED BY <1>2, <1>3, <2>1, <2>2
<1>5. ~Attached
  BY <1>3 DEF Attached, Peers
<1>6. (\A p \in Peers : ~config[p].resetOnLogon) => \A p \in Peers : config[p] \in MildConfigs
  BY <1>1 DEF ConfigTyped, MildConfigs
<1> QED BY <1>1, <1>3, <1>4, <1>5, <1>6 DEF MildInv, MildPaired

LEMMA MildStep ==
  ASSUME MildInv, [Next]_vars
  PROVE  MildInv'
<1>1. config' = config
  BY ConfigStays
<1>2. /\ ConfigTyped'
      /\ (\A p \in Peers : ~config[p].resetOnLogon)' => \A p \in Peers : ~config[p].resetOnLogon
  BY <1>1 DEF MildInv, ConfigTyped
<1>3. ASSUME MildPaired
      PROVE  MildPaired'
  <2>1. CASE UNCHANGED vars
    <3>1. UNCHANGED <<config, sess, wire, alive>>
      BY <2>1 DEF vars
    <3> QED BY <1>3, <3>1 DEF MildPaired, Attached, LinkTo
  <2>2. CASE Connect
    BY <1>3, <2>2, ConnectLinks
  <2>3. CASE EarlyRead
    BY <1>3, <2>3, EarlyReadLinks
  <2>4. CASE Cut
    BY <1>3, <2>4, CutLinks
  <2>5. ASSUME NEW p \in Peers, Step(p)
        PROVE  MildPaired'
    <3>1. CASE Connected(p)
      BY <1>3, <3>1, ConnectedLinks
    <3>2. CASE Read(p)
      BY <1>3, <3>2, ReadLinks
    <3>3. CASE ConnectionLost(p)
      BY <1>3, <3>3, ConnectionLostLinks
    <3>4. CASE TimerClose(p)
      BY <1>3, <3>4, TimerCloseLinks
    <3>5. CASE Logout(p)
      BY <1>3, <3>5, LogoutLinks
    <3>6. CASE AppSend(p)
      BY <1>3, <3>6, AppSendLinks
    <3>7. ASSUME NEW due \in Deadlines, Timer(p, due)
          PROVE  MildPaired'
      BY <1>3, <3>7, TimerLinks
    <3> QED BY <2>5, <3>1, <3>2, <3>3, <3>4, <3>5, <3>6, <3>7 DEF Step, Strand
  <2> QED BY <2>1, <2>2, <2>3, <2>4, <2>5 DEF Next
<1> QED BY <1>2, <1>3 DEF MildInv

(* Of two sessions of which neither resets on logon, whatever else resets   *)
(* them, neither is ahead of the other while both are logged on over a      *)
(* connection that is up (handleLogonReceived, onDisconnected).            *)
THEOREM AgreedWhenLoggedOn == Spec => []AgreedOnceUp
<1>1. Init => MildInv
  BY MildInit
<1>2. MildInv /\ [Next]_vars => MildInv'
  BY MildStep
<1>3. MildInv => AgreedOnceUp
  <2> SUFFICES ASSUME MildPaired, BothUp PROVE NotAhead
    BY DEF MildInv, AgreedOnceUp
  <2>1. I \in Peers /\ A \in Peers /\ Other(A) = I /\ Other(I) = A
    BY PeersAssumption DEF Peers, Other
  <2>2. Attached /\ LoggedOn(sess[I]) /\ LoggedOn(sess[A])
    BY <2>1 DEF BothUp, Attached
  <2>3. Apart(sess[I], sess[A], wire[A])
    BY <2>2 DEF MildPaired
  <2>4. /\ sess[I].nextTarget \in Nat /\ sess[I].nextSender \in Nat
        /\ sess[A].nextTarget \in Nat /\ sess[A].nextSender \in Nat
    BY <2>1, MildTyped DEF MildPaired, Numbers
  <2>5. /\ sess[I].nextTarget =< sess[A].nextSender
        /\ sess[A].nextTarget =< sess[I].nextSender
    BY <2>2, <2>3, <2>4 DEF Apart
  <2> QED BY <2>1, <2>5 DEF NotAhead, Peers
<1> QED BY <1>1, <1>2, <1>3, PTL DEF Spec
=============================================================================
