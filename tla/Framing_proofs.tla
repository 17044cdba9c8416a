--------------------------- MODULE Framing_proofs ---------------------------
(***************************************************************************)
(* Proofs about the receive loop, for any sizes of frames, any number of   *)
(* them and of connections, and wherever the chunks are cut.               *)
(*                                                                         *)
(* The invariant is about Ahead: the bytes that the loop has still to see, *)
(* what it holds and then what is on the wire.  They are bytes of frames   *)
(* that were sent, in their order, on a connection that was there when the *)
(* session was opened or on one that replaced it; and when nothing goes    *)
(* wrong they are all of them from the first byte of the next frame on.    *)
(***************************************************************************)
EXTENDS Framing, SequenceTheorems, TLAPS

-----------------------------------------------------------------------------
(* The inductive invariant.                                                 *)

(* Byte b is one of a frame t[n].                                           *)
Of(b, t) == b[2] \in 1..Len(t) /\ b[3] \in 1..t[b[2]].size

(* The bytes of s are of the frames t and come in their order.              *)
Drawn(s, t) ==
  /\ \A k \in 1..Len(s) : Of(s[k], t)
  /\ \A j, k \in 1..Len(s) :
       j < k => s[j][2] < s[k][2] \/ (s[j][2] = s[k][2] /\ s[j][3] < s[k][3])

(* Behind a byte comes the rest of its frame, and then the next frame.      *)
Entire(s, c, t) ==
  /\ \A k \in 1..Len(s) : \A i \in s[k][3]..t[s[k][2]].size :
       k + i - s[k][3] \in 1..Len(s) /\ s[k + i - s[k][3]] = <<c, s[k][2], i>>
  /\ \A k \in 1..Len(s) : s[k][3] = t[s[k][2]].size =>
       IF k = Len(s) THEN s[k][2] = Len(t) ELSE s[k + 1] = <<c, s[k][2] + 1, 1>>

(* Frame n of t may be at the head although it has been handed over: its    *)
(* handler may see it again, or it is refused as an old number.             *)
Stays(n, t, done) ==
  t[n].kind \in {"declined", "replay"} \/ (t[n].kind = "finish" /\ n \in done)

(* No byte is of a frame before one of h, or of one of h that does not stay.*)
Behind(s, h, t, done) ==
  \A k \in 1..Len(s) : \A i \in 1..Len(h) :
    h[i] < s[k][2] \/ (h[i] = s[k][2] /\ Stays(h[i], t, done))

(* Every byte is of connection c or of a later one.                         *)
From(s, c) == \A k \in 1..Len(s) : s[k][1] >= c

(* The first byte is that of the frame after the last of h.                 *)
Starts(s, h, c, t) ==
  IF s = <<>> THEN Len(h) = Len(t) ELSE s[1] = <<c, Len(h) + 1, 1>>

Holds == IF pc = "loop" THEN Data ELSE IF status = "open" THEN m_in ELSE <<>>
Ahead == Holds \o wire

(* How the variables of the loop go together.                               *)
Loop ==
  /\ connected => conn # 0
  /\ since =< conn
  /\ ~connected => /\ sent = <<>> /\ wire = <<>> /\ handed = <<>> /\ counted = {}
                   /\ status = "closed" /\ pc = "idle"
  /\ pc = "idle" => view = <<>> /\ usingPending = FALSE
  /\ pc = "loop" => IF usingPending THEN view = <<>> ELSE m_in = <<>>
  /\ pc = "loop" /\ status = "closed" => ~resets /\ m_in = <<>>
  /\ ~late

Handed ==
  /\ \A i \in 1..Len(handed) : handed[i] \in 1..Len(sent)
  /\ \A i, j \in 1..Len(handed) : i < j => handed[i] =< handed[j]

(* When nothing goes wrong.                                                 *)
Live == status = "open" \/ (pc = "loop" /\ Data # <<>>)

Lossless ==
  /\ \A n \in 1..Len(sent) : sent[n].kind \in {"order", "logout"}
  /\ \A i \in 1..Len(handed) : handed[i] = i
  /\ \A n \in counted : n =< Len(handed)
  /\ Entire(Ahead, conn, sent)
  /\ Live => Starts(Ahead, handed, conn, sent)

FramingInv ==
  /\ TypeOK /\ Loop /\ Handed
  /\ Drawn(Ahead, sent)
  /\ From(Ahead, since)
  /\ Behind(Ahead, handed, sent, counted)
  /\ ~lossy => Lossless
  /\ PendingExact

-----------------------------------------------------------------------------
(* Bytes and sequences of them.                                             *)

LEMMA ByteFacts ==
  ASSUME NEW b \in Byte
  PROVE  /\ b[1] \in 1..MaxConnections /\ b[2] \in 1..MaxFrames /\ b[3] \in Nat \ {0}
         /\ b[1] \in Nat /\ b[2] \in Nat /\ b[3] \in Nat
         /\ b = <<b[1], b[2], b[3]>>
BY BoundsAssumption DEF Byte

LEMMA BytesOf ==
  ASSUME NEW s \in Seq(Byte)
  PROVE  /\ Len(s) \in Nat /\ DOMAIN s = 1..Len(s)
         /\ \A k \in 1..Len(s) :
              /\ s[k] \in Byte /\ s[k][1] \in Nat /\ s[k][2] \in Nat /\ s[k][3] \in Nat
              /\ s[k][2] \in 1..MaxFrames
              /\ s[k][3] >= 1 /\ s[k] = <<s[k][1], s[k][2], s[k][3]>>
<1>1. \A k \in 1..Len(s) : s[k] \in Byte
  BY ElementOfSeq
<1>2. Len(s) \in Nat /\ DOMAIN s = 1..Len(s)
  BY LenProperties
<1>3. ASSUME NEW k \in 1..Len(s)
      PROVE  /\ s[k] \in Byte /\ s[k][1] \in Nat /\ s[k][2] \in Nat /\ s[k][3] \in Nat
             /\ s[k][2] \in 1..MaxFrames
             /\ s[k][3] >= 1 /\ s[k] = <<s[k][1], s[k][2], s[k][3]>>
  <2>1. PICK b \in Byte : b = s[k]
    BY <1>1
  <2>2. /\ b[1] \in Nat /\ b[2] \in Nat /\ b[3] \in Nat /\ b[3] \in Nat \ {0}
        /\ b[2] \in 1..MaxFrames /\ b = <<b[1], b[2], b[3]>>
    BY ByteFacts
  <2> QED BY <2>1, <2>2
<1> QED BY <1>2, <1>3

LEMMA FrameFacts ==
  ASSUME NEW t \in Seq(Frame), NEW n \in 1..Len(t)
  PROVE  t[n] \in Frame /\ t[n].size \in Nat /\ t[n].size >= MinSize /\ t[n].size >= 1
<1>1. t[n] \in Frame
  BY ElementOfSeq
<1>2. t[n].size \in Sizes
  BY <1>1 DEF Frame
<1>3. t[n].size \in Nat /\ t[n].size >= MinSize
  BY <1>2, SizesAssumption
<1>4. MinSize \in Nat /\ MinSize >= 1
  BY SizesAssumption
<1> QED BY <1>1, <1>3, <1>4

LEMMA BytesAssociate ==
  \A a, b, c \in Seq(Byte) : (a \o b) \o c = a \o (b \o c)
<1> SUFFICES ASSUME NEW a \in Seq(Byte), NEW b \in Seq(Byte), NEW c \in Seq(Byte)
             PROVE  (a \o b) \o c = a \o (b \o c)
  OBVIOUS
<1> QED BY SMTT(30), ConcatAssociative

LEMMA Joined ==
  ASSUME NEW S, NEW a \in Seq(S), NEW b \in Seq(S)
  PROVE  /\ a \o b \in Seq(S) /\ Len(a \o b) = Len(a) + Len(b)
         /\ \A k \in 1..Len(a) : (a \o b)[k] = a[k]
         /\ \A k \in 1..Len(b) : (a \o b)[Len(a) + k] = b[k]
         /\ \A k \in 1..Len(a) + Len(b) : k \in 1..Len(a) \/ k - Len(a) \in 1..Len(b)
         /\ \A k \in Len(a) + 1..Len(a) + Len(b) : (a \o b)[k] = b[k - Len(a)]
<1>1. Len(a) \in Nat /\ Len(b) \in Nat
  BY LenProperties
<1>2. /\ a \o b \in Seq(S) /\ Len(a \o b) = Len(a) + Len(b)
      /\ \A k \in 1..Len(a) + Len(b) : (a \o b)[k] = IF k =< Len(a) THEN a[k] ELSE b[k - Len(a)]
  BY ConcatProperties
<1>3. ASSUME NEW k \in 1..Len(b) PROVE (a \o b)[Len(a) + k] = b[k]
  <2>1. Len(a) + k \in 1..Len(a) + Len(b) /\ ~(Len(a) + k =< Len(a)) /\ (Len(a) + k) - Len(a) = k
    BY <1>1
  <2> QED BY <1>2, <2>1
<1>4. ASSUME NEW k \in 1..Len(a) PROVE (a \o b)[k] = a[k]
  <2>1. k \in 1..Len(a) + Len(b) /\ k =< Len(a)
    BY <1>1
  <2> QED BY <1>2, <2>1
<1>5. ASSUME NEW k \in Len(a) + 1..Len(a) + Len(b) PROVE (a \o b)[k] = b[k - Len(a)]
  <2>1. k \in 1..Len(a) + Len(b) /\ ~(k =< Len(a))
    BY <1>1
  <2> QED BY <1>2, <2>1
<1>6. \A k \in 1..Len(a) + Len(b) : k \in 1..Len(a) \/ k - Len(a) \in 1..Len(b)
  BY <1>1
<1> QED BY <1>2, <1>3, <1>4, <1>5, <1>6

(* v is what is left of s without the first d.                              *)
Suffix(v, s, d) ==
  /\ d \in 0..Len(s) /\ Len(v) = Len(s) - d
  /\ \A k \in 1..Len(v) : v[k] = s[k + d]

LEMMA SuffixFacts ==
  ASSUME NEW S, NEW s \in Seq(S), NEW d \in 0..Len(s), NEW v, v = SubSeq(s, d + 1, Len(s))
  PROVE  v \in Seq(S) /\ Suffix(v, s, d)
<1>1. Len(s) \in Nat
  BY LenProperties
<1>2. CASE d = Len(s)
  <2>1. v = <<>>
    BY <1>1, <1>2, SubSeqEmpty
  <2>2. v \in Seq(S) /\ Len(v) = 0
    BY <2>1, EmptySeq
  <2> QED BY <1>1, <1>2, <2>2 DEF Suffix
<1>3. CASE d # Len(s)
  <2>1. d + 1 \in 1..Len(s) /\ \A i \in d + 1..Len(s) : s[i] \in S
    <3>1. \A i \in 1..Len(s) : s[i] \in S
      BY ElementOfSeq
    <3> QED BY <1>1, <1>3, <3>1
  <2>2. /\ v \in Seq(S) /\ Len(v) = IF d + 1 <= Len(s) THEN Len(s) - (d + 1) + 1 ELSE 0
        /\ \A i \in 1..Len(s) - (d + 1) + 1 : v[i] = s[d + 1 + i - 1]
    BY <1>1, <2>1, SubSeqProperties
  <2>3. Len(v) = Len(s) - d
    BY <1>1, <2>1, <2>2
  <2>4. ASSUME NEW k \in 1..Len(v) PROVE v[k] = s[k + d]
    <3>1. k \in 1..Len(s) - (d + 1) + 1 /\ d + 1 + k - 1 = k + d
      BY <1>1, <2>3
    <3> QED BY <2>2, <3>1
  <2> QED BY <2>2, <2>3, <2>4 DEF Suffix
<1> QED BY <1>2, <1>3

(* v is s with some of it left out.                                         *)
Within(v, s) ==
  \E f \in [1..Len(v) -> 1..Len(s)] :
    /\ \A j, k \in 1..Len(v) : j < k => f[j] < f[k]
    /\ \A k \in 1..Len(v) : v[k] = s[f[k]]

LEMMA WithinSame ==
  ASSUME NEW s \in Seq(Byte)
  PROVE  Within(s, s)
<1>1. PICK f : f = [k \in 1..Len(s) |-> k]
  OBVIOUS
<1> QED BY <1>1 DEF Within

LEMMA WithinSuffix ==
  ASSUME NEW s \in Seq(Byte), NEW v \in Seq(Byte), NEW d, Suffix(v, s, d)
  PROVE  Within(v, s)
<1>1. Len(s) \in Nat /\ Len(v) \in Nat /\ d \in 0..Len(s) /\ Len(v) = Len(s) - d
  BY BytesOf DEF Suffix
<1>2. PICK f : f = [k \in 1..Len(v) |-> k + d]
  OBVIOUS
<1>3. f \in [1..Len(v) -> 1..Len(s)]
  BY <1>1, <1>2
<1>4. \A j, k \in 1..Len(v) : j < k => f[j] < f[k]
  BY <1>1, <1>2
<1>5. \A k \in 1..Len(v) : v[k] = s[f[k]]
  BY <1>2 DEF Suffix
<1> QED BY <1>3, <1>4, <1>5 DEF Within

(* A piece is missing in the middle.                                        *)
LEMMA WithinAround ==
  ASSUME NEW a \in Seq(Byte), NEW w \in Seq(Byte), NEW x \in Seq(Byte), NEW d, Suffix(x, w, d)
  PROVE  Within(a \o x, a \o w)
<1>1. Len(a) \in Nat /\ Len(w) \in Nat /\ Len(x) \in Nat /\ d \in 0..Len(w) /\ Len(x) = Len(w) - d
  BY BytesOf DEF Suffix
<1>2. /\ Len(a \o w) = Len(a) + Len(w) /\ Len(a \o x) = Len(a) + Len(x)
      /\ \A k \in 1..Len(a) : (a \o w)[k] = a[k] /\ (a \o x)[k] = a[k]
      /\ \A k \in 1..Len(w) : (a \o w)[Len(a) + k] = w[k]
      /\ \A k \in Len(a) + 1..Len(a) + Len(x) : (a \o x)[k] = x[k - Len(a)]
  BY Joined
<1>3. PICK v : v = a \o x
  OBVIOUS
<1>4. PICK s : s = a \o w
  OBVIOUS
<1>5. PICK f : f = [k \in 1..Len(v) |-> IF k =< Len(a) THEN k ELSE k + d]
  OBVIOUS
<1>6. f \in [1..Len(v) -> 1..Len(s)]
  BY <1>1, <1>2, <1>3, <1>4, <1>5
<1>7. \A j, k \in 1..Len(v) : j < k => f[j] < f[k]
  BY <1>1, <1>2, <1>3, <1>5
<1>8. ASSUME NEW k \in 1..Len(v) PROVE v[k] = s[f[k]]
  <2>1. CASE k =< Len(a)
    <3>1. k \in 1..Len(a)
      BY <1>1, <1>2, <1>3, <2>1
    <3> QED BY <1>2, <1>3, <1>4, <1>5, <2>1, <3>1
  <2>2. CASE ~(k =< Len(a))
    <3>1. k \in Len(a) + 1..Len(a) + Len(x) /\ k - Len(a) \in 1..Len(x)
      BY <1>1, <1>2, <1>3, <2>2
    <3>2. v[k] = w[k - Len(a) + d]
      BY <1>2, <1>3, <3>1 DEF Suffix
    <3>3. k - Len(a) + d \in 1..Len(w) /\ Len(a) + (k - Len(a) + d) = k + d
      BY <1>1, <3>1
    <3>4. s[k + d] = w[k - Len(a) + d]
      BY <1>2, <1>4, <3>3
    <3> QED BY <1>5, <2>2, <3>2, <3>4
  <2> QED BY <2>1, <2>2
<1> QED BY <1>3, <1>4, <1>6, <1>7, <1>8 DEF Within

LEMMA DrawnWithin ==
  ASSUME NEW s, NEW v, Within(v, s), NEW t, Drawn(s, t)
  PROVE  Drawn(v, t)
<1>1. PICK f \in [1..Len(v) -> 1..Len(s)] :
        /\ \A j, k \in 1..Len(v) : j < k => f[j] < f[k]
        /\ \A k \in 1..Len(v) : v[k] = s[f[k]]
  BY DEF Within
<1>2. \A k \in 1..Len(v) : Of(v[k], t)
  BY <1>1 DEF Drawn
<1>3. ASSUME NEW j \in 1..Len(v), NEW k \in 1..Len(v), j < k
      PROVE  v[j][2] < v[k][2] \/ (v[j][2] = v[k][2] /\ v[j][3] < v[k][3])
  <2>1. f[j] \in 1..Len(s) /\ f[k] \in 1..Len(s) /\ f[j] < f[k]
    BY <1>1, <1>3
  <2> QED BY <1>1, <2>1 DEF Drawn
<1> QED BY <1>2, <1>3 DEF Drawn

LEMMA BehindWithin ==
  ASSUME NEW s, NEW v, Within(v, s), NEW h, NEW t, NEW done, Behind(s, h, t, done)
  PROVE  Behind(v, h, t, done)
BY DEF Within, Behind

LEMMA FromWithin ==
  ASSUME NEW s, NEW v, Within(v, s), NEW c, From(s, c)
  PROVE  From(v, c)
BY DEF Within, From

LEMMA PlaceAfter ==
  \A l, m \in Nat : \A k \in 1..l, e \in 0..m :
    k # l => k + 1 \in 1..l /\ (k + 1) + e = k + e + 1
OBVIOUS

LEMMA PlaceOf ==
  \A l, m \in Nat : \A k \in 1..l, e \in 0..m, i, j \in Int :
    /\ l = m - e /\ i >= j /\ k + e + i - j \in 1..m
    => k + i - j \in 1..l /\ (k + i - j) + e = k + e + i - j
OBVIOUS

LEMMA BelowNext == \A m \in Nat : \A x \in 1..m : x < m + 1
OBVIOUS

LEMMA EntireSuffix ==
  ASSUME NEW s \in Seq(Byte), NEW v \in Seq(Byte), NEW d, Suffix(v, s, d), NEW c,
         NEW t \in Seq(Frame), Drawn(s, t), Entire(s, c, t)
  PROVE  Entire(v, c, t)
<1>1. Len(s) \in Nat /\ Len(v) \in Nat /\ d \in 0..Len(s) /\ Len(v) = Len(s) - d
  BY BytesOf DEF Suffix
<1>2. ASSUME NEW k \in 1..Len(v), NEW i \in v[k][3]..t[v[k][2]].size
      PROVE  k + i - v[k][3] \in 1..Len(v) /\ v[k + i - v[k][3]] = <<c, v[k][2], i>>
  <2>1. v[k] = s[k + d] /\ k + d \in 1..Len(s)
    BY <1>1 DEF Suffix
  <2>2. PICK j : j = v[k][3]
    OBVIOUS
  <2>3. j \in Nat /\ j \in Int /\ j >= 1 /\ t[v[k][2]].size \in Int
    <3>1. v[k][2] \in 1..Len(t)
      BY <2>1 DEF Drawn, Of
    <3>2. t[v[k][2]].size \in Nat
      BY <3>1, FrameFacts
    <3>3. v[k][3] \in Nat /\ v[k][3] >= 1
      BY BytesOf
    <3> QED BY <2>2, <3>2, <3>3
  <2>4. i \in Int /\ i >= j
    BY <2>2, <2>3
  <2>5. k + d + i - j \in 1..Len(s) /\ s[k + d + i - j] = <<c, v[k][2], i>>
    BY <2>1, <2>2 DEF Entire
  <2>6. k + i - j \in 1..Len(v) /\ (k + i - j) + d = k + d + i - j
    <3>1. k \in 1..Len(v) /\ d \in 0..Len(s) /\ i \in Int /\ j \in Int
      BY Zenon, <1>1, <2>3, <2>4
    <3>2. Len(v) = Len(s) - d /\ i >= j /\ k + d + i - j \in 1..Len(s)
      BY Zenon, <1>1, <2>4, <2>5
    <3>3. Len(v) \in Nat /\ Len(s) \in Nat
      BY Zenon, <1>1
    <3> QED BY SMTT(30), <3>1, <3>2, <3>3, PlaceOf
  <2> QED BY <2>2, <2>5, <2>6 DEF Suffix
<1>3. ASSUME NEW k \in 1..Len(v), v[k][3] = t[v[k][2]].size
      PROVE  IF k = Len(v) THEN v[k][2] = Len(t) ELSE v[k + 1] = <<c, v[k][2] + 1, 1>>
  <2>1. v[k] = s[k + d] /\ k + d \in 1..Len(s) /\ (k = Len(v) <=> k + d = Len(s))
    BY <1>1 DEF Suffix
  <2>2. IF k + d = Len(s) THEN v[k][2] = Len(t) ELSE s[k + d + 1] = <<c, v[k][2] + 1, 1>>
    BY <1>3, <2>1 DEF Entire
  <2>3. CASE k = Len(v)
    BY <2>1, <2>2, <2>3
  <2>4. CASE k # Len(v)
    <3>1. k + 1 \in 1..Len(v) /\ (k + 1) + d = k + d + 1
      BY Zenon, <1>1, <2>4, PlaceAfter
    <3> QED BY <2>1, <2>2, <2>4, <3>1 DEF Suffix
  <2> QED BY <2>3, <2>4
<1> QED BY <1>2, <1>3 DEF Entire

(* The bytes of one frame.                                                  *)
LEMMA BytesFacts ==
  ASSUME NEW c \in 1..MaxConnections, NEW n \in 1..MaxFrames, NEW z \in Nat
  PROVE  /\ Bytes(c, n, z) \in Seq(Byte) /\ Len(Bytes(c, n, z)) = z
         /\ \A i \in 1..z : Bytes(c, n, z)[i] = <<c, n, i>>
<1>1. PICK b : b = [i \in 1..z |-> <<c, n, i>>]
  OBVIOUS
<1>2. \A i \in 1..z : <<c, n, i>> \in Byte
  BY DEF Byte
<1>3. b \in [1..z -> Byte]
  BY <1>1, <1>2
<1>4. b \in Seq(Byte)
  BY <1>3, SeqDef
<1>5. Len(b) = z
  BY <1>1, <1>4, LenProperties
<1> QED BY <1>1, <1>4, <1>5 DEF Bytes

LEMMA NoBytes ==
  ASSUME NEW c, NEW n
  PROVE  Bytes(c, n, 0) = <<>>
<1>1. PICK b : b = [i \in 1..0 |-> <<c, n, i>>]
  OBVIOUS
<1>2. b = <<>>
  BY <1>1
<1> QED BY <1>1, <1>2 DEF Bytes

-----------------------------------------------------------------------------
(* What the loop has still to see.                                          *)

LEMMA AheadTyped ==
  ASSUME TypeOK
  PROVE  /\ Data \in Seq(Byte) /\ Holds \in Seq(Byte) /\ Ahead \in Seq(Byte)
         /\ wire \in Seq(Byte) /\ m_in \in Seq(Byte) /\ view \in Seq(Byte)
         /\ sent \in Seq(Frame) /\ Len(sent) \in Nat /\ Len(sent) =< MaxFrames
         /\ handed \in Seq(1..MaxFrames) /\ Len(handed) \in Nat
         /\ \A i \in 1..Len(handed) : handed[i] \in Nat
<1>1. <<>> \in Seq(Byte) /\ wire \in Seq(Byte) /\ m_in \in Seq(Byte) /\ view \in Seq(Byte)
  BY EmptySeq DEF TypeOK
<1>2. Data \in Seq(Byte) /\ Holds \in Seq(Byte)
  BY <1>1 DEF Data, Holds
<1>3. Ahead \in Seq(Byte)
  BY <1>1, <1>2, Joined DEF Ahead
<1>4. sent \in Seq(Frame) /\ Len(sent) =< MaxFrames /\ handed \in Seq(1..MaxFrames)
  BY DEF TypeOK
<1>5. Len(sent) \in Nat /\ Len(handed) \in Nat
  BY <1>4, LenProperties
<1>6. \A i \in 1..Len(handed) : handed[i] \in 1..MaxFrames
  BY <1>4, ElementOfSeq
<1>7. \A i \in 1..Len(handed) : handed[i] \in Nat
  BY <1>6, BoundsAssumption
<1> QED BY <1>1, <1>2, <1>3, <1>4, <1>5, <1>7

LEMMA AheadTypedNext ==
  ASSUME TypeOK'
  PROVE  Holds' \in Seq(Byte) /\ Ahead' \in Seq(Byte)
<1>1. <<>> \in Seq(Byte) /\ wire' \in Seq(Byte) /\ m_in' \in Seq(Byte) /\ view' \in Seq(Byte)
  BY EmptySeq DEF TypeOK
<1>2. Holds' \in Seq(Byte)
  BY <1>1 DEF Data, Holds
<1> QED BY <1>1, <1>2, Joined DEF Ahead

(* What is on the wire is a suffix of what is ahead, and so is what is left *)
(* of it.                                                                  *)
LEMMA WireIsSuffix ==
  ASSUME NEW a \in Seq(Byte), NEW w \in Seq(Byte)
  PROVE  Suffix(w, a \o w, Len(a))
<1>1. Len(a) \in Nat /\ Len(w) \in Nat
  BY BytesOf
<1>2. Len(a \o w) = Len(a) + Len(w) /\ \A k \in 1..Len(w) : (a \o w)[Len(a) + k] = w[k]
  BY Joined
<1>3. \A k \in 1..Len(w) : Len(a) + k = k + Len(a)
  BY <1>1
<1> QED BY <1>1, <1>2, <1>3 DEF Suffix

LEMMA RestIsSuffix ==
  ASSUME NEW a \in Seq(Byte), NEW w \in Seq(Byte), NEW x \in Seq(Byte), NEW d, Suffix(x, a, d)
  PROVE  Suffix(x \o w, a \o w, d)
<1>1. Len(a) \in Nat /\ Len(w) \in Nat /\ Len(x) \in Nat /\ d \in 0..Len(a) /\ Len(x) = Len(a) - d
  BY BytesOf DEF Suffix
<1>2. /\ Len(a \o w) = Len(a) + Len(w) /\ Len(x \o w) = Len(x) + Len(w)
      /\ \A k \in 1..Len(a) : (a \o w)[k] = a[k]
      /\ \A k \in 1..Len(x) : (x \o w)[k] = x[k]
      /\ \A k \in Len(a) + 1..Len(a) + Len(w) : (a \o w)[k] = w[k - Len(a)]
      /\ \A k \in Len(x) + 1..Len(x) + Len(w) : (x \o w)[k] = w[k - Len(x)]
  BY Joined
<1>3. ASSUME NEW k \in 1..Len(x \o w) PROVE (x \o w)[k] = (a \o w)[k + d]
  <2>1. CASE k =< Len(x)
    <3>1. k \in 1..Len(x) /\ k + d \in 1..Len(a)
      BY <1>1, <1>2, <2>1
    <3>2. x[k] = a[k + d]
      BY <3>1 DEF Suffix
    <3> QED BY <1>2, <3>1, <3>2
  <2>2. CASE ~(k =< Len(x))
    <3>1. /\ k \in Len(x) + 1..Len(x) + Len(w) /\ k + d \in Len(a) + 1..Len(a) + Len(w)
          /\ k - Len(x) = (k + d) - Len(a)
      BY <1>1, <1>2, <2>2
    <3> QED BY <1>2, <3>1
  <2> QED BY <2>1, <2>2
<1> QED BY <1>1, <1>2, <1>3 DEF Suffix

-----------------------------------------------------------------------------
(* Steps in which no frame is handed over.                                  *)

LEMMA Passes ==
  ASSUME FramingInv, TypeOK', Loop', UNCHANGED <<lossy, conn, since, sent, handed, counted>>,
         Within(Ahead', Ahead), ~lossy => Lossless', PendingExact'
  PROVE  FramingInv'
<1>1. /\ Drawn(Ahead', sent) /\ Behind(Ahead', handed, sent, counted)
      /\ From(Ahead', since)
  BY DrawnWithin, BehindWithin, FromWithin DEF FramingInv
<1> QED BY <1>1 DEF FramingInv, Handed

(* Nothing of what is ahead is lost, or it is not read any more.            *)
LEMMA LosslessPasses ==
  ASSUME FramingInv, ~lossy, TypeOK', UNCHANGED <<conn, since, sent, handed, counted>>,
         \/ Ahead' = Ahead /\ (Live' => Live)
         \/ ~Live' /\ \E d \in Nat : Suffix(Ahead', Ahead, d)
  PROVE  Lossless'
<1>1. /\ Lossless /\ Entire(Ahead, conn, sent) /\ Drawn(Ahead, sent)
      /\ Ahead \in Seq(Byte) /\ Ahead' \in Seq(Byte) /\ sent \in Seq(Frame)
  BY AheadTyped, AheadTypedNext DEF FramingInv, Lossless
<1>2. Entire(Ahead', conn, sent)
  BY <1>1, EntireSuffix
<1>3. Live' => Starts(Ahead', handed, conn, sent)
  BY <1>1 DEF Lossless
<1> QED BY <1>1, <1>2, <1>3 DEF Lossless

(* The first frame ahead, when nothing goes wrong.                          *)
LEMMA NoTrouble ==
  ASSUME FramingInv, ~lossy, pc = "loop", Data # <<>>
  PROVE  /\ Number = Len(handed) + 1 /\ Number \in 1..Len(sent)
         /\ TheFrame.kind \in {"order", "logout"}
         /\ TheFrame.size =< Len(Ahead)
         /\ \A i \in 1..TheFrame.size : Ahead[i] = <<conn, Number, i>>
         /\ Data[1] = <<conn, Number, 1>>
<1>1. /\ Data \in Seq(Byte) /\ wire \in Seq(Byte) /\ Ahead \in Seq(Byte) /\ sent \in Seq(Frame)
      /\ Ahead = Data \o wire /\ Len(handed) \in Nat
  BY AheadTyped DEF FramingInv, Ahead, Holds
<1>2. Len(Data) \in Nat /\ Len(Data) >= 1 /\ 1 \in 1..Len(Data)
  BY <1>1, BytesOf, EmptySeq
<1>3. Ahead[1] = Data[1] /\ Len(Ahead) = Len(Data) + Len(wire) /\ Len(wire) \in Nat
  BY <1>1, <1>2, Joined, BytesOf
<1>4. Ahead # <<>> /\ 1 \in 1..Len(Ahead)
  BY <1>2, <1>3
<1>5. Lossless /\ Starts(Ahead, handed, conn, sent) /\ Entire(Ahead, conn, sent)
  BY DEF FramingInv, Lossless, Live
<1>6. Data[1] = <<conn, Len(handed) + 1, 1>>
  BY <1>3, <1>4, <1>5 DEF Starts
<1>7. Number = Len(handed) + 1 /\ Data[1] = <<conn, Number, 1>> /\ Ahead[1][3] = 1
      /\ Ahead[1][2] = Number
  BY <1>3, <1>6 DEF Number
<1>8. Number \in 1..Len(sent)
  BY <1>4, <1>7 DEF FramingInv, Drawn, Of
<1>9. TheFrame.kind \in {"order", "logout"} /\ TheFrame.size \in Nat /\ TheFrame.size >= 1
  BY <1>1, <1>5, <1>8, FrameFacts DEF Lossless, TheFrame
<1>11. ASSUME NEW i \in 1..TheFrame.size
       PROVE  i \in 1..Len(Ahead) /\ Ahead[i] = <<conn, Number, i>>
  <2>1. i \in 1..sent[Ahead[1][2]].size
    BY <1>7 DEF TheFrame
  <2>2. 1 + i - 1 \in 1..Len(Ahead) /\ Ahead[1 + i - 1] = <<conn, Number, i>>
    BY <1>4, <1>5, <1>7, <2>1 DEF Entire
  <2>3. 1 + i - 1 = i
    BY <1>9
  <2> QED BY <2>2, <2>3
<1>12. TheFrame.size =< Len(Ahead)
  <2>1. TheFrame.size \in 1..TheFrame.size
    BY <1>9
  <2>2. TheFrame.size \in 1..Len(Ahead)
    BY <1>11, <2>1
  <2> QED BY <2>2
<1> QED BY <1>7, <1>8, <1>9, <1>11, <1>12

LEMMA SameBytes ==
  ASSUME NEW s \in Seq(Byte), NEW c \in 1..MaxConnections, NEW n \in 1..MaxFrames,
         \A i \in 1..Len(s) : s[i] = <<c, n, i>>
  PROVE  s = Bytes(c, n, Len(s))
<1>1. Len(s) \in Nat
  BY BytesOf
<1>2. PICK b : b = Bytes(c, n, Len(s))
  OBVIOUS
<1>3. b \in Seq(Byte) /\ Len(b) = Len(s) /\ \A i \in 1..Len(s) : b[i] = <<c, n, i>>
  BY <1>1, <1>2, BytesFacts
<1>4. s = b
  BY <1>3, SeqEqual
<1> QED BY <1>2, <1>4

(* What begins with a piece of a frame.                                     *)
LEMMA BeginsFacts ==
  ASSUME NEW s \in Seq(Byte), NEW z \in 1..Len(s)
  PROVE  /\ Begins(s, z) => s[z] = <<s[1][1], s[1][2], z>>
         /\ (\A i \in 1..z : s[i] = <<s[1][1], s[1][2], i>>) => Begins(s, z)
<1>1. Len(s) \in Nat /\ z \in Nat /\ z >= 1 /\ z =< Len(s) /\ 1 \in 1..Len(s)
  BY BytesOf
<1>2. PICK c : c = s[1][1]
  OBVIOUS
<1>3. PICK n : n = s[1][2]
  OBVIOUS
<1>4. c \in 1..MaxConnections /\ n \in 1..MaxFrames
  <2>1. s[1] \in Byte
    BY <1>1, BytesOf
  <2>2. s[1][1] \in 1..MaxConnections /\ s[1][2] \in 1..MaxFrames
    BY <2>1, ByteFacts
  <2> QED BY <1>2, <1>3, <2>2
<1>5. PICK v : v = SubSeq(s, 1, z)
  OBVIOUS
<1>6. v \in Seq(Byte) /\ Len(v) = z /\ \A i \in 1..z : v[i] = s[i]
  <2>1. \A i \in 1..z : s[i] \in Byte
    BY <1>1, BytesOf
  <2>2. /\ v \in Seq(Byte) /\ Len(v) = IF 1 <= z THEN z - 1 + 1 ELSE 0
        /\ \A i \in 1..z - 1 + 1 : v[i] = s[1 + i - 1]
    BY <1>1, <1>5, <2>1, SubSeqProperties
  <2> QED BY <1>1, <2>2
<1>7. ASSUME Begins(s, z) PROVE s[z] = <<c, n, z>>
  <2>1. v = Bytes(c, n, z)
    BY <1>2, <1>3, <1>5, <1>7 DEF Begins
  <2>2. z \in 1..z
    BY <1>1
  <2>3. Bytes(c, n, z)[z] = <<c, n, z>>
    BY <1>1, <1>4, <2>2, BytesFacts
  <2>4. v[z] = <<c, n, z>>
    BY Zenon, <2>1, <2>3
  <2> QED BY <1>6, <2>2, <2>4
<1>8. ASSUME \A i \in 1..z : s[i] = <<c, n, i>> PROVE Begins(s, z)
  <2>1. \A i \in 1..Len(v) : v[i] = <<c, n, i>>
    BY <1>6, <1>8
  <2>2. v = Bytes(c, n, Len(v))
    BY <1>4, <1>6, <2>1, SameBytes
  <2>3. v = Bytes(c, n, z)
    BY Zenon, <1>6, <2>2
  <2> QED BY Zenon, <1>2, <1>3, <1>5, <2>3 DEF Begins
<1> QED BY <1>2, <1>3, <1>7, <1>8

(* The parser takes the first frame, or waits for more of it.               *)
LEMMA ParseFacts ==
  ASSUME FramingInv, ~lossy, pc = "loop", Data # <<>>
  PROVE  /\ Parse(Data) # "bad"
         /\ Parse(Data) = "incomplete" => Len(Data) < TheFrame.size
<1>1. /\ Number \in 1..Len(sent) /\ TheFrame.kind \in {"order", "logout"}
      /\ \A i \in 1..TheFrame.size : Ahead[i] = <<conn, Number, i>>
      /\ Data[1] = <<conn, Number, 1>>
  BY NoTrouble
<1>2. /\ Data \in Seq(Byte) /\ wire \in Seq(Byte) /\ sent \in Seq(Frame)
      /\ Ahead = Data \o wire /\ Len(sent) \in Nat /\ Len(sent) =< MaxFrames
  BY AheadTyped DEF FramingInv, Ahead, Holds
<1>3. /\ TheFrame.size \in Nat /\ TheFrame.size >= MinSize /\ TheFrame.size >= 1
  BY <1>1, <1>2, FrameFacts DEF TheFrame
<1>4. Len(Data) \in Nat /\ MinSize \in Nat /\ MinSize >= 1
  BY <1>2, BytesOf, SizesAssumption
<1>5. sent[Data[1][2]] = TheFrame /\ TheFrame.kind # "broken" /\ TheFrame.kind # "long"
  BY <1>1 DEF TheFrame, Number
<1>6. ASSUME NEW z \in 1..Len(Data), z =< TheFrame.size PROVE Begins(Data, z)
  <2>1. Data[1][1] = conn /\ Data[1][2] = Number
    BY <1>1
  <2>2. ASSUME NEW i \in 1..z PROVE Data[i] = <<conn, Number, i>>
    <3>1. i \in 1..TheFrame.size /\ i \in 1..Len(Data)
      BY <1>3, <1>4, <1>6
    <3>2. Ahead[i] = Data[i]
      BY <1>2, <3>1, Joined
    <3> QED BY <1>1, <3>1, <3>2
  <2>3. \A i \in 1..z : Data[i] = <<Data[1][1], Data[1][2], i>>
    BY Zenon, <2>1, <2>2
  <2> QED BY <1>2, <2>3, BeginsFacts
<1>7. Len(Data) >= MinSize => Begins(Data, MinSize)
  BY <1>3, <1>4, <1>6
<1>8. PICK z : z = TheFrame.size
  OBVIOUS
<1>9. CASE Len(Data) < z
  <2>1. Parse(Data) = "incomplete"
    <3>1. CASE Len(Data) < MinSize
      <4>1. ~(Len(Data) >= MinSize)
        BY <1>4, <3>1
      <4> QED BY <3>1, <4>1 DEF Parse
    <3>2. CASE ~(Len(Data) < MinSize)
      <4>1. PICK f : f = sent[Data[1][2]]
        OBVIOUS
      <4>2. ~(Len(Data) >= MinSize /\ ~Begins(Data, MinSize))
        BY <1>7
      <4>3. f.kind # "broken" /\ f.kind # "long" /\ Len(Data) < f.size
        BY <1>5, <1>8, <1>9, <4>1
      <4> QED BY Zenon, <3>2, <4>1, <4>2, <4>3 DEF Parse
    <3> QED BY <3>1, <3>2
  <2> QED BY <1>8, <1>9, <2>1
<1>10. CASE ~(Len(Data) < z)
  <2>1. z \in 1..Len(Data) /\ Len(Data) >= z /\ ~(Len(Data) < MinSize) /\ Len(Data) >= MinSize
    BY <1>3, <1>4, <1>8, <1>10
  <2>2. Begins(Data, z) /\ Begins(Data, MinSize)
    BY <1>3, <1>6, <1>7, <1>8, <2>1
  <2>3. Whole(Data)
    BY <1>5, <1>8, <2>1, <2>2 DEF Whole
  <2>4. Parse(Data) = "whole"
    BY <1>5, <1>8, <1>10, <2>1, <2>2, <2>3 DEF Parse
  <2> QED BY <2>4
<1> QED BY <1>9, <1>10

(* A frame that is whole, and what is ahead of it.                          *)
LEMMA WholeFacts ==
  ASSUME FramingInv, Sees("whole")
  PROVE  /\ Number \in 1..Len(sent) /\ Number \in 1..MaxFrames
         /\ TheFrame.size \in 1..Len(Data) /\ TheFrame.size \in 1..Len(Ahead)
         /\ \A k \in 1..Len(Ahead) : Number =< Ahead[k][2]
         /\ \A k \in TheFrame.size + 1..Len(Ahead) : Number < Ahead[k][2]
         /\ Ahead[TheFrame.size][2] = Number /\ Ahead[TheFrame.size][3] = TheFrame.size
<1>1. /\ Data \in Seq(Byte) /\ wire \in Seq(Byte) /\ sent \in Seq(Frame) /\ Ahead \in Seq(Byte)
      /\ Ahead = Data \o wire /\ Len(sent) \in Nat /\ Len(sent) =< MaxFrames
  BY AheadTyped DEF FramingInv, Ahead, Holds, Sees
<1>2. /\ Len(Data) \in Nat /\ 1 \in 1..Len(Data) /\ Len(wire) \in Nat
      /\ Len(Ahead) = Len(Data) + Len(wire) /\ 1 \in 1..Len(Ahead)
      /\ \A k \in 1..Len(Data) : Ahead[k] = Data[k]
  <2>1. Len(Data) \in Nat /\ Data # <<>> /\ Len(wire) \in Nat
    BY <1>1, BytesOf DEF Sees
  <2>2. Len(Data) >= 1
    BY <1>1, <2>1, EmptySeq
  <2> QED BY <1>1, <2>1, <2>2, Joined
<1>3. Drawn(Ahead, sent)
  BY DEF FramingInv
<1>4. Number = Ahead[1][2] /\ Number \in 1..Len(sent)
  BY <1>2, <1>3 DEF Drawn, Of, Number
<1>5. TheFrame.size \in Nat /\ TheFrame.size >= 1
  BY <1>1, <1>4, FrameFacts DEF TheFrame
<1>6. Whole(Data)
  <2>1. Parse(Data) = "whole"
    BY DEF Sees
  <2> QED BY <2>1 DEF Parse
<1>7. Number \in 1..MaxFrames
  <2>1. Len(sent) \in Nat /\ Len(sent) =< MaxFrames /\ MaxFrames \in Nat
    BY <1>1, BoundsAssumption
  <2>2. Number \in 1..Len(sent)
    BY <1>4
  <2> QED BY <2>1, <2>2
<1>8. PICK z : z = TheFrame.size
  OBVIOUS
<1>9. Len(Data) >= z /\ Begins(Data, z)
  BY <1>6, <1>8 DEF Whole, TheFrame, Number
<1>10. z \in 1..Len(Data) /\ z \in 1..Len(Ahead)
  BY <1>2, <1>5, <1>8, <1>9
<1>11. Ahead[z][2] = Number /\ Ahead[z][3] = z
  <2>1. Data[z] = <<Data[1][1], Data[1][2], z>>
    BY <1>1, <1>9, <1>10, BeginsFacts
  <2>2. Data[z][2] = Number /\ Data[z][3] = z
    BY <2>1 DEF Number
  <2> QED BY <1>2, <1>10, <2>2
<1>12. ASSUME NEW k \in 1..Len(Ahead) PROVE Number =< Ahead[k][2]
  <2>1. Ahead[k][2] \in Nat /\ Ahead[1][2] \in Nat
    BY <1>1, <1>2, BytesOf
  <2>2. k = 1 \/ Ahead[1][2] < Ahead[k][2] \/ Ahead[1][2] = Ahead[k][2]
    BY <1>2, <1>3 DEF Drawn
  <2> QED BY <1>4, <2>1, <2>2
<1>13. ASSUME NEW k \in z + 1..Len(Ahead) PROVE Number < Ahead[k][2]
  <2>1. k \in 1..Len(Ahead) /\ z < k /\ z \in Nat
    BY <1>5, <1>8
  <2>2. \/ Ahead[z][2] < Ahead[k][2]
        \/ Ahead[z][2] = Ahead[k][2] /\ Ahead[z][3] < Ahead[k][3]
    BY <1>3, <1>10, <2>1 DEF Drawn
  <2>3. Ahead[z][2] = Number /\ Ahead[z][3] = z
    BY <1>11
  <2>4. CASE Ahead[k][2] = Number
    <3>1. Ahead[k][3] \in 1..z
      BY <1>3, <1>8, <2>1, <2>4 DEF Drawn, Of, TheFrame
    <3> QED BY <2>1, <2>2, <2>3, <2>4, <3>1
  <2> QED BY <2>2, <2>3, <2>4
<1> QED BY <1>4, <1>7, <1>8, <1>10, <1>11, <1>12, <1>13

-----------------------------------------------------------------------------
(* Steps in which a frame is handed over.                                   *)

(* The frames before it have smaller numbers, unless it comes again.        *)
LEMMA HandedOver ==
  ASSUME FramingInv, Sees("whole"), handed' = Append(handed, Number), UNCHANGED sent
  PROVE  /\ Handed' /\ Len(handed') = Len(handed) + 1 /\ handed'[Len(handed) + 1] = Number
         /\ \A i \in 1..Len(handed) :
              /\ handed'[i] = handed[i]
              /\ handed[i] < Number \/ (handed[i] = Number /\ Stays(Number, sent, counted))
<1>1. /\ handed \in Seq(1..MaxFrames) /\ Len(handed) \in Nat
      /\ \A i \in 1..Len(handed) : handed[i] \in Nat
  BY AheadTyped DEF FramingInv
<1>2. Number \in 1..Len(sent) /\ Number \in 1..MaxFrames /\ 1 \in 1..Len(Ahead)
  <2>1. /\ Number \in 1..Len(sent) /\ Number \in 1..MaxFrames
        /\ TheFrame.size \in 1..Len(Ahead)
    BY WholeFacts
  <2>2. Ahead \in Seq(Byte)
    BY AheadTyped DEF FramingInv
  <2>3. Len(Ahead) \in Nat
    BY <2>2, BytesOf
  <2> QED BY <2>1, <2>3
<1>3. Ahead[1][2] = Number
  <2>1. /\ Data \in Seq(Byte) /\ Data # <<>> /\ wire \in Seq(Byte) /\ Ahead = Data \o wire
    BY AheadTyped DEF FramingInv, Ahead, Holds, Sees
  <2>2. 1 \in 1..Len(Data)
    BY <2>1, BytesOf, EmptySeq
  <2>3. Ahead[1] = Data[1]
    BY <2>1, <2>2, Joined
  <2> QED BY <2>3 DEF Number
<1>4. ASSUME NEW i \in 1..Len(handed)
      PROVE  handed[i] < Number \/ (handed[i] = Number /\ Stays(Number, sent, counted))
  BY <1>2, <1>3 DEF FramingInv, Behind
<1>5. /\ Len(handed') = Len(handed) + 1 /\ handed'[Len(handed) + 1] = Number
      /\ \A i \in 1..Len(handed) : handed'[i] = handed[i]
  BY <1>1, <1>2, AppendProperties
<1>6. ASSUME NEW i \in 1..Len(handed') PROVE i \in 1..Len(handed) \/ i = Len(handed) + 1
  BY <1>1, <1>5
<1>7. \A i \in 1..Len(handed') : handed'[i] \in 1..Len(sent')
  BY <1>2, <1>5, <1>6 DEF FramingInv, Handed
<1>8. ASSUME NEW i \in 1..Len(handed'), NEW j \in 1..Len(handed'), i < j
      PROVE  handed'[i] =< handed'[j]
  <2>1. i \in 1..Len(handed)
    BY <1>1, <1>5, <1>8
  <2>2. CASE j \in 1..Len(handed)
    BY <1>5, <1>8, <2>1, <2>2 DEF FramingInv, Handed
  <2>3. CASE j = Len(handed) + 1
    <3>1. handed[i] \in Nat /\ Number \in Nat
      BY <1>1, <1>2, <2>1
    <3>2. handed[i] < Number \/ handed[i] = Number
      BY <1>4, <2>1
    <3> QED BY <1>5, <2>1, <2>3, <3>1, <3>2
  <2> QED BY <1>6, <2>2, <2>3
<1> QED BY <1>4, <1>5, <1>7, <1>8 DEF Handed

(* It is consumed, and perhaps more is dropped with it.                     *)
LEMMA Consumed ==
  ASSUME FramingInv, TypeOK', Loop', PendingExact', Sees("whole"),
         UNCHANGED <<lossy, conn, since, sent>>, handed' = Append(handed, Number),
         counted' \subseteq counted \cup {Number},
         NEW d \in Nat, Suffix(Ahead', Ahead, d), TheFrame.size =< d,
         Live' => d = TheFrame.size
  PROVE  FramingInv'
<1>1. PICK n : n = Number
  OBVIOUS
<1>2. PICK z : z = TheFrame.size
  OBVIOUS
<1>3. /\ Ahead \in Seq(Byte) /\ Ahead' \in Seq(Byte) /\ sent \in Seq(Frame)
      /\ Len(sent) \in Nat /\ Len(handed) \in Nat
  BY AheadTyped, AheadTypedNext DEF FramingInv
<1>4. /\ n \in 1..Len(sent) /\ z \in 1..Len(Ahead)
      /\ \A k \in z + 1..Len(Ahead) : n < Ahead[k][2]
      /\ Ahead[z][2] = n /\ Ahead[z][3] = z
  BY <1>1, <1>2, WholeFacts
<1>5. /\ Len(Ahead) \in Nat /\ Len(Ahead') \in Nat /\ d \in 0..Len(Ahead)
      /\ Len(Ahead') = Len(Ahead) - d
      /\ \A k \in 1..Len(Ahead') : Ahead'[k] = Ahead[k + d]
  BY <1>3, BytesOf DEF Suffix
<1>6. /\ Handed' /\ Len(handed') = Len(handed) + 1 /\ handed'[Len(handed) + 1] = n
      /\ \A i \in 1..Len(handed) :
           handed'[i] = handed[i] /\ (handed[i] < n \/ handed[i] = n)
  BY <1>1, HandedOver
<1>7. \A i \in 1..Len(handed') : i \in 1..Len(handed) \/ i = Len(handed) + 1
  BY <1>3, <1>6
<1>8. Drawn(Ahead', sent) /\ From(Ahead', since)
  BY <1>3, WithinSuffix, DrawnWithin, FromWithin DEF FramingInv
<1>9. Behind(Ahead', handed', sent, counted')
  <2> SUFFICES ASSUME NEW k \in 1..Len(Ahead'), NEW i \in 1..Len(handed')
               PROVE  handed'[i] < Ahead'[k][2]
    BY DEF Behind
  <2>1. k + d \in z + 1..Len(Ahead) /\ Ahead'[k] = Ahead[k + d] /\ k + d \in 1..Len(Ahead)
    BY <1>2, <1>4, <1>5
  <2>2. n < Ahead'[k][2]
    BY <1>4, <2>1
  <2>3. Ahead[k + d][2] \in Nat
    BY <1>3, <2>1, BytesOf
  <2>4. Ahead'[k][2] \in Nat /\ n \in Nat
    BY <1>4, <2>1, <2>3
  <2>5. CASE i = Len(handed) + 1
    BY <1>6, <2>2, <2>5
  <2>6. CASE i \in 1..Len(handed)
    <3>1. handed[i] \in Nat
      BY <2>6, AheadTyped DEF FramingInv
    <3> QED BY <1>6, <2>2, <2>4, <2>6, <3>1
  <2> QED BY <1>7, <2>5, <2>6
<1>10. ASSUME ~lossy PROVE Lossless'
  <2>1. Lossless /\ Entire(Ahead, conn, sent) /\ Drawn(Ahead, sent)
    BY <1>10 DEF FramingInv, Lossless
  <2>2. n = Len(handed) + 1
    BY <1>1, <1>10, NoTrouble DEF Sees
  <2>3. \A i \in 1..Len(handed') : handed'[i] = i
    BY <1>6, <1>7, <2>1, <2>2 DEF Lossless
  <2>4. \A j \in counted' : j =< Len(handed')
    <3> SUFFICES ASSUME NEW j \in counted' PROVE j =< Len(handed')
      OBVIOUS
    <3>1. CASE j = n
      BY <1>3, <1>6, <2>2, <3>1
    <3>2. CASE j \in counted
      <4>1. j =< Len(handed) /\ j \in 1..MaxFrames
        BY <2>1, <3>2 DEF Lossless, FramingInv, TypeOK
      <4>2. j \in Int
        BY <4>1
      <4> QED BY <1>3, <1>6, <4>1, <4>2
    <3> QED BY <1>1, <3>1, <3>2
  <2>5. Entire(Ahead', conn, sent)
    BY <1>3, <2>1, EntireSuffix
  <2>6. ASSUME Live' PROVE Starts(Ahead', handed', conn, sent)
    <3>1. d = z
      BY <1>2, <2>6
    <3>2. Ahead[z][2] = n /\ Ahead[z][3] = z /\ sent[n].size = z
      BY <1>1, <1>2, <1>4 DEF TheFrame
    <3>3. IF z = Len(Ahead) THEN n = Len(sent) ELSE Ahead[z + 1] = <<conn, n + 1, 1>>
      BY <1>4, <2>1, <3>2 DEF Entire
    <3>4. CASE Ahead' = <<>>
      <4>1. Len(Ahead) = z
        BY <1>5, <3>1, <3>4
      <4> QED BY <1>6, <2>2, <3>3, <3>4, <4>1 DEF Starts
    <3>5. CASE Ahead' # <<>>
      <4>1. 1 \in 1..Len(Ahead')
        BY <1>3, <1>5, <3>5, EmptySeq
      <4>2. Ahead'[1] = Ahead[z + 1] /\ z # Len(Ahead)
        <5>1. 1 + d = z + 1 /\ Len(Ahead) - d >= 1
          BY <1>4, <1>5, <3>1, <4>1
        <5> QED BY <1>5, <3>1, <4>1, <5>1
      <4>3. Ahead'[1] = <<conn, Len(handed') + 1, 1>>
        BY <1>6, <2>2, <3>3, <4>2
      <4> QED BY <3>5, <4>3 DEF Starts
    <3> QED BY <3>4, <3>5
  <2> QED BY <2>1, <2>3, <2>4, <2>5, <2>6 DEF Lossless
<1> QED BY <1>6, <1>8, <1>9, <1>10 DEF FramingInv

(* It stays where it is, and the loop will come to it again.                *)
LEMMA Unconsumed ==
  ASSUME FramingInv, TypeOK', Loop', PendingExact', Sees("whole"),
         lossy, UNCHANGED <<lossy, conn, since, sent>>, handed' = Append(handed, Number),
         counted \subseteq counted', Stays(Number, sent, counted'), Within(Ahead', Ahead)
  PROVE  FramingInv'
<1>1. /\ Handed' /\ Len(handed') = Len(handed) + 1 /\ handed'[Len(handed) + 1] = Number
      /\ \A i \in 1..Len(handed) : handed'[i] = handed[i]
  BY HandedOver
<1>2. Len(handed) \in Nat /\ Ahead \in Seq(Byte)
  BY AheadTyped DEF FramingInv
<1>3. \A i \in 1..Len(handed') : i \in 1..Len(handed) \/ i = Len(handed) + 1
  BY <1>1, <1>2
<1>4. Drawn(Ahead', sent) /\ From(Ahead', since)
  BY DrawnWithin, FromWithin DEF FramingInv
<1>5. Behind(Ahead, handed', sent, counted')
  <2> SUFFICES ASSUME NEW k \in 1..Len(Ahead), NEW i \in 1..Len(handed')
               PROVE  \/ handed'[i] < Ahead[k][2]
                      \/ handed'[i] = Ahead[k][2] /\ Stays(handed'[i], sent, counted')
    BY DEF Behind
  <2>1. CASE i \in 1..Len(handed)
    <3>1. Stays(handed[i], sent, counted) => Stays(handed[i], sent, counted')
      BY Zenon DEF Stays
    <3> QED BY <1>1, <2>1, <3>1 DEF FramingInv, Behind
  <2>2. CASE i = Len(handed) + 1
    <3>1. Number =< Ahead[k][2] /\ Number \in 1..MaxFrames
      BY WholeFacts
    <3>2. Ahead[k][2] \in Nat
      BY <1>2, BytesOf
    <3>3. Number < Ahead[k][2] \/ Number = Ahead[k][2]
      BY <3>1, <3>2
    <3> QED BY <1>1, <2>2, <3>3
  <2> QED BY <1>3, <2>1, <2>2
<1>6. Behind(Ahead', handed', sent, counted')
  BY <1>5, BehindWithin
<1> QED BY <1>1, <1>4, <1>6 DEF FramingInv

-----------------------------------------------------------------------------
(* One more frame is sent.                                                  *)

LEMMA OneMoreFrame ==
  ASSUME NEW s \in Seq(Byte), NEW c \in 1..MaxConnections, NEW t \in Seq(Frame), NEW f \in Frame,
         NEW n \in 1..MaxFrames, n = Len(t) + 1, NEW z, z = f.size
  PROVE  /\ Drawn(s, t) => Drawn(s \o Bytes(c, n, z), Append(t, f))
         /\ Drawn(s, t) /\ Entire(s, c, t) =>
              Entire(s \o Bytes(c, n, z), c, Append(t, f))
         /\ \A h : Starts(s, h, c, t) => Starts(s \o Bytes(c, n, z), h, c, Append(t, f))
<1> SUFFICES ASSUME NEW u, u = Append(t, f), NEW v, v = s \o Bytes(c, n, z)
             PROVE  /\ Drawn(s, t) => Drawn(v, u)
                    /\ Drawn(s, t) /\ Entire(s, c, t) => Entire(v, c, u)
                    /\ \A h : Starts(s, h, c, t) => Starts(v, h, c, u)
  BY Zenon
<1>1. PICK b : b = Bytes(c, n, z)
  OBVIOUS
<1>2. z = f.size
  OBVIOUS
<1>3. n = Len(t) + 1
  OBVIOUS
<1>4. /\ u \in Seq(Frame) /\ Len(u) = n /\ u[n] = f /\ Len(t) \in Nat /\ n \in Nat
      /\ \A k \in 1..Len(t) : u[k] = t[k]
  BY <1>3, AppendProperties, LenProperties
<1>5. z \in Nat /\ z >= 1
  <2>1. n \in 1..Len(u)
    BY <1>4, <1>3
  <2> QED BY <1>2, <1>4, <2>1, FrameFacts
<1>6. b \in Seq(Byte) /\ Len(b) = z /\ \A i \in 1..z : b[i] = <<c, n, i>>
  BY <1>1, <1>2, <1>3, <1>5, BytesFacts
<1>7. Len(s) \in Nat
  BY BytesOf
<1>8. /\ Len(v) = Len(s) + z
      /\ \A k \in 1..Len(s) : v[k] = s[k]
      /\ \A i \in 1..z : v[Len(s) + i] = <<c, n, i>>
      /\ \A k \in 1..Len(v) : k \in 1..Len(s) \/ k - Len(s) \in 1..z
  BY SMTT(30), <1>1, <1>6, Joined
<1>9. ASSUME NEW k \in 1..Len(v), k \notin 1..Len(s)
      PROVE  /\ k - Len(s) \in 1..z /\ v[k] = <<c, n, k - Len(s)>>
             /\ v[k][1] = c /\ v[k][2] = n /\ v[k][3] = k - Len(s)
  <2>1. k - Len(s) \in 1..z /\ Len(s) + (k - Len(s)) = k
    BY <1>7, <1>8, <1>9
  <2>2. v[k] = <<c, n, k - Len(s)>>
    BY <1>8, <2>1
  <2> QED BY <2>1, <2>2
<1>10. ASSUME Drawn(s, t) PROVE Drawn(v, u)
  <2>1. \A k \in 1..Len(s) : Of(s[k], u)
    BY <1>3, <1>4, <1>10 DEF Drawn, Of
  <2>2. ASSUME NEW k \in 1..Len(v) PROVE Of(v[k], u)
    <3>1. CASE k \in 1..Len(s)
      BY <1>8, <2>1, <3>1
    <3>2. CASE k \notin 1..Len(s)
      <4>1. v[k][1] = c /\ v[k][2] = n /\ v[k][3] \in 1..z
        BY <1>9, <3>2
      <4> QED BY SMTT(30), <1>2, <1>3, <1>4, <4>1 DEF Of
    <3> QED BY <3>1, <3>2
  <2>3. ASSUME NEW j \in 1..Len(v), NEW k \in 1..Len(v), j < k
        PROVE  v[j][2] < v[k][2] \/ (v[j][2] = v[k][2] /\ v[j][3] < v[k][3])
    <3>1. CASE k \in 1..Len(s)
      <4>1. j \in 1..Len(s)
        BY <1>7, <2>3, <3>1
      <4>2. v[j] = s[j] /\ v[k] = s[k]
        BY <1>8, <3>1, <4>1
      <4> QED BY <1>10, <2>3, <3>1, <4>1, <4>2 DEF Drawn
    <3>2. CASE k \notin 1..Len(s) /\ j \in 1..Len(s)
      <4>1. v[k][2] = n /\ v[j] = s[j] /\ s[j][2] \in 1..Len(t)
        BY <1>8, <1>9, <1>10, <3>2 DEF Drawn, Of
      <4>2. v[j][2] \in 1..Len(t)
        BY Zenon, <4>1
      <4>3. v[j][2] < n
        BY Zenon, <1>3, <1>4, <4>2, BelowNext
      <4> QED BY Zenon, <4>1, <4>3
    <3>3. CASE k \notin 1..Len(s) /\ j \notin 1..Len(s)
      <4>1. /\ v[k][2] = n /\ v[j][2] = n /\ v[k][3] = k - Len(s) /\ v[j][3] = j - Len(s)
        BY <1>9, <3>3
      <4> QED BY <1>7, <2>3, <4>1
    <3> QED BY <3>1, <3>2, <3>3
  <2> QED BY <2>2, <2>3 DEF Drawn
<1>11. ASSUME Drawn(s, t), Entire(s, c, t) PROVE Entire(v, c, u)
  <2>1. ASSUME NEW k \in 1..Len(v), NEW i \in v[k][3]..u[v[k][2]].size
        PROVE  k + i - v[k][3] \in 1..Len(v) /\ v[k + i - v[k][3]] = <<c, v[k][2], i>>
    <3>1. CASE k \in 1..Len(s)
      <4>1. v[k] = s[k] /\ s[k][2] \in 1..Len(t) /\ u[v[k][2]] = t[s[k][2]]
        BY <1>4, <1>8, <1>11, <3>1 DEF Drawn, Of
      <4>2. k + i - s[k][3] \in 1..Len(s) /\ s[k + i - s[k][3]] = <<c, s[k][2], i>>
        BY <1>11, <3>1, <4>1 DEF Entire
      <4>3. PICK x : x = k + i - s[k][3]
        OBVIOUS
      <4>4. x \in 1..Len(v) /\ v[x] = s[x]
        BY <1>5, <1>7, <1>8, <4>2, <4>3
      <4> QED BY <4>1, <4>2, <4>3, <4>4
    <3>2. CASE k \notin 1..Len(s)
      <4>1. v[k][2] = n /\ v[k][3] = k - Len(s) /\ k - Len(s) \in 1..z
        BY <1>9, <3>2
      <4>2. i \in k - Len(s)..z
        BY <1>2, <1>4, <4>1
      <4>3. i \in 1..z /\ k + i - (k - Len(s)) = Len(s) + i
        BY <1>5, <1>7, <4>1, <4>2
      <4>4. Len(s) + i \in 1..Len(v) /\ v[Len(s) + i] = <<c, n, i>>
        <5>1. Len(v) = Len(s) + z /\ \A l \in 1..z : v[Len(s) + l] = <<c, n, l>>
          BY <1>8
        <5>2. Len(s) + i \in 1..Len(s) + z
          BY <1>5, <1>7, <4>3
        <5>3. v[Len(s) + i] = <<c, n, i>>
          BY <4>3, <5>1
        <5> QED BY <5>1, <5>2, <5>3
      <4> QED BY <4>1, <4>3, <4>4
    <3> QED BY <3>1, <3>2
  <2>2. ASSUME NEW k \in 1..Len(v), v[k][3] = u[v[k][2]].size
        PROVE  IF k = Len(v) THEN v[k][2] = Len(u) ELSE v[k + 1] = <<c, v[k][2] + 1, 1>>
    <3>1. CASE k \in 1..Len(s)
      <4>1. v[k] = s[k] /\ s[k][2] \in 1..Len(t) /\ u[v[k][2]] = t[s[k][2]] /\ k # Len(v)
        BY <1>4, <1>5, <1>7, <1>8, <1>11, <3>1 DEF Drawn, Of
      <4>2. IF k = Len(s) THEN s[k][2] = Len(t) ELSE s[k + 1] = <<c, s[k][2] + 1, 1>>
        BY <1>11, <2>2, <3>1, <4>1 DEF Entire
      <4>3. CASE k = Len(s)
        <5>1. v[k + 1] = <<c, n, 1>>
          BY SMTT(30), <1>5, <1>8, <4>3
        <5> QED BY <1>3, <4>1, <4>2, <4>3, <5>1
      <4>4. CASE k # Len(s)
        <5>1. k + 1 \in 1..Len(s)
          BY <1>7, <3>1, <4>4
        <5> QED BY <1>8, <4>1, <4>2, <4>4, <5>1
      <4> QED BY <4>3, <4>4
    <3>2. CASE k \notin 1..Len(s)
      <4>1. v[k][2] = n /\ v[k][3] = k - Len(s)
        BY <1>9, <3>2
      <4>2. k = Len(v)
        <5>1. k - Len(s) = z
          BY <1>2, <1>4, <2>2, <4>1
        <5> QED BY <1>5, <1>7, <1>8, <5>1
      <4> QED BY <1>4, <4>1, <4>2
    <3> QED BY <3>1, <3>2
  <2> QED BY <2>1, <2>2 DEF Entire
<1>12. ASSUME NEW h, Starts(s, h, c, t) PROVE Starts(v, h, c, u)
  <2>1. v # <<>>
    BY <1>5, <1>7, <1>8
  <2>2. CASE s = <<>>
    <3>1. Len(s) = 0 /\ Len(h) = Len(t)
      BY <1>12, <2>2 DEF Starts
    <3>2. v[1] = <<c, n, 1>>
      BY <1>5, <1>8, <3>1
    <3> QED BY <1>3, <2>1, <3>1, <3>2 DEF Starts
  <2>3. CASE s # <<>>
    <3>1. 1 \in 1..Len(s)
      BY <1>7, <2>3, EmptySeq
    <3> QED BY <1>8, <1>12, <2>1, <2>3, <3>1 DEF Starts
  <2> QED BY <2>2, <2>3
<1> QED BY <1>10, <1>11, <1>12

LEMMA SendKeeps ==
  ASSUME FramingInv, NEW kind \in Kind, NEW size \in Sizes, Send(kind, size)
  PROVE  FramingInv'
<1>1. PICK f : f = [kind |-> kind, size |-> size]
  OBVIOUS
<1>2. PICK b : b = Bytes(conn, Len(sent) + 1, size)
  OBVIOUS
<1>3. /\ connected /\ Len(sent) < MaxFrames /\ pc = "idle"
      /\ sent' = Append(sent, f) /\ wire' = wire \o b
      /\ UNCHANGED <<lossy, resets, conn, since, connected, status, m_in, view, usingPending, pc,
                     counted, handed, late>>
  BY <1>1, <1>2 DEF Send, fixed, ghosts
<1>4. f \in Frame /\ f.size = size /\ f.kind = kind
  BY <1>1, TroublesAssumption DEF Frame, Kind
<1>5. /\ Holds \in Seq(Byte) /\ Ahead \in Seq(Byte) /\ wire \in Seq(Byte)
      /\ m_in \in Seq(Byte) /\ view \in Seq(Byte)
      /\ sent \in Seq(Frame) /\ Len(sent) \in Nat /\ Len(sent) =< MaxFrames
      /\ handed \in Seq(1..MaxFrames) /\ Len(handed) \in Nat
  BY AheadTyped DEF FramingInv
<1>6. Len(sent) + 1 \in 1..MaxFrames /\ conn \in 1..MaxConnections
  BY <1>3, <1>5, BoundsAssumption DEF FramingInv, Loop, TypeOK
<1>7. b \in Seq(Byte) /\ Len(b) = size /\ size \in Nat /\ size >= 1
      /\ \A i \in 1..size : b[i] = <<conn, Len(sent) + 1, i>>
  <2>1. size \in Nat /\ size >= MinSize
    BY SizesAssumption
  <2>2. MinSize \in Nat /\ MinSize >= 1
    BY SizesAssumption
  <2>3. size \in Nat /\ size >= 1
    BY <2>1, <2>2
  <2> QED BY <1>2, <1>6, <2>3, BytesFacts
<1>8. /\ sent' \in Seq(Frame) /\ Len(sent') = Len(sent) + 1 /\ sent'[Len(sent) + 1] = f
      /\ \A n \in 1..Len(sent) : sent'[n] = sent[n]
  BY <1>3, <1>4, <1>5, AppendProperties
<1>9. Ahead' = Ahead \o b
  <2>1. Holds' = Holds
    BY <1>3 DEF Holds, Data
  <2>2. (Holds \o wire) \o b = Holds \o (wire \o b)
    <3>1. Holds \in Seq(Byte) /\ wire \in Seq(Byte) /\ b \in Seq(Byte)
      BY <1>5, <1>7
    <3> QED BY Zenon, <3>1, BytesAssociate
  <2> QED BY <1>3, <2>1, <2>2 DEF Ahead
<1>10. TypeOK'
  <2>1. wire' \in Seq(Byte)
    BY <1>3, <1>5, <1>7, Joined
  <2>2. Len(sent') =< MaxFrames
    BY <1>6, <1>8
  <2> QED BY <1>3, <1>8, <2>1, <2>2 DEF FramingInv, TypeOK
<1>11. Loop'
  BY <1>3 DEF FramingInv, Loop
<1>12. Handed'
  <2>1. \A i \in 1..Len(handed) : handed[i] \in 1..Len(sent')
    BY <1>5, <1>8 DEF FramingInv, Handed
  <2> QED BY <1>3, <2>1 DEF FramingInv, Handed
<1>13. /\ Drawn(Ahead', sent')
       /\ Entire(Ahead, conn, sent) => Entire(Ahead', conn, sent')
       /\ \A h : Starts(Ahead, h, conn, sent) => Starts(Ahead', h, conn, sent')
  <2>1. Drawn(Ahead, sent)
    BY DEF FramingInv
  <2>2. PICK n : n = Len(sent) + 1
    OBVIOUS
  <2>3. Ahead' = Ahead \o Bytes(conn, n, size) /\ n \in 1..MaxFrames
    BY <1>2, <1>6, <1>9, <2>2
  <2>4. Ahead \in Seq(Byte)
    BY <1>5
  <2>5. sent \in Seq(Frame)
    BY <1>5
  <2>6. n \in 1..MaxFrames /\ size = f.size
    BY <1>4, <2>3
  <2>7. /\ Drawn(Ahead, sent) => Drawn(Ahead \o Bytes(conn, n, size), Append(sent, f))
        /\ Drawn(Ahead, sent) /\ Entire(Ahead, conn, sent) =>
             Entire(Ahead \o Bytes(conn, n, size), conn, Append(sent, f))
        /\ \A h : Starts(Ahead, h, conn, sent) =>
             Starts(Ahead \o Bytes(conn, n, size), h, conn, Append(sent, f))
    BY <1>4, <1>6, <2>2, <2>4, <2>5, <2>6, OneMoreFrame
  <2> QED BY Zenon, <1>3, <2>1, <2>3, <2>7
<1>14. Behind(Ahead', handed, sent', counted) /\ From(Ahead', since)
  <2>1. /\ Len(Ahead') = Len(Ahead) + size /\ Len(Ahead) \in Nat
        /\ \A k \in 1..Len(Ahead) : Ahead'[k] = Ahead[k]
    <3>1. /\ Len(Ahead \o b) = Len(Ahead) + Len(b) /\ Len(Ahead) \in Nat
          /\ \A j \in 1..Len(Ahead) : (Ahead \o b)[j] = Ahead[j]
      <4>1. Ahead \in Seq(Byte) /\ b \in Seq(Byte)
        BY <1>5, <1>7
      <4> QED BY <4>1, Joined, BytesOf
    <3> QED BY <1>7, <1>9, <3>1
  <2>2. ASSUME NEW k \in 1..Len(Ahead'), k \notin 1..Len(Ahead)
        PROVE  Ahead'[k][1] = conn /\ Ahead'[k][2] = Len(sent) + 1
    <3>1. k \in Len(Ahead) + 1..Len(Ahead) + size /\ k - Len(Ahead) \in 1..size
      BY <1>7, <2>1, <2>2
    <3>2. Ahead'[k] = b[k - Len(Ahead)]
      BY <1>5, <1>7, <1>9, <3>1, Joined
    <3>3. Ahead'[k] = <<conn, Len(sent) + 1, k - Len(Ahead)>>
      BY <1>7, <3>1, <3>2
    <3> QED BY <3>3
  <2>3. ASSUME NEW k \in 1..Len(Ahead'), NEW i \in 1..Len(handed)
        PROVE  \/ handed[i] < Ahead'[k][2]
               \/ handed[i] = Ahead'[k][2] /\ Stays(handed[i], sent', counted)
    <3>1. handed[i] \in 1..Len(sent)
      BY DEF FramingInv, Handed
    <3>2. sent'[handed[i]] = sent[handed[i]]
      BY <1>8, <3>1
    <3>3. Stays(handed[i], sent, counted) => Stays(handed[i], sent', counted)
      BY Zenon, <3>2 DEF Stays
    <3>4. CASE k \in 1..Len(Ahead)
      BY <2>1, <3>3, <3>4 DEF FramingInv, Behind
    <3>5. CASE k \notin 1..Len(Ahead)
      BY <1>5, <2>2, <3>1, <3>5
    <3> QED BY <3>4, <3>5
  <2>4. ASSUME NEW k \in 1..Len(Ahead') PROVE Ahead'[k][1] >= since
    <3>1. CASE k \in 1..Len(Ahead)
      BY <2>1, <3>1 DEF FramingInv, From
    <3>2. CASE k \notin 1..Len(Ahead)
      <4>1. conn >= since
        BY BoundsAssumption DEF FramingInv, Loop, TypeOK
      <4> QED BY <2>2, <3>2, <4>1
    <3> QED BY <3>1, <3>2
  <2> QED BY <2>3, <2>4 DEF Behind, From
<1>15. ASSUME ~lossy PROVE Lossless'
  <2>1. Lossless
    BY <1>15 DEF FramingInv
  <2>2. kind \in {"order", "logout"}
    BY <1>15 DEF Kind
  <2>3. \A n \in 1..Len(sent') : n \in 1..Len(sent) \/ n = Len(sent) + 1
    BY <1>5, <1>8
  <2>4. \A n \in 1..Len(sent') : sent'[n].kind \in {"order", "logout"}
    BY <1>4, <1>8, <2>1, <2>2, <2>3 DEF Lossless
  <2>5. Live' => Live
    BY <1>3 DEF Live
  <2> QED BY <1>3, <1>13, <2>1, <2>4, <2>5 DEF Lossless
<1>16. PendingExact'
  <2> SUFFICES ASSUME ~lossy, status = "open"
               PROVE  m_in = PartlyRead'
    BY <1>3 DEF PendingExact
  <2>1. m_in = PartlyRead
    BY <1>3 DEF FramingInv, PendingExact
  <2>2. Len(wire') = Len(wire) + size /\ Len(wire) \in Nat /\ wire' # <<>>
    <3>1. Len(wire \o b) = Len(wire) + Len(b) /\ Len(wire) \in Nat /\ Len(<<>>) = 0
      BY <1>5, <1>7, Joined, BytesOf
    <3>2. Len(wire') = Len(wire) + size
      BY <1>3, <1>7, <3>1
    <3> QED BY <1>7, <3>1, <3>2
  <2>3. CASE wire = <<>>
    <3>1. m_in = <<>> /\ Len(wire) = 0
      BY <2>1, <2>3 DEF PartlyRead
    <3>2. wire'[1] = <<conn, Len(sent) + 1, 1>>
      <4>1. wire' = b
        BY <1>3, <1>7, <2>3, ConcatEmptySeq
      <4> QED BY <1>7, <4>1
    <3>3. Head(wire')[3] - 1 = 0
      BY <2>2, <3>2
    <3> QED BY <1>3, <2>2, <3>1, <3>3, NoBytes DEF PartlyRead
  <2>4. CASE wire # <<>>
    <3>1. 1 \in 1..Len(wire)
      BY <1>5, <2>2, <2>4, EmptySeq
    <3>2. wire'[1] = wire[1]
      BY <1>3, <1>5, <1>7, <3>1, Joined
    <3>3. Head(wire') = Head(wire)
      BY <3>2
    <3> QED BY <1>3, <2>1, <2>2, <2>4, <3>3 DEF PartlyRead
  <2> QED BY <2>3, <2>4
<1> QED BY <1>3, <1>10, <1>11, <1>12, <1>13, <1>14, <1>15, <1>16 DEF FramingInv

-----------------------------------------------------------------------------
(* The connection.                                                          *)

LEMMA EmptyAhead ==
  ASSUME NEW c, NEW h, NEW t, NEW done
  PROVE  /\ Drawn(<<>>, t) /\ Entire(<<>>, c, t) /\ Behind(<<>>, h, t, done)
         /\ From(<<>>, c) /\ Starts(<<>>, <<>>, c, <<>>)
BY DEF Drawn, Entire, Behind, From, Starts

LEMMA ConnectKeeps ==
  ASSUME FramingInv, Connect
  PROVE  FramingInv'
<1>1. /\ ~connected /\ conn < MaxConnections /\ conn' = conn + 1 /\ since' = conn'
      /\ connected' = TRUE /\ status' = "open" /\ m_in' = <<>>
      /\ UNCHANGED <<lossy, resets, sent, wire, view, usingPending, pc, counted, handed, late>>
  BY DEF Connect, fixed, ghosts
<1>2. /\ sent = <<>> /\ wire = <<>> /\ handed = <<>> /\ counted = {}
      /\ status = "closed" /\ pc = "idle"
  BY <1>1 DEF FramingInv, Loop
<1>3. /\ conn \in Nat /\ conn' # 0 /\ conn' \in 0..MaxConnections /\ since' =< conn'
  BY <1>1, BoundsAssumption DEF FramingInv, TypeOK
<1>4. TypeOK'
  <2>1. <<>> \in Seq(Byte)
    BY EmptySeq
  <2> QED BY <1>1, <1>3, <2>1 DEF FramingInv, TypeOK
<1>5. Ahead' = <<>>
  <2>1. Holds' = <<>>
    BY <1>1, <1>2 DEF Holds
  <2>2. <<>> \o <<>> = <<>>
    <3>1. <<>> \in Seq(Byte)
      BY EmptySeq
    <3> QED BY <3>1, ConcatEmptySeq
  <2> QED BY <1>1, <1>2, <2>1, <2>2 DEF Ahead
<1>6. Loop'
  BY <1>1, <1>2, <1>3 DEF FramingInv, Loop
<1>7. Handed' /\ (~lossy => Lossless')
  BY <1>1, <1>2, <1>5, EmptyAhead DEF Handed, Lossless
<1>8. PendingExact'
  BY <1>1, <1>2 DEF PendingExact, PartlyRead
<1> QED BY <1>1, <1>2, <1>4, <1>5, <1>6, <1>7, <1>8, EmptyAhead DEF FramingInv

(* A new connection finds the bytes of the old one, when the session is     *)
(* open, and is read behind them.                                          *)
LEMMA ReplaceKeeps ==
  ASSUME FramingInv, Replace
  PROVE  FramingInv'
<1>1. /\ lossy /\ connected /\ pc = "idle" /\ conn < MaxConnections
      /\ conn' = conn + 1 /\ wire' = <<>> /\ status' = "open"
      /\ IF status = "open" THEN UNCHANGED <<since, m_in>> ELSE since' = conn' /\ m_in' = <<>>
      /\ UNCHANGED <<lossy, resets, connected, sent, view, usingPending, pc, counted, handed, late>>
  BY DEF Replace, fixed, ghosts
<1>2. /\ conn \in Nat /\ since \in Nat /\ since =< conn /\ conn' # 0 /\ conn' \in 0..MaxConnections
  BY <1>1, BoundsAssumption DEF FramingInv, TypeOK, Loop
<1>3. since' \in 0..MaxConnections /\ since' =< conn' /\ (since' = since \/ status # "open")
  BY <1>1, <1>2 DEF FramingInv, TypeOK
<1>4. TypeOK'
  <2>1. <<>> \in Seq(Byte)
    BY EmptySeq
  <2>2. m_in' \in Seq(Byte)
    BY <1>1, <2>1 DEF FramingInv, TypeOK
  <2>3. UNCHANGED <<lossy, resets, connected, sent, view, usingPending, pc, counted, handed, late>>
    BY <1>1
  <2>4. conn' \in 0..MaxConnections /\ since' \in 0..MaxConnections /\ status' = "open"
    BY <1>1, <1>2, <1>3
  <2>5. wire' \in Seq(Byte)
    BY <1>1, <2>1
  <2> QED BY <2>2, <2>3, <2>4, <2>5 DEF FramingInv, TypeOK
<1>5. Loop'
  <2>1. /\ view = <<>> /\ usingPending = FALSE /\ late = FALSE
    BY <1>1 DEF FramingInv, Loop, TypeOK
  <2>2. /\ pc' = "idle" /\ connected' = TRUE /\ status' = "open" /\ late' = late
        /\ view' = view /\ usingPending' = usingPending
    BY <1>1 DEF FramingInv, TypeOK
  <2>3. conn' # 0 /\ since' =< conn'
    BY <1>2, <1>3
  <2> QED BY <2>1, <2>2, <2>3 DEF Loop
<1>6. m_in \in Seq(Byte) /\ wire \in Seq(Byte) /\ m_in' \in Seq(Byte) /\ <<>> \in Seq(Byte)
  BY <1>4, EmptySeq DEF FramingInv, TypeOK
<1>7. Ahead' = m_in'
  <2>1. Holds' = m_in'
    BY <1>1 DEF Holds
  <2>2. m_in' \o <<>> = m_in'
    BY <1>6, ConcatEmptySeq
  <2> QED BY Zenon, <1>1, <2>1, <2>2 DEF Ahead
<1>8. CASE status = "open"
  <2>1. Ahead = m_in \o wire
    <3>1. Holds = m_in
      BY <1>1, <1>8 DEF Holds
    <3> QED BY Zenon, <3>1 DEF Ahead
  <2>2. Within(m_in \o <<>>, m_in \o wire)
    <3>1. Len(wire) \in Nat /\ Len(<<>>) = 0
      BY <1>6, BytesOf, EmptySeq
    <3>2. PICK d : d = Len(wire)
      OBVIOUS
    <3>3. Suffix(<<>>, wire, d)
      BY <3>1, <3>2 DEF Suffix
    <3> QED BY <1>6, <3>3, WithinAround
  <2>3. m_in \o <<>> = m_in
    BY <1>6, ConcatEmptySeq
  <2>4. m_in' = m_in
    BY <1>1, <1>8
  <2>5. Within(Ahead', Ahead)
    BY Zenon, <1>7, <2>1, <2>2, <2>3, <2>4
  <2>6. since' = since
    BY <1>1, <1>8
  <2>7. Drawn(Ahead, sent) /\ From(Ahead, since) /\ Behind(Ahead, handed, sent, counted)
    BY DEF FramingInv
  <2>8. Drawn(Ahead', sent) /\ From(Ahead', since') /\ Behind(Ahead', handed, sent, counted)
    BY <2>5, <2>6, <2>7, DrawnWithin, FromWithin, BehindWithin
  <2> QED BY <1>1, <1>4, <1>5, <2>8 DEF FramingInv, Handed, PendingExact
<1>9. CASE status # "open"
  <2>1. Ahead' = <<>>
    BY <1>1, <1>7, <1>9
  <2>2. Drawn(Ahead', sent) /\ From(Ahead', since') /\ Behind(Ahead', handed, sent, counted)
    BY <2>1, EmptyAhead
  <2> QED BY <1>1, <1>4, <1>5, <2>2 DEF FramingInv, Handed, PendingExact
<1> QED BY <1>8, <1>9

LEMMA DisconnectKeeps ==
  ASSUME FramingInv, Disconnect
  PROVE  FramingInv'
<1>1. /\ pc = "idle" /\ connected' = FALSE /\ sent' = <<>> /\ wire' = <<>>
      /\ status' = "closed" /\ m_in' = IF status = "open" THEN <<>> ELSE m_in
      /\ counted' = {} /\ handed' = <<>> /\ late' = FALSE
      /\ UNCHANGED <<lossy, resets, conn, since, view, usingPending, pc>>
  BY DEF Disconnect, fixed
<1>2. TypeOK'
  <2>1. <<>> \in Seq(Byte) /\ <<>> \in Seq(Frame) /\ <<>> \in Seq(1..MaxFrames)
    BY EmptySeq
  <2>2. Len(<<>>) = 0 /\ MaxFrames \in Nat
    BY BoundsAssumption
  <2>3. m_in' \in Seq(Byte)
    BY <1>1, <2>1 DEF FramingInv, TypeOK
  <2>4. Len(sent') =< MaxFrames
    BY <1>1, <2>2
  <2>5. late' \in BOOLEAN /\ connected' \in BOOLEAN
    BY Zenon, <1>1
  <2> QED BY <1>1, <2>1, <2>3, <2>4, <2>5 DEF FramingInv, TypeOK
<1>3. Ahead' = <<>>
  <2>1. Holds' = <<>>
    BY <1>1 DEF Holds
  <2>2. <<>> \o <<>> = <<>>
    <3>1. <<>> \in Seq(Byte)
      BY EmptySeq
    <3> QED BY <3>1, ConcatEmptySeq
  <2> QED BY <1>1, <2>1, <2>2 DEF Ahead
<1>4. Loop'
  BY <1>1 DEF FramingInv, Loop
<1>5. Handed' /\ (~lossy => Lossless')
  BY <1>1, <1>3, EmptyAhead DEF Handed, Lossless
<1>6. PendingExact'
  BY <1>1 DEF PendingExact
<1> QED BY <1>1, <1>2, <1>3, <1>4, <1>5, <1>6, EmptyAhead DEF FramingInv

-----------------------------------------------------------------------------
(* What the socket reads.                                                   *)

LEMMA CutWire ==
  ASSUME NEW w \in Seq(Byte), NEW n \in 1..Len(w)
  PROVE  /\ SubSeq(w, 1, n) \in Seq(Byte) /\ SubSeq(w, n + 1, Len(w)) \in Seq(Byte)
         /\ Suffix(SubSeq(w, n + 1, Len(w)), w, n)
         /\ SubSeq(w, 1, n) \o SubSeq(w, n + 1, Len(w)) = w
         /\ \A a \in Seq(Byte) : (a \o SubSeq(w, 1, n)) \o SubSeq(w, n + 1, Len(w)) = a \o w
<1>1. Len(w) \in Nat /\ n \in Nat /\ n >= 1 /\ n =< Len(w)
  BY LenProperties
<1>2. PICK x : x = SubSeq(w, 1, n)
  OBVIOUS
<1>3. PICK y : y = SubSeq(w, n + 1, Len(w))
  OBVIOUS
<1>4. x \in Seq(Byte)
  <2>1. \A i \in 1..n : w[i] \in Byte
    BY <1>1, ElementOfSeq
  <2> QED BY <1>1, <1>2, <2>1, SubSeqProperties
<1>5. y \in Seq(Byte) /\ Suffix(y, w, n)
  <2>1. n \in 0..Len(w)
    BY <1>1
  <2> QED BY <1>3, <2>1, SuffixFacts
<1>6. x \o y = w
  <2>1. SubSeq(w, 1, n) \o SubSeq(w, n + 1, Len(w)) = SubSeq(w, 1, Len(w))
    <3>1. 1 \in 1..Len(w) + 1 /\ n \in 1 - 1..Len(w) /\ Len(w) \in n..Len(w)
      BY <1>1
    <3> QED BY <3>1, ConcatAdjacentSubSeq
  <2>2. SubSeq(w, 1, Len(w)) = w
    BY SubSeqFull
  <2> QED BY Zenon, <1>2, <1>3, <2>1, <2>2
<1>7. ASSUME NEW a \in Seq(Byte) PROVE (a \o x) \o y = a \o w
  <2>1. (a \o x) \o y = a \o (x \o y)
    <3>1. x \in Seq(Byte) /\ y \in Seq(Byte)
      BY <1>4, <1>5
    <3> QED BY Zenon, <3>1, BytesAssociate
  <2> QED BY Zenon, <1>6, <2>1
<1> QED BY Zenon, <1>2, <1>3, <1>4, <1>5, <1>6, <1>7

LEMMA ReadKeeps ==
  ASSUME FramingInv, NEW n \in 1..Len(wire), Read(n)
  PROVE  FramingInv'
<1>1. PICK chunk : chunk = SubSeq(wire, 1, n)
  OBVIOUS
<1>2. PICK rest : rest = SubSeq(wire, n + 1, Len(wire))
  OBVIOUS
<1>3. /\ connected /\ pc = "idle" /\ wire' = rest
      /\ UNCHANGED <<lossy, resets, conn, since, connected, sent, status, counted, handed, late>>
  BY <1>2 DEF Read, fixed, peer, ghosts
<1>4. /\ m_in \in Seq(Byte) /\ wire \in Seq(Byte) /\ Ahead \in Seq(Byte) /\ view = <<>>
      /\ usingPending = FALSE
  BY <1>3, AheadTyped DEF FramingInv, Loop
<1>5. /\ chunk \in Seq(Byte) /\ rest \in Seq(Byte) /\ Suffix(rest, wire, n)
      /\ chunk \o rest = wire
      /\ \A a \in Seq(Byte) : (a \o chunk) \o rest = a \o wire
  <2>1. wire \in Seq(Byte)
    BY <1>4
  <2>2. /\ SubSeq(wire, 1, n) \in Seq(Byte) /\ SubSeq(wire, n + 1, Len(wire)) \in Seq(Byte)
        /\ Suffix(SubSeq(wire, n + 1, Len(wire)), wire, n)
        /\ SubSeq(wire, 1, n) \o SubSeq(wire, n + 1, Len(wire)) = wire
        /\ \A a \in Seq(Byte) :
             (a \o SubSeq(wire, 1, n)) \o SubSeq(wire, n + 1, Len(wire)) = a \o wire
    BY <2>1, CutWire
  <2> QED BY Zenon, <1>1, <1>2, <2>2
<1>6. CASE status = "closed"
  <2>1. UNCHANGED <<m_in, view, usingPending, pc>>
    BY <1>6 DEF Read
  <2>2. TypeOK'
    BY <1>3, <1>5, <2>1 DEF FramingInv, TypeOK
  <2>3. Loop' /\ PendingExact' /\ ~Live'
    BY <1>3, <1>6, <2>1 DEF FramingInv, Loop, PendingExact, Live
  <2>4. Ahead = wire /\ Ahead' = rest
    <3>1. Holds = <<>> /\ Holds' = <<>>
      BY <1>3, <1>6, <2>1 DEF Holds
    <3>2. <<>> \o wire = wire /\ <<>> \o rest = rest
      <4>1. wire \in Seq(Byte) /\ rest \in Seq(Byte)
        BY <1>4, <1>5
      <4> QED BY <4>1, ConcatEmptySeq
    <3> QED BY Zenon, <1>3, <3>1, <3>2 DEF Ahead
  <2>5. Suffix(Ahead', Ahead, n) /\ n \in Nat
    BY <1>5, <2>4
  <2>6. Within(Ahead', Ahead)
    <3>1. wire \in Seq(Byte) /\ rest \in Seq(Byte)
      BY <1>4, <1>5
    <3>2. Within(rest, wire)
      BY <1>5, <3>1, WithinSuffix
    <3> QED BY <2>4, <3>2
  <2>7. ~lossy => Lossless'
    BY <1>3, <2>2, <2>3, <2>5, LosslessPasses
  <2> QED BY <1>3, <2>2, <2>3, <2>6, <2>7, Passes
<1>7. CASE status # "closed" /\ pc' = "loop"
  <2>1. status = "open"
    BY <1>7 DEF FramingInv, TypeOK
  <2>2. /\ usingPending' = (m_in # <<>>)
        /\ m_in' = IF m_in = <<>> THEN m_in ELSE m_in \o chunk
        /\ view' = IF m_in = <<>> THEN chunk ELSE <<>>
    BY <1>1, <1>3, <1>7 DEF Read
  <2>3. TypeOK'
    <3>1. m_in \o chunk \in Seq(Byte)
      BY <1>4, <1>5, Joined
    <3>2. <<>> \in Seq(Byte)
      BY EmptySeq
    <3>3. m_in' \in Seq(Byte) /\ view' \in Seq(Byte) /\ wire' \in Seq(Byte)
      BY <1>3, <1>4, <1>5, <2>2, <3>1, <3>2
    <3>4. usingPending' \in BOOLEAN
      BY Zenon, <2>2
    <3> QED BY <1>3, <1>7, <3>3, <3>4 DEF FramingInv, TypeOK
  <2>4. Loop' /\ PendingExact'
    BY <1>3, <1>7, <2>1, <2>2 DEF FramingInv, Loop, PendingExact
  <2>5. Holds = m_in /\ Holds' = m_in \o chunk
    <3>1. Holds = m_in
      BY <1>3, <2>1 DEF Holds
    <3>2. CASE m_in = <<>>
      <4>1. Holds' = chunk
        BY <1>7, <2>2, <3>2 DEF Holds, Data
      <4>2. <<>> \o chunk = chunk
        BY <1>5, ConcatEmptySeq
      <4> QED BY Zenon, <3>1, <3>2, <4>1, <4>2
    <3>3. CASE m_in # <<>>
      BY <1>7, <2>2, <3>1, <3>3 DEF Holds, Data
    <3> QED BY <3>2, <3>3
  <2>6. Ahead' = Ahead
    BY Zenon, <1>3, <1>4, <1>5, <2>5 DEF Ahead
  <2>7. Within(Ahead', Ahead)
    BY <1>4, <2>6, WithinSame
  <2>8. Live
    BY <2>1 DEF Live
  <2>9. ~lossy => Lossless'
    BY <1>3, <2>3, <2>6, <2>8, LosslessPasses
  <2> QED BY <1>3, <2>3, <2>4, <2>7, <2>9, Passes
<1>8. CASE status # "closed" /\ pc' # "loop"
  <2>1. lossy /\ UNCHANGED <<m_in, view, usingPending, pc>> /\ status = "open"
    BY <1>8 DEF Read, FramingInv, TypeOK
  <2>2. TypeOK'
    BY <1>3, <1>5, <2>1 DEF FramingInv, TypeOK
  <2>3. Loop' /\ PendingExact'
    BY <1>3, <2>1 DEF FramingInv, Loop, PendingExact
  <2>4. Ahead = m_in \o wire /\ Ahead' = m_in \o rest
    <3>1. Holds = m_in /\ Holds' = m_in
      BY <1>3, <2>1 DEF Holds
    <3> QED BY Zenon, <1>3, <3>1 DEF Ahead
  <2>5. Within(m_in \o rest, m_in \o wire)
    <3>1. m_in \in Seq(Byte) /\ wire \in Seq(Byte) /\ rest \in Seq(Byte)
      BY <1>4, <1>5
    <3> QED BY <1>5, <3>1, WithinAround
  <2>6. Within(Ahead', Ahead)
    BY Zenon, <2>4, <2>5
  <2> QED BY <1>3, <2>1, <2>2, <2>3, <2>6, Passes
<1> QED BY <1>6, <1>7, <1>8

-----------------------------------------------------------------------------
(* The loop returns, and nothing is handed over.                            *)

LEMMA InLoop ==
  ASSUME FramingInv, pc = "loop"
  PROVE  /\ connected /\ Holds = Data /\ Ahead = Data \o wire
         /\ Data \in Seq(Byte) /\ wire \in Seq(Byte) /\ Ahead \in Seq(Byte)
         /\ Suffix(wire, Ahead, Len(Data)) /\ Len(Data) \in Nat
         /\ Within(wire, Ahead) /\ Within(Ahead, Ahead) /\ <<>> \o wire = wire
         /\ ~usingPending => m_in = <<>>
<1>1. Data \in Seq(Byte) /\ wire \in Seq(Byte) /\ Ahead \in Seq(Byte)
  BY AheadTyped DEF FramingInv
<1>2. connected /\ Holds = Data /\ (~usingPending => m_in = <<>>)
  BY DEF FramingInv, Loop, Holds
<1>3. Ahead = Data \o wire
  BY Zenon, <1>2 DEF Ahead
<1>4. Suffix(wire, Data \o wire, Len(Data))
  BY <1>1, WireIsSuffix
<1>5. Suffix(wire, Ahead, Len(Data))
  BY Zenon, <1>3, <1>4
<1>6. Within(wire, Ahead) /\ Within(Ahead, Ahead)
  BY <1>1, <1>5, WithinSuffix, WithinSame
<1>7. Len(Data) \in Nat /\ <<>> \o wire = wire
  BY <1>1, BytesOf, ConcatEmptySeq
<1> QED BY <1>1, <1>2, <1>3, <1>5, <1>6, <1>7

LEMMA Returns ==
  ASSUME FramingInv, pc = "loop", Return, m_in' \in Seq(Byte),
         UNCHANGED <<fixed, peer, wire, status, counted, ghosts>>
  PROVE  /\ TypeOK' /\ Loop' /\ pc' = "idle"
         /\ UNCHANGED <<lossy, conn, since, connected, sent, wire, status, handed, counted>>
         /\ Ahead' = (IF status = "open" THEN m_in' ELSE <<>>) \o wire
         /\ status = "closed" => ~Live'
<1>1. /\ pc' = "idle" /\ view' = <<>> /\ usingPending' = FALSE
      /\ UNCHANGED <<lossy, resets, conn, since, connected, sent, wire, status, handed, late, counted>>
  BY DEF Return, fixed, peer, ghosts
<1>2. connected
  BY InLoop
<1>3. TypeOK'
  <2>1. <<>> \in Seq(Byte)
    BY EmptySeq
  <2>2. usingPending' \in BOOLEAN
    BY Zenon, <1>1
  <2> QED BY <1>1, <2>1, <2>2 DEF FramingInv, TypeOK
<1>4. Loop'
  BY <1>1, <1>2 DEF FramingInv, Loop
<1>5. Holds' = IF status = "open" THEN m_in' ELSE <<>>
  BY <1>1 DEF Holds
<1>6. Ahead' = (IF status = "open" THEN m_in' ELSE <<>>) \o wire
  BY Zenon, <1>1, <1>5 DEF Ahead
<1>7. status = "closed" => ~Live'
  BY <1>1 DEF Live
<1> QED BY <1>1, <1>3, <1>4, <1>6, <1>7

LEMMA EndOfDataKeeps ==
  ASSUME FramingInv, EndOfData
  PROVE  FramingInv'
<1>1. /\ pc = "loop" /\ Data = <<>> /\ Return /\ m_in' = m_in
      /\ UNCHANGED <<fixed, peer, wire, status, counted, ghosts>>
  BY DEF EndOfData
<1>2. m_in = <<>>
  BY <1>1, InLoop DEF Data
<1>3. m_in' \in Seq(Byte)
  BY <1>1, <1>2, EmptySeq
<1>4. Ahead' = <<>> \o wire /\ Ahead = <<>> \o wire
  <2>1. Ahead' = (IF status = "open" THEN m_in' ELSE <<>>) \o wire
    BY <1>1, <1>3, Returns
  <2>2. (IF status = "open" THEN m_in' ELSE <<>>) = <<>>
    BY <1>1, <1>2
  <2>3. Ahead = Data \o wire
    BY <1>1, InLoop
  <2> QED BY Zenon, <1>1, <2>1, <2>2, <2>3
<1>5. /\ TypeOK' /\ Loop' /\ pc' = "idle"
      /\ UNCHANGED <<lossy, conn, since, connected, sent, wire, status, handed, counted>>
  BY <1>1, <1>3, Returns
<1>6. Live' => Live
  BY <1>5 DEF Live
<1>7. ~lossy => Lossless'
  BY <1>4, <1>5, <1>6, LosslessPasses
<1>8. PendingExact'
  <2> SUFFICES ASSUME ~lossy, status = "open" PROVE m_in' = PartlyRead'
    BY <1>5 DEF PendingExact
  <2>1. CASE wire = <<>>
    BY <1>1, <1>2, <1>5, <2>1 DEF PartlyRead
  <2>2. CASE wire # <<>>
    <3>1. Ahead = wire
      BY <1>1, <1>4, InLoop
    <3>2. Starts(Ahead, handed, conn, sent)
      BY DEF FramingInv, Lossless, Live
    <3>3. Head(wire)[3] - 1 = 0
      BY <2>2, <3>1, <3>2 DEF Starts
    <3>4. PartlyRead' = Bytes(conn, Head(wire)[2], 0)
      BY <1>5, <2>2, <3>3 DEF PartlyRead
    <3> QED BY <1>1, <1>2, <3>4, NoBytes
  <2> QED BY <2>1, <2>2
<1>9. Within(Ahead', Ahead)
  BY <1>1, <1>4, InLoop
<1> QED BY <1>5, <1>7, <1>8, <1>9, Passes

LEMMA IncompleteKeeps ==
  ASSUME FramingInv, Incomplete
  PROVE  FramingInv'
<1>1. /\ pc = "loop" /\ Data # <<>> /\ Parse(Data) = "incomplete" /\ Return
      /\ m_in' = Data \/ (lossy /\ ~usingPending /\ m_in' = m_in)
      /\ UNCHANGED <<fixed, peer, wire, status, counted, ghosts>>
  BY DEF Incomplete, Sees
<1>2. /\ Data \in Seq(Byte) /\ wire \in Seq(Byte) /\ Ahead = Data \o wire /\ Len(Data) \in Nat
      /\ ~usingPending => m_in = <<>>
  BY <1>1, InLoop
<1>3. m_in' \in Seq(Byte)
  BY <1>1, <1>2, EmptySeq
<1>4. /\ TypeOK' /\ Loop' /\ pc' = "idle"
      /\ UNCHANGED <<lossy, conn, since, connected, sent, wire, status, handed, counted>>
      /\ status = "closed" => ~Live'
  BY <1>1, <1>3, Returns
<1>5. \/ Ahead' = Ahead
      \/ (lossy \/ ~Live') /\ Ahead' = wire
  <2>1. Ahead' = (IF status = "open" THEN m_in' ELSE <<>>) \o wire
    BY <1>1, <1>3, Returns
  <2>2. CASE status = "open" /\ m_in' = Data
    BY Zenon, <1>2, <2>1, <2>2
  <2>3. CASE status = "open" /\ m_in' # Data
    <3>1. lossy /\ m_in' = <<>>
      BY <1>1, <1>2, <2>3
    <3>2. <<>> \o wire = wire
      BY <1>1, InLoop
    <3> QED BY Zenon, <2>1, <2>3, <3>1, <3>2
  <2>4. CASE status # "open"
    <3>1. ~Live'
      BY <1>4, <2>4 DEF FramingInv, TypeOK
    <3>2. <<>> \o wire = wire
      BY <1>1, InLoop
    <3> QED BY Zenon, <2>1, <2>4, <3>1, <3>2
  <2> QED BY <2>2, <2>3, <2>4
<1>6. Within(Ahead', Ahead)
  BY <1>1, <1>5, InLoop
<1>7. ~lossy => Lossless'
  <2>1. Live /\ Suffix(wire, Ahead, Len(Data))
    BY <1>1, InLoop DEF Live
  <2> QED BY <1>2, <1>4, <1>5, <2>1, LosslessPasses
<1>8. PendingExact'
  <2> SUFFICES ASSUME ~lossy, status = "open" PROVE m_in' = PartlyRead'
    BY <1>4 DEF PendingExact
  <2>1. m_in' = Data
    BY <1>1
  <2>2. PICK z : z = TheFrame.size
    OBVIOUS
  <2>3. /\ Number \in 1..Len(sent) /\ z =< Len(Ahead)
        /\ \A i \in 1..z : Ahead[i] = <<conn, Number, i>>
    BY <1>1, <2>2, NoTrouble
  <2>4. Len(Data) < z
    BY <1>1, <2>2, ParseFacts
  <2>5. /\ sent \in Seq(Frame) /\ Len(sent) \in Nat /\ Len(sent) =< MaxFrames
    BY AheadTyped DEF FramingInv
  <2>6. z \in Nat
    BY <2>2, <2>3, <2>5, FrameFacts DEF TheFrame
  <2>7. Number \in 1..MaxFrames /\ conn \in 1..MaxConnections
    <3>1. connected /\ conn # 0
      BY <1>1 DEF FramingInv, Loop
    <3>2. conn \in 1..MaxConnections
      BY <3>1, BoundsAssumption DEF FramingInv, TypeOK
    <3> QED BY <2>3, <2>5, <3>2, BoundsAssumption
  <2>8. /\ Len(wire) \in Nat /\ Len(Ahead) = Len(Data) + Len(wire)
        /\ \A k \in 1..Len(Data) : Ahead[k] = Data[k]
        /\ \A k \in 1..Len(wire) : Ahead[Len(Data) + k] = wire[k]
    BY <1>2, Joined, BytesOf
  <2>9. 1 \in 1..Len(wire) /\ wire # <<>>
    BY <1>2, <2>3, <2>4, <2>6, <2>8
  <2>10. wire[1] = <<conn, Number, Len(Data) + 1>>
    <3>1. Len(Data) + 1 \in 1..z
      BY <1>2, <2>4, <2>6
    <3> QED BY <2>3, <2>8, <2>9, <3>1
  <2>11. Data = Bytes(conn, Number, Len(Data))
    <3>1. \A i \in 1..Len(Data) : i \in 1..z
      BY <1>2, <2>4, <2>6
    <3>2. \A i \in 1..Len(Data) : Data[i] = <<conn, Number, i>>
      BY <2>3, <2>8, <3>1
    <3> QED BY <1>2, <2>7, <3>2, SameBytes
  <2>12. Head(wire)[2] = Number /\ Head(wire)[3] - 1 = Len(Data)
    BY <1>2, <2>9, <2>10
  <2>13. PartlyRead' = Bytes(conn, Number, Len(Data))
    BY <1>4, <2>9, <2>12 DEF PartlyRead
  <2> QED BY Zenon, <2>1, <2>11, <2>13
<1> QED BY <1>4, <1>6, <1>7, <1>8, Passes

LEMMA BadKeeps ==
  ASSUME FramingInv, Bad
  PROVE  FramingInv'
<1>1. /\ pc = "loop" /\ Data # <<>> /\ Parse(Data) = "bad" /\ Return
      /\ m_in' = (IF usingPending THEN <<>> ELSE m_in)
      /\ UNCHANGED <<fixed, peer, wire, status, counted, ghosts>>
  BY DEF Bad, Sees
<1>2. lossy
  BY <1>1, ParseFacts
<1>3. m_in' = <<>>
  BY <1>1, InLoop
<1>4. m_in' \in Seq(Byte)
  BY <1>3, EmptySeq
<1>5. /\ TypeOK' /\ Loop'
      /\ UNCHANGED <<lossy, conn, since, connected, sent, wire, status, handed, counted>>
  BY <1>1, <1>4, Returns
<1>6. Ahead' = wire
  <2>1. Ahead' = (IF status = "open" THEN m_in' ELSE <<>>) \o wire
    BY <1>1, <1>4, Returns
  <2>2. (IF status = "open" THEN m_in' ELSE <<>>) = <<>>
    BY <1>3
  <2>3. <<>> \o wire = wire
    BY <1>1, InLoop
  <2> QED BY Zenon, <2>1, <2>2, <2>3
<1>7. Within(Ahead', Ahead)
  BY <1>1, <1>6, InLoop
<1>8. PendingExact'
  BY <1>2, <1>5 DEF PendingExact
<1> QED BY <1>2, <1>5, <1>7, <1>8, Passes

LEMMA RefuseKeeps ==
  ASSUME FramingInv, Refuse
  PROVE  FramingInv'
<1>1. /\ pc = "loop" /\ Data # <<>> /\ Return /\ m_in' = m_in
      /\ TheFrame.kind = "refused" \/ TheFrame.kind = "finish"
      /\ UNCHANGED <<fixed, peer, wire, status, counted, ghosts>>
  BY DEF Refuse, Sees
<1>2. lossy
  BY <1>1, NoTrouble
<1>3. m_in' \in Seq(Byte)
  BY <1>1 DEF FramingInv, TypeOK
<1>4. /\ TypeOK' /\ Loop'
      /\ UNCHANGED <<lossy, conn, since, connected, sent, wire, status, handed, counted>>
  BY <1>1, <1>3, Returns
<1>5. Ahead' = wire \/ Ahead' = Ahead
  <2>1. Ahead' = (IF status = "open" THEN m_in' ELSE <<>>) \o wire
    BY <1>1, <1>3, Returns
  <2>2. <<>> \o wire = wire /\ Ahead = Data \o wire
    BY <1>1, InLoop
  <2>3. \/ (IF status = "open" THEN m_in' ELSE <<>>) = <<>>
        \/ (IF status = "open" THEN m_in' ELSE <<>>) = Data
    BY <1>1, InLoop DEF Data
  <2> QED BY Zenon, <2>1, <2>2, <2>3
<1>6. Within(Ahead', Ahead)
  BY <1>1, <1>5, InLoop
<1>7. PendingExact'
  BY <1>2, <1>4 DEF PendingExact
<1> QED BY <1>2, <1>4, <1>6, <1>7, Passes

-----------------------------------------------------------------------------
(* A frame is handed over.                                                  *)

LEMMA HandOverTyped ==
  ASSUME FramingInv, Sees("whole"), HandOver
  PROVE  /\ handed' \in Seq(1..MaxFrames) /\ handed' = Append(handed, Number) /\ ~late'
         /\ late' \in BOOLEAN /\ counted \cup {Number} \subseteq 1..MaxFrames
<1>1. Number \in 1..MaxFrames /\ handed \in Seq(1..MaxFrames)
  BY WholeFacts, AheadTyped DEF FramingInv
<1>2. handed' = Append(handed, Number)
  BY DEF HandOver
<1>3. handed' \in Seq(1..MaxFrames)
  BY <1>1, <1>2, AppendProperties
<1>4. late' = FALSE
  <2>1. late = FALSE
    BY Zenon DEF FramingInv, TypeOK, Loop
  <2>2. status = "closed" => ~resets /\ ~usingPending
    BY DEF FramingInv, Loop, Sees, Data
  <2>3. late' = (late \/ (status = "closed" /\ (usingPending \/ resets)))
    BY DEF HandOver
  <2> QED BY Zenon, <2>1, <2>2, <2>3
<1>5. counted \cup {Number} \subseteq 1..MaxFrames
  BY <1>1 DEF FramingInv, TypeOK
<1> QED BY Zenon, <1>2, <1>3, <1>4, <1>5

LEMMA RestFacts ==
  ASSUME FramingInv, Sees("whole")
  PROVE  /\ Rest \in Seq(Byte) /\ Rest \o wire \in Seq(Byte)
         /\ Suffix(Rest \o wire, Ahead, TheFrame.size) /\ TheFrame.size \in Nat
         /\ TheFrame.size =< Len(Data) /\ Len(Data) \in Nat
<1>1. Data \in Seq(Byte) /\ wire \in Seq(Byte) /\ Ahead = Data \o wire /\ Len(Data) \in Nat
  BY InLoop DEF Sees
<1>2. TheFrame.size \in 1..Len(Data)
  BY WholeFacts
<1>3. TheFrame.size \in Nat /\ TheFrame.size =< Len(Data) /\ TheFrame.size \in 0..Len(Data)
  BY <1>1, <1>2
<1>4. Rest \in Seq(Byte) /\ Suffix(Rest, Data, TheFrame.size)
  <2>1. Rest = SubSeq(Data, TheFrame.size + 1, Len(Data))
    BY DEF Rest
  <2>2. Data \in Seq(Byte)
    BY <1>1
  <2> QED BY <1>3, <2>1, <2>2, SuffixFacts
<1>5. Suffix(Rest \o wire, Data \o wire, TheFrame.size) /\ Rest \o wire \in Seq(Byte)
  <2>1. Data \in Seq(Byte) /\ wire \in Seq(Byte) /\ Rest \in Seq(Byte)
    BY <1>1, <1>4
  <2> QED BY <1>4, <2>1, RestIsSuffix, Joined
<1>6. Suffix(Rest \o wire, Ahead, TheFrame.size)
  BY Zenon, <1>1, <1>5
<1> QED BY <1>1, <1>3, <1>4, <1>5, <1>6

LEMMA TakeKeeps ==
  ASSUME FramingInv, Take
  PROVE  FramingInv'
<1>1. /\ Sees("whole") /\ HandOver /\ Consume
      /\ counted' = counted \cup {Number} /\ pc = "loop"
      /\ UNCHANGED <<lossy, resets, conn, since, connected, sent, wire, status, usingPending, pc>>
  BY DEF Take, Sees, fixed, peer
<1>2. /\ handed' \in Seq(1..MaxFrames) /\ handed' = Append(handed, Number) /\ ~late'
      /\ late' \in BOOLEAN /\ counted' \subseteq 1..MaxFrames
  BY Zenon, <1>1, HandOverTyped
<1>3. /\ m_in' = IF usingPending THEN Rest ELSE m_in
      /\ view' = IF usingPending THEN view ELSE Rest
  BY <1>1 DEF Consume
<1>4. TypeOK'
  <2>1. m_in' \in Seq(Byte) /\ view' \in Seq(Byte)
    BY <1>1, <1>3, RestFacts DEF FramingInv, TypeOK
  <2> QED BY <1>1, <1>2, <2>1 DEF FramingInv, TypeOK
<1>5. connected /\ (status = "closed" => ~usingPending)
  BY <1>1 DEF FramingInv, Loop, Sees, Data
<1>6. Loop'
  BY <1>1, <1>2, <1>3, <1>5 DEF FramingInv, Loop
<1>7. Ahead' = Rest \o wire
  <2>1. Holds' = Rest
    BY <1>1, <1>3 DEF Holds, Data
  <2> QED BY Zenon, <1>1, <2>1 DEF Ahead
<1>8. Suffix(Rest \o wire, Ahead, TheFrame.size) /\ TheFrame.size \in Nat
  BY <1>1, RestFacts
<1>9. PendingExact'
  BY <1>1 DEF PendingExact
<1>10. PICK d : d = TheFrame.size
  OBVIOUS
<1>11. Suffix(Ahead', Ahead, d) /\ d \in Nat /\ TheFrame.size =< d
  <2>1. Suffix(Ahead', Ahead, d)
    BY Zenon, <1>7, <1>8, <1>10
  <2> QED BY <1>8, <1>10, <2>1
<1> QED BY <1>1, <1>2, <1>4, <1>6, <1>9, <1>10, <1>11, Consumed

(* The loop returns, and the frame is still in m_in when it was there.      *)
LEMMA LeavesItThere ==
  ASSUME FramingInv, Sees("whole"), lossy, HandOver, Return,
         UNCHANGED <<fixed, peer, wire, status, m_in>>, counted' \subseteq counted \cup {Number},
         counted \subseteq counted', Stays(Number, sent, counted')
  PROVE  FramingInv'
<1>1. /\ pc = "loop" /\ Data # <<>>
      /\ UNCHANGED <<lossy, resets, conn, since, connected, sent, wire, status, m_in>>
  BY DEF Sees, fixed, peer
<1>2. /\ handed' \in Seq(1..MaxFrames) /\ handed' = Append(handed, Number) /\ ~late'
      /\ late' \in BOOLEAN /\ counted' \subseteq 1..MaxFrames
  BY Zenon, HandOverTyped
<1>3. pc' = "idle" /\ view' = <<>> /\ usingPending' = FALSE
  BY DEF Return
<1>4. TypeOK'
  <2>1. view' \in Seq(Byte)
    BY <1>3, EmptySeq
  <2>2. usingPending' \in BOOLEAN
    BY Zenon, <1>3
  <2> QED BY <1>1, <1>2, <1>3, <2>1, <2>2 DEF FramingInv, TypeOK
<1>5. connected
  BY <1>1, InLoop
<1>6. Loop'
  BY <1>1, <1>2, <1>3, <1>5 DEF FramingInv, Loop
<1>7. PendingExact'
  BY <1>1 DEF PendingExact
<1>8. Ahead' = wire \/ Ahead' = Ahead
  <2>1. Holds' = <<>> \/ Holds' = Data
    <3>1. Holds' = IF status = "open" THEN m_in ELSE <<>>
      BY <1>1, <1>3 DEF Holds
    <3> QED BY <1>1, <3>1, InLoop DEF Data
  <2>2. <<>> \o wire = wire /\ Ahead = Data \o wire
    BY <1>1, InLoop
  <2> QED BY Zenon, <1>1, <2>1, <2>2 DEF Ahead
<1>9. Within(Ahead', Ahead)
  BY <1>1, <1>8, InLoop
<1> QED BY <1>1, <1>2, <1>4, <1>6, <1>7, <1>9, Unconsumed

LEMMA DeclineKeeps ==
  ASSUME FramingInv, Decline
  PROVE  FramingInv'
<1>1. /\ Sees("whole") /\ HandOver /\ Return /\ TheFrame.kind \in {"declined", "replay"}
      /\ counted' = counted /\ UNCHANGED <<fixed, peer, wire, status, m_in>>
  BY DEF Decline
<1>2. lossy
  BY <1>1, NoTrouble DEF Sees
<1>3. Stays(Number, sent, counted')
  BY Zenon, <1>1 DEF Stays, TheFrame
<1>4. counted' \subseteq counted \cup {Number} /\ counted \subseteq counted'
  BY Zenon, <1>1
<1> QED BY <1>1, <1>2, <1>3, <1>4, LeavesItThere

LEMMA TakeFinishKeeps ==
  ASSUME FramingInv, TakeFinish
  PROVE  FramingInv'
<1>1. /\ Sees("whole") /\ HandOver /\ Return /\ TheFrame.kind \in {"finish", "replay"}
      /\ counted' = counted \cup {Number} /\ UNCHANGED <<fixed, peer, wire, status, m_in>>
  BY DEF TakeFinish
<1>2. lossy
  BY <1>1, NoTrouble DEF Sees
<1>3. counted' \subseteq counted \cup {Number} /\ counted \subseteq counted' /\ Number \in counted'
  BY Zenon, <1>1
<1>4. Stays(Number, sent, counted')
  <2>1. sent[Number].kind = "finish" \/ sent[Number].kind = "replay"
    BY <1>1 DEF TheFrame
  <2> QED BY Zenon, <1>3, <2>1 DEF Stays
<1> QED BY <1>1, <1>2, <1>3, <1>4, LeavesItThere

LEMMA TakeLogoutKeeps ==
  ASSUME FramingInv, TakeLogout
  PROVE  FramingInv'
<1>1. /\ Sees("whole") /\ HandOver /\ status' = "closed"
      /\ m_in' = <<>> /\ pc = "loop"
      /\ UNCHANGED <<lossy, resets, conn, since, connected, sent, wire>>
  BY DEF TakeLogout, Sees, fixed, peer
<1>2. /\ handed' \in Seq(1..MaxFrames) /\ handed' = Append(handed, Number) /\ ~late'
      /\ late' \in BOOLEAN /\ counted \cup {Number} \subseteq 1..MaxFrames
  BY Zenon, <1>1, HandOverTyped
<1>3. connected
  BY <1>1, InLoop
<1>4. PendingExact'
  BY <1>1 DEF PendingExact
<1>5. <<>> \in Seq(Byte)
  BY EmptySeq
<1>6. CASE pc' = "idle" \/ usingPending
  <2>1. /\ counted' \subseteq counted \cup {Number} /\ counted' \subseteq 1..MaxFrames
        /\ view' = <<>>
        /\ \/ pc' = "idle" /\ usingPending' = FALSE
           \/ pc' = "loop" /\ usingPending /\ usingPending' = usingPending /\ ~resets
    BY <1>1, <1>2, <1>6 DEF TakeLogout, Return, FramingInv, Loop
  <2>2. usingPending' \in BOOLEAN
    BY Zenon, <2>1 DEF FramingInv, TypeOK
  <2>3. TypeOK'
    BY <1>1, <1>2, <1>5, <2>1, <2>2 DEF FramingInv, TypeOK
  <2>4. Loop'
    BY <1>1, <1>2, <1>3, <2>1 DEF FramingInv, Loop
  <2>5. Holds' = <<>> /\ ~Live'
    BY <1>1, <2>1 DEF Holds, Data, Live
  <2>6. Ahead' = wire
    <3>1. <<>> \o wire = wire
      BY <1>1, InLoop
    <3> QED BY Zenon, <1>1, <2>5, <3>1 DEF Ahead
  <2>7. PICK d : d = Len(Data)
    OBVIOUS
  <2>8. Suffix(Ahead', Ahead, d) /\ d \in Nat /\ TheFrame.size =< d
    <3>1. Suffix(wire, Ahead, Len(Data))
      BY <1>1, InLoop
    <3>2. Suffix(Ahead', Ahead, d)
      BY Zenon, <2>6, <2>7, <3>1
    <3> QED BY <1>1, <2>7, <3>2, RestFacts
  <2> QED BY <1>1, <1>2, <1>4, <2>1, <2>3, <2>4, <2>5, <2>8, Consumed
<1>7. CASE pc' # "idle" /\ ~usingPending
  <2>1. /\ counted' = counted \cup {Number} /\ view' = Rest /\ ~resets
        /\ usingPending' = usingPending /\ pc' = "loop"
    BY <1>1, <1>7 DEF TakeLogout, Return
  <2>2. TypeOK'
    <3>1. view' \in Seq(Byte)
      BY <1>1, <2>1, RestFacts
    <3>2. counted' \subseteq 1..MaxFrames
      BY <1>2, <2>1
    <3>3. usingPending' \in BOOLEAN
      BY Zenon, <2>1 DEF FramingInv, TypeOK
    <3> QED BY <1>1, <1>2, <1>5, <2>1, <3>1, <3>2, <3>3 DEF FramingInv, TypeOK
  <2>3. Loop'
    BY <1>1, <1>2, <1>3, <1>7, <2>1 DEF FramingInv, Loop
  <2>4. Ahead' = Rest \o wire
    <3>1. Holds' = Rest
      BY <1>7, <2>1 DEF Holds, Data
    <3> QED BY Zenon, <1>1, <3>1 DEF Ahead
  <2>5. Suffix(Rest \o wire, Ahead, TheFrame.size) /\ TheFrame.size \in Nat
    BY <1>1, RestFacts
  <2>6. PICK d : d = TheFrame.size
    OBVIOUS
  <2>7. Suffix(Ahead', Ahead, d) /\ d \in Nat /\ TheFrame.size =< d
    <3>1. Suffix(Ahead', Ahead, d)
      BY Zenon, <2>4, <2>5, <2>6
    <3> QED BY <2>5, <2>6, <3>1
  <2> QED BY <1>1, <1>2, <1>4, <2>1, <2>2, <2>3, <2>6, <2>7, Consumed
<1> QED BY <1>6, <1>7

-----------------------------------------------------------------------------
(* The invariant of the receive loop.                                       *)

LEMMA FramingInit ==
  ASSUME Init
  PROVE  FramingInv
<1>1. /\ conn = 0 /\ since = 0 /\ connected = FALSE /\ sent = <<>> /\ wire = <<>> /\ status = "closed"
      /\ m_in = <<>> /\ view = <<>> /\ usingPending = FALSE /\ pc = "idle" /\ counted = {}
      /\ handed = <<>> /\ late = FALSE /\ lossy \in BOOLEAN /\ resets \in BOOLEAN
  BY DEF Init
<1>2. TypeOK
  <2>1. <<>> \in Seq(Byte) /\ <<>> \in Seq(Frame) /\ <<>> \in Seq(1..MaxFrames)
    BY EmptySeq
  <2>2. Len(<<>>) = 0 /\ MaxFrames \in Nat /\ MaxConnections \in Nat
    BY BoundsAssumption
  <2>3. Len(sent) =< MaxFrames /\ conn \in 0..MaxConnections /\ since \in 0..MaxConnections
    BY <1>1, <2>2
  <2>4. late \in BOOLEAN /\ connected \in BOOLEAN /\ usingPending \in BOOLEAN
    BY Zenon, <1>1
  <2> QED BY <1>1, <2>1, <2>3, <2>4 DEF TypeOK
<1>3. Ahead = <<>>
  <2>1. Holds = <<>>
    BY <1>1 DEF Holds
  <2>2. <<>> \o <<>> = <<>>
    <3>1. <<>> \in Seq(Byte)
      BY EmptySeq
    <3> QED BY <3>1, ConcatEmptySeq
  <2> QED BY <1>1, <2>1, <2>2 DEF Ahead
<1>4. Loop /\ Handed /\ PendingExact
  BY <1>1 DEF Loop, Handed, PendingExact
<1>5. ~lossy => Lossless
  BY <1>1, <1>3, EmptyAhead DEF Lossless
<1> QED BY <1>1, <1>2, <1>3, <1>4, <1>5, EmptyAhead DEF FramingInv

LEMMA FramingStutters ==
  ASSUME FramingInv, UNCHANGED vars
  PROVE  FramingInv'
<1>1. UNCHANGED <<lossy, resets, conn, since, connected, sent, wire, status, m_in, view,
                  usingPending, pc, counted, handed, late>>
  BY DEF vars, fixed, peer, ghosts
<1>2. TypeOK' /\ Loop' /\ PendingExact'
  BY <1>1 DEF FramingInv, TypeOK, Loop, PendingExact, PartlyRead
<1>3. Ahead' = Ahead /\ (Live' => Live)
  BY <1>1 DEF Ahead, Holds, Data, Live
<1>4. Within(Ahead', Ahead)
  BY <1>3, WithinSame, AheadTyped DEF FramingInv
<1>5. ~lossy => Lossless'
  BY <1>1, <1>2, <1>3, LosslessPasses
<1> QED BY <1>1, <1>2, <1>4, <1>5, Passes

LEMMA FramingStep ==
  ASSUME FramingInv, [Next]_vars
  PROVE  FramingInv'
<1>1. CASE \E kind \in Kind, size \in Sizes : Send(kind, size)
  BY <1>1, SendKeeps
<1>2. CASE Connect
  BY <1>2, ConnectKeeps
<1>3. CASE Disconnect
  BY <1>3, DisconnectKeeps
<1>4. CASE \E n \in 1..Len(wire) : Read(n)
  BY <1>4, ReadKeeps
<1>5. CASE EndOfData
  BY <1>5, EndOfDataKeeps
<1>6. CASE Incomplete
  BY <1>6, IncompleteKeeps
<1>7. CASE Bad
  BY <1>7, BadKeeps
<1>8. CASE Refuse
  BY <1>8, RefuseKeeps
<1>9. CASE Take
  BY <1>9, TakeKeeps
<1>10. CASE TakeFinish
  BY <1>10, TakeFinishKeeps
<1>11. CASE TakeLogout
  BY <1>11, TakeLogoutKeeps
<1>12. CASE Replace
  BY <1>12, ReplaceKeeps
<1>13. CASE Decline
  BY <1>13, DeclineKeeps
<1>14. CASE UNCHANGED vars
  BY <1>14, FramingStutters
<1> QED BY <1>1, <1>2, <1>3, <1>4, <1>5, <1>6, <1>7, <1>8, <1>9, <1>10, <1>11, <1>12, <1>13,
           <1>14 DEF Next

(* In every state the loop can be in, what it has still to see is made of   *)
(* the bytes of frames that were sent since the session was opened, on its  *)
(* connection and on those that replaced it, in their order; none of them   *)
(* is of a frame before one that was handed over, nor of that one itself    *)
(* unless it stopped the loop behind its handler; and they are all of them  *)
(* when nothing goes wrong (no connection is replaced then).                *)
THEOREM FramingInvariant == Spec => []FramingInv
<1>1. Init => FramingInv
  BY FramingInit
<1>2. FramingInv /\ [Next]_vars => FramingInv'
  BY FramingStep
<1> QED BY <1>1, <1>2, PTL DEF Spec

(* The types of the variables of the receive loop.                          *)
THEOREM FramingTyped == Spec => []TypeOK
<1>1. FramingInv => TypeOK
  BY DEF FramingInv
<1> QED BY <1>1, FramingInvariant, PTL

(* When nothing goes wrong, a call of onReceive leaves exactly the part of  *)
(* a frame that has been read in m_in.                                      *)
THEOREM KeepsExactlyTheRest == Spec => []PendingExact
<1>1. FramingInv => PendingExact
  BY DEF FramingInv
<1> QED BY <1>1, FramingInvariant, PTL

(* While the session is open, m_in holds no byte of a connection older than *)
(* the one it was opened with: closing it and opening it again never joins  *)
(* bytes of two.  Those of a connection that replaced another one while the *)
(* session was open may be there (onConnected returns in front of           *)
(* m_in.clear()), and the parser may find the two joined.                   *)
THEOREM NoBytesFromBefore == Spec => []NoOldBytes
<1>1. FramingInv => NoOldBytes
  <2> SUFFICES ASSUME FramingInv, connected, status = "open", NEW i \in DOMAIN m_in
               PROVE  m_in[i][1] >= since
    BY DEF NoOldBytes
  <2>1. /\ m_in \in Seq(Byte) /\ wire \in Seq(Byte) /\ Holds \in Seq(Byte)
        /\ Ahead = Holds \o wire
    BY AheadTyped DEF FramingInv, Ahead
  <2>2. i \in 1..Len(m_in)
    BY <2>1, LenProperties
  <2>3. m_in # <<>>
    <3>1. m_in = <<>> => Len(m_in) = 0
      BY EmptySeq
    <3> QED BY <2>2, <3>1
  <2>4. Holds = m_in
    BY <2>3 DEF FramingInv, TypeOK, Loop, Holds, Data
  <2>5. Len(Ahead) = Len(m_in) + Len(wire) /\ Ahead[i] = m_in[i]
    BY <2>1, <2>2, <2>4, Joined
  <2>6. i \in 1..Len(Ahead)
    BY <2>1, <2>2, <2>5, BytesOf
  <2>7. Ahead[i][1] >= since
    BY <2>6 DEF FramingInv, From
  <2> QED BY <2>5, <2>7
<1> QED BY <1>1, FramingInvariant, PTL

(* After a Logout has closed the session, no frame of m_in is handled, and  *)
(* none at all when the numbers are reset at the end of a session.          *)
THEOREM NothingHandledLate == Spec => []NothingAfterClose
<1>1. FramingInv => NothingAfterClose
  BY DEF FramingInv, Loop, NothingAfterClose
<1> QED BY <1>1, FramingInvariant, PTL

-----------------------------------------------------------------------------
(* The loop gives the handlers the stream of frames.                        *)

LEMMA HandOverRefines ==
  ASSUME FramingInv, Sees("whole"), HandOver, UNCHANGED <<lossy, sent>>,
         TheFrame.kind = "finish" => Number \notin counted
  PROVE  Stream!HandOver \/ Stream!HandAgain
<1>1. /\ handed' = Append(handed, Number)
      /\ \A i \in 1..Len(handed) :
           handed[i] < Number \/ (handed[i] = Number /\ Stays(Number, sent, counted))
  BY HandedOver DEF HandOver
<1>2. /\ sent \in Seq(Frame) /\ handed \in Seq(1..MaxFrames) /\ Len(handed) \in Nat
      /\ \A i \in 1..Len(handed) : handed[i] \in Nat
  BY AheadTyped DEF FramingInv
<1>3. DOMAIN sent = 1..Len(sent) /\ DOMAIN handed = 1..Len(handed)
  BY <1>2, LenProperties
<1>4. Number \in DOMAIN sent /\ Number \in 1..Len(sent)
  BY <1>3, WholeFacts
<1>5. CASE \A i \in 1..Len(handed) : handed[i] < Number
  <2>1. \A i \in DOMAIN handed : handed[i] < Number
    BY <1>3, <1>5
  <2>2. lossy \/ Number = Len(handed) + 1
    BY NoTrouble DEF Sees
  <2> QED BY Zenon, <1>1, <1>4, <2>1, <2>2 DEF Stream!HandOver
<1>6. CASE ~ \A i \in 1..Len(handed) : handed[i] < Number
  <2>1. PICK i \in 1..Len(handed) : handed[i] = Number /\ Stays(Number, sent, counted)
    BY <1>1, <1>6
  <2>2. handed[Len(handed)] = Number
    <3>1. Len(handed) \in 1..Len(handed) /\ (i < Len(handed) \/ i = Len(handed))
      BY <1>2
    <3>2. handed[i] =< handed[Len(handed)]
      BY <1>2, <3>1 DEF FramingInv, Handed
    <3>3. handed[Len(handed)] < Number \/ handed[Len(handed)] = Number
      BY <1>1, <3>1
    <3>4. handed[Len(handed)] \in Nat /\ Number \in Nat
      BY <1>2, <1>4, <3>1
    <3> QED BY <2>1, <3>2, <3>3, <3>4
  <2>3. handed # <<>>
    BY <1>2, EmptySeq
  <2>4. sent[Number].kind \in {"declined", "replay"} /\ sent[Number] \in Frame
    <3>1. sent[Number] \in Frame
      BY <1>2, <1>4, ElementOfSeq
    <3>2. sent[Number].kind \in {"declined", "replay"}
      BY Zenon, <2>1 DEF Stays, TheFrame
    <3> QED BY <3>1, <3>2
  <2>5. sent[Number] \in {f \in Frame : f.kind \in {"declined", "replay"}}
    BY Zenon, <2>4
  <2> QED BY Zenon, <1>1, <1>4, <2>2, <2>3, <2>5 DEF Stream!HandAgain
<1> QED BY <1>5, <1>6

LEMMA StepRefines ==
  ASSUME FramingInv, [Next]_vars
  PROVE  [Stream!Next]_<<lossy, sent, handed>>
<1>1. ASSUME NEW kind \in Kind, NEW size \in Sizes, Send(kind, size)
      PROVE  Stream!Send
  <2>1. PICK f : f = [kind |-> kind, size |-> size]
    OBVIOUS
  <2>2. f \in Frame
    BY <2>1, TroublesAssumption DEF Frame, Kind
  <2>3. sent' = Append(sent, f) /\ UNCHANGED <<lossy, handed>>
    BY <1>1, <2>1 DEF Send, fixed, ghosts
  <2> QED BY Zenon, <2>2, <2>3 DEF Stream!Send
<1>2. CASE Disconnect
  BY <1>2 DEF Disconnect, fixed, Stream!Next, Stream!NewConnection
<1>3. CASE Decline \/ Take \/ TakeFinish \/ TakeLogout
  <2>1. /\ Sees("whole") /\ HandOver /\ UNCHANGED <<lossy, sent>>
        /\ TheFrame.kind = "finish" => Number \notin counted
    BY <1>3 DEF Decline, Take, InOrder, TakeFinish, TakeLogout, fixed, peer
  <2> QED BY <2>1, HandOverRefines DEF Stream!Next
<1>4. CASE \/ Connect \/ Replace \/ (\E n \in 1..Len(wire) : Read(n)) \/ EndOfData \/ Incomplete
           \/ Bad \/ Refuse \/ UNCHANGED vars
  BY <1>4 DEF Connect, Replace, Read, EndOfData, Incomplete, Bad, Refuse, vars, fixed, peer, ghosts
<1> QED BY <1>1, <1>2, <1>3, <1>4 DEF Next, Stream!Next

(* Whatever the sizes of the frames and the chunks they arrive in, handlers *)
(* see the frames that were sent, in their order, and all of them when      *)
(* nothing goes wrong.  They see each once, but for one that stopped the    *)
(* loop behind its handler (refused by the handler or the store, or the     *)
(* PossDup=Y frame that ended a resend): that one may be handed over again, *)
(* before any other.                                                        *)
THEOREM FramesAreTheStream == Spec => SameFrames
<1>1. Init => Stream!Init
  BY DEF Init, Stream!Init
<1>2. FramingInv /\ [Next]_vars => [Stream!Next]_<<lossy, sent, handed>>
  BY StepRefines
<1> QED BY <1>1, <1>2, FramingInvariant, PTL DEF Spec, SameFrames, Stream!Spec
=============================================================================
