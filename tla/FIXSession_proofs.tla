------------------------- MODULE FIXSession_proofs --------------------------
(***************************************************************************)
(* Proofs about one session against any counterparty, for every value of   *)
(* the constants: its record stays well typed, its store ascends, nothing  *)
(* of a closed connection survives, and its numbers go back only on        *)
(* purpose.  One lemma per operator of SessionCore says what the operator  *)
(* preserves; the theorems put them together action by action.             *)
(***************************************************************************)
EXTENDS FIXSession, SequenceTheorems, TLAPS

(* Session records with these messages written and these calls made, which *)
(* no property is about.                                                   *)
Records(sent, calls) ==
  [status : Statuses, sentLogon : BOOLEAN, receivedLogon : BOOLEAN,
   sentLogout : BOOLEAN, receivedLogout : BOOLEAN, awaitingResend : BOOLEAN,
   resetOnDisconnect : BOOLEAN, awaitingTest : BOOLEAN, testRequestID : Nat,
   nextSender : Nat \ {0}, nextTarget : Nat \ {0},
   outgoing : Seq(StoredMessage), disk : {"ok", "full"},
   socket : {"none", "open", "failing"}, listening : BOOLEAN,
   sent : {sent}, calls : {calls}, rc : {"ok", "io", "session", "app", "invalid"}]

IsSession(s) == s \in Records(s.sent, s.calls)

(* The invariants of FIXSession, of any configuration and record.           *)
Precedes(c, a, b) == IF c.store = "file" THEN a =< b ELSE a < b

Ascends(c, s) ==
  /\ \A j, k \in 1..Len(s.outgoing) : j < k => Precedes(c, s.outgoing[j].seq, s.outgoing[k].seq)
  /\ \A j \in 1..Len(s.outgoing) : Precedes(c, s.outgoing[j].seq, s.nextSender)

Cleared(s) ==
  /\ s.status = "Disconnected"
  /\ ~s.sentLogon /\ ~s.receivedLogon
  /\ ~s.sentLogout /\ ~s.receivedLogout
  /\ ~s.awaitingResend /\ ~s.awaitingTest

(* A session in the middle of a call.                                       *)
Sound(c, s) ==
  /\ IsSession(s)
  /\ Ascends(c, s)
  /\ LoggedOn(s) => s.sentLogon /\ s.receivedLogon
  /\ s.awaitingTest => s.sentLogon /\ s.receivedLogon /\ s.testRequestID > 0
  /\ ~Resets(c) => ~s.resetOnDisconnect

(* A session at the end of one.                                             *)
Good(c, s) == Sound(c, s) /\ (s.socket = "none" => Cleared(s))

(* The numbers of t are those of s or later ones, unless resets are on.     *)
Forward(c, s, t) ==
  ~Resets(c) => t.nextSender >= s.nextSender /\ t.nextTarget >= s.nextTarget

(* t differs from s only in its store, its outgoing number, what was        *)
(* written and the result code.                                            *)
SameState(s, t) ==
  /\ t.status = s.status
  /\ t.sentLogon = s.sentLogon /\ t.receivedLogon = s.receivedLogon
  /\ t.sentLogout = s.sentLogout /\ t.receivedLogout = s.receivedLogout
  /\ t.awaitingResend = s.awaitingResend /\ t.awaitingTest = s.awaitingTest
  /\ t.testRequestID = s.testRequestID /\ t.resetOnDisconnect = s.resetOnDisconnect
  /\ t.nextTarget = s.nextTarget /\ t.socket = s.socket

-----------------------------------------------------------------------------
(* Messages.                                                               *)

(* A message Send can number and store.                                    *)
Sendable(msg) ==
  \A n \in Nat :
    LET m == [msg EXCEPT !.seq = n]
    IN  m.seq = n /\ BodyOf(m) \in Bodies \cup {NoBody}

LEMMA LogoutSendable == Sendable(LogoutMsg)
BY DEF Sendable, LogoutMsg, Msg, BodyOf

LEMMA RejectSendable == Sendable(RejectMsg)
BY DEF Sendable, RejectMsg, Msg, BodyOf

LEMMA LogonSendable == ASSUME NEW reset, NEW ok PROVE Sendable(LogonMsg(reset, ok))
BY DEF Sendable, LogonMsg, BodyOf

LEMMA TestSendable ==
  ASSUME NEW id PROVE Sendable(HeartbeatMsg(id)) /\ Sendable(TestRequestMsg(id))
BY DEF Sendable, HeartbeatMsg, TestRequestMsg, BodyOf

LEMMA ResendRequestSendable ==
  ASSUME NEW from, NEW to PROVE Sendable(ResendRequestMsg(from, to))
BY DEF Sendable, ResendRequestMsg, BodyOf

LEMMA AppSendable == ASSUME NEW body \in Bodies PROVE Sendable(AppMsg(body))
BY DEF Sendable, AppMsg, BodyOf

-----------------------------------------------------------------------------
(* The store and the senders.                                              *)

(* A store that ascends still does with the next number at its end, when    *)
(* the number is then taken, or when the disk of a file store refused it.  *)
LEMMA AscendsAppend ==
  ASSUME NEW c, NEW s, IsSession(s), Ascends(c, s),
         NEW m \in StoredMessage, m.seq = s.nextSender,
         NEW r, IsSession(r), r.outgoing = Append(s.outgoing, m),
         r.nextSender >= s.nextSender,
         c.store # "file" => r.nextSender = s.nextSender + 1
  PROVE  Ascends(c, r)
<1>1. /\ Len(r.outgoing) = Len(s.outgoing) + 1 /\ Len(s.outgoing) \in Nat
      /\ \A k \in 1..Len(s.outgoing) : r.outgoing[k] = s.outgoing[k]
      /\ r.outgoing[Len(s.outgoing) + 1] = m
      /\ \A k \in 1..Len(s.outgoing) : s.outgoing[k] \in StoredMessage
  BY AppendProperties, LenProperties, ElementOfSeq DEF IsSession, Records
<1>2. \A k \in 1..Len(s.outgoing) : s.outgoing[k].seq \in Nat
  BY <1>1 DEF StoredMessage
<1>3. s.nextSender \in Nat /\ r.nextSender \in Nat
  BY DEF IsSession, Records
<1>4. \A j \in 1..Len(r.outgoing) : j \in 1..Len(s.outgoing) \/ j = Len(s.outgoing) + 1
  BY <1>1
<1>5. \A j \in 1..Len(r.outgoing) : Precedes(c, r.outgoing[j].seq, r.nextSender)
  BY SMTT(30), <1>1, <1>2, <1>3, <1>4 DEF Ascends, Precedes
<1>6. \A j, k \in 1..Len(r.outgoing) : j < k => Precedes(c, r.outgoing[j].seq, r.outgoing[k].seq)
  <2> TAKE j, k \in 1..Len(r.outgoing)
  <2> HAVE j < k
  <2>1. j \in 1..Len(s.outgoing)
    BY <1>1, <1>4
  <2>2. CASE k \in 1..Len(s.outgoing)
    BY <1>1, <2>1, <2>2 DEF Ascends
  <2>3. CASE k = Len(s.outgoing) + 1
    BY <1>1, <1>2, <1>3, <2>1, <2>3 DEF Ascends, Precedes
  <2> QED BY <1>4, <2>2, <2>3
<1> QED BY <1>5, <1>6 DEF Ascends

(* The same store and a number that is not lower.                           *)
LEMMA AscendsSame ==
  ASSUME NEW c, NEW s, IsSession(s), Ascends(c, s), NEW r, IsSession(r),
         r.outgoing = s.outgoing, r.nextSender >= s.nextSender
  PROVE  Ascends(c, r)
<1>1. \A k \in 1..Len(s.outgoing) : s.outgoing[k].seq \in Nat
  <2>1. \A k \in 1..Len(s.outgoing) : s.outgoing[k] \in StoredMessage
    BY ElementOfSeq DEF IsSession, Records
  <2> QED BY <2>1 DEF StoredMessage
<1>2. s.nextSender \in Nat /\ r.nextSender \in Nat
  BY DEF IsSession, Records
<1> QED BY <1>1, <1>2 DEF Ascends, Precedes

LEMMA AscendsEmpty ==
  ASSUME NEW c, NEW r, r.outgoing = <<>> PROVE Ascends(c, r)
BY EmptySeq DEF Ascends

LEMMA ResetStoreLemma ==
  ASSUME NEW c, NEW s, Sound(c, s), NEW r, r = ResetStore(s)
  PROVE  /\ Sound(c, r) /\ r.outgoing = <<>>
         /\ SameState([s EXCEPT !.nextTarget = 1], r)
         /\ r.nextSender = 1 /\ r.nextTarget = 1
<1>1. <<>> \in Seq(StoredMessage) /\ 1 \in Nat \ {0}
  BY EmptySeq
<1>2. IsSession(r)
  BY <1>1 DEF Sound, IsSession, Records, ResetStore
<1>3. r.outgoing = <<>> /\ r.nextSender = 1 /\ r.nextTarget = 1
  BY DEF Sound, IsSession, Records, ResetStore
<1>4. SameState([s EXCEPT !.nextTarget = 1], r)
  BY DEF Sound, IsSession, Records, ResetStore, SameState
<1> QED BY <1>2, <1>3, <1>4, AscendsEmpty DEF Sound, SameState, LoggedOn

(* Storing a message under the next number keeps everything but the store.  *)
LEMMA StoreOutgoingLemma ==
  ASSUME NEW c, NEW s, Sound(c, s),
         NEW m, m.seq = s.nextSender, BodyOf(m) \in Bodies \cup {NoBody},
         NEW r, r = StoreOutgoing(c, s, m)
  PROVE  /\ IsSession(r)
         /\ \/ r.outgoing = s.outgoing
            \/ \E new \in StoredMessage :
                 new.seq = s.nextSender /\ r.outgoing = Append(s.outgoing, new)
         /\ r.rc = "ok" \/ c.store = "file"
         /\ r.nextSender = s.nextSender
         /\ SameState(s, r)
<1> DEFINE new  == Stored(m.seq, m.kind # "App", BodyOf(m))
           kept == IF KeepsMessages(c) THEN Append(s.outgoing, new) ELSE s.outgoing
<1>1. IsSession(s)
  BY DEF Sound
<1>2. new \in StoredMessage /\ new.seq = s.nextSender
  BY <1>1 DEF Stored, StoredMessage, IsSession, Records
<1>3. kept \in Seq(StoredMessage)
  BY <1>1, <1>2, AppendProperties DEF IsSession, Records
<1>4. r = [s EXCEPT !.outgoing = kept, !.rc = IF DiskRefuses(c, s) THEN "io" ELSE "ok"]
  BY DEF StoreOutgoing
<1>5. kept = s.outgoing \/ kept = Append(s.outgoing, new)
  OBVIOUS
<1> HIDE DEF kept, new
<1>6. IsSession(r)
  BY ZenonT(60), <1>1, <1>3, <1>4 DEF IsSession, Records
<1>7. /\ r.outgoing = kept
      /\ r.rc = "ok" \/ c.store = "file"
      /\ r.nextSender = s.nextSender
      /\ SameState(s, r)
  BY <1>1, <1>4 DEF IsSession, Records, DiskRefuses, SameState
<1> QED BY <1>2, <1>5, <1>6, <1>7

(* What SameState leaves alone of Sound.                                    *)
LEMMA SoundSame ==
  ASSUME NEW c, NEW s, Sound(c, s), NEW r, IsSession(r), Ascends(c, r), SameState(s, r)
  PROVE  Sound(c, r)
BY DEF Sound, SameState, LoggedOn

LEMMA GoodSame ==
  ASSUME NEW c, NEW s, Good(c, s), NEW r, Sound(c, r), SameState(s, r)
  PROVE  Good(c, r)
BY DEF Good, SameState, Cleared

(* Send takes a number or does not, and touches nothing but the store.      *)
LEMMA SendLemma ==
  ASSUME NEW c, NEW s, Sound(c, s), NEW msg, Sendable(msg), NEW r, r = Send(c, s, msg)
  PROVE  Sound(c, r) /\ SameState(s, r) /\ Forward(c, s, r)
<1> DEFINE m       == [msg EXCEPT !.seq = s.nextSender]
           wrote   == Write(s, m)
           written == StoreOutgoing(c, wrote, m)
<1>1. IsSession(s) /\ s.nextSender \in Nat /\ s.nextTarget \in Nat
  BY DEF Sound, IsSession, Records
<1>2. m.seq = s.nextSender /\ BodyOf(m) \in Bodies \cup {NoBody}
  BY <1>1 DEF Sendable
<1>3. r = IF ~Writable(s) THEN Fail(s, "io")
          ELSE IF written.rc # "ok" THEN written
          ELSE [written EXCEPT !.nextSender = @ + 1]
  BY DEF Send, Ok
<1> HIDE DEF m
<1>4. /\ IsSession(wrote) /\ SameState(s, wrote)
      /\ wrote.outgoing = s.outgoing /\ wrote.nextSender = s.nextSender
  BY <1>1 DEF Write, IsSession, Records, SameState
<1> HIDE DEF wrote
<1>5. Sound(c, wrote)
  BY <1>1, <1>4, AscendsSame, SoundSame DEF Sound
<1>6. /\ IsSession(written)
      /\ \/ written.outgoing = s.outgoing
         \/ \E new \in StoredMessage :
              new.seq = s.nextSender /\ written.outgoing = Append(s.outgoing, new)
      /\ written.rc = "ok" \/ c.store = "file"
      /\ written.nextSender = s.nextSender
      /\ SameState(wrote, written)
  BY <1>2, <1>4, <1>5, StoreOutgoingLemma
<1> HIDE DEF written
<1>7. CASE ~Writable(s)
  <2>1. /\ IsSession(r) /\ SameState(s, r)
        /\ r.outgoing = s.outgoing /\ r.nextSender = s.nextSender
    BY <1>1, <1>3, <1>7 DEF Fail, IsSession, Records, SameState
  <2> QED BY <1>1, <2>1, AscendsSame, SoundSame DEF Sound, Forward, SameState
<1>8. CASE Writable(s)
  <2>1. /\ IsSession(r) /\ SameState(written, r) /\ r.outgoing = written.outgoing
        /\ r.nextSender = IF written.rc = "ok" THEN s.nextSender + 1 ELSE s.nextSender
    <3>1. CASE written.rc # "ok"
      BY <1>3, <1>6, <1>8, <3>1 DEF SameState
    <3>2. CASE written.rc = "ok"
      <4>1. r = [written EXCEPT !.nextSender = written.nextSender + 1]
        BY <1>3, <1>8, <3>2
      <4>2. written.nextSender + 1 \in Nat \ {0} /\ written.nextSender + 1 = s.nextSender + 1
        BY <1>1, <1>6
      <4>3. IsSession(r)
        BY <1>6, <4>1, <4>2 DEF IsSession, Records
      <4>4. SameState(written, r)
        BY <1>6, <4>1 DEF IsSession, Records, SameState
      <4>5. r.outgoing = written.outgoing /\ r.nextSender = s.nextSender + 1
        BY <1>6, <4>1, <4>2 DEF IsSession, Records
      <4> QED BY <3>2, <4>3, <4>4, <4>5
    <3> QED BY <3>1, <3>2
  <2>2. SameState(s, r)
    BY <1>4, <1>6, <2>1 DEF SameState
  <2>3. r.nextSender >= s.nextSender /\ (c.store # "file" => r.nextSender = s.nextSender + 1)
    BY <1>1, <1>6, <2>1
  <2>4. Ascends(c, r)
    <3>1. CASE written.outgoing = s.outgoing
      BY <1>1, <2>1, <2>3, <3>1, AscendsSame DEF Sound
    <3>2. CASE written.outgoing # s.outgoing
      BY <1>1, <1>6, <2>1, <2>3, <3>2, AscendsAppend DEF Sound
    <3> QED BY <3>1, <3>2
  <2> QED BY <1>1, <2>1, <2>2, <2>3, <2>4, SoundSame DEF Forward, SameState
<1> QED BY <1>7, <1>8

(* Forward is transitive on sessions.                                       *)
LEMMA ForwardTrans ==
  ASSUME NEW c, NEW s, NEW t, NEW u, IsSession(s), IsSession(t), IsSession(u),
         Forward(c, s, t), Forward(c, t, u)
  PROVE  Forward(c, s, u)
<1>1. /\ s.nextSender \in Nat /\ t.nextSender \in Nat /\ u.nextSender \in Nat
      /\ s.nextTarget \in Nat /\ t.nextTarget \in Nat /\ u.nextTarget \in Nat
  BY DEF IsSession, Records
<1> QED BY <1>1 DEF Forward

LEMMA ForwardSame ==
  ASSUME NEW c, NEW s, IsSession(s), NEW t,
         t.nextSender = s.nextSender, t.nextTarget = s.nextTarget
  PROVE  Forward(c, s, t)
<1>1. s.nextSender \in Nat /\ s.nextTarget \in Nat
  BY DEF IsSession, Records
<1> QED BY <1>1 DEF Forward

(* A session that has sent its Logon is no less sound.  The reset of        *)
(* ResetOnLogon is one of those Forward allows for.                        *)
LEMMA SendLogonLemma ==
  ASSUME NEW c, NEW s, Sound(c, s), ~LoggedOn(s), NEW r, r = SendLogon(c, s)
  PROVE  /\ Sound(c, r) /\ Forward(c, s, r)
         /\ r.receivedLogon = s.receivedLogon
         /\ r.socket = s.socket
         /\ r.rc = "ok" => r.sentLogon
<1> DEFINE t   == IF c.resetOnLogon THEN ResetStore(s) ELSE s
           msg == LogonMsg(c.resetOnLogon, TRUE)
           u   == Send(c, t, msg)
<1>1. IsSession(s)
  BY DEF Sound
<1>2. /\ Sound(c, t) /\ IsSession(t) /\ Forward(c, s, t)
      /\ t.receivedLogon = s.receivedLogon /\ t.socket = s.socket /\ t.status = s.status
  <2>1. CASE c.resetOnLogon
    <3>1. Sound(c, t) /\ SameState([s EXCEPT !.nextTarget = 1], t)
      BY <2>1, ResetStoreLemma
    <3>2. t.receivedLogon = s.receivedLogon /\ t.socket = s.socket /\ t.status = s.status
      BY <1>1, <3>1 DEF SameState, IsSession, Records
    <3> QED BY <2>1, <3>1, <3>2 DEF Sound, Forward, Resets
  <2>2. CASE ~c.resetOnLogon
    BY <1>1, <2>2, ForwardSame
  <2> QED BY <2>1, <2>2
<1>3. r = IF u.rc = "ok" THEN [u EXCEPT !.sentLogon = TRUE, !.status = "LogonSent"] ELSE u
  BY DEF SendLogon, Ok
<1> HIDE DEF t
<1>4. Sound(c, u) /\ SameState(t, u) /\ Forward(c, t, u)
  BY <1>2, SendLemma, LogonSendable
<1>5. Forward(c, s, u) /\ IsSession(u)
  BY <1>1, <1>2, <1>4, ForwardTrans DEF Sound
<1> HIDE DEF u
<1>6. CASE u.rc # "ok"
  BY <1>2, <1>3, <1>4, <1>5, <1>6 DEF SameState
<1>7. CASE u.rc = "ok"
  <2>1. r = [u EXCEPT !.sentLogon = TRUE, !.status = "LogonSent"]
    BY <1>3, <1>7
  <2>2. IsSession(r)
    BY <1>5, <2>1 DEF IsSession, Records, Statuses
  <2>3. /\ r.sentLogon = TRUE /\ r.status = "LogonSent"
        /\ r.receivedLogon = u.receivedLogon /\ r.socket = u.socket
        /\ r.awaitingTest = u.awaitingTest /\ r.testRequestID = u.testRequestID
        /\ r.resetOnDisconnect = u.resetOnDisconnect
        /\ r.outgoing = u.outgoing /\ r.nextSender = u.nextSender /\ r.nextTarget = u.nextTarget
    BY <1>5, <2>1 DEF IsSession, Records
  <2>4. Ascends(c, r)
    BY <1>4, <2>3 DEF Sound, Ascends
  <2>5. Sound(c, r)
    BY <1>4, <2>2, <2>3, <2>4 DEF Sound, LoggedOn
  <2>6. Forward(c, s, r)
    BY <1>5, <2>3 DEF Forward
  <2> QED BY <1>2, <1>4, <2>3, <2>5, <2>6 DEF SameState
<1> QED BY <1>6, <1>7

LEMMA SendLogoutLemma ==
  ASSUME NEW c, NEW s, Good(c, s), NEW r, r = SendLogout(c, s)
  PROVE  /\ Good(c, r) /\ Forward(c, s, r)
         /\ r.receivedLogon = s.receivedLogon
         /\ r.socket = s.socket
<1> DEFINE u == Send(c, s, LogoutMsg)
<1>1. IsSession(s) /\ Sound(c, s)
  BY DEF Good, Sound
<1>2. CASE Closing(s) \/ s.status = "Disconnected"
  BY <1>1, <1>2, ForwardSame DEF SendLogout
<1>3. CASE ~(Closing(s) \/ s.status = "Disconnected")
  <2>1. r = IF u.rc = "ok" THEN [u EXCEPT !.sentLogout = TRUE, !.status = "LogoutSent"] ELSE u
    BY <1>3 DEF SendLogout, Ok
  <2>2. Sound(c, u) /\ SameState(s, u) /\ Forward(c, s, u) /\ IsSession(u)
    BY <1>1, SendLemma, LogoutSendable DEF Sound
  <2>3. s.socket # "none"
    BY <1>3 DEF Good, Cleared
  <2> HIDE DEF u
  <2>4. CASE u.rc # "ok"
    BY <2>1, <2>2, <2>4, GoodSame DEF SameState
  <2>5. CASE u.rc = "ok"
    <3>1. r = [u EXCEPT !.sentLogout = TRUE, !.status = "LogoutSent"]
      BY <2>1, <2>5
    <3>2. IsSession(r)
      BY <2>2, <3>1 DEF IsSession, Records, Statuses
    <3>3. /\ r.status = "LogoutSent" /\ r.sentLogon = u.sentLogon
          /\ r.receivedLogon = u.receivedLogon /\ r.socket = u.socket
          /\ r.awaitingTest = u.awaitingTest /\ r.testRequestID = u.testRequestID
          /\ r.resetOnDisconnect = u.resetOnDisconnect
          /\ r.outgoing = u.outgoing /\ r.nextSender = u.nextSender /\ r.nextTarget = u.nextTarget
      BY <2>2, <3>1 DEF IsSession, Records
    <3>4. Ascends(c, r)
      BY <2>2, <3>3 DEF Sound, Ascends
    <3>5. Sound(c, r)
      BY <2>2, <3>2, <3>3, <3>4 DEF Sound, LoggedOn
    <3>6. Forward(c, s, r)
      BY <2>2, <3>3 DEF Forward
    <3> QED BY <2>2, <2>3, <3>3, <3>5, <3>6 DEF SameState, Good
  <2> QED BY <2>4, <2>5
<1> QED BY <1>2, <1>3

LEMMA SendTestRequestLemma ==
  ASSUME NEW c, NEW s, Good(c, s), LoggedOn(s), NEW r, r = SendTestRequest(c, s)
  PROVE  Good(c, r) /\ Forward(c, s, r) /\ r.receivedLogon = s.receivedLogon
<1> DEFINE t   == [s EXCEPT !.testRequestID = @ + 1]
           msg == TestRequestMsg(t.testRequestID)
           u   == Send(c, t, msg)
<1>1. IsSession(s) /\ Sound(c, s) /\ s.testRequestID \in Nat
  BY DEF Good, Sound, IsSession, Records
<1>2. s.socket # "none" /\ s.sentLogon /\ s.receivedLogon
  BY <1>1 DEF Good, Cleared, LoggedOn, Sound
<1>3. /\ IsSession(t) /\ t.testRequestID = s.testRequestID + 1
      /\ SameState(s, [t EXCEPT !.testRequestID = s.testRequestID])
      /\ t.status = s.status /\ t.sentLogon = s.sentLogon /\ t.receivedLogon = s.receivedLogon
      /\ t.awaitingTest = s.awaitingTest /\ t.resetOnDisconnect = s.resetOnDisconnect
      /\ t.socket = s.socket /\ t.outgoing = s.outgoing
      /\ t.nextSender = s.nextSender /\ t.nextTarget = s.nextTarget
  BY <1>1 DEF IsSession, Records, SameState
<1>4. r = IF u.rc = "ok" THEN [u EXCEPT !.awaitingTest = TRUE] ELSE u
  BY DEF SendTestRequest, Ok
<1>5. Sendable(msg)
  BY TestSendable
<1> HIDE DEF t, msg
<1>6. Sound(c, t)
  BY <1>1, <1>3 DEF Sound, LoggedOn, Ascends
<1>7. Sound(c, u) /\ SameState(t, u) /\ Forward(c, t, u) /\ IsSession(u)
  BY <1>5, <1>6, SendLemma DEF Sound
<1> HIDE DEF u
<1>8. /\ u.socket # "none" /\ u.sentLogon /\ u.receivedLogon /\ u.testRequestID > 0
      /\ Forward(c, s, u)
  BY <1>1, <1>2, <1>3, <1>7 DEF SameState, Forward
<1>9. CASE u.rc # "ok"
  BY <1>2, <1>3, <1>4, <1>7, <1>8, <1>9 DEF Good, SameState
<1>10. CASE u.rc = "ok"
  <2>1. r = [u EXCEPT !.awaitingTest = TRUE]
    BY <1>4, <1>10
  <2>2. /\ IsSession(r)
        /\ r.status = u.status /\ r.sentLogon = u.sentLogon
        /\ r.receivedLogon = u.receivedLogon /\ r.socket = u.socket
        /\ r.testRequestID = u.testRequestID
        /\ r.resetOnDisconnect = u.resetOnDisconnect
        /\ r.outgoing = u.outgoing /\ r.nextSender = u.nextSender /\ r.nextTarget = u.nextTarget
    BY <1>7, <2>1 DEF IsSession, Records
  <2>3. Sound(c, r)
    BY <1>7, <1>8, <2>2 DEF Sound, LoggedOn, Ascends
  <2> QED BY <1>2, <1>3, <1>7, <1>8, <2>2, <2>3 DEF Good, SameState, Forward
<1> QED BY <1>9, <1>10

LEMMA DoLogoutLemma ==
  ASSUME NEW c, NEW s, Good(c, s), NEW r, r = DoLogout(c, s)
  PROVE  /\ Good(c, r) /\ Forward(c, s, r)
         /\ r.receivedLogon = s.receivedLogon /\ r.socket = s.socket
<1>1. IsSession(s) /\ Sound(c, s)
  BY DEF Good, Sound
<1>2. CASE Closing(s) \/ s.status = "Disconnected"
  BY <1>1, <1>2, ForwardSame DEF DoLogout
<1>3. CASE ~(Closing(s) \/ s.status = "Disconnected") /\ s.awaitingResend
  <2>1. r = [s EXCEPT !.status = "Closing"]
    BY <1>3 DEF DoLogout
  <2>2. /\ IsSession(r)
        /\ r.status = "Closing" /\ r.sentLogon = s.sentLogon
        /\ r.receivedLogon = s.receivedLogon /\ r.socket = s.socket
        /\ r.awaitingTest = s.awaitingTest /\ r.testRequestID = s.testRequestID
        /\ r.resetOnDisconnect = s.resetOnDisconnect
        /\ r.outgoing = s.outgoing /\ r.nextSender = s.nextSender /\ r.nextTarget = s.nextTarget
    BY <1>1, <2>1 DEF IsSession, Records, Statuses
  <2>3. Sound(c, r)
    BY <1>1, <2>2 DEF Sound, LoggedOn, Ascends
  <2>4. s.socket # "none"
    BY <1>3 DEF Good, Cleared
  <2> QED BY <1>1, <2>2, <2>3, <2>4, ForwardSame DEF Good
<1>4. CASE ~(Closing(s) \/ s.status = "Disconnected") /\ ~s.awaitingResend
  BY <1>4, SendLogoutLemma DEF DoLogout
<1> QED BY <1>2, <1>3, <1>4

-----------------------------------------------------------------------------
(* The callbacks of the connection and of the timer.                       *)

LEMMA ClearFlagsLemma ==
  ASSUME NEW c, NEW s, Sound(c, s), NEW r, r = ClearFlags(s)
  PROVE  /\ Sound(c, r) /\ Cleared(r)
         /\ r.nextSender = s.nextSender /\ r.nextTarget = s.nextTarget
         /\ r.socket = s.socket /\ r.resetOnDisconnect = s.resetOnDisconnect
<1>1. IsSession(s)
  BY DEF Sound
<1>2. IsSession(r)
  <2>1. r \in Records(s.sent, s.calls)
    <3>1. "Disconnected" \in Statuses /\ FALSE \in BOOLEAN /\ 0 \in Nat
      BY DEF Statuses
    <3> QED BY ZenonT(60), <1>1, <3>1 DEF IsSession, Records, ClearFlags
  <2>2. r.sent = s.sent /\ r.calls = s.calls
    BY <1>1 DEF IsSession, Records, ClearFlags
  <2> QED BY <2>1, <2>2 DEF IsSession
<1>3. /\ Cleared(r)
      /\ r.nextSender = s.nextSender /\ r.nextTarget = s.nextTarget
      /\ r.socket = s.socket /\ r.resetOnDisconnect = s.resetOnDisconnect
      /\ r.outgoing = s.outgoing
  BY <1>1 DEF IsSession, Records, ClearFlags, Cleared
<1> QED BY <1>2, <1>3 DEF Sound, Ascends, Cleared, LoggedOn

LEMMA CallLemma ==
  ASSUME NEW c, NEW s, Sound(c, s), NEW event, NEW body, NEW r, r = Call(s, event, body)
  PROVE  /\ Sound(c, r) /\ SameState(s, r) /\ Forward(c, s, r)
         /\ Cleared(s) => Cleared(r)
         /\ r.nextSender = s.nextSender
<1> DEFINE calls == Append(s.calls, [event |-> event, body |-> body])
<1>1. IsSession(s) /\ r = [s EXCEPT !.calls = calls]
  BY DEF Sound, Call
<1> HIDE DEF calls
<1>2. /\ IsSession(r) /\ SameState(s, r)
      /\ r.outgoing = s.outgoing /\ r.nextSender = s.nextSender
  BY <1>1 DEF IsSession, Records, SameState
<1>3. Sound(c, r)
  BY <1>2, SoundSame DEF Sound, Ascends
<1> QED BY <1>1, <1>2, <1>3, ForwardSame DEF SameState, Cleared

LEMMA FailLemma ==
  ASSUME NEW c, NEW s, Sound(c, s), NEW rc \in {"ok", "io", "session", "app", "invalid"},
         NEW r, r = Fail(s, rc)
  PROVE  Sound(c, r) /\ SameState(s, r) /\ Forward(c, s, r) /\ r.rc = rc
<1>1. IsSession(s)
  BY DEF Sound
<1>2. /\ IsSession(r) /\ SameState(s, r) /\ r.rc = rc
      /\ r.outgoing = s.outgoing /\ r.nextSender = s.nextSender
  BY <1>1 DEF IsSession, Records, Fail, SameState
<1>3. Sound(c, r)
  BY <1>2, SoundSame DEF Sound, Ascends
<1> QED BY <1>1, <1>2, <1>3, ForwardSame DEF SameState

(* Whatever state the connection is lost in, nothing of it stays behind.    *)
LEMMA OnDisconnectedLemma ==
  ASSUME NEW c, NEW s, Sound(c, s), NEW r, r = OnDisconnected(c, s)
  PROVE  Good(c, r) /\ Cleared(r) /\ Forward(c, s, r) /\ r.socket = s.socket
<1> DEFINE cleared == IF WasActive(s) THEN Call(ClearFlags(s), "onLogout", NoBody) ELSE ClearFlags(s)
           reset   == ResetStore(cleared)
<1>1. IsSession(s)
  BY DEF Sound
<1>2. /\ Sound(c, ClearFlags(s)) /\ Cleared(ClearFlags(s))
      /\ ClearFlags(s).nextSender = s.nextSender /\ ClearFlags(s).nextTarget = s.nextTarget
      /\ ClearFlags(s).socket = s.socket
      /\ ClearFlags(s).resetOnDisconnect = s.resetOnDisconnect
  BY ClearFlagsLemma
<1>3. /\ Sound(c, cleared) /\ Cleared(cleared)
      /\ cleared.nextSender = s.nextSender /\ cleared.nextTarget = s.nextTarget
      /\ cleared.socket = s.socket
  <2>1. CASE WasActive(s)
    BY <1>2, <2>1, CallLemma DEF SameState
  <2>2. CASE ~WasActive(s)
    BY <1>2, <2>2
  <2> QED BY <2>1, <2>2
<1>4. r = IF ResetsOnDisconnect(c, s)
            THEN [reset EXCEPT !.resetOnDisconnect = FALSE]
            ELSE cleared
  BY DEF OnDisconnected
<1> HIDE DEF cleared
<1>5. CASE ~ResetsOnDisconnect(c, s)
  BY <1>1, <1>3, <1>4, <1>5, ForwardSame DEF Good
<1>6. CASE ResetsOnDisconnect(c, s)
  <2>1. Resets(c)
    BY <1>6 DEF ResetsOnDisconnect, Sound, Resets
  <2>2. /\ Sound(c, reset) /\ reset.outgoing = <<>>
        /\ SameState([cleared EXCEPT !.nextTarget = 1], reset)
    BY <1>3, ResetStoreLemma
  <2>3. reset.socket = s.socket /\ Cleared(reset)
    BY <1>3, <2>2 DEF SameState, Cleared, Sound, IsSession, Records
  <2> HIDE DEF reset
  <2>4. r = [reset EXCEPT !.resetOnDisconnect = FALSE] /\ IsSession(r)
    <3>1. r = [reset EXCEPT !.resetOnDisconnect = FALSE]
      BY <1>4, <1>6
    <3> QED BY <2>2, <3>1 DEF Sound, IsSession, Records
  <2>5. /\ r.outgoing = reset.outgoing /\ r.socket = reset.socket
        /\ r.resetOnDisconnect = FALSE
        /\ Cleared(r)
    BY <2>2, <2>3, <2>4 DEF Sound, IsSession, Records, Cleared
  <2>6. Sound(c, r)
    BY <2>2, <2>4, <2>5, AscendsEmpty DEF Sound, Cleared, LoggedOn
  <2> QED BY <2>1, <2>3, <2>5, <2>6 DEF Good, Forward
<1> QED BY <1>5, <1>6

LEMMA CloseLemma ==
  ASSUME NEW c, NEW s, Good(c, s), NEW r, r = Close(c, s)
  PROVE  Good(c, r) /\ Cleared(r) /\ Forward(c, s, r)
<1> DEFINE t == [s EXCEPT !.listening = FALSE, !.socket = "none"]
<1>1. IsSession(s) /\ Sound(c, s)
  BY DEF Good, Sound
<1>2. r = IF s.socket = "none" THEN t ELSE OnDisconnected(c, t)
  BY DEF Close
<1>3. /\ IsSession(t) /\ SameState([s EXCEPT !.socket = "none"], t) /\ t.socket = "none"
      /\ t.outgoing = s.outgoing /\ t.nextSender = s.nextSender /\ t.nextTarget = s.nextTarget
      /\ t.status = s.status /\ t.sentLogon = s.sentLogon /\ t.receivedLogon = s.receivedLogon
      /\ t.sentLogout = s.sentLogout /\ t.receivedLogout = s.receivedLogout
      /\ t.awaitingResend = s.awaitingResend /\ t.awaitingTest = s.awaitingTest
      /\ t.testRequestID = s.testRequestID /\ t.resetOnDisconnect = s.resetOnDisconnect
  BY <1>1 DEF IsSession, Records, SameState
<1> HIDE DEF t
<1>4. Sound(c, t)
  BY <1>1, <1>3 DEF Sound, LoggedOn, Ascends
<1>5. Forward(c, s, t)
  BY <1>1, <1>3, ForwardSame
<1>6. CASE s.socket = "none"
  BY <1>2, <1>3, <1>4, <1>5, <1>6 DEF Good, Cleared
<1>7. CASE s.socket # "none"
  <2>1. Good(c, r) /\ Cleared(r) /\ Forward(c, t, r) /\ IsSession(r)
    BY <1>2, <1>4, <1>7, OnDisconnectedLemma DEF Good, Sound
  <2> QED BY <1>1, <1>3, <1>5, <2>1, ForwardTrans
<1> QED BY <1>6, <1>7

LEMMA OnConnectedLemma ==
  ASSUME NEW c, NEW s, Sound(c, s), s.socket # "none", NEW r, r = OnConnected(c, s)
  PROVE  Good(c, r) /\ Forward(c, s, r)
<1> DEFINE t == [s EXCEPT !.status = "Connected"]
<1>1. IsSession(s)
  BY DEF Sound
<1>2. CASE s.status # "Disconnected"
  BY <1>1, <1>2, ForwardSame DEF OnConnected, Good
<1>3. CASE s.status = "Disconnected"
  <2>1. r = SendLogon(c, t)
    BY <1>3 DEF OnConnected
  <2>2. /\ IsSession(t) /\ t.status = "Connected" /\ t.socket = s.socket
        /\ t.outgoing = s.outgoing /\ t.nextSender = s.nextSender /\ t.nextTarget = s.nextTarget
        /\ t.sentLogon = s.sentLogon /\ t.receivedLogon = s.receivedLogon
        /\ t.awaitingTest = s.awaitingTest /\ t.testRequestID = s.testRequestID
        /\ t.resetOnDisconnect = s.resetOnDisconnect
    BY <1>1 DEF IsSession, Records, Statuses
  <2> HIDE DEF t
  <2>3. Sound(c, t) /\ ~LoggedOn(t)
    BY <2>2 DEF Sound, LoggedOn, Ascends
  <2>4. Sound(c, r) /\ Forward(c, t, r) /\ r.socket = t.socket
    BY <2>1, <2>3, SendLogonLemma
  <2> QED BY <2>2, <2>4 DEF Good, Forward
<1> QED BY <1>2, <1>3

LEMMA TestTimeoutLemma ==
  ASSUME NEW c, NEW s, Good(c, s), LoggedOn(s), NEW r, r = TestTimeout(s)
  PROVE  Good(c, r) /\ Forward(c, s, r) /\ r.receivedLogon = s.receivedLogon
<1>1. IsSession(s) /\ Sound(c, s)
  BY DEF Good, Sound
<1>2. s.socket # "none"
  BY DEF Good, Cleared, LoggedOn
<1>3. /\ IsSession(r) /\ r.socket = s.socket /\ r.status = "Disconnected" /\ r.awaitingTest = FALSE
      /\ r.outgoing = s.outgoing /\ r.nextSender = s.nextSender /\ r.nextTarget = s.nextTarget
      /\ r.receivedLogon = s.receivedLogon /\ r.resetOnDisconnect = s.resetOnDisconnect
  BY <1>1 DEF IsSession, Records, Statuses, TestTimeout
<1>4. Sound(c, r)
  BY <1>1, <1>3 DEF Sound, LoggedOn, Ascends
<1> QED BY <1>1, <1>2, <1>3, <1>4, ForwardSame DEF Good

LEMMA ScheduleEndedLemma ==
  ASSUME NEW c \in AllConfigs, NEW s, Good(c, s), NEW r, r = ScheduleEnded(c, s)
  PROVE  Good(c, r) /\ Forward(c, s, r) /\ r.receivedLogon = s.receivedLogon
<1> DEFINE t == [s EXCEPT !.resetOnDisconnect = c.resetDaily]
<1>1. IsSession(s) /\ Sound(c, s)
  BY DEF Good, Sound
<1>2. c.resetDaily \in BOOLEAN
  BY DEF AllConfigs
<1>3. /\ IsSession(t) /\ t.resetOnDisconnect = c.resetDaily
      /\ t.status = s.status /\ t.sentLogon = s.sentLogon /\ t.receivedLogon = s.receivedLogon
      /\ t.sentLogout = s.sentLogout /\ t.receivedLogout = s.receivedLogout
      /\ t.awaitingResend = s.awaitingResend /\ t.awaitingTest = s.awaitingTest
      /\ t.testRequestID = s.testRequestID /\ t.socket = s.socket
      /\ t.outgoing = s.outgoing /\ t.nextSender = s.nextSender /\ t.nextTarget = s.nextTarget
  BY <1>1, <1>2 DEF IsSession, Records
<1>4. r = DoLogout(c, t)
  BY DEF ScheduleEnded
<1> HIDE DEF t
<1>5. Good(c, t)
  BY <1>1, <1>3 DEF Good, Sound, Cleared, LoggedOn, Ascends, Resets
<1>6. Good(c, r) /\ Forward(c, t, r) /\ r.receivedLogon = t.receivedLogon
  BY <1>4, <1>5, DoLogoutLemma
<1> QED BY <1>3, <1>6 DEF Forward

LEMMA OnTimerLemma ==
  ASSUME NEW c \in AllConfigs, NEW s, Good(c, s), NEW due \in Deadlines, NEW r, r = OnTimer(c, s, due)
  PROVE  Good(c, r) /\ Forward(c, s, r)
<1>1. IsSession(s) /\ Sound(c, s) /\ Forward(c, s, s)
  BY ForwardSame DEF Good, Sound
<1>2. CASE ~TimerActive(c, s)
  BY <1>1, <1>2 DEF OnTimer
<1>3. CASE TimerActive(c, s)
  <2>1. LoggedOn(s)
    BY <1>3 DEF TimerActive
  <2>2. CASE due = "schedule"
    BY <1>3, <2>2, ScheduleEndedLemma DEF OnTimer
  <2>3. CASE due = "testTimeout"
    BY <1>1, <1>3, <2>1, <2>3, TestTimeoutLemma DEF OnTimer
  <2>4. CASE due = "testRequest"
    BY <1>1, <1>3, <2>1, <2>4, SendTestRequestLemma DEF OnTimer
  <2>5. CASE due = "heartbeat"
    <3>1. r = IF s.awaitingTest THEN s ELSE Send(c, s, HeartbeatMsg(NoId))
      BY <1>3, <2>5 DEF OnTimer
    <3>2. ASSUME r = Send(c, s, HeartbeatMsg(NoId))
          PROVE  Good(c, r) /\ Forward(c, s, r)
      BY <1>1, <3>2, SendLemma, TestSendable, GoodSame
    <3> QED BY <1>1, <3>1, <3>2
  <2> QED BY <2>2, <2>3, <2>4, <2>5 DEF Deadlines
<1> QED BY <1>2, <1>3

-----------------------------------------------------------------------------
(* The handlers.  Numbers go back only when a first Logon asks for it.      *)
KeepsNumbers(c, s, t) ==
  ~Resets(c) =>
    /\ t.nextSender >= s.nextSender
    /\ t.nextTarget < s.nextTarget => ~s.receivedLogon /\ t.receivedLogon

LEMMA ForwardKeeps ==
  ASSUME NEW c, NEW s, NEW t, IsSession(s), IsSession(t), Forward(c, s, t)
  PROVE  KeepsNumbers(c, s, t)
<1>1. s.nextTarget \in Nat /\ t.nextTarget \in Nat
  BY DEF IsSession, Records
<1> QED BY <1>1 DEF Forward, KeepsNumbers

LEMMA KeepsThenForward ==
  ASSUME NEW c, NEW s, NEW t, NEW u, IsSession(s), IsSession(t), IsSession(u),
         KeepsNumbers(c, s, t), Forward(c, t, u), u.receivedLogon = t.receivedLogon
  PROVE  KeepsNumbers(c, s, u)
<1>1. /\ s.nextTarget \in Nat /\ t.nextTarget \in Nat /\ u.nextTarget \in Nat
      /\ s.nextSender \in Nat /\ t.nextSender \in Nat /\ u.nextSender \in Nat
  BY DEF IsSession, Records
<1> QED BY <1>1 DEF Forward, KeepsNumbers

(* A duplicate or unacceptable Logon is answered with a Logout.             *)
LEMMA RefusedLogonLemma ==
  ASSUME NEW c, NEW s, Good(c, s),
         NEW r, r = HandleDuplicateLogon(c, s) \/ r = HandleUnacceptableLogon(c, s)
  PROVE  Good(c, r) /\ Forward(c, s, r)
<1> DEFINE out    == SendLogout(c, s)
           closed == Close(c, out)
<1>1. Good(c, out) /\ Forward(c, s, out)
  BY SendLogoutLemma
<1>2. Good(c, closed) /\ Forward(c, out, closed)
  BY <1>1, CloseLemma
<1>3. IsSession(s) /\ IsSession(out) /\ IsSession(closed) /\ Sound(c, out) /\ Sound(c, closed)
  BY <1>1, <1>2 DEF Good, Sound
<1>4. Forward(c, s, closed)
  BY <1>1, <1>2, <1>3, ForwardTrans
<1>5. r = out \/ r = Fail(out, "session") \/ r = Fail(closed, "session")
  BY DEF HandleDuplicateLogon, HandleUnacceptableLogon
<1> HIDE DEF out, closed
<1>6. ASSUME NEW t \in {out, closed}, r = Fail(t, "session")
      PROVE  Good(c, r) /\ Forward(c, s, r)
  <2>1. Good(c, t) /\ Sound(c, t) /\ IsSession(t) /\ Forward(c, s, t)
    BY <1>1, <1>2, <1>3, <1>4
  <2>2. Sound(c, r) /\ SameState(t, r) /\ Forward(c, t, r) /\ IsSession(r)
    BY <1>6, <2>1, FailLemma DEF Sound
  <2> QED BY <1>3, <2>1, <2>2, GoodSame, ForwardTrans
<1> QED BY <1>1, <1>5, <1>6

LEMMA HandleLogonLemma ==
  ASSUME NEW c, NEW s, Good(c, s), s.socket # "none", NEW m, NEW r, r = HandleLogon(c, s, m)
  PROVE  Good(c, r) /\ KeepsNumbers(c, s, r)
<1> DEFINE reset    == IF m.reset THEN [ResetStore(s) EXCEPT !.nextSender = s.nextSender] ELSE s
           received == [reset EXCEPT !.receivedLogon = TRUE]
           answered == IF received.sentLogon THEN received ELSE SendLogon(c, received)
           up       == [answered EXCEPT !.status = "LoggedOn"]
<1>1. IsSession(s) /\ Sound(c, s) /\ s.nextSender \in Nat \ {0}
  BY DEF Good, Sound, IsSession, Records
<1>2. CASE s.receivedLogon \/ LoggedOn(s) \/ ~m.acceptable
  <2>1. r = HandleDuplicateLogon(c, s) \/ r = HandleUnacceptableLogon(c, s)
    BY <1>2 DEF HandleLogon
  <2>2. Good(c, r) /\ Forward(c, s, r) /\ IsSession(r)
    BY <2>1, RefusedLogonLemma DEF Good, Sound
  <2> QED BY <1>1, <2>2, ForwardKeeps
<1>3. CASE ~(s.receivedLogon \/ LoggedOn(s) \/ ~m.acceptable)
  <2>1. r = IF answered.rc # "ok" THEN answered ELSE Call(up, "onLogon", NoBody)
    BY <1>3 DEF HandleLogon, Ok
  <2>2. /\ Sound(c, reset) /\ reset.nextSender = s.nextSender
        /\ reset.socket = s.socket /\ reset.status = s.status
    <3>1. CASE ~m.reset
      BY <1>1, <3>1
    <3>2. CASE m.reset
      <4> DEFINE t == ResetStore(s)
      <4>1. /\ Sound(c, t) /\ t.outgoing = <<>>
            /\ SameState([s EXCEPT !.nextTarget = 1], t)
        BY <1>1, ResetStoreLemma
      <4>2. reset = [t EXCEPT !.nextSender = s.nextSender]
        BY <3>2
      <4>3. t.socket = s.socket /\ t.status = s.status
        BY <1>1, <4>1 DEF SameState, IsSession, Records
      <4> HIDE DEF t, reset
      <4>4. /\ IsSession(reset) /\ reset.nextSender = s.nextSender
            /\ reset.outgoing = <<>> /\ SameState(t, reset)
        BY <1>1, <4>1, <4>2 DEF Sound, IsSession, Records, SameState
      <4> QED BY <4>1, <4>3, <4>4, AscendsEmpty, SoundSame DEF SameState
    <3> QED BY <3>1, <3>2
  <2> HIDE DEF reset
  <2>3. /\ IsSession(received) /\ received.receivedLogon = TRUE
        /\ received.nextSender = s.nextSender /\ received.outgoing = reset.outgoing
        /\ received.socket = s.socket /\ received.status = s.status
        /\ received.sentLogon = reset.sentLogon
        /\ received.awaitingTest = reset.awaitingTest
        /\ received.testRequestID = reset.testRequestID
        /\ received.resetOnDisconnect = reset.resetOnDisconnect
    BY <2>2 DEF Sound, IsSession, Records
  <2> HIDE DEF received
  <2>4. Sound(c, received) /\ ~LoggedOn(received)
    BY <1>3, <2>2, <2>3 DEF Sound, LoggedOn, Ascends
  <2>5. /\ Sound(c, answered) /\ Forward(c, received, answered)
        /\ answered.receivedLogon = TRUE /\ answered.socket = s.socket
        /\ answered.rc = "ok" => answered.sentLogon
    <3>1. CASE received.sentLogon
      BY <2>3, <2>4, <3>1, ForwardSame
    <3>2. CASE ~received.sentLogon
      BY <2>3, <2>4, <3>2, SendLogonLemma
    <3> QED BY <3>1, <3>2
  <2> HIDE DEF answered
  <2>6. KeepsNumbers(c, s, answered)
    BY <1>3, <2>3, <2>5 DEF KeepsNumbers, Forward
  <2>7. CASE answered.rc # "ok"
    BY <2>1, <2>5, <2>6, <2>7 DEF Good
  <2>8. CASE answered.rc = "ok"
    <3>1. /\ IsSession(up) /\ up.sentLogon = answered.sentLogon
          /\ up.receivedLogon = answered.receivedLogon
          /\ up.socket = answered.socket /\ up.outgoing = answered.outgoing
          /\ up.nextSender = answered.nextSender /\ up.nextTarget = answered.nextTarget
          /\ up.awaitingTest = answered.awaitingTest /\ up.testRequestID = answered.testRequestID
          /\ up.resetOnDisconnect = answered.resetOnDisconnect
      BY <2>5 DEF Sound, IsSession, Records, Statuses
    <3>2. r = Call(up, "onLogon", NoBody)
      BY <2>1, <2>8
    <3> HIDE DEF up
    <3>3. Sound(c, up)
      BY <2>5, <2>8, <3>1 DEF Sound, Ascends
    <3>4. Sound(c, r) /\ SameState(up, r) /\ r.nextSender = up.nextSender
      BY <3>2, <3>3, CallLemma
    <3>5. r.socket # "none" /\ KeepsNumbers(c, s, r)
      BY <2>5, <2>6, <3>1, <3>4 DEF SameState, KeepsNumbers
    <3> QED BY <3>4, <3>5 DEF Good
  <2> QED BY <2>7, <2>8
<1> QED BY <1>2, <1>3

LEMMA HandleLogoutLemma ==
  ASSUME NEW c, NEW s, Good(c, s), s.socket # "none", NEW r, r = HandleLogout(c, s)
  PROVE  Good(c, r) /\ Forward(c, s, r)
<1> DEFINE received == [s EXCEPT !.receivedLogout = TRUE]
           answered == IF received.sentLogout THEN received ELSE SendLogout(c, received)
           closing  == [answered EXCEPT !.status = "Closing"]
           closed   == Close(c, closing)
<1>1. IsSession(s) /\ Sound(c, s)
  BY DEF Good, Sound
<1>2. r = IF answered.rc # "ok" THEN answered
          ELSE IF c.initiator THEN OnDisconnected(c, closed) ELSE closing
  BY DEF HandleLogout, Ok
<1>3. /\ IsSession(received) /\ received.socket = s.socket /\ received.status = s.status
      /\ received.sentLogon = s.sentLogon /\ received.receivedLogon = s.receivedLogon
      /\ received.awaitingTest = s.awaitingTest /\ received.testRequestID = s.testRequestID
      /\ received.resetOnDisconnect = s.resetOnDisconnect
      /\ received.outgoing = s.outgoing
      /\ received.nextSender = s.nextSender /\ received.nextTarget = s.nextTarget
  BY <1>1 DEF IsSession, Records
<1> HIDE DEF received
<1>4. Good(c, received) /\ Forward(c, s, received)
  BY <1>1, <1>3, ForwardSame DEF Good, Sound, LoggedOn, Ascends
<1>5. Good(c, answered) /\ Forward(c, received, answered) /\ answered.socket = received.socket
  <2>1. CASE received.sentLogout
    BY <1>3, <1>4, <2>1, ForwardSame
  <2>2. CASE ~received.sentLogout
    BY <1>4, <2>2, SendLogoutLemma
  <2> QED BY <2>1, <2>2
<1> HIDE DEF answered
<1>6. IsSession(answered) /\ Sound(c, answered) /\ Forward(c, s, answered)
  BY <1>1, <1>3, <1>4, <1>5, ForwardTrans DEF Good, Sound
<1>7. /\ IsSession(closing) /\ closing.status = "Closing" /\ closing.socket = answered.socket
      /\ closing.sentLogon = answered.sentLogon /\ closing.receivedLogon = answered.receivedLogon
      /\ closing.awaitingTest = answered.awaitingTest
      /\ closing.testRequestID = answered.testRequestID
      /\ closing.resetOnDisconnect = answered.resetOnDisconnect
      /\ closing.outgoing = answered.outgoing
      /\ closing.nextSender = answered.nextSender /\ closing.nextTarget = answered.nextTarget
  BY <1>6 DEF IsSession, Records, Statuses
<1> HIDE DEF closing
<1>8. Good(c, closing) /\ Forward(c, s, closing)
  BY <1>3, <1>5, <1>6, <1>7 DEF Good, Sound, LoggedOn, Ascends, Forward
<1>9. Good(c, closed) /\ Sound(c, closed) /\ IsSession(closed) /\ Forward(c, closing, closed)
  BY <1>8, CloseLemma DEF Good, Sound
<1>10. Forward(c, s, closed)
  BY <1>1, <1>7, <1>8, <1>9, ForwardTrans
<1> HIDE DEF closed
<1>11. ASSUME r = OnDisconnected(c, closed)
       PROVE  Good(c, r) /\ Forward(c, s, r)
  <2>1. Good(c, r) /\ Forward(c, closed, r) /\ IsSession(r)
    BY <1>9, <1>11, OnDisconnectedLemma DEF Good, Sound
  <2> QED BY <1>1, <1>9, <1>10, <2>1, ForwardTrans
<1> QED BY <1>2, <1>5, <1>6, <1>8, <1>11

(* A step that only writes, fails, or changes what Good does not mention.   *)
LEMMA SameGood ==
  ASSUME NEW c, NEW s, Good(c, s), NEW r, IsSession(r), SameState(s, r),
         r.outgoing = s.outgoing, r.nextSender = s.nextSender
  PROVE  Good(c, r) /\ Forward(c, s, r)
<1>1. IsSession(s) /\ Sound(c, s)
  BY DEF Good, Sound
<1>2. Sound(c, r)
  BY <1>1, SoundSame DEF Sound, Ascends
<1> QED BY <1>1, <1>2, GoodSame, ForwardSame DEF SameState

LEMMA HandleHeartbeatLemma ==
  ASSUME NEW c, NEW s, Good(c, s), NEW m, NEW r, r = HandleHeartbeat(s, m)
  PROVE  Good(c, r) /\ Forward(c, s, r)
<1>1. IsSession(s) /\ Sound(c, s) /\ Forward(c, s, s)
  BY ForwardSame DEF Good, Sound
<1>2. r = [s EXCEPT !.awaitingTest = FALSE] \/ r = s
  BY DEF HandleHeartbeat
<1>3. ASSUME r = [s EXCEPT !.awaitingTest = FALSE]
      PROVE  Good(c, r) /\ Forward(c, s, r)
  <2>1. /\ IsSession(r) /\ r.awaitingTest = FALSE
        /\ r.status = s.status /\ r.sentLogon = s.sentLogon /\ r.receivedLogon = s.receivedLogon
        /\ r.sentLogout = s.sentLogout /\ r.receivedLogout = s.receivedLogout
        /\ r.awaitingResend = s.awaitingResend
        /\ r.resetOnDisconnect = s.resetOnDisconnect /\ r.socket = s.socket
        /\ r.outgoing = s.outgoing /\ r.nextSender = s.nextSender /\ r.nextTarget = s.nextTarget
    BY <1>1, <1>3 DEF IsSession, Records
  <2>2. Sound(c, r)
    BY <1>1, <2>1 DEF Sound, LoggedOn, Ascends
  <2> QED BY <1>1, <2>1, <2>2, ForwardSame DEF Good, Cleared
<1> QED BY <1>1, <1>2, <1>3

LEMMA SendGood ==
  ASSUME NEW c, NEW s, Good(c, s), NEW msg, Sendable(msg), NEW r, r = Send(c, s, msg)
  PROVE  Good(c, r) /\ Forward(c, s, r) /\ SameState(s, r)
<1>1. Sound(c, r) /\ SameState(s, r) /\ Forward(c, s, r)
  BY SendLemma DEF Good
<1> QED BY <1>1, GoodSame

LEMMA HandleTestRequestLemma ==
  ASSUME NEW c, NEW s, Good(c, s), NEW m, NEW r, r = HandleTestRequest(c, s, m)
  PROVE  Good(c, r) /\ Forward(c, s, r)
<1>1. IsSession(s) /\ Forward(c, s, s)
  BY ForwardSame DEF Good, Sound
<1>2. r = s \/ r = Send(c, s, HeartbeatMsg(m.id))
  BY DEF HandleTestRequest
<1>3. Sendable(HeartbeatMsg(m.id))
  BY TestSendable
<1> QED BY <1>1, <1>2, <1>3, SendGood

(* A replay takes no numbers and stores nothing.                            *)
LEMMA HandleResendRequestLemma ==
  ASSUME NEW c, NEW s, Good(c, s), NEW m, NEW r, r = HandleResendRequest(c, s, m)
  PROVE  Good(c, r) /\ Forward(c, s, r)
<1>1. IsSession(s) /\ Sound(c, s) /\ Forward(c, s, s)
  BY ForwardSame DEF Good, Sound
<1>2. PICK sent : r = s \/ r = Fail(s, "io") \/ r = [s EXCEPT !.sent = sent]
  BY DEF HandleResendRequest
<1>3. CASE r = s
  BY <1>1, <1>3
<1>4. CASE r = Fail(s, "io")
  BY <1>1, <1>4, FailLemma, GoodSame
<1>5. CASE r = [s EXCEPT !.sent = sent]
  <2>1. /\ IsSession(r) /\ SameState(s, r)
        /\ r.outgoing = s.outgoing /\ r.nextSender = s.nextSender
    BY <1>1, <1>5 DEF IsSession, Records, SameState
  <2> QED BY <2>1, SameGood
<1> QED BY <1>2, <1>3, <1>4, <1>5

(* The expected number changes and nothing else.                            *)
LEMMA NextTargetLemma ==
  ASSUME NEW c, NEW s, Good(c, s), NEW n \in Nat, n > s.nextTarget,
         NEW r, r = [s EXCEPT !.nextTarget = n]
  PROVE  /\ Good(c, r) /\ Forward(c, s, r) /\ r.nextTarget = n
         /\ r.status = s.status /\ r.receivedLogon = s.receivedLogon
<1>1. IsSession(s) /\ Sound(c, s) /\ s.nextTarget \in Nat /\ s.nextSender \in Nat
  BY DEF Good, Sound, IsSession, Records
<1>2. n \in Nat \ {0}
  BY <1>1
<1>3. /\ IsSession(r) /\ r.nextTarget = n
      /\ r.status = s.status /\ r.sentLogon = s.sentLogon /\ r.receivedLogon = s.receivedLogon
      /\ r.sentLogout = s.sentLogout /\ r.receivedLogout = s.receivedLogout
      /\ r.awaitingResend = s.awaitingResend /\ r.awaitingTest = s.awaitingTest
      /\ r.testRequestID = s.testRequestID
      /\ r.resetOnDisconnect = s.resetOnDisconnect /\ r.socket = s.socket
      /\ r.outgoing = s.outgoing /\ r.nextSender = s.nextSender
  BY <1>1, <1>2 DEF IsSession, Records
<1>4. Sound(c, r)
  BY <1>1, <1>3 DEF Sound, LoggedOn, Ascends
<1> QED BY <1>1, <1>3, <1>4 DEF Good, Cleared, Forward

LEMMA HandleSequenceResetLemma ==
  ASSUME NEW c, NEW s, Good(c, s), NEW m, m.new \in Nat, NEW r, r = HandleSequenceReset(s, m)
  PROVE  Good(c, r) /\ Forward(c, s, r)
<1>1. Sound(c, s) /\ s.nextTarget \in Nat
  BY DEF Good, Sound, IsSession, Records
<1>2. CASE m.new =< s.nextTarget
  BY <1>1, <1>2, FailLemma, GoodSame DEF HandleSequenceReset
<1>3. CASE ~(m.new =< s.nextTarget)
  BY <1>1, <1>3, NextTargetLemma DEF HandleSequenceReset
<1> QED BY <1>2, <1>3

LEMMA DeliverLemma ==
  ASSUME NEW c, NEW s, Good(c, s), NEW m, NEW r, r = Deliver(s, m)
  PROVE  Good(c, r) /\ Forward(c, s, r)
<1> DEFINE t == Call(s, "fromApp", m.body)
<1>1. Sound(c, t) /\ SameState(s, t) /\ Forward(c, s, t)
  BY CallLemma DEF Good
<1>2. r = t \/ r = Fail(t, "app")
  BY DEF Deliver
<1>3. Good(c, t)
  BY <1>1, GoodSame
<1> HIDE DEF t
<1>4. ASSUME r = Fail(t, "app")
      PROVE  Good(c, r) /\ Forward(c, s, r)
  <2>1. Sound(c, r) /\ SameState(t, r) /\ Forward(c, t, r)
    BY <1>1, <1>4, FailLemma
  <2> QED BY <1>1, <1>3, <2>1, GoodSame, ForwardTrans DEF Good, Sound
<1> QED BY <1>1, <1>2, <1>3, <1>4

-----------------------------------------------------------------------------
(* A received frame.                                                       *)
Kinds == {"Logon", "Logout", "Heartbeat", "TestRequest", "ResendRequest",
          "SequenceReset", "Reject", "App", "Unsupported", "Flawed"}

IsFrame(m) ==
  /\ m.kind \in Kinds
  /\ m.seq \in Nat
  /\ m.possDup \in BOOLEAN
  /\ m.kind = "SequenceReset" => m.new \in Nat
  /\ m.kind = "Flawed" => m.flaw \in {"unframed", "identity", "stale", "content"}

LEMMA FramesLemma == ASSUME NEW m \in Frame PROVE IsFrame(m)
<1> USE SeqNumsAssumption
<1>1. CASE m \in {Flawed(seq, "unframed") : seq \in SeqNums}
  <2>1. PICK seq \in SeqNums : m = Flawed(seq, "unframed")
    BY <1>1
  <2>2. seq \in Nat
    OBVIOUS
  <2>3. /\ m.kind = "Flawed" /\ m.flaw = "unframed"
        /\ m.seq = seq /\ m.possDup = FALSE
    BY <2>1 DEF Flawed
  <2> QED BY <2>2, <2>3 DEF IsFrame, Kinds
<1>2. CASE m \in UNION {Frames(h) : h \in Header}
  <2>1. PICK h \in Header : m \in Frames(h)
    BY <1>2
  <2>2. h.seq \in Nat /\ h.possDup \in BOOLEAN /\ h.seq \in SeqNums
    BY DEF Header
  <2> DEFINE Logons         == {With(h, LogonMsg(reset, ok)) : reset \in BOOLEAN, ok \in BOOLEAN}
             Plain          == {With(h, Msg(kind)) : kind \in {"Logout", "Reject", "Unsupported"}}
             Heartbeats     == {With(h, HeartbeatMsg(id)) : id \in SeqNums}
             TestRequests   == {With(h, TestRequestMsg(id)) : id \in SeqNums}
             ResendRequests == {With(h, ResendRequestMsg(b, e)) : b \in SeqNums \ {0}, e \in SeqNums}
             GapFills       == {With(h, GapFillMsg(h.seq, new)) : new \in SeqNums}
             Apps           == {With(h, AppMsg(body)) : body \in Bodies}
             Flaws          == {Flawed(h.seq, flaw) : flaw \in {"identity", "stale", "content"}}
  <2>3. CASE m \in Logons
    <3>1. PICK reset \in BOOLEAN, ok \in BOOLEAN : m = With(h, LogonMsg(reset, ok))
      BY <2>3
    <3> QED BY <2>2, <3>1 DEF With, LogonMsg, IsFrame, Kinds
  <2>4. CASE m \in Plain
    <3>1. PICK kind \in {"Logout", "Reject", "Unsupported"} : m = With(h, Msg(kind))
      BY <2>4
    <3> QED BY <2>2, <3>1 DEF With, Msg, IsFrame, Kinds
  <2>5. CASE m \in Heartbeats
    <3>1. PICK id \in SeqNums : m = With(h, HeartbeatMsg(id))
      BY <2>5
    <3> QED BY <2>2, <3>1 DEF With, HeartbeatMsg, IsFrame, Kinds
  <2>6. CASE m \in TestRequests
    <3>1. PICK id \in SeqNums : m = With(h, TestRequestMsg(id))
      BY <2>6
    <3> QED BY <2>2, <3>1 DEF With, TestRequestMsg, IsFrame, Kinds
  <2>7. CASE m \in ResendRequests
    <3>1. PICK b \in SeqNums \ {0}, e \in SeqNums : m = With(h, ResendRequestMsg(b, e))
      BY <2>7
    <3> QED BY <2>2, <3>1 DEF With, ResendRequestMsg, IsFrame, Kinds
  <2>8. CASE m \in GapFills
    <3>1. PICK new \in SeqNums : m = With(h, GapFillMsg(h.seq, new))
      BY <2>8
    <3> QED BY <2>2, <3>1 DEF With, GapFillMsg, IsFrame, Kinds
  <2>9. CASE m \in Apps
    <3>1. PICK body \in Bodies : m = With(h, AppMsg(body))
      BY <2>9
    <3> QED BY <2>2, <3>1 DEF With, AppMsg, IsFrame, Kinds
  <2>10. CASE m \in Flaws
    <3>1. PICK flaw \in {"identity", "stale", "content"} : m = Flawed(h.seq, flaw)
      BY <2>10
    <3>2. m.kind = "Flawed" /\ m.flaw = flaw /\ m.seq = h.seq /\ m.possDup = FALSE
      BY <3>1 DEF Flawed
    <3> QED BY <2>2, <3>2 DEF IsFrame, Kinds
  <2>11. m \in Logons \cup Plain \cup Heartbeats \cup TestRequests \cup ResendRequests
               \cup GapFills \cup Apps \cup Flaws
    BY <2>1 DEF Frames
  <2> HIDE DEF Logons, Plain, Heartbeats, TestRequests, ResendRequests, GapFills, Apps, Flaws
  <2> QED BY <2>3, <2>4, <2>5, <2>6, <2>7, <2>8, <2>9, <2>10, <2>11
<1> QED BY <1>1, <1>2 DEF Frame

LEMMA DispatchLemma ==
  ASSUME NEW c, NEW s, Good(c, s), s.socket # "none", NEW m, IsFrame(m),
         NEW r, r = Dispatch(c, s, m)
  PROVE  Good(c, r) /\ KeepsNumbers(c, s, r)
<1>1. IsSession(s) /\ Sound(c, s) /\ Forward(c, s, s)
  BY ForwardSame DEF Good, Sound
<1>2. CASE m.kind = "Logon"
  BY <1>2, HandleLogonLemma DEF Dispatch
<1>3. ASSUME m.kind # "Logon"
      PROVE  Good(c, r) /\ Forward(c, s, r)
  <2>1. CASE m.kind = "Logout"
    BY <2>1, HandleLogoutLemma DEF Dispatch
  <2>2. CASE m.kind = "Heartbeat"
    BY <2>2, HandleHeartbeatLemma DEF Dispatch
  <2>3. CASE m.kind = "TestRequest"
    BY <2>3, HandleTestRequestLemma DEF Dispatch
  <2>4. CASE m.kind = "ResendRequest"
    BY <2>4, HandleResendRequestLemma DEF Dispatch
  <2>5. CASE m.kind = "SequenceReset"
    BY <2>5, HandleSequenceResetLemma DEF Dispatch, IsFrame
  <2>6. CASE m.kind = "Reject"
    BY <1>1, <2>6 DEF Dispatch
  <2>7. CASE m.kind = "App"
    BY <2>7, DeliverLemma DEF Dispatch
  <2>8. CASE m.kind = "Unsupported"
    BY <2>8, SendGood, RejectSendable DEF Dispatch, SendReject
  <2>9. CASE m.kind = "Flawed"
    BY <1>1, <2>9, FailLemma, GoodSame DEF Dispatch
  <2> QED BY <1>3, <2>1, <2>2, <2>3, <2>4, <2>5, <2>6, <2>7, <2>8, <2>9 DEF IsFrame, Kinds
<1> QED BY <1>1, <1>2, <1>3, ForwardKeeps DEF Good, Sound

(* The end of a resend: a session that is closing already sends nothing.    *)
LEMMA EndResendLemma ==
  ASSUME NEW c, NEW s, Good(c, s), NEW r, r = EndResend(c, s)
  PROVE  Good(c, r) /\ Forward(c, s, r) /\ r.receivedLogon = s.receivedLogon
<1> DEFINE t == [s EXCEPT !.awaitingResend = FALSE]
<1>1. IsSession(s) /\ Sound(c, s)
  BY DEF Good, Sound
<1>2. /\ IsSession(t) /\ t.awaitingResend = FALSE
      /\ t.status = s.status /\ t.sentLogon = s.sentLogon /\ t.receivedLogon = s.receivedLogon
      /\ t.sentLogout = s.sentLogout /\ t.receivedLogout = s.receivedLogout
      /\ t.awaitingTest = s.awaitingTest /\ t.testRequestID = s.testRequestID
      /\ t.resetOnDisconnect = s.resetOnDisconnect /\ t.socket = s.socket
      /\ t.outgoing = s.outgoing /\ t.nextSender = s.nextSender /\ t.nextTarget = s.nextTarget
  BY <1>1 DEF IsSession, Records
<1>3. r = t \/ r = SendLogout(c, t)
  BY DEF EndResend
<1> HIDE DEF t
<1>4. Good(c, t) /\ Forward(c, s, t)
  BY <1>1, <1>2, ForwardSame DEF Good, Sound, Cleared, LoggedOn, Ascends
<1>5. ASSUME r = SendLogout(c, t)
      PROVE  Good(c, r) /\ Forward(c, s, r) /\ r.receivedLogon = s.receivedLogon
  <2>1. Good(c, r) /\ Forward(c, t, r) /\ r.receivedLogon = t.receivedLogon
    BY <1>4, <1>5, SendLogoutLemma
  <2> QED BY <1>2, <2>1 DEF Forward
<1> QED BY <1>2, <1>3, <1>4, <1>5

LEMMA CountLemma ==
  ASSUME NEW c, NEW s, Good(c, s), NEW m, NEW r, r = Count(c, s, m)
  PROVE  Good(c, r) /\ Forward(c, s, r) /\ r.receivedLogon = s.receivedLogon
<1> DEFINE t == IF m.kind = "SequenceReset" THEN s ELSE [s EXCEPT !.nextTarget = s.nextTarget + 1]
<1>1. IsSession(s) /\ Sound(c, s) /\ s.nextTarget \in Nat /\ Forward(c, s, s)
  BY ForwardSame DEF Good, Sound, IsSession, Records
<1>2. r = s \/ r = Fail(s, "io") \/ r = t \/ r = EndResend(c, t)
  BY DEF Count
<1>3. Good(c, t) /\ Forward(c, s, t) /\ t.receivedLogon = s.receivedLogon
  <2>1. CASE m.kind = "SequenceReset"
    BY <1>1, <2>1
  <2>2. CASE m.kind # "SequenceReset"
    <3>1. s.nextTarget + 1 \in Nat /\ s.nextTarget + 1 > s.nextTarget
      BY <1>1
    <3> QED BY <2>2, <3>1, NextTargetLemma
  <2> QED BY <2>1, <2>2
<1> HIDE DEF t
<1>4. CASE r = s
  BY <1>1, <1>4
<1>5. CASE r = Fail(s, "io")
  BY <1>1, <1>5, FailLemma, GoodSame DEF SameState
<1>6. CASE r = t
  BY <1>3, <1>6
<1>7. CASE r = EndResend(c, t)
  <2>1. Good(c, r) /\ Forward(c, t, r) /\ r.receivedLogon = t.receivedLogon
    BY <1>3, <1>7, EndResendLemma
  <2>2. IsSession(t) /\ IsSession(r)
    BY <1>3, <2>1 DEF Good, Sound
  <2> QED BY <1>1, <1>3, <2>1, <2>2, ForwardTrans
<1> QED BY <1>2, <1>4, <1>5, <1>6, <1>7

LEMMA RejectFrameLemma ==
  ASSUME NEW c, NEW s, Good(c, s), NEW m, NEW r, r = RejectFrame(c, s, m)
  PROVE  Good(c, r) /\ Forward(c, s, r) /\ r.receivedLogon = s.receivedLogon
<1> DEFINE t == IF m.seq > 0 THEN SendReject(c, s) ELSE s
<1>1. IsSession(s) /\ Forward(c, s, s)
  BY ForwardSame DEF Good, Sound
<1>2. Good(c, t) /\ Forward(c, s, t) /\ t.receivedLogon = s.receivedLogon
  BY <1>1, SendGood, RejectSendable DEF SendReject, SameState
<1>3. r = Fail(t, "invalid")
  BY DEF RejectFrame
<1> HIDE DEF t
<1>4. Sound(c, r) /\ SameState(t, r) /\ Forward(c, t, r) /\ IsSession(r) /\ IsSession(t)
  BY <1>2, <1>3, FailLemma DEF Good, Sound
<1> QED BY <1>1, <1>2, <1>4, GoodSame, ForwardTrans DEF SameState

LEMMA OnGapLemma ==
  ASSUME NEW c, NEW s, Good(c, s), s.socket # "none", NEW m, NEW r, r = OnGap(c, s, m)
  PROVE  Good(c, r) /\ Forward(c, s, r)
<1> DEFINE t   == [s EXCEPT !.awaitingResend = TRUE]
           msg == ResendRequestMsg(s.nextTarget, m.seq)
           u   == Send(c, t, msg)
<1>1. IsSession(s) /\ Sound(c, s) /\ Forward(c, s, s)
  BY ForwardSame DEF Good, Sound
<1>2. /\ IsSession(t)
      /\ t.status = s.status /\ t.sentLogon = s.sentLogon /\ t.receivedLogon = s.receivedLogon
      /\ t.awaitingTest = s.awaitingTest /\ t.testRequestID = s.testRequestID
      /\ t.resetOnDisconnect = s.resetOnDisconnect /\ t.socket = s.socket
      /\ t.outgoing = s.outgoing /\ t.nextSender = s.nextSender /\ t.nextTarget = s.nextTarget
  BY <1>1 DEF IsSession, Records
<1>3. r = Fail(s, "session") \/ r = u \/ r = Fail(u, "session")
  BY DEF OnGap
<1>4. Sendable(msg)
  BY ResendRequestSendable
<1> HIDE DEF t, msg
<1>5. Good(c, t) /\ Forward(c, s, t)
  BY <1>1, <1>2, ForwardSame DEF Good, Sound, LoggedOn, Ascends
<1>6. Good(c, u) /\ Forward(c, t, u) /\ IsSession(u) /\ Sound(c, u)
  BY <1>4, <1>5, SendGood DEF Good, Sound
<1>7. Forward(c, s, u)
  BY <1>1, <1>2, <1>5, <1>6, ForwardTrans
<1> HIDE DEF u
<1>8. CASE r = Fail(s, "session")
  BY <1>1, <1>8, FailLemma, GoodSame
<1>9. CASE r = Fail(u, "session")
  <2>1. Sound(c, r) /\ SameState(u, r) /\ Forward(c, u, r) /\ IsSession(r)
    BY <1>6, <1>9, FailLemma DEF Sound
  <2> QED BY <1>1, <1>6, <1>7, <2>1, GoodSame, ForwardTrans
<1> QED BY <1>3, <1>6, <1>7, <1>8, <1>9

LEMMA ProcessLemma ==
  ASSUME NEW c, NEW s, Good(c, s), s.socket # "none", NEW m, IsFrame(m),
         NEW r, r = Process(c, s, m)
  PROVE  Good(c, r) /\ KeepsNumbers(c, s, r)
<1> DEFINE t == Dispatch(c, s, m)
<1>1. Good(c, t) /\ KeepsNumbers(c, s, t)
  BY DispatchLemma
<1>2. r = t \/ r = Count(c, t, m) \/ r = RejectFrame(c, t, m)
  BY DEF Process
<1> HIDE DEF t
<1>3. ASSUME r = Count(c, t, m) \/ r = RejectFrame(c, t, m)
      PROVE  Good(c, r) /\ KeepsNumbers(c, s, r)
  <2>1. Good(c, r) /\ Forward(c, t, r) /\ r.receivedLogon = t.receivedLogon
    BY <1>1, <1>3, CountLemma, RejectFrameLemma
  <2>2. IsSession(s) /\ IsSession(t) /\ IsSession(r)
    BY <1>1, <2>1 DEF Good, Sound
  <2> QED BY <1>1, <2>1, <2>2, KeepsThenForward
<1> QED BY <1>1, <1>2, <1>3

LEMMA OnReceiveLemma ==
  ASSUME NEW c, NEW s, Good(c, s), s.socket # "none", NEW m, IsFrame(m),
         NEW r, r = OnReceive(c, s, m)
  PROVE  Good(c, r) /\ KeepsNumbers(c, s, r)
<1> DEFINE class == Classify(m.seq, s.nextTarget, m.possDup)
           flaw  == IF m.kind = "Flawed" THEN m.flaw ELSE "none"
<1>1. IsSession(s) /\ Sound(c, s) /\ Forward(c, s, s) /\ s.nextTarget \in Nat
  BY ForwardSame DEF Good, Sound, IsSession, Records
<1>2. flaw \in {"none", "unframed", "identity", "stale", "content"}
  BY DEF IsFrame
<1>3. class \in {"Expected", "Gap", "PossDupOld", "InvalidOld"}
  BY <1>1 DEF Classify, IsFrame
<1>4. CASE s.status = "Disconnected"
  BY <1>1, <1>4, ForwardKeeps DEF OnReceive
<1>5. CASE s.status # "Disconnected"
  <2>1. r = ReceiveFrame(c, s, m)
    BY <1>5 DEF OnReceive
  <2>2. \/ r = RejectFrame(c, s, m) \/ r = Fail(s, "session")
        \/ r = OnGap(c, s, m) \/ r = Process(c, s, m)
    BY <1>2, <1>3, <2>1 DEF ReceiveFrame
  <2>3. ASSUME r = RejectFrame(c, s, m) \/ r = Fail(s, "session") \/ r = OnGap(c, s, m)
        PROVE  Good(c, r) /\ Forward(c, s, r)
    BY <1>1, <2>3, RejectFrameLemma, OnGapLemma, FailLemma, GoodSame
  <2>4. ASSUME r = Process(c, s, m)
        PROVE  Good(c, r) /\ KeepsNumbers(c, s, r)
    BY <2>4, ProcessLemma
  <2> QED BY <1>1, <2>2, <2>3, <2>4, ForwardKeeps DEF Good, Sound
<1> QED BY <1>4, <1>5

-----------------------------------------------------------------------------
(* The actions.  Between calls the record holds no output.                  *)
Drained(s) == s.sent = <<>> /\ s.calls = <<>> /\ s.rc = "ok"

(* The inductive invariant: TypeOK, StoreAscends, CleanWhenClosed,          *)
(* LoggedOnBothWays, TestAwaitedInSession, and that the reset of the daily *)
(* schedule is asked for only where a reset is configured.                 *)
Inv ==
  /\ config \in Configs
  /\ timerCloses \in BOOLEAN
  /\ Good(config, sess)
  /\ Drained(sess)

(* What a step leaves behind when its call ends in r.                       *)
LEMMA BeginLemma ==
  ASSUME NEW c, NEW s, IsSession(s), NEW r, Good(c, r), KeepsNumbers(c, s, r),
         NEW t, t = Begin(r)
  PROVE  Good(c, t) /\ Drained(t) /\ KeepsNumbers(c, s, t)
<1>1. IsSession(r) /\ Sound(c, r)
  BY DEF Good, Sound
<1>2. /\ IsSession(t) /\ SameState(r, t) /\ Drained(t)
      /\ t.outgoing = r.outgoing /\ t.nextSender = r.nextSender
  BY <1>1 DEF Begin, IsSession, Records, SameState, Drained
<1> QED BY <1>2, SameGood DEF SameState, KeepsNumbers

(* The socket of the record is replaced, fails, or is gone.                 *)
LEMMA SocketLemma ==
  ASSUME NEW c, NEW s, Sound(c, s), NEW socket \in {"none", "open", "failing"},
         NEW r, r = [s EXCEPT !.socket = socket]
  PROVE  Sound(c, r) /\ Forward(c, s, r) /\ r.socket = socket /\ (Drained(s) => Drained(r))
<1>1. IsSession(s)
  BY DEF Sound
<1>2. /\ IsSession(r) /\ r.socket = socket
      /\ r.status = s.status /\ r.sentLogon = s.sentLogon /\ r.receivedLogon = s.receivedLogon
      /\ r.awaitingTest = s.awaitingTest /\ r.testRequestID = s.testRequestID
      /\ r.resetOnDisconnect = s.resetOnDisconnect
      /\ r.outgoing = s.outgoing /\ r.nextSender = s.nextSender /\ r.nextTarget = s.nextTarget
      /\ r.sent = s.sent /\ r.calls = s.calls /\ r.rc = s.rc
  BY <1>1 DEF IsSession, Records
<1>3. Sound(c, r)
  BY <1>2 DEF Sound, LoggedOn, Ascends
<1> QED BY <1>1, <1>2, <1>3, ForwardSame DEF Drained

LEMMA InitInv == Init => Inv
<1> SUFFICES ASSUME Init PROVE Inv
  OBVIOUS
<1>1. config \in AllConfigs /\ config.initiator \in BOOLEAN
  BY ConfigsAssumption DEF Init, AllConfigs
<1>2. /\ sess.status = "Disconnected" /\ sess.socket = "none"
      /\ sess.sentLogon = FALSE /\ sess.receivedLogon = FALSE
      /\ sess.sentLogout = FALSE /\ sess.receivedLogout = FALSE
      /\ sess.awaitingResend = FALSE /\ sess.resetOnDisconnect = FALSE
      /\ sess.awaitingTest = FALSE /\ sess.outgoing = <<>>
      /\ sess.sent = <<>> /\ sess.calls = <<>> /\ sess.rc = "ok"
  BY DEF Init, Created
<1>3. IsSession(sess)
  <2>1. <<>> \in Seq(StoredMessage) /\ 1 \in Nat \ {0} /\ "Disconnected" \in Statuses
    BY EmptySeq DEF Statuses
  <2>2. sess = [Created EXCEPT !.listening = ~config.initiator]
    BY DEF Init
  <2> QED BY ZenonT(60), <1>1, <2>1, <2>2 DEF Created, IsSession, Records
<1>4. Ascends(config, sess)
  BY <1>2, AscendsEmpty
<1>5. Good(config, sess)
  BY <1>2, <1>3, <1>4 DEF Good, Sound, Cleared, LoggedOn
<1> QED BY <1>2, <1>5 DEF Init, Inv, Drained

(* Every action keeps the invariant and, where no reset is configured, the  *)
(* numbers.                                                                *)
LEMMA NextInv ==
  ASSUME Inv, [Next]_vars
  PROVE  Inv' /\ KeepsNumbers(config, sess, sess')
<1>1. /\ config \in AllConfigs /\ Good(config, sess) /\ Sound(config, sess) /\ IsSession(sess)
      /\ Forward(config, sess, sess)
  BY ConfigsAssumption, ForwardSame DEF Inv, Good, Sound
<1>2. ASSUME NEW r, Good(config, r), Forward(config, sess, r), sess' = Begin(r),
             config' = config, timerCloses' \in BOOLEAN
      PROVE  Inv' /\ KeepsNumbers(config, sess, sess')
  <2>1. KeepsNumbers(config, sess, r)
    BY <1>1, <1>2, ForwardKeeps DEF Good, Sound
  <2> QED BY <1>1, <1>2, <2>1, BeginLemma DEF Inv
<1>3. CASE Connect
  <2>1. PICK socket \in {"open", "failing"} :
          sess' = Begin(OnConnected(config, [sess EXCEPT !.socket = socket]))
    BY <1>3 DEF Connect, Becomes
  <2> DEFINE t == [sess EXCEPT !.socket = socket]
             r == OnConnected(config, t)
  <2>2. Sound(config, t) /\ Forward(config, sess, t) /\ t.socket # "none"
    BY <1>1, SocketLemma
  <2>3. Good(config, r) /\ Forward(config, t, r)
    BY <2>2, OnConnectedLemma
  <2>4. Forward(config, sess, r)
    BY <1>1, <2>2, <2>3, ForwardTrans DEF Good, Sound
  <2> QED BY <1>2, <1>3, <2>1, <2>3, <2>4 DEF Connect, Inv
<1>4. ASSUME NEW m \in Frame, Receive(m)
      PROVE  Inv' /\ KeepsNumbers(config, sess, sess')
  <2> DEFINE r == OnReceive(config, sess, m)
  <2>1. sess' = Begin(r) /\ sess.socket # "none" /\ UNCHANGED <<config, timerCloses>>
    BY <1>4 DEF Receive, Becomes
  <2>2. Good(config, r) /\ KeepsNumbers(config, sess, r)
    BY <1>1, <2>1, FramesLemma, OnReceiveLemma
  <2> QED BY <1>1, <2>1, <2>2, BeginLemma DEF Inv
<1>5. CASE ConnectionLost
  <2> DEFINE t == [sess EXCEPT !.socket = "none"]
             r == OnDisconnected(config, t)
  <2>1. sess' = Begin(r) /\ UNCHANGED <<config, timerCloses>>
    BY <1>5 DEF ConnectionLost, Becomes
  <2>2. Sound(config, t) /\ Forward(config, sess, t)
    BY <1>1, SocketLemma
  <2>3. Good(config, r) /\ Forward(config, t, r)
    BY <2>2, OnDisconnectedLemma
  <2>4. Forward(config, sess, r)
    BY <1>1, <2>2, <2>3, ForwardTrans DEF Good, Sound
  <2> QED BY <1>2, <2>1, <2>3, <2>4 DEF Inv
<1>6. CASE SocketFails
  <2>1. sess' = [sess EXCEPT !.socket = "failing"] /\ UNCHANGED <<config, timerCloses>>
    BY <1>6 DEF SocketFails
  <2>2. Sound(config, sess') /\ Forward(config, sess, sess') /\ sess'.socket = "failing" /\ Drained(sess')
    BY <1>1, <2>1, SocketLemma DEF Inv
  <2> QED BY <1>1, <2>1, <2>2, ForwardKeeps DEF Inv, Good, Sound
<1>7. CASE DiskChanges
  <2> DEFINE disk == IF sess.disk = "ok" THEN "full" ELSE "ok"
  <2>1. sess' = [sess EXCEPT !.disk = disk] /\ UNCHANGED <<config, timerCloses>>
    BY <1>7 DEF DiskChanges
  <2>2. /\ IsSession(sess') /\ SameState(sess, sess') /\ Drained(sess')
        /\ sess'.outgoing = sess.outgoing /\ sess'.nextSender = sess.nextSender
    BY <1>1, <2>1 DEF IsSession, Records, SameState, Inv, Drained
  <2>3. Good(config, sess') /\ Forward(config, sess, sess')
    BY <1>1, <2>2, SameGood
  <2> QED BY <1>1, <2>1, <2>2, <2>3, ForwardKeeps DEF Inv
<1>8. ASSUME NEW due \in Deadlines, Timer(due)
      PROVE  Inv' /\ KeepsNumbers(config, sess, sess')
  <2> DEFINE r == OnTimer(config, sess, due)
  <2>1. sess' = Begin(r) /\ config' = config
    BY <1>8 DEF Timer, Becomes
  <2>2. timerCloses' \in BOOLEAN
    BY <1>8 DEF Timer
  <2>3. Good(config, r) /\ Forward(config, sess, r)
    BY <1>1, OnTimerLemma
  <2> QED BY <1>2, <2>1, <2>2, <2>3
<1>9. CASE TimerClose
  <2> DEFINE r == Close(config, sess)
  <2>1. sess' = Begin(r) /\ config' = config /\ timerCloses' = FALSE
    BY <1>9 DEF TimerClose, Becomes
  <2>2. Good(config, r) /\ Forward(config, sess, r)
    BY <1>1, CloseLemma
  <2> QED BY <1>2, <2>1, <2>2
<1>10. CASE Logout
  <2> DEFINE r == DoLogout(config, sess)
  <2>1. sess' = Begin(r) /\ UNCHANGED <<config, timerCloses>>
    BY <1>10 DEF Logout, Becomes
  <2>2. Good(config, r) /\ Forward(config, sess, r)
    BY <1>1, DoLogoutLemma
  <2> QED BY <1>2, <2>1, <2>2 DEF Inv
<1>11. ASSUME NEW body \in Bodies, AppSend(body)
       PROVE  Inv' /\ KeepsNumbers(config, sess, sess')
  <2> DEFINE r == Send(config, sess, AppMsg(body))
  <2>1. sess' = Begin(r) /\ UNCHANGED <<config, timerCloses>>
    BY <1>11 DEF AppSend, Becomes
  <2>2. Good(config, r) /\ Forward(config, sess, r)
    BY <1>1, SendGood, AppSendable
  <2> QED BY <1>2, <2>1, <2>2 DEF Inv
<1>12. CASE UNCHANGED vars
  BY <1>1, <1>12, ForwardKeeps DEF vars, Inv
<1> QED BY <1>3, <1>4, <1>5, <1>6, <1>7, <1>8, <1>9, <1>10, <1>11, <1>12 DEF Next

-----------------------------------------------------------------------------
(* The inductive invariant holds in every reachable state.                  *)
THEOREM Invariance == Spec => []Inv
<1>1. Inv /\ [Next]_vars => Inv'
  BY NextInv
<1> QED BY <1>1, InitInv, PTL DEF Spec

(* The session's record keeps its types: no number reaches zero, no         *)
(* undeclared status is entered, nothing is stored that was not sent.      *)
THEOREM TypeCorrect == Spec => []TypeOK
<1>1. Inv => TypeOK
  <2> SUFFICES ASSUME Inv PROVE TypeOK
    OBVIOUS
  <2>1. sess \in Records(<<>>, <<>>) /\ sess.rc = "ok"
    BY DEF Inv, Good, Sound, IsSession, Drained
  <2> QED BY <2>1 DEF Inv, TypeOK, Records
<1> QED BY <1>1, Invariance, PTL

(* The store ascends, and stays below the next number, whatever is sent,    *)
(* refused, reset or lost.                                                 *)
THEOREM StoreAlwaysAscends == Spec => []StoreAscends
<1>1. Inv => StoreAscends
  BY DEF Inv, Good, Sound, Ascends, Precedes, StoreAscends
<1> QED BY <1>1, Invariance, PTL

(* A session whose connection has no socket carries nothing over.           *)
THEOREM AlwaysCleanWhenClosed == Spec => []CleanWhenClosed
<1>1. Inv => CleanWhenClosed
  BY DEF Inv, Good, Cleared, CleanWhenClosed
<1> QED BY <1>1, Invariance, PTL

(* Logged on means a Logon sent and a Logon received, at any interleaving   *)
(* of frames, timers, losses and calls of the application.                 *)
THEOREM AlwaysLoggedOnBothWays == Spec => []LoggedOnBothWays
<1>1. Inv => LoggedOnBothWays
  BY DEF Inv, Good, Sound, LoggedOnBothWays
<1> QED BY <1>1, Invariance, PTL

(* A test request is awaited only by the session that sent it.              *)
THEOREM TestsAwaitedInSession == Spec => []TestAwaitedInSession
<1>1. Inv => TestAwaitedInSession
  BY DEF Inv, Good, Sound, TestAwaitedInSession
<1> QED BY <1>1, Invariance, PTL

(* Without a reset setting no step lowers the session's own number, and     *)
(* only the first Logon of a connection lowers the expected one.           *)
THEOREM NumbersAlwaysKept == Spec => NumbersKept
<1>1. Inv /\ [Next]_vars =>
        [~Resets(config) =>
           /\ sess'.nextSender >= sess.nextSender
           /\ sess'.nextTarget < sess.nextTarget => ~sess.receivedLogon /\ sess'.receivedLogon]_vars
  BY NextInv DEF KeepsNumbers
<1> QED BY <1>1, Invariance, PTL DEF Spec, NumbersKept

=============================================================================
