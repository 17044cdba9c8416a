------------------------------ MODULE FileStore ------------------------------
(***************************************************************************)
(* The file message store under the session that uses it, and a process    *)
(* that may be killed between any two of its file operations and started   *)
(* again.  A call of the session is several steps here: Session::send      *)
(* writes to the wire, stores and then takes the number; onReceive hands   *)
(* the message to the application, stores it and then counts it; a reset   *)
(* truncates outgoing.bin and then rewrites seq.meta.                      *)
(*                                                                         *)
(* A record of outgoing.bin is its number and whether its bytes are the    *)
(* ones that were sent.  A record that was written in part, in its header  *)
(* or behind it, ends what a load can trust: the file is the records       *)
(* before it (whole), the number the torn one was to have (torn, 0 for     *)
(* none) and whether anything was appended behind it (behind).  A load     *)
(* that finds bytes behind a torn record takes them for its missing end:   *)
(* it makes up records until a header it reads is out of range.  The       *)
(* number of a made-up record may be put together from the bytes of two    *)
(* headers, so it is any of Misread.                                       *)
(*                                                                         *)
(* seq.meta is <<>> when it is missing or empty.  incoming.bin is written  *)
(* and never read.  The disk may be full at any operation.  The files can  *)
(* always be opened, and what was written is not lost by the machine.      *)
(***************************************************************************)
EXTENDS Integers, Sequences

CONSTANTS
  MaxNumber,   \* no call is made once a number is beyond it
  MaxRecords,  \* nor once the file or the memory holds so many records
  Misread,     \* numbers that a header read across two records may show
  MaxMadeUp    \* so many records at most are made up by one load

ASSUME BoundsAssumption ==
  MaxNumber \in Nat /\ MaxRecords \in Nat /\ Misread \subseteq Nat \ {0} /\ MaxMadeUp \in Nat

VARIABLES
  persistMessages,   \* m_persistMessages, fixed when the store is created
  up,          \* the process runs
  pc,          \* how far the session's call has come
  outgoing,    \* m_outgoing
  nextSender,  \* m_nextSenderSeqNum
  nextTarget,  \* m_nextTargetSeqNum
  kept,        \* senderSeq of handleLogonReceived, 0 when not in use
  file,        \* outgoing.bin
  meta,        \* seq.meta
  (* What the session did since its numbers last started from one.         *)
  spent,       \* the highest number it wrote to the wire
  got,         \* the highest number it handed to the application
  owed,        \* numbers of the messages it counted as stored since its last reset
  forgotten,   \* numbers were lost while outgoing.bin kept its records
  interrupted  \* a crash kept the sender's number from being set back

memory  == <<outgoing, nextSender, nextTarget>>
disk    == <<file, meta>>
history == <<spent, got, owed, forgotten, interrupted>>
vars    == <<persistMessages, up, pc, memory, kept, disk, history>>

Record(n, intact) == [seq |-> n, intact |-> intact]
Larger(a, b)      == IF a > b THEN a ELSE b

EmptyFile == [whole |-> <<>>, torn |-> 0, behind |-> FALSE]

(* A machine on which the session has never run.                           *)
Init ==
  /\ persistMessages \in BOOLEAN
  /\ up = FALSE /\ pc = "idle"
  /\ outgoing = <<>> /\ nextSender = 1 /\ nextTarget = 1 /\ kept = 0
  /\ file = EmptyFile /\ meta = <<>>
  /\ spent = 0 /\ got = 0 /\ owed = {} /\ forgotten = FALSE /\ interrupted = FALSE

At(place) == up /\ pc = place

(* A new call of the session starts.                                       *)
Called ==
  /\ At("idle")
  /\ nextSender =< MaxNumber /\ nextTarget =< MaxNumber
  /\ Len(outgoing) < MaxRecords /\ Len(file.whole) < MaxRecords
  /\ UNCHANGED persistMessages

(* A call that has started goes on.                                        *)
Reached(place) == At(place) /\ UNCHANGED persistMessages

-----------------------------------------------------------------------------
(* The files.                                                              *)
Appended_bug(f, n) ==   \* opened without std::ios::app
  [f EXCEPT !.whole = <<n>>]
Appended(f, n) ==
  IF f.torn = 0 THEN [f EXCEPT !.whole = Append(@, n)] ELSE [f EXCEPT !.behind = TRUE]

(* A write that stops in the middle, be it of the header.                   *)
TornAt(f, n) == IF f.torn = 0 THEN [f EXCEPT !.torn = n] ELSE [f EXCEPT !.behind = TRUE]

(* persistMeta: the file is truncated first, so a full disk leaves it empty *)
(* and nobody hears of it.                                                 *)
Persist(sender, target) == meta' \in {<<sender, target>>, <<>>}

(* What a load may make of bytes that do not begin with a header.           *)
MadeUp == UNION {[1..k -> {Record(n, FALSE) : n \in Misread}] : k \in 0..MaxMadeUp}

(* loadOutgoing                                                            *)
Restored(f) ==
  LET good == [i \in DOMAIN f.whole |-> Record(f.whole[i], TRUE)]
  IN  {good} \cup (IF f.torn # 0 /\ f.behind THEN {good \o made : made \in MadeUp} ELSE {})

-----------------------------------------------------------------------------
(* Session::send.  The message is on the wire first.                       *)
Write ==
  /\ Called
  /\ pc' = "store"
  /\ spent' = Larger(spent, nextSender)
  /\ UNCHANGED <<up, memory, kept, disk, got, owed, forgotten, interrupted>>

(* storeOutgoing: in memory first.  A short record is only written when the *)
(* stream is closed, after the result was taken: a full disk is noticed for *)
(* a long record and passes for a success for a short one.                 *)
Store ==
  /\ Reached("store")
  /\ persistMessages
  /\ outgoing' = Append(outgoing, Record(nextSender, TRUE))
  /\ \/ /\ file' = Appended(file, nextSender)
        /\ owed' = owed \cup {nextSender}
        /\ pc' = "sent"
     \/ /\ file' \in {file, TornAt(file, nextSender)}
        /\ pc' \in {"sent", "idle"}
        /\ UNCHANGED owed
  /\ UNCHANGED <<up, nextSender, nextTarget, kept, meta, spent, got, forgotten, interrupted>>

StoreNothing ==
  /\ Reached("store")
  /\ ~persistMessages
  /\ pc' = "sent"
  /\ UNCHANGED <<up, memory, kept, disk, history>>

(* incrNextSenderSeqNum                                                    *)
TakeNumber_bug ==   \* keeps it in memory
  /\ Reached("sent")
  /\ nextSender' = nextSender + 1
  /\ pc' = "idle"
  /\ UNCHANGED <<up, outgoing, nextTarget, kept, disk, history>>
TakeNumber ==
  /\ Reached("sent")
  /\ nextSender' = nextSender + 1
  /\ Persist(nextSender + 1, nextTarget)
  /\ pc' = "idle"
  /\ UNCHANGED <<up, outgoing, nextTarget, kept, file, history>>

(* onReceive for the message that is expected next.                        *)
Dispatch ==
  /\ Called
  /\ pc' = "received"
  /\ got' = Larger(got, nextTarget)
  /\ UNCHANGED <<up, memory, kept, disk, spent, owed, forgotten, interrupted>>

(* storeIncoming fails: the message is not counted.                        *)
StoreIncomingFails ==
  /\ Reached("received")
  /\ pc' = "idle"
  /\ UNCHANGED <<up, memory, kept, disk, history>>

(* incrNextTargetSeqNum                                                    *)
Count_bug ==   \* before the application has the message
  /\ Called
  /\ nextTarget' = nextTarget + 1
  /\ Persist(nextSender, nextTarget + 1)
  /\ UNCHANGED <<up, pc, outgoing, nextSender, kept, file, history>>
Count ==
  /\ Reached("received")
  /\ nextTarget' = nextTarget + 1
  /\ Persist(nextSender, nextTarget + 1)
  /\ pc' = "idle"
  /\ UNCHANGED <<up, outgoing, nextSender, kept, file, history>>

(* handleSequenceResetReceived: the counterparty declares what is below new *)
(* as done.                                                                *)
SkipTo(new) ==
  /\ Called
  /\ new > nextTarget
  /\ nextTarget' = new
  /\ Persist(nextSender, new)
  /\ got' = Larger(got, new - 1)
  /\ UNCHANGED <<up, pc, outgoing, nextSender, kept, file, spent, owed, forgotten, interrupted>>

(* MessageStoreBase::reset up to clearPersisted.  onDisconnected and        *)
(* sendLogon call it; handleLogonReceived calls it and then sets the        *)
(* sender's number back to what it was.                                    *)
Clear_bug(keepsSender) ==   \* leaves the files to persistMeta
  /\ Called
  /\ outgoing' = <<>> /\ nextSender' = 1 /\ nextTarget' = 1
  /\ kept' = IF keepsSender THEN nextSender ELSE 0
  /\ owed' = {} /\ forgotten' = FALSE
  /\ pc' = "cleared"
  /\ UNCHANGED <<up, disk, spent, got, interrupted>>
Clear(keepsSender) ==
  /\ Called
  /\ outgoing' = <<>> /\ nextSender' = 1 /\ nextTarget' = 1
  /\ kept' = IF keepsSender THEN nextSender ELSE 0
  /\ file' = EmptyFile
  /\ owed' = {} /\ forgotten' = FALSE
  /\ pc' = "cleared"
  /\ UNCHANGED <<up, meta, spent, got, interrupted>>

(* The persistMeta of reset.  The received numbers start again.  The       *)
(* sender's are meant to only where they are not set back afterwards.      *)
PersistReset ==
  /\ Reached("cleared")
  /\ Persist(1, 1)
  /\ got' = 0
  /\ \/ kept = 0 /\ spent' = 0 /\ interrupted' = FALSE /\ pc' = "idle"
     \/ kept # 0 /\ pc' = "reset" /\ UNCHANGED <<spent, interrupted>>
  /\ UNCHANGED <<up, memory, kept, file, owed, forgotten>>

(* setNextSenderSeqNum(senderSeq)                                          *)
SetSenderBack ==
  /\ Reached("reset")
  /\ nextSender' = kept
  /\ Persist(kept, nextTarget)
  /\ kept' = 0
  /\ pc' = "idle"
  /\ UNCHANGED <<up, outgoing, nextTarget, file, history>>

-----------------------------------------------------------------------------
(* The process is killed, possibly in the middle of the file operation that *)
(* comes next.                                                             *)
Persisting == pc \in {"sent", "received", "cleared", "reset"}

Crash ==
  /\ up
  /\ up' = FALSE
  /\ UNCHANGED persistMessages
  /\ pc' = "idle"
  /\ outgoing' = <<>> /\ nextSender' = 1 /\ nextTarget' = 1 /\ kept' = 0
  /\ meta' \in {meta} \cup (IF Persisting THEN {<<>>} ELSE {})
  /\ file' \in {file} \cup (IF pc = "store" /\ persistMessages THEN {TornAt(file, nextSender)} ELSE {})
  /\ interrupted' = (interrupted \/ pc = "reset")
  /\ UNCHANGED <<spent, got, owed, forgotten>>

(* The constructor: loadMeta, then loadOutgoing.  Without numbers the       *)
(* session starts again from one.                                          *)
Restart ==
  /\ ~up
  /\ up' = TRUE
  /\ outgoing' \in Restored(file)
  /\ IF meta = <<>>
       THEN /\ nextSender' = 1 /\ nextTarget' = 1
            /\ spent' = 0 /\ got' = 0 /\ owed' = {} /\ interrupted' = FALSE
            /\ forgotten' = (forgotten \/ file # EmptyFile)
       ELSE /\ nextSender' = meta[1] /\ nextTarget' = meta[2]
            /\ UNCHANGED history
  /\ UNCHANGED <<persistMessages, pc, kept, disk>>

Next ==
  \/ Write \/ Store \/ StoreNothing \/ TakeNumber
  \/ Dispatch \/ StoreIncomingFails \/ Count
  \/ \E new \in 1..MaxNumber : SkipTo(new)
  \/ \E keepsSender \in BOOLEAN : Clear(keepsSender)
  \/ PersistReset \/ SetSenderBack
  \/ Crash \/ Restart

Spec == Init /\ [][Next]_vars

-----------------------------------------------------------------------------
TypeOK ==
  /\ persistMessages \in BOOLEAN /\ up \in BOOLEAN
  /\ pc \in {"idle", "store", "sent", "received", "cleared", "reset"}
  /\ outgoing \in Seq([seq : Nat \ {0}, intact : BOOLEAN])
  /\ nextSender \in Nat \ {0} /\ nextTarget \in Nat \ {0} /\ kept \in Nat
  /\ file \in [whole : Seq(Nat \ {0}), torn : Nat, behind : BOOLEAN]
  /\ meta \in {<<>>} \cup ((Nat \ {0}) \X (Nat \ {0}))
  /\ spent \in Nat /\ got \in Nat /\ owed \in SUBSET (Nat \ {0})
  /\ forgotten \in BOOLEAN /\ interrupted \in BOOLEAN

(* A restart that finds its numbers gives out again at most the one number  *)
(* whose message was on the wire but not yet counted, and none before it:   *)
(* seq.meta never falls behind by more than the call in progress (the order *)
(* of write, storeOutgoing and incrNextSenderSeqNum in Session::send, a     *)
(* full reset, a reset that keeps the sender's number).  There is one       *)
(* exception: while a received Logon resets the session, seq.meta says one  *)
(* for the sender between reset and setNextSenderSeqNum (session.cpp        *)
(* 774-778), and a process killed there starts again with numbers it has    *)
(* used, until a full reset or a loss of its numbers.                      *)
NumbersNotReused ==
  meta # <<>> /\ pc # "reset" /\ ~interrupted => meta[1] \in {spent, spent + 1}

(* A crash may have a message delivered to the application twice but never  *)
(* has one lost: the number on disk is never beyond the first message the   *)
(* application has not seen (dispatchInbound before incrNextTargetSeqNum).  *)
ReceivedNotLost == meta # <<>> => meta[2] \in {got, got + 1}

(* Every message that was counted as stored since the last reset is in      *)
(* outgoing.bin for the next process, whatever crashes came in between;     *)
(* a torn record hides only what was stored behind it.                      *)
StoredSurvives ==
  ~forgotten => \A n \in owed :
    \/ \E i \in DOMAIN file.whole : file.whole[i] = n
    \/ file.torn # 0 /\ file.behind /\ n >= file.torn

(* As long as the numbers were never lost, the messages in memory ascend,   *)
(* after any restart and append, so that getOutgoing may stop at the first  *)
(* number beyond its range; and none is beyond the next number.  This is    *)
(* so of the messages that were sent; a record that a load made up from     *)
(* bytes behind a torn one may have any number, and getOutgoing then stops  *)
(* at it too early.                                                        *)
Sent == {i \in DOMAIN outgoing : outgoing[i].intact}
AscendsAfterRestart ==
  ~forgotten /\ up =>
    /\ \A i, j \in Sent : i < j => outgoing[i].seq =< outgoing[j].seq
    /\ \A i \in Sent : outgoing[i].seq =< nextSender

(* What the next process finds: numbers that only advance, or start again   *)
(* from one, and records that are only added at the end, or all dropped.    *)
(* Neither a crash nor a full disk takes a number back by a little or a     *)
(* record out of the middle (persistMeta, appendOutgoing, clearPersisted).  *)
Numbers == IF meta = <<>> THEN <<1, 1>> ELSE meta
Found   == INSTANCE DurableLog WITH Number <- 1..MaxNumber, log <- file.whole, numbers <- Numbers
Durable == Found!Spec

=============================================================================
