-------------------------- MODULE FileStore_proofs --------------------------
(***************************************************************************)
(* Proofs about the file store: for numbers and files of any size, and for *)
(* crashes and full disks at every step, what the next process finds is    *)
(* what the session's promises need.                                       *)
(***************************************************************************)
EXTENDS FileStore, SequenceTheorems, TLAPS

Positive == Nat \ {0}

Ascending(s)   == \A i, j \in DOMAIN s : i < j => s[i] =< s[j]
UpTo(s, n)     == \A i \in DOMAIN s : s[i] =< n
FileUpTo(f, n) == UpTo(f.whole, n) /\ (f.torn # 0 => f.torn =< n)

(* The records of the file ascend, the torn one included.                   *)
FileAscends(f) == Ascending(f.whole) /\ (f.torn # 0 => UpTo(f.whole, f.torn))

Resetting == pc \in {"cleared", "reset"}

(* The numbers on disk are close to what was sent and delivered.            *)
DiskNear == NumbersNotReused /\ ReceivedNotLost

(* So are the numbers in memory, and they are the ones on disk unless those *)
(* were lost.  While a reset is under way they are one, and the sender's    *)
(* number that is to come back is close to what was sent.                   *)
MemoryNear ==
  up /\ ~Resetting =>
    /\ ~interrupted => nextSender \in {spent, spent + 1}
    /\ nextTarget \in {got, got + 1}
    /\ ~interrupted /\ pc \in {"store", "sent"} => nextSender = spent
    /\ pc = "store" => nextSender =< MaxNumber
    /\ pc = "received" => nextTarget = got
    /\ meta # <<>> => meta = <<nextSender, nextTarget>>

InReset ==
  up /\ Resetting =>
    /\ nextSender = 1 /\ nextTarget = 1 /\ outgoing = <<>>
    /\ file = EmptyFile /\ owed = {}
    /\ kept # 0 /\ ~interrupted => kept \in {spent, spent + 1}
    /\ pc = "reset" => kept # 0 /\ got = 0 /\ meta \in {<<1, 1>>, <<>>}

DownIsIdle == ~up => pc = "idle"

(* Unless numbers were forgotten the file ascends and stays below the next  *)
(* number, the one in memory and the one on disk.                          *)
FileOrdered ==
  ~forgotten =>
    /\ FileAscends(file)
    /\ up /\ ~Resetting => FileUpTo(file, nextSender)
    /\ meta # <<>> => FileUpTo(file, meta[1])

(* The inductive invariant.                                                *)
Near == TypeOK /\ DiskNear /\ MemoryNear /\ InReset /\ DownIsIdle
Inv  == Near /\ FileOrdered /\ StoredSurvives /\ AscendsAfterRestart

-----------------------------------------------------------------------------
(* What the helpers return.                                                *)

LEMMA LargerLemma ==
  ASSUME NEW a \in Nat, NEW b \in Nat
  PROVE  Larger(a, b) \in Nat /\ Larger(a, b) >= a /\ Larger(a, b) >= b
         /\ Larger(a, b) \in {a, b}
BY DEF Larger

Records == [seq : Nat \ {0}, intact : BOOLEAN]
Files   == [whole : Seq(Nat \ {0}), torn : Nat, behind : BOOLEAN]

(* What a load makes up are records, and none of them was sent.             *)
LEMMA MadeUpLemma ==
  ASSUME NEW made \in MadeUp
  PROVE  made \in Seq(Records) /\ \A i \in 1..Len(made) : ~made[i].intact
<1>1. PICK k \in 0..MaxMadeUp : made \in [1..k -> {Record(n, FALSE) : n \in Misread}]
  BY DEF MadeUp
<1>2. \A i \in 1..k : made[i] \in Records /\ ~made[i].intact
  <2>1. TAKE i \in 1..k
  <2>2. PICK n \in Misread : made[i] = Record(n, FALSE)
    BY <1>1
  <2>3. n \in Nat \ {0}
    BY BoundsAssumption
  <2> QED BY <2>2, <2>3 DEF Record, Records
<1>3. k \in Nat
  BY <1>1, BoundsAssumption
<1>4. made \in [1..k -> Records]
  BY <1>1, <1>2
<1>5. made \in Seq(Records)
  BY ZenonT(60), <1>3, <1>4, SeqDef
<1>6. Len(made) = k
  BY <1>3, <1>4, <1>5
<1> QED BY <1>2, <1>5, <1>6

(* Restored gives a sequence of records: those of the file that are whole,  *)
(* in their order, and behind them only ones that were not sent.           *)
LEMMA RestoredLemma ==
  ASSUME NEW f \in Files, NEW r \in Restored(f)
  PROVE  /\ r \in Seq(Records)
         /\ \A i \in DOMAIN r : r[i].intact => i \in DOMAIN f.whole /\ r[i].seq = f.whole[i]
<1> DEFINE good == [i \in DOMAIN f.whole |-> Record(f.whole[i], TRUE)]
<1>1. f.whole \in Seq(Nat \ {0}) /\ f.torn \in Nat
  BY DEF Files
<1>2. DOMAIN f.whole = 1..Len(f.whole) /\ Len(f.whole) \in Nat
  BY <1>1
<1>3. good \in Seq(Records) /\ Len(good) = Len(f.whole)
  <2>1. \A i \in 1..Len(f.whole) : Record(f.whole[i], TRUE) \in Records
    BY <1>1, <1>2 DEF Record, Records
  <2>2. good \in [1..Len(f.whole) -> Records]
    BY <1>2, <2>1
  <2>3. DOMAIN good = 1..Len(f.whole)
    BY <1>2
  <2> HIDE DEF good
  <2>4. good \in Seq(Records)
    BY ZenonT(60), <1>2, <2>2, SeqDef
  <2>5. Len(good) = Len(f.whole)
    BY <1>2, <2>3, <2>4
  <2> QED BY <2>4, <2>5
<1>4. \A i \in DOMAIN good : good[i].seq = f.whole[i]
  BY DEF Record
<1> HIDE DEF good
<1>5. CASE r = good
  BY <1>2, <1>3, <1>4, <1>5
<1>6. ASSUME NEW made \in MadeUp, r = good \o made
      PROVE  /\ r \in Seq(Records)
             /\ \A i \in DOMAIN r : r[i].intact => i \in DOMAIN f.whole /\ r[i].seq = f.whole[i]
  <2>1. made \in Seq(Records) /\ \A i \in 1..Len(made) : ~made[i].intact
    BY MadeUpLemma
  <2>2. /\ r \in Seq(Records) /\ Len(r) = Len(f.whole) + Len(made)
        /\ \A i \in 1..(Len(f.whole) + Len(made)) :
             r[i] = IF i =< Len(f.whole) THEN good[i] ELSE made[i - Len(f.whole)]
    <3>1. /\ good \o made \in Seq(Records) /\ Len(good \o made) = Len(good) + Len(made)
          /\ \A i \in 1..(Len(good) + Len(made)) :
               (good \o made)[i] = IF i =< Len(good) THEN good[i] ELSE made[i - Len(good)]
      BY <1>3, <2>1, ConcatProperties
    <3> QED BY <1>3, <1>6, <3>1
  <2>3. DOMAIN r = 1..(Len(f.whole) + Len(made)) /\ Len(made) \in Nat
    BY <2>1, <2>2
  <2>4. ASSUME NEW i \in DOMAIN r, r[i].intact
        PROVE  i \in DOMAIN f.whole /\ r[i].seq = f.whole[i]
    <3>1. CASE i =< Len(f.whole)
      <4>1. i \in 1..Len(f.whole) /\ r[i] = good[i]
        BY <1>2, <2>2, <2>3, <3>1
      <4> QED BY <1>2, <1>3, <1>4, <4>1
    <3>2. CASE ~(i =< Len(f.whole))
      <4>1. i - Len(f.whole) \in 1..Len(made) /\ r[i] = made[i - Len(f.whole)]
        BY <1>2, <2>2, <2>3, <3>2
      <4> QED BY <2>1, <2>4, <4>1
    <3> QED BY <3>1, <3>2
  <2> QED BY <2>2, <2>4
<1>7. r \in {good} \cup (IF f.torn # 0 /\ f.behind THEN {good \o made : made \in MadeUp} ELSE {})
  BY DEF Restored, good
<1>8. r = good \/ \E made \in MadeUp : r = good \o made
  BY <1>7
<1> QED BY <1>5, <1>6, <1>8

(* What an append, or one that stops in the middle, makes of the file.      *)
LEMMA AppendedLemma ==
  ASSUME NEW f \in Files, NEW n \in Positive, FileAscends(f), FileUpTo(f, n),
         NEW g \in {Appended(f, n), TornAt(f, n)}
  PROVE  FileAscends(g) /\ FileUpTo(g, n)
<1>1. f.whole \in Seq(Positive) /\ f.torn \in Nat
  BY DEF Files, Positive
<1>2. CASE f.torn = 0 /\ g = Appended(f, n)
  <2>1. g.whole = Append(f.whole, n) /\ g.torn = 0
    BY <1>2 DEF Appended, Files
  <2>2. DOMAIN g.whole = 1..(Len(f.whole) + 1) /\ DOMAIN f.whole = 1..Len(f.whole) /\ Len(f.whole) \in Nat
    BY <1>1, <2>1 DEF Positive
  <2>3. \A i \in 1..Len(f.whole) : g.whole[i] = f.whole[i]
    BY <1>1, <2>1, <2>2 DEF Positive
  <2>4. g.whole[Len(f.whole) + 1] = n
    BY <1>1, <2>1, <2>2 DEF Positive
  <2>5. \A i \in 1..Len(f.whole) : f.whole[i] =< n /\ f.whole[i] \in Nat
    BY <1>1, <2>2 DEF FileUpTo, UpTo, Positive
  <2>6. \A i \in DOMAIN g.whole : g.whole[i] =< n
    BY <2>2, <2>3, <2>4, <2>5 DEF Positive
  <2>7. ASSUME NEW i \in DOMAIN g.whole, NEW j \in DOMAIN g.whole, i < j
        PROVE  g.whole[i] =< g.whole[j]
    <3>1. i \in 1..Len(f.whole)
      BY <2>2, <2>7
    <3>2. CASE j = Len(f.whole) + 1
      BY <3>1, <3>2, <2>3, <2>4, <2>5
    <3>3. CASE j \in 1..Len(f.whole)
      BY <3>1, <3>3, <2>2, <2>3, <2>7 DEF FileAscends, Ascending
    <3> QED BY <2>2, <3>2, <3>3
  <2> QED BY <2>1, <2>6, <2>7 DEF FileAscends, FileUpTo, Ascending, UpTo
<1>3. CASE ~(f.torn = 0 /\ g = Appended(f, n))
  <2>1. g.whole = f.whole /\ g.torn = IF f.torn = 0 THEN n ELSE f.torn
    BY <1>3 DEF Appended, TornAt, Files
  <2> QED BY <2>1, <1>1 DEF FileAscends, FileUpTo, UpTo, Positive
<1> QED BY <1>2, <1>3

(* The types of what a reset leaves.                                        *)
LEMMA EmptyTypes == EmptyFile \in Files /\ <<>> \in Seq(Records)
<1>1. <<>> \in Seq(Nat \ {0}) /\ <<>> \in Seq(Records)
  BY EmptySeq
<1> QED BY <1>1 DEF EmptyFile, Files

(* Both keep the type of a file.                                            *)
LEMMA AppendedType ==
  ASSUME NEW f \in Files, NEW n \in Positive
  PROVE  Appended(f, n) \in Files /\ TornAt(f, n) \in Files
<1>1. f.whole \in Seq(Positive) /\ f.torn \in Nat /\ f.behind \in BOOLEAN
  BY DEF Files, Positive
<1>2. Append(f.whole, n) \in Seq(Positive)
  BY <1>1
<1>3. \A w \in Seq(Positive) : [f EXCEPT !.whole = w] \in Files
  BY DEF Files, Positive
<1>4. [f EXCEPT !.torn = n] \in Files /\ [f EXCEPT !.behind = TRUE] \in Files
  BY DEF Files, Positive
<1>5. Appended(f, n) \in Files
  BY <1>2, <1>3, <1>4 DEF Appended
<1> QED BY <1>4, <1>5 DEF TornAt

-----------------------------------------------------------------------------
(* The types, and the numbers of the disk, of memory and of the history.    *)

LEMMA InitInv == Init => Inv
<1> SUFFICES ASSUME Init PROVE Inv
  OBVIOUS
<1>1. TypeOK
  <2>1. file \in Files
    BY EmptyTypes DEF Init
  <2>2. outgoing \in Seq(Records)
    BY EmptyTypes DEF Init
  <2>3. persistMessages \in BOOLEAN /\ up \in BOOLEAN /\ forgotten \in BOOLEAN /\ interrupted \in BOOLEAN
    BY DEF Init
  <2> QED BY <2>1, <2>2, <2>3 DEF Init, TypeOK, Files, Records
<1>2. Near
  BY <1>1 DEF Init, Near, DiskNear, NumbersNotReused, ReceivedNotLost, MemoryNear, InReset, DownIsIdle
<1>3. FileOrdered
  BY DEF Init, FileOrdered, FileAscends, FileUpTo, Ascending, UpTo, EmptyFile
<1> QED BY <1>2, <1>3 DEF Inv, Init, StoredSurvives, AscendsAfterRestart, Sent

LEMMA TypeStep ==
  ASSUME Near, Next
  PROVE  TypeOK'
<1> USE DEF Near
<1>1. CASE Write
  BY <1>1, LargerLemma DEF TypeOK, Write, Called, memory, disk
<1>2. CASE Store
  <2>1. Record(nextSender, TRUE) \in [seq : Nat \ {0}, intact : BOOLEAN]
    BY DEF TypeOK, Record
  <2>2. outgoing' \in Seq([seq : Nat \ {0}, intact : BOOLEAN])
    <3>1. outgoing' = Append(outgoing, Record(nextSender, TRUE))
      BY <1>2 DEF Store
    <3>2. outgoing \in Seq([seq : Nat \ {0}, intact : BOOLEAN])
      BY DEF TypeOK
    <3> QED BY <2>1, <3>1, <3>2, AppendProperties
  <2>3. file' \in Files
    <3>1. file \in Files /\ nextSender \in Positive
      BY DEF TypeOK, Files, Positive
    <3>2. file' \in {file, Appended(file, nextSender), TornAt(file, nextSender)}
      BY <1>2 DEF Store
    <3> QED BY <3>1, <3>2, AppendedType
  <2>4. owed' \in SUBSET (Nat \ {0})
    BY <1>2 DEF TypeOK, Store
  <2> QED BY <1>2, <2>2, <2>3, <2>4 DEF TypeOK, Store, Reached, Files
<1>3. CASE StoreNothing
  BY <1>3 DEF TypeOK, StoreNothing, Reached, memory, disk, history
<1>4. CASE TakeNumber
  BY <1>4 DEF TypeOK, TakeNumber, Reached, Persist, disk, history
<1>5. CASE Dispatch
  BY <1>5, LargerLemma DEF TypeOK, Dispatch, Called, memory, disk
<1>6. CASE StoreIncomingFails
  BY <1>6 DEF TypeOK, StoreIncomingFails, Reached, memory, disk, history
<1>7. CASE Count
  BY <1>7 DEF TypeOK, Count, Reached, Persist, disk, history
<1>8. ASSUME NEW new \in 1..MaxNumber, SkipTo(new) PROVE TypeOK'
  <2>1. new \in Nat \ {0} /\ new - 1 \in Nat
    BY BoundsAssumption
  <2>2. Larger(got, new - 1) \in Nat
    BY <2>1, LargerLemma DEF TypeOK
  <2> QED BY SMTT(30), <1>8, <2>1, <2>2 DEF TypeOK, SkipTo, Called, Persist
<1>9. ASSUME NEW keepsSender \in BOOLEAN, Clear(keepsSender) PROVE TypeOK'
  <2>1. file' \in Files /\ outgoing' \in Seq(Records)
    BY <1>9, EmptyTypes DEF Clear
  <2>2. persistMessages' \in BOOLEAN /\ up' \in BOOLEAN /\ forgotten' \in BOOLEAN /\ interrupted' \in BOOLEAN
    BY <1>9 DEF TypeOK, Clear, Called
  <2> QED BY <1>9, <2>1, <2>2 DEF TypeOK, Clear, Files, Records
<1>10. CASE PersistReset
  <2>1. pc' \in {"idle", "reset"} /\ meta' \in {<<1, 1>>, <<>>}
    BY <1>10 DEF PersistReset, Persist
  <2>2. spent' \in {0, spent} /\ got' = 0 /\ interrupted' \in {FALSE, interrupted}
        /\ UNCHANGED <<persistMessages, up, outgoing, nextSender, nextTarget, kept, file, owed, forgotten>>
    BY <1>10 DEF PersistReset, Reached, memory
  <2>3. interrupted \in BOOLEAN /\ FALSE \in BOOLEAN
    BY DEF TypeOK
  <2>4. interrupted' \in BOOLEAN
    BY Zenon, <2>2, <2>3
  <2>5. spent' \in Nat
    BY <2>2 DEF TypeOK
  <2> QED BY <2>1, <2>2, <2>4, <2>5 DEF TypeOK
<1>11. CASE SetSenderBack
  <2>1. kept \in Nat \ {0}
    BY <1>11 DEF TypeOK, SetSenderBack, Reached, At, InReset, Resetting
  <2> QED BY <1>11, <2>1 DEF TypeOK, SetSenderBack, Reached, Persist, history
<1>12. CASE Crash
  <2>1. file' \in Files
    <3>1. file \in Files /\ nextSender \in Positive
      BY DEF TypeOK, Files, Positive
    <3>2. file' \in {file, TornAt(file, nextSender)}
      BY <1>12 DEF Crash
    <3> QED BY <3>1, <3>2, AppendedType
  <2>2. outgoing' \in Seq(Records)
    BY <1>12, EmptyTypes DEF Crash
  <2>3. persistMessages' \in BOOLEAN /\ up' \in BOOLEAN /\ forgotten' \in BOOLEAN /\ interrupted' \in BOOLEAN
    BY <1>12 DEF TypeOK, Crash, history
  <2>4. meta' \in {meta, <<>>}
    BY <1>12 DEF Crash
  <2> QED BY <1>12, <2>1, <2>2, <2>3, <2>4 DEF TypeOK, Crash, Files, Records, history
<1>13. CASE Restart
  <2>1. outgoing' \in Seq([seq : Nat \ {0}, intact : BOOLEAN])
    BY <1>13, RestoredLemma DEF TypeOK, Restart, Files, Records
  <2>2. nextSender' \in Nat \ {0} /\ nextTarget' \in Nat \ {0}
    BY <1>13 DEF TypeOK, Restart
  <2>3. spent' \in Nat /\ got' \in Nat /\ owed' \in SUBSET (Nat \ {0})
        /\ forgotten' \in BOOLEAN /\ interrupted' \in BOOLEAN
    <3>1. CASE meta = <<>>
      <4>1. spent' = 0 /\ got' = 0 /\ owed' = {} /\ forgotten' \in BOOLEAN /\ interrupted' = FALSE
        BY <1>13, <3>1 DEF Restart
      <4> QED BY <4>1
    <3>2. CASE meta # <<>>
      BY <1>13, <3>2 DEF TypeOK, Restart, history
    <3> QED BY <3>1, <3>2
  <2> QED BY <1>13, <2>1, <2>2, <2>3 DEF TypeOK, Restart, disk
<1> QED BY <1>1, <1>2, <1>3, <1>4, <1>5, <1>6, <1>7, <1>8, <1>9, <1>10, <1>11, <1>12, <1>13 DEF Next

LEMMA NearStep ==
  ASSUME Near, Next
  PROVE  Near'
<1> USE DEF Near, Persist, Resetting, At
<1>1. TypeOK' /\ TypeOK
  BY TypeStep
<1>2. CASE Write
  <2>0. ~interrupted => spent' = nextSender
    BY <1>1, <1>2 DEF Write, Called, TypeOK, MemoryNear, Larger
  <2>1. DiskNear'
    BY <1>1, <1>2, <2>0 DEF Write, Called, memory, disk, TypeOK, DiskNear, NumbersNotReused, ReceivedNotLost, MemoryNear, InReset
  <2>2. MemoryNear'
    BY <1>1, <1>2, <2>0 DEF Write, Called, memory, disk, TypeOK, MemoryNear, InReset
  <2>3. InReset'
    BY <1>1, <1>2, <2>0 DEF Write, Called, memory, disk, TypeOK, MemoryNear, InReset
  <2>4. DownIsIdle'
    BY <1>1, <1>2, <2>0 DEF Write, Called, memory, disk, TypeOK, DownIsIdle
  <2> QED BY <1>1, <2>1, <2>2, <2>3, <2>4
<1>3. CASE Store
  BY <1>1, <1>3, BoundsAssumption DEF Store, Reached, memory, disk, history, TypeOK, DiskNear, NumbersNotReused, ReceivedNotLost, MemoryNear, InReset, DownIsIdle
<1>4. CASE StoreNothing
  BY <1>1, <1>4, BoundsAssumption DEF StoreNothing, Reached, memory, disk, history, TypeOK, DiskNear, NumbersNotReused, ReceivedNotLost, MemoryNear, InReset, DownIsIdle
<1>5. CASE TakeNumber
  BY <1>1, <1>5, BoundsAssumption DEF TakeNumber, Reached, memory, disk, history, TypeOK, DiskNear, NumbersNotReused, ReceivedNotLost, MemoryNear, InReset, DownIsIdle
<1>6. CASE Dispatch
  <2>0. got' = nextTarget
    BY <1>1, <1>6 DEF Dispatch, Called, TypeOK, MemoryNear, Larger
  <2>1. DiskNear'
    BY <1>1, <1>6, BoundsAssumption, <2>0 DEF Dispatch, Called, memory, disk, history, TypeOK, DiskNear, NumbersNotReused, ReceivedNotLost, MemoryNear, InReset
  <2>2. MemoryNear'
    BY <1>1, <1>6, BoundsAssumption, <2>0 DEF Dispatch, Called, memory, disk, history, TypeOK, MemoryNear, InReset
  <2>3. InReset'
    BY <1>1, <1>6, BoundsAssumption, <2>0 DEF Dispatch, Called, memory, disk, history, TypeOK, MemoryNear, InReset
  <2>4. DownIsIdle'
    BY <1>1, <1>6, BoundsAssumption, <2>0 DEF Dispatch, Called, memory, disk, history, TypeOK, DownIsIdle
  <2> QED BY <1>1, <2>1, <2>2, <2>3, <2>4
<1>7. CASE StoreIncomingFails
  BY <1>1, <1>7, BoundsAssumption DEF StoreIncomingFails, Reached, memory, disk, history, TypeOK, DiskNear, NumbersNotReused, ReceivedNotLost, MemoryNear, InReset, DownIsIdle
<1>8. CASE Count
  BY <1>1, <1>8, BoundsAssumption DEF Count, Reached, memory, disk, history, TypeOK, DiskNear, NumbersNotReused, ReceivedNotLost, MemoryNear, InReset, DownIsIdle
<1>9. ASSUME NEW new \in 1..MaxNumber, SkipTo(new) PROVE Near'
  <2>0. got' = new - 1 /\ new \in Nat
    BY <1>1, <1>9, BoundsAssumption DEF SkipTo, Called, TypeOK, MemoryNear, Larger
  <2>1. DiskNear'
    BY <1>1, <1>9, BoundsAssumption, <2>0 DEF SkipTo, Called, memory, disk, history, TypeOK, DiskNear, NumbersNotReused, ReceivedNotLost, MemoryNear, InReset
  <2>2. MemoryNear'
    BY <1>1, <1>9, BoundsAssumption, <2>0 DEF SkipTo, Called, memory, disk, history, TypeOK, MemoryNear, InReset
  <2>3. InReset'
    BY <1>1, <1>9, BoundsAssumption, <2>0 DEF SkipTo, Called, memory, disk, history, TypeOK, MemoryNear, InReset
  <2>4. DownIsIdle'
    BY <1>1, <1>9, BoundsAssumption, <2>0 DEF SkipTo, Called, memory, disk, history, TypeOK, DownIsIdle
  <2> QED BY <1>1, <2>1, <2>2, <2>3, <2>4
<1>10. ASSUME NEW keepsSender \in BOOLEAN, Clear(keepsSender) PROVE Near'
  BY <1>1, <1>10, BoundsAssumption DEF Clear, Called, memory, disk, history, TypeOK, DiskNear, NumbersNotReused, ReceivedNotLost, MemoryNear, InReset, DownIsIdle
<1>11. CASE PersistReset
  <2>0. up /\ up' /\ pc = "cleared" /\ got' = 0 /\ meta' \in {<<1, 1>>, <<>>}
    BY <1>11 DEF PersistReset, Reached, memory
  <2>1. nextSender' = 1 /\ nextTarget' = 1 /\ kept' = kept /\ outgoing' = <<>> /\ file' = EmptyFile /\ owed' = {}
    BY <1>11, <2>0 DEF PersistReset, memory, InReset
  <2>2. CASE kept = 0 /\ spent' = 0 /\ interrupted' = FALSE /\ pc' = "idle"
    BY <1>1, <2>0, <2>1, <2>2 DEF DiskNear, NumbersNotReused, ReceivedNotLost, MemoryNear, InReset, DownIsIdle
  <2>3. CASE kept # 0 /\ pc' = "reset" /\ UNCHANGED <<spent, interrupted>>
    BY <1>1, <2>0, <2>1, <2>3 DEF DiskNear, NumbersNotReused, ReceivedNotLost, MemoryNear, InReset, DownIsIdle
  <2> QED BY <1>11, <2>2, <2>3 DEF PersistReset
<1>12. CASE SetSenderBack
  BY <1>1, <1>12, BoundsAssumption DEF SetSenderBack, Reached, memory, disk, history, TypeOK, DiskNear, NumbersNotReused, ReceivedNotLost, MemoryNear, InReset, DownIsIdle
<1>13. CASE Crash
  BY <1>1, <1>13, BoundsAssumption DEF Crash, memory, disk, history, TypeOK, DiskNear, NumbersNotReused, ReceivedNotLost, MemoryNear, InReset, DownIsIdle, Persisting
<1>14. CASE Restart
  <2>1. DiskNear'
    BY <1>1, <1>14, BoundsAssumption DEF Restart, memory, disk, history, TypeOK, DiskNear, NumbersNotReused, ReceivedNotLost, MemoryNear, InReset
  <2>2. MemoryNear'
    <3>1. pc' = "idle" /\ meta' = meta
      BY <1>14 DEF Restart, DownIsIdle, disk
    <3>2. CASE meta = <<>>
      <4>1. spent' = 0 /\ got' = 0 /\ nextSender' = 1 /\ nextTarget' = 1
        BY <1>14, <3>2 DEF Restart
      <4> QED BY <3>1, <3>2, <4>1 DEF MemoryNear
    <3>3. CASE meta # <<>>
      <4>1. meta \in (Nat \ {0}) \X (Nat \ {0})
        BY <1>1, <3>3 DEF TypeOK
      <4>2. meta = <<meta[1], meta[2]>>
        BY <4>1
      <4>3. nextSender' = meta[1] /\ nextTarget' = meta[2] /\ spent' = spent /\ got' = got
            /\ interrupted' = interrupted
        BY <1>14, <3>3 DEF Restart, history
      <4>4. (~interrupted => meta[1] \in {spent, spent + 1}) /\ meta[2] \in {got, got + 1}
        BY <1>14, <3>3 DEF Restart, DiskNear, NumbersNotReused, ReceivedNotLost, DownIsIdle
      <4> QED BY <3>1, <4>2, <4>3, <4>4 DEF MemoryNear
    <3> QED BY <3>2, <3>3
  <2>3. InReset'
    BY <1>1, <1>14, BoundsAssumption DEF Restart, memory, disk, history, TypeOK, DiskNear, NumbersNotReused, ReceivedNotLost, MemoryNear, InReset, DownIsIdle
  <2>4. DownIsIdle'
    BY <1>1, <1>14, BoundsAssumption DEF Restart, memory, disk, history, TypeOK, DownIsIdle
  <2> QED BY <1>1, <2>1, <2>2, <2>3, <2>4
<1> QED BY <1>2, <1>3, <1>4, <1>5, <1>6, <1>7, <1>8, <1>9, <1>10, <1>11, <1>12, <1>13, <1>14 DEF Next

-----------------------------------------------------------------------------
(* The order of the records, on disk and in memory.                         *)

LEMMA OrderedStep ==
  ASSUME Near, FileOrdered, Next
  PROVE  FileOrdered'
<1>1. TypeOK /\ TypeOK'
  BY TypeStep DEF Near
<1>2. file \in Files /\ nextSender \in Positive
  BY <1>1 DEF TypeOK, Files, Positive
<1>3. CASE UNCHANGED <<file, meta, forgotten, nextSender, up>> /\ (Resetting => Resetting')
  BY <1>3 DEF FileOrdered
<1>4. CASE Write \/ StoreNothing \/ Dispatch \/ StoreIncomingFails
  BY <1>3, <1>4 DEF Write, StoreNothing, Dispatch, StoreIncomingFails, Called, Reached, At, memory, disk, history, Resetting
<1>5. CASE Store
  <2>1. up /\ pc = "store" /\ nextSender' = nextSender /\ meta' = meta /\ forgotten' = forgotten
    BY <1>5 DEF Store, Reached, At
  <2>2. file' \in {file, Appended(file, nextSender), TornAt(file, nextSender)}
    BY <1>5 DEF Store
  <2> SUFFICES ASSUME ~forgotten PROVE FileOrdered'
    BY <2>1 DEF FileOrdered
  <2>3. FileAscends(file) /\ FileUpTo(file, nextSender)
    BY <2>1 DEF FileOrdered, Resetting
  <2>4. FileAscends(file') /\ FileUpTo(file', nextSender)
    BY <1>2, <2>2, <2>3, AppendedLemma
  <2>5. meta # <<>> => meta[1] = nextSender
    BY <2>1 DEF Near, MemoryNear, Resetting
  <2> QED BY <2>1, <2>4, <2>5 DEF FileOrdered
<1>6. ASSUME NEW f \in Files, NEW n \in Nat, NEW k \in Nat, FileUpTo(f, n), n =< k
      PROVE  FileUpTo(f, k)
  BY <1>6 DEF FileUpTo, UpTo, Files
<1>7. CASE TakeNumber
  <2>1. up /\ pc = "sent" /\ nextSender' = nextSender + 1 /\ file' = file /\ forgotten' = forgotten
    BY <1>7 DEF TakeNumber, Reached, At, history
  <2>2. meta' # <<>> => meta'[1] = nextSender + 1
    BY <1>7 DEF TakeNumber, Persist
  <2>3. ~forgotten => FileAscends(file) /\ FileUpTo(file, nextSender)
    BY <2>1 DEF FileOrdered, Resetting
  <2>4. ~forgotten => FileUpTo(file, nextSender + 1)
    BY <1>2, <1>6, <2>3 DEF Positive
  <2> QED BY <2>1, <2>2, <2>3, <2>4 DEF FileOrdered
<1>8. ASSUME up, ~Resetting, up', ~Resetting', UNCHANGED <<nextSender, file, forgotten>>,
             meta' # <<>> => meta'[1] = nextSender
      PROVE  FileOrdered'
  BY <1>8 DEF FileOrdered
<1>9. CASE Count
  BY <1>8, <1>9 DEF Count, Reached, At, Persist, history, Resetting
<1>10. ASSUME NEW new \in 1..MaxNumber, SkipTo(new) PROVE FileOrdered'
  BY <1>8, <1>10 DEF SkipTo, Called, At, Persist, Resetting
<1>11. FileAscends(EmptyFile) /\ \A n : FileUpTo(EmptyFile, n)
  BY DEF FileAscends, Ascending, FileUpTo, UpTo, EmptyFile
<1>12. CASE file' = EmptyFile
  BY <1>11, <1>12 DEF FileOrdered
<1>13. ASSUME NEW keepsSender \in BOOLEAN, Clear(keepsSender) PROVE FileOrdered'
  BY <1>12, <1>13 DEF Clear
<1>14. CASE PersistReset \/ SetSenderBack
  BY <1>12, <1>14 DEF PersistReset, SetSenderBack, Reached, At, Near, InReset, Resetting
<1>15. CASE Crash
  <2>1. ~up' /\ forgotten' = forgotten /\ meta' \in {meta, <<>>}
    BY <1>15 DEF Crash, history
  <2> SUFFICES ASSUME ~forgotten PROVE FileAscends(file') /\ (meta # <<>> => FileUpTo(file', meta[1]))
    BY <2>1 DEF FileOrdered
  <2>2. CASE file' = file
    BY <2>2 DEF FileOrdered
  <2>3. CASE file' = TornAt(file, nextSender) /\ pc = "store"
    <3>1. up /\ ~Resetting
      BY <1>15, <2>3 DEF Crash, Resetting
    <3>2. FileAscends(file') /\ FileUpTo(file', nextSender)
      BY <1>2, <2>3, <3>1, AppendedLemma DEF FileOrdered
    <3>3. meta # <<>> => meta[1] = nextSender
      BY <3>1 DEF Near, MemoryNear
    <3> QED BY <3>2, <3>3
  <2> QED BY <1>15, <2>2, <2>3 DEF Crash
<1>16. CASE Restart
  <2>1. file' = file /\ meta' = meta
    BY <1>16 DEF Restart, disk
  <2>2. CASE meta = <<>>
    BY <1>11, <1>16, <2>1, <2>2 DEF Restart, FileOrdered
  <2>3. CASE meta # <<>>
    BY <1>16, <2>1, <2>3 DEF Restart, FileOrdered, history
  <2> QED BY <2>2, <2>3
<1> QED BY <1>4, <1>5, <1>7, <1>9, <1>10, <1>13, <1>14, <1>15, <1>16 DEF Next

(* A message that is in the file, or hidden in it behind a torn record, is  *)
(* still so after an append.                                               *)
Kept(f, n) ==
  \/ \E i \in DOMAIN f.whole : f.whole[i] = n
  \/ f.torn # 0 /\ f.behind /\ n >= f.torn

LEMMA KeptLemma ==
  ASSUME NEW f \in Files, NEW n \in Positive, NEW m \in Positive,
         NEW g \in {f, Appended(f, m), TornAt(f, m)}, Kept(f, n)
  PROVE  Kept(g, n)
<1>1. f.whole \in Seq(Positive) /\ f.torn \in Nat
  BY DEF Files, Positive
<1>2. CASE f.torn = 0 /\ g = Appended(f, m)
  <2>1. g.whole = Append(f.whole, m)
    BY <1>2 DEF Appended, Files
  <2>2. PICK i \in DOMAIN f.whole : f.whole[i] = n
    BY <1>2 DEF Kept
  <2>3. i \in 1..Len(f.whole) /\ Len(f.whole) \in Nat
    BY <1>1, <2>2
  <2>4. g.whole[i] = n /\ i \in DOMAIN g.whole
    BY <1>1, <2>1, <2>2, <2>3 DEF Positive
  <2> QED BY <2>4 DEF Kept
<1>3. CASE ~(f.torn = 0 /\ g = Appended(f, m))
  <2>1. g.whole = f.whole /\ (f.torn # 0 => g.torn = f.torn /\ (f.behind => g.behind))
    BY <1>3 DEF Appended, TornAt, Files
  <2> QED BY <2>1, <1>1 DEF Kept
<1> QED BY <1>2, <1>3

LEMMA AppendedIsKept ==
  ASSUME NEW f \in Files, NEW m \in Positive, FileUpTo(f, m)
  PROVE  Kept(Appended(f, m), m)
<1>1. f.whole \in Seq(Positive) /\ f.torn \in Nat
  BY DEF Files, Positive
<1>2. CASE f.torn = 0
  <2>1. Appended(f, m).whole = Append(f.whole, m)
    BY <1>2 DEF Appended, Files
  <2>2. Len(f.whole) + 1 \in DOMAIN Append(f.whole, m) /\ Append(f.whole, m)[Len(f.whole) + 1] = m
    BY <1>1 DEF Positive
  <2> QED BY <2>1, <2>2 DEF Kept
<1>3. CASE f.torn # 0
  <2>1. Appended(f, m).torn = f.torn /\ Appended(f, m).behind
    BY <1>3 DEF Appended, Files
  <2> QED BY <1>1, <1>3, <2>1 DEF Kept, FileUpTo, Positive
<1> QED BY <1>2, <1>3

LEMMA SurvivesStep ==
  ASSUME Near, FileOrdered, StoredSurvives, Next
  PROVE  StoredSurvives'
<1>1. TypeOK
  BY DEF Near
<1>2. file \in Files /\ nextSender \in Positive /\ owed \subseteq Positive
  BY <1>1 DEF TypeOK, Files, Positive
<1>3. ~forgotten => \A n \in owed : Kept(file, n)
  BY DEF StoredSurvives, Kept
<1>4. SUFFICES ASSUME ~forgotten', NEW n \in owed' PROVE Kept(file', n)
  BY DEF StoredSurvives, Kept
<1>5. CASE UNCHANGED <<file, owed, forgotten>>
  BY <1>3, <1>4, <1>5
<1>6. CASE Write \/ StoreNothing \/ TakeNumber \/ Dispatch \/ StoreIncomingFails \/ Count
           \/ PersistReset \/ SetSenderBack
  BY <1>5, <1>6 DEF Write, StoreNothing, TakeNumber, Dispatch, StoreIncomingFails, Count,
       PersistReset, SetSenderBack, disk, history
<1>7. ASSUME NEW new \in 1..MaxNumber, SkipTo(new) PROVE Kept(file', n)
  BY <1>5, <1>7 DEF SkipTo
<1>8. CASE Store
  <2>1. ~forgotten /\ FileUpTo(file, nextSender)
    BY <1>4, <1>8 DEF Store, Reached, At, FileOrdered, Resetting
  <2>2. CASE n \in owed
    <3>1. file' \in {file, Appended(file, nextSender), TornAt(file, nextSender)}
      BY <1>8 DEF Store
    <3> QED BY <1>2, <1>3, <2>1, <2>2, <3>1, KeptLemma
  <2>3. CASE n \notin owed
    <3>1. n = nextSender /\ file' = Appended(file, nextSender)
      BY <1>4, <1>8, <2>3 DEF Store
    <3> QED BY <1>2, <2>1, <3>1, AppendedIsKept
  <2> QED BY <2>2, <2>3
<1>9. ASSUME NEW keepsSender \in BOOLEAN, Clear(keepsSender) PROVE Kept(file', n)
  BY <1>4, <1>9 DEF Clear
<1>10. CASE Crash
  <2>1. owed' = owed /\ forgotten' = forgotten /\ file' \in {file, TornAt(file, nextSender)}
    BY <1>10 DEF Crash, history
  <2> QED BY <1>2, <1>3, <1>4, <2>1, KeptLemma
<1>11. CASE Restart
  BY <1>3, <1>4, <1>11 DEF Restart, disk, history
<1> QED BY <1>6, <1>7, <1>8, <1>9, <1>10, <1>11 DEF Next

(* Records in memory of which the sent ones ascend and are not beyond n.    *)
RecordsUpTo(s, n) ==
  /\ \A i, j \in DOMAIN s : s[i].intact /\ s[j].intact /\ i < j => s[i].seq =< s[j].seq
  /\ \A i \in DOMAIN s : s[i].intact => s[i].seq =< n

LEMMA AscendsMeans == AscendsAfterRestart <=> (~forgotten /\ up => RecordsUpTo(outgoing, nextSender))
BY DEF AscendsAfterRestart, Sent, RecordsUpTo

LEMMA RecordsLemma ==
  ASSUME NEW s \in Seq(Records), NEW r \in Records, RecordsUpTo(s, r.seq)
  PROVE  RecordsUpTo(Append(s, r), r.seq)
<1> DEFINE t == Append(s, r)
<1>1. /\ t \in Seq(Records) /\ Len(t) = Len(s) + 1 /\ Len(s) \in Nat
      /\ \A i \in 1..Len(s) : t[i] = s[i]
      /\ t[Len(s) + 1] = r
  BY AppendProperties, LenProperties
<1>2. \A i \in 1..Len(s) : s[i] \in Records
  OBVIOUS
<1>3. DOMAIN s = 1..Len(s) /\ DOMAIN t = 1..(Len(s) + 1)
  BY <1>1, LenProperties
<1> HIDE DEF t
<1>4. r.seq \in Nat /\ \A i \in 1..Len(s) : s[i].seq \in Nat
  BY <1>2 DEF Records
<1>5. \A i \in DOMAIN t : i \in 1..Len(s) \/ i = Len(s) + 1
  BY <1>1, <1>3
<1>6. \A i \in DOMAIN t : t[i].intact => t[i].seq =< r.seq
  BY <1>1, <1>3, <1>4, <1>5 DEF RecordsUpTo
<1>7. ASSUME NEW i \in DOMAIN t, NEW j \in DOMAIN t, t[i].intact, t[j].intact, i < j
      PROVE  t[i].seq =< t[j].seq
  <2>1. i \in 1..Len(s)
    BY <1>1, <1>3, <1>7
  <2>2. CASE j = Len(s) + 1
    BY <1>1, <1>6, <1>7, <2>2
  <2>3. CASE j \in 1..Len(s)
    BY <1>1, <1>3, <1>7, <2>1, <2>3 DEF RecordsUpTo
  <2> QED BY <1>5, <2>2, <2>3
<1>8. RecordsUpTo(t, r.seq)
  BY <1>6, <1>7 DEF RecordsUpTo
<1> QED BY <1>8 DEF t

LEMMA AscendsStep ==
  ASSUME Near, FileOrdered, AscendsAfterRestart, Next
  PROVE  AscendsAfterRestart'
<1>1. TypeOK
  BY DEF Near
<1>2. outgoing \in Seq(Records) /\ nextSender \in Positive
  BY <1>1 DEF TypeOK, Records, Positive
<1>3. (AscendsAfterRestart <=> (~forgotten /\ up => RecordsUpTo(outgoing, nextSender)))'
  BY DEF AscendsAfterRestart, Sent, RecordsUpTo
<1>4. SUFFICES ASSUME ~forgotten', up' PROVE RecordsUpTo(outgoing', nextSender')
  BY <1>3
<1>5. ~forgotten /\ up => RecordsUpTo(outgoing, nextSender)
  BY AscendsMeans
<1>6. CASE UNCHANGED <<outgoing, nextSender, forgotten, up>>
  BY <1>4, <1>5, <1>6
<1>7. CASE Write \/ StoreNothing \/ Dispatch \/ StoreIncomingFails \/ Count \/ PersistReset
  BY <1>6, <1>7 DEF Write, StoreNothing, Dispatch, StoreIncomingFails, Count, PersistReset, memory, disk, history
<1>8. ASSUME NEW new \in 1..MaxNumber, SkipTo(new) PROVE RecordsUpTo(outgoing', nextSender')
  BY <1>6, <1>8 DEF SkipTo
<1>9. CASE outgoing' = <<>>
  BY <1>9 DEF RecordsUpTo
<1>10. ASSUME NEW keepsSender \in BOOLEAN, Clear(keepsSender) PROVE RecordsUpTo(outgoing', nextSender')
  BY <1>9, <1>10 DEF Clear
<1>11. CASE SetSenderBack
  BY <1>9, <1>11 DEF SetSenderBack, Reached, At, Near, InReset, Resetting
<1>12. CASE Store
  <2>1. outgoing' = Append(outgoing, Record(nextSender, TRUE)) /\ nextSender' = nextSender
    BY <1>12 DEF Store
  <2>2. Record(nextSender, TRUE) \in Records /\ Record(nextSender, TRUE).seq = nextSender
    BY <1>2 DEF Record, Records, Positive
  <2>3. RecordsUpTo(outgoing, nextSender)
    BY <1>4, <1>5, <1>12 DEF Store
  <2> QED BY <1>2, <2>1, <2>2, <2>3, RecordsLemma
<1>13. CASE TakeNumber
  <2>1. RecordsUpTo(outgoing, nextSender)
    BY <1>4, <1>5, <1>13 DEF TakeNumber, history
  <2>2. \A i \in DOMAIN outgoing : outgoing[i].seq \in Nat
    <3>1. \A i \in DOMAIN outgoing : outgoing[i] \in Records
      BY <1>2
    <3> QED BY <3>1 DEF Records
  <2>3. outgoing' = outgoing /\ nextSender' = nextSender + 1
    BY <1>13 DEF TakeNumber
  <2> QED BY <1>2, <2>1, <2>2, <2>3 DEF RecordsUpTo, Positive
<1>14. CASE Crash
  BY <1>4, <1>14 DEF Crash
<1>15. CASE Restart
  <2>1. ~forgotten
    BY <1>4, <1>15 DEF Restart, history
  <2>2. outgoing' \in Restored(file) /\ file \in Files
    BY <1>1, <1>15 DEF Restart, TypeOK, Files
  <2>3. \A i \in DOMAIN outgoing' :
          outgoing'[i].intact => i \in DOMAIN file.whole /\ outgoing'[i].seq = file.whole[i]
    BY <2>2, RestoredLemma
  <2>4. FileAscends(file)
    BY <2>1 DEF FileOrdered
  <2>5. \A i, j \in DOMAIN outgoing' :
          outgoing'[i].intact /\ outgoing'[j].intact /\ i < j => outgoing'[i].seq =< outgoing'[j].seq
    BY <2>3, <2>4 DEF FileAscends, Ascending
  <2>6. CASE meta = <<>>
    <3>1. file = EmptyFile
      BY <1>4, <1>15, <2>6 DEF Restart
    <3>2. file.whole = <<>>
      BY <3>1 DEF EmptyFile
    <3> QED BY <2>3, <2>5, <3>2 DEF RecordsUpTo
  <2>7. CASE meta # <<>>
    <3>1. FileUpTo(file, meta[1]) /\ nextSender' = meta[1]
      BY <1>15, <2>1, <2>7 DEF FileOrdered, Restart
    <3> QED BY <2>3, <2>5, <3>1 DEF FileUpTo, UpTo, RecordsUpTo
  <2> QED BY <2>6, <2>7
<1> QED BY <1>7, <1>8, <1>10, <1>11, <1>12, <1>13, <1>14, <1>15 DEF Next

-----------------------------------------------------------------------------
(* The inductive invariant, and what follows from it.                       *)

LEMMA NextInv == Inv /\ [Next]_vars => Inv'
<1>1. ASSUME Inv, Next PROVE Inv'
  BY <1>1, NearStep, OrderedStep, SurvivesStep, AscendsStep DEF Inv
<1>2. ASSUME Inv, UNCHANGED vars PROVE Inv'
  BY <1>2 DEF Inv, vars, memory, disk, history, Near, TypeOK, DiskNear, NumbersNotReused, ReceivedNotLost,
       MemoryNear, InReset, DownIsIdle, Resetting, FileOrdered, StoredSurvives, AscendsAfterRestart, Sent
<1> QED BY <1>1, <1>2

THEOREM Invariance == Spec => []Inv
<1> QED BY InitInv, NextInv, PTL DEF Spec

(* The store, its files and the history keep their types through crashes,   *)
(* full disks and restarts.                                                *)
THEOREM TypeCorrect == Spec => []TypeOK
<1>1. Inv => TypeOK
  BY DEF Inv, Near
<1> QED BY <1>1, Invariance, PTL

(* For a store of any size and any number of crashes, the number on disk is *)
(* the last one on the wire or the next (Session::send, persistMeta), but   *)
(* for a received Logon's reset in progress or killed before               *)
(* setNextSenderSeqNum.                                                    *)
THEOREM NumbersNeverReused == Spec => []NumbersNotReused
<1>1. Inv => NumbersNotReused
  BY DEF Inv, Near, DiskNear
<1> QED BY <1>1, Invariance, PTL

(* The expected number on disk is never beyond the first message that the   *)
(* application has not seen (onReceive, persistMeta).                      *)
THEOREM ReceivedNeverLost == Spec => []ReceivedNotLost
<1>1. Inv => ReceivedNotLost
  BY DEF Inv, Near, DiskNear
<1> QED BY <1>1, Invariance, PTL

(* What was counted as stored is in outgoing.bin, in front of a torn record *)
(* or hidden behind one, after any crashes (appendOutgoing, loadOutgoing). *)
THEOREM StoredAlwaysSurvives == Spec => []StoredSurvives
<1>1. Inv => StoredSurvives
  BY DEF Inv
<1> QED BY <1>1, Invariance, PTL

(* The messages a restart loads and a session adds ascend and are not       *)
(* beyond the next number (loadOutgoing, storeOutgoing), whatever records   *)
(* a load makes up behind a torn one.                                      *)
THEOREM AlwaysAscends == Spec => []AscendsAfterRestart
<1>1. Inv => AscendsAfterRestart
  BY DEF Inv
<1> QED BY <1>1, Invariance, PTL

-----------------------------------------------------------------------------
(* The refinement: each file operation adds a record at the end, advances   *)
(* the numbers, starts them again, drops all records, or is not seen.      *)

LEMMA InitFound == Init => Found!Init
BY DEF Init, Found!Init, Numbers, EmptyFile

LEMMA NumbersPair ==
  ASSUME TypeOK
  PROVE  Numbers \in Positive \X Positive
BY DEF TypeOK, Numbers, Positive

LEMMA StepFound ==
  ASSUME Inv, Next
  PROVE  [Found!Next]_<<file.whole, Numbers>>
<1>1. TypeOK /\ TypeOK'
  BY TypeStep DEF Inv, Near
<1>2. Numbers \in Positive \X Positive /\ Numbers' \in Positive \X Positive
  BY SMTT(30), <1>1, NumbersPair DEF TypeOK, Numbers, Positive
<1>3. CASE UNCHANGED <<file.whole, Numbers>>
  BY <1>3
<1>4. ASSUME file'.whole = file.whole, Numbers' = <<1, 1>> PROVE Found!Next
  BY <1>4 DEF Found!Next, Found!StartAgain
<1>5. ASSUME file'.whole = file.whole, Numbers'[1] >= Numbers[1], Numbers'[2] >= Numbers[2] PROVE Found!Next
  BY <1>2, <1>5 DEF Found!Next, Found!Advance, Positive
<1>6. CASE UNCHANGED disk
  BY <1>3, <1>6 DEF disk, Numbers
<1>7. CASE Write \/ StoreNothing \/ Dispatch \/ StoreIncomingFails \/ Restart
  BY <1>6, <1>7 DEF Write, StoreNothing, Dispatch, StoreIncomingFails, Restart
<1>8. CASE Store
  <2>1. nextSender \in 1..MaxNumber /\ Numbers' = Numbers
    BY <1>1, <1>8, BoundsAssumption DEF Store, Reached, At, Inv, Near, MemoryNear, Resetting, TypeOK, Numbers
  <2>2. file' \in {file, Appended(file, nextSender), TornAt(file, nextSender)}
    BY <1>8 DEF Store
  <2>3. file'.whole \in {file.whole, Append(file.whole, nextSender)}
    BY <1>1, <2>2 DEF Appended, TornAt, TypeOK
  <2> QED BY <1>3, <2>1, <2>3 DEF Found!Next, Found!Keep
<1>9. ASSUME file' = file, NEW s \in Nat, NEW n \in Nat, Persist(s, n),
             meta # <<>> => meta[1] =< s /\ meta[2] =< n, s >= 1, n >= 1
      PROVE  Found!Next
  <2>1. CASE meta' = <<>>
    BY <1>4, <1>9, <2>1 DEF Numbers
  <2>2. CASE meta' = <<s, n>>
    <3>1. Numbers' = <<s, n>>
      BY <2>2 DEF Numbers
    <3>2. Numbers[1] =< s /\ Numbers[2] =< n
      BY <1>9 DEF Numbers
    <3> QED BY <1>5, <1>9, <3>1, <3>2
  <2> QED BY <1>9, <2>1, <2>2 DEF Persist
<1>10. up /\ ~Resetting /\ meta # <<>> => meta[1] = nextSender /\ meta[2] = nextTarget
  BY DEF Inv, Near, MemoryNear
<1>11. nextSender \in Positive /\ nextTarget \in Positive
  BY <1>1 DEF TypeOK, Positive
<1>12. CASE TakeNumber
  BY <1>9, <1>10, <1>11, <1>12 DEF TakeNumber, Reached, At, Resetting, Positive
<1>13. CASE Count
  BY <1>9, <1>10, <1>11, <1>13 DEF Count, Reached, At, Resetting, Positive
<1>14. ASSUME NEW new \in 1..MaxNumber, SkipTo(new) PROVE Found!Next
  <2>1. new \in Nat /\ new > nextTarget
    BY <1>14, BoundsAssumption DEF SkipTo
  <2> QED BY <1>9, <1>10, <1>11, <1>14, <2>1 DEF SkipTo, Called, At, Resetting, Positive
<1>15. ASSUME NEW keepsSender \in BOOLEAN, Clear(keepsSender) PROVE Found!Next
  <2>1. file'.whole = <<>> /\ Numbers' = Numbers
    BY <1>15 DEF Clear, EmptyFile, Numbers
  <2> QED BY <2>1 DEF Found!Next, Found!Drop
<1>16. CASE PersistReset
  BY <1>4, <1>16 DEF PersistReset, Persist, Numbers
<1>17. CASE SetSenderBack
  <2>1. kept \in Positive /\ nextTarget = 1 /\ meta \in {<<1, 1>>, <<>>}
    BY <1>1, <1>17 DEF SetSenderBack, Reached, At, Inv, Near, InReset, Resetting, TypeOK, Positive
  <2>2. meta # <<>> => meta[1] = 1 /\ meta[2] = 1
    BY <2>1
  <2> QED BY <1>9, <1>17, <2>1, <2>2 DEF SetSenderBack, Positive
<1>18. CASE Crash
  <2>1. file'.whole = file.whole
    BY <1>1, <1>18 DEF Crash, TornAt, TypeOK
  <2>2. meta' \in {meta, <<>>}
    BY <1>18 DEF Crash
  <2> QED BY <1>3, <1>4, <2>1, <2>2 DEF Numbers
<1> QED BY <1>7, <1>8, <1>12, <1>13, <1>14, <1>15, <1>16, <1>17, <1>18 DEF Next

(* The store implements DurableLog, whatever its numbers, sizes and faults. *)
THEOREM StoreIsDurable == Spec => Durable
<1>1. Inv /\ [Next]_vars => [Found!Next]_<<file.whole, Numbers>>
  <2>1. ASSUME UNCHANGED vars PROVE UNCHANGED <<file.whole, Numbers>>
    BY <2>1 DEF vars, disk, Numbers
  <2> QED BY <2>1, StepFound
<1> QED BY <1>1, InitFound, Invariance, PTL DEF Spec, Durable, Found!Spec

=============================================================================
