----------------------------- MODULE EDBProofs -----------------------------
(***************************************************************************)
(* As long as no power failure comes between the two bytes of a count of   *)
(* which the high one changes (WholeCounts), no boot finds a count that no *)
(* call made (IInv).  With every count in one byte (CountInOneByte) none   *)
(* can come there.  Progress adds what the bytes of the records are at     *)
(* each stage of a call: with the bytes in hand flushed, each record is    *)
(* the old one or the one the call puts there.  From the two follows that  *)
(* EDB implements RecordTable.  The proofs are for every geometry.         *)
(***************************************************************************)
EXTENDS EDB, TLAPS, SequenceTheorems

\* The low byte of a new count is written and the high byte is not, and read now
\* the count is not the new one.
Torn == /\ buf # <<>> /\ stage = "header" /\ dst = HeadPtr + 1
        /\ StoredCount # n_recs

\* No power failure meets a count in that state.
WholeCounts == [][~(PowerFails /\ Torn)]_vars

\* The record count the chip holds, and where the write in progress lies.
WriteSound ==
  /\ ~Torn => StoredCount <= Limit
  /\ CountInOneByte => eeprom[HeadPtr + 1] = 0
  /\ n_recs <= Limit
  /\ buf # <<>> => Busy
  /\ buf # <<>> => HeadPtr <= dst /\ dst + Len(buf) <= EndPtr
  /\ buf # <<>> /\ stage # "header" => TablePtr <= dst
  /\ buf # <<>> /\ stage = "header" =>
       \/ dst = HeadPtr /\ buf = HeaderBytes(n_recs)
       \/ /\ dst = HeadPtr + 1 /\ buf = <<n_recs \div Base>>
          /\ eeprom[HeadPtr] = n_recs % Base
  /\ Busy /\ buf = <<>> /\ stage = "header" => StoredCount = n_recs
  /\ Ready => StoredCount = n_recs

\* How far the call in progress has come.
CallSound ==
  /\ call.name = "append" => stage \in {"record", "header"}
  /\ call.name = "update" => stage = "record" /\ StoredCount = n_recs
  /\ call.name = "delete" => stage \in {"shift", "header"}
  /\ call.name = "create" => stage = "header"
  /\ call.name = "delete" /\ stage = "shift" =>
       /\ n_recs >= 1
       /\ i \in 2..n_recs+1
  /\ call.name = "insert" /\ stage # "header" =>
       /\ n_recs < Limit
       /\ call.recno \in 1..n_recs
  /\ call.name = "insert" /\ stage = "shift" => i \in 0..n_recs

IInv == TypeOK /\ WriteSound /\ CallSound

-----------------------------------------------------------------------------

\* A record number within the limit names bytes of the table's own region.
LEMMA RecordFits ==
  ASSUME NEW n \in 1..Limit
  PROVE  /\ RecAddr(n) \in Nat
         /\ TablePtr <= RecAddr(n)
         /\ RecAddr(n) + RecSize <= EndPtr
<1> DEFINE room == EndPtr - TablePtr
<1>1. room \in Nat /\ RecSize \in Nat /\ RecSize >= 1 /\ TablePtr \in Nat
  BY LayoutAssumption DEF TablePtr, HeaderSize
<1>2. Limit = room \div RecSize
  BY DEF Limit
<1> HIDE DEF room
<1>3. Limit \in Nat /\ Limit * RecSize <= room
  BY <1>1, <1>2
<1>4. n * RecSize <= Limit * RecSize
  BY <1>1, <1>3
<1>5. (n - 1) * RecSize \in Nat /\ (n - 1) * RecSize + RecSize = n * RecSize
  BY <1>1, <1>3
<1> DEFINE skip == (n - 1) * RecSize
<1>6. skip \in Nat /\ skip + RecSize <= room
  BY <1>1, <1>3, <1>4, <1>5
<1>7. RecAddr(n) = TablePtr + skip
  BY DEF RecAddr
<1> HIDE DEF skip
<1>8. EndPtr = TablePtr + room
  BY LayoutAssumption DEF room, TablePtr, HeaderSize
<1>9. QED
  BY <1>1, <1>6, <1>7, <1>8

LEMMA LimitType == Limit \in Nat
BY LayoutAssumption DEF Limit, TablePtr, HeaderSize

\* A count within the limit has a low and a high byte, and they are its own.
LEMMA HeaderOf ==
  ASSUME NEW n \in 0..Limit
  PROVE  /\ n % Base \in Byte /\ n \div Base \in Byte
         /\ (n % Base) + Base * (n \div Base) = n
         /\ HeaderBytes(n) \in Seq(Byte) /\ Len(HeaderBytes(n)) = 2
         /\ Head(HeaderBytes(n)) = n % Base
         /\ Tail(HeaderBytes(n)) = <<n \div Base>>
         /\ CountInOneByte => n % Base = n /\ n \div Base = 0
<1>1. Base \in Nat /\ Base >= 2 /\ n \in Nat /\ n < Base * Base
  BY LayoutAssumption, LimitType
<1> DEFINE q == n \div Base
           r == n % Base
<1>2. q \in Nat /\ r \in 0..Base-1 /\ n = r + Base * q
  BY <1>1
<1> HIDE DEF q, r
<1>3. q < Base
  <2> SUFFICES ASSUME q >= Base PROVE FALSE
    BY <1>1, <1>2
  <2>1. Base * q >= Base * Base
    <3>1. q - Base \in Nat /\ Base * (q - Base) \in Nat
      BY <1>1, <1>2
    <3>2. Base * q = Base * Base + Base * (q - Base)
      BY <1>1, <1>2
    <3>3. QED
      BY <1>1, <3>1, <3>2
  <2>2. QED
    BY <1>1, <1>2, <2>1
<1>4. q \in Byte /\ r \in Byte
  BY <1>1, <1>2, <1>3 DEF Byte
<1>5. HeaderBytes(n) = <<r, q>>
  BY DEF HeaderBytes, q, r
<1>6. CountInOneByte => r = n /\ q = 0
  <2> SUFFICES ASSUME CountInOneByte PROVE r = n /\ q = 0
    OBVIOUS
  <2>1. n < Base
    BY <1>1, LimitType DEF CountInOneByte
  <2>2. QED
    BY <1>1, <2>1 DEF q, r
<1>7. <<r, q>> \in Seq(Byte) /\ Len(<<r, q>>) = 2 /\ Head(<<r, q>>) = r /\ Tail(<<r, q>>) = <<q>>
  BY <1>4
<1>8. (n % Base) + Base * (n \div Base) = n
  BY <1>2 DEF q, r
<1>9. n % Base = r /\ n \div Base = q
  BY DEF q, r
<1>10. QED
  BY <1>4, <1>5, <1>6, <1>7, <1>8, <1>9

\* A record is a sequence of RecSize bytes.
LEMMA RecordSeq ==
  ASSUME NEW r \in Record
  PROVE  r \in Seq(Byte) /\ Len(r) = RecSize /\ r # <<>>
<1>1. r \in Seq(Byte) /\ Len(r) = RecSize
  BY LayoutAssumption DEF Record
<1>2. QED
  BY <1>1, LayoutAssumption

LEMMA ReadType ==
  ASSUME TypeOK, NEW n \in 1..Limit
  PROVE  readRec(n) \in Record
<1>1. \A j \in 1..RecSize : (RecAddr(n) + j - 1) % MemSize \in Address
  BY RecordFits, LayoutAssumption DEF Address, TablePtr, HeaderSize
<1>2. QED
  BY <1>1 DEF readRec, Record, TypeOK

\* The ranges every step below needs.
LEMMA Ranges ==
  /\ Limit \in Nat /\ Limit < Base * Base
  /\ Base \in Nat /\ Base >= 2
  /\ HeadPtr \in Nat /\ TablePtr = HeadPtr + 2
  /\ EndPtr \in Nat /\ MemSize \in Nat /\ TablePtr <= EndPtr /\ EndPtr <= MemSize
  /\ HeadPtr \in Address /\ HeadPtr + 1 \in Address
  /\ 0 \in Byte
BY LayoutAssumption, LimitType DEF TablePtr, HeaderSize, Address, Byte

LEMMA CountType == ASSUME TypeOK PROVE StoredCount \in Nat
<1>1. eeprom[HeadPtr] \in Nat /\ eeprom[HeadPtr + 1] \in Nat /\ Base \in Nat
  BY Ranges DEF TypeOK, Byte
<1>2. Base * eeprom[HeadPtr + 1] \in Nat
  BY <1>1
<1>3. QED
  BY <1>1, <1>2 DEF StoredCount

LEMMA SameCount ==
  ASSUME eeprom'[HeadPtr] = eeprom[HeadPtr], eeprom'[HeadPtr + 1] = eeprom[HeadPtr + 1]
  PROVE  StoredCount' = StoredCount
BY DEF StoredCount

\* With one byte for the count, the count is the new one as soon as that is written.
LEMMA OneByteIsWhole == ASSUME IInv, CountInOneByte PROVE ~Torn
<1> SUFFICES ASSUME Torn PROVE FALSE
  OBVIOUS
<1>1. n_recs \in 0..Limit
  BY Ranges DEF IInv, TypeOK, WriteSound
<1>2. eeprom[HeadPtr + 1] = 0
  BY DEF IInv, WriteSound
<1>3. eeprom[HeadPtr] = n_recs % Base
  BY Ranges DEF Torn, IInv, WriteSound
<1>4. n_recs % Base = n_recs
  BY <1>1, HeaderOf
<1>5. StoredCount = n_recs
  BY <1>1, <1>2, <1>3, <1>4, Ranges DEF StoredCount
<1>6. QED
  BY <1>5 DEF Torn

LEMMA InitInv == Init => IInv
<1> SUFFICES ASSUME Init PROVE IInv
  OBVIOUS
<1>1. TypeOK
  BY Ranges, LayoutAssumption DEF Init, TypeOK, Idle, Off
<1>2. WriteSound
  <2>1. eeprom[HeadPtr] = 0 /\ eeprom[HeadPtr + 1] = 0
    BY Ranges, LayoutAssumption DEF Init, Address
  <2>2. StoredCount = 0
    BY <2>1, Ranges DEF StoredCount
  <2>3. QED
    BY <2>1, <2>2, Ranges DEF Init, WriteSound, Torn, Busy, Ready, Idle, Off
<1>3. CallSound
  BY DEF Init, CallSound, Idle
<1>4. QED
  BY <1>1, <1>2, <1>3 DEF IInv

\* One byte of a write in progress: it stays in the region, and only the bytes of
\* a header change the count on the chip.
LEMMA WriteByteInv ==
  ASSUME IInv, WriteByte
  PROVE  IInv'
<1> USE DEF IInv
<1>1. dst \in HeadPtr..EndPtr-1 /\ dst % MemSize = dst /\ dst \in Address
  <2>1. Len(buf) >= 1
    BY DEF WriteByte, TypeOK
  <2>2. dst \in HeadPtr..EndPtr-1
    BY <2>1, Ranges DEF WriteByte, WriteSound, TypeOK
  <2>3. QED
    BY <2>2, Ranges DEF Address
<1>2. Head(buf) \in Byte /\ Tail(buf) \in Seq(Byte) /\ Len(Tail(buf)) = Len(buf) - 1
  BY HeadTailProperties DEF WriteByte, TypeOK
<1>3. eeprom' = [eeprom EXCEPT ![dst] = Head(buf)]
  BY <1>1 DEF WriteByte
<1>4. TypeOK'
  BY <1>1, <1>2, <1>3, Ranges DEF WriteByte, TypeOK
<1>5. CASE stage # "header"
  <2>0. TablePtr <= dst
    BY <1>5 DEF WriteByte, WriteSound
  <2>1. eeprom'[HeadPtr] = eeprom[HeadPtr] /\ eeprom'[HeadPtr + 1] = eeprom[HeadPtr + 1]
    BY <1>3, <2>0, Ranges DEF TypeOK
  <2>2. buf' # <<>> => dst' + Len(buf') <= EndPtr /\ TablePtr <= dst'
    BY <1>2, <1>5, Ranges DEF WriteByte, WriteSound, TypeOK
  <2>3. StoredCount' = StoredCount
    BY <2>1, SameCount
  <2>4. WriteSound'
    BY <2>1, <2>2, <2>3, <1>5, Ranges DEF WriteByte, WriteSound, Torn, Busy, Ready
  <2>5. CallSound'
    BY <2>3, <1>5 DEF WriteByte, CallSound
  <2>6. QED
    BY <1>4, <2>4, <2>5
<1>6. CASE stage = "header"
  <2>0. n_recs \in 0..Limit
    BY Ranges DEF TypeOK, WriteSound
  <2>1. CASE dst = HeadPtr /\ buf = HeaderBytes(n_recs)
    <3>1. Head(buf) = n_recs % Base /\ Tail(buf) = <<n_recs \div Base>> /\ Len(buf) = 2
      BY <2>0, <2>1, HeaderOf
    <3>2. eeprom'[HeadPtr] = n_recs % Base /\ eeprom'[HeadPtr + 1] = eeprom[HeadPtr + 1]
      BY <1>3, <2>1, <3>1, Ranges DEF TypeOK
    <3>3. dst' = HeadPtr + 1 /\ buf' = <<n_recs \div Base>> /\ Len(buf') = 1
          /\ UNCHANGED <<n_recs, call, stage, i>> /\ buf # <<>>
      BY <1>2, <2>1, <3>1 DEF WriteByte
    <3>4. WriteSound'
      BY <1>6, <3>2, <3>3, Ranges DEF WriteSound, Torn, Busy, Ready
    <3>5. CallSound'
      BY <1>6, <3>3 DEF CallSound
    <3>6. QED
      BY <1>4, <3>4, <3>5
  <2>2. CASE /\ dst = HeadPtr + 1 /\ buf = <<n_recs \div Base>>
             /\ eeprom[HeadPtr] = n_recs % Base
    <3>1. Head(buf) = n_recs \div Base /\ Tail(buf) = <<>>
      BY <2>2
    <3>2. eeprom'[HeadPtr] = n_recs % Base /\ eeprom'[HeadPtr + 1] = n_recs \div Base
      BY <1>3, <2>2, <3>1, Ranges DEF TypeOK
    <3>3. StoredCount' = n_recs
      BY <2>0, <3>2, HeaderOf DEF StoredCount
    <3>4. CountInOneByte => n_recs \div Base = 0
      BY <2>0, HeaderOf
    <3>5. buf' = <<>> /\ UNCHANGED <<n_recs, call, stage, i>> /\ buf # <<>>
      BY <3>1 DEF WriteByte
    <3>6. WriteSound'
      BY <1>6, <3>2, <3>3, <3>4, <3>5 DEF WriteSound, Torn, Busy, Ready
    <3>7. CallSound'
      BY <1>6, <3>5 DEF CallSound
    <3>8. QED
      BY <1>4, <3>6, <3>7
  <2>3. QED
    BY <1>6, <2>1, <2>2 DEF WriteByte, WriteSound
<1>7. QED
  BY <1>5, <1>6

\* The start of a header write, shared by every call that changes the count.
LEMMA CommitInv ==
  ASSUME IInv, Busy, buf = <<>>, stage # "header",
         NEW n \in 0..Limit, CommitCount(n),
         call.name \in {"append", "delete", "insert"}
  PROVE  IInv'
<1>1. dst' = HeadPtr /\ buf' = HeaderBytes(n) /\ n_recs' = n
  BY DEF CommitCount, writeHead, edbWrite
<1>2. buf' \in Seq(Byte) /\ Len(buf') = 2 /\ n \in 0..Base*Base-1
  BY <1>1, HeaderOf, Ranges
<1>3. TypeOK'
  BY <1>1, <1>2, Ranges DEF CommitCount, IInv, TypeOK
<1>4. StoredCount' = StoredCount
  BY SameCount DEF CommitCount
<1>5. WriteSound'
  <2>1. StoredCount <= Limit /\ (CountInOneByte => eeprom'[HeadPtr + 1] = 0)
    BY DEF CommitCount, IInv, WriteSound, Torn
  <2>2. ~Torn' /\ Busy' /\ ~Ready' /\ stage' = "header"
    BY <1>1, Ranges DEF CommitCount, Torn, Busy, Ready, Idle, Off
  <2>3. HeadPtr <= dst' /\ dst' + Len(buf') <= EndPtr
    BY <1>1, <1>2, Ranges
  <2>4. buf' # <<>>
    BY <1>2
  <2>5. QED
    BY <1>1, <1>4, <2>1, <2>2, <2>3, <2>4, Ranges DEF WriteSound
<1>6. CallSound'
  BY <1>1 DEF CommitCount, CallSound
<1>7. QED
  BY <1>3, <1>5, <1>6 DEF IInv

\* The start of a record write at a position within the limit.
LEMMA RecordWrite ==
  ASSUME IInv, NEW n \in 1..Limit, NEW rec \in Record, writeRec(n, rec)
  PROVE  /\ dst' \in Nat /\ buf' \in Seq(Byte) /\ buf' # <<>>
         /\ TablePtr <= dst' /\ HeadPtr <= dst'
         /\ dst' + Len(buf') <= EndPtr
BY RecordFits, RecordSeq, Ranges DEF writeRec, edbWrite

LEMMA AppendInv ==
  ASSUME IInv, NEW rec \in Records, appendRec(rec)
  PROVE  IInv'
<1>1. CASE NoRoom
  BY <1>1, Ranges, SameCount
  DEF appendRec, Refused, IInv, TypeOK, WriteSound, Torn, CallSound, Busy, Ready,
    Idle, Off
<1>2. CASE ~NoRoom
  <2>1. /\ Begin([name |-> "append", rec |-> rec])
        /\ n_recs' = n_recs + 1
        /\ stage' = "record"
        /\ writeRec(n_recs + 1, rec)
        /\ UNCHANGED <<eeprom, i, losses>>
    BY <1>2 DEF appendRec
  <2>2. n_recs + 1 \in 1..Limit
    BY <1>2, Ranges DEF NoRoom, IInv, TypeOK
  <2>3. rec \in Record
    BY LayoutAssumption
  <2>4. /\ dst' \in Nat /\ buf' \in Seq(Byte) /\ buf' # <<>>
        /\ TablePtr <= dst' /\ HeadPtr <= dst'
        /\ dst' + Len(buf') <= EndPtr
    BY <2>1, <2>2, <2>3, RecordWrite
  <2>5. TypeOK'
    BY <2>1, <2>2, <2>4, Ranges DEF Begin, IInv, TypeOK
  <2>6. WriteSound'
    BY <2>1, <2>2, <2>4, Ranges, SameCount
    DEF Begin, IInv, WriteSound, Torn, Busy, Ready, Idle, Off
  <2>7. CallSound'
    BY <2>1 DEF Begin, CallSound
  <2>8. QED
    BY <2>5, <2>6, <2>7 DEF IInv
<1>3. QED
  BY <1>1, <1>2

LEMMA DeleteInv ==
  ASSUME IInv, NEW recno \in Nat \ {0}, deleteRec(recno)
  PROVE  IInv'
<1>1. CASE OutOfRange(recno)
  BY <1>1, Ranges, SameCount
  DEF deleteRec, Refused, IInv, TypeOK, WriteSound, Torn, CallSound, Busy, Ready,
    Idle, Off
<1>2. CASE ~OutOfRange(recno)
  <2>1. recno \in 1..n_recs
    BY <1>2 DEF OutOfRange, IInv, TypeOK
  <2>2. TypeOK'
    BY <1>2, <2>1 DEF deleteRec, Begin, IInv, TypeOK
  <2>3. WriteSound'
    BY <1>2, SameCount
    DEF deleteRec, Begin, IInv, WriteSound, Torn, Busy, Ready, Idle, Off
  <2>4. CallSound'
    BY <1>2, <2>1 DEF deleteRec, Begin, IInv, TypeOK, CallSound
  <2>5. QED
    BY <2>2, <2>3, <2>4 DEF IInv
<1>3. QED
  BY <1>1, <1>2

LEMMA DeleteShiftInv ==
  ASSUME IInv, DeleteShift
  PROVE  IInv'
<1>1. i \in 2..n_recs /\ n_recs <= Limit /\ n_recs \in Nat /\ i \in 1..Limit /\ i - 1 \in 1..Limit
  BY Ranges DEF DeleteShift, IInv, TypeOK, WriteSound, Torn, CallSound
<1>2. readRec(i) \in Record
  BY <1>1, ReadType DEF IInv
<1>3. /\ dst' \in Nat /\ buf' \in Seq(Byte) /\ buf' # <<>>
        /\ TablePtr <= dst' /\ HeadPtr <= dst'
        /\ dst' + Len(buf') <= EndPtr
  BY <1>1, <1>2, RecordWrite DEF DeleteShift
<1>4. TypeOK'
  BY <1>1, <1>3 DEF DeleteShift, IInv, TypeOK
<1>5. WriteSound'
  BY <1>3, SameCount DEF DeleteShift, IInv, WriteSound, Torn, Busy, Ready, Idle, Off
<1>6. CallSound'
  BY <1>1 DEF DeleteShift, IInv, CallSound
<1>7. QED
  BY <1>4, <1>5, <1>6 DEF IInv

LEMMA InsertInv ==
  ASSUME IInv, NEW recno \in 1..n_recs+1, NEW rec \in Records,
         insertRec(recno, rec)
  PROVE  IInv'
<1> USE DEF insertRec
<1>0. n_recs \in Nat /\ n_recs <= Limit /\ recno \in Nat \ {0}
  BY DEF IInv, TypeOK, WriteSound
<1>1. CASE n_recs = Limit
  BY <1>1, Ranges, SameCount
  DEF Refused, IInv, TypeOK, WriteSound, Torn, CallSound, Busy, Ready, Idle, Off
<1>2. CASE n_recs # Limit /\ n_recs > 0 /\ OutOfRange(recno)
  BY <1>2, Ranges, SameCount
  DEF Refused, IInv, TypeOK, WriteSound, Torn, CallSound, Busy, Ready, Idle, Off
<1>3. CASE n_recs # Limit /\ n_recs = 0
  <2>1. recno = 1
    BY <1>3, <1>0
  <2>2. appendRec(rec)
    BY <1>3, <2>1
  <2>3. QED
    BY <2>2, AppendInv
<1>4. CASE n_recs # Limit /\ n_recs > 0 /\ ~OutOfRange(recno)
  <2>1. recno \in 1..n_recs /\ n_recs < Limit
    BY <1>0, <1>4, Ranges DEF OutOfRange
  <2>2. /\ Begin([name |-> "insert", recno |-> recno, rec |-> rec])
        /\ stage' = "shift"
        /\ i' = n_recs
        /\ UNCHANGED <<eeprom, n_recs, dst, buf, losses>>
    BY <1>4
  <2>3. TypeOK'
    BY <1>0, <2>2 DEF Begin, IInv, TypeOK
  <2>4. WriteSound'
    BY <2>2, SameCount DEF Begin, IInv, WriteSound, Torn, Busy, Ready, Idle, Off
  <2>5. CallSound'
    BY <1>0, <2>1, <2>2 DEF Begin, CallSound
  <2>6. QED
    BY <2>3, <2>4, <2>5 DEF IInv
<1>5. QED
  BY <1>0, <1>1, <1>2, <1>3, <1>4

LEMMA InsertShiftInv ==
  ASSUME IInv, InsertShift
  PROVE  IInv'
<1>1. n_recs < Limit /\ n_recs \in Nat /\ i \in 1..n_recs /\ call.recno \in 1..n_recs
  BY DEF InsertShift, IInv, TypeOK, CallSound
<1>2. i \in 1..Limit /\ i + 1 \in 1..Limit
  BY <1>1, Ranges
<1>3. readRec(i) \in Record
  BY <1>2, ReadType DEF IInv
<1>4. /\ dst' \in Nat /\ buf' \in Seq(Byte) /\ buf' # <<>>
        /\ TablePtr <= dst' /\ HeadPtr <= dst'
        /\ dst' + Len(buf') <= EndPtr
  BY <1>2, <1>3, RecordWrite DEF InsertShift
<1>5. TypeOK'
  BY <1>1, <1>4 DEF InsertShift, IInv, TypeOK
<1>6. WriteSound'
  BY <1>4, SameCount DEF InsertShift, IInv, WriteSound, Torn, Busy, Ready, Idle, Off
<1>7. CallSound'
  BY <1>1 DEF InsertShift, IInv, CallSound
<1>8. QED
  BY <1>5, <1>6, <1>7 DEF IInv

LEMMA InsertRecordInv ==
  ASSUME IInv, InsertRecord
  PROVE  IInv'
<1>1. n_recs < Limit /\ n_recs \in Nat /\ call.recno \in 1..n_recs
  BY DEF InsertRecord, IInv, TypeOK, CallSound
<1>2. call.recno \in 1..Limit /\ call.rec \in Record
  BY <1>1, Ranges, LayoutAssumption DEF InsertRecord, IInv, TypeOK, Idle, Off
<1>3. /\ dst' \in Nat /\ buf' \in Seq(Byte) /\ buf' # <<>>
        /\ TablePtr <= dst' /\ HeadPtr <= dst'
        /\ dst' + Len(buf') <= EndPtr
  BY <1>2, RecordWrite DEF InsertRecord
<1>4. TypeOK'
  BY <1>3 DEF InsertRecord, IInv, TypeOK
<1>5. WriteSound'
  BY <1>3, SameCount DEF InsertRecord, IInv, WriteSound, Torn, Busy, Ready, Idle, Off
<1>6. CallSound'
  BY <1>1 DEF InsertRecord, IInv, CallSound
<1>7. QED
  BY <1>4, <1>5, <1>6 DEF IInv

LEMMA UpdateInv ==
  ASSUME IInv, NEW recno \in Nat \ {0}, NEW rec \in Records, updateRec(recno, rec)
  PROVE  IInv'
<1>1. CASE OutOfRange(recno)
  BY <1>1, Ranges, SameCount
  DEF updateRec, Refused, IInv, TypeOK, WriteSound, Torn, CallSound, Busy, Ready,
    Idle, Off
<1>2. CASE ~OutOfRange(recno)
  <2>1. recno \in 1..Limit /\ rec \in Record
    BY <1>2, Ranges, LayoutAssumption DEF OutOfRange, IInv, TypeOK, WriteSound
  <2>2. /\ dst' \in Nat /\ buf' \in Seq(Byte) /\ buf' # <<>>
        /\ TablePtr <= dst' /\ HeadPtr <= dst'
        /\ dst' + Len(buf') <= EndPtr
    BY <1>2, <2>1, RecordWrite DEF updateRec
  <2>3. TypeOK'
    BY <1>2, <2>2 DEF updateRec, Begin, IInv, TypeOK
  <2>4. WriteSound'
    BY <1>2, <2>2, SameCount
    DEF updateRec, Begin, IInv, WriteSound, Torn, Busy, Ready, Idle, Off
  <2>5. CallSound'
    BY <1>2, SameCount DEF updateRec, Begin, IInv, WriteSound, Torn, CallSound
  <2>6. QED
    BY <2>3, <2>4, <2>5 DEF IInv
<1>3. QED
  BY <1>1, <1>2

LEMMA CreateInv ==
  ASSUME IInv, create
  PROVE  IInv'
<1>1. dst' = HeadPtr /\ buf' = HeaderBytes(0) /\ n_recs' = 0
  BY DEF create, writeHead, edbWrite
<1>2. buf' \in Seq(Byte) /\ Len(buf') = 2
  BY <1>1, HeaderOf, Ranges
<1>3. TypeOK'
  BY <1>1, <1>2, Ranges DEF create, Begin, IInv, TypeOK
<1>4. StoredCount' = StoredCount
  BY SameCount DEF create
<1>5. WriteSound'
  <2>1. StoredCount <= Limit /\ (CountInOneByte => eeprom'[HeadPtr + 1] = 0)
    BY DEF create, Begin, IInv, WriteSound, Torn, Busy, Ready
  <2>2. ~Torn' /\ Busy' /\ ~Ready' /\ stage' = "header"
    <3>1. call' = [name |-> "create"] /\ stage' = "header"
      BY DEF create, Begin
    <3>2. Busy' /\ ~Ready'
      BY <3>1 DEF Busy, Ready, Idle, Off
    <3>3. QED
      BY <1>1, <3>1, <3>2, Ranges DEF Torn
  <2>3. HeadPtr <= dst' /\ dst' + Len(buf') <= EndPtr
    <3>1. dst' = HeadPtr /\ Len(buf') = 2
      BY <1>1, <1>2, Zenon
    <3>2. QED
      BY <3>1, Ranges
  <2>4. buf' # <<>>
    BY <1>2
  <2>5. QED
    BY <1>1, <1>4, <2>1, <2>2, <2>3, <2>4, Ranges DEF WriteSound
<1>6. CallSound'
  BY DEF create, Begin, CallSound
<1>7. QED
  BY <1>3, <1>5, <1>6 DEF IInv

LEMMA ReturnInv ==
  ASSUME IInv, Return
  PROVE  IInv'
<1>1. TypeOK'
  BY DEF Return, IInv, TypeOK
<1>2. WriteSound'
  BY SameCount
  DEF Return, IInv, TypeOK, WriteSound, Torn, CallSound, Busy, Ready, Idle, Off
<1>3. CallSound'
  BY DEF Return, CallSound, Idle
<1>4. QED
  BY <1>1, <1>2, <1>3 DEF IInv

LEMMA PowerFailsInv ==
  ASSUME IInv, PowerFails, ~Torn
  PROVE  IInv'
<1>1. TypeOK'
  BY Ranges, LayoutAssumption DEF PowerFails, IInv, TypeOK
<1>2. StoredCount' = StoredCount
  BY SameCount DEF PowerFails
<1>3. WriteSound'
  BY <1>2, Ranges DEF PowerFails, IInv, WriteSound, Torn, Busy, Ready, Idle, Off
<1>4. CallSound'
  BY DEF PowerFails, CallSound, Off
<1>5. QED
  BY <1>1, <1>3, <1>4 DEF IInv

LEMMA OpenInv ==
  ASSUME IInv, open
  PROVE  IInv'
<1>1. buf = <<>> /\ ~Torn
  BY DEF open, Torn, IInv, WriteSound, Busy
<1>2. StoredCount \in Nat /\ StoredCount <= Limit
  BY <1>1, CountType DEF IInv, WriteSound
<1>3. TypeOK'
  BY <1>2, Ranges DEF open, IInv, TypeOK
<1>4. StoredCount' = StoredCount
  BY SameCount DEF open
<1>5. WriteSound'
  BY <1>1, <1>2, <1>4 DEF open, IInv, WriteSound, Torn, Busy, Ready, Idle, Off
<1>6. CallSound'
  BY DEF open, CallSound, Idle
<1>7. QED
  BY <1>3, <1>5, <1>6 DEF IInv

LEMMA StepInv ==
  ASSUME IInv, [Next]_vars, [~(PowerFails /\ Torn)]_vars
  PROVE  IInv'
<1>1. CASE Caller
  <2>1. CASE \E rec \in Records : appendRec(rec)
    BY <2>1, AppendInv
  <2>2. CASE \E recno \in 1..n_recs+1 : deleteRec(recno)
    BY <2>2, DeleteInv DEF IInv, TypeOK
  <2>3. CASE \E recno \in 1..n_recs+1, rec \in Records : insertRec(recno, rec)
    BY <2>3, InsertInv
  <2>4. CASE \E recno \in 1..n_recs+1, rec \in Records : updateRec(recno, rec)
    BY <2>4, UpdateInv DEF IInv, TypeOK
  <2>5. CASE create
    BY <2>5, CreateInv
  <2>6. QED
    BY <1>1, <2>1, <2>2, <2>3, <2>4, <2>5 DEF Caller
<1>2. CASE Device
  <2>1. n_recs \in 0..Limit
    BY Ranges DEF IInv, TypeOK, WriteSound
  <2>2. CASE AppendHeader
    BY <2>1, <2>2, CommitInv DEF AppendHeader, Busy, Idle, Off
  <2>3. CASE DeleteHeader
    <3>1. n_recs - 1 \in 0..Limit
      BY <2>1, <2>3, Ranges DEF DeleteHeader, IInv, CallSound
    <3>2. QED
      BY <2>3, <3>1, CommitInv DEF DeleteHeader, Busy, Idle, Off
  <2>4. CASE InsertHeader
    <3>1. n_recs + 1 \in 0..Limit
      BY <2>1, <2>4, Ranges DEF InsertHeader, IInv, CallSound
    <3>2. QED
      BY <2>4, <3>1, CommitInv DEF InsertHeader, Busy, Idle, Off
  <2>5. QED
    BY <1>2, <2>2, <2>3, <2>4, WriteByteInv, DeleteShiftInv, InsertShiftInv,
       InsertRecordInv, ReturnInv DEF Device
<1>3. CASE UNCHANGED vars
  BY <1>3, SameCount DEF vars, ram, IInv, TypeOK, WriteSound, Torn, CallSound, Busy, Ready
<1>4. CASE PowerFails
  <2>1. vars' # vars
    BY <1>4 DEF PowerFails, vars, ram
  <2>2. QED
    BY <1>4, <2>1, PowerFailsInv
<1>5. QED
  BY <1>1, <1>2, <1>3, <1>4, OpenInv DEF Next

\* The strengthened invariant holds of every geometry, as long as no power failure
\* finds a count half written.
THEOREM Invariant == Spec /\ WholeCounts => []IInv
<1>1. IInv /\ [Next]_vars /\ [~(PowerFails /\ Torn)]_vars => IInv'
  BY StepInv
<1>2. QED
  BY <1>1, InitInv, PTL DEF Spec, WholeCounts

\* One byte cannot be half written: no power failure does harm to the count of a
\* table of fewer than Base records.
THEOREM SmallCountsAreWhole ==
  ASSUME CountInOneByte
  PROVE  Spec => WholeCounts
<1>1. IInv => ~Torn
  BY OneByteIsWhole
<1>2. IInv /\ [Next]_vars => IInv' /\ [~(PowerFails /\ Torn)]_vars
  BY <1>1, StepInv
<1>3. QED
  BY <1>2, InitInv, PTL DEF Spec, WholeCounts

\* The variables of EDB.cpp keep their types, power failures included.
THEOREM TypeCorrect == Spec /\ WholeCounts => []TypeOK
<1>1. IInv => TypeOK
  BY DEF IInv
<1>2. QED
  BY <1>1, Invariant, PTL

\* The count the next boot reads always fits the table, and between calls it is
\* the count in RAM (EDB.cpp 48-57, 107-161).
THEOREM CountSoundTheorem ==
  ASSUME CountInOneByte
  PROVE  Spec => []CountSound
<1>1. IInv => CountSound
  BY OneByteIsWhole DEF CountSound, IInv, WriteSound
<1>2. QED
  BY <1>1, Invariant, SmallCountsAreWhole, PTL

\* Two tables on one chip do not interfere (Door_Control.ino 191-192): no step
\* changes a byte outside the region of the table it belongs to, for tables of any
\* size whose counts no power failure tears.
THEOREM LeavesNeighbourAloneTheorem == Spec /\ WholeCounts => LeavesNeighbourAlone
<1> DEFINE Keeps == \A a \in Address \ (HeadPtr..EndPtr-1) : eeprom'[a] = eeprom[a]
<1>1. IInv /\ [Next]_vars => [Keeps]_vars
  <2> SUFFICES ASSUME IInv, Next PROVE Keeps
    OBVIOUS
  <2>2. CASE WriteByte
    <3>1. Len(buf) \in Nat /\ Len(buf) >= 1
      BY <2>2 DEF WriteByte, IInv, TypeOK
    <3>2. dst \in HeadPtr..EndPtr-1
      BY <2>2, <3>1, Ranges DEF WriteByte, IInv, WriteSound, TypeOK
    <3>3. dst % MemSize = dst
      BY <3>2, Ranges
    <3>4. QED
      BY <2>2, <3>2, <3>3 DEF WriteByte, IInv, TypeOK
  <2>3. CASE ~WriteByte
    <3>1. UNCHANGED eeprom
      BY <2>3 DEF Next, Caller, Device, appendRec, deleteRec, insertRec, updateRec,
         create, Refused, AppendHeader, DeleteShift, DeleteHeader, InsertShift,
         InsertRecord, InsertHeader, Return, PowerFails, open, CommitCount
    <3>2. QED
      BY <3>1
  <2>4. QED
    BY <2>2, <2>3
<1>2. QED
  BY <1>1, Invariant, PTL DEF Spec, LeavesNeighbourAlone

-----------------------------------------------------------------------------

(***************************************************************************)
(* The table as the call in progress is making it.  Once the bytes in hand *)
(* are written, each record is the one the call found there, or already    *)
(* the one the call puts there; only the record at Target can be torn.     *)
(***************************************************************************)
Flushed == [a \in Address |-> IF a \in dst..dst+Len(buf)-1 THEN buf[a - dst + 1]
                                                           ELSE eeprom[a]]

RecordAt(chip, r) == [j \in 1..RecSize |-> chip[RecAddr(r) + j - 1]]

\* The record the call writes, or wrote last.
Target == CASE call.name = "append" -> Len(before) + 1
            [] call.name = "update" -> call.recno
            [] call.name = "delete" -> i - 2
            [] call.name = "insert" -> IF stage = "shift" THEN i + 2 ELSE call.recno
            [] OTHER -> 0

\* The records it has written so far, Target included.
Done == CASE call.name \in {"append", "update"} -> {Target}
          [] call.name = "delete" -> call.recno..Target
          [] call.name = "insert" -> Target..Len(before)+1
          [] OTHER -> {}

\* What it writes there.
Final(r) == CASE call.name = "delete" -> before[r + 1]
              [] call.name = "insert" /\ r # call.recno -> before[r - 1]
              [] OTHER -> call.rec

CallShape ==
  /\ call.name = "append" => Len(before) < Limit /\ n_recs = Len(before) + 1
  /\ call.name = "update" => call.recno \in 1..Len(before) /\ n_recs = Len(before)
  /\ call.name = "delete" =>
       /\ call.recno \in 1..Len(before)
       /\ stage = "shift" => i \in call.recno+1..Len(before)+1 /\ n_recs = Len(before)
       /\ stage = "header" => i = Len(before) + 1 /\ n_recs = Len(before) - 1
  /\ call.name = "insert" =>
       /\ Len(before) < Limit /\ call.recno \in 1..Len(before)
       /\ stage = "shift" => i \in call.recno-1..Len(before)
       /\ n_recs = IF stage = "header" THEN Len(before) + 1 ELSE Len(before)
  /\ call.name = "create" => n_recs = 0

Copied ==
  /\ before \in Seq(Record) /\ Len(before) <= Limit
  /\ ~Torn => StoredCount \in {Len(before), n_recs}
  /\ stage # "header" => StoredCount = Len(before)
  /\ \A r \in Done : RecordAt(Flushed, r) = Final(r)
  /\ \A r \in 1..Len(before) \ Done : RecordAt(Flushed, r) = before[r]

Pending == buf # <<>> /\ stage # "header" =>
  /\ Target \in Done
  /\ RecAddr(Target) <= dst
  /\ dst + Len(buf) <= RecAddr(Target) + RecSize

Progress == Busy => CallShape /\ Copied /\ Pending

-----------------------------------------------------------------------------

\* Two records of the table share no byte.
LEMMA RecordsApart ==
  ASSUME NEW a \in 1..Limit, NEW b \in 1..Limit, a < b
  PROVE  RecAddr(a) + RecSize <= RecAddr(b)
<1>1. RecSize \in Nat /\ a \in Int /\ b \in Int /\ TablePtr \in Nat
  BY LayoutAssumption, LimitType DEF TablePtr, HeaderSize
<1> DEFINE d == b - 1 - a
<1>2. d \in Nat
  BY <1>1
<1>3. d * RecSize \in Nat
  BY <1>1, <1>2
<1>4. (b - 1) * RecSize = (a - 1) * RecSize + RecSize + d * RecSize
  BY <1>1, <1>2
<1>5. (a - 1) * RecSize \in Nat /\ (b - 1) * RecSize \in Nat
  BY <1>1
<1> HIDE DEF d
<1>6. QED
  BY <1>1, <1>3, <1>4, <1>5 DEF RecAddr

\* The chip does not wrap inside the table.
LEMMA ReadIsAt ==
  ASSUME NEW n \in 1..Limit
  PROVE  readRec(n) = RecordAt(eeprom, n)
<1>1. \A j \in 1..RecSize : (RecAddr(n) + j - 1) % MemSize = RecAddr(n) + j - 1
  <2> SUFFICES ASSUME NEW j \in 1..RecSize
               PROVE  (RecAddr(n) + j - 1) % MemSize = RecAddr(n) + j - 1
    OBVIOUS
  <2>1. RecAddr(n) + j - 1 \in 0..MemSize-1
    BY RecordFits, Ranges, LayoutAssumption
  <2>2. QED
    BY <2>1, Ranges
<1>2. QED
  BY <1>1 DEF readRec, RecordAt

LEMMA FlushedIdle ==
  ASSUME TypeOK, buf = <<>>
  PROVE  Flushed = eeprom
<1>1. \A a \in Address : a \notin dst..dst+Len(buf)-1
  BY DEF TypeOK, Address
<1>2. QED
  BY <1>1 DEF Flushed, TypeOK

\* A byte written is the byte that was to be written there.
LEMMA FlushByte ==
  ASSUME IInv, WriteByte
  PROVE  Flushed' = Flushed
<1>1. Len(buf) \in Nat /\ Len(buf) >= 1 /\ buf \in Seq(Byte) /\ dst \in Nat
  BY DEF WriteByte, IInv, TypeOK
<1>2. dst \in HeadPtr..EndPtr-1 /\ dst % MemSize = dst /\ dst \in Address
  <2>1. dst \in HeadPtr..EndPtr-1
    BY <1>1, Ranges DEF WriteByte, IInv, WriteSound
  <2>2. QED
    BY <2>1, Ranges DEF Address
<1> DEFINE rest == Tail(buf)
           m    == Len(buf)
           chip == [eeprom EXCEPT ![dst] = Head(buf)]
<1>3. Len(rest) = m - 1 /\ \A k \in 1..m-1 : rest[k] = buf[k + 1]
  BY <1>1
<1>4. chip[dst] = buf[1] /\ \A a \in Address \ {dst} : chip[a] = eeprom[a]
  BY <1>1, <1>2 DEF IInv, TypeOK
<1>5. m \in Nat /\ m >= 1
  BY <1>1
<1>6. Flushed' = [a \in Address |-> IF a \in dst+1..(dst+1)+Len(rest)-1
                                    THEN rest[a - (dst+1) + 1] ELSE chip[a]]
  BY <1>2 DEF Flushed, WriteByte
<1>7. Flushed = [a \in Address |-> IF a \in dst..dst+m-1 THEN buf[a - dst + 1]
                                                          ELSE eeprom[a]]
  BY DEF Flushed
<1> HIDE DEF rest, m, chip
<1>8. ASSUME NEW a \in Address
      PROVE  Flushed'[a] = Flushed[a]
  <2>0. a \in Int
    BY DEF Address
  <2>1. CASE a \in dst+1..dst+m-1
    <3>1. a - dst \in 1..m-1 /\ a - (dst+1) + 1 = a - dst
      BY <2>0, <2>1, <1>1, <1>5
    <3>2. rest[a - dst] = buf[a - dst + 1]
      BY <3>1, <1>3
    <3>3. a \in dst..dst+m-1 /\ a \in dst+1..(dst+1)+Len(rest)-1
      BY <2>0, <2>1, <1>1, <1>3, <1>5
    <3>4. QED
      BY <3>1, <3>2, <3>3, <1>6, <1>7
  <2>2. CASE a = dst
    <3>1. a \in dst..dst+m-1 /\ a \notin dst+1..(dst+1)+Len(rest)-1 /\ a - dst + 1 = 1
      BY <2>0, <2>2, <1>1, <1>5
    <3>2. QED
      BY <3>1, <2>2, <1>4, <1>6, <1>7
  <2>3. CASE a \notin dst..dst+m-1
    <3>1. a \notin dst+1..(dst+1)+Len(rest)-1 /\ a # dst
      BY <2>0, <2>3, <1>1, <1>3, <1>5
    <3>2. QED
      BY <3>1, <2>3, <1>4, <1>6, <1>7
  <2>4. QED
    BY <2>0, <2>1, <2>2, <2>3, <1>1, <1>5
<1>9. QED
  BY <1>6, <1>7, <1>8

\* A record write, once flushed, changes its own record and no other.
LEMMA FlushRecord ==
  ASSUME TypeOK, buf = <<>>, eeprom' = eeprom,
         NEW n \in 1..Limit, NEW rec \in Record, writeRec(n, rec)
  PROVE  /\ RecordAt(Flushed', n) = rec
         /\ \A r \in 1..Limit \ {n} : RecordAt(Flushed', r) = RecordAt(Flushed, r)
         /\ Flushed = eeprom
<1>1. Flushed = eeprom
  BY FlushedIdle
<1>2. dst' = RecAddr(n) /\ buf' = rec /\ Len(rec) = RecSize
  BY RecordSeq DEF writeRec, edbWrite
<1>3. Flushed' = [a \in Address |-> IF a \in RecAddr(n)..RecAddr(n)+RecSize-1
                                    THEN rec[a - RecAddr(n) + 1] ELSE eeprom[a]]
  BY <1>2 DEF Flushed
<1>4. \A r \in 1..Limit : \A j \in 1..RecSize : RecAddr(r) + j - 1 \in Address
  BY RecordFits, Ranges, LayoutAssumption DEF Address
<1>5. RecordAt(Flushed', n) = rec
  <2>1. ASSUME NEW j \in 1..RecSize
        PROVE  Flushed'[RecAddr(n) + j - 1] = rec[j]
    <3>1. RecAddr(n) \in Nat /\ RecSize \in Nat /\ RecAddr(n) + j - 1 \in Address
      BY <1>4, RecordFits, LayoutAssumption
    <3>2. RecAddr(n) + j - 1 \in RecAddr(n)..RecAddr(n)+RecSize-1
          /\ (RecAddr(n) + j - 1) - RecAddr(n) + 1 = j
      BY <3>1
    <3>3. QED
      BY <1>3, <3>1, <3>2
  <2>2. rec = [j \in 1..RecSize |-> rec[j]]
    BY DEF Record
  <2>3. QED
    BY <2>1, <2>2 DEF RecordAt
<1>6. ASSUME NEW r \in 1..Limit, r # n
      PROVE  RecordAt(Flushed', r) = RecordAt(Flushed, r)
  <2>1. ASSUME NEW j \in 1..RecSize
        PROVE  Flushed'[RecAddr(r) + j - 1] = eeprom[RecAddr(r) + j - 1]
    <3>1. RecAddr(n) \in Nat /\ RecAddr(r) \in Nat /\ RecSize \in Nat
          /\ RecAddr(r) + j - 1 \in Address
      BY <1>4, RecordFits, LayoutAssumption
    <3>2. \/ RecAddr(r) + RecSize <= RecAddr(n)
          \/ RecAddr(n) + RecSize <= RecAddr(r)
      BY <1>6, RecordsApart, LimitType
    <3>3. RecAddr(r) + j - 1 \notin RecAddr(n)..RecAddr(n)+RecSize-1
      BY <3>1, <3>2
    <3>4. QED
      BY <1>3, <3>1, <3>3
  <2>2. QED
    BY <1>1, <2>1 DEF RecordAt
<1>7. QED
  BY <1>1, <1>5, <1>6

\* A write that stays out of a record leaves the record as the chip has it.
LEMMA Elsewhere ==
  ASSUME TypeOK, NEW r \in 1..Limit,
         \/ buf = <<>>
         \/ dst + Len(buf) <= RecAddr(r)
         \/ RecAddr(r) + RecSize <= dst
  PROVE  RecordAt(Flushed, r) = readRec(r)
<1>1. ASSUME NEW j \in 1..RecSize
      PROVE  Flushed[RecAddr(r) + j - 1] = eeprom[RecAddr(r) + j - 1]
  <2>1. RecAddr(r) \in Nat /\ RecSize \in Nat /\ RecAddr(r) + j - 1 \in Address
    BY RecordFits, Ranges, LayoutAssumption DEF Address
  <2>2. dst \in Nat /\ Len(buf) \in Nat /\ (buf = <<>> => Len(buf) = 0)
    BY DEF TypeOK
  <2>3. RecAddr(r) + j - 1 \notin dst..dst+Len(buf)-1
    BY <2>1, <2>2
  <2>4. QED
    BY <2>1, <2>3 DEF Flushed
<1>2. QED
  BY <1>1, ReadIsAt DEF RecordAt

\* A header write, even once flushed, changes no record.
LEMMA FlushHead ==
  ASSUME TypeOK, buf = <<>>, eeprom' = eeprom,
         NEW n \in 0..Limit, writeHead(n)
  PROVE  \A r \in 1..Limit : RecordAt(Flushed', r) = RecordAt(Flushed, r)
<1>1. Flushed = eeprom
  BY FlushedIdle
<1>2. dst' = HeadPtr /\ Len(buf') = 2
  BY HeaderOf DEF writeHead, edbWrite
<1>3. SUFFICES ASSUME NEW r \in 1..Limit, NEW j \in 1..RecSize
               PROVE  Flushed'[RecAddr(r) + j - 1] = eeprom[RecAddr(r) + j - 1]
  BY <1>1, Zenon DEF RecordAt
<1>4. RecAddr(r) \in Nat /\ RecSize \in Nat /\ RecAddr(r) + j - 1 \in Address
      /\ TablePtr <= RecAddr(r)
  BY RecordFits, Ranges, LayoutAssumption DEF Address
<1>5. RecAddr(r) + j - 1 \notin dst'..dst'+Len(buf')-1
  BY <1>2, <1>4, Ranges
<1>6. QED
  BY <1>4, <1>5 DEF Flushed

\* The table a call finds.
LEMMA BeginFacts ==
  ASSUME IInv, NEW c, Begin(c)
  PROVE  /\ before' \in Seq(Record)
         /\ Len(before') = n_recs
         /\ n_recs \in 0..Limit
         /\ StoredCount = n_recs
         /\ buf = <<>>
         /\ Flushed = eeprom
         /\ \A r \in 1..n_recs : before'[r] = RecordAt(eeprom, r)
<1>1. StoredCount = n_recs
  BY DEF Begin, IInv, WriteSound
<1>2. n_recs \in 0..Limit
  BY Ranges DEF IInv, TypeOK, WriteSound
<1>3. before' = [r \in 1..n_recs |-> readRec(r)]
  BY <1>1 DEF Begin, Stored
<1>4. \A r \in 1..n_recs : r \in 1..Limit
  BY <1>2, Ranges
<1>5. \A r \in 1..n_recs : readRec(r) \in Record /\ readRec(r) = RecordAt(eeprom, r)
  BY <1>4, ReadType, ReadIsAt DEF IInv
<1>6. before' \in [1..n_recs -> Record]
  BY <1>3, <1>5
<1>7. before' \in Seq(Record) /\ Len(before') = n_recs
  BY <1>2, <1>6
<1>8. buf = <<>> /\ Flushed = eeprom
  BY FlushedIdle DEF Begin, IInv, WriteSound, Busy, Ready
<1>9. QED
  BY <1>1, <1>2, <1>3, <1>5, <1>7, <1>8

\* What a call in progress is.
LEMMA CallKinds ==
  ASSUME TypeOK, Busy
  PROVE  /\ call.name \in {"append", "delete", "insert", "update", "create"}
         /\ call.name \in {"append", "insert", "update"} => call.rec \in Record
         /\ call.name \in {"delete", "insert", "update"} => call.recno \in Nat \ {0}
BY LayoutAssumption DEF TypeOK, Busy, Idle, Off

\* The record being written is one of the table's own.
LEMMA TargetFits ==
  ASSUME IInv, Busy, CallShape, Copied, stage # "header", Target \in Done
  PROVE  Target \in 1..Limit
<1>1. Limit \in Nat /\ Len(before) \in Nat /\ Len(before) <= Limit
  BY LimitType DEF Copied
<1>2. CASE call.name = "append"
  BY <1>1, <1>2 DEF CallShape, Target
<1>3. CASE call.name = "update"
  BY <1>1, <1>3 DEF CallShape, Target
<1>4. CASE call.name = "delete"
  <2>1. stage = "shift" => i - 2 <= Len(before) - 1
    BY <1>1, <1>4 DEF CallShape
  <2>2. i - 2 \in call.recno..i-2 /\ call.recno \in Nat \ {0} /\ i \in Nat
    BY <1>4, CallKinds DEF Done, Target, IInv, TypeOK
  <2>3. stage = "shift" /\ Target = i - 2
    BY <1>4 DEF IInv, CallSound, Target
  <2>4. QED
    BY <1>1, <2>1, <2>2, <2>3
<1>5. CASE call.name = "insert"
  BY <1>1, <1>5, CallKinds DEF CallShape, Target, Done, IInv, TypeOK
<1>6. QED
  BY <1>2, <1>3, <1>4, <1>5, CallKinds DEF Done, IInv

LEMMA WriteByteProgress ==
  ASSUME IInv, Progress, WriteByte
  PROVE  Progress'
<1> SUFFICES ASSUME Busy' PROVE (CallShape /\ Copied /\ Pending)'
  BY DEF Progress
<1>1. Busy /\ CallShape /\ Copied /\ Pending
  BY DEF Progress, WriteByte, Busy
<1>2. UNCHANGED <<n_recs, call, stage, i, before>> /\ dst' = dst + 1 /\ buf' = Tail(buf)
  BY DEF WriteByte
<1>3. Flushed' = Flushed /\ Done' = Done /\ Target' = Target
  BY <1>2, FlushByte DEF Done, Target
<1>4. \A r : Final(r)' = Final(r)
  BY <1>2 DEF Final
<1>5. CallShape'
  BY <1>1, <1>2 DEF CallShape
<1>6. Len(buf) \in Nat \ {0} /\ Len(buf') = Len(buf) - 1 /\ dst \in Nat
  BY <1>2 DEF WriteByte, IInv, TypeOK
<1>7. Pending'
  <2>1. CASE buf' # <<>> /\ stage # "header"
    <3>1. Target \in Done /\ RecAddr(Target) <= dst
          /\ dst + Len(buf) <= RecAddr(Target) + RecSize
      BY <1>1, <1>2, <2>1 DEF Pending, WriteByte
    <3>2. RecAddr(Target)' = RecAddr(Target)
      BY <1>3 DEF RecAddr
    <3>3. dst' + Len(buf') = dst + Len(buf)
      BY <1>2, <1>6
    <3>4. Target \in 1..Limit
      BY <1>1, <1>2, <2>1, <3>1, TargetFits, Zenon
    <3>5. RecAddr(Target) \in Nat
      BY <3>4, RecordFits
    <3>6. QED
      BY <1>2, <1>3, <1>6, <3>1, <3>2, <3>3, <3>5 DEF Pending
  <2>2. QED
    BY <1>2, <2>1 DEF Pending
<1>8. Copied'
  <2>1. CASE stage # "header"
    <3>1. dst \in HeadPtr..EndPtr-1 /\ TablePtr <= dst
      BY <1>6, <2>1, Ranges DEF WriteByte, IInv, WriteSound
    <3>2. dst \in Address /\ dst % MemSize = dst /\ dst # HeadPtr /\ dst # HeadPtr + 1
      BY <3>1, Ranges DEF Address
    <3>3. StoredCount' = StoredCount
      BY <3>2, Ranges, SameCount DEF WriteByte, IInv, TypeOK
    <3>4. QED
      BY <1>1, <1>2, <1>3, <1>4, <2>1, <3>3 DEF Copied
  <2>2. CASE stage = "header"
    <3>1. ~Torn' => StoredCount' = n_recs
      <4>1. IInv'
        BY WriteByteInv
      <4>2. CASE buf' = <<>>
        BY <1>2, <2>2, <4>1, <4>2 DEF IInv, WriteSound
      <4>3. CASE buf' # <<>>
        BY <1>2, <1>6, <2>2, <4>1, <4>3, Ranges DEF IInv, WriteSound, Torn
      <4>4. QED
        BY <4>2, <4>3
    <3>2. QED
      BY <1>1, <1>2, <1>3, <1>4, <2>2, <3>1 DEF Copied
  <2>3. QED
    BY <2>1, <2>2
<1>9. QED
  BY <1>5, <1>7, <1>8

LEMMA AppendProgress ==
  ASSUME IInv, NEW rec \in Records, appendRec(rec)
  PROVE  Progress'
<1>1. CASE NoRoom
  BY <1>1 DEF appendRec, Refused, Ready, Progress, Busy
<1>2. CASE ~NoRoom
  <2>1. /\ Begin([name |-> "append", rec |-> rec])
        /\ call' = [name |-> "append", rec |-> rec]
        /\ n_recs' = n_recs + 1
        /\ stage' = "record"
        /\ writeRec(n_recs + 1, rec)
        /\ eeprom' = eeprom
    BY <1>2 DEF appendRec, Begin
  <2>2. /\ before' \in Seq(Record) /\ Len(before') = n_recs /\ n_recs \in 0..Limit
        /\ StoredCount = n_recs /\ buf = <<>> /\ Flushed = eeprom
        /\ \A r \in 1..n_recs : before'[r] = RecordAt(eeprom, r)
    BY <2>1, BeginFacts
  <2>3. n_recs + 1 \in 1..Limit /\ rec \in Record
    BY <1>2, <2>2, Ranges, LayoutAssumption DEF NoRoom
  <2>4. /\ RecordAt(Flushed', n_recs + 1) = rec
        /\ \A r \in 1..Limit \ {n_recs + 1} : RecordAt(Flushed', r) = RecordAt(Flushed, r)
    BY <2>1, <2>2, <2>3, FlushRecord DEF IInv
  <2>5. Target' = n_recs + 1 /\ Done' = {n_recs + 1} /\ \A r : Final(r)' = rec
    BY <2>1, <2>2 DEF Target, Done, Final
  <2>6. CallShape'
    BY <2>1, <2>2, <2>3, LimitType DEF CallShape
  <2>7. Copied'
    <3>1. \A r \in 1..n_recs : r \in 1..Limit \ {n_recs + 1}
      BY <2>2, <2>3, LimitType
    <3>2. \A r \in 1..n_recs : RecordAt(Flushed', r) = before'[r]
      BY <2>2, <2>4, <3>1
    <3>3. \A r \in Done' : RecordAt(Flushed', r) = Final(r)'
      BY <2>4, <2>5
    <3>4. Len(before') <= Limit
      BY <2>2, LimitType
    <3>5. QED
      BY <2>1, <2>2, <3>2, <3>3, <3>4, SameCount DEF Copied
  <2>8. Pending'
    BY <2>1, <2>3, <2>5, RecordSeq, RecordFits, LayoutAssumption
    DEF Pending, writeRec, edbWrite, RecAddr
  <2>9. QED
    BY <2>6, <2>7, <2>8 DEF Progress
<1>3. QED
  BY <1>1, <1>2

LEMMA UpdateProgress ==
  ASSUME IInv, NEW recno \in 1..n_recs+1, NEW rec \in Records, updateRec(recno, rec)
  PROVE  Progress'
<1>1. CASE OutOfRange(recno)
  BY <1>1 DEF updateRec, Refused, Ready, Progress, Busy
<1>2. CASE ~OutOfRange(recno)
  <2>1. /\ Begin([name |-> "update", recno |-> recno, rec |-> rec])
        /\ call' = [name |-> "update", recno |-> recno, rec |-> rec]
        /\ n_recs' = n_recs
        /\ stage' = "record"
        /\ writeRec(recno, rec)
        /\ eeprom' = eeprom
    BY <1>2 DEF updateRec, Begin
  <2>2. /\ before' \in Seq(Record) /\ Len(before') = n_recs /\ n_recs \in 0..Limit
        /\ StoredCount = n_recs /\ buf = <<>> /\ Flushed = eeprom
        /\ \A r \in 1..n_recs : before'[r] = RecordAt(eeprom, r)
    BY <2>1, BeginFacts
  <2>3. recno \in 1..n_recs /\ recno \in 1..Limit /\ rec \in Record
    BY <1>2, <2>2, Ranges, LayoutAssumption DEF OutOfRange
  <2>4. /\ RecordAt(Flushed', recno) = rec
        /\ \A r \in 1..Limit \ {recno} : RecordAt(Flushed', r) = RecordAt(Flushed, r)
    BY <2>1, <2>2, <2>3, FlushRecord DEF IInv
  <2>5. Target' = recno /\ Done' = {recno} /\ Final(recno)' = rec
    BY <2>1 DEF Target, Done, Final
  <2>6. CallShape'
    BY <2>1, <2>2, <2>3 DEF CallShape
  <2>7. Copied'
    <3>1. \A r \in 1..n_recs : r \in 1..Limit
      BY <2>2, Ranges
    <3>2. \A r \in 1..n_recs \ {recno} : RecordAt(Flushed', r) = before'[r]
      BY <2>2, <2>4, <3>1
    <3>3. QED
      BY <2>1, <2>2, <2>4, <2>5, <3>2, SameCount DEF Copied
  <2>8. Pending'
    BY <2>1, <2>3, <2>5, RecordSeq, RecordFits, LayoutAssumption
    DEF Pending, writeRec, edbWrite, RecAddr
  <2>9. QED
    BY <2>6, <2>7, <2>8 DEF Progress
<1>3. QED
  BY <1>1, <1>2

LEMMA DeleteProgress ==
  ASSUME IInv, NEW recno \in 1..n_recs+1, deleteRec(recno)
  PROVE  Progress'
<1>1. CASE OutOfRange(recno)
  BY <1>1 DEF deleteRec, Refused, Ready, Progress, Busy
<1>2. CASE ~OutOfRange(recno)
  <2>1. /\ Begin([name |-> "delete", recno |-> recno])
        /\ call' = [name |-> "delete", recno |-> recno]
        /\ stage' = "shift"
        /\ i' = recno + 1
        /\ UNCHANGED <<eeprom, n_recs, dst, buf>>
    BY <1>2 DEF deleteRec, Begin
  <2>2. /\ before' \in Seq(Record) /\ Len(before') = n_recs /\ n_recs \in 0..Limit
        /\ StoredCount = n_recs /\ buf = <<>> /\ Flushed = eeprom
        /\ \A r \in 1..n_recs : before'[r] = RecordAt(eeprom, r)
    BY <2>1, BeginFacts
  <2>3. recno \in 1..n_recs
    BY <1>2, <2>2 DEF OutOfRange
  <2>4. Flushed' = Flushed
    BY <2>1 DEF Flushed
  <2>5. Done' = {}
    BY <2>1, <2>3 DEF Target, Done
  <2>6. CallShape'
    BY <2>1, <2>2, <2>3 DEF CallShape
  <2>7. Copied'
    BY <2>1, <2>2, <2>4, <2>5, SameCount DEF Copied
  <2>8. Pending'
    BY <2>1, <2>2 DEF Pending
  <2>9. QED
    BY <2>6, <2>7, <2>8 DEF Progress
<1>3. QED
  BY <1>1, <1>2

LEMMA InsertProgress ==
  ASSUME IInv, NEW recno \in 1..n_recs+1, NEW rec \in Records, insertRec(recno, rec)
  PROVE  Progress'
<1>1. CASE Refused("TABLE_FULL") \/ Refused("OUT_OF_RANGE")
  BY <1>1 DEF Refused, Ready, Progress, Busy
<1>2. CASE appendRec(rec)
  BY <1>2, AppendProgress
<1>3. CASE /\ ~(n_recs = Limit)
           /\ ~(n_recs > 0 /\ OutOfRange(recno))
           /\ ~(n_recs = 0 /\ recno = 1)
  <2>1. /\ Begin([name |-> "insert", recno |-> recno, rec |-> rec])
        /\ call' = [name |-> "insert", recno |-> recno, rec |-> rec]
        /\ stage' = "shift"
        /\ i' = n_recs
        /\ UNCHANGED <<eeprom, n_recs, dst, buf>>
    BY <1>3 DEF insertRec, Begin
  <2>2. /\ before' \in Seq(Record) /\ Len(before') = n_recs /\ n_recs \in 0..Limit
        /\ StoredCount = n_recs /\ buf = <<>> /\ Flushed = eeprom
        /\ \A r \in 1..n_recs : before'[r] = RecordAt(eeprom, r)
    BY <2>1, BeginFacts
  <2>3. recno \in 1..n_recs /\ n_recs < Limit
    BY <1>3, <2>2, Ranges DEF OutOfRange
  <2>4. Flushed' = Flushed
    BY <2>1 DEF Flushed
  <2>5. Done' = {}
    BY <2>1, <2>2 DEF Target, Done
  <2>6. CallShape'
    BY <2>1, <2>2, <2>3 DEF CallShape
  <2>7. Copied'
    BY <2>1, <2>2, <2>4, <2>5, SameCount DEF Copied
  <2>8. Pending'
    BY <2>1, <2>2 DEF Pending
  <2>9. QED
    BY <2>6, <2>7, <2>8 DEF Progress
<1>4. QED
  BY <1>1, <1>2, <1>3 DEF insertRec

LEMMA CreateProgress ==
  ASSUME IInv, create
  PROVE  Progress'
<1>1. /\ Begin([name |-> "create"])
      /\ call' = [name |-> "create"]
      /\ n_recs' = 0
      /\ stage' = "header"
      /\ writeHead(0)
      /\ eeprom' = eeprom
  BY DEF create, Begin
<1>2. /\ before' \in Seq(Record) /\ Len(before') = n_recs /\ n_recs \in 0..Limit
      /\ StoredCount = n_recs /\ buf = <<>> /\ Flushed = eeprom
      /\ \A r \in 1..n_recs : before'[r] = RecordAt(eeprom, r)
  BY <1>1, BeginFacts
<1>3. \A r \in 1..Limit : RecordAt(Flushed', r) = RecordAt(Flushed, r)
  BY <1>1, <1>2, FlushHead, Ranges DEF IInv
<1>4. Done' = {}
  BY <1>1 DEF Done
<1>5. CallShape'
  BY <1>1 DEF CallShape
<1>6. Copied'
  <2>1. \A r \in 1..n_recs : r \in 1..Limit
    BY <1>2, Ranges
  <2>2. QED
    BY <1>1, <1>2, <1>3, <1>4, <2>1, SameCount DEF Copied
<1>7. Pending'
  BY <1>1 DEF Pending
<1>8. QED
  BY <1>5, <1>6, <1>7 DEF Progress

LEMMA CommitProgress ==
  ASSUME IInv, Progress, Busy, buf = <<>>, stage # "header",
         NEW n \in 0..Limit, CommitCount(n), Done' = Done, CallShape'
  PROVE  Progress'
<1>1. CallShape /\ Copied
  BY DEF Progress
<1>2. UNCHANGED <<eeprom, call, i, before>> /\ n_recs' = n /\ stage' = "header"
      /\ writeHead(n)
  BY DEF CommitCount
<1>3. \A r \in 1..Limit : RecordAt(Flushed', r) = RecordAt(Flushed, r)
  BY <1>2, FlushHead DEF IInv
<1>4. Len(before) \in Nat /\ Len(before) <= Limit /\ Limit \in Nat
  BY <1>1, LimitType DEF Copied
<1>5. Done \subseteq 1..Limit
  BY <1>1, <1>4, CallKinds DEF CallShape, Done, Target, IInv, TypeOK, CallSound
<1>6. \A r : Final(r)' = Final(r)
  BY <1>2 DEF Final
<1>7. Copied'
  <2>1. \A r \in Done' : RecordAt(Flushed', r) = Final(r)'
    BY <1>1, <1>3, <1>5, <1>6 DEF Copied
  <2>2. \A r \in 1..Len(before) \ Done : RecordAt(Flushed', r) = before[r]
    BY <1>1, <1>3, <1>4 DEF Copied
  <2>3. QED
    BY <1>1, <1>2, <2>1, <2>2, SameCount DEF Copied, Torn
<1>8. Pending'
  BY <1>2 DEF Pending
<1>9. QED
  BY <1>7, <1>8 DEF Progress

LEMMA HeadersProgress ==
  ASSUME IInv, Progress, AppendHeader \/ DeleteHeader \/ InsertHeader
  PROVE  Progress'
<1>1. Busy /\ buf = <<>> /\ stage # "header"
  BY DEF AppendHeader, DeleteHeader, InsertHeader, Busy, Idle, Off
<1>2. CallShape /\ Copied
  BY <1>1 DEF Progress
<1>3. Len(before) \in Nat /\ Len(before) <= Limit /\ Limit \in Nat
  BY <1>2, LimitType DEF Copied
<1>4. CASE AppendHeader
  <2>1. n_recs \in 0..Limit /\ CommitCount(n_recs) /\ call.name = "append"
    BY <1>2, <1>3, <1>4 DEF AppendHeader, CallShape
  <2>2. CallShape' /\ Done' = Done
    BY <1>2, <2>1 DEF CommitCount, CallShape, Done, Target
  <2>3. QED
    BY <1>1, <2>1, <2>2, CommitProgress
<1>5. CASE DeleteHeader
  <2>1. CommitCount(n_recs - 1) /\ call.name = "delete" /\ stage = "shift" /\ i > n_recs
    BY <1>5 DEF DeleteHeader
  <2>2. n_recs = Len(before) /\ call.recno \in 1..Len(before) /\ i = Len(before) + 1
    BY <1>2, <1>3, <2>1 DEF CallShape
  <2>3. n_recs - 1 \in 0..Limit
    BY <1>3, <2>2
  <2>4. CallShape' /\ Done' = Done
    BY <2>1, <2>2 DEF CommitCount, CallShape, Done, Target
  <2>5. QED
    BY <1>1, <2>1, <2>3, <2>4, CommitProgress
<1>6. CASE InsertHeader
  <2>1. CommitCount(n_recs + 1) /\ call.name = "insert" /\ stage = "record"
    BY <1>6 DEF InsertHeader
  <2>2. n_recs = Len(before) /\ Len(before) < Limit
    BY <1>2, <2>1 DEF CallShape
  <2>3. n_recs + 1 \in 0..Limit
    BY <1>3, <2>2
  <2>4. CallShape' /\ Done' = Done
    BY <1>2, <2>1, <2>2 DEF CommitCount, CallShape, Done, Target
  <2>5. QED
    BY <1>1, <2>1, <2>3, <2>4, CommitProgress
<1>7. QED
  BY <1>4, <1>5, <1>6

\* A record written inside a call: it was intact where it was read, and the
\* records written before it stay.
LEMMA CopyProgress ==
  ASSUME IInv, Progress, Busy, buf = <<>>, stage # "header",
         NEW n \in 1..Limit, NEW rec \in Record, writeRec(n, rec),
         UNCHANGED <<eeprom, n_recs, call, before>>,
         stage' # "header", CallShape',
         Target' = n, Done' = Done \cup {n}, Done' \subseteq 1..Limit, rec = Final(n)
  PROVE  Progress'
<1>1. Copied
  BY DEF Progress
<1>2. /\ RecordAt(Flushed', n) = rec
      /\ \A r \in 1..Limit \ {n} : RecordAt(Flushed', r) = RecordAt(Flushed, r)
  BY FlushRecord DEF IInv
<1>3. Len(before) \in Nat /\ Len(before) <= Limit /\ Limit \in Nat
  BY <1>1, LimitType DEF Copied
<1>4. \A r : Final(r)' = Final(r)
  BY DEF Final
<1>5. \A r \in Done' : RecordAt(Flushed', r) = Final(r)'
  BY <1>1, <1>2, <1>4 DEF Copied
<1>6. \A r \in 1..Len(before) \ Done' : RecordAt(Flushed', r) = before[r]
  BY <1>1, <1>2, <1>3 DEF Copied
<1>7. Copied'
  BY <1>1, <1>5, <1>6, SameCount DEF Copied, Torn
<1>8. Pending'
  <2>1. dst' = RecAddr(n) /\ Len(buf') = RecSize
    BY RecordSeq DEF writeRec, edbWrite
  <2>2. RecAddr(n) \in Nat /\ RecSize \in Nat /\ RecAddr(Target)' = RecAddr(n)
    BY RecordFits, LayoutAssumption DEF RecAddr
  <2>3. QED
    BY <2>1, <2>2 DEF Pending
<1>9. QED
  BY <1>7, <1>8 DEF Progress

\* With no byte in hand, a record not yet written is as the call found it.
LEMMA NotYet ==
  ASSUME IInv, Copied, buf = <<>>, NEW r \in 1..Len(before) \ Done
  PROVE  r \in 1..Limit /\ readRec(r) = before[r] /\ before[r] \in Record
<1>1. r \in 1..Limit
  BY LimitType DEF Copied
<1>2. Flushed = eeprom
  BY FlushedIdle DEF IInv
<1>3. QED
  BY <1>1, <1>2, ReadIsAt DEF Copied

LEMMA DeleteShiftProgress ==
  ASSUME IInv, Progress, DeleteShift
  PROVE  Progress'
<1>1. Busy /\ buf = <<>> /\ stage = "shift" /\ call.name = "delete" /\ i <= n_recs
      /\ writeRec(i - 1, readRec(i)) /\ i' = i + 1
      /\ UNCHANGED <<eeprom, n_recs, call, stage, before>>
  BY DEF DeleteShift, Busy, Idle, Off
<1>2. CallShape /\ Copied
  BY <1>1 DEF Progress
<1>3. Len(before) \in Nat /\ Len(before) <= Limit /\ Limit \in Nat
  BY <1>2, LimitType DEF Copied
<1>4. call.recno \in 1..Len(before) /\ i \in call.recno+1..Len(before) /\ n_recs = Len(before)
  BY <1>1, <1>2, <1>3 DEF CallShape
<1>5. Done = call.recno..i-2 /\ Done' = call.recno..i-1 /\ Target' = i - 1
  BY <1>1, <1>4 DEF Done, Target
<1>6. i \in 1..Len(before) \ Done
  BY <1>3, <1>4, <1>5
<1>7. readRec(i) = before[i] /\ readRec(i) \in Record
  BY <1>1, <1>2, <1>6, NotYet
<1>8. Final(i - 1) = before[i]
  BY <1>1, <1>4 DEF Final
<1>9. i - 1 \in 1..Limit /\ Done' = Done \cup {i - 1} /\ Done' \subseteq 1..Limit
  BY <1>3, <1>4, <1>5
<1>10. CallShape'
  BY <1>1, <1>2, <1>3, <1>4 DEF CallShape
<1>11. QED
  BY <1>1, <1>5, <1>7, <1>8, <1>9, <1>10, CopyProgress

LEMMA InsertShiftProgress ==
  ASSUME IInv, Progress, InsertShift
  PROVE  Progress'
<1>1. Busy /\ buf = <<>> /\ stage = "shift" /\ call.name = "insert" /\ i >= call.recno
      /\ writeRec(i + 1, readRec(i)) /\ i' = i - 1
      /\ UNCHANGED <<eeprom, n_recs, call, stage, before>>
  BY DEF InsertShift, Busy, Idle, Off
<1>2. CallShape /\ Copied
  BY <1>1 DEF Progress
<1>3. Len(before) \in Nat /\ Len(before) <= Limit /\ Limit \in Nat
  BY <1>2, LimitType DEF Copied
<1>4. call.recno \in 1..Len(before) /\ i \in call.recno..Len(before)
      /\ Len(before) < Limit /\ n_recs = Len(before)
  BY <1>1, <1>2, <1>3 DEF CallShape
<1>5. Done = i+2..Len(before)+1 /\ Done' = i+1..Len(before)+1 /\ Target' = i + 1
  BY <1>1, <1>4 DEF Done, Target
<1>6. i \in 1..Len(before) \ Done
  BY <1>3, <1>4, <1>5
<1>7. readRec(i) = before[i] /\ readRec(i) \in Record
  BY <1>1, <1>2, <1>6, NotYet
<1>8. Final(i + 1) = before[i]
  BY <1>1, <1>4 DEF Final
<1>9. i + 1 \in 1..Limit /\ Done' = Done \cup {i + 1} /\ Done' \subseteq 1..Limit
  BY <1>3, <1>4, <1>5
<1>10. CallShape'
  BY <1>1, <1>2, <1>3, <1>4 DEF CallShape
<1>11. QED
  BY <1>1, <1>5, <1>7, <1>8, <1>9, <1>10, CopyProgress

LEMMA InsertRecordProgress ==
  ASSUME IInv, Progress, InsertRecord
  PROVE  Progress'
<1>1. Busy /\ buf = <<>> /\ stage = "shift" /\ call.name = "insert" /\ i < call.recno
      /\ writeRec(call.recno, call.rec) /\ stage' = "record"
      /\ UNCHANGED <<eeprom, n_recs, call, i, before>>
  BY DEF InsertRecord, Busy, Idle, Off
<1>2. CallShape /\ Copied
  BY <1>1 DEF Progress
<1>3. Len(before) \in Nat /\ Len(before) <= Limit /\ Limit \in Nat
  BY <1>2, LimitType DEF Copied
<1>4. call.recno \in 1..Len(before) /\ i = call.recno - 1
      /\ Len(before) < Limit /\ n_recs = Len(before)
  BY <1>1, <1>2, <1>3 DEF CallShape
<1>5. Done = call.recno+1..Len(before)+1 /\ Done' = call.recno..Len(before)+1
      /\ Target' = call.recno
  BY <1>1, <1>4 DEF Done, Target
<1>6. call.rec \in Record /\ Final(call.recno) = call.rec
  BY <1>1, CallKinds DEF Final, IInv
<1>7. call.recno \in 1..Limit /\ Done' = Done \cup {call.recno} /\ Done' \subseteq 1..Limit
  BY <1>3, <1>4, <1>5
<1>8. CallShape'
  BY <1>1, <1>2, <1>3, <1>4 DEF CallShape
<1>9. QED
  BY <1>1, <1>5, <1>6, <1>7, <1>8, CopyProgress

LEMMA InitProgress == Init => Progress
BY DEF Init, Progress, Busy

LEMMA StepProgress ==
  ASSUME IInv, Progress, [Next]_vars
  PROVE  Progress'
<1>1. CASE Caller
  BY <1>1, AppendProgress, DeleteProgress, InsertProgress, UpdateProgress, CreateProgress
  DEF Caller
<1>2. CASE AppendHeader \/ DeleteHeader \/ InsertHeader
  BY <1>2, HeadersProgress
<1>3. CASE Return \/ PowerFails \/ open
  BY <1>3 DEF Return, PowerFails, open, Progress, Busy
<1>4. CASE UNCHANGED vars
  BY <1>4, SameCount
  DEF vars, ram, Progress, CallShape, Copied, Torn, Pending, Busy, Done, Target,
    Final, Flushed
<1>5. QED
  BY <1>1, <1>2, <1>3, <1>4, WriteByteProgress, DeleteShiftProgress, InsertShiftProgress,
     InsertRecordProgress DEF Next, Device

-----------------------------------------------------------------------------

\* A sequence without its record k: the later ones move down.
LEMMA RemoveAtElements ==
  ASSUME NEW S, NEW t \in Seq(S), NEW k \in 1..Len(t)
  PROVE  /\ RemoveAt(t, k) \in Seq(S)
         /\ Len(RemoveAt(t, k)) = Len(t) - 1
         /\ \A r \in 1..Len(t)-1 : RemoveAt(t, k)[r] = IF r < k THEN t[r] ELSE t[r + 1]
<1> DEFINE m == Len(t)
           low == SubSeq(t, 1, k - 1)
           high == SubSeq(t, k + 1, m)
<1>1. m \in Nat /\ k \in 1..m /\ \A r \in 1..m : t[r] \in S
  OBVIOUS
<1>2. low \in Seq(S) /\ Len(low) = k - 1 /\ \A r \in 1..k-1 : low[r] = t[r]
  BY <1>1, SubSeqProperties
<1>3. high \in Seq(S) /\ Len(high) = m - k /\ \A r \in 1..m-k : high[r] = t[k + r]
  BY <1>1, SubSeqProperties
<1>4. RemoveAt(t, k) = low \o high
  BY DEF RemoveAt
<1> HIDE DEF m, low, high
<1>5. low \o high \in Seq(S) /\ Len(low \o high) = m - 1
  <2>1. low \o high \in Seq(S) /\ Len(low \o high) = Len(low) + Len(high)
    BY <1>2, <1>3, ConcatProperties
  <2>2. (k - 1) + (m - k) = m - 1
    BY <1>1
  <2>3. QED
    BY <1>2, <1>3, <2>1, <2>2
<1>6. ASSUME NEW r \in 1..m-1
      PROVE  (low \o high)[r] = IF r < k THEN t[r] ELSE t[r + 1]
  <2>1. CASE r < k
    BY <1>1, <1>2, <1>3, <2>1
  <2>2. CASE r >= k
    <3>1. (low \o high)[r] = high[r - (k - 1)]
      BY <1>1, <1>2, <1>3, <2>2
    <3>2. r - (k - 1) \in 1..m-k /\ k + (r - (k - 1)) = r + 1
      BY <1>1, <2>2
    <3>3. QED
      BY <1>1, <1>3, <2>2, <3>1, <3>2
  <2>3. r < k \/ r >= k
    BY <1>1
  <2>4. QED
    BY <2>1, <2>2, <2>3, Zenon
<1>7. QED
  BY <1>4, <1>5, <1>6 DEF m

\* A sequence with e inserted at k: the later ones move up.
LEMMA InsertAtElements ==
  ASSUME NEW S, NEW t \in Seq(S), NEW k \in 1..Len(t), NEW e \in S
  PROVE  /\ InsertAt(t, k, e) \in Seq(S)
         /\ Len(InsertAt(t, k, e)) = Len(t) + 1
         /\ InsertAt(t, k, e) = [r \in 1..Len(t)+1 |->
              IF r < k THEN t[r] ELSE IF r = k THEN e ELSE t[r - 1]]
<1> DEFINE m == Len(t)
           low == SubSeq(t, 1, k - 1)
           high == SubSeq(t, k, m)
           front == low \o <<e>>
<1>1. m \in Nat /\ k \in 1..m /\ \A r \in 1..m : t[r] \in S
  OBVIOUS
<1>2. low \in Seq(S) /\ Len(low) = k - 1 /\ \A r \in 1..k-1 : low[r] = t[r]
  BY <1>1, SubSeqProperties
<1>3. high \in Seq(S) /\ Len(high) = m - k + 1 /\ \A r \in 1..m-k+1 : high[r] = t[k + r - 1]
  BY <1>1, SubSeqProperties
<1>4. InsertAt(t, k, e) = front \o high
  BY DEF InsertAt
<1> HIDE DEF m, low, high
<1>5. front \in Seq(S) /\ Len(front) = k /\ front[k] = e
      /\ \A r \in 1..k-1 : front[r] = t[r]
  BY <1>1, <1>2
<1> HIDE DEF front
<1>6. front \o high \in Seq(S) /\ Len(front \o high) = m + 1
  <2>1. front \o high \in Seq(S) /\ Len(front \o high) = Len(front) + Len(high)
    BY <1>3, <1>5, ConcatProperties
  <2>2. k + (m - k + 1) = m + 1
    BY <1>1
  <2>3. QED
    BY <1>3, <1>5, <2>1, <2>2
<1>7. ASSUME NEW r \in 1..m+1
      PROVE  (front \o high)[r] = IF r < k THEN t[r] ELSE IF r = k THEN e ELSE t[r - 1]
  <2>1. CASE r <= k
    <3>1. (front \o high)[r] = front[r]
      BY <1>1, <1>3, <1>5, <2>1
    <3>2. QED
      BY <1>1, <1>5, <2>1, <3>1
  <2>2. CASE r > k
    <3>1. (front \o high)[r] = high[r - k]
      BY <1>1, <1>3, <1>5, <2>2
    <3>2. r - k \in 1..m-k+1 /\ k + (r - k) - 1 = r - 1
      BY <1>1, <2>2
    <3>3. QED
      BY <1>1, <1>3, <2>2, <3>1, <3>2
  <2>3. r <= k \/ r > k
    BY <1>1
  <2>4. QED
    BY <2>1, <2>2, <2>3, Zenon
<1>8. front \o high = [r \in 1..m+1 |->
         IF r < k THEN t[r] ELSE IF r = k THEN e ELSE t[r - 1]]
  <2>1. front \o high = [r \in 1..m+1 |-> (front \o high)[r]]
    BY <1>6, LenProperties
  <2>2. QED
    BY <1>7, <2>1
<1>9. QED
  BY <1>4, <1>6, <1>8 DEF m

\* The table the next boot finds, as a sequence of records.
LEMMA StoredSeq ==
  ASSUME IInv, ~Torn
  PROVE  /\ StoredCount \in 0..Limit
         /\ Stored \in Seq(Record) /\ Len(Stored) = StoredCount
         /\ \A r \in 1..StoredCount : Stored[r] = readRec(r) /\ r \in 1..Limit
<1>1. StoredCount \in 0..Limit
  BY CountType, Ranges DEF IInv, WriteSound
<1>2. \A r \in 1..StoredCount : r \in 1..Limit
  BY <1>1, Ranges
<1>3. Stored \in [1..StoredCount -> Record]
  BY <1>2, ReadType DEF Stored, IInv
<1>4. Stored \in Seq(Record) /\ Len(Stored) = StoredCount
  BY <1>1, <1>3
<1>5. QED
  BY <1>1, <1>2, <1>4 DEF Stored

\* Of every record but the one being written the chip holds what it will hold.
LEMMA Settled ==
  ASSUME IInv, Busy, CallShape, Copied, Pending, NEW r \in 1..Limit,
         r # Target \/ stage = "header" \/ buf = <<>>
  PROVE  /\ r \in Done => readRec(r) = Final(r)
         /\ r \in 1..Len(before) \ Done => readRec(r) = before[r]
<1>1. RecordAt(Flushed, r) = readRec(r)
  <2>1. CASE buf = <<>>
    BY <2>1, Elsewhere DEF IInv
  <2>2. CASE buf # <<>> /\ stage = "header"
    <3>1. dst + Len(buf) = TablePtr
      <4>1. \/ dst = HeadPtr /\ buf = HeaderBytes(n_recs)
            \/ dst = HeadPtr + 1 /\ buf = <<n_recs \div Base>>
        BY <2>2 DEF IInv, WriteSound
      <4>2. n_recs \in 0..Limit
        BY Ranges DEF IInv, TypeOK, WriteSound
      <4>3. Len(buf) = IF dst = HeadPtr THEN 2 ELSE 1
        BY <4>1, <4>2, HeaderOf, Ranges
      <4>4. QED
        BY <4>1, <4>3, Ranges
    <3>2. dst + Len(buf) <= RecAddr(r)
      BY <3>1, RecordFits
    <3>3. QED
      BY <3>2, Elsewhere DEF IInv
  <2>3. CASE buf # <<>> /\ stage # "header"
    <3>1. Target \in 1..Limit /\ RecAddr(Target) <= dst
          /\ dst + Len(buf) <= RecAddr(Target) + RecSize
      BY <2>3, TargetFits DEF Pending
    <3>2. \/ RecAddr(r) + RecSize <= RecAddr(Target)
          \/ RecAddr(Target) + RecSize <= RecAddr(r)
      BY <2>3, <3>1, RecordsApart, LimitType
    <3>3. RecAddr(r) \in Nat /\ RecAddr(Target) \in Nat /\ RecSize \in Nat
          /\ dst \in Nat /\ Len(buf) \in Nat
      BY <3>1, RecordFits, LayoutAssumption DEF IInv, TypeOK
    <3>4. dst + Len(buf) <= RecAddr(r) \/ RecAddr(r) + RecSize <= dst
      BY <3>1, <3>2, <3>3
    <3>5. QED
      BY <3>4, Elsewhere DEF IInv
  <2>4. QED
    BY <2>1, <2>2, <2>3
<1>2. QED
  BY <1>1 DEF Copied

\* When the count is committed, the chip holds the result of the call.
LEMMA CallDone ==
  ASSUME IInv, Progress, Busy, StoredCount = n_recs,
         stage = "header" \/ (call.name = "update" /\ buf = <<>>)
  PROVE  Stored = Abstract!Result(before, call)
<1> DEFINE n == Len(before)
<1>1. CallShape /\ Copied /\ Pending
  BY DEF Progress
<1>2. before \in Seq(Record) /\ n \in Nat /\ n <= Limit /\ Limit \in Nat
  BY <1>1, LimitType DEF Copied
<1>3. /\ Stored \in Seq(Record) /\ Len(Stored) = n_recs /\ n_recs \in 0..Limit
      /\ \A r \in 1..n_recs : Stored[r] = readRec(r) /\ r \in 1..Limit
  BY StoredSeq DEF Torn
<1>4. \A r \in 1..n_recs : /\ r \in Done => Stored[r] = Final(r)
                           /\ r \in 1..n \ Done => Stored[r] = before[r]
  BY <1>1, <1>3, Settled
<1>5. CASE call.name = "append"
  <2>1. n_recs = n + 1 /\ Done = {n + 1} /\ Final(n + 1) = call.rec /\ call.rec \in Record
    BY <1>1, <1>5, CallKinds DEF CallShape, Done, Target, Final, IInv
  <2>2. Abstract!Result(before, call) = Append(before, call.rec)
    BY <1>5 DEF Abstract!Result
  <2>3. Append(before, call.rec) \in Seq(Record) /\ Len(Append(before, call.rec)) = n + 1
        /\ \A r \in 1..n+1 : Append(before, call.rec)[r] = IF r = n + 1 THEN call.rec ELSE before[r]
    BY <1>2, <2>1
  <2>4. \A r \in 1..n+1 : Stored[r] = IF r = n + 1 THEN call.rec ELSE before[r]
    BY <1>2, <1>4, <2>1
  <2>5. QED
    BY <1>3, <2>1, <2>2, <2>3, <2>4, SeqEqual
<1>6. CASE call.name = "update"
  <2>1. n_recs = n /\ call.recno \in 1..n /\ Done = {call.recno}
        /\ Final(call.recno) = call.rec /\ call.rec \in Record
    BY <1>1, <1>6, CallKinds DEF CallShape, Done, Target, Final, IInv
  <2>2. Abstract!Result(before, call) = [before EXCEPT ![call.recno] = call.rec]
    BY <1>6 DEF Abstract!Result, Abstract!ReplaceAt
  <2>3. \A r \in 1..n : Stored[r] = IF r = call.recno THEN call.rec ELSE before[r]
    BY <1>2, <1>4, <2>1
  <2>4. QED
    BY <1>2, <1>3, <2>1, <2>2, <2>3, ExceptSeq, SeqEqual
<1>7. CASE call.name = "delete"
  <2>1. n_recs = n - 1 /\ call.recno \in 1..n /\ Done = call.recno..n-1
        /\ \A r : Final(r) = before[r + 1]
    BY <1>1, <1>2, <1>7 DEF CallShape, Done, Target, Final
  <2>2. Abstract!Result(before, call) = RemoveAt(before, call.recno)
    BY <1>7 DEF Abstract!Result, Abstract!RemoveAt, RemoveAt
  <2>3. \A r \in 1..n-1 : Stored[r] = IF r < call.recno THEN before[r] ELSE before[r + 1]
    BY <1>2, <1>4, <2>1
  <2> DEFINE q == RemoveAt(before, call.recno)
  <2>4. /\ q \in Seq(Record) /\ Len(q) = n - 1
        /\ \A r \in 1..n-1 : q[r] = IF r < call.recno THEN before[r] ELSE before[r + 1]
    BY <1>2, <2>1, RemoveAtElements
  <2> HIDE DEF q
  <2>5. \A r \in 1..Len(Stored) : Stored[r] = q[r]
    BY <1>3, <2>1, <2>3, <2>4
  <2>6. Stored = q
    BY <1>3, <2>1, <2>4, <2>5, SeqEqual
  <2>7. QED
    BY <2>2, <2>6 DEF q
<1>8. CASE call.name = "insert"
  <2>1. n_recs = n + 1 /\ call.recno \in 1..n /\ Done = call.recno..n+1
        /\ call.rec \in Record /\ Final(call.recno) = call.rec
        /\ \A r : r # call.recno => Final(r) = before[r - 1]
    BY <1>1, <1>2, <1>8, CallKinds DEF CallShape, Done, Target, Final, IInv
  <2>2. Abstract!Result(before, call) = InsertAt(before, call.recno, call.rec)
    BY <1>8 DEF Abstract!Result, Abstract!InsertAt, InsertAt
  <2>3. \A r \in 1..n+1 : /\ r < call.recno => Stored[r] = before[r]
                          /\ r = call.recno => Stored[r] = call.rec
                          /\ r > call.recno => Stored[r] = before[r - 1]
    BY <1>2, <1>4, <2>1
  <2> DEFINE k == call.recno
             e == call.rec
             q == InsertAt(before, k, e)
  <2>4. k \in 1..n /\ e \in Record
    BY <2>1
  <2>5. \A r \in 1..n+1 : /\ r < k => Stored[r] = before[r]
                          /\ r = k => Stored[r] = e
                          /\ r > k => Stored[r] = before[r - 1]
    BY <2>3
  <2> HIDE DEF k, e
  <2>6. q \in Seq(Record) /\ Len(q) = n + 1
    BY <1>2, <2>4, InsertAtElements
  <2>7. q = [r \in 1..n+1 |-> IF r < k THEN before[r] ELSE IF r = k THEN e ELSE before[r - 1]]
    BY <1>2, <2>4, InsertAtElements
  <2> HIDE DEF q
  <2>8. \A r \in 1..Len(Stored) : Stored[r] = q[r]
    <3> SUFFICES ASSUME NEW r \in 1..n+1
                 PROVE  Stored[r] = q[r]
      BY <1>3, <2>1
    <3>1. r < k \/ r = k \/ r > k
      BY <1>2, <2>4
    <3>2. q[r] = IF r < k THEN before[r] ELSE IF r = k THEN e ELSE before[r - 1]
      BY <2>7
    <3>3. QED
      BY <1>2, <2>4, <2>5, <3>1, <3>2
  <2>9. Stored = q
    BY <1>3, <2>1, <2>6, <2>8, SeqEqual
  <2>10. QED
    BY <2>2, <2>9 DEF q, k, e
<1>9. CASE call.name = "create"
  <2>1. n_recs = 0 /\ Abstract!Result(before, call) = <<>>
    BY <1>1, <1>9 DEF CallShape, Abstract!Result
  <2>2. QED
    BY <1>3, <2>1
<1>10. QED
  BY <1>5, <1>6, <1>7, <1>8, <1>9, CallKinds DEF IInv


\* A call cut off by a power failure leaves a table that RecordTable!Salvaged
\* allows: the one it found, the one it makes, or one with a single torn record.
LEMMA CallCutOff ==
  ASSUME IInv, Progress, Busy, ~Torn
  PROVE  Abstract!Salvaged(before, Stored, call)
<1> DEFINE n == Len(before)
<1>1. CallShape /\ Copied /\ Pending
  BY DEF Progress
<1>2. before \in Seq(Record) /\ n \in Nat /\ n <= Limit /\ Limit \in Nat
  BY <1>1, LimitType DEF Copied
<1>3. /\ Stored \in Seq(Record) /\ Len(Stored) = StoredCount
      /\ \A r \in 1..Len(Stored) : Stored[r] = readRec(r) /\ r \in 1..Limit
  BY StoredSeq
<1>4. CASE StoredCount = n_recs /\ stage = "header"
  BY <1>4, CallDone DEF Abstract!Salvaged
<1>5. CASE StoredCount = n
  <2>1. Len(Stored) = n
    BY <1>3, <1>5
  <2>2. \A r \in 1..n : r \notin Done => Stored[r] = before[r]
    <3> SUFFICES ASSUME NEW r \in 1..n, r \notin Done
                 PROVE  Stored[r] = before[r]
      OBVIOUS
    <3>1. r \in 1..Limit /\ Stored[r] = readRec(r)
      BY <1>3, <2>1
    <3>2. r # Target \/ stage = "header" \/ buf = <<>>
      BY <1>1 DEF Pending
    <3>3. QED
      BY <1>1, <3>1, <3>2, Settled
  <2>3. \A r \in 1..n : r \in Done \ {Target} => Stored[r] = Final(r)
    BY <1>1, <1>3, <2>1, Settled
  <2>4. CASE call.name \in {"append", "create"}
    <3>1. \A r \in 1..n : r \notin Done
      BY <1>2, <2>4 DEF Done, Target
    <3>2. Stored = before
      BY <1>2, <1>3, <2>1, <2>2, <3>1, SeqEqual
    <3>3. QED
      BY <3>2 DEF Abstract!Salvaged
  <2>5. CASE call.name = "update"
    <3>1. Done = {call.recno}
      BY <2>5 DEF Done, Target
    <3>2. \A r \in 1..n \ {call.recno} : Stored[r] = before[r]
      BY <2>2, <3>1
    <3>3. QED
      BY <2>1, <2>5, <3>2 DEF Abstract!Salvaged
  <2>6. CASE call.name = "delete"
    <3> DEFINE k == call.recno
               s == IF i - 2 >= k THEN i - 2 ELSE k
    <3>1. k \in 1..n /\ Target = i - 2 /\ Done = k..i-2 /\ i \in k+1..n+1
          /\ \A r : Final(r) = before[r + 1]
      BY <1>1, <1>2, <2>6 DEF CallShape, Done, Target, Final, IInv, CallSound
    <3>2. s \in k..n
      BY <1>2, <3>1
    <3>3. ASSUME NEW r \in 1..n
          PROVE  /\ r < k \/ r > s => Stored[r] = before[r]
                 /\ r \in k..s-1 => Stored[r] = before[r + 1]
      <4>1. r < k \/ r > s => r \notin Done
        BY <1>2, <3>1
      <4>2. r \in k..s-1 => r \in Done \ {Target}
        BY <1>2, <3>1
      <4>3. QED
        BY <2>2, <2>3, <3>1, <4>1, <4>2
    <3> HIDE DEF s
    <3>4. \E x \in k..n : \A r \in 1..n :
            /\ r < k \/ r > x => Stored[r] = before[r]
            /\ r \in k..x-1 => Stored[r] = before[r + 1]
      BY <3>2, <3>3
    <3>5. QED
      BY <2>1, <2>6, <3>4 DEF Abstract!Salvaged
  <2>7. CASE call.name = "insert"
    <3> DEFINE k == call.recno
               s == IF Target <= n THEN Target ELSE n
    <3>1. k \in 1..n /\ Done = Target..n+1 /\ Target \in Nat /\ Target >= k
          /\ \A r : r # k => Final(r) = before[r - 1]
      BY <1>1, <1>2, <2>7, CallKinds
      DEF CallShape, Done, Target, Final, IInv, CallSound, TypeOK
    <3>2. s \in k..n
      BY <1>2, <3>1
    <3>3. ASSUME NEW r \in 1..n
          PROVE  /\ r < s => Stored[r] = before[r]
                 /\ r > s => Stored[r] = before[r - 1]
      <4>1. r < s => r \notin Done
        BY <1>2, <3>1
      <4>2. r > s => r \in Done \ {Target} /\ r # k
        BY <1>2, <3>1
      <4>3. QED
        BY <2>2, <2>3, <3>1, <4>1, <4>2
    <3> HIDE DEF s
    <3>4. \E x \in k..n : \A r \in 1..n :
            /\ r < x => Stored[r] = before[r]
            /\ r > x => Stored[r] = before[r - 1]
      BY <3>2, <3>3
    <3>5. QED
      BY <2>1, <2>7, <3>4 DEF Abstract!Salvaged
  <2>8. QED
    BY <2>4, <2>5, <2>6, <2>7, CallKinds DEF IInv
<1>6. StoredCount = n_recs => stage = "header" \/ StoredCount = n
  BY <1>1 DEF Copied
<1>7. QED
  BY <1>1, <1>4, <1>5, <1>6 DEF Copied

-----------------------------------------------------------------------------

\* A refused call leaves the table, and says TABLE_FULL only of a full one.
LEMMA RefusedStep ==
  ASSUME IInv, NEW why \in {"OUT_OF_RANGE", "TABLE_FULL"}, Refused(why),
         why = "TABLE_FULL" => n_recs = Limit
  PROVE  Abstract!Refuse
<1>1. call = Idle /\ call' = Idle /\ ~Busy /\ ~Busy'
  BY DEF Refused, Ready, Busy
<1>2. Stored' = Stored
  BY DEF Refused, Stored, StoredCount, readRec
<1>3. Len(Stored) = n_recs
  BY <1>1, StoredSeq DEF Torn, IInv, WriteSound, Ready, Busy
<1>4. QED
  BY <1>1, <1>2, <1>3 DEF Refused, Abstract!Refuse, Abstract!Idle, Idle

\* An accepted call starts from the stored table.
LEMMA BeginStep ==
  ASSUME IInv, NEW c, Begin(c), eeprom' = eeprom,
         c \in Abstract!Calls, Abstract!Valid(Stored, c)
  PROVE  Abstract!Start
<1>1. call = Idle /\ call' = c /\ ~Busy /\ before' = Stored /\ status' = "OK"
  BY DEF Begin, Ready, Busy
<1>2. c # Idle /\ c # Off
  BY DEF Abstract!Calls, Idle, Off
<1>3. Busy'
  BY <1>1, <1>2 DEF Busy, Idle, Off
<1>4. QED
  BY <1>1, <1>3 DEF Abstract!Start, Abstract!Idle, Idle

\* Every call of a sketch is refused or begins as the abstract table allows.
LEMMA CallerStep ==
  ASSUME IInv, Caller
  PROVE  Abstract!Next
<1>1. n_recs \in 0..Limit /\ Limit \in Nat
  BY Ranges DEF IInv, TypeOK, WriteSound
<1>2. Ready => Stored \in Seq(Record) /\ Len(Stored) = n_recs
  BY StoredSeq DEF Torn, IInv, WriteSound, Ready, Busy
<1>3. ASSUME NEW rec \in Records, appendRec(rec)
      PROVE  Abstract!Next
  <2> DEFINE c == [name |-> "append", rec |-> rec]
  <2>1. CASE NoRoom
    BY <1>1, <1>3, <2>1, RefusedStep DEF appendRec, NoRoom, Abstract!Next
  <2>2. CASE ~NoRoom
    <3>1. Begin(c) /\ eeprom' = eeprom /\ Ready
      BY <1>3, <2>2 DEF appendRec, Begin
    <3>2. c \in Abstract!Calls /\ Abstract!Valid(Stored, c)
      BY <1>1, <1>2, <2>2, <3>1 DEF NoRoom, Abstract!Calls, Abstract!Valid
    <3>3. QED
      BY <3>1, <3>2, BeginStep DEF Abstract!Next
  <2>3. QED
    BY <2>1, <2>2
<1>4. ASSUME NEW recno \in 1..n_recs+1, deleteRec(recno)
      PROVE  Abstract!Next
  <2> DEFINE c == [name |-> "delete", recno |-> recno]
  <2>1. CASE OutOfRange(recno)
    BY <1>4, <2>1, RefusedStep DEF deleteRec, Abstract!Next
  <2>2. CASE ~OutOfRange(recno)
    <3>1. Begin(c) /\ eeprom' = eeprom /\ Ready
      BY <1>4, <2>2 DEF deleteRec, Begin
    <3>2. c \in Abstract!Calls /\ Abstract!Valid(Stored, c)
      BY <1>1, <1>2, <2>2, <3>1 DEF OutOfRange, Abstract!Calls, Abstract!Valid
    <3>3. QED
      BY <3>1, <3>2, BeginStep DEF Abstract!Next
  <2>3. QED
    BY <2>1, <2>2
<1>5. ASSUME NEW recno \in 1..n_recs+1, NEW rec \in Records, updateRec(recno, rec)
      PROVE  Abstract!Next
  <2> DEFINE c == [name |-> "update", recno |-> recno, rec |-> rec]
  <2>1. CASE OutOfRange(recno)
    BY <1>5, <2>1, RefusedStep DEF updateRec, Abstract!Next
  <2>2. CASE ~OutOfRange(recno)
    <3>1. Begin(c) /\ eeprom' = eeprom /\ Ready
      BY <1>5, <2>2 DEF updateRec, Begin
    <3>2. c \in Abstract!Calls /\ Abstract!Valid(Stored, c)
      BY <1>1, <1>2, <2>2, <3>1 DEF OutOfRange, Abstract!Calls, Abstract!Valid
    <3>3. QED
      BY <3>1, <3>2, BeginStep DEF Abstract!Next
  <2>3. QED
    BY <2>1, <2>2
<1>6. ASSUME NEW recno \in 1..n_recs+1, NEW rec \in Records, insertRec(recno, rec)
      PROVE  Abstract!Next
  <2> DEFINE c == [name |-> "insert", recno |-> recno, rec |-> rec]
  <2>1. CASE n_recs = Limit
    BY <1>6, <2>1, RefusedStep DEF insertRec, Abstract!Next
  <2>2. CASE n_recs # Limit /\ n_recs > 0 /\ OutOfRange(recno)
    BY <1>6, <2>2, RefusedStep DEF insertRec, Abstract!Next
  <2>3. CASE n_recs # Limit /\ n_recs = 0
    <3>1. recno = 1
      BY <1>1, <2>3
    <3>2. QED
      BY <1>3, <1>6, <2>3, <3>1 DEF insertRec
  <2>4. CASE n_recs # Limit /\ n_recs > 0 /\ ~OutOfRange(recno)
    <3>1. Begin(c) /\ eeprom' = eeprom /\ Ready
      BY <1>1, <1>6, <2>4 DEF insertRec, Begin
    <3>2. recno \in 1..n_recs /\ n_recs < Limit
      BY <1>1, <2>4 DEF OutOfRange
    <3>3. c \in Abstract!Calls
      BY <1>1, <3>2 DEF Abstract!Calls
    <3>4. Abstract!Valid(Stored, c)
      <4>1. Len(Stored) = n_recs /\ Stored # <<>>
        BY <1>1, <1>2, <2>4, <3>1
      <4>2. QED
        BY <3>2, <4>1 DEF Abstract!Valid
    <3>5. QED
      BY <3>1, <3>3, <3>4, BeginStep DEF Abstract!Next
  <2>5. QED
    BY <1>1, <2>1, <2>2, <2>3, <2>4
<1>7. CASE create
  <2> DEFINE c == [name |-> "create"]
  <2>1. Begin(c) /\ eeprom' = eeprom
    BY <1>7 DEF create
  <2>2. c \in Abstract!Calls /\ Abstract!Valid(Stored, c)
    BY DEF Abstract!Calls, Abstract!Valid
  <2>3. QED
    BY <2>1, <2>2, BeginStep DEF Abstract!Next
<1>8. QED
  BY <1>3, <1>4, <1>5, <1>6, <1>7 DEF Caller

\* Inside a call nothing shows of it; when it returns, its result does.
LEMMA DeviceStep ==
  ASSUME IInv, Progress, Device
  PROVE  Abstract!Return \/ UNCHANGED Abstract!vars
<1>1. CASE Return
  <2>1. Busy /\ call' = Idle /\ ~Busy' /\ call \notin {Idle, Off}
    BY <1>1 DEF Return, Busy
  <2>2. Stored' = Stored
    BY <1>1 DEF Return, Stored, StoredCount, readRec
  <2>3. StoredCount = n_recs
    BY <1>1 DEF Return, IInv, WriteSound, CallSound
  <2>4. Stored = Abstract!Result(before, call)
    BY <1>1, <2>1, <2>3, CallDone DEF Return
  <2>5. QED
    BY <1>1, <2>1, <2>2, <2>4
    DEF Return, Abstract!Return, Abstract!Idle, Abstract!Off, Idle, Off
<1>2. CASE ~Return
  <2>1. Busy /\ UNCHANGED <<call, status, before>>
    BY <1>2 DEF Device, WriteByte, AppendHeader, DeleteShift, DeleteHeader, InsertShift,
       InsertRecord, InsertHeader, CommitCount, Busy, Idle, Off, IInv, WriteSound
  <2>2. Busy'
    BY <2>1 DEF Busy
  <2>3. QED
    BY <2>1, <2>2 DEF Abstract!vars
<1>3. QED
  BY <1>1, <1>2

LEMMA PowerFailsStep ==
  ASSUME IInv, Progress, PowerFails, ~Torn
  PROVE  Abstract!PowerFails
<1>1. call # Off /\ call' = Off /\ ~Busy' /\ UNCHANGED status
  BY DEF PowerFails, Busy
<1>2. Stored' = Stored
  BY DEF PowerFails, Stored, StoredCount, readRec
<1>3. CASE call = Idle
  BY <1>1, <1>2, <1>3
  DEF Abstract!PowerFails, Abstract!Idle, Abstract!Off, Idle, Off, Busy
<1>4. CASE call # Idle
  <2>1. Busy
    BY <1>1, <1>4 DEF Busy
  <2>2. Abstract!Salvaged(before, Stored, call)
    BY <2>1, CallCutOff
  <2>3. QED
    BY <1>1, <1>2, <1>4, <2>1, <2>2
    DEF Abstract!PowerFails, Abstract!Idle, Abstract!Off, Idle, Off
<1>5. QED
  BY <1>3, <1>4

LEMMA OpenStep ==
  ASSUME open
  PROVE  Abstract!Boot
<1>1. call = Off /\ call' = Idle /\ status' = "OK" /\ ~Busy /\ ~Busy'
  BY DEF open, Busy
<1>2. Stored' = Stored
  BY DEF open, Stored, StoredCount, readRec
<1>3. QED
  BY <1>1, <1>2 DEF Abstract!Boot, Abstract!Idle, Abstract!Off, Idle, Off

\* The byte-level table implements the abstract one (EDB.cpp 48-187): a call that
\* returns has done what it promises, and one cut off by a power failure between
\* any two bytes, but those of a count whose high one changes, has left one of the
\* tables the abstract one allows.
THEOREM ImplementsRecordTableTheorem == Spec /\ WholeCounts => ImplementsRecordTable
<1>1. Init => Abstract!Init
  <2> SUFFICES ASSUME Init PROVE Abstract!Init
    OBVIOUS
  <2>1. IInv
    BY InitInv
  <2>2. Stored = <<>>
    <3>1. StoredCount = 0 /\ ~Torn
      BY <2>1 DEF Init, IInv, WriteSound, Torn, Ready
    <3>2. QED
      BY <2>1, <3>1, StoredSeq
  <2>3. ~Busy
    BY DEF Init, Busy
  <2>4. QED
    BY <2>2, <2>3 DEF Init, Abstract!Init, Abstract!Idle, Idle
<1>2. IInv /\ Progress /\ [Next]_vars /\ [~(PowerFails /\ Torn)]_vars
         => [Abstract!Next]_(Abstract!vars)
  <2> SUFFICES ASSUME IInv, Progress, [Next]_vars, [~(PowerFails /\ Torn)]_vars
               PROVE  Abstract!Next \/ UNCHANGED Abstract!vars
    OBVIOUS
  <2>1. CASE UNCHANGED vars
    BY <2>1 DEF vars, ram, Abstract!vars, Busy, Stored, StoredCount, readRec
  <2>2. CASE PowerFails
    <3>1. vars' # vars
      BY <2>2 DEF PowerFails, vars, ram
    <3>2. QED
      BY <2>2, <3>1, PowerFailsStep DEF Abstract!Next
  <2>3. QED
    BY <2>1, <2>2, CallerStep, DeviceStep, OpenStep DEF Next, Abstract!Next
<1>3. Spec /\ WholeCounts => []Progress
  <2>1. IInv /\ Progress /\ [Next]_vars => Progress'
    BY StepProgress
  <2>2. QED
    BY <2>1, InitProgress, Invariant, PTL DEF Spec
<1>4. QED
  BY <1>1, <1>2, <1>3, Invariant, PTL
  DEF Spec, WholeCounts, ImplementsRecordTable, Abstract!Spec
=============================================================================
