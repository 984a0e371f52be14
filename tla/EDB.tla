--------------------------------- MODULE EDB ---------------------------------
(***************************************************************************)
(* The record table of libraries/EDB on the external EEPROM: a header that *)
(* holds the record count, then fixed-size records.  Every call rewrites   *)
(* the EEPROM one byte at a time (5 ms each in writeEEPROM), so the power  *)
(* may fail between any two bytes; the next boot sees what was written.    *)
(*                                                                         *)
(* A byte has Base values (256 in the program).  The count n_recs is       *)
(* stored low byte first; of its bytes the model keeps two, the others     *)
(* stay 0 as long as Limit < Base^2.  rec_size and table_size never change *)
(* after create: they are the constants RecSize and EndPtr, and the header *)
(* bytes that repeat them are left out.  EndPtr is what the sketches pass  *)
(* as tablesize; limit() uses it as the address after the table.           *)
(***************************************************************************)
EXTENDS Integers, SequencesExt

CONSTANTS Base, HeadPtr, EndPtr, RecSize, MemSize,
          Chip,             \* the bytes of the chip when the table is created
          Records,          \* the records the callers store
          CallsMade,        \* the calls the callers use
          MaxPowerLosses    \* bound on the power failures of a behaviour

HeaderSize == 2
TablePtr == HeadPtr + HeaderSize
Limit_EndAsSize == EndPtr \div RecSize
Limit == (EndPtr - TablePtr) \div RecSize
Byte == 0..Base-1
Address == 0..MemSize-1
Record == [1..RecSize -> Byte]

ASSUME LayoutAssumption ==
  /\ Base \in Nat /\ Base >= 2
  /\ RecSize \in Nat \ {0}
  /\ HeadPtr \in Nat /\ EndPtr \in Nat /\ MemSize \in Nat
  /\ TablePtr <= EndPtr /\ EndPtr <= MemSize
  /\ Limit < Base * Base
  /\ Chip \in [Address -> Byte]
  /\ Records \subseteq Record
  /\ CallsMade \subseteq {"append", "delete", "insert", "update", "create"}
  /\ MaxPowerLosses \in Nat

VARIABLES
  eeprom,       \* the chip, a byte per address
  n_recs,       \* EDB_head.n_recs, in RAM
  call,         \* the call in progress, with its arguments
  stage,        \* which part of the call runs: "shift", "record", "header"
  i,            \* the loop variable of deleteRec and insertRec
  dst, buf,     \* edbWrite: the next address, the bytes still to write
  status,       \* what the last call returned
  losses,       \* power failures so far
  before        \* history: the table when the call started

ram == <<n_recs, call, stage, i, dst, buf, status>>
vars == <<eeprom, ram, losses, before>>

Idle == [name |-> "idle"]
Off  == [name |-> "off"]
Ready == call = Idle
Busy  == call \notin {Idle, Off}

RecAddr(recno) == TablePtr + (recno - 1) * RecSize

\* The chip decodes an address modulo its size.
readRec(recno) ==
  [j \in 1..RecSize |-> eeprom[(RecAddr(recno) + j - 1) % MemSize]]

HeaderBytes(n) == <<n % Base, n \div Base>>

StoredCount == eeprom[HeadPtr] + Base * eeprom[HeadPtr + 1]

\* The table as the next reader of the chip finds it.
Stored == [r \in 1..StoredCount |-> readRec(r)]

-----------------------------------------------------------------------------

Init == /\ eeprom = [Chip EXCEPT ![HeadPtr] = 0, ![HeadPtr + 1] = 0]
        /\ n_recs = 0
        /\ call = Idle
        /\ stage = "header"
        /\ i = 0
        /\ dst = HeadPtr
        /\ buf = <<>>
        /\ status = "OK"
        /\ losses = 0
        /\ before = <<>>

\* edbWrite(ee, p, recsize) begins; WriteByte does the rest.
edbWrite(ee, p) == dst' = ee /\ buf' = p

writeRec(recno, rec) == edbWrite(RecAddr(recno), rec)
writeHead(n) == edbWrite(HeadPtr, HeaderBytes(n))

WriteByte == /\ buf # <<>>
             /\ eeprom' = [eeprom EXCEPT ![dst % MemSize] = Head(buf)]
             /\ dst' = dst + 1
             /\ buf' = Tail(buf)
             /\ UNCHANGED <<n_recs, call, stage, i, status, losses, before>>

Begin(c) == /\ Ready
            /\ call' = c
            /\ status' = "OK"
            /\ before' = Stored

Refused(why) == /\ Ready
                /\ status' = why
                /\ UNCHANGED <<eeprom, n_recs, call, stage, i, dst, buf, losses, before>>

\* The last record or header write of a call is done.
Return == /\ Busy
          /\ buf = <<>>
          /\ \/ stage = "header"
             \/ stage = "record" /\ call.name = "update"
          /\ call' = Idle
          /\ UNCHANGED <<eeprom, n_recs, stage, i, dst, buf, status, losses, before>>

\* n_recs has its new value: the header is written.
CommitCount(n) == /\ n_recs' = n
                  /\ stage' = "header"
                  /\ writeHead(n)
                  /\ UNCHANGED <<eeprom, call, i, status, losses, before>>

-----------------------------------------------------------------------------

NoRoom_OffByOne == n_recs > Limit
NoRoom == n_recs + 1 > Limit

appendRec(rec) ==
  IF NoRoom
  THEN Refused("TABLE_FULL")
  ELSE /\ Begin([name |-> "append", rec |-> rec])
       /\ n_recs' = n_recs + 1
       /\ stage' = "record"
       /\ writeRec(n_recs + 1, rec)
       /\ UNCHANGED <<eeprom, i, losses>>

AppendHeader == /\ call.name = "append"
                /\ stage = "record"
                /\ buf = <<>>
                /\ CommitCount(n_recs)

\* Callers count records from 1; recno 0 would pass the guard of the code.
OutOfRange(recno) == recno > n_recs

deleteRec(recno) ==
  IF OutOfRange(recno)
  THEN Refused("OUT_OF_RANGE")
  ELSE /\ Begin([name |-> "delete", recno |-> recno])
       /\ stage' = "shift"
       /\ i' = recno + 1
       /\ UNCHANGED <<eeprom, n_recs, dst, buf, losses>>

DeleteShift == /\ call.name = "delete"
               /\ stage = "shift"
               /\ buf = <<>>
               /\ i <= n_recs
               /\ writeRec(i - 1, readRec(i))
               /\ i' = i + 1
               /\ UNCHANGED <<eeprom, n_recs, call, stage, status, losses, before>>

DeleteHeader_BeforeShift == /\ call.name = "delete"
                            /\ stage = "shift"
                            /\ buf = <<>>
                            /\ CommitCount(n_recs - 1)

DeleteHeader == /\ call.name = "delete"
                /\ stage = "shift"
                /\ buf = <<>>
                /\ i > n_recs
                /\ CommitCount(n_recs - 1)

insertRec(recno, rec) ==
  IF n_recs = Limit THEN Refused("TABLE_FULL")
  ELSE IF n_recs > 0 /\ OutOfRange(recno) THEN Refused("OUT_OF_RANGE")
  ELSE IF n_recs = 0 /\ recno = 1 THEN appendRec(rec)
  ELSE /\ Begin([name |-> "insert", recno |-> recno, rec |-> rec])
       /\ stage' = "shift"
       /\ i' = n_recs
       /\ UNCHANGED <<eeprom, n_recs, dst, buf, losses>>

InsertShift == /\ call.name = "insert"
               /\ stage = "shift"
               /\ buf = <<>>
               /\ i >= call.recno
               /\ writeRec(i + 1, readRec(i))
               /\ i' = i - 1
               /\ UNCHANGED <<eeprom, n_recs, call, stage, status, losses, before>>

InsertRecord == /\ call.name = "insert"
                /\ stage = "shift"
                /\ buf = <<>>
                /\ i < call.recno
                /\ stage' = "record"
                /\ writeRec(call.recno, call.rec)
                /\ UNCHANGED <<eeprom, n_recs, call, i, status, losses, before>>

InsertHeader == /\ call.name = "insert"
                /\ stage = "record"
                /\ buf = <<>>
                /\ CommitCount(n_recs + 1)

updateRec(recno, rec) ==
  IF OutOfRange(recno)
  THEN Refused("OUT_OF_RANGE")
  ELSE /\ Begin([name |-> "update", recno |-> recno, rec |-> rec])
       /\ stage' = "record"
       /\ writeRec(recno, rec)
       /\ UNCHANGED <<eeprom, n_recs, i, losses>>

\* create with the geometry the table already has; clear() ends in the same call.
create == /\ Begin([name |-> "create"])
          /\ n_recs' = 0
          /\ stage' = "header"
          /\ writeHead(0)
          /\ UNCHANGED <<eeprom, i, losses>>

-----------------------------------------------------------------------------

\* The supply fails: RAM is lost, the chip keeps every byte already written.
PowerFails == /\ call # Off
              /\ losses < MaxPowerLosses
              /\ losses' = losses + 1
              /\ call' = Off
              /\ n_recs' = 0
              /\ buf' = <<>>
              /\ UNCHANGED <<eeprom, stage, i, dst, status, before>>

open == /\ call = Off
        /\ call' = Idle
        /\ n_recs' = StoredCount
        /\ status' = "OK"
        /\ UNCHANGED <<eeprom, stage, i, dst, buf, losses, before>>

\* The calls a sketch makes when no call is in progress.
Caller == \/ /\ "append" \in CallsMade
             /\ \E rec \in Records : appendRec(rec)
          \/ /\ "delete" \in CallsMade
             /\ \E recno \in 1..n_recs+1 : deleteRec(recno)
          \/ /\ "insert" \in CallsMade
             /\ \E recno \in 1..n_recs+1, rec \in Records : insertRec(recno, rec)
          \/ /\ "update" \in CallsMade
             /\ \E recno \in 1..n_recs+1, rec \in Records : updateRec(recno, rec)
          \/ /\ "create" \in CallsMade
             /\ create

\* The code inside a call.
Device == \/ WriteByte
          \/ AppendHeader
          \/ DeleteShift \/ DeleteHeader
          \/ InsertShift \/ InsertRecord \/ InsertHeader
          \/ Return

Next == Caller \/ Device \/ PowerFails \/ open

Spec == Init /\ [][Next]_vars

-----------------------------------------------------------------------------

TypeOK == /\ eeprom \in [Address -> Byte]
          /\ n_recs \in 0..Base*Base-1
          /\ call \in {Idle, Off}
               \cup [name : {"append"}, rec : Records]
               \cup [name : {"delete"}, recno : Nat \ {0}]
               \cup [name : {"insert", "update"}, recno : Nat \ {0}, rec : Records]
               \cup [name : {"create"}]
          /\ stage \in {"shift", "record", "header"}
          /\ i \in Nat
          /\ dst \in Nat
          /\ buf \in Seq(Byte)
          /\ status \in {"OK", "OUT_OF_RANGE", "TABLE_FULL"}
          /\ losses \in 0..MaxPowerLosses

\* Every count that fits the table fits the low byte of the header, so that one
\* byte write commits it.
CountInOneByte == Limit < Base

\* No call, finished or cut off by a power failure, makes the next boot see a
\* count the table cannot hold, and between calls the count in RAM is the count
\* on the chip (EDB.cpp 48-57, 107-161): a header written in two steps, or a RAM
\* count moved without writeHead, would break it.
CountSound == /\ StoredCount <= Limit
              /\ Ready => n_recs = StoredCount

\* Door_Control.ino 191-192 puts two tables on one chip and says that they should
\* not interfere: no call changes a byte outside its own table's region, however
\* the calls and the power failures interleave.
LeavesNeighbourAlone ==
  [][\A a \in Address \ (HeadPtr..EndPtr-1) : eeprom'[a] = eeprom[a]]_vars

\* The byte-level table implements the abstract one: a finished call did what it
\* promises, and a call cut off by a power failure left one of the tables
\* RecordTable!Salvaged allows, so a deletion never loses a surviving record.
Abstract == INSTANCE RecordTable WITH
              table <- IF Busy THEN before ELSE Stored,
              Capacity <- Limit

ImplementsRecordTable == Abstract!Spec
=============================================================================
