---------------------------- MODULE RecordTable ----------------------------
(***************************************************************************)
(* What an EDB table promises its callers: a bounded sequence of records,  *)
(* numbered from 1, changed by one call at a time.  A call takes effect    *)
(* when it returns.  When the power fails inside a call, Salvaged says     *)
(* which tables the next boot may find; calls that move records in place   *)
(* promise less than calls that commit with one byte.                      *)
(***************************************************************************)
EXTENDS Integers, SequencesExt

CONSTANTS Records,    \* the records a caller may store
          Capacity    \* EDB::limit()

VARIABLES table,      \* the records, in order
          call,       \* the call in progress, Idle, or Off without power
          status      \* what the last finished call returned

vars == <<table, call, status>>

Idle == [name |-> "idle"]
Off  == [name |-> "off"]

Calls == [name : {"append"}, rec : Records]
         \cup [name : {"delete"}, recno : Nat \ {0}]
         \cup [name : {"insert", "update"}, recno : Nat \ {0}, rec : Records]
         \cup [name : {"create"}]

Valid(t, c) ==
  CASE c.name = "append" -> Len(t) < Capacity
    [] c.name = "insert" -> /\ Len(t) < Capacity
                            /\ c.recno \in 1..(IF t = <<>> THEN 1 ELSE Len(t))
    [] c.name \in {"delete", "update"} -> c.recno \in 1..Len(t)
    [] c.name = "create" -> TRUE

Result(t, c) ==
  CASE c.name = "append" -> Append(t, c.rec)
    [] c.name = "delete" -> RemoveAt(t, c.recno)
    [] c.name = "insert" -> InsertAt(t, c.recno, c.rec)
    [] c.name = "update" -> ReplaceAt(t, c.recno, c.rec)
    [] c.name = "create" -> <<>>

(***************************************************************************)
(* The tables u that a power failure inside call c may make of table t.    *)
(* append and create are all or nothing.  update may tear the one record   *)
(* it writes.  delete moves the records above recno down one by one, from  *)
(* the bottom: up to a position s they have moved, s itself may be torn,   *)
(* and every record but the deleted one still has an intact copy.  insert  *)
(* moves them up from the top and counts the new one last: the last record *)
(* may be pushed beyond the count and lost.                                *)
(***************************************************************************)
Salvaged(t, u, c) ==
  \/ u = t
  \/ u = Result(t, c)
  \/ /\ Len(u) = Len(t)
     /\ \/ /\ c.name = "update"
           /\ \A r \in 1..Len(t) \ {c.recno} : u[r] = t[r]
        \/ /\ c.name = "delete"
           /\ \E s \in c.recno..Len(t) : \A r \in 1..Len(t) :
                /\ r < c.recno \/ r > s => u[r] = t[r]
                /\ r \in c.recno..s-1 => u[r] = t[r+1]
        \/ /\ c.name = "insert"
           /\ \E s \in c.recno..Len(t) : \A r \in 1..Len(t) :
                /\ r < s => u[r] = t[r]
                /\ r > s => u[r] = t[r-1]

-----------------------------------------------------------------------------

Init == table = <<>> /\ call = Idle /\ status = "OK"

Start == /\ call = Idle
         /\ call' \in Calls
         /\ Valid(table, call')
         /\ status' = "OK"
         /\ UNCHANGED table

Refuse == /\ call = Idle
          /\ status' \in {"OUT_OF_RANGE", "TABLE_FULL"}
          /\ status' = "TABLE_FULL" => Len(table) = Capacity
          /\ UNCHANGED <<table, call>>

Return == /\ call \notin {Idle, Off}
          /\ table' = Result(table, call)
          /\ call' = Idle
          /\ UNCHANGED status

PowerFails == /\ call # Off
              /\ IF call = Idle THEN table' = table
                                ELSE Salvaged(table, table', call)
              /\ call' = Off
              /\ UNCHANGED status

Boot == /\ call = Off
        /\ call' = Idle
        /\ status' = "OK"
        /\ UNCHANGED table

Next == Start \/ Refuse \/ Return \/ PowerFails \/ Boot

Spec == Init /\ [][Next]_vars
=============================================================================
