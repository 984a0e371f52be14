------------------------------- MODULE MCMillis -------------------------------
(* Values for TLC: the times at which the clocks are looked at.             *)
EXTENDS Millis

Date == INSTANCE Calendar

(* A few seconds before midnight of every day of the years in which the     *)
(* calendar's rules differ, with two steps each; and a few steps from the   *)
(* changes of summer time, a leap day and a new year.                       *)
Days == UNION {(Date!DaysBefore[y])..(Date!DaysBefore[y + 1] - 1) :
                  y \in {2, 30, 46, 66}}

MCStart ==
    {[at |-> d * Date!SECS_PER_DAY + s, steps |-> 2] : d \in Days, s \in {3598, 86398}}
    \cup {[at |-> t, steps |-> 7] :
            t \in {1396141198, 1414285197, 1456703998, 1420070397}}

MCServerError == {-2, 3}

(* Every day about the first and the last of the count, the turn of the     *)
(* century, and the last February that is right.                            *)
MCDates ==
    {d \in ((24855..25300) \cup (36400..36950) \cup (49600..49710) \cup (0..450)
            \cup (23000..23396)) \X {0, 11648, 63104, 86399} :
        d # <<24855, 0>> /\ (d[1] = 49710 => d[2] < 23296)}
===============================================================================
