------------------------------ MODULE Calendar ------------------------------
(***************************************************************************)
(* The calendar of Time.cpp (breakTime and makeTime) and the daylight       *)
(* saving rules of Timezone.cpp.  Times are seconds since 1970 in the years *)
(* that an unsigned word of 32 bits holds to their end; TLC's integers end  *)
(* in 2038.                                                                 *)
(***************************************************************************)
EXTENDS Integers

SECS_PER_MIN  == 60
SECS_PER_HOUR == 3600
SECS_PER_DAY  == 86400

\* Years count from 1970, months and days from 1.
LEAP_YEAR_From1970(y) == y % 4 = 0 /\ (y % 100 # 0 \/ y % 400 = 0)

LEAP_YEAR(y) ==
    (1970 + y) % 4 = 0 /\ ((1970 + y) % 100 # 0 \/ (1970 + y) % 400 = 0)

monthDays == <<31, 28, 31, 30, 31, 30, 31, 31, 30, 31, 30, 31>>

MonthLength(y, m) == IF m = 2 /\ LEAP_YEAR(y) THEN 29 ELSE monthDays[m]

\* The last year but one in which a time fits its word.
LastYear == 135

\* The days before a year, and before a month of one that is no leap year, as
\* tables of their sums.
DaysBefore ==
    LET f[y \in 0..(LastYear + 1)] ==
          IF y = 0 THEN 0 ELSE f[y - 1] + IF LEAP_YEAR(y - 1) THEN 366 ELSE 365
    IN [y \in 0..(LastYear + 1) |-> f[y]]

DaysBeforeMonth ==
    LET f[m \in 1..13] == IF m = 1 THEN 0 ELSE f[m - 1] + monthDays[m - 1]
    IN [m \in 1..13 |-> f[m]]

DaysTo(m, leap) == DaysBeforeMonth[m] + IF m > 2 /\ leap THEN 1 ELSE 0

DaysToMonth(y, m) == DaysTo(m, LEAP_YEAR(y))

(* A time as its elements: the last year that has begun, and the last month *)
(* of it.                                                                   *)
breakTime(t) ==
    LET days == t \div SECS_PER_DAY
        year == CHOOSE y \in 0..LastYear : DaysBefore[y] <= days /\ days < DaysBefore[y + 1]
        left == days - DaysBefore[year]
        month == CHOOSE m \in 1..12 :
                     /\ DaysToMonth(year, m) <= left
                     /\ left < DaysToMonth(year, m) + MonthLength(year, m)
    IN [Second |-> t % 60, Minute |-> (t \div 60) % 60, Hour |-> (t \div 3600) % 24,
        Wday |-> ((days + 4) % 7) + 1,
        Day |-> left - DaysToMonth(year, month) + 1, Month |-> month, Year |-> year]

makeTime(tm) ==
    (DaysBefore[tm.Year] + DaysToMonth(tm.Year, tm.Month) + tm.Day - 1) * SECS_PER_DAY
    + tm.Hour * SECS_PER_HOUR + tm.Minute * SECS_PER_MIN + tm.Second

---------------------------------------------------------------------------
(* A rule: the week (0 for the last) and day of the week of a month, the    *)
(* hour, and the minutes to add from then on.                               *)
BST == [week |-> 0, dow |-> 1, month |-> 3, hour |-> 1, offset |-> 60]
GMT == [week |-> 0, dow |-> 1, month |-> 10, hour |-> 2, offset |-> 0]

\* When a rule takes effect.  "Last" is the first of the next month, a week back.
toTime_t(r, year) ==
    LET next == r.week = 0
        m == IF next THEN (r.month % 12) + 1 ELSE r.month
        y == IF next /\ r.month = 12 THEN year + 1 ELSE year
        first == makeTime([Hour |-> r.hour, Minute |-> 0, Second |-> 0,
                           Day |-> 1, Month |-> m, Year |-> y])
        w == IF next THEN 1 ELSE r.week
        t == first + (7 * (w - 1) + ((r.dow - breakTime(first).Wday + 7) % 7)) * SECS_PER_DAY
    IN IF next THEN t - 7 * SECS_PER_DAY ELSE t

\* The changes of a year, in local time and in UTC.
calcTimeChanges(year) ==
    LET dst == toTime_t(BST, year)
        std == toTime_t(GMT, year)
    IN [dstLoc |-> dst, stdLoc |-> std,
        dstUTC |-> dst - GMT.offset * SECS_PER_MIN,
        stdUTC |-> std - BST.offset * SECS_PER_MIN]

\* North of the equator the summer is inside the year, south of it outside.
Between(t, dst, std) == IF std > dst THEN t >= dst /\ t < std ELSE ~(t >= std /\ t < dst)

\* The changes are worked out again when the year is another than theirs.
Recalculated_Never(z, t, cached) == z

Recalculated(z, t, cached) ==
    IF breakTime(t).Year # breakTime(cached).Year THEN calcTimeChanges(breakTime(t).Year) ELSE z

Offset(isDST) == (IF isDST THEN BST.offset ELSE GMT.offset) * SECS_PER_MIN

utcIsDST(z, utc) == Between(utc, z.dstUTC, z.stdUTC)
locIsDST(z, loc) == Between(loc, z.dstLoc, z.stdLoc)

toLocal(z, utc) == utc + Offset(utcIsDST(z, utc))
toUTC(z, loc) == loc - Offset(locIsDST(z, loc))
---------------------------------------------------------------------------
(* Days and dates by the rule of eras of 400 years that begin in March.     *)
DayNumber(y, m, d) ==
    LET year == IF m <= 2 THEN y - 1 ELSE y
        era == year \div 400
        yoe == year - era * 400
        doy == ((153 * (IF m > 2 THEN m - 3 ELSE m + 9) + 2) \div 5) + d - 1
        doe == yoe * 365 + (yoe \div 4) - (yoe \div 100) + doy
    IN era * 146097 + doe - 719468
=============================================================================
