-------------------------------- MODULE Sntp --------------------------------
(***************************************************************************)
(* The network clock of the Adafruit library, sntp.cpp, as ntpTest uses it: *)
(* a reference to which millis() is added, corrected by the stamps of one   *)
(* request to a server, and its calendar.  A timestamp has a word of        *)
(* seconds and one of fractions, as in SNTP_Timestamp_t; the second is      *)
(* signed.  When the request is made, and to whom, is in Sketches.          *)
(***************************************************************************)
EXTENDS Calendar

CONSTANTS
    SecondWord,                \* range of the seconds: 2^32
    FractionBits,              \* bits of the fraction: 32
    ClockBits,                 \* bits of the fraction that millis() fills: 10
    PerSecond,                 \* counts of millis() in a second: 1000
    Epochs,                    \* the server's time when the board starts, in counts
    West,                      \* seconds local time is behind UTC
    Dates,                     \* times that are broken down: day since 1900, second
    LastCount                  \* the last count of millis() (a bound for TLC)

VARIABLES
    millis,
    epoch,        \* the server's time less millis()
    reference,    \* m_NTPReferenceTime
    set,          \* m_timeIsSet
    stage,        \* of a request: "idle", "sent", "served", "answered", "shown"
    stamps,       \* its message
    trip,         \* when the request began and its answer came
    read,         \* the time read last: what it was, and what it should have been
    extracted     \* a date, broken down, and what it was broken down from

vars == <<millis, epoch, reference, set, stage, stamps, trip, read, extracted>>

Half == 2^(FractionBits - 1)
Whole == 2^FractionBits

\* The words of a timestamp.
InWord(n) == n % SecondWord
Signed(n) == ((n + Half) % Whole) - Half

Time(s, f) == [seconds |-> InWord(s), fraction |-> Signed(f)]

---------------------------------------------------------------------------
(* The arithmetic.  Shifts of the fraction keep its sign, so the carry is   *)
(* that of signed numbers.                                                  *)
NTPdiv2(t) ==
    LET shifted == t.fraction \div 2 IN
    [seconds |-> t.seconds \div 2,
     fraction |-> IF t.seconds % 2 = 1 /\ shifted >= 0 THEN shifted - Half ELSE shifted]

Negative(n) == IF n < 0 THEN 1 ELSE 0

AddNTPtime(t1, t2) ==
    LET carry == Negative((t2.fraction \div 2) + (t1.fraction \div 2)) IN
    Time(t2.seconds + carry + t1.seconds, t2.fraction + t1.fraction)

DiffNTPtime(t1, t2) ==
    LET borrow == Negative((t2.fraction \div 2) - (t1.fraction \div 2)) IN
    Time(t2.seconds - borrow - t1.seconds, t2.fraction - t1.fraction)

\* millis() is read twice, and may have gone on.
GetSystemClockAsNTPTime(first, second) ==
    LET s == first \div PerSecond
        left == ((second - s * PerSecond) * 2^ClockBits) \div PerSecond
    IN Time(s, left * 2^(FractionBits - ClockBits))

\* m_cur_UTC_offset.
UtcOffset == -West
LocalOffset == Time(UtcOffset, 0)

NTPGetTime(ref, system, local) ==
    LET utc == AddNTPtime(system, ref) IN
    IF local THEN AddNTPtime(LocalOffset, utc) ELSE utc

(* The correction: half of what the server's clock is ahead on the way out, *)
(* and half of it on the way back.                                          *)
Correction_Swapped(o, r, t, d) ==
    AddNTPtime(NTPdiv2(DiffNTPtime(o, r)), NTPdiv2(DiffNTPtime(t, d)))

Correction(o, r, t, d) ==
    AddNTPtime(NTPdiv2(DiffNTPtime(o, r)), NTPdiv2(DiffNTPtime(d, t)))

---------------------------------------------------------------------------
Clock(n) == Time(n \div PerSecond, ((n % PerSecond) * Whole) \div PerSecond)

NoStamp == Time(0, 0)
NoStamps == [originate |-> NoStamp, receive |-> NoStamp, transmit |-> NoStamp]

\* The constructor the sketch uses leaves the reference at zero.
Begun(e) ==
    /\ millis = 0 /\ epoch = e
    /\ reference = NoStamp /\ set = FALSE
    /\ stage = "idle"
    /\ stamps = NoStamps /\ trip = [from |-> 0, to |-> 0]
    /\ read = <<>> /\ extracted = <<>>

Init == \E e \in Epochs : Begun(e)

Tick ==
    /\ millis < LastCount /\ stage # "shown"
    /\ millis' = millis + 1
    /\ UNCHANGED <<epoch, reference, set, stage, stamps, trip, read, extracted>>

\* The two reads of millis().
System(system) ==
    /\ millis' \in millis..(millis + 1)
    /\ system = GetSystemClockAsNTPTime(millis, millis')

Systems == {GetSystemClockAsNTPTime(millis, m) : m \in millis..(millis + 1)}

\* SNTP_GetTime.
Request ==
    /\ stage = "idle" /\ ~set /\ millis < LastCount
    /\ \E system \in Systems :
          /\ System(system)
          /\ stamps' = [stamps EXCEPT !.originate = NTPGetTime(reference, system, FALSE)]
    /\ stage' = "sent" /\ trip' = [from |-> millis, to |-> millis]
    /\ UNCHANGED <<epoch, reference, set, read, extracted>>

ServerReceives ==
    /\ stage = "sent"
    /\ stage' = "served"
    /\ stamps' = [stamps EXCEPT !.receive = Clock(epoch + millis)]
    /\ UNCHANGED <<millis, epoch, reference, set, trip, read, extracted>>

ServerTransmits ==
    /\ stage = "served"
    /\ stage' = "answered"
    /\ stamps' = [stamps EXCEPT !.transmit = Clock(epoch + millis)]
    /\ UNCHANGED <<millis, epoch, reference, set, trip, read, extracted>>

\* The wait is over and there is no answer: the next request.
NoAnswer ==
    /\ stage \in {"sent", "served", "answered"}
    /\ stage' = "idle" /\ stamps' = NoStamps
    /\ UNCHANGED <<millis, epoch, reference, set, trip, read, extracted>>

Answer ==
    /\ stage = "answered" /\ millis < LastCount
    /\ \E system \in Systems :
          /\ System(system)
          /\ LET destination == NTPGetTime(reference, system, FALSE) IN
             reference' = AddNTPtime(Correction(stamps.originate, stamps.receive,
                                                stamps.transmit, destination), reference)
    /\ stage' = "idle" /\ stamps' = NoStamps
    /\ set' = TRUE /\ trip' = [trip EXCEPT !.to = millis]
    /\ UNCHANGED <<epoch, read, extracted>>

\* The time is given instead, by a sketch that knows it.
NTPSetTime ==
    /\ stage = "idle" /\ ~set /\ millis < LastCount
    /\ \E system \in Systems, local \in BOOLEAN :
          /\ System(system)
          /\ LET given == Clock(epoch + millis + IF local THEN UtcOffset * PerSecond ELSE 0) IN
             reference' = DiffNTPtime(system,
                 IF local THEN DiffNTPtime(LocalOffset, given) ELSE given)
    /\ set' = TRUE
    /\ UNCHANGED <<epoch, stage, stamps, trip, read, extracted>>

ReadTime ==
    /\ set /\ stage = "idle" /\ millis < LastCount
    /\ \E system \in Systems, local \in BOOLEAN :
          /\ System(system)
          /\ read' = [is |-> NTPGetTime(reference, system, local),
                      was |-> (epoch + millis) \div PerSecond + IF local THEN UtcOffset ELSE 0]
    /\ UNCHANGED <<epoch, reference, set, stage, stamps, trip, extracted>>

---------------------------------------------------------------------------
(* ExtractNTPTime, of a second given as its day and the second of the day.  *)
FIX_PT_DAYS_YEAR == 365 * 256 + 64

\* The first half of the count stands for the time after 2036.
Overflowed(day, clock) == day < 24855 \/ (day = 24855 /\ clock < 11648)

FirstDay == 49710

Broken(day, clock) ==
    LET over == Overflowed(day, clock)
        left == IF over THEN clock + 23296 ELSE clock
        dayno == IF over THEN day + FirstDay + (left \div SECS_PER_DAY) ELSE day
        years == (dayno + 1) * 256
        year == 1900 + (years \div FIX_PT_DAYS_YEAR)
        yday == (years % FIX_PT_DAYS_YEAR) \div 256
        leap == year % 4 = 0 /\ year # 1900
        month == CHOOSE m \in 1..12 : DaysTo(m, leap) <= yday /\ yday < DaysTo(m + 1, leap)
    IN [year |-> year, month |-> month, mday |-> yday - DaysTo(month, leap) + 1,
        wday |-> (dayno + 1) % 7, clock |-> left % SECS_PER_DAY]

\* The last thing ntpTest does; a date is the same whatever was before (a bound for TLC).
ExtractNTPTime ==
    /\ stage = "idle" /\ ~set /\ millis = 0
    /\ stage' = "shown"
    /\ \E date \in Dates : extracted' = [from |-> date, to |-> Broken(date[1], date[2])]
    /\ UNCHANGED <<millis, epoch, reference, set, stamps, trip, read>>

Next ==
    \/ Tick \/ Request \/ ServerReceives \/ ServerTransmits \/ NoAnswer \/ Answer
    \/ NTPSetTime \/ ReadTime \/ ExtractNTPTime

Spec == Init /\ [][Next]_vars

---------------------------------------------------------------------------
Off(a, b) == LET n == InWord(a - b) IN IF n >= SecondWord \div 2 THEN n - SecondWord ELSE n

\* The seconds that began while the request was under way, one more at most.
Trip == ((trip.to - trip.from) \div PerSecond) + 1

\* Neither on the way there nor on the way back do the server's seconds wrap.
NoWrap == LET s == InWord(epoch \div PerSecond) IN Trip + 2 <= s /\ s + Trip + 1 < SecondWord

(* A clock that was set once is never far from the server's: however the    *)
(* seconds fall, the wrong carries and halves add up to five of them, and   *)
(* a way there that took longer than the way back to half the difference.   *)
SyncIsServers ==
    read # <<>> /\ NoWrap =>
        Off(read.is.seconds, read.was) \in -(5 + (Trip \div 2))..(5 + (Trip \div 2))

(* A date is broken down as the calendar has it, from 1968, over the end of *)
(* the count in 2036, until the leap day 2100 does not have.                *)
DateRight ==
    extracted # <<>> =>
        LET day == extracted.from[1]  clock == extracted.from[2]  to == extracted.to
            since == IF Overflowed(day, clock) THEN 49710 + ((clock + 23296) \div SECS_PER_DAY)
                     ELSE 0
        IN /\ DayNumber(to.year, to.month, to.mday) = day + since - 25567
           /\ to.wday = (day + since + 1) % 7
           /\ to.clock = (clock + IF since > 0 THEN 23296 ELSE 0) % SECS_PER_DAY
=============================================================================
