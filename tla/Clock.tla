-------------------------------- MODULE Clock --------------------------------
(***************************************************************************)
(* The clock of the door controller: Time.cpp counts seconds out of         *)
(* millis() and sets itself by the battery-backed clock of the board;       *)
(* syncTime sets both by the server's time; the screen shows local time.    *)
(* Only now() moves the clock, and it is called when something is shown or  *)
(* logged, so any time may pass in between.                                 *)
(***************************************************************************)
EXTENDS Calendar, Sequences

CONSTANTS
    Start,          \* when the board is switched on, and the steps it then takes
                    \* (a bound for TLC)
    Second,         \* counts of millis() in a second
    Word,           \* the range of millis()
    SyncInterval,   \* syncInterval
    Pauses,         \* seconds between two passes of the loop
    ServerError     \* how far the server's time is from the board's

VARIABLES
    rtc,            \* the board's clock: Teensy3Clock, and the part of a second
    millis,
    sysTime, prevMillis, nextSyncTime, Status,
    tm, cacheTime,  \* the elements of the time last asked about
    zone,           \* _dstUTC and the others, of one year
    steps,          \* the steps left
    shown           \* what the display has of a time, and when each part was asked

vars == <<rtc, millis, sysTime, prevMillis, nextSyncTime, Status, tm, cacheTime,
          zone, steps, shown>>

ZeroTm == [Second |-> 0, Minute |-> 0, Hour |-> 0, Wday |-> 0, Day |-> 0, Month |-> 0,
           Year |-> 0]

Nothing == [hour |-> -1, rest |-> -1]

---------------------------------------------------------------------------
(* now(), as a function of the variables it changes.                       *)
\* The loop: one second after another out of millis().
Counted(s) ==
    LET n == ((millis - s.prev) % Word) \div Second IN
    [s EXCEPT !.sys = @ + n, !.prev = (@ + n * Second) % Word]

setTime_KeepsCount(s, t) ==
    [sys |-> t, prev |-> s.prev, next |-> t + SyncInterval, status |-> "timeSet"]

setTime(s, t) ==
    [sys |-> t, prev |-> millis, next |-> t + SyncInterval, status |-> "timeSet"]

\* getTeensy3Time as the sync provider; 0 would be "no answer".
Synced(c, external) ==
    IF c.next > c.sys THEN c
    ELSE IF external # 0 THEN setTime(c, external)
    ELSE [c EXCEPT !.next = c.sys + SyncInterval,
                   !.status = IF @ = "timeNotSet" THEN @ ELSE "timeNeedsSync"]

System == [sys |-> sysTime, prev |-> prevMillis, next |-> nextSyncTime, status |-> Status]

now == Synced(Counted(System), rtc.time)

Keep(c) ==
    /\ sysTime' = c.sys /\ prevMillis' = c.prev
    /\ nextSyncTime' = c.next /\ Status' = c.status

\* hour(t), year(t) and the others go through the cache.
refreshCache(t) ==
    IF t = cacheTime THEN UNCHANGED <<tm, cacheTime>>
    ELSE tm' = breakTime(t) /\ cacheTime' = t

---------------------------------------------------------------------------
\* setup(): the sync provider is asked at once.
Begun(begin) ==
    LET t == begin.at IN
    /\ steps = begin.steps
    /\ rtc = [time |-> t, part |-> 0]
    /\ millis = 0 /\ sysTime = t /\ prevMillis = 0
    /\ nextSyncTime = t + SyncInterval /\ Status = "timeSet"
    /\ tm = ZeroTm /\ cacheTime = 0
    /\ zone = [dstLoc |-> 0, stdLoc |-> 0, dstUTC |-> 0, stdUTC |-> 0]
    /\ shown = Nothing

Init == \E begin \in Start : Begun(begin)

\* A reset: setSyncProvider sets the clock again, before the clock is shown.
setSyncProvider ==
    LET c == [sys |-> 0, prev |-> 0, next |-> 0, status |-> "timeNotSet"] IN
    IF rtc.time = 0 THEN [c EXCEPT !.next = SyncInterval]
    ELSE [sys |-> rtc.time, prev |-> 0, next |-> rtc.time + SyncInterval, status |-> "timeSet"]

PowerCycle ==
    /\ millis # 0
    /\ millis' = 0
    /\ Keep(setSyncProvider)
    /\ tm' = ZeroTm /\ cacheTime' = 0
    /\ zone' = [dstLoc |-> 0, stdLoc |-> 0, dstUTC |-> 0, stdUTC |-> 0]
    /\ shown' = Nothing
    /\ UNCHANGED rtc

(* Time passes in which nothing asks for it, but no more than millis()      *)
(* counts, 49 days: a longer gap would be taken for its remainder until the *)
(* next synchronisation.                                                    *)
Uncounted == (millis - prevMillis) % Word

\* A fraction of a second, within a pass of the loop.
Tick ==
    /\ Uncounted + 1 < Word
    /\ millis' = (millis + 1) % Word
    /\ rtc' = IF rtc.part + 1 = Second THEN [time |-> rtc.time + 1, part |-> 0]
              ELSE [rtc EXCEPT !.part = @ + 1]
    /\ UNCHANGED <<sysTime, prevMillis, nextSyncTime, Status, tm, cacheTime, zone, shown>>

\* Any time between two passes.
Pause ==
    \E d \in Pauses :
        /\ Uncounted + d * Second < Word
        /\ millis' = (millis + d * Second) % Word
        /\ rtc' = [rtc EXCEPT !.time = @ + d]
        /\ UNCHANGED <<sysTime, prevMillis, nextSyncTime, Status, tm, cacheTime, zone, shown>>

(* lcdTime and digitalClockDisplay: the hour is that of a local time; then  *)
(* minute() and the others ask for the time again, which is UTC.            *)
ShowHour ==
    /\ shown = Nothing
    /\ LET utc == now.sys
           z == Recalculated(zone, utc, zone.dstUTC)
           local == toLocal(z, utc)
       IN /\ Keep(now)
          /\ zone' = z
          /\ refreshCache(local)
          /\ shown' = [shown EXCEPT !.hour = local]
    /\ UNCHANGED <<rtc, millis>>

ShowRest ==
    /\ shown.hour # -1 /\ shown.rest = -1
    /\ Keep(now)
    /\ refreshCache(now.sys)
    /\ shown' = [shown EXCEPT !.rest = now.sys]
    /\ UNCHANGED <<rtc, millis, zone>>

Shown ==
    /\ shown.rest # -1
    /\ shown' = Nothing
    /\ UNCHANGED <<rtc, millis, sysTime, prevMillis, nextSyncTime, Status, tm,
                   cacheTime, zone>>

\* The server's time, for the processor and for the board's clock.
syncTime ==
    \E e \in ServerError :
        LET t == rtc.time + e IN
        /\ t > 0
        /\ Keep(setTime(System, t))
        /\ rtc' = [time |-> t, part |-> 0]
        /\ shown' = Nothing
        /\ UNCHANGED <<millis, tm, cacheTime, zone>>

Next ==
    /\ steps > 0 /\ steps' = steps - 1
    /\ PowerCycle \/ Tick \/ Pause \/ ShowHour \/ ShowRest \/ Shown \/ syncTime

Spec == Init /\ [][Next]_vars

---------------------------------------------------------------------------
(* The clock's variables have their types.                                 *)
TypeOK ==
    /\ rtc.part \in 0..(Second - 1)
    /\ millis \in 0..(Word - 1) /\ prevMillis \in 0..(Word - 1)
    /\ sysTime \in Nat /\ nextSyncTime \in Nat
    /\ Status \in {"timeNotSet", "timeNeedsSync", "timeSet"}

(* What the cache holds is the date of the time it is kept for; and the     *)
(* types.                                                                   *)
CacheIsDate ==
    LET days == cacheTime \div SECS_PER_DAY IN
    /\ TypeOK
    /\ cacheTime # 0 =>
          /\ tm.Month \in 1..12 /\ tm.Day \in 1..MonthLength(tm.Year, tm.Month)
          /\ DayNumber(1970 + tm.Year, tm.Month, tm.Day) = days
          /\ tm.Hour * 3600 + tm.Minute * 60 + tm.Second = cacheTime % SECS_PER_DAY
          /\ makeTime(tm) = cacheTime

(* British time: an hour ahead between the last Sundays of March and        *)
(* October, at one in the morning UTC.                                      *)
LastSunday(y, m) ==
    LET last == DayNumber(y, m, 31) IN (last - ((last + 4) % 7)) * SECS_PER_DAY + SECS_PER_HOUR

YearOf(utc) ==
    CHOOSE y \in 1970..(1970 + LastYear) :
        /\ DayNumber(y, 1, 1) * SECS_PER_DAY <= utc
        /\ utc < DayNumber(y + 1, 1, 1) * SECS_PER_DAY

BritishTime(utc) ==
    LET y == YearOf(utc) IN
    IF LastSunday(y, 3) <= utc /\ utc < LastSunday(y, 10) THEN utc + SECS_PER_HOUR ELSE utc

ComesTwice(utc) ==
    LET end == LastSunday(YearOf(utc), 10) IN end <= utc /\ utc < end + SECS_PER_HOUR

(* The hour the screen and the log of the door show is that of British time, *)
(* also across a change of year or of the server's time; toUTC takes it      *)
(* back, but takes an hour that comes twice for the first.                   *)
BritishStep ==
    shown.hour = -1 /\ shown'.hour # -1 =>
        /\ shown'.hour = BritishTime(sysTime')
        /\ toUTC(Recalculated(zone', shown'.hour, zone'.dstLoc), shown'.hour) =
              IF ComesTwice(sysTime') THEN sysTime' - SECS_PER_HOUR ELSE sysTime'

HourIsBritish == [][BritishStep]_vars

(* Whatever passes between two calls, a time asked for is the board's: the  *)
(* last second is not counted yet at worst, however long nothing asked.     *)
RtcStep ==
    sysTime' # sysTime \/ (shown' # shown /\ shown' # Nothing) =>
        rtc'.time - sysTime' \in {0, 1}

NowIsRtc == [][RtcStep]_vars
=============================================================================
