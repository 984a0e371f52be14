-------------------------------- MODULE Millis --------------------------------
(***************************************************************************)
(* The users of millis(), each by itself: the loop that compares it, the    *)
(* clock that counts seconds out of it and the one a network server sets.   *)
(* They share no other state, so a behaviour is one of them, while the      *)
(* others rest.                                                             *)
(***************************************************************************)
EXTENDS Timers

CONSTANTS Start, ServerError, Second, WallWord, SyncInterval, Pauses,
          SecondWord, FractionBits, ClockBits, PerSecond, Epochs, West, Dates, LastCount

VARIABLES
    user,           \* who uses it: "loop", "clock" or "sntp"
    rtc, wallMillis, sysTime, prevMillis, nextSyncTime, Status, tm, cacheTime, zone,
    steps, shown,
    netMillis, epoch, reference, set, stage, stamps, trip, read, extracted

Wall == INSTANCE Clock WITH Word <- WallWord, millis <- wallMillis

Net == INSTANCE Sntp WITH millis <- netMillis

wallVars == <<rtc, wallMillis, sysTime, prevMillis, nextSyncTime, Status, tm,
              cacheTime, zone, steps, shown>>
netVars == <<netMillis, epoch, reference, set, stage, stamps, trip, read, extracted>>

ASSUME WallAssumption ==
    /\ Start \subseteq [at : Nat, steps : Nat] /\ ServerError \subseteq Int
    /\ Second \in Nat \ {0} /\ WallWord \in Nat /\ WallWord > Second
    /\ SyncInterval \in Nat \ {0} /\ Pauses \subseteq Nat \ {0}

ASSUME NetAssumption ==
    /\ SecondWord \in Nat \ {0} /\ SecondWord % 2 = 0
    /\ FractionBits \in Nat /\ ClockBits \in 0..(FractionBits - 1)
    /\ PerSecond \in 1..(2^ClockBits) /\ Epochs \subseteq Nat /\ West \in Nat /\ LastCount \in Nat

(* The 32 bits of a timestamp, of which the first half is after 2036, from   *)
(* 20 January 1968 to 28 February 2100.                                     *)
ASSUME DatesAssumption ==
    \A d \in Dates :
        /\ d \in Nat \X Nat /\ d[2] < 86400
        /\ d[1] <= 23396 \/ (24855 <= d[1] /\ d[1] <= 49710)
        /\ d[1] = 24855 => d[2] >= 11648
        /\ d[1] = 49710 => d[2] < 23296

LoopRests ==
    /\ millis = 0 /\ wait = Begin("elapsed", 0)
    /\ previous_millis = 0 /\ interval_millis = FirstInterval /\ due = 0
WallRests == Wall!Begun([at |-> 0, steps |-> 0])

MillisInit ==
    \/ user = "loop" /\ Init /\ WallRests /\ Net!Begun(0)
    \/ user = "clock" /\ LoopRests /\ Wall!Init /\ Net!Begun(0)
    \/ user = "sntp" /\ LoopRests /\ WallRests /\ Net!Init

MillisNext ==
    /\ UNCHANGED user
    /\ \/ user = "loop" /\ Next /\ UNCHANGED <<wallVars, netVars>>
       \/ user = "clock" /\ Wall!Next /\ UNCHANGED <<vars, netVars>>
       \/ user = "sntp" /\ Net!Next /\ UNCHANGED <<vars, wallVars>>

MillisSpec == MillisInit /\ [][MillisNext]_<<user, vars, wallVars, netVars>>

(* A date is that of the time it is for, in the cache of Time.cpp and in    *)
(* that of sntp.cpp: CacheIsDate of Clock and DateRight of Sntp.            *)
DatesRight == Wall!CacheIsDate /\ Net!DateRight

(* A clock set by a server is near the server's: SyncIsServers of Sntp.      *)
SyncIsServers == Net!SyncIsServers

(* The hour shown is British time: HourIsBritish of Clock.                   *)
HourIsBritish == [][Wall!BritishStep]_wallVars

(* A time asked for is the board's: NowIsRtc of Clock.                       *)
NowIsRtc == [][Wall!RtcStep]_wallVars
=============================================================================
