---------------------------- MODULE MillisProofs ----------------------------
(***************************************************************************)
(* What is right about those who count millis(), for every range of it.     *)
(*                                                                         *)
(* Metro and the exact waits keep their time, for every limit and every     *)
(* length of a pass.  The invariant adds what relates a wait to millis():   *)
(* it began as long ago as its age.                                        *)
(*                                                                         *)
(* The clock of the door is the board's whenever it is asked, however long  *)
(* nothing asks.  The invariant says how much of the board's time the clock *)
(* has yet to count, between two calls.                                    *)
(*                                                                         *)
(* The date it shows, and keeps, is the calendar's, and the hour British,   *)
(* for every second of the years that fit the word; so is the date that     *)
(* sntp.cpp makes of a timestamp.  What a table of sums holds is proved by  *)
(* the least index it could be wrong at.                                   *)
(*                                                                         *)
(* The clock that a server sets is near the server's, for every word of     *)
(* seconds, resolution of millis() and length of the exchange.  The         *)
(* invariant says which counts of millis() the stamps stand for.           *)
(***************************************************************************)
EXTENDS Millis, WellFoundedInduction, TLAPS

Began == wait.on /\ wait.age < Word => millis = Plus(wait.start, wait.age)

Inv == TypeOK /\ Minus(millis, previous_millis) = due /\ Began /\ OnTime

\* The assumption, one constant at a time.
LEMMA Constants ==
    /\ Word \in Nat /\ MaxPass \in Nat /\ Limit \in Nat /\ Slack \in Nat
    /\ FirstInterval \in Nat /\ Interval \in Nat /\ autoreset \in BOOLEAN
    /\ 0 < MaxPass /\ MaxPass <= Slack /\ Slack <= Limit /\ 2 * Limit + MaxPass < Word
    /\ FirstInterval < Word /\ Interval < Word
  BY TimersAssumption

LEMMA PassFits == ASSUME NEW d \in 1..MaxPass PROVE d \in 0..(Word - 1)
  BY Constants

\* Unsigned sums and differences stay in range.
LEMMA PlusType ==
    ASSUME NEW a \in 0..(Word - 1), NEW b \in 0..(Word - 1)
    PROVE  Plus(a, b) \in 0..(Word - 1)
  BY Constants DEF Plus

LEMMA MinusType ==
    ASSUME NEW a \in 0..(Word - 1), NEW b \in 0..(Word - 1)
    PROVE  Minus(a, b) \in 0..(Word - 1)
  BY Constants DEF Minus

LEMMA MinusSelf == ASSUME NEW a \in 0..(Word - 1) PROVE Minus(a, a) = 0
  BY Constants DEF Minus

\* Time adds up: b later than a, and d later than that.
LEMMA PlusPlus ==
    ASSUME NEW a \in 0..(Word - 1), NEW b \in Nat, NEW d \in Nat, b + d < Word
    PROVE  Plus(Plus(a, b), d) = Plus(a, b + d)
  BY Constants DEF Plus

\* The difference is the time that passed, as long as that is below Word.
LEMMA MinusPlus ==
    ASSUME NEW a \in 0..(Word - 1), NEW b \in 0..(Word - 1)
    PROVE  Minus(Plus(a, b), a) = b
  BY Constants DEF Plus, Minus

\* One interval on, the difference is less by that interval.
LEMMA BeatMoves ==
    ASSUME NEW now \in 0..(Word - 1), NEW p \in 0..(Word - 1), NEW i \in 0..(Word - 1),
           Minus(now, p) >= i
    PROVE  Minus(now, Plus(p, i)) = Minus(now, p) - i
  BY Constants DEF Plus, Minus

LEMMA LaterBy ==
    ASSUME NEW now \in 0..(Word - 1), NEW p \in 0..(Word - 1), NEW d \in Nat,
           Minus(now, p) + d < Word
    PROVE  Minus(Plus(now, d), p) = Minus(now, p) + d
  BY Constants DEF Plus, Minus

---------------------------------------------------------------------------
\* A poll of an exact wait finds it over exactly when its age is enough.
LEMMA OverIffLeast ==
    ASSUME NEW w \in [kind : Kinds, start : 0..(Word - 1), age : 0..Word, on : BOOLEAN],
           NEW age \in Nat, age < Least(w) + MaxPass, Exact(w)
    PROVE  Over(w.kind, w.start, Plus(w.start, age)) <=> age >= Least(w)
  <1> USE Constants DEF Kinds
  <1>1. CASE w.kind = "elapsed"
    BY <1>1 DEF Over, Elapsed, Least, Plus, Minus
  <1>2. CASE w.kind = "deadline"
    BY <1>2 DEF Over, Deadline, Least, Exact, Plus
  <1>3. CASE w.kind = "countdown"
    BY <1>3 DEF Over, Countdown, Least, Plus, Minus
  <1>4. CASE w.kind = "backward"
    BY <1>4 DEF Over, Backward, Least, Exact, Plus, Minus
  <1> QED BY <1>1, <1>2, <1>3, <1>4

\* A poll d later keeps what is known of the wait.
LEMMA PollKeepsTime ==
    ASSUME TypeOK, Began, OnTime, NEW d \in 1..MaxPass,
           millis' = Plus(millis, d), Polled(d, Plus(millis, d))
    PROVE  Began' /\ OnTime'
             /\ wait' \in [kind : Kinds, start : 0..(Word - 1), age : 0..Word, on : BOOLEAN]
  <1>1. CASE ~wait.on
    <2>1. wait' = wait BY <1>1 DEF Polled
    <2> QED BY <1>1, <2>1 DEF TypeOK, Began, OnTime, Exact, Least
  <1>2. CASE wait.on
    <2> DEFINE over == Over(wait.kind, wait.start, Plus(millis, d))
    <2>1. wait' = [wait EXCEPT !.age = Aged(wait.age, d), !.on = ~over]
      BY <1>2 DEF Polled
    <2>2. /\ wait'.kind = wait.kind /\ wait'.start = wait.start
          /\ wait'.age = Aged(wait.age, d) /\ wait'.on = ~over
      BY <2>1 DEF TypeOK
    <2>3. over \in BOOLEAN
      BY DEF Over, Elapsed, Deadline, Countdown, Backward
    <2>4. Aged(wait.age, d) \in 0..Word
      BY Constants DEF TypeOK, Aged
    <2>5. wait' \in [kind : Kinds, start : 0..(Word - 1), age : 0..Word, on : BOOLEAN]
      BY <2>1, <2>3, <2>4 DEF TypeOK
    <2>6. Began'
      <3> SUFFICES ASSUME Aged(wait.age, d) < Word
                   PROVE  millis' = Plus(wait.start, Aged(wait.age, d))
        BY <2>2 DEF Began, Plus
      <3>1. wait.age + d < Word /\ Aged(wait.age, d) = wait.age + d /\ wait.age < Word
        BY Constants DEF TypeOK, Aged
      <3>2. millis = Plus(wait.start, wait.age)
        BY <1>2, <3>1 DEF Began
      <3> QED
        BY <3>1, <3>2, PlusPlus, Constants DEF TypeOK
    <2>7. OnTime'
      <3> SUFFICES ASSUME Exact(wait)
                   PROVE  IF ~over THEN Aged(wait.age, d) < Least(wait)
                          ELSE /\ Aged(wait.age, d) >= Least(wait)
                               /\ Aged(wait.age, d) < Least(wait) + MaxPass
        BY <2>2 DEF OnTime, Exact, Least
      <3>1. wait.age \in Nat /\ wait.age < Least(wait) /\ Least(wait) \in Nat
        BY <1>2, Constants DEF OnTime, TypeOK, Least
      <3>2. Least(wait) <= Limit + 1
        BY Constants DEF Least
      <3>3. wait.age + d < Word /\ wait.age < Word /\ wait.age + d < Least(wait) + MaxPass
        BY <3>1, <3>2, Constants
      <3>4. Aged(wait.age, d) = wait.age + d
        BY <3>3 DEF Aged
      <3>5. Plus(millis, d) = Plus(wait.start, wait.age + d)
        BY <1>2, <3>1, <3>3, PlusPlus, Constants DEF Began, TypeOK
      <3>6. over <=> wait.age + d >= Least(wait)
        BY <3>1, <3>3, <3>5, OverIffLeast, Constants DEF TypeOK
      <3> QED BY <3>1, <3>3, <3>4, <3>6, Constants
    <2> QED BY <2>5, <2>6, <2>7
  <1> QED BY <1>1, <1>2 DEF TypeOK

---------------------------------------------------------------------------
LEMMA InitInv == Init => Inv
  <1> SUFFICES ASSUME Init PROVE Inv
    OBVIOUS
  <1> USE Constants
  <1>1. PICK kind \in Kinds : wait = Begin(kind, millis)
    BY DEF Init
  <1>2. /\ wait.kind = kind /\ wait.start = millis /\ wait.age = 0 /\ wait.on = TRUE
        /\ wait \in [kind : Kinds, start : 0..(Word - 1), age : 0..Word, on : BOOLEAN]
    BY <1>1 DEF Begin, Init
  <1>3. TypeOK
    BY <1>2 DEF Init, TypeOK
  <1>4. Minus(millis, previous_millis) = due
    BY DEF Init, Minus
  <1>5. Began
    BY <1>2 DEF Init, Began, Plus
  <1>6. OnTime
    BY <1>2 DEF OnTime, Least
  <1> QED BY <1>3, <1>4, <1>5, <1>6 DEF Inv

\* A pass that polls Metro: a beat, or none.
LEMMA PassInv ==
    ASSUME Inv, Pass PROVE Inv'
  <1> USE Constants
  <1>1. PICK d \in 1..MaxPass :
            /\ due + d < Word
            /\ millis' = Plus(millis, d)
            /\ Polled(d, Plus(millis, d))
            /\ \/ /\ check(Plus(millis, d))
                  /\ due' = IF autoreset THEN 0 ELSE due + d - interval_millis
               \/ /\ ~Beats(Plus(millis, d))
                  /\ due' = due + d
                  /\ UNCHANGED <<previous_millis, interval_millis>>
    BY DEF Pass
  <1>2. Began' /\ OnTime'
          /\ wait' \in [kind : Kinds, start : 0..(Word - 1), age : 0..Word, on : BOOLEAN]
    BY <1>1, PollKeepsTime DEF Inv
  <1>3. millis' \in 0..(Word - 1)
    BY <1>1, PassFits, PlusType DEF Inv, TypeOK
  <1>4. Minus(Plus(millis, d), previous_millis) = due + d
    BY <1>1, LaterBy DEF Inv, TypeOK
  <1>5. CASE check(Plus(millis, d)) /\ due' = IF autoreset THEN 0 ELSE due + d - interval_millis
    <2>1. due + d >= interval_millis
      BY <1>4, <1>5 DEF check, Beats
    <2>2. interval_millis \in 0..(Word - 1) /\ interval_millis' = Interval
      BY <1>5 DEF check, Inv, TypeOK
    <2>3. CASE autoreset
      <3>1. previous_millis' = millis' /\ due' = 0
        BY <1>1, <1>5, <2>3 DEF check
      <3>2. Minus(millis', previous_millis') = due'
        BY <3>1, <1>3, MinusSelf
      <3>3. previous_millis' \in 0..(Word - 1) /\ due' \in 0..(Word - 1)
        BY <3>1, <1>3
      <3>4. TypeOK'
        BY <1>2, <1>3, <2>2, <3>3 DEF TypeOK
      <3> QED BY <1>2, <3>2, <3>4 DEF Inv, Minus
    <2>4. CASE ~autoreset
      <3>1. previous_millis' = Plus(previous_millis, interval_millis)
            /\ due' = due + d - interval_millis
        BY <1>5, <2>4 DEF check
      <3>2. previous_millis' \in 0..(Word - 1)
        BY <2>2, <3>1, PlusType DEF Inv, TypeOK
      <3>3. Minus(millis', previous_millis') = due + d - interval_millis
        BY <1>1, <1>3, <1>4, <2>1, <2>2, <3>1, BeatMoves DEF Inv, TypeOK
      <3>4. due' \in 0..(Word - 1)
        BY <1>1, <2>1, <2>2, <3>1 DEF Inv, TypeOK
      <3> QED BY <1>2, <1>3, <2>2, <3>1, <3>2, <3>3, <3>4 DEF Inv, TypeOK, Minus
    <2> QED BY <2>3, <2>4
  <1>6. CASE due' = due + d /\ UNCHANGED <<previous_millis, interval_millis>>
    <2>1. due' \in 0..(Word - 1)
      BY <1>1, <1>6 DEF Inv, TypeOK
    <2>2. Minus(millis', previous_millis') = due'
      BY <1>1, <1>4, <1>6
    <2> QED BY <1>2, <1>3, <1>6, <2>1, <2>2 DEF Inv, TypeOK, Minus
  <1> QED BY <1>1, <1>5, <1>6

\* A pass while the door is open: Metro is not asked.
LEMMA BusyInv ==
    ASSUME Inv, Busy PROVE Inv'
  <1> USE Constants
  <1>1. PICK d \in 1..MaxPass :
            /\ due + d < Word
            /\ millis' = Plus(millis, d)
            /\ Polled(d, Plus(millis, d))
            /\ due' = due + d
            /\ UNCHANGED <<previous_millis, interval_millis>>
    BY DEF Busy
  <1>2. Began' /\ OnTime'
          /\ wait' \in [kind : Kinds, start : 0..(Word - 1), age : 0..Word, on : BOOLEAN]
    BY <1>1, PollKeepsTime DEF Inv
  <1>3. millis' \in 0..(Word - 1)
    BY <1>1, PassFits, PlusType DEF Inv, TypeOK
  <1>4. Minus(millis', previous_millis') = due'
    BY <1>1, LaterBy DEF Inv, TypeOK
  <1>5. due' \in 0..(Word - 1)
    BY <1>1 DEF Inv, TypeOK
  <1> QED BY <1>1, <1>2, <1>3, <1>4, <1>5 DEF Inv, TypeOK, Minus

\* A new wait is as old as millis() says: not at all.
LEMMA AgainInv ==
    ASSUME Inv, Again PROVE Inv'
  <1> USE Constants
  <1>1. wait' = Begin(wait.kind, millis) /\ UNCHANGED <<millis, previous_millis, interval_millis, due>>
    BY DEF Again
  <1>2. /\ wait'.kind = wait.kind /\ wait'.start = millis /\ wait'.age = 0 /\ wait'.on = TRUE
        /\ wait' \in [kind : Kinds, start : 0..(Word - 1), age : 0..Word, on : BOOLEAN]
    BY <1>1 DEF Begin, Inv, TypeOK
  <1>3. Began'
    BY <1>1, <1>2 DEF Began, Plus, Inv, TypeOK
  <1>4. OnTime'
    BY <1>2 DEF OnTime, Least
  <1> QED BY <1>1, <1>2, <1>3, <1>4 DEF Inv, TypeOK, Minus

LEMMA NextInv == Inv /\ [Next]_vars => Inv'
  <1> SUFFICES ASSUME Inv, [Next]_vars PROVE Inv'
    OBVIOUS
  <1>1. CASE UNCHANGED vars
    BY <1>1 DEF vars, Inv, TypeOK, Began, OnTime, Exact, Least, Minus, Plus
  <1> QED BY <1>1, PassInv, BusyInv, AgainInv DEF Next

LEMMA AlwaysInv == Spec => []Inv
  BY InitInv, NextInv, PTL DEF Spec

---------------------------------------------------------------------------
\* Metro loses no beat and has none too early, whatever the range of millis().
THEOREM MetroKeepsTime == Spec => []MetroExact
  <1>1. Inv => MetroExact
    BY DEF Inv, MetroExact
  <1> QED BY <1>1, AlwaysInv, PTL

\* The exact waits end at the first poll after their time, never before it.
THEOREM WaitsEndOnTime == Spec => []OnTime
  <1>1. Inv => OnTime
    BY DEF Inv
  <1> QED BY <1>1, AlwaysInv, PTL

---------------------------------------------------------------------------
(* The least of a set of numbers.                                          *)
Min(S) == CHOOSE x \in S : \A y \in S : x <= y

LEMMA Smaller ==
    ASSUME NEW x \in Nat, NEW y \in Nat PROVE <<y, x>> \in OpToRel(<, Nat) <=> y < x
  <1> DEFINE s == <<y, x>>
  <1>1. s[1] = y /\ s[2] = x /\ s \in Nat \X Nat
    OBVIOUS
  <1> HIDE DEF s
  <1>2. s \in OpToRel(<, Nat) <=> s[1] < s[2]
    BY <1>1, Zenon DEF OpToRel
  <1> QED
    BY <1>1, <1>2, Zenon DEF s

LEMMA SmallestIn ==
    ASSUME NEW S \in SUBSET Nat, S # {}
    PROVE  Min(S) \in S /\ \A y \in S : Min(S) <= y
  <1>1. \E x \in S : \A y \in S : ~(<<y, x>> \in OpToRel(<, Nat))
    BY NatLessThanWellFounded, WFMin, Zenon
  <1>2. \E x \in S : \A y \in S : ~(y < x)
    BY <1>1, Smaller, Zenon
  <1>3. \E x \in S : \A y \in S : x <= y
    BY <1>2
  <1> QED
    BY <1>3, Zenon DEF Min

---------------------------------------------------------------------------
(* The door's clock.                                                       *)
\* Of the board's time the clock has counted all but a second: what
\* millis() has gone on since is still to be counted, and a second that was
\* not over when the clock was set is missing.
ClockType ==
    /\ rtc \in [time : Nat, part : 0..(Second - 1)]
    /\ wallMillis \in 0..(WallWord - 1) /\ prevMillis \in 0..(WallWord - 1)
    /\ sysTime \in Nat

Missing == (rtc.time - sysTime) * Second + rtc.part - Wall!Uncounted

ClockInv == ClockType /\ Missing \in 0..(Second - 1)

LEMMA WallConstants ==
    /\ Second \in Nat /\ 0 < Second
    /\ WallWord \in Nat /\ Second < WallWord
    /\ \A d \in Pauses : d \in Nat
    /\ \A begin \in Start : begin.at \in Nat
  BY WallAssumption

\* Division, with what is left.
LEMMA Division ==
    ASSUME NEW a \in Nat, NEW b \in Nat, 0 < b
    PROVE  /\ a \div b \in Nat /\ (a \div b) * b \in Nat
           /\ a - (a \div b) * b \in 0..(b - 1)
           /\ (a \div b) * b <= a
  BY SMTT(30)

LEMMA WallMinusType ==
    ASSUME NEW m \in 0..(WallWord - 1), NEW p \in 0..(WallWord - 1)
    PROVE  (m - p) % WallWord \in 0..(WallWord - 1)
  BY WallConstants

\* Time that passes is time not counted yet.
LEMMA WallLater ==
    ASSUME NEW m \in 0..(WallWord - 1), NEW p \in 0..(WallWord - 1), NEW d \in Nat,
           ((m - p) % WallWord) + d < WallWord
    PROVE  /\ (m + d) % WallWord \in 0..(WallWord - 1)
           /\ (((m + d) % WallWord) - p) % WallWord = ((m - p) % WallWord) + d
  BY WallConstants

\* What is counted is taken off what was not.
LEMMA WallCounted ==
    ASSUME NEW m \in 0..(WallWord - 1), NEW p \in 0..(WallWord - 1), NEW d \in Nat,
           d <= (m - p) % WallWord
    PROVE  /\ (p + d) % WallWord \in 0..(WallWord - 1)
           /\ (m - ((p + d) % WallWord)) % WallWord = ((m - p) % WallWord) - d
  BY WallConstants

\* A difference of one more, or of d more.
LEMMA OneMore ==
    ASSUME NEW a \in Int, NEW b \in Int
    PROVE  (a + 1 - b) * Second = (a - b) * Second + Second
  BY WallConstants

LEMMA SomeMore ==
    ASSUME NEW a \in Int, NEW b \in Int, NEW d \in Int
    PROVE  (a + d - b) * Second = (a - b) * Second + d * Second
  BY WallConstants

\* Less than two seconds are one or none.
LEMMA LessThanTwo ==
    ASSUME NEW d \in Int, -Second < d * Second, d * Second < 2 * Second
    PROVE  d \in {0, 1}
  <1>1. CASE d <= -1
    <2>1. PICK k \in Nat : d = -1 - k
      <3>1. -1 - d \in Nat /\ d = -1 - (-1 - d)
        BY <1>1
      <3> QED BY <3>1
    <2>2. k * Second \in Nat
      BY WallConstants
    <2>3. d * Second = -Second - k * Second
      BY <2>1, WallConstants
    <2> QED BY <2>2, <2>3, WallConstants
  <1>2. CASE d >= 2
    <2>1. PICK k \in Nat : d = 2 + k
      <3>1. d - 2 \in Nat /\ d = 2 + (d - 2)
        BY <1>2
      <3> QED BY <3>1
    <2>2. k * Second \in Nat
      BY WallConstants
    <2>3. d * Second = 2 * Second + k * Second
      BY <2>1, WallConstants
    <2> QED BY <2>2, <2>3, WallConstants
  <1> QED BY <1>1, <1>2

\* now(), kept.
LEMMA NowKeepsTime ==
    ASSUME ClockInv, Wall!Keep(Wall!now), UNCHANGED <<rtc, wallMillis>>
    PROVE  ClockInv' /\ rtc'.time - sysTime' \in {0, 1}
  <1> USE WallConstants
  <1> DEFINE e == Wall!Uncounted
             n == e \div Second
             c == Wall!Counted(Wall!System)
             t == rtc.time
  <1>1. e \in 0..(WallWord - 1) /\ e \in Nat
    BY WallMinusType DEF Wall!Uncounted, ClockInv, ClockType
  <1>2. /\ n \in Nat /\ n * Second \in Nat
        /\ e - n * Second \in 0..(Second - 1) /\ n * Second <= e
    <2> HIDE DEF e
    <2> QED BY <1>1, Division
  <1>3. c.sys = sysTime + n /\ c.prev = (prevMillis + n * Second) % WallWord
    BY DEF Wall!Counted, Wall!System, Wall!Uncounted
  <1>4. /\ c.prev \in 0..(WallWord - 1)
        /\ (wallMillis - c.prev) % WallWord = e - n * Second
    <2>1. e = (wallMillis - prevMillis) % WallWord
      BY DEF Wall!Uncounted
    <2>2. PICK d \in Nat : d = n * Second
      BY <1>2
    <2> HIDE DEF n
    <2>3. d \in Nat /\ d <= (wallMillis - prevMillis) % WallWord
      BY <1>2, <2>1, <2>2
    <2>4. /\ (prevMillis + d) % WallWord \in 0..(WallWord - 1)
          /\ (wallMillis - ((prevMillis + d) % WallWord)) % WallWord
                = ((wallMillis - prevMillis) % WallWord) - d
      BY <2>3, WallCounted DEF ClockInv, ClockType
    <2> HIDE DEF c, e
    <2> QED BY <1>3, <2>1, <2>2, <2>4
  <1>5. CASE sysTime' = c.sys /\ prevMillis' = c.prev
    <2> HIDE DEF c, n, e
    <2>1. sysTime' \in Nat /\ sysTime' = sysTime + n
      BY <1>2, <1>3, <1>5 DEF ClockInv, ClockType
    <2>2. Wall!Uncounted' = e - n * Second
      BY <1>4, <1>5 DEF Wall!Uncounted
    <2>3. (t - (sysTime + n)) * Second = (t - sysTime) * Second - n * Second
      BY <1>2 DEF ClockInv, ClockType
    <2>4. Missing' = Missing
      BY <1>1, <1>2, <2>1, <2>2, <2>3 DEF Missing, ClockInv, ClockType, e
    <2>5. ClockInv'
      BY <1>4, <1>5, <2>1, <2>4 DEF ClockInv, ClockType
    <2>6. (t - (sysTime + n)) * Second = Missing - rtc.part + (e - n * Second)
      BY <1>1, <1>2, <2>3 DEF Missing, ClockInv, ClockType, e
    <2>7. t - (sysTime + n) \in Int
      BY <1>2 DEF ClockInv, ClockType
    <2>8. -Second < (t - (sysTime + n)) * Second /\ (t - (sysTime + n)) * Second < 2 * Second
      <3>1. /\ Missing \in 0..(Second - 1) /\ rtc.part \in 0..(Second - 1)
            /\ e - n * Second \in 0..(Second - 1)
        BY <1>2 DEF ClockInv, ClockType
      <3> DEFINE x == (t - (sysTime + n)) * Second
                 r == e - n * Second
      <3>2. x = Missing - rtc.part + r /\ r \in 0..(Second - 1)
        BY <2>6, <3>1
      <3> HIDE DEF x, r
      <3>3. -Second < x /\ x < 2 * Second
        BY <3>1, <3>2
      <3> QED BY <3>3 DEF x
    <2>9. t - (sysTime + n) \in {0, 1}
      BY <2>7, <2>8, LessThanTwo
    <2> QED BY <2>1, <2>5, <2>9
  <1>6. CASE sysTime' = t /\ prevMillis' = wallMillis
    <2>1. Wall!Uncounted' = 0
      BY <1>6 DEF Wall!Uncounted, ClockInv, ClockType
    <2>2. (t - t) * Second = 0
      BY DEF ClockInv, ClockType
    <2>3. Missing' = rtc.part
      BY <1>6, <2>1, <2>2 DEF Missing, ClockInv, ClockType
    <2> QED BY <1>6, <2>3 DEF ClockInv, ClockType
  <1>7. \/ sysTime' = c.sys /\ prevMillis' = c.prev
        \/ sysTime' = t /\ prevMillis' = wallMillis
    BY DEF Wall!Keep, Wall!now, Wall!Synced, Wall!setTime, Wall!Counted, Wall!System
  <1> QED BY <1>5, <1>6, <1>7

LEMMA BegunClock ==
    ASSUME NEW begin, begin.at \in Nat, Wall!Begun(begin)
    PROVE  ClockInv
  <1> USE WallConstants
  <1>1. Wall!Uncounted = 0
    BY DEF Wall!Begun, Wall!Uncounted
  <1>2. rtc.time = begin.at /\ rtc.part = 0 /\ sysTime = begin.at
    BY DEF Wall!Begun
  <1>3. (begin.at - begin.at) * Second = 0
    OBVIOUS
  <1>4. Missing = 0
    BY <1>1, <1>2, <1>3 DEF Missing
  <1>5. rtc = [time |-> begin.at, part |-> 0]
    BY DEF Wall!Begun
  <1> QED BY <1>2, <1>4, <1>5 DEF ClockInv, ClockType, Wall!Begun

\* A restart, and the server's time: the clock is the board's to the second.
LEMMA SetClock ==
    ASSUME rtc' \in [time : Nat, part : 0..(Second - 1)], sysTime' = rtc'.time,
           wallMillis' \in 0..(WallWord - 1), prevMillis' = wallMillis'
    PROVE  ClockInv' /\ rtc'.time - sysTime' \in {0, 1}
  <1> USE WallConstants
  <1>1. Wall!Uncounted' = 0
    <2>1. \A m \in 0..(WallWord - 1) : (m - m) % WallWord = 0
      OBVIOUS
    <2> QED BY <2>1 DEF Wall!Uncounted
  <1>2. (rtc'.time - rtc'.time) * Second = 0
    OBVIOUS
  <1>3. Missing' = rtc'.part
    BY <1>1, <1>2 DEF Missing
  <1> QED BY <1>3 DEF ClockInv, ClockType

LEMMA PowerCycleClock ==
    ASSUME ClockInv, Wall!PowerCycle PROVE ClockInv' /\ Wall!RtcStep
  <1>1. /\ sysTime' = rtc.time /\ prevMillis' = 0 /\ wallMillis' = 0 /\ rtc' = rtc
    BY DEF Wall!PowerCycle, Wall!Keep, Wall!setSyncProvider
  <1>2. 0 \in 0..(WallWord - 1)
    BY WallConstants
  <1> QED BY <1>1, <1>2, SetClock DEF ClockInv, ClockType, Wall!RtcStep

LEMMA TickClock ==
    ASSUME ClockInv, Wall!Tick PROVE ClockInv' /\ Wall!RtcStep
  <1> USE WallConstants
  <1> DEFINE e == Wall!Uncounted
  <1>1. e + 1 < WallWord /\ wallMillis' = (wallMillis + 1) % WallWord
        /\ UNCHANGED <<sysTime, prevMillis, shown>>
    BY DEF Wall!Tick
  <1>2. wallMillis' \in 0..(WallWord - 1) /\ Wall!Uncounted' = e + 1 /\ e \in 0..(WallWord - 1)
    BY <1>1, WallLater, WallMinusType DEF Wall!Uncounted, ClockInv, ClockType
  <1>3. CASE rtc.part + 1 = Second
    <2>1. rtc'.time = rtc.time + 1 /\ rtc'.part = 0
      BY <1>3 DEF Wall!Tick
    <2>2. (rtc.time + 1 - sysTime) * Second = (rtc.time - sysTime) * Second + Second
      <3>1. rtc.time \in Int /\ sysTime \in Int
        BY DEF ClockInv, ClockType
      <3> QED BY <3>1, OneMore
    <2>3. Missing' = Missing
      <3> HIDE DEF e
      <3> QED BY <1>1, <1>2, <1>3, <2>1, <2>2 DEF Missing, ClockInv, ClockType, e
    <2>4. rtc' = [time |-> rtc.time + 1, part |-> 0]
      BY <1>3 DEF Wall!Tick
    <2> QED BY <1>1, <1>2, <2>1, <2>3, <2>4 DEF ClockInv, ClockType, Wall!RtcStep
  <1>4. CASE rtc.part + 1 # Second
    <2>1. rtc' = [rtc EXCEPT !.part = @ + 1]
      BY <1>4 DEF Wall!Tick
    <2>2. rtc'.time = rtc.time /\ rtc'.part = rtc.part + 1
      BY <2>1 DEF ClockInv, ClockType
    <2>3. Missing' = Missing
      BY <1>1, <1>2, <2>2 DEF Missing, ClockInv, ClockType
    <2>4. rtc' \in [time : Nat, part : 0..(Second - 1)]
      BY <1>4, <2>1 DEF ClockInv, ClockType
    <2> QED BY <1>1, <1>2, <1>4, <2>2, <2>3, <2>4 DEF ClockInv, ClockType, Wall!RtcStep
  <1> QED BY <1>3, <1>4

LEMMA PauseClock ==
    ASSUME ClockInv, Wall!Pause PROVE ClockInv' /\ Wall!RtcStep
  <1> USE WallConstants
  <1> DEFINE e == Wall!Uncounted
  <1>1. PICK d \in Pauses :
            /\ e + d * Second < WallWord
            /\ wallMillis' = (wallMillis + d * Second) % WallWord
            /\ rtc' = [rtc EXCEPT !.time = @ + d]
            /\ UNCHANGED <<sysTime, prevMillis, shown>>
    BY DEF Wall!Pause
  <1>2. d \in Nat /\ d * Second \in Nat
    OBVIOUS
  <1>3. PICK s \in Nat : s = d * Second
    BY <1>2
  <1>4. /\ wallMillis' \in 0..(WallWord - 1) /\ e \in 0..(WallWord - 1)
        /\ Wall!Uncounted' = e + s
    <2>1. ((wallMillis - prevMillis) % WallWord) + s < WallWord
      BY <1>1, <1>3 DEF Wall!Uncounted
    <2>2. wallMillis' = (wallMillis + s) % WallWord
      BY <1>1, <1>3
    <2>3. /\ (wallMillis + s) % WallWord \in 0..(WallWord - 1)
          /\ (((wallMillis + s) % WallWord) - prevMillis) % WallWord
                = ((wallMillis - prevMillis) % WallWord) + s
      BY <2>1, WallLater DEF ClockInv, ClockType
    <2> QED BY <1>1, <2>2, <2>3, WallMinusType DEF Wall!Uncounted, ClockInv, ClockType
  <1>5. rtc'.time = rtc.time + d /\ rtc'.part = rtc.part
    BY <1>1 DEF ClockInv, ClockType
  <1>6. (rtc.time + d - sysTime) * Second = (rtc.time - sysTime) * Second + s
    BY <1>2, <1>3, SomeMore DEF ClockInv, ClockType
  <1>7. Missing' = Missing
    <2> HIDE DEF e
    <2> QED BY <1>1, <1>4, <1>5, <1>6 DEF Missing, ClockInv, ClockType, e
  <1> QED BY <1>1, <1>2, <1>4, <1>5, <1>7 DEF ClockInv, ClockType, Wall!RtcStep

LEMMA ShowHourClock ==
    ASSUME ClockInv, Wall!ShowHour PROVE ClockInv' /\ Wall!RtcStep
  <1>1. Wall!Keep(Wall!now) /\ UNCHANGED <<rtc, wallMillis>>
    BY DEF Wall!ShowHour
  <1> QED BY <1>1, NowKeepsTime DEF Wall!RtcStep

LEMMA ShowRestClock ==
    ASSUME ClockInv, Wall!ShowRest PROVE ClockInv' /\ Wall!RtcStep
  <1>1. Wall!Keep(Wall!now) /\ UNCHANGED <<rtc, wallMillis>>
    BY DEF Wall!ShowRest
  <1> QED BY <1>1, NowKeepsTime DEF Wall!RtcStep

LEMMA SyncTimeClock ==
    ASSUME ClockInv, Wall!syncTime PROVE ClockInv' /\ Wall!RtcStep
  <1>1. PICK e \in ServerError :
            /\ rtc.time + e > 0
            /\ Wall!Keep(Wall!setTime(Wall!System, rtc.time + e))
            /\ rtc' = [time |-> rtc.time + e, part |-> 0]
            /\ UNCHANGED wallMillis
    BY DEF Wall!syncTime
  <1>2. /\ sysTime' = rtc.time + e /\ prevMillis' = wallMillis
        /\ rtc'.time = rtc.time + e /\ rtc'.part = 0
    BY <1>1 DEF Wall!Keep, Wall!setTime
  <1>3. rtc.time + e \in Nat
    <2>1. e \in Int /\ rtc.time \in Nat
      BY WallAssumption DEF ClockInv, ClockType
    <2> QED BY <1>1, <2>1
  <1> QED BY <1>1, <1>2, <1>3, SetClock, WallConstants DEF ClockInv, ClockType, Wall!RtcStep

LEMMA ClockStep == ASSUME ClockInv, [MillisNext]_<<user, vars, wallVars, netVars>>
    PROVE ClockInv' /\ [Wall!RtcStep]_wallVars
  <1>1. CASE UNCHANGED wallVars
    BY <1>1 DEF wallVars, ClockInv, ClockType, Missing, Wall!Uncounted
  <1>2. CASE Wall!Next
    <2>1. CASE Wall!Shown
      BY <2>1 DEF Wall!Shown, Wall!RtcStep, ClockInv, ClockType, Missing, Wall!Uncounted
    <2> QED BY <1>2, <2>1, PowerCycleClock, TickClock, PauseClock, ShowHourClock,
               ShowRestClock, SyncTimeClock DEF Wall!Next
  <1> QED BY <1>1, <1>2 DEF MillisNext

\* Whenever the clock is asked, a second of the board's may not be counted yet,
\* never more, and none is counted twice.
THEOREM NowIsTheBoards == MillisSpec => NowIsRtc
  <1>1. MillisInit => ClockInv
    <2>1. ASSUME WallRests PROVE ClockInv
      <3>1. [at |-> 0, steps |-> 0].at \in Nat
        OBVIOUS
      <3> QED BY <2>1, <3>1, BegunClock DEF WallRests
    <2>2. ASSUME Wall!Init PROVE ClockInv
      BY <2>2, BegunClock, WallConstants DEF Wall!Init
    <2> QED BY <2>1, <2>2 DEF MillisInit
  <1>2. ClockInv /\ [MillisNext]_<<user, vars, wallVars, netVars>>
           => ClockInv' /\ [Wall!RtcStep]_wallVars
    BY ClockStep
  <1> QED BY <1>1, <1>2, PTL DEF MillisSpec, NowIsRtc

---------------------------------------------------------------------------
(* The calendar.  Up to 2105 a leap year is every fourth but 2100.          *)
FirstDay(y) == 365 * y + ((y + 1) \div 4) - (IF y > 130 THEN 1 ELSE 0)

Leap(y) == y % 4 = 2 /\ y # 130

Length(y) == IF Leap(y) THEN 366 ELSE 365

MonthStart(m) ==
    CASE m = 1 -> 0 [] m = 2 -> 31 [] m = 3 -> 59 [] m = 4 -> 90 [] m = 5 -> 120 [] m = 6 -> 151
      [] m = 7 -> 181 [] m = 8 -> 212 [] m = 9 -> 243 [] m = 10 -> 273 [] m = 11 -> 304
      [] m = 12 -> 334 [] m = 13 -> 365

LEMMA LeapIs == ASSUME NEW y \in 0..136 PROVE Wall!LEAP_YEAR(y) <=> Leap(y)
  <1>1. y \in Nat /\ y <= 136
    OBVIOUS
  <1>2. (1970 + y) % 4 = 0 <=> y % 4 = 2
    BY <1>1
  <1>3. (1970 + y) % 100 = 0 <=> y = 30 \/ y = 130
    BY <1>1
  <1>4. (1970 + y) % 400 = 0 <=> y = 30
    BY <1>1
  <1>5. 30 % 4 = 2 /\ 130 % 4 = 2
    OBVIOUS
  <1> QED
    BY <1>2, <1>3, <1>4, <1>5 DEF Wall!LEAP_YEAR, Leap

LEMMA LengthIs ==
    ASSUME NEW y \in 0..136
    PROVE  (IF Wall!LEAP_YEAR(y) THEN 366 ELSE 365) = Length(y)
  BY LeapIs DEF Length

LEMMA FirstDays ==
    /\ FirstDay(0) = 0
    /\ \A y \in 0..136 : FirstDay(y) \in Nat
    /\ \A y \in 1..136 : FirstDay(y) = FirstDay(y - 1) + Length(y - 1)
  <1>1. FirstDay(0) = 0
    BY DEF FirstDay
  <1>2. ASSUME NEW y \in 0..136 PROVE FirstDay(y) \in Nat
    BY DEF FirstDay
  <1>3. ASSUME NEW y \in 1..136
        PROVE  FirstDay(y) = FirstDay(y - 1) + Length(y - 1)
    <2>1. (y + 1) \div 4 = (y \div 4) + IF (y - 1) % 4 = 2 THEN 1 ELSE 0
      OBVIOUS
    <2>2. 130 % 4 = 2
      OBVIOUS
    <2> QED
      BY <2>1, <2>2 DEF FirstDay, Leap, Length
  <1> QED
    BY <1>1, <1>2, <1>3

\* Induction up to a bound, on the set of the numbers it holds for.
LEMMA UpTo ==
    ASSUME NEW n \in Nat, NEW S, 0 \in S, \A i \in 1..n : i - 1 \in S => i \in S
    PROVE  \A i \in 0..n : i \in S
  <1> DEFINE T == {i \in 0..n : i \notin S}
  <1>1. SUFFICES ASSUME T # {} PROVE FALSE
    OBVIOUS
  <1>2. T \in SUBSET Nat
    OBVIOUS
  <1>3. PICK m \in T : \A k \in T : m <= k
    <2> HIDE DEF T
    <2> QED
      BY <1>1, <1>2, SmallestIn
  <1>4. m \in 1..n /\ m - 1 \in 0..n
    OBVIOUS
  <1>5. m - 1 \notin T
    BY <1>3, <1>4
  <1> QED
    BY <1>4, <1>5

\* The years before a year have its days, one after the other.
LEMMA DaysBeforeIs == ASSUME NEW y \in 0..136 PROVE Wall!DaysBefore[y] = FirstDay(y)
  <1> DEFINE Body(f, i) ==
                 IF i = 0 THEN 0 ELSE f[i - 1] + IF Wall!LEAP_YEAR(i - 1) THEN 366 ELSE 365
             F(f) == f = [i \in 0..(Wall!LastYear + 1) |-> Body(f, i)]
             f == CHOOSE h : F(h)
             g == [i \in 0..136 |-> FirstDay(i)]
  <1>0. 0..(Wall!LastYear + 1) = 0..136
    BY DEF Wall!LastYear
  <1>1. ASSUME NEW i \in 0..136 PROVE Wall!DaysBefore[i] = f[i]
    <2>1. Wall!DaysBefore = [k \in 0..(Wall!LastYear + 1) |-> f[k]]
      BY DEF Wall!DaysBefore
    <2> HIDE DEF f
    <2> QED
      BY <1>0, <2>1
  <1>2. F(g)
    <2>1. ASSUME NEW i \in 0..136 PROVE g[i] = Body(g, i)
      <3>1. CASE i = 0
        BY <3>1, FirstDays
      <3>2. CASE i # 0
        <4>1. i - 1 \in 0..136 /\ i \in 1..136
          BY <3>2
        <4>2. g[i] = FirstDay(i) /\ g[i - 1] = FirstDay(i - 1)
          BY <4>1
        <4>3. (IF Wall!LEAP_YEAR(i - 1) THEN 366 ELSE 365) = Length(i - 1)
          BY <4>1, LengthIs
        <4>4. Body(g, i) = g[i - 1] + (IF Wall!LEAP_YEAR(i - 1) THEN 366 ELSE 365)
          BY <3>2
        <4> HIDE DEF g, Body
        <4>5. Body(g, i) = FirstDay(i - 1) + Length(i - 1)
          BY <4>2, <4>3, <4>4, Zenon
        <4> QED
          BY <4>1, <4>2, <4>5, FirstDays
      <3> QED
        BY <3>1, <3>2
    <2>2. g = [i \in 0..136 |-> g[i]]
      OBVIOUS
    <2> HIDE DEF g, Body
    <2> QED
      BY <1>0, <2>1, <2>2
  <1>3. F(f)
    <2> HIDE DEF F
    <2> QED BY <1>2
  <1>4. \A i \in 0..136 : f[i] = Body(f, i)
    <2> HIDE DEF f, Body
    <2> QED BY <1>0, <1>3
  <1> HIDE DEF f
  <1> DEFINE S == {i \in 0..136 : f[i] = FirstDay(i)}
  <1>5. 0 \in S
    <2>1. f[0] = Body(f, 0) /\ Body(f, 0) = 0
      BY <1>4
    <2> HIDE DEF Body
    <2> QED BY <2>1, FirstDays
  <1>6. ASSUME NEW i \in 1..136, i - 1 \in S PROVE i \in S
    <2>1. f[i] = Body(f, i)
      BY <1>4
    <2>2. Body(f, i) = f[i - 1] + (IF Wall!LEAP_YEAR(i - 1) THEN 366 ELSE 365)
      OBVIOUS
    <2>3. i - 1 \in 0..136 /\ f[i - 1] = FirstDay(i - 1)
      BY <1>6
    <2>4. (IF Wall!LEAP_YEAR(i - 1) THEN 366 ELSE 365) = Length(i - 1)
      BY <2>3, LengthIs
    <2> HIDE DEF Body
    <2>5. f[i] = FirstDay(i - 1) + Length(i - 1)
      BY <2>1, <2>2, <2>3, <2>4, Zenon
    <2>6. f[i] = FirstDay(i)
      BY <2>5, FirstDays
    <2> QED
      BY <2>6
  <1>7. y \in S
    <2> HIDE DEF S
    <2> QED BY <1>5, <1>6, UpTo
  <1> QED
    BY <1>1, <1>7

LEMMA MonthLengths ==
    /\ Wall!monthDays[1] = 31 /\ Wall!monthDays[2] = 28 /\ Wall!monthDays[3] = 31
    /\ Wall!monthDays[4] = 30 /\ Wall!monthDays[5] = 31 /\ Wall!monthDays[6] = 30
    /\ Wall!monthDays[7] = 31 /\ Wall!monthDays[8] = 31 /\ Wall!monthDays[9] = 30
    /\ Wall!monthDays[10] = 31 /\ Wall!monthDays[11] = 30 /\ Wall!monthDays[12] = 31
  BY DEF Wall!monthDays

LEMMA MonthStarts ==
    \A m \in 2..13 : MonthStart(m) = MonthStart(m - 1) + Wall!monthDays[m - 1]
  <1>1. SUFFICES ASSUME NEW m \in 2..13
                 PROVE  MonthStart(m) = MonthStart(m - 1) + Wall!monthDays[m - 1]
    OBVIOUS
  <1>2. m = 2 \/ m = 3 \/ m = 4 \/ m = 5 \/ m = 6 \/ m = 7 \/ m = 8 \/ m = 9 \/ m = 10
        \/ m = 11 \/ m = 12 \/ m = 13
    OBVIOUS
  <1> QED
    BY <1>2, MonthLengths DEF MonthStart

LEMMA MonthStartType == ASSUME NEW m \in 1..13 PROVE MonthStart(m) \in Nat
  <1>1. m = 1 \/ m = 2 \/ m = 3 \/ m = 4 \/ m = 5 \/ m = 6 \/ m = 7 \/ m = 8 \/ m = 9 \/ m = 10
        \/ m = 11 \/ m = 12 \/ m = 13
    OBVIOUS
  <1> QED
    BY <1>1 DEF MonthStart

\* The days before a month of a year that is no leap year.
LEMMA DaysBeforeMonthIs == ASSUME NEW m \in 1..13 PROVE Wall!DaysBeforeMonth[m] = MonthStart(m)
  <1> DEFINE Body(f, i) == IF i = 1 THEN 0 ELSE f[i - 1] + Wall!monthDays[i - 1]
             F(f) == f = [i \in 1..13 |-> Body(f, i)]
             f == CHOOSE h : F(h)
             g == [i \in 1..13 |-> MonthStart(i)]
  <1>1. ASSUME NEW i \in 1..13 PROVE Wall!DaysBeforeMonth[i] = f[i]
    BY DEF Wall!DaysBeforeMonth
  <1>0. MonthStart(1) = 0
    BY DEF MonthStart
  <1>2. F(g)
    <2>1. ASSUME NEW i \in 1..13 PROVE g[i] = Body(g, i)
      <3>1. CASE i = 1
        BY <3>1, <1>0
      <3>2. CASE i # 1
        <4>1. i - 1 \in 1..13 /\ i \in 2..13
          BY <3>2
        <4>2. g[i] = MonthStart(i) /\ g[i - 1] = MonthStart(i - 1)
          BY <4>1
        <4> HIDE DEF g
        <4> QED
          BY <3>2, <4>1, <4>2, MonthStarts
      <3> QED
        BY <3>1, <3>2
    <2>2. g = [i \in 1..13 |-> g[i]]
      OBVIOUS
    <2> HIDE DEF g, Body
    <2> QED
      BY <2>1, <2>2
  <1>3. F(f)
    <2> HIDE DEF F
    <2> QED BY <1>2
  <1>4. \A i \in 1..13 : f[i] = Body(f, i)
    <2> HIDE DEF f, Body
    <2> QED BY <1>3
  <1> HIDE DEF f
  <1> DEFINE S == {i \in 0..12 : f[i + 1] = MonthStart(i + 1)}
  <1>5. 0 \in S
    BY <1>0, <1>4
  <1>6. ASSUME NEW i \in 1..12, i - 1 \in S PROVE i \in S
    <2>1. f[i] = MonthStart(i)
      BY <1>6
    <2>2. i + 1 \in 2..13 /\ i + 1 \in 1..13 /\ i + 1 # 1 /\ (i + 1) - 1 = i
      OBVIOUS
    <2>3. f[i + 1] = f[i] + Wall!monthDays[i]
      BY <1>4, <2>2
    <2>4. MonthStart(i + 1) = MonthStart(i) + Wall!monthDays[i]
      BY <2>2, MonthStarts
    <2> QED
      BY <2>1, <2>3, <2>4
  <1>7. m - 1 \in S
    <2> HIDE DEF S
    <2> QED BY <1>5, <1>6, UpTo
  <1> QED
    BY <1>1, <1>7

---------------------------------------------------------------------------
(* A date: l is 1 in a leap year.                                          *)
Extra(y) == IF Leap(y) THEN 1 ELSE 0

MonthFrom(m, l) == MonthStart(m) + IF m > 2 THEN l ELSE 0

LEMMA MonthIs == ASSUME NEW m \in 1..12 PROVE
    m = 1 \/ m = 2 \/ m = 3 \/ m = 4 \/ m = 5 \/ m = 6 \/ m = 7 \/ m = 8 \/ m = 9 \/ m = 10
    \/ m = 11 \/ m = 12
  OBVIOUS

LEMMA ExtraType == ASSUME NEW y PROVE Extra(y) \in {0, 1}
  BY DEF Extra

LEMMA MonthsFrom ==
    ASSUME NEW l \in {0, 1}, NEW m \in 1..12
    PROVE  /\ MonthFrom(m, l) \in Nat /\ MonthFrom(1, l) = 0 /\ MonthFrom(13, l) = 365 + l
           /\ MonthFrom(m + 1, l) = MonthFrom(m, l) + Wall!monthDays[m] + IF m = 2 THEN l ELSE 0
  BY MonthIs, MonthLengths DEF MonthFrom, MonthStart

LEMMA FirstDayType == ASSUME NEW y \in Nat, y <= 136 PROVE FirstDay(y) \in Nat
  BY FirstDays

LEMMA YearsFrom ==
    ASSUME NEW y \in Nat, y <= 135
    PROVE  FirstDay(y + 1) = FirstDay(y) + 365 + Extra(y)
  <1>1. y + 1 \in 1..136 /\ (y + 1) - 1 = y
    OBVIOUS
  <1>2. FirstDay(y + 1) = FirstDay(y) + Length(y)
    BY <1>1, FirstDays
  <1>3. Length(y) = 365 + Extra(y)
    BY DEF Length, Extra
  <1>4. FirstDay(y) \in Nat
    BY FirstDays
  <1> QED
    BY <1>2, <1>3, <1>4, ExtraType

LEMMA DaysToMonthIs ==
    ASSUME NEW y \in 0..135, NEW m \in 1..12
    PROVE  /\ Wall!DaysToMonth(y, m) = MonthFrom(m, Extra(y))
           /\ Wall!DaysToMonth(y, m) + Wall!MonthLength(y, m) = MonthFrom(m + 1, Extra(y))
           /\ Wall!MonthLength(y, m) \in 28..31
  <1>1. Wall!LEAP_YEAR(y) <=> Leap(y)
    BY LeapIs
  <1>2. (IF m > 2 /\ Wall!LEAP_YEAR(y) THEN 1 ELSE 0) = (IF m > 2 THEN Extra(y) ELSE 0)
    BY <1>1 DEF Extra
  <1>3. Wall!DaysToMonth(y, m) = MonthFrom(m, Extra(y))
    <2>1. Wall!DaysBeforeMonth[m] = MonthStart(m)
      BY DaysBeforeMonthIs
    <2> QED
      BY <1>2, <2>1, Zenon DEF Wall!DaysToMonth, Wall!DaysTo, MonthFrom
  <1>4. Wall!MonthLength(y, m) = Wall!monthDays[m] + IF m = 2 THEN Extra(y) ELSE 0
    <2>1. CASE m = 2 /\ Leap(y)
      BY <1>1, <2>1, MonthLengths DEF Wall!MonthLength, Extra
    <2>2. CASE ~(m = 2 /\ Leap(y))
      <3>1. Wall!MonthLength(y, m) = Wall!monthDays[m]
        BY <1>1, <2>2 DEF Wall!MonthLength
      <3>2. Wall!monthDays[m] \in Nat
        BY MonthIs, MonthLengths
      <3>3. (IF m = 2 THEN Extra(y) ELSE 0) = 0
        BY <2>2 DEF Extra
      <3> QED
        BY <3>1, <3>2, <3>3
    <2> QED
      BY <2>1, <2>2
  <1>5. Wall!monthDays[m] \in 28..31 /\ (m = 2 => Wall!monthDays[m] = 28)
    BY MonthIs, MonthLengths
  <1> QED
    BY <1>3, <1>4, <1>5, ExtraType, MonthsFrom

LEMMA YearHas ==
    ASSUME NEW days \in Nat, days < FirstDay(136)
    PROVE  \E y \in 0..135 : FirstDay(y) <= days /\ days < FirstDay(y + 1)
  <1> DEFINE T == {y \in 0..136 : days < FirstDay(y)}
  <1>1. 136 \in T
    OBVIOUS
  <1>2. T \in SUBSET Nat
    OBVIOUS
  <1>3. PICK z \in T : \A k \in T : z <= k
    <2> HIDE DEF T
    <2> QED
      BY <1>1, <1>2, SmallestIn
  <1>4. z # 0
    BY FirstDays
  <1>5. z - 1 \in 0..135 /\ z - 1 \notin T
    BY <1>3, <1>4
  <1>6. FirstDay(z - 1) \in Nat /\ FirstDay(z) \in Nat
    BY <1>5, FirstDays
  <1>7. FirstDay(z - 1) <= days /\ days < FirstDay((z - 1) + 1)
    BY <1>5, <1>6
  <1> QED
    BY <1>5, <1>7

LEMMA MonthHas ==
    ASSUME NEW l \in {0, 1}, NEW left \in Nat, left < 365 + l
    PROVE  \E m \in 1..12 : MonthFrom(m, l) <= left /\ left < MonthFrom(m + 1, l)
  <1> DEFINE T == {m \in 1..13 : left < MonthFrom(m, l)}
  <1>1. 13 \in T
    BY MonthsFrom
  <1>2. T \in SUBSET Nat
    OBVIOUS
  <1>3. PICK z \in T : \A k \in T : z <= k
    <2> HIDE DEF T
    <2> QED
      BY <1>1, <1>2, SmallestIn
  <1>4. z # 1
    BY MonthsFrom
  <1>5. z - 1 \in 1..12 /\ z - 1 \notin T
    BY <1>3, <1>4
  <1>6. MonthFrom(z - 1, l) \in Nat
    BY <1>5, MonthsFrom
  <1>7. MonthFrom(z - 1, l) <= left /\ left < MonthFrom((z - 1) + 1, l)
    BY <1>5, <1>6
  <1> QED
    BY <1>5, <1>7

\* Each day is in one year.
LEMMA YearsInOrder ==
    ASSUME NEW y \in Nat, NEW z \in Nat, y <= z, z <= 136
    PROVE  FirstDay(y) <= FirstDay(z)
  BY DEF FirstDay

LEMMA OneYear ==
    ASSUME NEW d \in Nat, NEW y \in Nat, y <= 135, NEW z \in Nat, z <= 135,
           FirstDay(y) <= d, d < FirstDay(y + 1), FirstDay(z) <= d, d < FirstDay(z + 1)
    PROVE  y = z
  <1>1. \A i \in 0..136 : FirstDay(i) \in Nat
    BY FirstDays
  <1>2. CASE y < z
    <2>1. FirstDay(y + 1) <= FirstDay(z)
      BY <1>2, YearsInOrder
    <2> QED
      BY <1>1, <2>1
  <1>3. CASE z < y
    <2>1. FirstDay(z + 1) <= FirstDay(y)
      BY <1>3, YearsInOrder
    <2> QED
      BY <1>1, <2>1
  <1> QED
    BY <1>2, <1>3

\* The elements of a time of the day d.
IsDate(d, e) ==
    /\ e.Year \in 0..135 /\ e.Month \in 1..12 /\ e.Day \in Nat /\ 1 <= e.Day
    /\ FirstDay(e.Year) + MonthFrom(e.Month, Extra(e.Year)) + e.Day - 1 = d
    /\ MonthFrom(e.Month, Extra(e.Year)) + e.Day - 1 < MonthFrom(e.Month + 1, Extra(e.Year))

IsTime(t, e) ==
    /\ e.Second = t % 60 /\ e.Minute = (t \div 60) % 60 /\ e.Hour = (t \div 3600) % 24
    /\ e.Wday = ((((t \div 86400) + 4) % 7) + 1)

Ends == FirstDay(136) * 86400

LEMMA BreakTimeIs ==
    ASSUME NEW t \in Nat, t < Ends
    PROVE  /\ IsDate(t \div 86400, Wall!breakTime(t)) /\ IsTime(t, Wall!breakTime(t))
           /\ t \div 86400 \in Nat
           /\ FirstDay(Wall!breakTime(t).Year) <= t \div 86400
           /\ t \div 86400 < FirstDay(Wall!breakTime(t).Year + 1)
  <1> DEFINE days == t \div 86400
             year == CHOOSE y \in 0..135 : FirstDay(y) <= days /\ days < FirstDay(y + 1)
             left == days - FirstDay(year)
             month == CHOOSE m \in 1..12 :
                          /\ MonthFrom(m, Extra(year)) <= left
                          /\ left < MonthFrom(m + 1, Extra(year))
             wyear == CHOOSE y \in 0..Wall!LastYear :
                          Wall!DaysBefore[y] <= days /\ days < Wall!DaysBefore[y + 1]
             wleft == days - Wall!DaysBefore[wyear]
             wmonth == CHOOSE m \in 1..12 :
                          /\ Wall!DaysToMonth(wyear, m) <= wleft
                          /\ wleft < Wall!DaysToMonth(wyear, m) + Wall!MonthLength(wyear, m)
             e == [Second |-> t % 60, Minute |-> (t \div 60) % 60, Hour |-> (t \div 3600) % 24,
                   Wday |-> ((days + 4) % 7) + 1,
                   Day |-> wleft - Wall!DaysToMonth(wyear, wmonth) + 1,
                   Month |-> wmonth, Year |-> wyear]
  <1>1. Wall!breakTime(t) = e
    BY DEF Wall!breakTime, Wall!SECS_PER_DAY
  <1>2. days \in Nat /\ days < FirstDay(136)
    BY FirstDays DEF Ends
  <1> HIDE DEF days
  <1>3. /\ wyear \in 0..135
        /\ FirstDay(wyear) <= days /\ days < FirstDay(wyear + 1)
    <2>1. \A y \in 0..136 : Wall!DaysBefore[y] = FirstDay(y)
      BY DaysBeforeIs
    <2>2. PICK y \in 0..135 : FirstDay(y) <= days /\ days < FirstDay(y + 1)
      BY <1>2, YearHas
    <2>3. Wall!LastYear = 135
      BY DEF Wall!LastYear
    <2>4. y \in 0..Wall!LastYear /\ Wall!DaysBefore[y] <= days /\ days < Wall!DaysBefore[y + 1]
      <3>1. y \in 0..136 /\ y + 1 \in 0..136
        OBVIOUS
      <3> QED
        BY <2>1, <2>2, <2>3, <3>1
    <2>5. wyear \in 0..Wall!LastYear /\ Wall!DaysBefore[wyear] <= days
          /\ days < Wall!DaysBefore[wyear + 1]
      BY <2>4
    <2> HIDE DEF wyear
    <2>6. wyear \in 0..136 /\ wyear + 1 \in 0..136
      BY <2>3, <2>5
    <2> QED
      BY <2>1, <2>3, <2>5, <2>6
  <1>4. wleft = days - FirstDay(wyear) /\ wleft \in Nat /\ wleft < 365 + Extra(wyear)
    <2> HIDE DEF wyear
    <2>1. wyear \in 0..136 /\ FirstDay(wyear) \in Nat
      BY <1>3, FirstDays
    <2>2. Wall!DaysBefore[wyear] = FirstDay(wyear)
      BY <2>1, DaysBeforeIs
    <2>3. FirstDay(wyear + 1) = FirstDay(wyear) + 365 + Extra(wyear)
      BY <1>3, YearsFrom
    <2>4. Extra(wyear) \in {0, 1}
      BY ExtraType
    <2> QED
      BY <1>2, <1>3, <2>1, <2>2, <2>3, <2>4
  <1>5. /\ wmonth \in 1..12
        /\ MonthFrom(wmonth, Extra(wyear)) <= wleft
        /\ wleft < MonthFrom(wmonth + 1, Extra(wyear))
        /\ Wall!DaysToMonth(wyear, wmonth) = MonthFrom(wmonth, Extra(wyear))
    <2> HIDE DEF wyear, wleft
    <2>1. \A m \in 1..12 :
              /\ Wall!DaysToMonth(wyear, m) = MonthFrom(m, Extra(wyear))
              /\ Wall!DaysToMonth(wyear, m) + Wall!MonthLength(wyear, m)
                    = MonthFrom(m + 1, Extra(wyear))
      BY <1>3, DaysToMonthIs
    <2>2. PICK m \in 1..12 : MonthFrom(m, Extra(wyear)) <= wleft
                             /\ wleft < MonthFrom(m + 1, Extra(wyear))
      BY <1>4, MonthHas, ExtraType
    <2>3. /\ Wall!DaysToMonth(wyear, m) <= wleft
          /\ wleft < Wall!DaysToMonth(wyear, m) + Wall!MonthLength(wyear, m)
      BY <2>1, <2>2
    <2>4. /\ wmonth \in 1..12 /\ Wall!DaysToMonth(wyear, wmonth) <= wleft
          /\ wleft < Wall!DaysToMonth(wyear, wmonth) + Wall!MonthLength(wyear, wmonth)
      BY <2>3
    <2> HIDE DEF wmonth
    <2> QED
      BY <2>1, <2>4
  <1>6. /\ e.Year = wyear /\ e.Month = wmonth /\ e.Day = wleft - Wall!DaysToMonth(wyear, wmonth) + 1
        /\ IsTime(t, e)
    BY DEF IsTime, days
  <1> HIDE DEF e, wyear, wleft, wmonth
  <1>7. MonthFrom(wmonth, Extra(wyear)) \in Nat
    BY <1>5, MonthsFrom, ExtraType
  <1>8. FirstDay(wyear) \in Nat
    BY <1>3, FirstDays
  <1>9. /\ e.Day \in Nat /\ 1 <= e.Day
        /\ FirstDay(wyear) + MonthFrom(wmonth, Extra(wyear)) + e.Day - 1 = days
        /\ MonthFrom(wmonth, Extra(wyear)) + e.Day - 1 < MonthFrom(wmonth + 1, Extra(wyear))
    BY <1>2, <1>4, <1>5, <1>6, <1>7, <1>8
  <1>10. IsDate(days, e)
    BY <1>3, <1>5, <1>6, <1>9 DEF IsDate
  <1> QED
    BY <1>1, <1>2, <1>3, <1>6, <1>10 DEF days

\* The days since 1970, of an era that begins in March.
MarchFirst(y) ==
    LET era == y \div 400  yoe == y - era * 400
    IN era * 146097 + yoe * 365 + (yoe \div 4) - (yoe \div 100) - 719468

LEMMA MarchFirstIs ==
    ASSUME NEW y \in Int, -2 <= y, y <= 136
    PROVE  /\ MarchFirst(1970 + y) = FirstDay(y) + 59 + Extra(y)
           /\ MarchFirst(1970 + y - 1) = FirstDay(y) - 306
           /\ FirstDay(y) \in Int /\ MarchFirst(1970 + y) \in Int /\ MarchFirst(1970 + y - 1) \in Int
  <1>0. FirstDay(y) \in Int
    BY DEF FirstDay
  <1>1. CASE y < 30
    <2>1. (1970 + y) \div 400 = 4 /\ (1970 + y - 1) \div 400 = 4
      BY <1>1
    <2>2. (370 + y) \div 100 = 3 /\ (370 + y - 1) \div 100 = 3
      BY <1>1
    <2>3. (370 + y) \div 4 = 92 + ((y + 2) \div 4) /\ (370 + y - 1) \div 4 = 92 + ((y + 1) \div 4)
      OBVIOUS
    <2>4. (y + 2) \div 4 = ((y + 1) \div 4) + IF y % 4 = 2 THEN 1 ELSE 0
      OBVIOUS
    <2>5. MarchFirst(1970 + y) = 4 * 146097 + (370 + y) * 365 + 92 + ((y + 2) \div 4) - 3 - 719468
      BY <2>1, <2>2, <2>3 DEF MarchFirst
    <2>6. MarchFirst(1970 + y - 1)
             = 4 * 146097 + (369 + y) * 365 + 92 + ((y + 1) \div 4) - 3 - 719468
      BY <2>1, <2>2, <2>3 DEF MarchFirst
    <2> QED
      BY <1>0, <1>1, <2>4, <2>5, <2>6 DEF FirstDay, Extra, Leap
  <1>2. CASE y = 30
    BY <1>0, <1>2 DEF MarchFirst, FirstDay, Extra, Leap
  <1>3. CASE y > 30 /\ y < 130
    <2>1. (1970 + y) \div 400 = 5 /\ (1970 + y - 1) \div 400 = 5
      BY <1>3
    <2>2. (y - 30) \div 100 = 0 /\ (y - 31) \div 100 = 0
      BY <1>3
    <2>3. (y - 30) \div 4 = ((y + 2) \div 4) - 8 /\ (y - 31) \div 4 = ((y + 1) \div 4) - 8
      OBVIOUS
    <2>4. (y + 2) \div 4 = ((y + 1) \div 4) + IF y % 4 = 2 THEN 1 ELSE 0
      OBVIOUS
    <2>5. MarchFirst(1970 + y) = 5 * 146097 + (y - 30) * 365 + ((y + 2) \div 4) - 8 - 719468
      BY <2>1, <2>2, <2>3 DEF MarchFirst
    <2>6. MarchFirst(1970 + y - 1) = 5 * 146097 + (y - 31) * 365 + ((y + 1) \div 4) - 8 - 719468
      BY <2>1, <2>2, <2>3 DEF MarchFirst
    <2> QED
      BY <1>0, <1>3, <2>4, <2>5, <2>6 DEF FirstDay, Extra, Leap
  <1>4. CASE y = 130
    BY <1>0, <1>4 DEF MarchFirst, FirstDay, Extra, Leap
  <1>5. CASE y > 130
    <2>1. y = 131 \/ y = 132 \/ y = 133 \/ y = 134 \/ y = 135 \/ y = 136
      BY <1>5
    <2> QED
      BY <1>0, <2>1 DEF MarchFirst, FirstDay, Extra, Leap
  <1> QED
    BY <1>1, <1>2, <1>3, <1>4, <1>5

LEMMA DayNumberIs ==
    ASSUME NEW y \in Int, -2 <= y, y <= 136, NEW m \in Nat, 1 <= m, m <= 12, NEW d \in Int
    PROVE  Wall!DayNumber(1970 + y, m, d) = FirstDay(y) + MonthFrom(m, Extra(y)) + d - 1
  <1>1. CASE m <= 2
    <2>1. Wall!DayNumber(1970 + y, m, d)
             = MarchFirst(1970 + y - 1) + (((153 * (m + 9) + 2) \div 5) + d - 1)
      <3>1. 1970 + y \in Int /\ (1970 + y - 1) \div 400 \in Int
        OBVIOUS
      <3>2. ~(m > 2)
        BY <1>1
      <3> QED
        BY <1>1, <3>1, <3>2 DEF Wall!DayNumber, MarchFirst
    <2>2. (153 * (m + 9) + 2) \div 5 = 306 + MonthFrom(m, Extra(y))
      <3>1. m = 1 \/ m = 2
        BY <1>1
      <3> QED
        BY <3>1 DEF MonthFrom, MonthStart
    <2>3. MonthFrom(m, Extra(y)) \in Nat
      BY MonthsFrom, ExtraType
    <2> QED
      BY <2>1, <2>2, <2>3, MarchFirstIs
  <1>2. CASE m > 2
    <2>1. Wall!DayNumber(1970 + y, m, d)
             = MarchFirst(1970 + y) + (((153 * (m - 3) + 2) \div 5) + d - 1)
      <3>1. 1970 + y \in Int /\ (1970 + y) \div 400 \in Int
        OBVIOUS
      <3>2. ~(m <= 2)
        BY <1>2
      <3> QED
        BY <1>2, <3>1, <3>2 DEF Wall!DayNumber, MarchFirst
    <2>2. (153 * (m - 3) + 2) \div 5 = MonthStart(m) - 59 /\ MonthStart(m) \in Nat
      <3>1. m = 3 \/ m = 4 \/ m = 5 \/ m = 6 \/ m = 7 \/ m = 8 \/ m = 9 \/ m = 10 \/ m = 11
            \/ m = 12
        BY <1>2
      <3> QED
        BY <3>1 DEF MonthStart
    <2>3. MonthFrom(m, Extra(y)) = MonthStart(m) + Extra(y)
      BY <1>2 DEF MonthFrom
    <2>4. Extra(y) \in {0, 1}
      BY ExtraType
    <2> QED
      BY <2>1, <2>2, <2>3, <2>4, MarchFirstIs
  <1> QED
    BY <1>1, <1>2

\* The seconds of a day.
LEMMA SecondsOfDay ==
    ASSUME NEW t \in Nat
    PROVE  /\ t = (t \div 86400) * 86400 + (t % 86400)
           /\ ((t \div 3600) % 24) * 3600 + ((t \div 60) % 60) * 60 + (t % 60) = t % 86400
  OBVIOUS

\* What breakTime makes of a time is its date, and makeTime takes it back.
LEMMA DateIs ==
    ASSUME NEW t \in Nat, t < Ends
    PROVE  LET e == Wall!breakTime(t) IN
           /\ e.Month \in 1..12 /\ e.Day \in 1..Wall!MonthLength(e.Year, e.Month)
           /\ Wall!DayNumber(1970 + e.Year, e.Month, e.Day) = t \div Wall!SECS_PER_DAY
           /\ e.Hour * 3600 + e.Minute * 60 + e.Second = t % Wall!SECS_PER_DAY
           /\ Wall!makeTime(e) = t
  <1> DEFINE e == Wall!breakTime(t)
             l == Extra(e.Year)
  <1>1. IsDate(t \div 86400, e) /\ IsTime(t, e) /\ t \div 86400 \in Nat
    BY BreakTimeIs
  <1> HIDE DEF e
  <1>2. /\ e.Year \in 0..135 /\ e.Month \in 1..12 /\ e.Day \in Nat /\ 1 <= e.Day
        /\ FirstDay(e.Year) + MonthFrom(e.Month, l) + e.Day - 1 = t \div 86400
        /\ MonthFrom(e.Month, l) + e.Day - 1 < MonthFrom(e.Month + 1, l)
    BY <1>1 DEF IsDate
  <1>3. /\ Wall!DaysToMonth(e.Year, e.Month) = MonthFrom(e.Month, l)
        /\ Wall!DaysToMonth(e.Year, e.Month) + Wall!MonthLength(e.Year, e.Month)
              = MonthFrom(e.Month + 1, l)
        /\ Wall!MonthLength(e.Year, e.Month) \in 28..31
    BY <1>2, DaysToMonthIs
  <1>4. l \in {0, 1} /\ MonthFrom(e.Month, l) \in Nat /\ FirstDay(e.Year) \in Nat
        /\ Wall!DaysBefore[e.Year] = FirstDay(e.Year)
    BY <1>2, ExtraType, MonthsFrom, FirstDays, DaysBeforeIs
  <1>5. Wall!DayNumber(1970 + e.Year, e.Month, e.Day) = t \div 86400
    <2>1. Wall!DayNumber(1970 + e.Year, e.Month, e.Day)
             = FirstDay(e.Year) + MonthFrom(e.Month, l) + e.Day - 1
      <3>1. /\ e.Year \in Int /\ -2 <= e.Year /\ e.Year <= 136 /\ e.Month \in Nat /\ 1 <= e.Month /\ e.Month <= 12
            /\ e.Day \in Int
        BY <1>2
      <3> QED
        BY <3>1, DayNumberIs
    <2> QED
      BY <1>2, <2>1
  <1>6. e.Hour * 3600 + e.Minute * 60 + e.Second = t % 86400
    BY <1>1, SecondsOfDay DEF IsTime
  <1>7. e.Hour \in Int /\ e.Minute \in Int /\ e.Second \in Int
    BY <1>1 DEF IsTime
  <1>8. Wall!makeTime(e) = t
    <2> DEFINE d == FirstDay(e.Year) + MonthFrom(e.Month, l) + e.Day - 1
    <2>1. Wall!makeTime(e)
             = (Wall!DaysBefore[e.Year] + Wall!DaysToMonth(e.Year, e.Month) + e.Day - 1) * 86400
               + e.Hour * 3600 + e.Minute * 60 + e.Second
      BY DEF Wall!makeTime, Wall!SECS_PER_DAY, Wall!SECS_PER_HOUR, Wall!SECS_PER_MIN
    <2>2. Wall!DaysBefore[e.Year] + Wall!DaysToMonth(e.Year, e.Month) + e.Day - 1 = d
      BY <1>3, <1>4
    <2> HIDE DEF d
    <2>3. Wall!makeTime(e) = d * 86400 + e.Hour * 3600 + e.Minute * 60 + e.Second
      BY <2>1, <2>2
    <2>4. d = t \div 86400
      BY <1>2 DEF d
    <2>5. (t \div 86400) * 86400 + (t % 86400) = t /\ t \div 86400 \in Int
      BY SecondsOfDay
    <2>6. PICK q \in Int, r \in Int : q = t \div 86400 /\ r = t % 86400
      BY <2>5
    <2>7. q * 86400 + r = t /\ d = q
      BY <2>4, <2>5, <2>6
    <2>8. PICK h \in Int, n \in Int, s \in Int : h = e.Hour /\ n = e.Minute /\ s = e.Second
      BY <1>7
    <2>9. h * 3600 + n * 60 + s = r
      BY <1>6, <2>6, <2>8
    <2>10. Wall!makeTime(e) = q * 86400 + h * 3600 + n * 60 + s
      BY <2>3, <2>7, <2>8
    <2>11. q * 86400 + h * 3600 + n * 60 + s = t
      BY <2>7, <2>9
    <2> QED
      BY <2>10, <2>11
  <1>9. e.Day \in 1..Wall!MonthLength(e.Year, e.Month)
    BY <1>2, <1>3, <1>4
  <1> QED
    BY <1>2, <1>5, <1>6, <1>8, <1>9 DEF e, Wall!SECS_PER_DAY

---------------------------------------------------------------------------
(* The cached date.                                                        *)
Cached == cacheTime # 0 => cacheTime \in Nat /\ cacheTime < Ends /\ tm = Wall!breakTime(cacheTime)

DateInv ==
    /\ ClockInv /\ Cached
    /\ nextSyncTime \in Nat /\ Status \in {"timeNotSet", "timeNeedsSync", "timeSet"}

\* The time, and local time, are of a year before 2106, the last in which the
\* seconds do not fit their word.
Until2106 ==
    rtc.time + Wall!SECS_PER_HOUR < Wall!DaysBefore[Wall!LastYear + 1] * Wall!SECS_PER_DAY

LEMMA EndsType == Ends \in Nat
  <1>1. FirstDay(136) \in Nat
    BY FirstDays
  <1> QED
    BY <1>1 DEF Ends

LEMMA UntilEnds == Until2106 <=> rtc.time + 3600 < Ends
  <1>1. Wall!LastYear + 1 = 136 /\ 136 \in 0..136
    BY DEF Wall!LastYear
  <1>2. Wall!DaysBefore[136] = FirstDay(136)
    BY <1>1, DaysBeforeIs
  <1>3. FirstDay(136) \in Nat
    BY FirstDays
  <1> QED
    BY <1>1, <1>2, <1>3 DEF Until2106, Ends, Wall!SECS_PER_HOUR, Wall!SECS_PER_DAY

LEMMA DatesOfInv == DateInv => Wall!CacheIsDate
  <1> SUFFICES ASSUME DateInv PROVE Wall!CacheIsDate
    OBVIOUS
  <1>1. Wall!TypeOK
    BY DEF DateInv, ClockInv, ClockType, Wall!TypeOK
  <1>2. ASSUME cacheTime # 0
        PROVE  /\ tm.Month \in 1..12 /\ tm.Day \in 1..Wall!MonthLength(tm.Year, tm.Month)
               /\ Wall!DayNumber(1970 + tm.Year, tm.Month, tm.Day)
                     = cacheTime \div Wall!SECS_PER_DAY
               /\ tm.Hour * 3600 + tm.Minute * 60 + tm.Second = cacheTime % Wall!SECS_PER_DAY
               /\ Wall!makeTime(tm) = cacheTime
    <2>1. cacheTime \in Nat /\ cacheTime < Ends /\ tm = Wall!breakTime(cacheTime)
      BY <1>2 DEF DateInv, Cached
    <2> QED
      BY <2>1, DateIs
  <1> QED
    BY <1>1, <1>2 DEF Wall!CacheIsDate

LEMMA Refreshed ==
    ASSUME Cached, NEW t \in Nat, t < Ends, Wall!refreshCache(t)
    PROVE  Cached'
  <1>1. CASE t = cacheTime
    BY <1>1 DEF Wall!refreshCache, Cached
  <1>2. CASE t # cacheTime
    BY <1>2 DEF Wall!refreshCache, Cached
  <1> QED
    BY <1>1, <1>2

LEMMA KeepTypes ==
    ASSUME DateInv, Wall!Keep(Wall!now), UNCHANGED <<rtc, wallMillis>>
    PROVE  /\ nextSyncTime' \in Nat /\ Status' \in {"timeNotSet", "timeNeedsSync", "timeSet"}
           /\ ClockInv' /\ sysTime' \in Nat /\ sysTime' <= rtc.time /\ rtc.time <= sysTime' + 1
  <1> DEFINE c == Wall!Counted(Wall!System)
             States == {"timeNotSet", "timeNeedsSync", "timeSet"}
  <1>1. ClockInv' /\ rtc'.time - sysTime' \in {0, 1}
    BY NowKeepsTime DEF DateInv
  <1>2. /\ c.next = nextSyncTime /\ c.status = Status
        /\ c.sys = sysTime + (Wall!Uncounted \div Second)
    BY DEF Wall!Counted, Wall!System, Wall!Uncounted
  <1>3. c.sys \in Nat
    <2>1. Wall!Uncounted \in Nat /\ Second \in Nat /\ 0 < Second
      BY WallMinusType, WallConstants DEF Wall!Uncounted, DateInv, ClockInv, ClockType
    <2>2. Wall!Uncounted \div Second \in Nat
      BY <2>1, Division
    <2> QED
      BY <1>2, <2>2 DEF DateInv, ClockInv, ClockType
  <1>4. \/ nextSyncTime' = c.next /\ Status' = c.status
        \/ nextSyncTime' = rtc.time + SyncInterval /\ Status' = "timeSet"
        \/ nextSyncTime' = c.sys + SyncInterval /\ Status' \in {c.status, "timeNeedsSync"}
    BY DEF Wall!Keep, Wall!now, Wall!Synced, Wall!setTime, Wall!Counted, Wall!System
  <1> HIDE DEF c
  <1>5. rtc.time \in Nat /\ SyncInterval \in Nat /\ nextSyncTime \in Nat /\ Status \in States
    BY WallAssumption DEF DateInv, ClockInv, ClockType
  <1>6. nextSyncTime' \in Nat
    BY <1>2, <1>3, <1>4, <1>5
  <1>7. Status' \in States
    BY <1>2, <1>4, <1>5
  <1>8. rtc' = rtc /\ sysTime' \in Nat
    BY <1>1 DEF ClockInv, ClockType
  <1> QED
    BY <1>1, <1>5, <1>6, <1>7, <1>8

LEMMA LocalIs ==
    ASSUME NEW z, NEW utc \in Nat
    PROVE  Wall!toLocal(z, utc) = utc \/ Wall!toLocal(z, utc) = utc + 3600
  BY DEF Wall!toLocal, Wall!Offset, Wall!BST, Wall!GMT, Wall!SECS_PER_MIN

LEMMA ShowHourDate == ASSUME DateInv, Until2106, Wall!ShowHour PROVE DateInv'
  <1>1. Wall!Keep(Wall!now) /\ UNCHANGED <<rtc, wallMillis>> /\ sysTime' = Wall!now.sys
    BY DEF Wall!ShowHour, Wall!Keep
  <1>2. PICK z : Wall!refreshCache(Wall!toLocal(z, Wall!now.sys))
    BY DEF Wall!ShowHour
  <1>3. sysTime' \in Nat /\ sysTime' <= rtc.time /\ rtc.time \in Nat
    BY <1>1, KeepTypes DEF DateInv, ClockInv, ClockType
  <1>4. PICK t : t = Wall!toLocal(z, Wall!now.sys)
    OBVIOUS
  <1>5. t = sysTime' \/ t = sysTime' + 3600
    BY <1>1, <1>3, <1>4, LocalIs
  <1>6. t \in Nat /\ t < Ends
    <2>1. Ends \in Nat /\ rtc.time + 3600 < Ends
      BY UntilEnds, EndsType
    <2>2. PICK s \in Nat, r \in Nat, n \in Nat : s = sysTime' /\ r = rtc.time /\ n = Ends
      BY <1>3, <2>1
    <2>3. t = s \/ t = s + 3600
      BY <1>5, <2>2
    <2>4. s <= r /\ r + 3600 < n
      BY <1>3, <2>1, <2>2
    <2>5. t \in Nat /\ t < n
      BY <2>3, <2>4
    <2> QED
      BY <2>2, <2>5
  <1>7. Cached'
    BY <1>2, <1>4, <1>6, Refreshed DEF DateInv
  <1> QED
    BY <1>1, <1>7, KeepTypes DEF DateInv

LEMMA ShowRestDate == ASSUME DateInv, Until2106, Wall!ShowRest PROVE DateInv'
  <1>1. /\ Wall!Keep(Wall!now) /\ UNCHANGED <<rtc, wallMillis>> /\ sysTime' = Wall!now.sys
        /\ Wall!refreshCache(Wall!now.sys)
    BY DEF Wall!ShowRest, Wall!Keep
  <1>2. sysTime' \in Nat /\ sysTime' <= rtc.time /\ rtc.time \in Nat
    BY <1>1, KeepTypes DEF DateInv, ClockInv, ClockType
  <1>3. PICK t : t = sysTime'
    OBVIOUS
  <1>4. t \in Nat /\ t < Ends /\ Wall!refreshCache(t)
    <2>1. Ends \in Nat /\ rtc.time + 3600 < Ends
      BY UntilEnds, EndsType
    <2> QED
      BY <1>1, <1>2, <1>3, <2>1
  <1>5. Cached'
    BY <1>4, Refreshed DEF DateInv
  <1> QED
    BY <1>1, <1>5, KeepTypes DEF DateInv

LEMMA OtherDates ==
    ASSUME DateInv, \/ Wall!PowerCycle \/ Wall!Tick \/ Wall!Pause \/ Wall!Shown \/ Wall!syncTime
    PROVE  DateInv'
  <1>1. ClockInv'
    <2>1. CASE Wall!Shown
      BY <2>1 DEF Wall!Shown, DateInv, ClockInv, ClockType, Missing, Wall!Uncounted
    <2> QED
      BY <2>1, PowerCycleClock, TickClock, PauseClock, SyncTimeClock DEF DateInv
  <1>2. Cached'
    <2>1. CASE Wall!PowerCycle
      BY <2>1 DEF Wall!PowerCycle, Cached
    <2>2. CASE UNCHANGED <<tm, cacheTime>>
      BY <2>2 DEF DateInv, Cached
    <2> QED
      BY <2>1, <2>2 DEF Wall!Tick, Wall!Pause, Wall!Shown, Wall!syncTime
  <1>3. SyncInterval \in Nat /\ rtc.time \in Nat
    BY WallAssumption DEF DateInv, ClockInv, ClockType
  <1>4. nextSyncTime' \in Nat /\ Status' \in {"timeNotSet", "timeNeedsSync", "timeSet"}
    <2>1. CASE Wall!PowerCycle
      <3>1. \/ nextSyncTime' = SyncInterval /\ Status' = "timeNotSet"
            \/ nextSyncTime' = rtc.time + SyncInterval /\ Status' = "timeSet"
        BY <2>1 DEF Wall!PowerCycle, Wall!Keep, Wall!setSyncProvider
      <3> QED
        BY <1>3, <3>1
    <2>2. CASE Wall!syncTime
      <3>1. PICK e \in ServerError : /\ rtc.time + e > 0
                                     /\ Wall!Keep(Wall!setTime(Wall!System, rtc.time + e))
        BY <2>2 DEF Wall!syncTime
      <3>2. e \in Int
        BY WallAssumption
      <3>3. nextSyncTime' = rtc.time + e + SyncInterval /\ Status' = "timeSet"
        BY <3>1 DEF Wall!Keep, Wall!setTime
      <3> QED
        BY <1>3, <3>1, <3>2, <3>3
    <2>3. CASE UNCHANGED <<nextSyncTime, Status>>
      BY <2>3 DEF DateInv
    <2> QED
      BY <2>1, <2>2, <2>3 DEF Wall!Tick, Wall!Pause, Wall!Shown
  <1> QED
    BY <1>1, <1>2, <1>4 DEF DateInv

LEMMA DateStep ==
    ASSUME DateInv, Until2106, [MillisNext]_<<user, vars, wallVars, netVars>>
    PROVE  DateInv'
  <1>1. CASE UNCHANGED wallVars
    BY <1>1 DEF wallVars, DateInv, Cached, ClockInv, ClockType, Missing, Wall!Uncounted
  <1>2. CASE Wall!Next
    BY <1>2, ShowHourDate, ShowRestDate, OtherDates DEF Wall!Next
  <1> QED
    BY <1>1, <1>2 DEF MillisNext

LEMMA DateStart == MillisInit => DateInv
  <1>1. ASSUME NEW begin, begin.at \in Nat, Wall!Begun(begin) PROVE DateInv
    <2>1. ClockInv
      BY <1>1, BegunClock
    <2>2. SyncInterval \in Nat
      BY WallAssumption
    <2>3. cacheTime = 0 /\ nextSyncTime = begin.at + SyncInterval /\ Status = "timeSet"
      BY <1>1 DEF Wall!Begun
    <2> QED
      BY <1>1, <2>1, <2>2, <2>3 DEF DateInv, Cached
  <1>2. ASSUME WallRests PROVE DateInv
    <2>1. [at |-> 0, steps |-> 0].at \in Nat
      OBVIOUS
    <2> QED
      BY <1>1, <1>2, <2>1 DEF WallRests
  <1>3. ASSUME Wall!Init PROVE DateInv
    BY <1>1, <1>3, WallConstants DEF Wall!Init
  <1> QED
    BY <1>2, <1>3 DEF MillisInit

---------------------------------------------------------------------------
(* The date of sntp.cpp: the days since 1900, n of them, by years of 365.25  *)
(* days in fixed point.                                                      *)
LEMMA SameCalendar ==
    /\ Net!DaysBeforeMonth = Wall!DaysBeforeMonth
    /\ \A y, m, d : Net!DayNumber(y, m, d) = Wall!DayNumber(y, m, d)
  <1>1. Net!DaysBeforeMonth = Wall!DaysBeforeMonth
    BY DEF Net!DaysBeforeMonth, Wall!DaysBeforeMonth, Net!monthDays, Wall!monthDays
  <1>2. ASSUME NEW y, NEW m, NEW d PROVE Net!DayNumber(y, m, d) = Wall!DayNumber(y, m, d)
    BY DEF Net!DayNumber, Wall!DayNumber
  <1> QED
    BY <1>1, <1>2

LEMMA FixedPoint ==
    ASSUME NEW n \in Nat, 24856 <= n, n <= 73108
    PROVE  LET q == (n * 256) \div 93504
               left == ((n * 256) % 93504) \div 256
           IN /\ q \in Nat /\ 68 <= q /\ q <= 200 /\ left \in Nat /\ left <= 365
              /\ left = n - 365 * q - ((q + 3) \div 4)
              /\ left = 365 => q % 4 = 0
              /\ q = 200 => left <= 58
  <1> DEFINE q == (n * 256) \div 93504
             rest == (n * 256) % 93504
             left == rest \div 256
  <1>1. n * 256 = 93504 * q + rest /\ q \in Int /\ rest \in Int /\ 0 <= rest /\ rest < 93504
    OBVIOUS
  <1>2. left \in Int /\ 256 * left <= rest /\ rest < 256 * left + 256
    BY <1>1
  <1> HIDE DEF q, rest, left
  <1>3. n - left = 365 * q + ((q + 3) \div 4)
    BY <1>1, <1>2
  <1>4. q \in Nat /\ 68 <= q /\ q <= 200
    BY <1>1
  <1>5. left \in Nat /\ left <= 365 /\ (left = 365 => q % 4 = 0) /\ (q = 200 => left <= 58)
    BY <1>1, <1>2, <1>3, <1>4
  <1> QED
    BY <1>3, <1>4, <1>5 DEF q, left, rest

LEMMA NetMonths ==
    ASSUME NEW leap \in BOOLEAN, NEW m \in 1..13
    PROVE  Net!DaysTo(m, leap) = MonthFrom(m, IF leap THEN 1 ELSE 0)
  <1>1. Net!DaysBeforeMonth[m] = MonthStart(m)
    BY SameCalendar, DaysBeforeMonthIs
  <1> QED
    BY <1>1 DEF Net!DaysTo, MonthFrom

LEMMA FixedPointMonth ==
    ASSUME NEW leap \in BOOLEAN, NEW left \in Nat, left < 365 + IF leap THEN 1 ELSE 0
    PROVE  \E m \in 1..12 : Net!DaysTo(m, leap) <= left /\ left < Net!DaysTo(m + 1, leap)
  <1>1. PICK l \in {0, 1} : l = IF leap THEN 1 ELSE 0
    OBVIOUS
  <1>2. PICK m \in 1..12 : MonthFrom(m, l) <= left /\ left < MonthFrom(m + 1, l)
    BY <1>1, MonthHas
  <1>3. Net!DaysTo(m, leap) = MonthFrom(m, l) /\ Net!DaysTo(m + 1, leap) = MonthFrom(m + 1, l)
    BY <1>1, NetMonths
  <1> QED
    BY <1>2, <1>3

LEMMA LateMonths ==
    ASSUME NEW m \in 1..12, m > 2 PROVE MonthStart(m) \in Nat /\ 59 <= MonthStart(m)
  <1>1. MonthStart(m) \in Nat
    BY MonthStartType
  <1>2. m = 3 \/ m = 4 \/ m = 5 \/ m = 6 \/ m = 7 \/ m = 8 \/ m = 9 \/ m = 10 \/ m = 11 \/ m = 12
    OBVIOUS
  <1>3. 59 <= MonthStart(m)
    BY <1>2 DEF MonthStart
  <1> QED
    BY <1>1, <1>3

\* A day of a month of the year y, in a year that may be taken for a leap year.
LEMMA DayOfMonth ==
    ASSUME NEW y \in Int, -2 <= y, y <= 130, NEW leap \in BOOLEAN, leap <=> y % 4 = 2,
           NEW left \in Nat, y = 130 => left <= 58,
           NEW m \in 1..12, Net!DaysTo(m, leap) <= left
    PROVE  Net!DayNumber(1970 + y, m, left - Net!DaysTo(m, leap) + 1) = FirstDay(y) + left
  <1>1. PICK l \in {0, 1} : l = IF leap THEN 1 ELSE 0
    OBVIOUS
  <1>2. PICK from \in Nat : from = MonthFrom(m, l) /\ from = Net!DaysTo(m, leap)
    BY <1>1, NetMonths, MonthsFrom
  <1>3. from = MonthFrom(m, Extra(y))
    <2>1. CASE y = 130
      <3>1. ~(m > 2)
        <4>1. SUFFICES ASSUME m > 2 PROVE FALSE
          OBVIOUS
        <4>2. MonthStart(m) \in Nat /\ 59 <= MonthStart(m)
          BY <4>1, LateMonths
        <4>3. from = MonthStart(m) + l
          BY <1>2, <4>1 DEF MonthFrom
        <4> QED
          BY <1>2, <2>1, <4>2, <4>3
      <3> QED
        BY <1>2, <3>1 DEF MonthFrom
    <2>2. CASE y # 130
      <3>1. l = Extra(y)
        BY <1>1, <2>2 DEF Leap, Extra
      <3> QED
        BY <1>2, <3>1
    <2> QED
      BY <2>1, <2>2
  <1>4. PICK d \in Int : d = left - from + 1
    OBVIOUS
  <1>5. Wall!DayNumber(1970 + y, m, d) = FirstDay(y) + MonthFrom(m, Extra(y)) + d - 1
    BY DayNumberIs
  <1>6. FirstDay(y) \in Int
    BY DEF FirstDay
  <1>7. FirstDay(y) + from + d - 1 = FirstDay(y) + left
    BY <1>4, <1>6
  <1>8. d = left - Net!DaysTo(m, leap) + 1
    BY <1>2, <1>4
  <1>9. Net!DayNumber(1970 + y, m, d) = Wall!DayNumber(1970 + y, m, d)
    BY SameCalendar
  <1> QED
    BY <1>3, <1>5, <1>7, <1>8, <1>9

\* The date of the n-th day of the century.
YearAt(n) == 1900 + ((n * 256) \div 93504)
LeftAt(n) == ((n * 256) % 93504) \div 256
LeapAt(n) == YearAt(n) % 4 = 0 /\ YearAt(n) # 1900
MonthAt(n) == CHOOSE m \in 1..12 : /\ Net!DaysTo(m, LeapAt(n)) <= LeftAt(n)
                                   /\ LeftAt(n) < Net!DaysTo(m + 1, LeapAt(n))
DayAt(n) == LeftAt(n) - Net!DaysTo(MonthAt(n), LeapAt(n)) + 1

SecondsLeft(day, clock) == IF Net!Overflowed(day, clock) THEN clock + 23296 ELSE clock
DayNo(day, clock) ==
    IF Net!Overflowed(day, clock) THEN day + 49710 + (SecondsLeft(day, clock) \div 86400) ELSE day
Elements(n, left) ==
    [year |-> YearAt(n), month |-> MonthAt(n), mday |-> DayAt(n),
     wday |-> n % 7, clock |-> left % 86400]

LEMMA BrokenAs ==
    ASSUME NEW day, NEW clock
    PROVE  Net!Broken(day, clock) = Elements(DayNo(day, clock) + 1, SecondsLeft(day, clock))
  BY DEF Net!Broken, Net!FIX_PT_DAYS_YEAR, Net!SECS_PER_DAY, Net!FirstDay, YearAt, LeftAt,
         LeapAt, MonthAt, DayAt, Elements, DayNo, SecondsLeft

LEMMA FixedPointDate ==
    ASSUME NEW n \in Nat, 24856 <= n, n <= 73108
    PROVE  Net!DayNumber(YearAt(n), MonthAt(n), DayAt(n)) = n - 25568
  <1> DEFINE q == (n * 256) \div 93504
             left == LeftAt(n)
             leap == LeapAt(n)
             month == MonthAt(n)
  <1>1. YearAt(n) = 1900 + q /\ DayAt(n) = left - Net!DaysTo(month, leap) + 1
    BY DEF YearAt, DayAt
  <1>2. /\ q \in Nat /\ 68 <= q /\ q <= 200 /\ left \in Nat /\ left <= 365
        /\ left = n - 365 * q - ((q + 3) \div 4)
        /\ left = 365 => q % 4 = 0
        /\ q = 200 => left <= 58
    BY FixedPoint DEF LeftAt
  <1> HIDE DEF q
  <1>3. leap \in BOOLEAN /\ (leap <=> q % 4 = 0)
    <2>1. leap \in BOOLEAN
      BY DEF LeapAt
    <2>2. leap <=> q % 4 = 0
      BY <1>1, <1>2 DEF LeapAt
    <2> QED
      BY <2>1, <2>2
  <1>4. month = CHOOSE m \in 1..12 : Net!DaysTo(m, leap) <= left /\ left < Net!DaysTo(m + 1, leap)
    BY DEF MonthAt
  <1> HIDE DEF left, leap, month
  <1>5. left < 365 + IF leap THEN 1 ELSE 0
    BY <1>2, <1>3
  <1>6. month \in 1..12 /\ Net!DaysTo(month, leap) <= left
    <2>1. \E m \in 1..12 : Net!DaysTo(m, leap) <= left /\ left < Net!DaysTo(m + 1, leap)
      BY <1>2, <1>3, <1>5, FixedPointMonth
    <2> QED
      BY <1>4, <2>1
  <1>7. PICK y \in Int : y = q - 70
    BY <1>2
  <1>8. -2 <= y /\ y <= 130 /\ (leap <=> y % 4 = 2) /\ (y = 130 => left <= 58)
    BY <1>2, <1>3, <1>7
  <1>9. Net!DayNumber(1970 + y, month, left - Net!DaysTo(month, leap) + 1) = FirstDay(y) + left
    BY <1>2, <1>3, <1>6, <1>8, DayOfMonth
  <1>10. FirstDay(y) + left = n - 25568
    BY <1>2, <1>7, <1>8 DEF FirstDay
  <1>11. 1970 + y = 1900 + q
    BY <1>2, <1>7
  <1> QED
    BY <1>1, <1>9, <1>10, <1>11 DEF month

\* The days before the count began again in 2036, for a time after that.
Since(day, clock) ==
    IF Net!Overflowed(day, clock) THEN 49710 + ((clock + 23296) \div 86400) ELSE 0
Lag(day, clock) == IF Since(day, clock) > 0 THEN 23296 ELSE 0

LEMMA BrokenIs ==
    ASSUME NEW day \in Nat, NEW clock \in Nat, clock < 86400,
           day <= 23396 \/ (24855 <= day /\ day <= 49710),
           day = 24855 => clock >= 11648
    PROVE  LET to == Net!Broken(day, clock)
               since == Since(day, clock)
           IN /\ Net!DayNumber(to.year, to.month, to.mday) = day + since - 25567
              /\ to.wday = (day + since + 1) % 7
              /\ to.clock = (clock + Lag(day, clock)) % 86400
  <1> DEFINE over == Net!Overflowed(day, clock)
             to == Net!Broken(day, clock)
             since == Since(day, clock)
             left == SecondsLeft(day, clock)
             dayno == DayNo(day, clock)
  <1>1. /\ to.year = YearAt(dayno + 1) /\ to.month = MonthAt(dayno + 1)
        /\ to.mday = DayAt(dayno + 1)
        /\ to.wday = (dayno + 1) % 7 /\ to.clock = left % 86400
    <2>1. to = Elements(dayno + 1, left)
      BY BrokenAs
    <2> HIDE DEF to, dayno, left
    <2> QED
      BY <2>1 DEF Elements
  <1>2. over <=> day < 24855
    BY DEF Net!Overflowed
  <1>3. since \in Nat /\ dayno = day + since /\ dayno \in Nat /\ 24855 <= dayno /\ dayno <= 73107
    <2>1. (clock + 23296) \div 86400 \in {0, 1}
      OBVIOUS
    <2> QED
      BY <1>2, <2>1 DEF DayNo, SecondsLeft, Since, Lag
  <1>4. left = clock + Lag(day, clock)
    <2>1. (clock + 23296) \div 86400 \in {0, 1}
      OBVIOUS
    <2> QED
      BY <1>2, <2>1 DEF DayNo, SecondsLeft, Since, Lag
  <1> HIDE DEF to, since, left, dayno
  <1>5. Net!DayNumber(to.year, to.month, to.mday) = (dayno + 1) - 25568
    BY <1>1, <1>3, FixedPointDate
  <1>6. (dayno + 1) - 25568 = day + since - 25567 /\ dayno + 1 = day + since + 1
    BY <1>3
  <1> QED
    BY <1>1, <1>4, <1>5, <1>6 DEF to, since

\* What is broken down is a date.
Extracted ==
    extracted # <<>> =>
        \E date \in Dates : extracted = [from |-> date, to |-> Net!Broken(date[1], date[2])]

LEMMA ExtractedStep ==
    ASSUME Extracted, [MillisNext]_<<user, vars, wallVars, netVars>> PROVE Extracted'
  <1>1. CASE UNCHANGED extracted
    BY <1>1 DEF Extracted
  <1>2. CASE Net!ExtractNTPTime
    BY <1>2 DEF Net!ExtractNTPTime, Extracted
  <1>3. UNCHANGED extracted \/ Net!ExtractNTPTime
    BY DEF MillisNext, netVars, Net!Next, Net!Tick, Net!Request, Net!ServerReceives,
           Net!ServerTransmits, Net!NoAnswer, Net!Answer, Net!NTPSetTime, Net!ReadTime
  <1> QED
    BY <1>1, <1>2, <1>3

LEMMA ExtractedStart == MillisInit => Extracted
  BY DEF MillisInit, Net!Init, Net!Begun, Extracted

LEMMA ExtractedIsRight == Extracted => Net!DateRight
  <1> SUFFICES ASSUME Extracted, extracted # <<>> PROVE Net!DateRight
    BY DEF Net!DateRight
  <1>1. PICK date \in Dates : extracted = [from |-> date, to |-> Net!Broken(date[1], date[2])]
    BY DEF Extracted
  <1>2. PICK day \in Nat, clock \in Nat : day = date[1] /\ clock = date[2]
    BY <1>1, DatesAssumption
  <1>3. /\ clock < 86400
        /\ day <= 23396 \/ (24855 <= day /\ day <= 49710)
        /\ day = 24855 => clock >= 11648
    BY <1>1, <1>2, DatesAssumption
  <1>4. extracted.from[1] = day /\ extracted.from[2] = clock
        /\ extracted.to = Net!Broken(day, clock)
    BY <1>1, <1>2
  <1>5. Net!SECS_PER_DAY = 86400
    BY DEF Net!SECS_PER_DAY
  <1>6. PICK to : to = Net!Broken(day, clock) /\ extracted.to = to
    BY <1>4
  <1>7. PICK since : since = Since(day, clock)
    OBVIOUS
  <1>8. /\ Net!DayNumber(to.year, to.month, to.mday) = day + since - 25567
        /\ to.wday = (day + since + 1) % 7
        /\ to.clock = (clock + Lag(day, clock)) % 86400
    <2>1. /\ Net!DayNumber(Net!Broken(day, clock).year, Net!Broken(day, clock).month,
                           Net!Broken(day, clock).mday) = day + Since(day, clock) - 25567
          /\ Net!Broken(day, clock).wday = (day + Since(day, clock) + 1) % 7
          /\ Net!Broken(day, clock).clock
                = (clock + Lag(day, clock)) % 86400
      BY <1>3, BrokenIs
    <2> QED
      BY <1>6, <1>7, <2>1
  <1> QED
    BY <1>4, <1>5, <1>6, <1>7, <1>8 DEF Net!DateRight, Since, Lag

\* In the years that fit its word, the date Time.cpp keeps is the calendar's, and
\* makeTime takes it back; the date sntp.cpp makes of a timestamp is the calendar's
\* over the whole span it is meant for.
THEOREM DatesAreRight == MillisSpec /\ []Until2106 => []DatesRight
  <1>1. MillisInit => DateInv /\ Extracted
    BY DateStart, ExtractedStart
  <1>2. DateInv /\ Extracted /\ Until2106 /\ [MillisNext]_<<user, vars, wallVars, netVars>>
           => (DateInv /\ Extracted)'
    BY DateStep, ExtractedStep
  <1>3. DateInv /\ Extracted => DatesRight
    BY DatesOfInv, ExtractedIsRight DEF DatesRight
  <1> QED
    BY <1>1, <1>2, <1>3, PTL DEF MillisSpec

---------------------------------------------------------------------------
(* British time.                                                           *)
LEMMA WdayIs ==
    ASSUME NEW t PROVE Wall!breakTime(t).Wday = (((t \div 86400) + 4) % 7) + 1
  BY DEF Wall!breakTime, Wall!SECS_PER_DAY

LEMMA YearIs ==
    ASSUME NEW t \in Nat, NEW y \in Nat, y <= 135,
           FirstDay(y) * 86400 <= t, t < FirstDay(y + 1) * 86400
    PROVE  Wall!breakTime(t).Year = y
  <1>1. FirstDay(y) \in Nat /\ FirstDay(y + 1) \in Nat
    BY FirstDays
  <1>2. t < Ends
    <2>1. FirstDay(y + 1) <= FirstDay(136) /\ FirstDay(136) \in Nat
      BY YearsInOrder, FirstDays
    <2> QED
      BY <1>1, <2>1 DEF Ends
  <1>3. PICK e : e = Wall!breakTime(t)
    OBVIOUS
  <1>4. /\ e.Year \in 0..135 /\ t \div 86400 \in Nat
        /\ FirstDay(e.Year) <= t \div 86400 /\ t \div 86400 < FirstDay(e.Year + 1)
    BY <1>2, <1>3, BreakTimeIs DEF IsDate
  <1>5. FirstDay(y) <= t \div 86400 /\ t \div 86400 < FirstDay(y + 1)
    BY <1>1
  <1>6. PICK z \in Nat : z = e.Year /\ z <= 135
    BY <1>4
  <1> QED
    BY <1>3, <1>4, <1>5, <1>6, OneYear

\* The last Sunday of a month of 31 days, before the first of the next.
LastSundayBefore(d) == d - 1 - ((d + 3) % 7)

LEMMA RuleIs ==
    ASSUME NEW y \in Nat, y <= 135, NEW m \in {3, 10}, NEW h \in {1, 2},
           NEW r, r.week = 0, r.dow = 1, r.month = m, r.hour = h,
           NEW d, d = FirstDay(y) + MonthFrom(m + 1, Extra(y))
    PROVE  /\ Wall!LastSunday(1970 + y, m) = LastSundayBefore(d) * 86400 + 3600
           /\ Wall!toTime_t(r, y) = LastSundayBefore(d) * 86400 + h * 3600
  <1>1. FirstDay(y) \in Nat /\ MonthFrom(m, Extra(y)) \in Nat /\ MonthFrom(m + 1, Extra(y)) \in Nat
        /\ MonthFrom(m + 1, Extra(y)) = MonthFrom(m, Extra(y)) + 31
    <2>1. FirstDay(y) \in Nat
      BY FirstDays
    <2>2. Wall!monthDays[m] = 31
      BY MonthLengths
    <2>3. m \in 1..12 /\ m + 1 \in 1..12 /\ m # 2
      OBVIOUS
    <2>4. Extra(y) \in {0, 1}
      BY ExtraType
    <2> QED
      BY <2>1, <2>2, <2>3, <2>4, MonthsFrom
  <1>2. d \in Nat
    BY <1>1
  <1>3. Wall!DayNumber(1970 + y, m, 31) = d - 1
    <2>1. Wall!DayNumber(1970 + y, m, 31) = FirstDay(y) + MonthFrom(m, Extra(y)) + 31 - 1
      BY DayNumberIs
    <2> QED
      BY <1>1, <2>1
  <1>4. Wall!LastSunday(1970 + y, m) = LastSundayBefore(d) * 86400 + 3600
    BY <1>2, <1>3 DEF Wall!LastSunday, LastSundayBefore, Wall!SECS_PER_DAY, Wall!SECS_PER_HOUR
  <1> DEFINE tm1 == [Hour |-> h, Minute |-> 0, Second |-> 0, Day |-> 1, Month |-> m + 1, Year |-> y]
             first == Wall!makeTime(tm1)
  <1>5. first = d * 86400 + h * 3600
    <2>1. Wall!DaysBefore[y] = FirstDay(y)
      BY DaysBeforeIs
    <2>2. Wall!DaysToMonth(y, m + 1) = MonthFrom(m + 1, Extra(y))
      <3>1. y \in 0..135 /\ m + 1 \in 1..12
        OBVIOUS
      <3> QED
        BY <3>1, DaysToMonthIs
    <2>3. /\ tm1.Hour = h /\ tm1.Minute = 0 /\ tm1.Second = 0 /\ tm1.Day = 1
          /\ tm1.Month = m + 1 /\ tm1.Year = y
      OBVIOUS
    <2> HIDE DEF tm1
    <2>4. first = (FirstDay(y) + MonthFrom(m + 1, Extra(y)) + 1 - 1) * 86400 + h * 3600 + 0 * 60 + 0
      BY <2>1, <2>2, <2>3
      DEF Wall!makeTime, Wall!SECS_PER_DAY, Wall!SECS_PER_HOUR, Wall!SECS_PER_MIN
    <2> QED
      BY <1>1, <2>4
  <1>6. Wall!breakTime(first).Wday = ((d + 4) % 7) + 1
    <2>1. first \div 86400 = d
      <3> HIDE DEF first
      <3>1. PICK n \in Nat, k \in Nat : n = first /\ k = d
        BY <1>2, <1>5
      <3>2. n = k * 86400 + 3600 \/ n = k * 86400 + 7200
        BY <1>5, <3>1
      <3>3. n \div 86400 = k
        BY <3>2
      <3> QED
        BY <3>1, <3>3
    <2> QED
      BY <2>1, WdayIs
  <1>7. Wall!toTime_t(r, y)
           = first + (7 * (1 - 1) + ((1 - Wall!breakTime(first).Wday + 7) % 7)) * 86400 - 7 * 86400
    <2> DEFINE tm2 == [Hour |-> r.hour, Minute |-> 0, Second |-> 0, Day |-> 1,
                       Month |-> (r.month % 12) + 1, Year |-> y]
               first2 == Wall!makeTime(tm2)
    <2>1. r.month # 12 /\ (r.month % 12) + 1 = m + 1
      OBVIOUS
    <2>2. tm2 = tm1
      BY <2>1
    <2>3. Wall!toTime_t(r, y)
             = (first2 + (7 * (1 - 1) + ((r.dow - Wall!breakTime(first2).Wday + 7) % 7))
                         * Wall!SECS_PER_DAY) - 7 * Wall!SECS_PER_DAY
      BY <2>1, Zenon DEF Wall!toTime_t
    <2>4. first2 = first
      BY <2>2
    <2> HIDE DEF first2, first
    <2>5. PICK w \in Int, n \in Int : w = Wall!breakTime(first).Wday /\ n = first
      BY <1>2, <1>5, <1>6
    <2>6. Wall!SECS_PER_DAY = 86400
      BY DEF Wall!SECS_PER_DAY
    <2>7. Wall!toTime_t(r, y) = (n + (7 * (1 - 1) + ((1 - w + 7) % 7)) * 86400) - 7 * 86400
      BY <2>3, <2>4, <2>5, <2>6
    <2> QED
      BY <2>5, <2>7
  <1> HIDE DEF first
  <1>8. (1 - (((d + 4) % 7) + 1) + 7) % 7 = 6 - ((d + 3) % 7) /\ (d + 3) % 7 \in 0..6
    BY <1>2
  <1>9. Wall!toTime_t(r, y) = d * 86400 + h * 3600 + (6 - ((d + 3) % 7)) * 86400 - 7 * 86400
    BY <1>2, <1>5, <1>6, <1>7, <1>8
  <1> QED
    BY <1>2, <1>4, <1>8, <1>9 DEF LastSundayBefore

\* The changes of a year are the last Sundays of March and October, in that year.
LEMMA ChangesIs ==
    ASSUME NEW y \in Nat, y <= 135, NEW z, z = Wall!calcTimeChanges(y),
           NEW dst, dst = Wall!LastSunday(1970 + y, 3),
           NEW std, std = Wall!LastSunday(1970 + y, 10)
    PROVE  /\ z.dstLoc = dst /\ z.stdLoc = std + 3600 /\ z.dstUTC = dst /\ z.stdUTC = std
           /\ dst \in Nat /\ std \in Nat /\ dst < std
           /\ FirstDay(y) * 86400 <= dst /\ std + 3600 < FirstDay(y + 1) * 86400
  <1> DEFINE c == FirstDay(y) + MonthFrom(3 + 1, Extra(y))
             d == FirstDay(y) + MonthFrom(10 + 1, Extra(y))
  <1>1. /\ Wall!BST.week = 0 /\ Wall!BST.dow = 1 /\ Wall!BST.month = 3 /\ Wall!BST.hour = 1
        /\ Wall!GMT.week = 0 /\ Wall!GMT.dow = 1 /\ Wall!GMT.month = 10 /\ Wall!GMT.hour = 2
        /\ Wall!BST.offset = 60 /\ Wall!GMT.offset = 0
    BY DEF Wall!BST, Wall!GMT
  <1>2. /\ dst = LastSundayBefore(c) * 86400 + 3600
        /\ Wall!toTime_t(Wall!BST, y) = LastSundayBefore(c) * 86400 + 1 * 3600
    BY <1>1, RuleIs
  <1>3. /\ std = LastSundayBefore(d) * 86400 + 3600
        /\ Wall!toTime_t(Wall!GMT, y) = LastSundayBefore(d) * 86400 + 2 * 3600
    BY <1>1, RuleIs
  <1>4. /\ FirstDay(y) \in Nat /\ Extra(y) \in {0, 1}
        /\ FirstDay(y + 1) = FirstDay(y) + 365 + Extra(y)
    BY FirstDayType, ExtraType, YearsFrom
  <1>5. c = FirstDay(y) + 90 + Extra(y) /\ d = FirstDay(y) + 304 + Extra(y)
    BY <1>4 DEF MonthFrom, MonthStart
  <1>6. c \in Nat /\ d \in Nat
    BY <1>4, <1>5
  <1> HIDE DEF c, d
  <1>7. /\ LastSundayBefore(c) \in Int /\ c - 7 <= LastSundayBefore(c) /\ LastSundayBefore(c) <= c - 1
        /\ LastSundayBefore(d) \in Int /\ d - 7 <= LastSundayBefore(d) /\ LastSundayBefore(d) <= d - 1
    BY <1>6 DEF LastSundayBefore
  <1>8. PICK s \in Int, t \in Int, f \in Nat, x \in {0, 1} :
            s = LastSundayBefore(c) /\ t = LastSundayBefore(d) /\ f = FirstDay(y) /\ x = Extra(y)
    BY <1>4, <1>7
  <1>9. /\ f + 83 <= s /\ s <= f + 90 /\ f + 297 <= t /\ t <= f + 304
        /\ FirstDay(y + 1) = f + 365 + x
    BY <1>4, <1>5, <1>7, <1>8
  <1>10. dst = s * 86400 + 3600 /\ std = t * 86400 + 3600
    BY <1>2, <1>3, <1>8
  <1>11. /\ dst \in Nat /\ std \in Nat /\ dst < std
         /\ FirstDay(y) * 86400 <= dst /\ std + 3600 < FirstDay(y + 1) * 86400
    BY <1>8, <1>9, <1>10
  <1>12. Wall!toTime_t(Wall!BST, y) = dst /\ Wall!toTime_t(Wall!GMT, y) = std + 3600
    BY <1>2, <1>3, <1>8, <1>10
  <1>13. Wall!SECS_PER_MIN = 60
    BY DEF Wall!SECS_PER_MIN
  <1>14. /\ z.dstLoc = Wall!toTime_t(Wall!BST, y) /\ z.stdLoc = Wall!toTime_t(Wall!GMT, y)
         /\ z.dstUTC = Wall!toTime_t(Wall!BST, y) - Wall!GMT.offset * Wall!SECS_PER_MIN
         /\ z.stdUTC = Wall!toTime_t(Wall!GMT, y) - Wall!BST.offset * Wall!SECS_PER_MIN
    BY DEF Wall!calcTimeChanges
  <1>15. z.dstUTC = dst - 0 * 60 /\ z.stdUTC = std + 3600 - 60 * 60
    <2>1. PICK u \in Nat, v \in Nat : u = dst /\ v = std
      BY <1>11
    <2>2. z.dstUTC = u - 0 * 60
      BY <1>1, <1>12, <1>13, <1>14, <2>1
    <2>3. Wall!toTime_t(Wall!GMT, y) = v + 3600
      BY <1>12, <2>1
    <2>4. z.stdUTC = v + 3600 - 60 * 60
      BY <1>1, <1>13, <1>14, <2>3
    <2> QED
      BY <2>1, <2>2, <2>4
  <1>16. z.dstUTC = dst /\ z.stdUTC = std
    BY <1>11, <1>15
  <1> QED
    BY <1>11, <1>12, <1>14, <1>16

LEMMA YearOfIs ==
    ASSUME NEW t \in Nat, NEW y \in Nat, y <= 135,
           FirstDay(y) * 86400 <= t, t < FirstDay(y + 1) * 86400
    PROVE  Wall!YearOf(t) = 1970 + y
  <1> DEFINE In(n) == /\ Wall!DayNumber(n, 1, 1) * Wall!SECS_PER_DAY <= t
                      /\ t < Wall!DayNumber(n + 1, 1, 1) * Wall!SECS_PER_DAY
  <1>1. Wall!SECS_PER_DAY = 86400 /\ Wall!LastYear = 135
    BY DEF Wall!SECS_PER_DAY, Wall!LastYear
  <1>2. ASSUME NEW k \in Nat, k <= 136
        PROVE  Wall!DayNumber(1970 + k, 1, 1) = FirstDay(k) /\ FirstDay(k) \in Nat
    <2>1. Wall!DayNumber(1970 + k, 1, 1) = FirstDay(k) + MonthFrom(1, Extra(k)) + 1 - 1
      BY <1>2, DayNumberIs
    <2>2. MonthFrom(1, Extra(k)) = 0
      BY ExtraType, MonthsFrom
    <2>3. FirstDay(k) \in Nat
      BY <1>2, FirstDayType
    <2> QED
      BY <2>1, <2>2, <2>3
  <1>3. ASSUME NEW k \in Nat, k <= 135
        PROVE  In(1970 + k) <=> FirstDay(k) * 86400 <= t /\ t < FirstDay(k + 1) * 86400
    <2>1. (1970 + k) + 1 = 1970 + (k + 1) /\ k + 1 \in Nat /\ k + 1 <= 136
      BY <1>3
    <2>2. /\ Wall!DayNumber(1970 + k, 1, 1) = FirstDay(k)
          /\ Wall!DayNumber((1970 + k) + 1, 1, 1) = FirstDay(k + 1)
      BY <1>2, <1>3, <2>1
    <2> QED
      BY <1>1, <2>2
  <1>4. In(1970 + y)
    BY <1>3
  <1>5. ASSUME NEW n \in Int, 1970 <= n, n <= 2105, In(n) PROVE n = 1970 + y
    <2>1. PICK k \in Nat : n = 1970 + k /\ k <= 135
      <3>1. n - 1970 \in Nat /\ n = 1970 + (n - 1970) /\ n - 1970 <= 135
        BY <1>5
      <3> QED
        BY <3>1
    <2>2. FirstDay(k) * 86400 <= t /\ t < FirstDay(k + 1) * 86400
      BY <1>3, <1>5, <2>1
    <2>3. Wall!breakTime(t).Year = k /\ Wall!breakTime(t).Year = y
      BY <2>1, <2>2, YearIs
    <2> QED
      BY <2>1, <2>3
  <1> DEFINE Years == 1970..(1970 + Wall!LastYear)
  <1>6. \A n \in Years : n \in Int /\ 1970 <= n /\ n <= 2105
    BY <1>1
  <1>7. 1970 + y \in Years
    BY <1>1
  <1>8. Wall!YearOf(t) = CHOOSE n \in Years : In(n)
    BY DEF Wall!YearOf
  <1> DEFINE c == CHOOSE n \in Years : In(n)
  <1>9. c \in Years /\ In(c)
    <2> HIDE DEF Years
    <2> QED
      BY <1>4, <1>7
  <1> HIDE DEF c, In, Years
  <1> QED
    BY <1>5, <1>6, <1>8, <1>9 DEF c

LEMMA YearOfChange ==
    ASSUME NEW y \in Nat, y <= 135, NEW z, z = Wall!calcTimeChanges(y)
    PROVE  Wall!breakTime(z.dstUTC).Year = y /\ Wall!breakTime(z.dstLoc).Year = y
  <1>1. PICK dst, std : dst = Wall!LastSunday(1970 + y, 3) /\ std = Wall!LastSunday(1970 + y, 10)
    OBVIOUS
  <1>2. /\ z.dstLoc = dst /\ z.dstUTC = dst /\ dst \in Nat /\ std \in Nat /\ dst < std
        /\ FirstDay(y) * 86400 <= dst /\ std + 3600 < FirstDay(y + 1) * 86400
    BY <1>1, ChangesIs
  <1>3. PICK n \in Nat : n = FirstDay(y + 1)
    BY FirstDayType
  <1>4. dst < FirstDay(y + 1) * 86400
    BY <1>2, <1>3
  <1>5. Wall!breakTime(dst).Year = y
    BY <1>2, <1>4, YearIs
  <1> QED
    BY <1>2, <1>5

LEMMA LocalOf ==
    ASSUME NEW z, NEW t \in Int
    PROVE  /\ Wall!utcIsDST(z, t) => Wall!toLocal(z, t) = t + 3600
           /\ ~Wall!utcIsDST(z, t) => Wall!toLocal(z, t) = t
           /\ Wall!locIsDST(z, t) => Wall!toUTC(z, t) = t - 3600
           /\ ~Wall!locIsDST(z, t) => Wall!toUTC(z, t) = t
  BY DEF Wall!toLocal, Wall!toUTC, Wall!Offset, Wall!BST, Wall!GMT, Wall!SECS_PER_MIN

\* With the changes of its year, a time is British time, and taken back.
LEMMA LocalTime ==
    ASSUME NEW t \in Nat, NEW y \in Nat, y <= 135,
           FirstDay(y) * 86400 <= t, t < FirstDay(y + 1) * 86400,
           NEW z, z = Wall!calcTimeChanges(y), NEW l, l = Wall!toLocal(z, t)
    PROVE  /\ l = Wall!BritishTime(t)
           /\ Wall!toUTC(Wall!Recalculated(z, l, z.dstLoc), l)
                 = IF Wall!ComesTwice(t) THEN t - Wall!SECS_PER_HOUR ELSE t
  <1>1. PICK dst, std : dst = Wall!LastSunday(1970 + y, 3) /\ std = Wall!LastSunday(1970 + y, 10)
    OBVIOUS
  <1>2. /\ z.dstLoc = dst /\ z.stdLoc = std + 3600 /\ z.dstUTC = dst /\ z.stdUTC = std
        /\ dst \in Nat /\ std \in Nat /\ dst < std
        /\ FirstDay(y) * 86400 <= dst /\ std + 3600 < FirstDay(y + 1) * 86400
    BY <1>1, ChangesIs
  <1>3. PICK u \in Nat, v \in Nat, n \in Nat, f \in Nat :
            u = dst /\ v = std /\ n = FirstDay(y + 1) /\ f = FirstDay(y)
    BY <1>2, FirstDayType
  <1>4. u < v /\ f * 86400 <= u /\ v + 3600 < n * 86400 /\ f * 86400 <= t /\ t < n * 86400
    BY <1>2, <1>3
  <1>5. Wall!SECS_PER_HOUR = 3600
    BY DEF Wall!SECS_PER_HOUR
  <1>6. Wall!YearOf(t) = 1970 + y
    BY YearOfIs
  <1>7. /\ Wall!BritishTime(t) = IF u <= t /\ t < v THEN t + 3600 ELSE t
        /\ Wall!ComesTwice(t) <=> v <= t /\ t < v + 3600
    BY <1>1, <1>3, <1>5, <1>6 DEF Wall!BritishTime, Wall!ComesTwice
  <1>8. Wall!utcIsDST(z, t) <=> t >= u /\ t < v
    BY <1>2, <1>3, <1>4 DEF Wall!utcIsDST, Wall!Between
  <1>9. l = IF t >= u /\ t < v THEN t + 3600 ELSE t
    BY <1>8, LocalOf
  <1>10. l \in Nat /\ f * 86400 <= l /\ l < n * 86400
    BY <1>4, <1>9
  <1>11. Wall!breakTime(l).Year = y /\ Wall!breakTime(z.dstLoc).Year = y
    <2>1. FirstDay(y) * 86400 <= l /\ l < FirstDay(y + 1) * 86400
      BY <1>3, <1>10
    <2> QED
      BY <1>10, <2>1, YearIs, YearOfChange
  <1>12. Wall!Recalculated(z, l, z.dstLoc) = z
    BY <1>11 DEF Wall!Recalculated
  <1>13. Wall!locIsDST(z, l) <=> l >= u /\ l < v + 3600
    BY <1>2, <1>3, <1>4, <1>10 DEF Wall!locIsDST, Wall!Between
  <1>14. Wall!toUTC(z, l) = IF l >= u /\ l < v + 3600 THEN l - 3600 ELSE l
    BY <1>10, <1>13, LocalOf
  <1>15. Wall!toUTC(z, l) = IF v <= t /\ t < v + 3600 THEN t - 3600 ELSE t
    BY <1>4, <1>9, <1>14
  <1>16. l = Wall!BritishTime(t)
    BY <1>7, <1>9
  <1> QED
    BY <1>5, <1>7, <1>12, <1>15, <1>16

---------------------------------------------------------------------------
\* The changes kept are none yet, or those of a year.
NoChanges == [dstLoc |-> 0, stdLoc |-> 0, dstUTC |-> 0, stdUTC |-> 0]

ZoneInv ==
    zone = NoChanges \/ \E y \in Nat : 1 <= y /\ y <= 135 /\ zone = Wall!calcTimeChanges(y)

\* The clock is set, to a year after the first: in that one the changes are taken
\* to be worked out before they are.
Since1971 == user = "clock" => rtc.time > Wall!DaysBefore[1] * Wall!SECS_PER_DAY

LEMMA SinceIs == Since1971 /\ user = "clock" => rtc.time > 365 * 86400
  <1>1. Wall!DaysBefore[1] = FirstDay(1) /\ FirstDay(1) = 365
    <2>1. 1 \in 0..136
      OBVIOUS
    <2> QED
      BY <2>1, DaysBeforeIs DEF FirstDay
  <1> QED
    BY <1>1 DEF Since1971, Wall!SECS_PER_DAY

LEMMA NewChanges ==
    ASSUME ZoneInv, NEW t, NEW y \in Nat, 1 <= y, y <= 135, Wall!breakTime(t).Year = y
    PROVE  Wall!Recalculated(zone, t, zone.dstUTC) = Wall!calcTimeChanges(y)
  <1>1. CASE zone = NoChanges
    <2>1. zone.dstUTC = 0
      BY <1>1 DEF NoChanges
    <2>2. Wall!breakTime(0).Year = 0
      <3>1. FirstDay(0) = 0 /\ FirstDay(0 + 1) = 365
        BY DEF FirstDay
      <3>2. FirstDay(0) * 86400 <= 0 /\ 0 < FirstDay(0 + 1) * 86400
        BY <3>1
      <3> QED
        BY <3>2, YearIs
    <2> QED
      BY <2>1, <2>2 DEF Wall!Recalculated
  <1>2. CASE \E k \in Nat : 1 <= k /\ k <= 135 /\ zone = Wall!calcTimeChanges(k)
    <2>1. PICK k \in Nat : k <= 135 /\ zone = Wall!calcTimeChanges(k)
      BY <1>2
    <2>2. Wall!breakTime(zone.dstUTC).Year = k
      BY <2>1, YearOfChange
    <2> QED
      BY <2>1, <2>2 DEF Wall!Recalculated
  <1> QED
    BY <1>1, <1>2 DEF ZoneInv

LEMMA ShowHourBritish ==
    ASSUME DateInv, ZoneInv, Until2106, Since1971, user = "clock", Wall!ShowHour
    PROVE  ZoneInv' /\ Wall!BritishStep
  <1>1. Wall!Keep(Wall!now) /\ UNCHANGED <<rtc, wallMillis>> /\ sysTime' = Wall!now.sys
    BY DEF Wall!ShowHour, Wall!Keep
  <1>2. sysTime' \in Nat /\ sysTime' <= rtc.time /\ rtc.time <= sysTime' + 1 /\ rtc.time \in Nat
    BY <1>1, KeepTypes DEF DateInv, ClockInv, ClockType
  <1>3. PICK t \in Nat, r \in Nat, n \in Nat : t = sysTime' /\ r = rtc.time /\ n = Ends
    BY <1>2, EndsType
  <1>4. 365 * 86400 <= t /\ t < n
    <2>1. r > 365 * 86400 /\ r + 3600 < n
      BY <1>3, SinceIs, UntilEnds
    <2>2. t <= r /\ r <= t + 1
      BY <1>2, <1>3
    <2> QED
      BY <2>1, <2>2
  <1>5. PICK y \in Nat : /\ y <= 135 /\ Wall!breakTime(t).Year = y
                         /\ FirstDay(y) <= t \div 86400 /\ t \div 86400 < FirstDay(y + 1)
    <2>1. t < Ends
      BY <1>3, <1>4
    <2>2. PICK e : e = Wall!breakTime(t)
      OBVIOUS
    <2>3. /\ e.Year \in 0..135
          /\ FirstDay(e.Year) <= t \div 86400 /\ t \div 86400 < FirstDay(e.Year + 1)
      BY <2>1, <2>2, BreakTimeIs DEF IsDate
    <2> QED
      BY <2>2, <2>3
  <1>6. PICK f \in Nat, g \in Nat : f = FirstDay(y) /\ g = FirstDay(y + 1)
    BY <1>5, FirstDayType
  <1>7. f * 86400 <= t /\ t < g * 86400
    BY <1>5, <1>6
  <1>8. 1 <= y
    <2>1. CASE y = 0
      <3>1. g = 365
        BY <1>6, <2>1 DEF FirstDay
      <3> QED
        BY <1>4, <1>7, <3>1
    <2> QED
      BY <2>1
  <1>9. /\ zone' = Wall!Recalculated(zone, t, zone.dstUTC)
        /\ shown'.hour = Wall!toLocal(zone', t)
    BY <1>1, <1>3 DEF Wall!ShowHour, Wall!Nothing
  <1>10. zone' = Wall!calcTimeChanges(y)
    BY <1>5, <1>8, <1>9, NewChanges
  <1>11. ZoneInv'
    BY <1>5, <1>8, <1>10 DEF ZoneInv
  <1>12. PICK z, l : z = zone' /\ l = shown'.hour
    OBVIOUS
  <1>13. z = Wall!calcTimeChanges(y) /\ l = Wall!toLocal(z, t)
    BY <1>9, <1>10, <1>12
  <1>14. FirstDay(y) * 86400 <= t /\ t < FirstDay(y + 1) * 86400
    BY <1>6, <1>7
  <1>15. /\ l = Wall!BritishTime(t)
         /\ Wall!toUTC(Wall!Recalculated(z, l, z.dstLoc), l)
               = IF Wall!ComesTwice(t) THEN t - Wall!SECS_PER_HOUR ELSE t
    BY <1>5, <1>13, <1>14, LocalTime
  <1>16. Wall!BritishStep
    BY <1>3, <1>12, <1>15, Zenon DEF Wall!BritishStep
  <1> QED
    BY <1>11, <1>16

LEMMA ZoneStep ==
    ASSUME DateInv, ZoneInv, Until2106, Since1971, [MillisNext]_<<user, vars, wallVars, netVars>>
    PROVE  ZoneInv' /\ [Wall!BritishStep]_wallVars
  <1>1. CASE UNCHANGED wallVars
    BY <1>1 DEF wallVars, ZoneInv
  <1>2. CASE Wall!Next /\ user = "clock"
    <2>1. CASE Wall!ShowHour
      BY <1>2, <2>1, ShowHourBritish
    <2>2. CASE Wall!PowerCycle
      BY <2>2 DEF Wall!PowerCycle, Wall!Nothing, Wall!BritishStep, ZoneInv, NoChanges
    <2>3. CASE Wall!Tick \/ Wall!Pause \/ Wall!ShowRest \/ Wall!Shown \/ Wall!syncTime
      <3>1. ZoneInv'
        BY <2>3 DEF Wall!Tick, Wall!Pause, Wall!ShowRest, Wall!Shown, Wall!syncTime, ZoneInv
      <3>2. shown' = shown \/ shown.hour # -1 \/ shown' = Wall!Nothing
        BY <2>3 DEF Wall!Tick, Wall!Pause, Wall!ShowRest, Wall!Shown, Wall!syncTime
      <3>3. Wall!BritishStep
        BY <3>2 DEF Wall!BritishStep, Wall!Nothing
      <3> QED
        BY <3>1, <3>3
    <2> QED
      BY <1>2, <2>1, <2>2, <2>3 DEF Wall!Next
  <1> QED
    BY <1>1, <1>2 DEF MillisNext

LEMMA ZoneStart == MillisInit => ZoneInv
  BY DEF MillisInit, WallRests, Wall!Init, Wall!Begun, ZoneInv, NoChanges

\* From 1971 to 2105 the hour shown is that of British time, whatever was shown and
\* set before, and toUTC takes it back.
THEOREM ItIsBritishTime == MillisSpec /\ []Until2106 /\ []Since1971 => HourIsBritish
  <1>1. MillisInit => DateInv /\ ZoneInv
    BY DateStart, ZoneStart
  <1>2. DateInv /\ ZoneInv /\ Until2106 /\ Since1971
        /\ [MillisNext]_<<user, vars, wallVars, netVars>>
           => (DateInv /\ ZoneInv)' /\ [Wall!BritishStep]_wallVars
    BY DateStep, ZoneStep
  <1> QED
    BY <1>1, <1>2, PTL DEF MillisSpec, HourIsBritish

---------------------------------------------------------------------------
(* Division and remainder.                                                 *)
LEMMA DivMod ==
    ASSUME NEW p \in Nat, 0 < p, NEW a \in Int
    PROVE  /\ a \div p \in Int /\ a % p \in Int /\ 0 <= a % p /\ a % p < p
           /\ a = p * (a \div p) + (a % p)
  BY SMTT(30)

LEMMA DivModUnique ==
    ASSUME NEW p \in Nat, 0 < p, NEW q \in Int, NEW r \in Int, NEW k \in Int, NEW s \in Int,
           0 <= r, r < p, 0 <= s, s < p, p * q + r = p * k + s
    PROVE  q = k /\ r = s
  <1>1. ASSUME NEW i \in Int, NEW j \in Int, i < j PROVE p * i + p <= p * j
    <2>1. PICK n \in Nat : j = i + 1 + n
      <3>1. j - i - 1 \in Nat /\ j = i + 1 + (j - i - 1)
        BY <1>1
      <3> QED
        BY <3>1
    <2>2. p * j = p * i + p + p * n /\ p * n \in Nat
      BY <2>1
    <2> QED
      BY <2>2
  <1>2. ~(q < k) /\ ~(k < q)
    <2>1. p * q \in Int /\ p * k \in Int
      OBVIOUS
    <2> QED
      BY <1>1, <2>1
  <1>3. q = k
    BY <1>2
  <1> QED
    BY <1>3

LEMMA DivModIs ==
    ASSUME NEW p \in Nat, 0 < p, NEW a \in Int, NEW q \in Int, NEW r \in Int,
           0 <= r, r < p, a = p * q + r
    PROVE  a \div p = q /\ a % p = r
  <1>1. PICK k \in Int, s \in Int :
            k = a \div p /\ s = a % p /\ 0 <= s /\ s < p /\ a = p * k + s
    BY DivMod
  <1>2. q = k /\ r = s
    BY <1>1, DivModUnique
  <1> QED
    BY <1>1, <1>2

LEMMA DivModShift ==
    ASSUME NEW p \in Nat, 0 < p, NEW a \in Int, NEW k \in Int
    PROVE  (a + p * k) % p = a % p /\ (a + p * k) \div p = (a \div p) + k
  <1>1. PICK q \in Int, s \in Int :
            q = a \div p /\ s = a % p /\ 0 <= s /\ s < p /\ a = p * q + s
    BY DivMod
  <1>2. PICK n \in Int, b \in Int : n = q + k /\ b = a + p * k
    OBVIOUS
  <1>3. b = p * n + s
    BY <1>1, <1>2
  <1>4. b \div p = n /\ b % p = s
    BY <1>1, <1>3, DivModIs
  <1> QED
    BY <1>1, <1>2, <1>4

LEMMA ModPlus ==
    ASSUME NEW p \in Nat, 0 < p, NEW a \in Int, NEW b \in Int
    PROVE  (b + (a % p)) % p = (b + a) % p /\ (b - (a % p)) % p = (b - a) % p
  <1>1. PICK q \in Int, s \in Int : q = a \div p /\ s = a % p /\ a = p * q + s
    BY DivMod
  <1>2. PICK i \in Int, j \in Int, n \in Int : i = b + s /\ j = b - s /\ n = -q
    <2>1. b + s \in Int /\ b - s \in Int /\ -q \in Int
      OBVIOUS
    <2> QED
      BY <2>1
  <1>3. b + a = i + p * q /\ b - a = j + p * n
    BY <1>1, <1>2
  <1>4. (i + p * q) % p = i % p /\ (j + p * n) % p = j % p
    BY DivModShift
  <1> QED
    BY <1>1, <1>2, <1>3, <1>4

\* The quotient of a sum has a carry or none.
LEMMA DivSum ==
    ASSUME NEW p \in Nat, 0 < p, NEW a \in Int, NEW b \in Int
    PROVE  \E c \in {0, 1} : (a + b) \div p = (a \div p) + (b \div p) + c
  <1>1. PICK q \in Int, s \in Int :
            q = a \div p /\ s = a % p /\ 0 <= s /\ s < p /\ a = p * q + s
    BY DivMod
  <1>2. PICK k \in Int, t \in Int :
            k = b \div p /\ t = b % p /\ 0 <= t /\ t < p /\ b = p * k + t
    BY DivMod
  <1>3. PICK n \in Int, d \in Int : n = q + k /\ d = a + b
    OBVIOUS
  <1>4. d = p * n + (s + t) /\ d = p * (n + 1) + (s + t - p)
    BY <1>1, <1>2, <1>3
  <1>5. CASE s + t < p
    <2>1. PICK r \in Int : r = s + t /\ 0 <= r /\ r < p /\ d = p * n + r
      BY <1>1, <1>2, <1>4, <1>5
    <2>2. d \div p = n
      BY <2>1, DivModIs
    <2>3. (a + b) \div p = (a \div p) + (b \div p) + 0
      BY <1>1, <1>2, <1>3, <2>2
    <2> QED
      BY <2>3
  <1>6. CASE s + t >= p
    <2>1. PICK r \in Int, j \in Int :
              r = s + t - p /\ j = n + 1 /\ 0 <= r /\ r < p /\ d = p * j + r
      <3>1. s + t - p \in Int /\ n + 1 \in Int /\ 0 <= s + t - p /\ s + t - p < p
        BY <1>1, <1>2, <1>6
      <3> QED
        BY <1>4, <3>1
    <2>2. d \div p = j
      BY <2>1, DivModIs
    <2>3. (a + b) \div p = (a \div p) + (b \div p) + 1
      BY <1>1, <1>2, <1>3, <2>1, <2>2
    <2> QED
      BY <2>3
  <1> QED
    BY <1>1, <1>2, <1>5, <1>6

---------------------------------------------------------------------------
(* The clock of sntp.cpp: the seconds of a stamp are those of a count, in    *)
(* their word.                                                               *)
LEMMA NetConstants ==
    /\ SecondWord \in Nat /\ 0 < SecondWord /\ SecondWord % 2 = 0
    /\ PerSecond \in Nat /\ 0 < PerSecond /\ West \in Nat
    /\ \A e \in Epochs : e \in Nat
  BY NetAssumption

Counts(x, n) == x.seconds = n % SecondWord

LEMMA CountsType ==
    ASSUME NEW x, NEW n \in Int, Counts(x, n)
    PROVE  x.seconds \in Int /\ 0 <= x.seconds /\ x.seconds < SecondWord
  BY NetConstants, DivMod DEF Counts

LEMMA AddCounts ==
    ASSUME NEW a, NEW b, NEW m \in Int, NEW n \in Int, Counts(a, m), Counts(b, n)
    PROVE  \E c \in {0, 1} : Counts(Net!AddNTPtime(a, b), m + n + c)
  <1>1. PICK c \in {0, 1} :
            Net!AddNTPtime(a, b).seconds = (b.seconds + c + a.seconds) % SecondWord
    BY DEF Net!AddNTPtime, Net!Time, Net!InWord, Net!Negative
  <1>2. PICK s \in Int, t \in Int :
            s = m % SecondWord /\ t = n % SecondWord /\ s = a.seconds /\ t = b.seconds
    BY NetConstants, DivMod DEF Counts
  <1>3. (t + c + s) % SecondWord = (t + c + m) % SecondWord
    <2>1. PICK u \in Int : u = t + c
      OBVIOUS
    <2>2. (u + (m % SecondWord)) % SecondWord = (u + m) % SecondWord
      BY NetConstants, ModPlus
    <2> QED
      BY <1>2, <2>1, <2>2
  <1>4. (t + c + m) % SecondWord = (m + n + c) % SecondWord
    <2>1. PICK u \in Int : u = m + c
      OBVIOUS
    <2>2. (u + (n % SecondWord)) % SecondWord = (u + n) % SecondWord
      BY NetConstants, ModPlus
    <2>3. t + c + m = u + t /\ m + n + c = u + n
      BY <2>1
    <2> QED
      BY <1>2, <2>2, <2>3
  <1> QED
    BY <1>1, <1>2, <1>3, <1>4 DEF Counts

LEMMA DiffCounts ==
    ASSUME NEW a, NEW b, NEW m \in Int, NEW n \in Int, Counts(a, m), Counts(b, n)
    PROVE  \E c \in {0, 1} : Counts(Net!DiffNTPtime(a, b), n - m - c)
  <1>1. PICK c \in {0, 1} :
            Net!DiffNTPtime(a, b).seconds = (b.seconds - c - a.seconds) % SecondWord
    BY DEF Net!DiffNTPtime, Net!Time, Net!InWord, Net!Negative
  <1>2. PICK s \in Int, t \in Int :
            s = m % SecondWord /\ t = n % SecondWord /\ s = a.seconds /\ t = b.seconds
    BY NetConstants, DivMod DEF Counts
  <1>3. (t - c - s) % SecondWord = (t - c - m) % SecondWord
    <2>1. PICK u \in Int : u = t - c
      OBVIOUS
    <2>2. (u - (m % SecondWord)) % SecondWord = (u - m) % SecondWord
      BY NetConstants, ModPlus
    <2> QED
      BY <1>2, <2>1, <2>2
  <1>4. (t - c - m) % SecondWord = (n - m - c) % SecondWord
    <2>1. PICK u \in Int : u = -m - c
      <3>1. -m - c \in Int
        OBVIOUS
      <3> QED
        BY <3>1
    <2>2. (u + (n % SecondWord)) % SecondWord = (u + n) % SecondWord
      BY NetConstants, ModPlus
    <2>3. t - c - m = u + t /\ n - m - c = u + n
      BY <2>1
    <2> QED
      BY <1>2, <2>2, <2>3
  <1> QED
    BY <1>1, <1>2, <1>3, <1>4 DEF Counts

LEMMA ClockCounts == ASSUME NEW n PROVE Counts(Net!Clock(n), n \div PerSecond)
  BY DEF Net!Clock, Net!Time, Net!InWord, Counts

LEMMA SystemCounts ==
    ASSUME NEW m, NEW n PROVE Counts(Net!GetSystemClockAsNTPTime(m, n), m \div PerSecond)
  BY DEF Net!GetSystemClockAsNTPTime, Net!Time, Net!InWord, Counts

LEMMA FixedCounts == Counts(Net!LocalOffset, -West) /\ Counts(Net!NoStamp, 0)
  BY DEF Net!LocalOffset, Net!UtcOffset, Net!NoStamp, Net!Time, Net!InWord, Counts

\* A time that is read, in UTC and in local time.
LEMMA UtcCounts ==
    ASSUME NEW ref, NEW sys, NEW n \in Int, NEW m \in Int, Counts(ref, n), Counts(sys, m)
    PROVE  \E c \in {0, 1} : Counts(Net!AddNTPtime(sys, ref), n + m + c)
  <1>1. PICK c \in {0, 1} : Counts(Net!AddNTPtime(sys, ref), m + n + c)
    BY AddCounts
  <1>2. m + n + c = n + m + c
    OBVIOUS
  <1> QED
    BY <1>1, <1>2

LEMMA LocalCounts ==
    ASSUME NEW ref, NEW sys, NEW n \in Int, NEW m \in Int, Counts(ref, n), Counts(sys, m)
    PROVE  \E c \in {0, 1, 2} :
               Counts(Net!AddNTPtime(Net!LocalOffset, Net!AddNTPtime(sys, ref)), n + m - West + c)
  <1>1. PICK c \in {0, 1} : Counts(Net!AddNTPtime(sys, ref), n + m + c)
    BY UtcCounts
  <1>2. n + m + c \in Int /\ -West \in Int
    BY NetConstants
  <1>3. PICK d \in {0, 1} :
            Counts(Net!AddNTPtime(Net!LocalOffset, Net!AddNTPtime(sys, ref)),
                   (-West) + (n + m + c) + d)
    BY <1>1, <1>2, FixedCounts, AddCounts
  <1>4. PICK e \in {0, 1, 2} : e = c + d
    OBVIOUS
  <1>5. (-West) + (n + m + c) + d = n + m - West + e
    BY <1>4, NetConstants
  <1> QED
    BY <1>3, <1>5

LEMMA GetTimeIs ==
    ASSUME NEW ref, NEW sys, NEW local \in BOOLEAN
    PROVE  /\ ~local => Net!NTPGetTime(ref, sys, local) = Net!AddNTPtime(sys, ref)
           /\ local => Net!NTPGetTime(ref, sys, local)
                          = Net!AddNTPtime(Net!LocalOffset, Net!AddNTPtime(sys, ref))
  BY DEF Net!NTPGetTime

\* Half of two corrections that did not wrap.
LEMMA HalfCounts ==
    ASSUME NEW a, NEW b, NEW s \in Nat, NEW x \in Int, NEW y \in Int,
           Counts(a, s + x), 0 <= s + x, s + x < SecondWord,
           Counts(b, s + y), 0 <= s + y, s + y < SecondWord
    PROVE  \E w \in Int :
               /\ x + y - 2 <= 2 * w /\ 2 * w <= x + y + 2
               /\ Counts(Net!AddNTPtime(Net!NTPdiv2(a), Net!NTPdiv2(b)), s + w)
  <1>1. ASSUME NEW n \in Int, 0 <= n, n < SecondWord PROVE n % SecondWord = n
    <2>1. n = SecondWord * 0 + n
      BY NetConstants
    <2> QED
      BY <1>1, <2>1, NetConstants, DivModIs
  <1>2. a.seconds = s + x /\ b.seconds = s + y
    BY <1>1 DEF Counts
  <1>3. PICK u \in Int, v \in Int : u = (s + x) \div 2 /\ v = (s + y) \div 2
    OBVIOUS
  <1>4. /\ 2 * u <= s + x /\ s + x <= 2 * u + 1 /\ 0 <= u
        /\ 2 * v <= s + y /\ s + y <= 2 * v + 1 /\ 0 <= v
    BY <1>3
  <1>5. Net!NTPdiv2(a).seconds = u /\ Net!NTPdiv2(b).seconds = v
    BY <1>2, <1>3 DEF Net!NTPdiv2
  <1>6. u % SecondWord = u /\ v % SecondWord = v
    <2>1. u < SecondWord /\ v < SecondWord
      BY <1>4, NetConstants
    <2> QED
      BY <1>1, <1>4, <2>1
  <1>7. Counts(Net!NTPdiv2(a), u) /\ Counts(Net!NTPdiv2(b), v)
    BY <1>5, <1>6 DEF Counts
  <1>8. PICK c \in {0, 1} :
            Counts(Net!AddNTPtime(Net!NTPdiv2(a), Net!NTPdiv2(b)), u + v + c)
    BY <1>7, AddCounts
  <1>9. PICK w \in Int : w = u + v + c - s
    <2>1. u + v + c - s \in Int
      OBVIOUS
    <2> QED
      BY <2>1
  <1>10. u + v + c = s + w /\ x + y - 2 <= 2 * w /\ 2 * w <= x + y + 2
    BY <1>4, <1>9
  <1> QED
    BY <1>8, <1>10

---------------------------------------------------------------------------
(* The server's seconds when the board starts, and the seconds of the        *)
(* server's clock and the board's.                                           *)
Ahead == epoch \div PerSecond
Theirs(m) == (epoch + m) \div PerSecond
Ours(m) == m \div PerSecond

LEMMA SecondsApart ==
    ASSUME epoch \in Nat, NEW m \in Nat
    PROVE  /\ Ahead \in Int /\ Ours(m) \in Nat /\ Theirs(m) \in Int
           /\ \E c \in {0, 1} : Theirs(m) = Ahead + Ours(m) + c
  <1>1. Ahead \in Int /\ Theirs(m) \in Int
    BY NetConstants, DivMod DEF Ahead, Theirs
  <1>2. Ours(m) \in Nat
    BY NetConstants, Division DEF Ours
  <1>3. \E c \in {0, 1} : Theirs(m) = Ahead + Ours(m) + c
    BY NetConstants, DivSum DEF Ahead, Theirs, Ours
  <1> QED
    BY <1>1, <1>2, <1>3

LEMMA SecondsPass ==
    ASSUME NEW m \in Nat, NEW n \in Nat, m <= n
    PROVE  Ours(m) <= Ours(n) /\ Ours(n) <= Ours(m) + ((n - m) \div PerSecond) + 1
  <1>1. PICK d \in Nat : d = n - m /\ n = m + d
    <2>1. n - m \in Nat /\ n = m + (n - m)
      OBVIOUS
    <2> QED
      BY <2>1
  <1>2. PICK c \in {0, 1} : (m + d) \div PerSecond = (m \div PerSecond) + (d \div PerSecond) + c
    BY NetConstants, DivSum
  <1>3. d \div PerSecond \in Nat /\ m \div PerSecond \in Nat
    BY NetConstants, Division
  <1>4. PICK i \in Nat, j \in Nat : i = d \div PerSecond /\ j = m \div PerSecond
    BY <1>3
  <1>5. Ours(n) = j + i + c /\ Ours(m) = j
    BY <1>1, <1>2, <1>4 DEF Ours
  <1> QED
    BY <1>1, <1>4, <1>5

\* The types; the stamps of the request under way.
NetType ==
    /\ netMillis \in Nat /\ epoch \in Nat /\ set \in BOOLEAN
    /\ stage \in {"idle", "sent", "served", "answered", "shown"}
    /\ trip \in [from : Nat, to : Nat] /\ trip.from <= trip.to /\ trip.to <= netMillis

Served(r) ==
    \E m \in Nat : trip.from <= m /\ m <= netMillis /\ Counts(r, Theirs(m))

Answered(r, t) ==
    \E m \in Nat, n \in Nat :
        /\ trip.from <= m /\ m <= n /\ n <= netMillis
        /\ Counts(r, Theirs(m)) /\ Counts(t, Theirs(n))

Asked ==
    \E o, r, t :
        /\ stamps = [originate |-> o, receive |-> r, transmit |-> t]
        /\ stage \in {"sent", "served", "answered"} =>
              ~set /\ \E c \in {0, 1} : Counts(o, Ours(trip.from) + c)
        /\ stage = "served" => Served(r)
        /\ stage = "answered" => Answered(r, t)

\* Twice what the reference is off, and what a time read is.
Near(x, l) ==
    \E w \in Int : -6 - l <= 2 * w /\ 2 * w <= 6 + l /\ Counts(x, Ahead + w)

SetNear == Near(reference, Net!Trip)

ReadNear ==
    \E x \in Int, v \in Int :
        /\ -8 - Net!Trip <= 2 * x /\ 2 * x <= 10 + Net!Trip
        /\ read.was = v /\ Counts(read.is, v + x)

NetInv ==
    /\ NetType /\ Asked
    /\ ~set => reference = Net!NoStamp /\ read = <<>>
    /\ set /\ Net!NoWrap => SetNear
    /\ read # <<>> /\ Net!NoWrap => ReadNear

LEMMA TripType ==
    ASSUME NetType PROVE Net!Trip \in Nat /\ 1 <= Net!Trip
  <1>1. PICK d \in Nat : d = trip.to - trip.from
    <2>1. trip.to - trip.from \in Nat
      BY DEF NetType
    <2> QED
      BY <2>1
  <1>2. PICK k \in Nat : k = d \div PerSecond
    BY NetConstants, Division
  <1> QED
    BY <1>1, <1>2 DEF Net!Trip

LEMMA NetStart == MillisInit => NetInv
  <1>1. ASSUME NEW e \in Nat, Net!Begun(e) PROVE NetInv
    <2>1. /\ netMillis = 0 /\ epoch = e /\ reference = Net!NoStamp /\ set = FALSE /\ stage = "idle"
          /\ stamps = Net!NoStamps /\ trip = [from |-> 0, to |-> 0] /\ read = <<>>
      BY <1>1 DEF Net!Begun
    <2>2. NetType
      <3>1. trip \in [from : Nat, to : Nat] /\ trip.from = 0 /\ trip.to = 0
        BY <2>1
      <3>2. set \in BOOLEAN /\ stage \in {"idle", "sent", "served", "answered", "shown"}
        BY <2>1, Zenon
      <3>3. netMillis = 0 /\ epoch \in Nat
        BY <2>1
      <3>4. netMillis \in Nat /\ trip.from <= trip.to /\ trip.to <= netMillis
        BY <3>1, <3>3
      <3> QED
        BY <3>1, <3>2, <3>3, <3>4, Zenon DEF NetType
    <2>3. Asked
      BY <2>1, Zenon DEF Asked, Net!NoStamps
    <2> QED
      BY <2>1, <2>2, <2>3 DEF NetInv
  <1>2. ASSUME Net!Begun(0) PROVE NetInv
    BY <1>1, <1>2
  <1>3. ASSUME Net!Init PROVE NetInv
    BY <1>1, <1>3, NetConstants DEF Net!Init
  <1> QED
    BY <1>2, <1>3 DEF MillisInit

LEMMA SameCount ==
    ASSUME NEW x, NEW n \in Int, NEW k \in Int
    PROVE  Counts(x, n + SecondWord * k) <=> Counts(x, n)
  <1>1. (n + SecondWord * k) % SecondWord = n % SecondWord
    BY NetConstants, DivModShift
  <1> QED
    BY <1>1 DEF Counts

\* The four stamps of a request: the server's two between ours.
Stamped(f, m, n, k, o, r, t, d) ==
    /\ f <= m /\ m <= n /\ n <= k
    /\ \E b \in {0, 1} : Counts(o, Ours(f) + b)
    /\ Counts(r, Theirs(m)) /\ Counts(t, Theirs(n))
    /\ \E e \in {0, 1} : Counts(d, Ours(k) + e)

\* They correct the clock to half of the difference of its ways.
LEMMA CorrectionNear ==
    ASSUME epoch \in Nat, NEW f \in Nat, NEW m \in Nat, NEW n \in Nat, NEW k \in Nat,
           NEW l \in Nat, l = ((k - f) \div PerSecond) + 1,
           NEW o, NEW r, NEW t, NEW d, Stamped(f, m, n, k, o, r, t, d),
           l + 2 <= Ahead % SecondWord, (Ahead % SecondWord) + l + 1 < SecondWord
    PROVE  Near(Net!AddNTPtime(Net!Correction(o, r, t, d), Net!NoStamp), l)
  <1> DEFINE s == Ahead % SecondWord
  <1>0. PICK b \in {0, 1}, e \in {0, 1} :
             /\ f <= m /\ m <= n /\ n <= k
             /\ Counts(o, Ours(f) + b) /\ Counts(r, Theirs(m))
             /\ Counts(t, Theirs(n)) /\ Counts(d, Ours(k) + e)
    BY DEF Stamped
  <1>1. PICK i \in Nat, j \in Nat, g \in Nat, h \in Nat, a \in Int :
            i = Ours(f) /\ j = Ours(m) /\ g = Ours(n) /\ h = Ours(k) /\ a = Ahead
    BY SecondsApart
  <1>2. i <= j /\ j <= g /\ g <= h /\ h <= i + l
    <2>1. i <= j /\ j <= g /\ g <= h
      BY <1>1, <1>0, SecondsPass
    <2>2. h <= i + ((k - f) \div PerSecond) + 1
      <3>1. f <= k
        BY <1>0
      <3> QED
        BY <1>1, <3>1, SecondsPass
    <2>3. PICK q \in Nat : q = (k - f) \div PerSecond
      <3>1. k - f \in Nat
        BY <1>0
      <3> QED
        BY <3>1, NetConstants, Division
    <2> QED
      BY <2>1, <2>2, <2>3
  <1>3. PICK u \in {0, 1} : Theirs(m) = a + j + u
    BY <1>1, SecondsApart
  <1>4. PICK v \in {0, 1} : Theirs(n) = a + g + v
    BY <1>1, SecondsApart
  <1>5. PICK c \in {0, 1} : Counts(Net!DiffNTPtime(o, r), (a + j + u) - (i + b) - c)
    <2>1. i + b \in Int /\ a + j + u \in Int /\ Counts(o, i + b) /\ Counts(r, a + j + u)
      BY <1>1, <1>3, <1>0
    <2> QED
      BY <2>1, DiffCounts
  <1>6. PICK p \in {0, 1} : Counts(Net!DiffNTPtime(d, t), (a + g + v) - (h + e) - p)
    <2>1. h + e \in Int /\ a + g + v \in Int /\ Counts(d, h + e) /\ Counts(t, a + g + v)
      BY <1>1, <1>4, <1>0
    <2> QED
      BY <2>1, DiffCounts
  <1>7. PICK x \in Int, y \in Int : x = j + u - i - b - c /\ y = g + v - h - e - p
    <2>1. j + u - i - b - c \in Int /\ g + v - h - e - p \in Int
      OBVIOUS
    <2> QED
      BY <2>1
  <1>8. /\ -2 <= x /\ x <= l + 1 /\ -2 - l <= y /\ y <= 1
        /\ -4 - l <= x + y /\ x + y <= l + 2
    BY <1>2, <1>7
  <1>9. PICK q \in Int, z \in Nat : z = s /\ a = SecondWord * q + z
    <2>1. PICK i1 \in Int, j1 \in Int :
              i1 = a \div SecondWord /\ j1 = a % SecondWord /\ 0 <= j1 /\ a = SecondWord * i1 + j1
      BY NetConstants, DivMod
    <2>2. j1 = s
      BY <1>1, <2>1
    <2> QED
      BY <2>1, <2>2
  <1>10. \A w \in Int : \A stamp : Counts(stamp, a + w) <=> Counts(stamp, z + w)
    <2>1. ASSUME NEW w \in Int, NEW stamp PROVE Counts(stamp, a + w) <=> Counts(stamp, z + w)
      <3>1. PICK n1 \in Int : n1 = z + w
        OBVIOUS
      <3>2. a + w = n1 + SecondWord * q
        BY <1>9, <3>1, NetConstants
      <3> QED
        BY <3>1, <3>2, SameCount
    <2> QED
      BY <2>1
  <1>11. Counts(Net!DiffNTPtime(o, r), z + x) /\ Counts(Net!DiffNTPtime(d, t), z + y)
    <2>1. (a + j + u) - (i + b) - c = a + x /\ (a + g + v) - (h + e) - p = a + y
      BY <1>7
    <2> QED
      BY <1>5, <1>6, <1>10, <2>1
  <1>12. 0 <= z + x /\ z + x < SecondWord /\ 0 <= z + y /\ z + y < SecondWord
    BY <1>8, <1>9, NetConstants
  <1>13. PICK w \in Int : /\ x + y - 2 <= 2 * w /\ 2 * w <= x + y + 2
                          /\ Counts(Net!Correction(o, r, t, d), z + w)
    BY <1>11, <1>12, HalfCounts DEF Net!Correction
  <1>14. PICK n2 \in {0, 1} :
             Counts(Net!AddNTPtime(Net!Correction(o, r, t, d), Net!NoStamp), (z + w) + 0 + n2)
    <2>1. z + w \in Int
      OBVIOUS
    <2> QED
      BY <1>13, <2>1, FixedCounts, AddCounts
  <1>15. PICK w2 \in Int : w2 = w + n2
    OBVIOUS
  <1>16. (z + w) + 0 + n2 = z + w2 /\ -6 - l <= 2 * w2 /\ 2 * w2 <= 6 + l
    BY <1>8, <1>13, <1>15
  <1> QED
    BY <1>1, <1>10, <1>14, <1>16 DEF Near

\* A time that is given, in UTC or in local time.
LEMMA GivenNear ==
    ASSUME epoch \in Nat, NEW m \in Nat, NEW sys, Counts(sys, Ours(m)), NEW given,
           NEW local \in BOOLEAN,
           given = Net!Clock(epoch + m + IF local THEN Net!UtcOffset * PerSecond ELSE 0)
    PROVE  \E w \in Int :
               /\ -2 <= w /\ w <= 1
               /\ Counts(Net!DiffNTPtime(sys,
                             IF local THEN Net!DiffNTPtime(Net!LocalOffset, given) ELSE given),
                         Ahead + w)
  <1>1. PICK i \in Nat, a \in Int, h \in Int : i = Ours(m) /\ a = Ahead /\ h = Theirs(m)
    BY SecondsApart
  <1>2. PICK u \in {0, 1} : h = a + i + u
    BY <1>1, SecondsApart
  <1>3. CASE ~local
    <2>1. given = Net!Clock(epoch + m)
      BY <1>3
    <2>2. Counts(given, h)
      BY <1>1, <2>1, ClockCounts DEF Theirs
    <2>3. PICK c \in {0, 1} : Counts(Net!DiffNTPtime(sys, given), h - i - c)
      BY <1>1, <2>2, DiffCounts
    <2>4. PICK w \in Int : w = u - c
      OBVIOUS
    <2>5. h - i - c = a + w /\ -2 <= w /\ w <= 1
      BY <1>2, <2>4
    <2> QED
      BY <1>1, <1>3, <2>3, <2>5
  <1>4. CASE local
    <2>1. PICK k \in Int, n \in Int : k = -West /\ n = epoch + m
      <3>1. -West \in Int /\ epoch + m \in Int
        BY NetConstants
      <3> QED
        BY <3>1
    <2>2. given = Net!Clock(n + PerSecond * k)
      <3>1. epoch + m + Net!UtcOffset * PerSecond = n + PerSecond * k
        BY <2>1, NetConstants DEF Net!UtcOffset
      <3> QED
        BY <1>4, <3>1
    <2>3. (n + PerSecond * k) \div PerSecond = h + k
      BY <1>1, <2>1, NetConstants, DivModShift DEF Theirs
    <2>4. Counts(given, h + k) /\ Counts(Net!LocalOffset, k)
      BY <2>1, <2>2, <2>3, ClockCounts, FixedCounts
    <2>5. PICK c \in {0, 1} : Counts(Net!DiffNTPtime(Net!LocalOffset, given), (h + k) - k - c)
      <3>1. h + k \in Int
        OBVIOUS
      <3> QED
        BY <2>4, <3>1, DiffCounts
    <2>6. PICK x \in Int : x = h - c
      OBVIOUS
    <2>7. (h + k) - k - c = x
      BY <2>6
    <2>8. PICK d \in {0, 1} :
              Counts(Net!DiffNTPtime(sys, Net!DiffNTPtime(Net!LocalOffset, given)), x - i - d)
      BY <1>1, <2>5, <2>7, DiffCounts
    <2>9. PICK w \in Int : w = u - c - d
      OBVIOUS
    <2>10. x - i - d = a + w /\ -2 <= w /\ w <= 1
      BY <1>2, <2>6, <2>9
    <2> QED
      BY <1>1, <1>4, <2>8, <2>10
  <1> QED
    BY <1>3, <1>4

\* A time that is read.
LEMMA TimeNear ==
    ASSUME epoch \in Nat, NEW m \in Nat, NEW sys, Counts(sys, Ours(m)), NEW l \in Nat,
           NEW w \in Int, -6 - l <= 2 * w, 2 * w <= 6 + l, NEW ref, Counts(ref, Ahead + w),
           NEW local \in BOOLEAN
    PROVE  \E x \in Int, v \in Int :
               /\ -8 - l <= 2 * x /\ 2 * x <= 10 + l
               /\ v = Theirs(m) + IF local THEN Net!UtcOffset ELSE 0
               /\ Counts(Net!NTPGetTime(ref, sys, local), v + x)
  <1>1. PICK i \in Nat, a \in Int, h \in Int : i = Ours(m) /\ a = Ahead /\ h = Theirs(m)
    BY SecondsApart
  <1>2. PICK u \in {0, 1} : h = a + i + u
    BY <1>1, SecondsApart
  <1>3. PICK n \in Int : n = a + w /\ Counts(ref, n)
    BY <1>1
  <1>4. CASE ~local
    <2>1. PICK c \in {0, 1} : Counts(Net!AddNTPtime(sys, ref), n + i + c)
      <3>1. Counts(sys, i)
        BY <1>1
      <3> QED
        BY <1>3, <3>1, UtcCounts
    <2>2. PICK x \in Int : x = w + c - u
      OBVIOUS
    <2>3. n + i + c = h + x /\ -8 - l <= 2 * x /\ 2 * x <= 10 + l
      BY <1>2, <1>3, <2>2
    <2>4. Net!NTPGetTime(ref, sys, local) = Net!AddNTPtime(sys, ref)
      BY <1>4, GetTimeIs
    <2>5. h = Theirs(m) + IF local THEN Net!UtcOffset ELSE 0
      BY <1>1, <1>4
    <2> QED
      BY <2>1, <2>3, <2>4, <2>5
  <1>5. CASE local
    <2>1. PICK c \in {0, 1, 2} :
              Counts(Net!AddNTPtime(Net!LocalOffset, Net!AddNTPtime(sys, ref)), n + i - West + c)
      <3>1. Counts(sys, i)
        BY <1>1
      <3> QED
        BY <1>3, <3>1, LocalCounts
    <2>2. PICK x \in Int : x = w + c - u
      OBVIOUS
    <2>3. PICK v \in Int : v = h - West
      BY NetConstants
    <2>4. n + i - West + c = v + x /\ -8 - l <= 2 * x /\ 2 * x <= 10 + l
      BY <1>2, <1>3, <2>2, <2>3, NetConstants
    <2>5. Net!NTPGetTime(ref, sys, local)
              = Net!AddNTPtime(Net!LocalOffset, Net!AddNTPtime(sys, ref))
      BY <1>5, GetTimeIs
    <2>6. v = Theirs(m) + IF local THEN Net!UtcOffset ELSE 0
      BY <1>1, <1>5, <2>3, NetConstants DEF Net!UtcOffset
    <2> QED
      BY <2>1, <2>3, <2>4, <2>5, <2>6
  <1> QED
    BY <1>4, <1>5

---------------------------------------------------------------------------
(* A step of the clock of sntp.cpp.                                          *)
LEMMA SystemIs ==
    ASSUME netMillis \in Nat, NEW system, Net!System(system)
    PROVE  Counts(system, Ours(netMillis)) /\ netMillis' \in Nat /\ netMillis <= netMillis'
  <1>1. system = Net!GetSystemClockAsNTPTime(netMillis, netMillis')
        /\ netMillis' \in netMillis..(netMillis + 1)
    BY Zenon DEF Net!System
  <1>2. Counts(system, Ours(netMillis))
    BY <1>1, SystemCounts, Zenon DEF Ours
  <1> QED
    BY <1>1, <1>2

LEMMA TypeStays ==
    ASSUME NetType, UNCHANGED <<epoch, set, trip>>, netMillis' \in Nat, netMillis <= netMillis',
           stage' \in {"idle", "sent", "served", "answered", "shown"}
    PROVE  NetType'
  <1>1. trip'.to <= netMillis'
    BY DEF NetType
  <1> QED
    BY <1>1 DEF NetType

LEMMA AskedStays ==
    ASSUME NetType, Asked, UNCHANGED <<epoch, set, stage, stamps, trip>>,
           netMillis' \in Nat, netMillis <= netMillis'
    PROVE  Asked'
  <1>1. PICK o, r, t :
            /\ stamps = [originate |-> o, receive |-> r, transmit |-> t]
            /\ stage \in {"sent", "served", "answered"} =>
                  ~set /\ \E c \in {0, 1} : Counts(o, Ours(trip.from) + c)
            /\ stage = "served" => Served(r)
            /\ stage = "answered" => Answered(r, t)
    BY Zenon DEF Asked
  <1>2. Served(r) => Served(r)'
    BY DEF Served, NetType, Theirs
  <1>3. Answered(r, t) => Answered(r, t)'
    BY DEF Answered, NetType, Theirs
  <1> QED
    BY <1>1, <1>2, <1>3, Zenon DEF Asked

\* No request is under way: nothing is asked of its stamps.
LEMMA NotAsked ==
    ASSUME NEW o, NEW r, NEW t, stamps' = [originate |-> o, receive |-> r, transmit |-> t],
           stage' \in {"idle", "shown"}
    PROVE  Asked'
  BY DEF Asked

LEMMA NetFrame ==
    ASSUME NetInv, UNCHANGED <<epoch, set, reference, read, trip>>, NetType', Asked'
    PROVE  NetInv'
  <1>1. Net!Trip' = Net!Trip /\ (Net!NoWrap' <=> Net!NoWrap)
    BY DEF Net!Trip, Net!NoWrap, Net!InWord
  <1>2. (SetNear' <=> SetNear) /\ (ReadNear' <=> ReadNear)
    BY <1>1 DEF SetNear, Near, ReadNear, Ahead
  <1> QED
    BY <1>1, <1>2, Zenon DEF NetInv

LEMMA NetUnset ==
    ASSUME NetInv, ~set, ~set', UNCHANGED <<reference, read>>, NetType', Asked'
    PROVE  NetInv'
  BY DEF NetInv

LEMMA NetTick ==
    ASSUME NetInv, Net!Tick PROVE NetInv'
  <1>1. /\ netMillis' = netMillis + 1
        /\ UNCHANGED <<epoch, reference, set, stage, stamps, trip, read>>
    BY Zenon DEF Net!Tick
  <1>2. NetType /\ Asked /\ netMillis \in Nat
        /\ stage' \in {"idle", "sent", "served", "answered", "shown"}
    BY <1>1, Zenon DEF NetInv, NetType
  <1>3. netMillis' \in Nat /\ netMillis <= netMillis'
    BY <1>1, <1>2
  <1>4. NetType' /\ Asked'
    BY <1>1, <1>2, <1>3, TypeStays, AskedStays
  <1> QED
    BY <1>1, <1>4, NetFrame

LEMMA NetRequest ==
    ASSUME NetInv, Net!Request PROVE NetInv'
  <1>1. PICK system :
            /\ Net!System(system)
            /\ stamps' = [stamps EXCEPT !.originate = Net!NTPGetTime(reference, system, FALSE)]
    BY Zenon DEF Net!Request
  <1>2. /\ ~set /\ stage' = "sent" /\ trip' = [from |-> netMillis, to |-> netMillis]
        /\ UNCHANGED <<epoch, reference, set, read>>
    BY Zenon DEF Net!Request
  <1>3. NetType /\ Asked /\ netMillis \in Nat /\ epoch \in Nat /\ reference = Net!NoStamp
    BY <1>2, Zenon DEF NetInv, NetType
  <1>4. Counts(system, Ours(netMillis)) /\ netMillis' \in Nat /\ netMillis <= netMillis'
    BY <1>1, <1>3, SystemIs
  <1>5. Net!NTPGetTime(reference, system, FALSE) = Net!AddNTPtime(system, Net!NoStamp)
    BY <1>3, Zenon DEF Net!NTPGetTime
  <1>6. PICK c \in {0, 1} : Counts(Net!AddNTPtime(system, Net!NoStamp), 0 + Ours(netMillis) + c)
    <2>1. PICK i \in Nat : i = Ours(netMillis)
      BY <1>3, SecondsApart
    <2> QED
      BY <1>4, <2>1, FixedCounts, UtcCounts
  <1>7. PICK o, r, t : stamps = [originate |-> o, receive |-> r, transmit |-> t]
    BY <1>3, Zenon DEF Asked
  <1>8. stamps' = [originate |-> Net!AddNTPtime(system, Net!NoStamp), receive |-> r, transmit |-> t]
    BY <1>1, <1>5, <1>7
  <1>9. trip'.from = netMillis /\ trip'.to = netMillis
    BY <1>2
  <1>10. Counts(Net!AddNTPtime(system, Net!NoStamp), Ours(trip'.from) + c)
    <2>1. PICK i \in Nat : i = Ours(netMillis)
      BY <1>3, SecondsApart
    <2>2. 0 + i + c = i + c
      OBVIOUS
    <2> QED
      BY <1>6, <1>9, <2>1, <2>2
  <1>11. Asked'
    BY <1>2, <1>8, <1>10 DEF Asked, Ours
  <1>12. NetType'
    BY <1>2, <1>3, <1>4, <1>9 DEF NetType
  <1> QED
    BY <1>2, <1>11, <1>12, NetUnset

LEMMA NetServerReceives ==
    ASSUME NetInv, Net!ServerReceives PROVE NetInv'
  <1>1. /\ stage = "sent" /\ stage' = "served"
        /\ stamps' = [stamps EXCEPT !.receive = Net!Clock(epoch + netMillis)]
        /\ UNCHANGED <<netMillis, epoch, reference, set, trip, read>>
    BY Zenon DEF Net!ServerReceives
  <1>2. NetType /\ Asked /\ netMillis \in Nat
    BY Zenon DEF NetInv, NetType
  <1>3. PICK o, r, t :
            /\ stamps = [originate |-> o, receive |-> r, transmit |-> t]
            /\ ~set /\ \E c \in {0, 1} : Counts(o, Ours(trip.from) + c)
    BY <1>1, <1>2, Zenon DEF Asked
  <1>4. stamps' = [originate |-> o, receive |-> Net!Clock(epoch + netMillis), transmit |-> t]
    BY <1>1, <1>3
  <1>5. Served(Net!Clock(epoch + netMillis))'
    <2>1. Counts(Net!Clock(epoch + netMillis), Theirs(netMillis))
      BY ClockCounts, Zenon DEF Theirs
    <2>2. trip.from <= netMillis
      BY <1>2 DEF NetType
    <2> QED
      BY <1>1, <1>2, <2>1, <2>2 DEF Served, Theirs
  <1>6. Asked'
    BY <1>1, <1>3, <1>4, <1>5 DEF Asked
  <1>7. NetType'
    BY <1>1, <1>2 DEF NetType
  <1> QED
    BY <1>1, <1>6, <1>7, NetFrame

LEMMA NetServerTransmits ==
    ASSUME NetInv, Net!ServerTransmits PROVE NetInv'
  <1>1. /\ stage = "served" /\ stage' = "answered"
        /\ stamps' = [stamps EXCEPT !.transmit = Net!Clock(epoch + netMillis)]
        /\ UNCHANGED <<netMillis, epoch, reference, set, trip, read>>
    BY Zenon DEF Net!ServerTransmits
  <1>2. NetType /\ Asked /\ netMillis \in Nat
    BY Zenon DEF NetInv, NetType
  <1>3. PICK o, r, t :
            /\ stamps = [originate |-> o, receive |-> r, transmit |-> t]
            /\ ~set /\ \E c \in {0, 1} : Counts(o, Ours(trip.from) + c)
            /\ Served(r)
    BY <1>1, <1>2, Zenon DEF Asked
  <1>4. stamps' = [originate |-> o, receive |-> r, transmit |-> Net!Clock(epoch + netMillis)]
    BY <1>1, <1>3
  <1>5. Answered(r, Net!Clock(epoch + netMillis))'
    <2>1. Counts(Net!Clock(epoch + netMillis), Theirs(netMillis))
      BY ClockCounts, Zenon DEF Theirs
    <2>2. PICK m \in Nat : trip.from <= m /\ m <= netMillis /\ Counts(r, Theirs(m))
      BY <1>3 DEF Served
    <2> QED
      BY <1>1, <1>2, <2>1, <2>2 DEF Answered, Theirs
  <1>6. Asked'
    BY <1>1, <1>3, <1>4, <1>5 DEF Asked
  <1>7. NetType'
    BY <1>1, <1>2 DEF NetType
  <1> QED
    BY <1>1, <1>6, <1>7, NetFrame

LEMMA NetNoAnswer ==
    ASSUME NetInv, Net!NoAnswer PROVE NetInv'
  <1>1. /\ stage' = "idle" /\ stamps' = Net!NoStamps
        /\ UNCHANGED <<netMillis, epoch, reference, set, trip, read>>
    BY Zenon DEF Net!NoAnswer
  <1>2. Asked'
    BY <1>1, NotAsked DEF Net!NoStamps
  <1>3. NetType'
    BY <1>1 DEF NetInv, NetType
  <1> QED
    BY <1>1, <1>2, <1>3, NetFrame

LEMMA NetAnswer ==
    ASSUME NetInv, Net!Answer PROVE NetInv'
  <1>1. PICK system :
            /\ Net!System(system)
            /\ reference' = Net!AddNTPtime(
                   Net!Correction(stamps.originate, stamps.receive, stamps.transmit,
                                  Net!NTPGetTime(reference, system, FALSE)), reference)
    BY Zenon DEF Net!Answer
  <1>2. /\ stage = "answered" /\ stage' = "idle" /\ stamps' = Net!NoStamps
        /\ set' = TRUE /\ trip' = [trip EXCEPT !.to = netMillis] /\ UNCHANGED <<epoch, read>>
    BY Zenon DEF Net!Answer
  <1>3. NetType /\ Asked /\ netMillis \in Nat /\ epoch \in Nat
    BY Zenon DEF NetInv, NetType
  <1>4. PICK o, r, t :
            /\ stamps = [originate |-> o, receive |-> r, transmit |-> t]
            /\ ~set /\ (\E c \in {0, 1} : Counts(o, Ours(trip.from) + c))
            /\ Answered(r, t)
    BY <1>2, <1>3, Zenon DEF Asked
  <1>5. reference = Net!NoStamp /\ read = <<>>
    BY <1>4, Zenon DEF NetInv
  <1>6. PICK f \in Nat, k \in Nat :
            f = trip.from /\ k = netMillis /\ trip' = [from |-> f, to |-> k] /\ f <= k
    BY <1>2, <1>3 DEF NetType
  <1>7. NetType'
    <2>1. netMillis' \in Nat /\ netMillis <= netMillis'
      BY <1>1, <1>3, SystemIs
    <2>2. trip'.from = f /\ trip'.to = k /\ trip' \in [from : Nat, to : Nat]
      BY <1>6
    <2> QED
      BY <1>2, <1>3, <1>6, <2>1, <2>2 DEF NetType
  <1>8. Asked'
    BY <1>2, NotAsked DEF Net!NoStamps
  <1>9. PICK d : d = Net!NTPGetTime(reference, system, FALSE) /\ d = Net!AddNTPtime(system, Net!NoStamp)
    BY <1>5, Zenon DEF Net!NTPGetTime
  <1>10. PICK e \in {0, 1} : Counts(d, Ours(k) + e)
    <2>1. PICK i \in Nat : i = Ours(k) /\ Counts(system, i)
      BY <1>1, <1>3, <1>6, SecondsApart, SystemIs
    <2>2. PICK e \in {0, 1} : Counts(Net!AddNTPtime(system, Net!NoStamp), 0 + i + e)
      BY <2>1, FixedCounts, UtcCounts
    <2>3. 0 + i + e = i + e
      OBVIOUS
    <2> QED
      BY <1>9, <2>1, <2>2, <2>3
  <1>11. PICK b \in {0, 1} : Counts(o, Ours(f) + b)
    BY <1>4, <1>6
  <1>12. PICK m \in Nat, n \in Nat :
             f <= m /\ m <= n /\ n <= k /\ Counts(r, Theirs(m)) /\ Counts(t, Theirs(n))
    BY <1>4, <1>6 DEF Answered
  <1>13. reference' = Net!AddNTPtime(Net!Correction(o, r, t, d), Net!NoStamp)
    BY <1>1, <1>4, <1>5, <1>9
  <1>14. PICK l \in Nat : l = Net!Trip' /\ l = ((k - f) \div PerSecond) + 1
    <2>1. PICK c \in Nat : c = k - f
      <3>1. k - f \in Nat
        BY <1>6
      <3> QED
        BY <3>1
    <2>2. PICK h \in Nat : h = c \div PerSecond
      BY <2>1, NetConstants, Division
    <2>3. Net!Trip' = h + 1
      BY <1>6, <2>1, <2>2 DEF Net!Trip
    <2> QED
      BY <2>1, <2>2, <2>3
  <1>15. Net!NoWrap' => l + 2 <= Ahead % SecondWord /\ (Ahead % SecondWord) + l + 1 < SecondWord
    BY <1>2, <1>14 DEF Net!NoWrap, Net!InWord, Ahead
  <1>16. Net!NoWrap' => SetNear'
    <2>1. Stamped(f, m, n, k, o, r, t, d)
      BY <1>10, <1>11, <1>12 DEF Stamped
    <2>2. ASSUME Net!NoWrap' PROVE Near(reference', l)
      BY <1>3, <1>13, <1>14, <1>15, <2>1, <2>2, CorrectionNear
    <2> QED
      BY <1>2, <1>14, <2>2 DEF SetNear, Near, Ahead
  <1> QED
    BY <1>2, <1>5, <1>7, <1>8, <1>16 DEF NetInv

LEMMA NetSetTime ==
    ASSUME NetInv, Net!NTPSetTime PROVE NetInv'
  <1>0. PICK system \in Net!Systems, local \in BOOLEAN :
            /\ Net!System(system)
            /\ LET given == Net!Clock(epoch + netMillis
                                        + IF local THEN Net!UtcOffset * PerSecond ELSE 0) IN
               reference' = Net!DiffNTPtime(system,
                   IF local THEN Net!DiffNTPtime(Net!LocalOffset, given) ELSE given)
    BY Zenon DEF Net!NTPSetTime
  <1>1. PICK given :
            /\ given = Net!Clock(epoch + netMillis + IF local THEN Net!UtcOffset * PerSecond ELSE 0)
            /\ reference' = Net!DiffNTPtime(system,
                   IF local THEN Net!DiffNTPtime(Net!LocalOffset, given) ELSE given)
    BY <1>0
  <1>2. /\ ~set /\ set' = TRUE /\ stage = "idle"
        /\ UNCHANGED <<epoch, stage, stamps, trip, read>>
    BY Zenon DEF Net!NTPSetTime
  <1>3. NetType /\ Asked /\ netMillis \in Nat /\ epoch \in Nat /\ read = <<>>
    BY <1>2, Zenon DEF NetInv, NetType
  <1>4. Counts(system, Ours(netMillis)) /\ netMillis' \in Nat /\ netMillis <= netMillis'
    BY <1>0, <1>3, SystemIs
  <1>5. NetType'
    BY <1>2, <1>3, <1>4 DEF NetType
  <1>6. Asked'
    <2>1. PICK o, r, t : stamps = [originate |-> o, receive |-> r, transmit |-> t]
      BY <1>3, Zenon DEF Asked
    <2> QED
      BY <1>2, <2>1, NotAsked
  <1>7. SetNear'
    <2>1. PICK l \in Nat : l = Net!Trip' /\ 1 <= l
      <3>1. Net!Trip' = Net!Trip
        BY <1>2 DEF Net!Trip
      <3> QED
        BY <1>3, <3>1, TripType
    <2>2. PICK w \in Int : -2 <= w /\ w <= 1 /\ Counts(reference', Ahead + w)
      BY <1>1, <1>3, <1>4, GivenNear
    <2>3. -6 - l <= 2 * w /\ 2 * w <= 6 + l
      <3>1. 1 <= l /\ -2 <= w /\ w <= 1
        BY <2>1, <2>2
      <3> QED
        BY <3>1
    <2> QED
      BY <1>2, <2>1, <2>2, <2>3 DEF SetNear, Near, Ahead
  <1> QED
    BY <1>2, <1>3, <1>5, <1>6, <1>7 DEF NetInv

LEMMA NetReadTime ==
    ASSUME NetInv, Net!ReadTime PROVE NetInv'
  <1>1. PICK system \in Net!Systems, local \in BOOLEAN :
            /\ Net!System(system)
            /\ read' = [is |-> Net!NTPGetTime(reference, system, local),
                        was |-> (epoch + netMillis) \div PerSecond
                                    + IF local THEN Net!UtcOffset ELSE 0]
    BY Zenon DEF Net!ReadTime
  <1>2. /\ set /\ stage = "idle"
        /\ UNCHANGED <<epoch, reference, set, stage, stamps, trip>>
    BY Zenon DEF Net!ReadTime
  <1>3. NetType /\ Asked /\ netMillis \in Nat /\ epoch \in Nat /\ (Net!NoWrap => SetNear)
    BY <1>2, Zenon DEF NetInv, NetType
  <1>4. Counts(system, Ours(netMillis)) /\ netMillis' \in Nat /\ netMillis <= netMillis'
    BY <1>1, <1>3, SystemIs
  <1>5. NetType'
    BY <1>2, <1>3, <1>4 DEF NetType
  <1>6. Asked'
    BY <1>2, <1>3, <1>4, AskedStays
  <1>7. Net!Trip' = Net!Trip /\ (Net!NoWrap' <=> Net!NoWrap) /\ (SetNear => SetNear')
    <2>1. Net!Trip' = Net!Trip
      BY <1>2 DEF Net!Trip
    <2> QED
      BY <1>2, <2>1 DEF Net!NoWrap, Net!InWord, SetNear, Near, Ahead
  <1>8. ASSUME Net!NoWrap' PROVE ReadNear'
    <2>1. PICK l \in Nat : l = Net!Trip'
      BY <1>3, <1>7, TripType
    <2>2. PICK w \in Int : -6 - l <= 2 * w /\ 2 * w <= 6 + l /\ Counts(reference, Ahead + w)
      BY <1>3, <1>7, <1>8, <2>1 DEF SetNear, Near
    <2>3. PICK x \in Int, v \in Int :
              /\ -8 - l <= 2 * x /\ 2 * x <= 10 + l
              /\ v = Theirs(netMillis) + IF local THEN Net!UtcOffset ELSE 0
              /\ Counts(Net!NTPGetTime(reference, system, local), v + x)
      BY <1>3, <1>4, <2>2, TimeNear
    <2>4. read'.is = Net!NTPGetTime(reference, system, local) /\ read'.was = v
      BY <1>1, <2>3 DEF Theirs
    <2> QED
      BY <2>1, <2>3, <2>4 DEF ReadNear
  <1> QED
    BY <1>2, <1>3, <1>5, <1>6, <1>7, <1>8 DEF NetInv

LEMMA NetExtract ==
    ASSUME NetInv, Net!ExtractNTPTime PROVE NetInv'
  <1>1. /\ stage = "idle" /\ stage' = "shown"
        /\ UNCHANGED <<netMillis, epoch, reference, set, stamps, trip, read>>
    BY Zenon DEF Net!ExtractNTPTime
  <1>2. NetType /\ Asked
    BY Zenon DEF NetInv
  <1>3. Asked'
    <2>1. PICK o, r, t : stamps = [originate |-> o, receive |-> r, transmit |-> t]
      BY <1>2, Zenon DEF Asked
    <2> QED
      BY <1>1, <2>1, NotAsked
  <1>4. NetType'
    BY <1>1, <1>2 DEF NetType
  <1> QED
    BY <1>1, <1>3, <1>4, NetFrame

LEMMA NetStep ==
    NetInv /\ [MillisNext]_<<user, vars, wallVars, netVars>> => NetInv'
  <1> SUFFICES ASSUME NetInv, [MillisNext]_<<user, vars, wallVars, netVars>> PROVE NetInv'
    OBVIOUS
  <1>1. CASE UNCHANGED netVars
    <2>1. UNCHANGED <<netMillis, epoch, reference, set, stage, stamps, trip, read>>
      BY <1>1 DEF netVars
    <2>2. NetType /\ Asked /\ netMillis \in Nat
      BY Zenon DEF NetInv, NetType
    <2>3. NetType'
      BY <2>1, <2>2 DEF NetType
    <2>4. netMillis' \in Nat /\ netMillis <= netMillis'
      BY <2>1, <2>2
    <2>5. Asked'
      BY <2>1, <2>2, <2>4, AskedStays
    <2> QED
      BY <2>1, <2>3, <2>5, NetFrame
  <1>2. CASE Net!Next
    BY <1>2, NetTick, NetRequest, NetServerReceives, NetServerTransmits, NetNoAnswer,
       NetAnswer, NetSetTime, NetReadTime, NetExtract, Zenon DEF Net!Next
  <1>3. UNCHANGED netVars \/ Net!Next
    <2>1. CASE MillisNext
      BY <2>1, Zenon DEF MillisNext
    <2>2. CASE UNCHANGED <<user, vars, wallVars, netVars>>
      BY <2>2
    <2> QED
      BY <2>1, <2>2
  <1> QED
    BY <1>1, <1>2, <1>3

\* The difference of two seconds, in their word.
LEMMA OffIs ==
    ASSUME NEW v \in Int, NEW x \in Int, NEW s, s = (v + x) % SecondWord,
           NEW l \in Nat, -8 - l <= 2 * x, 2 * x <= 10 + l
    PROVE  Net!Off(s, v) \in -(5 + (l \div 2))..(5 + (l \div 2))
  <1>1. PICK h \in Nat, p \in Nat : p = SecondWord /\ h = p \div 2 /\ p = 2 * h /\ 0 < p /\ 0 < h
    BY NetConstants
  <1>2. PICK b \in Nat : b = 5 + (l \div 2) /\ -b <= x /\ x <= b
    <2>1. PICK i \in Nat : i = l \div 2 /\ 2 * i <= l /\ l <= 2 * i + 1
      OBVIOUS
    <2>2. -(5 + i) <= x /\ x <= 5 + i
      BY <2>1
    <2> QED
      BY <2>1, <2>2
  <1>3. PICK q \in Int, n \in Int : 0 <= n /\ n < p /\ n = x % p /\ x = p * q + n
    <2>1. PICK i \in Int, j \in Int :
              i = x \div p /\ j = x % p /\ 0 <= j /\ j < p /\ x = p * i + j
      BY <1>1, DivMod
    <2> QED
      BY <2>1
  <1>4. (s - v) % SecondWord = n
    <2>1. PICK y \in Int : y = v + x
      OBVIOUS
    <2>2. PICK i \in Int, j \in Int : i = y \div p /\ j = y % p /\ y = p * i + j
      BY <1>1, DivMod
    <2>3. PICK c \in Int, g \in Int : c = j - v /\ g = -i
      <3>1. j - v \in Int /\ -i \in Int
        OBVIOUS
      <3> QED
        BY <3>1
    <2>4. c = x + p * g
      BY <2>1, <2>2, <2>3
    <2>5. c % p = n
      BY <1>1, <1>3, <2>4, DivModShift
    <2>6. s = j
      BY <1>1, <2>1, <2>2
    <2> QED
      BY <1>1, <2>3, <2>5, <2>6
  <1>5. Net!Off(s, v) = IF n >= h THEN n - p ELSE n
    BY <1>1, <1>4 DEF Net!Off, Net!InWord
  <1>6. PICK z \in Int : z = (IF n >= h THEN n - p ELSE n) /\ -h <= z /\ z < h
    BY <1>1, <1>3
  <1>7. CASE b >= h
    BY <1>2, <1>5, <1>6, <1>7
  <1>8. CASE b < h
    <2>1. -h < x /\ x < h
      BY <1>2, <1>8
    <2>2. CASE 0 <= x
      <3>1. x = p * 0 + x /\ x < p
        BY <1>1, <2>1
      <3>2. n = x
        BY <1>1, <1>3, <2>2, <3>1, DivModIs
      <3> QED
        BY <1>1, <1>2, <1>5, <2>1, <2>2, <3>2
    <2>3. CASE x < 0
      <3>1. PICK y \in Int, k \in Int : y = x + p /\ k = -1 /\ 0 <= y /\ y < p /\ x = p * k + y
        <4>1. x + p \in Int /\ -1 \in Int /\ 0 <= x + p /\ x + p < p /\ x = p * (-1) + (x + p)
          BY <1>1, <2>1, <2>3
        <4> QED
          BY <4>1
      <3>2. n = y
        BY <1>1, <1>3, <3>1, DivModIs
      <3>3. n >= h /\ n - p = x
        BY <1>1, <2>1, <3>1, <3>2
      <3> QED
        BY <1>2, <1>5, <3>3
    <2> QED
      BY <2>2, <2>3
  <1> QED
    BY <1>1, <1>2, <1>7, <1>8

LEMMA NetInvIs == NetInv => SyncIsServers
  <1> SUFFICES ASSUME NetInv, read # <<>>, Net!NoWrap
               PROVE  Net!Off(read.is.seconds, read.was)
                          \in -(5 + (Net!Trip \div 2))..(5 + (Net!Trip \div 2))
    BY DEF SyncIsServers, Net!SyncIsServers
  <1>1. PICK l \in Nat : l = Net!Trip
    BY TripType DEF NetInv
  <1>2. PICK x \in Int, v \in Int :
            -8 - l <= 2 * x /\ 2 * x <= 10 + l /\ read.was = v /\ Counts(read.is, v + x)
    BY <1>1 DEF NetInv, ReadNear
  <1>3. PICK s : s = read.is.seconds /\ s = (v + x) % SecondWord
    BY <1>2 DEF Counts
  <1>4. Net!Off(s, v) \in -(5 + (l \div 2))..(5 + (l \div 2))
    BY <1>2, <1>3, OffIs
  <1> QED
    BY <1>1, <1>2, <1>3, <1>4

\* SyncIsServers: a clock set by a server, or by a sketch that knows the time, is near
\* the server's in every state, whatever the counts and the word of the seconds are.
THEOREM ServersTime == MillisSpec => []SyncIsServers
  <1>1. MillisInit => NetInv
    BY NetStart
  <1>2. NetInv /\ [MillisNext]_<<user, vars, wallVars, netVars>> => NetInv'
    BY NetStep
  <1>3. NetInv => SyncIsServers
    BY NetInvIs
  <1> QED
    BY <1>1, <1>2, <1>3, PTL DEF MillisSpec
=============================================================================
