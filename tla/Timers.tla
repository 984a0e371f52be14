-------------------------------- MODULE Timers --------------------------------
(***************************************************************************)
(* How the door controller and BBWiFi compare millis(), a counter that      *)
(* starts again at 0 after 49 days: Metro, and four ways to wait.  A pass   *)
(* of the loop that polls takes up to MaxPass; `age' and `due' are the time *)
(* that really passes.                                                      *)
(***************************************************************************)
EXTENDS Integers

CONSTANTS
    Word,           \* millis() and the variables it is kept in count below it
    MaxPass,        \* the longest time between two polls
    Limit,          \* how long is to be waited
    Slack,          \* the 100 ms of sendData
    FirstInterval, Interval,    \* of fiveMinutes, before and after its first beat
    autoreset       \* Metro's

ASSUME TimersAssumption ==
    /\ {Word, MaxPass, Limit, Slack, FirstInterval, Interval} \subseteq Nat \ {0}
    /\ MaxPass <= Slack /\ Slack <= Limit
    /\ 2 * Limit + MaxPass < Word
    /\ FirstInterval < Word /\ Interval < Word
    /\ autoreset \in BOOLEAN

VARIABLES
    millis,
    wait,           \* a wait: which kind, when it began, how long it lasts, still on
    previous_millis, interval_millis,   \* of Metro
    due             \* the time that passed since previous_millis

vars == <<millis, wait, previous_millis, interval_millis, due>>

Kinds == {"elapsed", "deadline", "countdown", "backward"}

\* Unsigned arithmetic.
Plus(a, b) == IF a + b >= Word THEN a + b - Word ELSE a + b
Minus(a, b) == IF a >= b THEN a - b ELSE a - b + Word

---------------------------------------------------------------------------
(* The ways to wait.                                                       *)
Elapsed_Absolute(start, now) == now >= Plus(start, Limit)

\* (millis() - t) < limit: DHCP, the connection, a gap in the reply.
Elapsed(start, now) == Minus(now, start) >= Limit

\* (t + limit) < millis(): the status, the door held open, the upload.
Deadline(start, now) == Plus(start, Limit) < now

\* next - millis() < 100: the reply.
Countdown(start, now) == Minus(Plus(start, Limit), now) < Slack

\* (millis() - limit) > t: the lookup of the server.
Backward(start, now) == Minus(now, Limit) > start

Over(kind, start, now) ==
    \/ kind = "elapsed" /\ Elapsed(start, now)
    \/ kind = "deadline" /\ Deadline(start, now)
    \/ kind = "countdown" /\ Countdown(start, now)
    \/ kind = "backward" /\ Backward(start, now)

Begin(kind, now) == [kind |-> kind, start |-> now, age |-> 0, on |-> TRUE]

---------------------------------------------------------------------------
(* Metro::check at time `now': a beat moves previous_millis on by one       *)
(* interval, so that beats missed while nobody checked come one by one.     *)
Beats_Sum(now) == Plus(previous_millis, interval_millis) <= now

Beats(now) == Minus(now, previous_millis) >= interval_millis

check(now) ==
    /\ Beats(now)
    /\ previous_millis' = IF autoreset THEN now ELSE Plus(previous_millis, interval_millis)
    /\ interval_millis' = Interval

---------------------------------------------------------------------------
Init ==
    /\ millis \in 0..(Word - 1)
    /\ \E kind \in Kinds : wait = Begin(kind, millis)
    /\ previous_millis = millis
    /\ interval_millis = FirstInterval
    /\ due = 0

\* The age of a wait that never ends is not told apart after Word.
Aged(age, d) == IF age + d < Word THEN age + d ELSE Word

(* A pass of the loop, d after the last: the wait is polled.  Metro is, but *)
(* not while the door is open; fewer than 49 days pass before it is again.  *)
Polled(d, now) ==
    wait' = IF wait.on
            THEN [wait EXCEPT !.age = Aged(@, d), !.on = ~Over(wait.kind, wait.start, now)]
            ELSE wait

Pass ==
    \E d \in 1..MaxPass :
        LET now == Plus(millis, d) IN
        /\ due + d < Word
        /\ millis' = now
        /\ Polled(d, now)
        /\ \/ /\ check(now)
              /\ due' = IF autoreset THEN 0 ELSE due + d - interval_millis
           \/ /\ ~Beats(now)
              /\ due' = due + d
              /\ UNCHANGED <<previous_millis, interval_millis>>

Busy ==
    \E d \in 1..MaxPass :
        /\ due + d < Word
        /\ millis' = Plus(millis, d)
        /\ Polled(d, Plus(millis, d))
        /\ due' = due + d
        /\ UNCHANGED <<previous_millis, interval_millis>>

\* The wait is over; another begins, now or later.
Again ==
    /\ ~wait.on
    /\ wait' = Begin(wait.kind, millis)
    /\ UNCHANGED <<millis, previous_millis, interval_millis, due>>

Next == Pass \/ Busy \/ Again

Spec == Init /\ [][Next]_vars

---------------------------------------------------------------------------
(* The timers have their types.                                            *)
TypeOK ==
    /\ millis \in 0..(Word - 1)
    /\ wait \in [kind : Kinds, start : 0..(Word - 1), age : 0..Word, on : BOOLEAN]
    /\ previous_millis \in 0..(Word - 1)
    /\ interval_millis \in {FirstInterval, Interval}
    /\ due \in 0..(Word - 1)

(* Metro counts from its last beat, wherever millis() started again: beats  *)
(* that were missed while the door was open are not lost, and none comes    *)
(* before its interval is over, which would leave less than nothing due.    *)
MetroExact == TypeOK /\ Minus(millis, previous_millis) = due

(* Two of the ways to wait are right whatever millis() is; the others only  *)
(* when it does not start again in between, and the last only after it is   *)
(* past the limit.                                                          *)
Exact(w) ==
    \/ w.kind \in {"elapsed", "countdown"}
    \/ /\ w.start + Limit + MaxPass < Word
       /\ w.kind = "backward" => w.start >= Limit

Least(w) == IF w.kind = "countdown" THEN Limit - Slack + 1
            ELSE IF w.kind = "elapsed" THEN Limit ELSE Limit + 1

(* A wait that is right takes its time, and is over at the first poll after *)
(* that: the door closes, the reply is given up, the status is read.        *)
OnTime ==
    Exact(wait) =>
        IF wait.on THEN wait.age < Least(wait)
        ELSE wait.age >= Least(wait) /\ wait.age < Least(wait) + MaxPass
=============================================================================
