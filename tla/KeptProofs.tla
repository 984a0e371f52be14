------------------------------ MODULE KeptProofs ------------------------------
(***************************************************************************)
(* What survives a power cut, of the two sketches of MCKept.                *)
(*                                                                         *)
(* The credit machine: codes are never worth more than the coins, for every *)
(* width of the bytes and number of coins, presses and resets, unless a     *)
(* coin carried between two bytes.  The invariant adds, for each point of   *)
(* the loop, what it holds of the sum: the byte it read, the amount it      *)
(* read, or the coins that came while the sum was being cleared.  And no    *)
(* message id is in two codes, for every size of the ids and number of      *)
(* resets, while the presses are fewer than the ids: the second invariant   *)
(* says how far behind the saved id each id in a code is.                   *)
(*                                                                         *)
(* The patcher: what it calls patched is whole, for every length of the     *)
(* files and every number of failures and power cuts.  The invariant says   *)
(* how far the file being written is that of the parameters or the patch,   *)
(* as long as no command has failed in this turn.                           *)
(*                                                                         *)
(* The display: it shows what was printed, for every width, whatever a reset *)
(* interrupts.  The invariant says to what state the nibbles still owed lead *)
(* the controller (Leads): that of the calls so far, as soon as begin() has *)
(* brought it into its 4-bit mode.                                         *)
(***************************************************************************)
EXTENDS CreditMachine, Patch, Integers, TLAPS, WellFoundedInduction

Words == [lo : 0..(Byte - 1), hi : 0..(Byte - 1)]

CoinType ==
    /\ count \in Words
    /\ low \in 0..(Byte - 1) /\ amount \in Nat
    /\ inserted \in 0..MaxCoins /\ credited \in Nat

HasAmount == {"id", "id low 0", "id high 0", "next id", "id low", "id high", "hash"}
Clearing == {"clear", "clear high"}

\* The sum is of coins that are in no code yet.
SumIsLeft == pc \notin Clearing => credited + Value(count) <= inserted

\* What was read is not more than the sum.
LowIsRead == pc = "press high" => low <= count.lo
AmountIsRead == pc \in HasAmount => amount <= Value(count)

\* While the sum is cleared: low = 1 when its high byte was first.
Uncleared == pc = "clear" => credited <= inserted
LowCleared == pc = "clear high" /\ low = 0 => credited + count.lo <= inserted
HighCleared == pc = "clear high" /\ low # 0 => low = 1 /\ count.hi = 0 /\ credited <= inserted

Sums ==
    /\ SumIsLeft /\ LowIsRead /\ AmountIsRead
    /\ Uncleared /\ LowCleared /\ HighCleared

CoinInv == CoinType /\ (carried \/ Sums)

---------------------------------------------------------------------------
LEMMA Constants ==
    /\ Byte \in Nat /\ Byte > 1 /\ MaxCoins \in Nat /\ MaxCoins < Byte * Byte
    /\ Byte * Byte \in Nat
  BY CreditAssumption

LEMMA Halves ==
    ASSUME NEW w \in Words
    PROVE  /\ w.lo \in 0..(Byte - 1) /\ w.hi \in 0..(Byte - 1)
           /\ w.lo \in Nat /\ w.hi \in Nat /\ Byte * w.hi \in Nat
           /\ Value(w) = w.lo + Byte * w.hi /\ Value(w) \in Nat
  BY Constants DEF Words, Value

LEMMA Without ==
    ASSUME NEW w \in Words
    PROVE  /\ [w EXCEPT !.lo = 0] = [lo |-> 0, hi |-> w.hi]
           /\ [w EXCEPT !.hi = 0] = [lo |-> w.lo, hi |-> 0]
           /\ [w EXCEPT !.lo = @ + 1] = [lo |-> w.lo + 1, hi |-> w.hi]
           /\ [w EXCEPT !.lo = 0] \in Words /\ [w EXCEPT !.hi = 0] \in Words
  BY Constants DEF Words

LEMMA ReadType ==
    ASSUME NEW l \in 0..(Byte - 1), NEW h \in 0..(Byte - 1) PROVE l + Byte * h \in Nat
  BY Constants

LEMMA SmallMod == ASSUME NEW b \in Nat, NEW n \in Nat, n < b PROVE n % b = n
  OBVIOUS

LEMMA ZeroIs == Zero \in Words /\ Value(Zero) = 0 /\ Zero.lo = 0
  BY Constants DEF Value, Zero, Words

(* A coin adds one to the sum, or the sum was as large as its two bytes.    *)
LEMMA CoinAddsOne ==
    ASSUME NEW w \in Words,
           NEW v, v = IF w.lo + 1 < Byte THEN [w EXCEPT !.lo = @ + 1]
                      ELSE [lo |-> 0, hi |-> (w.hi + 1) % Byte],
           Value(w) < Byte * Byte - 1
    PROVE  Value(v) = Value(w) + 1
  <1> USE Halves, Constants
  <1>1. CASE w.lo + 1 < Byte
    <2>1. v = [lo |-> w.lo + 1, hi |-> w.hi]
      BY <1>1, Without
    <2>2. v.lo = w.lo + 1 /\ v.hi = w.hi
      BY <2>1
    <2>3. QED
      BY <2>2 DEF Value
  <1>2. CASE ~(w.lo + 1 < Byte)
    <2>1. w.lo = Byte - 1
      BY <1>2
    <2>2. w.hi # Byte - 1
      <3>1. SUFFICES ASSUME w.hi = Byte - 1 PROVE FALSE
        OBVIOUS
      <3>2. Byte * (Byte - 1) = Byte * Byte - Byte
        OBVIOUS
      <3>3. QED
        BY <2>1, <3>1, <3>2
    <2>3. (w.hi + 1) % Byte = w.hi + 1
      <3>1. w.hi + 1 \in Nat /\ w.hi + 1 < Byte
        BY <2>2
      <3>2. QED
        BY <3>1, SmallMod
    <2>4. v = [lo |-> 0, hi |-> w.hi + 1]
      BY <1>2, <2>3
    <2>5. Byte * (w.hi + 1) = Byte * w.hi + Byte
      OBVIOUS
    <2>6. QED
      BY <2>1, <2>4, <2>5 DEF Value
  <1>3. QED
    BY <1>1, <1>2

---------------------------------------------------------------------------
LEMMA CoinInitInv == Init => CoinInv
  <1> SUFFICES ASSUME Init PROVE CoinType /\ Sums
    BY DEF CoinInv
  <1>1. CoinType
    BY Constants, ZeroIs DEF Init, CoinType
  <1>2. Sums
    BY ZeroIs DEF Init, Sums, SumIsLeft, LowIsRead, AmountIsRead, Uncleared, LowCleared, HighCleared, HasAmount,
                  Clearing
  <1>3. QED
    BY <1>1, <1>2

(* The steps that move on and leave the sum, what was read of it and the    *)
(* codes as they are.                                                      *)
Kept ==
    /\ count' = count /\ inserted' = inserted /\ credited' = credited /\ amount' = amount

LEMMA KeptType ==
    ASSUME CoinType, Kept, low' \in 0..(Byte - 1) PROVE CoinType'
  BY DEF CoinType, Kept, Words

LEMMA UnchangedSums ==
    ASSUME Sums, Kept, pc' = pc, low' = low PROVE Sums'
  BY DEF Kept, Sums, SumIsLeft, LowIsRead, AmountIsRead, Uncleared, LowCleared, HighCleared, HasAmount, Clearing,
         Value

LEMMA MovesOn ==
    ASSUME Sums, Kept, pc \notin Clearing, pc' \notin Clearing, pc' # "press high",
           pc' \in HasAmount => pc \in HasAmount
    PROVE  Sums'
  BY DEF Kept, Sums, SumIsLeft, LowIsRead, AmountIsRead, Uncleared, LowCleared, HighCleared, HasAmount, Clearing,
         Value

(* Which steps these are.                                                  *)
Moving ==
    setup \/ ShowSum \/ ReadLow \/ ReadHigh \/ Shown \/ Press \/ FirstId \/ FetchId
    \/ getNextMessageID \/ Released

LEMMA MovingKeeps == CoinType /\ Moving => Kept /\ low' \in 0..(Byte - 1)
  <1> SUFFICES ASSUME CoinType, Moving PROVE Kept /\ low' \in 0..(Byte - 1)
    OBVIOUS
  <1>0. low \in 0..(Byte - 1) /\ count.lo \in 0..(Byte - 1) /\ 0 \in 0..(Byte - 1)
    BY Halves, Constants DEF CoinType
  <1>1. CASE setup
    BY <1>0, <1>1 DEF setup, Kept, coinVars
  <1>2. CASE ShowSum
    BY <1>0, <1>2 DEF ShowSum, Kept, coinVars
  <1>3. CASE ReadLow
    BY <1>0, <1>3 DEF ReadLow, Kept, coinVars
  <1>4. CASE ReadHigh
    BY <1>0, <1>4 DEF ReadHigh, Kept, coinVars
  <1>5. CASE Shown
    BY <1>0, <1>5 DEF Shown, Kept
  <1>6. CASE Press
    BY <1>0, <1>6 DEF Press, Kept, coinVars
  <1>7. CASE FirstId
    BY <1>0, <1>7 DEF FirstId, Kept, coinVars
  <1>8. CASE FetchId
    BY <1>0, <1>8 DEF FetchId, Kept, coinVars
  <1>9. CASE getNextMessageID
    BY <1>0, <1>9 DEF getNextMessageID, Kept, coinVars
  <1>10. CASE Released
    BY <1>0, <1>10 DEF Released, Kept, coinVars
  <1>11. QED
    BY <1>1, <1>2, <1>3, <1>4, <1>5, <1>6, <1>7, <1>8, <1>9, <1>10 DEF Moving

LEMMA MovingSums == CoinType /\ Sums /\ Moving => Sums'
  <1> SUFFICES ASSUME CoinType, Sums, Moving PROVE Sums'
    OBVIOUS
  <1>0. Kept /\ low' \in 0..(Byte - 1)
    BY MovingKeeps
  <1>1. CASE pc = "press" /\ pc' = "press high" /\ low' = count.lo
    <2>1. SumIsLeft'
      BY <1>0, <1>1 DEF Sums, SumIsLeft, Kept, Clearing, Value
    <2>2. count'.lo = low'
      BY <1>0, <1>1, Zenon DEF Kept
    <2>3. \A i, j \in Nat : i = j => i <= j
      OBVIOUS
    <2>4. low' \in Nat
      BY <1>0, Constants
    <2>5. LowIsRead'
      BY <2>2, <2>3, <2>4, Zenon DEF LowIsRead
    <2>6. QED
      BY <1>1, <2>1, <2>5 DEF Sums, AmountIsRead, Uncleared, LowCleared, HighCleared, HasAmount
  <1>2. CASE setup
    BY <1>0, <1>2, MovesOn DEF setup, Steps, Clearing, HasAmount
  <1>3. CASE ShowSum
    BY <1>0, <1>3, MovesOn DEF ShowSum, Steps, Clearing, HasAmount
  <1>4. CASE ReadLow
    BY <1>0, <1>1, <1>4, MovesOn DEF ReadLow, Steps, Clearing, HasAmount
  <1>5. CASE ReadHigh
    BY <1>0, <1>5, MovesOn DEF ReadHigh, Steps, Clearing, HasAmount
  <1>6. CASE Shown
    BY <1>0, <1>6, MovesOn DEF Shown, Steps, Clearing, HasAmount
  <1>7. CASE Press
    BY <1>0, <1>7, MovesOn DEF Press, Steps, Clearing, HasAmount
  <1>8. CASE FirstId
    BY <1>0, <1>8, MovesOn DEF FirstId, Steps, Clearing, HasAmount
  <1>9. CASE FetchId
    BY <1>0, <1>9, MovesOn DEF FetchId, Steps, Clearing, HasAmount
  <1>10. CASE getNextMessageID
    BY <1>0, <1>10, MovesOn DEF getNextMessageID, Steps, Clearing, HasAmount
  <1>11. CASE Released
    BY <1>0, <1>11, MovesOn DEF Released, Steps, Clearing, HasAmount
  <1>12. QED
    BY <1>2, <1>3, <1>4, <1>5, <1>6, <1>7, <1>8, <1>9, <1>10, <1>11 DEF Moving

---------------------------------------------------------------------------
(* The steps that read the sum for a code, print the code and clear the sum. *)
LEMMA PressReadType == CoinType /\ PressRead => CoinType'
  <1> SUFFICES ASSUME CoinType, PressRead PROVE CoinType'
    OBVIOUS
  <1>1. /\ amount' = low + Byte * count.hi /\ low' = 0
        /\ count' = count /\ inserted' = inserted /\ credited' = credited
    BY DEF PressRead, coinVars
  <1>2. amount' \in Nat
    BY <1>1, Halves, ReadType DEF CoinType
  <1>3. QED
    BY <1>1, <1>2, Constants DEF CoinType, Words

LEMMA PressReadSums == CoinType /\ Sums /\ PressRead => Sums'
  <1> SUFFICES ASSUME CoinType, Sums, PressRead PROVE Sums'
    OBVIOUS
  <1>1. /\ pc = "press high" /\ pc' = "id" /\ amount' = low + Byte * count.hi
        /\ count' = count /\ inserted' = inserted /\ credited' = credited
    BY DEF PressRead, Steps, coinVars
  <1>2. /\ low \in Nat /\ count.lo \in Nat /\ Byte * count.hi \in Nat
        /\ Value(count) = count.lo + Byte * count.hi
    BY Halves, Constants DEF CoinType
  <1>3. low <= count.lo
    BY <1>1 DEF Sums, LowIsRead
  <1>4. amount' <= Value(count)
    <2>1. \A i, j, k \in Nat : i <= j => i + k <= j + k
      OBVIOUS
    <2>2. low + Byte * count.hi <= count.lo + Byte * count.hi
      BY <1>2, <1>3, <2>1
    <2>3. QED
      BY <1>1, <1>2, <2>2
  <1>5. QED
    BY <1>1, <1>4 DEF Sums, SumIsLeft, LowIsRead, AmountIsRead, Uncleared, LowCleared, HighCleared, Clearing

LEMMA GenerateType == CoinType /\ generateHash => CoinType'
  BY DEF CoinType, generateHash, coinVars, Words

LEMMA GenerateSums == CoinType /\ Sums /\ generateHash => Sums'
  <1> SUFFICES ASSUME CoinType, Sums, generateHash PROVE Sums'
    OBVIOUS
  <1>1. /\ pc = "hash" /\ pc' = "clear" /\ credited' = credited + amount
        /\ inserted' = inserted
    BY DEF generateHash, Steps, coinVars
  <1>2. credited + Value(count) <= inserted /\ amount <= Value(count)
    BY <1>1 DEF Sums, SumIsLeft, AmountIsRead, Clearing, HasAmount
  <1>3. Value(count) \in Nat /\ credited \in Nat /\ amount \in Nat /\ inserted \in Nat
    BY Halves, Constants DEF CoinType
  <1>4. credited' <= inserted'
    BY <1>1, <1>2, <1>3
  <1>5. QED
    BY <1>1, <1>4 DEF Sums, SumIsLeft, LowIsRead, AmountIsRead, Uncleared, LowCleared, HighCleared, Clearing,
                      HasAmount

LEMMA ClearedType == CoinType /\ Cleared => CoinType'
  <1> SUFFICES ASSUME CoinType, Cleared PROVE CoinType'
    OBVIOUS
  <1>1. inserted' = inserted /\ credited' = credited /\ amount' = amount
    BY DEF Cleared
  <1>2. count' \in {[count EXCEPT !.lo = 0], [count EXCEPT !.hi = 0]} /\ low' \in {0, 1}
    BY DEF Cleared, ClearSum
  <1>3. count' \in Words
    BY <1>2, Without DEF CoinType
  <1>4. QED
    BY <1>1, <1>2, <1>3, Constants DEF CoinType

LEMMA ClearedSums == CoinType /\ Sums /\ Cleared => Sums'
  <1> SUFFICES ASSUME CoinType, Sums, Cleared PROVE Sums'
    OBVIOUS
  <1>1. inserted' = inserted /\ credited' = credited
    BY DEF Cleared
  <1>2. /\ credited \in Nat /\ inserted \in Nat
        /\ count.lo \in Nat /\ count.hi \in Nat /\ low \in Nat
    BY Halves, Constants DEF CoinType
  <1>3. CASE pc = "clear"
    <2>1. credited <= inserted /\ pc' = "clear high"
      BY <1>3 DEF Sums, Uncleared, LowCleared, HighCleared, Cleared, Steps
    <2>2. (count'.lo = 0 /\ low' = 0) \/ (count'.hi = 0 /\ low' = 1)
      <3>1. CASE count' = [count EXCEPT !.lo = 0] /\ low' = 0
        BY <3>1, Without DEF CoinType
      <3>2. CASE count' = [count EXCEPT !.hi = 0] /\ low' = 1
        BY <3>2, Without DEF CoinType
      <3>3. QED
        BY <1>3, <3>1, <3>2 DEF Cleared, ClearSum
    <2>3. Uncleared'
      BY <2>1 DEF Uncleared
    <2>4. LowCleared' /\ HighCleared'
      <3>1. credited + 0 <= inserted
        <4>1. credited + 0 = credited
          BY <1>2
        <4>2. QED
          BY <2>1, <4>1, Zenon
      <3>2. CASE count'.lo = 0 /\ low' = 0
        BY <1>1, <3>1, <3>2, Zenon DEF LowCleared, HighCleared
      <3>3. CASE count'.hi = 0 /\ low' = 1
        <4>1. low' # 0
          BY <3>3
        <4>2. QED
          BY <1>1, <2>1, <3>3, <4>1, Zenon DEF LowCleared, HighCleared
      <3>4. QED
        BY <2>2, <3>2, <3>3
    <2>5. QED
      BY <2>1, <2>3, <2>4 DEF Sums, SumIsLeft, LowIsRead, AmountIsRead, Clearing, HasAmount
  <1>4. CASE pc = "clear high"
    <2>1. pc' = "held"
      BY <1>4 DEF Cleared, Steps
    <2>2. count' = IF low = 1 THEN [lo |-> 0, hi |-> count.hi] ELSE [lo |-> count.lo, hi |-> 0]
      BY <1>4, Without DEF CoinType, Cleared, ClearSum
    <2>3. credited + Value(count') <= inserted
      <3>1. CASE low = 1
        <4>1. count.hi = 0 /\ credited <= inserted
          <5>1. low # 0
            BY <3>1
          <5>2. QED
            BY <1>4, <5>1, Zenon DEF Sums, HighCleared
        <4>2. Value(count') = 0
          BY <2>2, <3>1, <4>1, Constants DEF Value
        <4>3. QED
          BY <1>2, <4>1, <4>2
      <3>2. CASE low # 1
        <4>1. credited + count.lo <= inserted
          BY <1>4, <3>2 DEF Sums, Uncleared, LowCleared, HighCleared
        <4>2. Value(count') = count.lo
          BY <1>2, <2>2, <3>2, Constants DEF Value
        <4>3. QED
          BY <4>1, <4>2
      <3>3. QED
        BY <3>1, <3>2
    <2>4. QED
      BY <1>1, <2>1, <2>3 DEF Sums, SumIsLeft, LowIsRead, AmountIsRead, Uncleared, LowCleared, HighCleared,
                              HasAmount
  <1>5. QED
    BY <1>3, <1>4 DEF Cleared, Steps

(* Halfway, what is in codes is not more than the coins either.             *)
LEMMA NotMore == ASSUME CoinType, Sums, pc \in Clearing PROVE credited <= inserted
  <1>1. credited \in Nat /\ inserted \in Nat /\ count.lo \in Nat
    BY Halves, Constants DEF CoinType
  <1>2. CASE pc = "clear"
    BY <1>2, Zenon DEF Sums, Uncleared
  <1>3. CASE pc = "clear high" /\ low = 0
    <2>1. credited + count.lo <= inserted
      BY <1>3, Zenon DEF Sums, LowCleared
    <2>2. QED
      BY <1>1, <2>1
  <1>4. CASE pc = "clear high" /\ low # 0
    BY <1>4, Zenon DEF Sums, HighCleared
  <1>5. QED
    BY <1>2, <1>3, <1>4 DEF Clearing

---------------------------------------------------------------------------
(* A reset takes the sum, and what was read of it, with it.                 *)
LEMMA ResetType == CoinType /\ Reset => CoinType'
  <1> SUFFICES ASSUME CoinType, Reset PROVE CoinType'
    OBVIOUS
  <1>1. /\ count' = Zero /\ low' = 0 /\ amount' = 0
        /\ inserted' = inserted /\ credited' = credited
    BY DEF Reset
  <1>2. QED
    BY <1>1, ZeroIs, Constants DEF CoinType

LEMMA ResetSums == CoinType /\ Sums /\ Reset => Sums'
  <1> SUFFICES ASSUME CoinType, Sums, Reset PROVE Sums'
    OBVIOUS
  <1>1. /\ pc' = "begin" /\ count' = Zero /\ inserted' = inserted /\ credited' = credited
    BY DEF Reset
  <1>2. /\ Value(count) \in Nat /\ count.lo \in Nat /\ count.hi \in Nat /\ low \in Nat
        /\ credited \in Nat /\ inserted \in Nat
    BY Halves, Constants DEF CoinType
  <1>3. CASE pc \in Clearing
    <2>1. credited <= inserted
      BY <1>2, <1>3, NotMore
    <2>2. credited + Value(count') <= inserted
      BY <1>1, <1>2, <2>1, ZeroIs
    <2>3. QED
      BY <1>1, <2>2 DEF Sums, SumIsLeft, LowIsRead, AmountIsRead, Uncleared, LowCleared, HighCleared, HasAmount
  <1>4. CASE pc \notin Clearing
    <2>1. credited + Value(count) <= inserted
      BY <1>4 DEF Sums, SumIsLeft
    <2>2. credited + Value(count') <= inserted
      BY <1>1, <1>2, <2>1, ZeroIs
    <2>3. QED
      BY <1>1, <2>2 DEF Sums, SumIsLeft, LowIsRead, AmountIsRead, Uncleared, LowCleared, HighCleared, HasAmount
  <1>5. QED
    BY <1>3, <1>4

(* A coin, at any point of the loop.                                       *)
OneMoreCoin == count' = IF count.lo + 1 < Byte THEN [count EXCEPT !.lo = @ + 1]
                    ELSE [lo |-> 0, hi |-> (count.hi + 1) % Byte]

LEMMA CoinTyped == CoinType /\ coinInserted => CoinType'
  <1> SUFFICES ASSUME CoinType, coinInserted PROVE CoinType'
    OBVIOUS
  <1>1. /\ inserted' = inserted + 1 /\ inserted < MaxCoins
        /\ low' = low /\ amount' = amount /\ credited' = credited
    BY DEF coinInserted
  <1>2. OneMoreCoin
    BY DEF coinInserted, OneMoreCoin
  <1>3. count.lo \in 0..(Byte - 1) /\ count.hi \in Nat
    BY Halves DEF CoinType
  <1>4. (count.hi + 1) % Byte \in 0..(Byte - 1)
    BY <1>3, Constants
  <1>5. count' \in Words
    <2>1. CASE count.lo + 1 < Byte
      <3>1. count' = [lo |-> count.lo + 1, hi |-> count.hi]
        BY <1>2, <2>1, Without DEF OneMoreCoin, CoinType
      <3>2. QED
        BY <2>1, <3>1, Halves, Constants DEF CoinType, Words
    <2>2. CASE ~(count.lo + 1 < Byte)
      <3>1. count' = [lo |-> 0, hi |-> (count.hi + 1) % Byte]
        BY <1>2, <2>2 DEF OneMoreCoin
      <3>2. QED
        BY <1>4, <3>1, Constants DEF Words
    <2>3. QED
      BY <2>1, <2>2
  <1>6. inserted' \in 0..MaxCoins
    BY <1>1, Constants DEF CoinType
  <1>7. QED
    BY <1>1, <1>5, <1>6 DEF CoinType

LEMMA CoinSums ==
    ASSUME CoinType, Sums, coinInserted, ~(Torn /\ count.lo + 1 = Byte) PROVE Sums'
  <1>1. /\ inserted' = inserted + 1 /\ inserted < MaxCoins
        /\ pc' = pc /\ low' = low /\ amount' = amount /\ credited' = credited
    BY DEF coinInserted
  <1>2. OneMoreCoin
    BY DEF coinInserted, OneMoreCoin
  <1>3. /\ inserted \in Nat /\ credited \in Nat /\ amount \in Nat /\ low \in Nat
        /\ count.lo \in 0..(Byte - 1) /\ count.lo \in Nat /\ count.hi \in Nat
        /\ Value(count) \in Nat
    BY Halves, Constants DEF CoinType
  <1>4. Torn => count'.lo = count.lo + 1 /\ count'.hi = count.hi
    <2>1. SUFFICES ASSUME Torn PROVE count'.lo = count.lo + 1 /\ count'.hi = count.hi
      OBVIOUS
    <2>2. count.lo + 1 < Byte
      BY <1>3, <2>1, Constants
    <2>3. count' = [lo |-> count.lo + 1, hi |-> count.hi]
      BY <1>2, <2>2, Without DEF OneMoreCoin, CoinType
    <2>4. QED
      BY <2>3
  <1>5. ASSUME pc \notin Clearing
        PROVE  credited + Value(count) <= inserted /\ Value(count') = Value(count) + 1
    <2>1. credited + Value(count) <= inserted
      BY <1>5 DEF Sums, SumIsLeft
    <2>2. Value(count) < Byte * Byte - 1
      BY <1>1, <1>3, <2>1, Constants
    <2>3. QED
      BY <1>2, <2>1, <2>2, CoinAddsOne DEF CoinType, OneMoreCoin
  <1>6. SumIsLeft'
    BY <1>1, <1>3, <1>5 DEF SumIsLeft
  <1>7. LowIsRead'
    <2>1. SUFFICES ASSUME pc = "press high" PROVE low <= count'.lo
      BY <1>1 DEF LowIsRead
    <2>2. low <= count.lo /\ count'.lo = count.lo + 1
      BY <1>4, <2>1 DEF Sums, LowIsRead, Torn
    <2>3. QED
      BY <1>3, <2>2
  <1>8. AmountIsRead'
    <2>1. SUFFICES ASSUME pc \in HasAmount PROVE amount <= Value(count')
      BY <1>1 DEF AmountIsRead
    <2>2. amount <= Value(count) /\ Value(count') = Value(count) + 1
      BY <1>5, <2>1 DEF Sums, AmountIsRead, HasAmount, Clearing
    <2>3. QED
      BY <1>3, <2>2
  <1>9. Uncleared'
    BY <1>1, <1>3 DEF Sums, Uncleared
  <1>10. LowCleared'
    <2>1. SUFFICES ASSUME pc = "clear high", low = 0
                   PROVE  credited + count'.lo <= inserted + 1
      BY <1>1, Zenon DEF LowCleared
    <2>2. credited + count.lo <= inserted
      BY <2>1, Zenon DEF Sums, LowCleared
    <2>3. count'.lo = count.lo + 1
      BY <1>4, <2>1 DEF Torn
    <2>4. QED
      BY <1>3, <2>2, <2>3
  <1>11. HighCleared'
    <2>1. SUFFICES ASSUME pc = "clear high", low # 0
                   PROVE  low = 1 /\ count'.hi = 0 /\ credited <= inserted + 1
      BY <1>1, Zenon DEF HighCleared
    <2>2. low = 1 /\ count.hi = 0 /\ credited <= inserted
      BY <2>1, Zenon DEF Sums, HighCleared
    <2>3. count'.hi = count.hi
      BY <1>4, <2>1 DEF Torn
    <2>4. QED
      BY <1>3, <2>2, <2>3
  <1>12. QED
    BY <1>6, <1>7, <1>8, <1>9, <1>10, <1>11 DEF Sums

---------------------------------------------------------------------------
LEMMA NextType == CoinType /\ [Next]_vars => CoinType'
  <1> SUFFICES ASSUME CoinType, [Next]_vars PROVE CoinType'
    OBVIOUS
  <1>1. CASE Moving
    BY <1>1, MovingKeeps, KeptType
  <1>2. CASE UNCHANGED vars \/ Driving
    <2>1. Kept /\ low' = low
      BY <1>2 DEF vars, coinVars, Driving, Kept
    <2>2. QED
      BY <2>1, KeptType DEF CoinType
  <1>3. QED
    BY <1>1, <1>2, CoinTyped, PressReadType, GenerateType, ClearedType, ResetType
       DEF Next, Moving

LEMMA NextSums ==
    ASSUME CoinType, Sums, [Next]_vars, coinInserted => ~(Torn /\ count.lo + 1 = Byte)
    PROVE  Sums'
  <1>1. CASE Moving
    BY <1>1, MovingSums
  <1>2. CASE UNCHANGED vars \/ Driving
    <2>1. Kept /\ low' = low /\ pc' = pc
      BY <1>2 DEF vars, coinVars, Driving, Kept
    <2>2. QED
      BY <2>1, UnchangedSums
  <1>3. QED
    BY <1>1, <1>2, CoinSums, PressReadSums, GenerateSums, ClearedSums, ResetSums
       DEF Next, Moving

(* What carried between two bytes stays known.                              *)
LEMMA CarriedStays ==
    ASSUME [Next]_vars, ~carried'
    PROVE  ~carried /\ (coinInserted => ~(Torn /\ count.lo + 1 = Byte))
  <1>1. coinInserted => carried' = (carried \/ (Torn /\ count.lo + 1 = Byte))
    BY DEF coinInserted
  <1>2. UNCHANGED carried \/ coinInserted
    BY DEF Next, vars, coinVars, setup, ShowSum, ReadLow, ReadHigh, Shown, Press, PressRead,
           FirstId, FetchId, getNextMessageID, generateHash, Cleared, Released, Driving,
           Reset
  <1>3. QED
    <2>1. CASE UNCHANGED carried /\ ~coinInserted
      BY <2>1, Zenon
    <2>2. CASE coinInserted
      BY <1>1, <2>2, Zenon
    <2>3. QED
      BY <1>2, <2>1, <2>2, Zenon

LEMMA CoinNextInv == CoinInv /\ [Next]_vars => CoinInv'
  <1> SUFFICES ASSUME CoinInv, [Next]_vars PROVE CoinInv'
    OBVIOUS
  <1>1. CoinType'
    BY NextType DEF CoinInv
  <1>2. carried' \/ Sums'
    BY CarriedStays, NextSums, Zenon DEF CoinInv
  <1>3. QED
    BY <1>1, <1>2 DEF CoinInv

(* What is in codes and still in the sum is never more than was inserted,   *)
(* for any number of coins, presses and resets, wherever the coins come in  *)
(* the loop: the interrupt may tear a read or the clearing of the two       *)
(* bytes, and only a carry between them does harm.                          *)
THEOREM NeverTooMuchTheorem == Spec => []NeverTooMuch
  <1>1. CoinInv => NeverTooMuch
    <2>1. SUFFICES ASSUME CoinType, Sums
          PROVE credited + (IF pc \in {"clear", "clear high"} THEN 0 ELSE Value(count))
                <= inserted
      BY Zenon DEF CoinInv, NeverTooMuch
    <2>2. /\ credited \in Nat /\ inserted \in Nat
          /\ count.lo \in Nat /\ count.hi \in Nat /\ low \in Nat
      BY <2>1, Halves, Constants DEF CoinType
    <2>3. CASE pc \notin Clearing
      BY <2>1, <2>3 DEF Sums, SumIsLeft, Clearing
    <2>4. CASE pc \in Clearing
      <3>1. credited <= inserted
        BY <2>1, <2>4, NotMore
      <3>2. credited + 0 <= inserted
        BY <2>2, <3>1
      <3>3. QED
        BY <2>4, <3>2, Zenon DEF Clearing
    <2>5. QED
      BY <2>3, <2>4
  <1>2. QED
    BY <1>1, CoinInitInv, CoinNextInv, PTL DEF Spec


---------------------------------------------------------------------------
(* The message ids.  An id in a code is so far behind the one saved that    *)
(* the presses cannot have gone round all the ids since; Drawing are the    *)
(* points at which a press has not yet moved the saved id on.               *)
Saved == idHi * Byte + idLo
Latest == IF pc = "id high" THEN id ELSE Saved
Age(u) == IF u <= Latest THEN Latest - u ELSE Latest - u + Byte * Byte

Drawing == {"press", "press high", "id", "id low 0", "id high 0", "next id", "id low"}
Spent == IF pc \in Drawing THEN presses - 1 ELSE presses

IdType ==
    /\ idLo \in 0..(Byte - 1) /\ idHi \in 0..(Byte - 1) /\ id \in 0..(Byte * Byte - 1)
    /\ used \subseteq 0..(Byte * Byte - 1) /\ presses \in 0..MaxPresses
    /\ pc \in Drawing \cup {"id high", "hash"} => presses > 0

\* Ids are drawn once the EEPROM has been set up for them.
FirstIds ==
    /\ flag # 1 \/ pc \in {"id low 0", "id high 0"} => used = {}
    /\ pc \in {"id low 0", "id high 0", "next id", "id low", "id high", "hash"} => flag = 1

\* The id that is being drawn is the one after the saved, and then the saved.
DrawnId ==
    /\ pc = "id low" => id = (Saved + 1) % (Byte * Byte)
    /\ pc = "id high" => idLo = id % Byte
    /\ pc = "hash" => Saved = id
    /\ pc \in {"id low", "id high", "hash"} => id \notin used

Behind == \A u \in used : Age(u) < Spent

Ids == FirstIds /\ DrawnId /\ Behind /\ ~again

IdInv == IdType /\ (cut \/ Ids)

---------------------------------------------------------------------------
LEMMA IdConstants ==
    /\ Byte \in Nat /\ Byte > 1 /\ Byte * Byte \in Nat /\ Byte * Byte > 1
    /\ MaxPresses \in Nat /\ MaxPresses < Byte * Byte
  <1>1. Byte \in Nat /\ Byte > 1
    BY CreditAssumption
  <1>2. Byte * Byte \in Nat /\ Byte * Byte >= Byte
    BY <1>1
  <1>3. QED
    BY <1>1, <1>2, CreditAssumption

LEMMA Quotient ==
    ASSUME NEW b \in Nat, b > 0, NEW w \in Nat
    PROVE  w \div b \in Nat /\ w % b \in 0..(b - 1) /\ w = b * (w \div b) + (w % b)
  <1>1. w % b \in 0..(b - 1)
    OBVIOUS
  <1>2. w = b * (w \div b) + (w % b)
    OBVIOUS
  <1>3. w \div b \in Nat
    OBVIOUS
  <1>4. QED
    BY <1>1, <1>2, <1>3

\* The two bytes of a word and the word.
LEMMA BytesOfWord ==
    ASSUME NEW w \in 0..(Byte * Byte - 1)
    PROVE  /\ w % Byte \in 0..(Byte - 1) /\ w \div Byte \in 0..(Byte - 1)
           /\ (w \div Byte) * Byte + (w % Byte) = w
  <1>1. Byte \in Nat /\ Byte > 1 /\ w \in Nat /\ w < Byte * Byte
    BY IdConstants
  <1>2. w \div Byte \in Nat /\ w % Byte \in 0..(Byte - 1)
        /\ w = Byte * (w \div Byte) + (w % Byte)
    BY <1>1, Quotient
  <1>3. w \div Byte < Byte
    <2>1. SUFFICES ASSUME w \div Byte >= Byte PROVE FALSE
      BY <1>1, <1>2
    <2>2. Byte * (w \div Byte) >= Byte * Byte
      BY <1>1, <1>2, <2>1
    <2>3. QED
      BY <1>1, <1>2, <2>2
  <1>4. QED
    BY <1>1, <1>2, <1>3

LEMMA WordOfBytes ==
    ASSUME NEW l \in 0..(Byte - 1), NEW h \in 0..(Byte - 1)
    PROVE  h * Byte + l \in 0..(Byte * Byte - 1)
  <1>1. Byte \in Nat /\ h * Byte \in Nat /\ h * Byte <= (Byte - 1) * Byte
    BY IdConstants
  <1>2. (Byte - 1) * Byte = Byte * Byte - Byte
    BY <1>1
  <1>3. QED
    BY <1>1, <1>2, IdConstants

LEMMA IdWords == ASSUME IdType PROVE Saved \in 0..(Byte * Byte - 1) /\ Latest \in 0..(Byte * Byte - 1)
  BY WordOfBytes DEF IdType, Saved, Latest

LEMMA AgeType == ASSUME IdType, NEW u \in used PROVE Age(u) \in Nat
  <1> DEFINE m == Byte * Byte
  <1>1. m \in Nat /\ Latest \in 0..(m - 1) /\ u \in 0..(m - 1)
    BY IdWords, IdConstants DEF IdType
  <1>2. Age(u) = IF u <= Latest THEN Latest - u ELSE Latest - u + m
    BY DEF Age
  <1> HIDE DEF m
  <1>3. QED
    BY <1>1, <1>2

LEMMA PressesType == ASSUME IdType PROVE presses \in Nat /\ presses <= MaxPresses
  <1>1. presses \in 0..MaxPresses
    BY DEF IdType
  <1>2. MaxPresses \in Nat
    BY IdConstants
  <1>3. QED
    BY <1>1, <1>2

\* A press that has drawn its id counts as well.
LEMMA SpentBefore == ASSUME IdType, NEW u \in used, Age(u) < Spent PROVE Age(u) < presses
  <1> DEFINE a == Age(u)
  <1>1. a \in Nat /\ presses \in Nat
    BY AgeType, PressesType
  <1>2. a < presses \/ a < presses - 1
    BY DEF Spent
  <1> HIDE DEF a
  <1>3. a < presses
    BY <1>1, <1>2
  <1>4. QED
    BY <1>3 DEF a

LEMMA NextIsWord ==
    ASSUME NEW m \in Nat, m > 1, NEW w \in 0..(m - 1)
    PROVE  (w + 1) % m \in 0..(m - 1)
  OBVIOUS

LEMMA OneMore == ASSUME NEW a \in Nat, NEW p \in Nat, a < p - 1 PROVE a + 1 < p
  OBVIOUS

LEMMA AllTheWayRound ==
    ASSUME NEW m \in Nat, NEW n \in Nat, n < m, NEW p \in Nat, p <= n
    PROVE  ~(m - 1 < p)
  OBVIOUS

\* The next word is one no id in a code has, and ages each by at most one.
LEMMA NextWord ==
    ASSUME NEW m \in Nat, m > 1, NEW w \in 0..(m - 1), NEW u \in 0..(m - 1)
    PROVE  LET v == (w + 1) % m
               a == IF u <= w THEN w - u ELSE w - u + m
               b == IF u <= v THEN v - u ELSE v - u + m
           IN  /\ v \in 0..(m - 1)
               /\ u = v => a = m - 1
               /\ u # v => b = a + 1
               /\ u = v => b = 0
  <1>1. CASE w + 1 < m
    <2>1. (w + 1) % m = w + 1
      BY <1>1, SmallMod
    <2>2. QED
      BY <1>1, <2>1
  <1>2. CASE w + 1 = m
    <2>1. (w + 1) % m = 0
      BY <1>2
    <2>2. QED
      BY <1>2, <2>1
  <1>3. QED
    BY <1>1, <1>2

LEMMA IdStart == Init => IdInv
  <1> SUFFICES ASSUME Init PROVE IdInv
    OBVIOUS
  <1>1. IdType
    BY IdConstants DEF Init, IdType, Drawing
  <1>2. Ids
    BY DEF Init, Ids, FirstIds, DrawnId, Behind
  <1>3. QED
    BY <1>1, <1>2 DEF IdInv

\* A step that draws no id.
LEMMA NoIdDrawn ==
    ASSUME IdInv, UNCHANGED idVars, presses' = presses,
           pc' \notin {"id low 0", "id high 0", "next id", "id low", "id high", "hash"},
           pc # "id high", pc' \in Drawing => pc \in Drawing
    PROVE  IdInv'
  <1>1. IdType'
    BY DEF IdInv, IdType, idVars
  <1>2. CASE cut
    BY <1>1, <1>2 DEF IdInv, idVars
  <1>3. CASE Ids
    <2>1. UNCHANGED <<flag, idLo, idHi, id, used, again, cut>>
      BY DEF idVars
    <2>2. Latest' = Latest
      BY <2>1 DEF Latest, Saved
    <2>3. ASSUME NEW u \in used
          PROVE  Age(u)' < Spent'
      <3>1. Age(u)' = Age(u)
        BY <2>2 DEF Age
      <3>2. Age(u) < Spent
        BY <1>3, <2>3 DEF Ids, Behind
      <3>3. Age(u) < presses
        BY <2>3, <3>2, SpentBefore DEF IdInv
      <3>4. Spent' = Spent \/ Spent' = presses
        BY DEF Spent
      <3>5. QED
        BY <3>1, <3>2, <3>3, <3>4
    <2>4. QED
      BY <1>1, <1>3, <2>1, <2>3 DEF IdInv, Ids, FirstIds, DrawnId, Behind
  <1>4. QED
    BY <1>2, <1>3 DEF IdInv


\* No step of the ids.
LEMMA IdKept == ASSUME IdInv, UNCHANGED <<pc, presses>>, UNCHANGED idVars PROVE IdInv'
  <1>1. IdType' /\ UNCHANGED <<flag, idLo, idHi, id, used, again, cut>>
    BY DEF IdInv, IdType, idVars
  <1>2. Latest' = Latest /\ Spent' = Spent
    BY <1>1 DEF Latest, Saved, Spent
  <1>3. ASSUME NEW u \in used PROVE Age(u)' = Age(u)
    BY <1>2 DEF Age
  <1>4. Ids => Ids'
    <2>1. SUFFICES ASSUME Ids PROVE Ids'
      OBVIOUS
    <2>2. FirstIds' /\ again' = again
      BY <1>1, <2>1 DEF Ids, FirstIds
    <2>3. DrawnId'
      BY <1>1, <2>1 DEF Ids, DrawnId, Saved
    <2>4. Behind'
      BY <1>1, <1>2, <1>3, <2>1 DEF Ids, Behind
    <2>5. QED
      BY <2>1, <2>2, <2>3, <2>4 DEF Ids
  <1>5. QED
    BY <1>1, <1>4 DEF IdInv

LEMMA PressIds == ASSUME IdInv, Press PROVE IdInv'
  <1>1. /\ pc = "loop" /\ pc' = "press" /\ presses < MaxPresses /\ presses' = presses + 1
        /\ UNCHANGED <<flag, idLo, idHi, id, used, again, cut>>
    BY DEF Press, Steps, idVars
  <1>2. presses \in Nat /\ MaxPresses \in Nat
    BY PressesType, IdConstants DEF IdInv
  <1>3. presses' \in 0..MaxPresses /\ presses' > 0 /\ presses' - 1 = presses
    BY <1>1, <1>2
  <1>4. IdType'
    BY <1>1, <1>3 DEF IdInv, IdType
  <1>5. Latest' = Latest /\ Spent' = Spent
    BY <1>1, <1>3 DEF Latest, Saved, Spent, Drawing
  <1>6. ASSUME NEW u \in used PROVE Age(u)' = Age(u)
    BY <1>5 DEF Age
  <1>7. Ids => Ids'
    <2>1. SUFFICES ASSUME Ids PROVE Ids'
      OBVIOUS
    <2>2. FirstIds' /\ DrawnId' /\ again' = again
      BY <1>1, <2>1 DEF Ids, FirstIds, DrawnId
    <2>3. Behind'
      BY <1>1, <1>5, <1>6, <2>1 DEF Ids, Behind
    <2>4. QED
      BY <2>1, <2>2, <2>3 DEF Ids
  <1>8. QED
    BY <1>1, <1>4, <1>7 DEF IdInv

\* The EEPROM is set up while no code has been given.
LEMMA FirstIdIds == ASSUME IdInv, FirstId PROVE IdInv'
  <1>1. /\ UNCHANGED <<id, used, again, cut, presses>>
        /\ pc \in {"id", "id low 0", "id high 0"} /\ pc' \in {"id low 0", "id high 0", "next id"}
    BY DEF FirstId, Steps
  <1>2. /\ idLo' \in {idLo, 0} /\ idHi' \in {idHi, 0}
        /\ flag # 1 \/ pc \in {"id low 0", "id high 0"}
        /\ flag' = 1 \/ (pc \in {"id low 0", "id high 0"} /\ flag' = flag)
    BY DEF FirstId, Steps
  <1>3. 0 \in 0..(Byte - 1)
    BY IdConstants
  <1>4. IdType'
    BY <1>1, <1>2, <1>3 DEF IdInv, IdType, Drawing
  <1>5. Ids => Ids'
    <2>1. SUFFICES ASSUME Ids PROVE Ids'
      OBVIOUS
    <2>2. used' = {} /\ flag' = 1
      BY <1>1, <1>2, <2>1 DEF Ids, FirstIds
    <2>3. QED
      BY <1>1, <2>1, <2>2 DEF Ids, FirstIds, DrawnId, Behind
  <1>6. QED
    BY <1>1, <1>4, <1>5 DEF IdInv


\* No id in a code comes after the saved one: the presses have not gone round.
LEMMA NextUnused ==
    ASSUME IdType, Behind, pc # "id high"
    PROVE  (Saved + 1) % (Byte * Byte) \in 0..(Byte * Byte - 1) \ used
  <1> DEFINE m == Byte * Byte
             v == (Saved + 1) % m
  <1>1. m \in Nat /\ m > 1 /\ Saved \in 0..(m - 1) /\ MaxPresses < m
    BY IdConstants, IdWords
  <1>2. presses \in Nat /\ presses <= MaxPresses /\ MaxPresses \in Nat
    BY PressesType, IdConstants
  <1>3. v \in 0..(m - 1)
    BY <1>1, NextIsWord
  <1>4. SUFFICES ASSUME v \in used PROVE FALSE
    BY <1>3
  <1>5. Age(v) = (IF v <= Saved THEN Saved - v ELSE Saved - v + m)
    BY DEF Age, Latest
  <1>6. Age(v) = m - 1
    <2> HIDE DEF m
    <2>1. QED
      BY <1>1, <1>3, <1>5, NextWord
  <1>7. Age(v) < presses
    BY <1>4, SpentBefore DEF Behind
  <1>8. QED
    BY <1>1, <1>2, <1>6, <1>7, AllTheWayRound

LEMMA FetchIds == ASSUME IdInv, FetchId PROVE IdInv'
  <1>1. /\ pc \in {"id", "next id"} /\ pc' = "id low" /\ (pc = "next id" \/ flag = 1)
        /\ id' = (Saved + 1) % (Byte * Byte)
        /\ UNCHANGED <<flag, idLo, idHi, used, again, cut, presses>>
    BY DEF FetchId, Steps, Saved
  <1>2. (Saved + 1) % (Byte * Byte) \in 0..(Byte * Byte - 1)
    BY IdConstants, IdWords, NextIsWord DEF IdInv
  <1>3. IdType'
    BY <1>1, <1>2 DEF IdInv, IdType, Drawing
  <1>4. Saved' = Saved /\ Latest' = Latest /\ Spent' = Spent
    BY <1>1 DEF Saved, Latest, Spent, Drawing
  <1>5. ASSUME NEW u \in used PROVE Age(u)' = Age(u)
    BY <1>4 DEF Age
  <1>6. Ids => Ids'
    <2>1. SUFFICES ASSUME Ids PROVE Ids'
      OBVIOUS
    <2>2. id' \notin used
      BY <1>1, <2>1, NextUnused DEF IdInv, Ids
    <2>3. FirstIds' /\ DrawnId' /\ again' = again
      BY <1>1, <1>4, <2>1, <2>2 DEF Ids, FirstIds, DrawnId
    <2>4. Behind'
      BY <1>1, <1>4, <1>5, <2>1 DEF Ids, Behind
    <2>5. QED
      BY <2>1, <2>3, <2>4 DEF Ids
  <1>7. QED
    BY <1>1, <1>3, <1>6 DEF IdInv

\* The low byte is saved: the id is the latest now, and ages the others by one.
LEMMA LowSaved == ASSUME IdInv, getNextMessageID, pc = "id low" PROVE IdInv'
  <1>1. /\ pc' = "id high" /\ idLo' = id % Byte
        /\ UNCHANGED <<flag, idHi, id, used, again, cut, presses>>
    BY DEF getNextMessageID, SaveId, Steps
  <1>2. id % Byte \in 0..(Byte - 1)
    BY BytesOfWord DEF IdInv, IdType
  <1>3. IdType'
    BY <1>1, <1>2 DEF IdInv, IdType, Drawing
  <1>4. Ids => Ids'
    <2>1. SUFFICES ASSUME Ids PROVE Ids'
      OBVIOUS
    <2>2. FirstIds' /\ DrawnId' /\ again' = again
      BY <1>1, <2>1 DEF Ids, FirstIds, DrawnId
    <2>3. ASSUME NEW u \in used PROVE Age(u)' < presses
      <3> DEFINE m == Byte * Byte
                 w == Saved
                 a == Age(u)
      <3>1. m \in Nat /\ m > 1 /\ w \in 0..(m - 1) /\ u \in 0..(m - 1)
        BY IdConstants, IdWords DEF IdInv, IdType
      <3>2. id = (w + 1) % m /\ u # id
        BY <2>1 DEF Ids, DrawnId
      <3>3. a = (IF u <= w THEN w - u ELSE w - u + m)
        BY DEF Age, Latest
      <3>4. Age(u)' = (IF u <= id THEN id - u ELSE id - u + m)
        BY <1>1 DEF Age, Latest
      <3>5. a \in Nat /\ presses \in Nat /\ a < presses - 1
        BY <2>1, AgeType, PressesType DEF IdInv, Ids, Behind, Spent, Drawing
      <3> HIDE DEF m, w, a
      <3>6. (IF u <= id THEN id - u ELSE id - u + m) = a + 1
        BY <3>1, <3>2, <3>3, NextWord
      <3>7. a + 1 < presses
        BY <3>5, OneMore
      <3>8. QED
        BY <3>4, <3>6, <3>7
    <2>4. Behind'
      BY <1>1, <2>3 DEF Behind, Spent, Drawing
    <2>5. QED
      BY <2>1, <2>2, <2>4 DEF Ids
  <1>5. QED
    BY <1>1, <1>3, <1>4 DEF IdInv

\* The high byte is saved: the saved id is the one drawn.
LEMMA HighSaved == ASSUME IdInv, getNextMessageID, pc = "id high" PROVE IdInv'
  <1>1. /\ pc' = "hash" /\ idHi' = id \div Byte
        /\ UNCHANGED <<flag, idLo, id, used, again, cut, presses>>
    BY DEF getNextMessageID, SaveId, Steps
  <1>2. id \div Byte \in 0..(Byte - 1) /\ (id \div Byte) * Byte + (id % Byte) = id
    BY BytesOfWord DEF IdInv, IdType
  <1>3. IdType'
    BY <1>1, <1>2 DEF IdInv, IdType, Drawing
  <1>4. Ids => Ids'
    <2>1. SUFFICES ASSUME Ids PROVE Ids'
      OBVIOUS
    <2>2. Saved' = id
      BY <1>1, <1>2, <2>1 DEF Saved, Ids, DrawnId
    <2>3. Latest' = Latest /\ Spent' = Spent
      BY <1>1, <2>2 DEF Latest, Spent, Drawing
    <2>4. ASSUME NEW u \in used PROVE Age(u)' = Age(u)
      BY <2>3 DEF Age
    <2>5. FirstIds' /\ DrawnId' /\ again' = again
      BY <1>1, <2>1, <2>2 DEF Ids, FirstIds, DrawnId
    <2>6. Behind'
      BY <1>1, <2>1, <2>3, <2>4 DEF Ids, Behind
    <2>7. QED
      BY <2>1, <2>5, <2>6 DEF Ids
  <1>5. QED
    BY <1>1, <1>3, <1>4 DEF IdInv

\* The id goes into a code: none is behind it, and the others stay behind.
LEMMA HashIds == ASSUME IdInv, generateHash PROVE IdInv'
  <1>1. /\ pc = "hash" /\ pc' = "clear" /\ used' = used \cup {id} /\ again' = (again \/ id \in used)
        /\ id' = 0 /\ UNCHANGED <<flag, idLo, idHi, cut, presses>>
    BY DEF generateHash, Steps
  <1>2. id \in 0..(Byte * Byte - 1) /\ 0 \in 0..(Byte * Byte - 1)
    <2>1. id \in 0..(Byte * Byte - 1)
      BY DEF IdInv, IdType
    <2>2. QED
      BY <2>1, IdConstants
  <1>3. IdType'
    BY <1>1, <1>2 DEF IdInv, IdType, Drawing
  <1>4. Ids => Ids'
    <2>1. SUFFICES ASSUME Ids PROVE Ids'
      OBVIOUS
    <2>2. ~again'
      BY <1>1, <2>1 DEF Ids, DrawnId
    <2>3. FirstIds' /\ DrawnId'
      BY <1>1, <2>1 DEF Ids, FirstIds, DrawnId
    <2>4. Latest' = Latest /\ Latest = id /\ Spent = presses /\ Spent' = presses
      BY <1>1, <2>1 DEF Latest, Saved, Spent, Drawing, Ids, DrawnId
    <2>5. ASSUME NEW u \in used' PROVE Age(u)' < presses
      <3>1. Age(u)' = Age(u)
        BY <2>4 DEF Age
      <3>2. CASE u \in used
        BY <2>1, <2>4, <3>1, <3>2 DEF Ids, Behind
      <3>3. CASE u = id
        <4>1. Age(u) = id - id
          BY <1>2, <2>4, <3>3 DEF Age
        <4>2. id - id = 0
          BY <1>2
        <4>3. presses > 0
          BY <1>1 DEF IdInv, IdType
        <4>4. QED
          BY <3>1, <4>1, <4>2, <4>3
      <3>4. QED
        BY <1>1, <2>5, <3>2, <3>3
    <2>6. Behind'
      BY <2>4, <2>5 DEF Behind
    <2>7. QED
      BY <2>2, <2>3, <2>6, <2>1 DEF Ids
  <1>5. QED
    BY <1>1, <1>3, <1>4 DEF IdInv

\* The saved id outlives a reset, but for one cut between its two bytes.
LEMMA ResetIds == ASSUME IdInv, Reset PROVE IdInv'
  <1>1. /\ pc' = "begin" /\ id' = 0 /\ UNCHANGED <<flag, idLo, idHi, used, again, presses>>
        /\ cut' = (cut \/ (pc = "id high" /\ idHi # id \div Byte))
    BY DEF Reset
  <1>2. 0 \in 0..(Byte * Byte - 1)
    BY IdConstants
  <1>3. IdType'
    BY <1>1, <1>2 DEF IdInv, IdType, Drawing
  <1>4. Ids => cut' \/ Ids'
    <2>1. SUFFICES ASSUME Ids, ~cut' PROVE Ids'
      OBVIOUS
    <2>2. Latest' = Latest
      <3>1. CASE pc = "id high"
        <4>1. idHi = id \div Byte /\ idLo = id % Byte
          BY <1>1, <2>1, <3>1 DEF Ids, DrawnId
        <4>2. (id \div Byte) * Byte + (id % Byte) = id
          BY BytesOfWord DEF IdInv, IdType
        <4>3. Saved = id
          BY <4>1, <4>2 DEF Saved
        <4>4. QED
          BY <1>1, <3>1, <4>3 DEF Latest, Saved
      <3>2. CASE pc # "id high"
        BY <1>1, <3>2 DEF Latest, Saved
      <3>3. QED
        BY <3>1, <3>2
    <2>3. ASSUME NEW u \in used PROVE Age(u)' < presses
      <3>1. Age(u)' = Age(u)
        BY <2>2 DEF Age
      <3>2. Age(u) < presses
        BY <2>1, <2>3, SpentBefore DEF IdInv, Ids, Behind
      <3>3. QED
        BY <3>1, <3>2
    <2>4. Behind'
      BY <1>1, <2>3 DEF Behind, Spent, Drawing
    <2>5. FirstIds' /\ DrawnId' /\ again' = again
      BY <1>1, <2>1 DEF Ids, FirstIds, DrawnId
    <2>6. QED
      BY <2>1, <2>4, <2>5 DEF Ids
  <1>5. QED
    BY <1>1, <1>3, <1>4 DEF IdInv

LEMMA NextIds == IdInv /\ [Next]_vars => IdInv'
  <1> SUFFICES ASSUME IdInv, [Next]_vars PROVE IdInv'
    OBVIOUS
  <1>1. CASE coinInserted
    BY <1>1, IdKept DEF coinInserted
  <1>2. CASE setup
    BY <1>2, NoIdDrawn DEF setup, Steps, Drawing, coinVars
  <1>3. CASE ShowSum
    BY <1>3, NoIdDrawn DEF ShowSum, Steps, Drawing
  <1>4. CASE ReadLow
    BY <1>4, NoIdDrawn DEF ReadLow, Steps, Drawing
  <1>5. CASE ReadHigh
    BY <1>5, NoIdDrawn DEF ReadHigh, Steps, Drawing
  <1>6. CASE Shown
    BY <1>6, NoIdDrawn DEF Shown, Steps, Drawing
  <1>7. CASE Press
    BY <1>7, PressIds
  <1>8. CASE PressRead
    BY <1>8, NoIdDrawn DEF PressRead, Steps, Drawing
  <1>9. CASE FirstId
    BY <1>9, FirstIdIds
  <1>10. CASE FetchId
    BY <1>10, FetchIds
  <1>11. CASE getNextMessageID
    <2>1. pc \in {"id low", "id high"}
      BY <1>11 DEF getNextMessageID, Steps
    <2>2. QED
      BY <1>11, <2>1, LowSaved, HighSaved
  <1>12. CASE generateHash
    BY <1>12, HashIds
  <1>13. CASE Cleared
    BY <1>13, NoIdDrawn DEF Cleared, Steps, Drawing
  <1>14. CASE Released
    BY <1>14, NoIdDrawn DEF Released, Steps, Drawing
  <1>15. CASE Driving
    BY <1>15, IdKept DEF Driving
  <1>16. CASE Reset
    BY <1>16, ResetIds
  <1>17. CASE UNCHANGED vars
    BY <1>17, IdKept DEF vars
  <1>18. QED
    BY <1>1, <1>2, <1>3, <1>4, <1>5, <1>6, <1>7, <1>8, <1>9, <1>10, <1>11, <1>12,
       <1>13, <1>14, <1>15, <1>16, <1>17 DEF Next

(* No message id is in two codes of a board, however often the power goes   *)
(* and whenever, unless it goes between the two writes of an id that        *)
(* carries into the high byte (getNextMessageID), as long as the switch is  *)
(* pressed fewer times than there are ids.                                  *)
THEOREM IdsFreshTheorem == Spec => []IdsFresh
  <1>1. IdInv => IdsFresh
    BY DEF IdInv, Ids, IdsFresh
  <1>2. QED
    BY IdStart, NextIds, <1>1, PTL DEF Spec

---------------------------------------------------------------------------
(* The patcher.                                                            *)
Stages == {"begin", "halted", "address", "read", "backup", "restart", "patched"} \cup Files
Sets == {"own", "default"}

PatchTypeOK ==
    /\ stage \in Stages /\ at \in 1..(Portions + 1) /\ status \in {0, 1}
    /\ params \in [1..Portions -> {"none", "noise"} \cup Sets]
    /\ MACvalid \in BOOLEAN /\ mixed \in BOOLEAN
    /\ file \in [Files -> [1..Portions -> {"new"} \cup Sets]]

AtInFile ==
    /\ stage \in Files => at \in 1..Last(stage)
    /\ stage = "backup" => at \in 1..Portions

MacOwn == file["mac"] = Whole("own")

\* The parameters in the chip are of a set, and of one unless they are mixed.
RmSets == file["rm"] \in [1..Portions -> Sets]

OneSet ==
    /\ stage # "rm" /\ ~mixed => \E who \in Sets : file["rm"] = Whole(who)
    /\ stage = "rm" /\ ~mixed => \E who \in Sets : params = Whole(who)

\* So are those in RAM, once they are read.
ReadSoFar == stage = "read" /\ status = 0 => \A p \in 1..(at - 1) : params[p] = file["rm"][p]

ParamsKept == stage \in {"backup", "fat"} => params = file["rm"] \/ params = Whole("default")

ParamsSets == stage \in {"backup", "fat", "rm"} => params \in [1..Portions -> Sets]

\* How far the file being written has come.
RmSoFar == stage = "rm" /\ status = 0 => \A p \in 1..(at - 1) : file["rm"][p] = params[p]

DrvSoFar ==
    /\ stage = "drv" /\ status = 0 => \A p \in 1..(at - 1) : file["drv"][p] = "new"
    /\ stage \in {"fw", "restart", "patched"} => file["drv"] = Whole("new")

FwSoFar ==
    /\ stage = "fw" /\ status = 0 => \A p \in 1..(at - 1) : file["fw"][p] = "new"
    /\ stage \in {"restart", "patched"} => file["fw"] = Whole("new")

PatchInv ==
    /\ PatchTypeOK /\ AtInFile /\ MacOwn /\ RmSets /\ OneSet
    /\ ReadSoFar /\ ParamsKept /\ ParamsSets
    /\ RmSoFar /\ DrvSoFar /\ FwSoFar

---------------------------------------------------------------------------
LEMMA WholeType == \A who : Whole(who) \in [1..Portions -> {who}]
  BY DEF Whole

LEMMA WholeIs ==
    ASSUME NEW S, NEW g \in [1..Portions -> S], NEW who, \A p \in 1..Portions : g[p] = who
    PROVE  g = Whole(who)
  BY DEF Whole

LEMMA LastIs == ASSUME NEW f \in Files PROVE Last(f) \in 1..Portions /\ (f # "mac" => Last(f) = Portions)
  BY PatchAssumption DEF Last, Files

\* A write changes one portion of one file.
LEMMA WriteIs ==
    ASSUME PatchTypeOK, NEW f \in Files, at \in 1..Portions, Contents(f, at) \in {"new"} \cup Sets,
           file' = [file EXCEPT ![f][at] = Contents(f, at)]
    PROVE  /\ file' \in [Files -> [1..Portions -> {"new"} \cup Sets]]
           /\ \A h \in Files : h # f => file'[h] = file[h]
           /\ \A p \in 1..Portions :
                 file'[f][p] = IF p = at THEN Contents(f, at) ELSE file[f][p]
  BY DEF PatchTypeOK

LEMMA PatchInitInv == PatchInit => PatchInv
  <1> SUFFICES ASSUME PatchInit PROVE PatchInv
    OBVIOUS
  <1> USE DEF PatchInit, InRam
  <1>1. \A f \in Files : file[f] = Whole("own")
    OBVIOUS
  <1>2. Whole("own") \in [1..Portions -> Sets] /\ Whole("none") \in [1..Portions -> {"none"}]
    BY DEF Whole, Sets
  <1>3. PatchTypeOK
    <2>1. file \in [Files -> [1..Portions -> {"new"} \cup Sets]]
      <3>1. Whole("own") \in [1..Portions -> {"new"} \cup Sets]
        BY <1>2
      <3>2. QED
        BY <3>1
    <2>2. params \in [1..Portions -> {"none", "noise"} \cup Sets]
      BY <1>2
    <2>3. stage \in Stages /\ at \in 1..(Portions + 1) /\ status \in {0, 1}
      BY PatchAssumption DEF Stages
    <2>4. MACvalid \in BOOLEAN /\ mixed \in BOOLEAN
      BY Zenon
    <2>5. QED
      BY <2>1, <2>2, <2>3, <2>4 DEF PatchTypeOK
  <1>4. MacOwn /\ RmSets /\ OneSet
    BY <1>1, <1>2 DEF MacOwn, RmSets, OneSet, Files, Sets
  <1>5. QED
    BY <1>3, <1>4 DEF PatchInv, AtInFile, ReadSoFar, ParamsKept, ParamsSets, RmSoFar, DrvSoFar,
                      FwSoFar, Files

---------------------------------------------------------------------------
\* A step that only moves between the stages before the parameters are read.
LEMMA MovesInv ==
    ASSUME PatchInv, stage' \in {"halted", "address", "read"} \/ (stage = "restart" /\ stage' = "patched"),
           stage # "rm", at' = 1, status' = 0, MACvalid' \in BOOLEAN,
           params' = params, file' = file, mixed' = mixed
    PROVE  PatchInv'
  <1>1. PatchTypeOK'
    BY PatchAssumption DEF PatchInv, PatchTypeOK, Stages
  <1>2. OneSet'
    BY DEF PatchInv, OneSet
  <1>3. AtInFile' /\ MacOwn' /\ RmSets' /\ ReadSoFar' /\ ParamsKept' /\ ParamsSets' /\ RmSoFar'
    BY DEF PatchInv, AtInFile, MacOwn, RmSets, ReadSoFar, ParamsKept, ParamsSets, RmSoFar, Files
  <1>4. DrvSoFar' /\ FwSoFar'
    BY DEF PatchInv, DrvSoFar, FwSoFar
  <1>5. QED
    BY <1>1, <1>2, <1>3, <1>4 DEF PatchInv

LEMMA ReadInv == PatchInv /\ nvmem_read => PatchInv'
  <1> SUFFICES ASSUME PatchInv, nvmem_read PROVE PatchInv'
    OBVIOUS
  <1> USE DEF PatchInv
  <1>0. /\ stage = "read" /\ stage' = "read" /\ at \in 1..Portions /\ at' = at + 1
        /\ file' = file /\ mixed' = mixed /\ MACvalid' = MACvalid
    BY PatchAssumption DEF nvmem_read, kept, PatchTypeOK
  <1>1. PICK failed \in BOOLEAN :
            /\ status' = IF failed THEN 1 ELSE status
            /\ params' = [params EXCEPT ![at] = IF failed THEN "noise" ELSE file["rm"][at]]
    BY DEF nvmem_read
  <1>2. file["rm"][at] \in Sets
    BY <1>0 DEF RmSets
  <1>3. PatchTypeOK'
    BY <1>0, <1>1, <1>2, PatchAssumption DEF PatchTypeOK
  <1>4. ReadSoFar'
    <2> SUFFICES ASSUME status' = 0, NEW p \in 1..at PROVE params'[p] = file["rm"][p]
      BY <1>0 DEF ReadSoFar
    <2>1. ~failed /\ status = 0
      BY <1>1
    <2>2. CASE p = at
      BY <2>1, <2>2, <1>0, <1>1 DEF PatchTypeOK
    <2>3. CASE p # at
      <3>1. p \in 1..(at - 1)
        BY <2>3, <1>0
      <3>2. params[p] = file["rm"][p]
        BY <3>1, <2>1, <1>0 DEF ReadSoFar
      <3>3. QED
        BY <3>2, <2>3, <1>0, <1>1 DEF PatchTypeOK
    <2>4. QED
      BY <2>2, <2>3
  <1>5. AtInFile' /\ MacOwn' /\ RmSets' /\ OneSet'
    BY <1>0 DEF AtInFile, MacOwn, RmSets, OneSet, Files
  <1>6. ParamsKept' /\ ParamsSets' /\ RmSoFar' /\ DrvSoFar' /\ FwSoFar'
    BY <1>0 DEF ParamsKept, ParamsSets, RmSoFar, DrvSoFar, FwSoFar
  <1>7. QED
    BY <1>3, <1>4, <1>5, <1>6

LEMMA AttemptInv == PatchInv /\ AfterAttempt => PatchInv'
  <1> SUFFICES ASSUME PatchInv, AfterAttempt PROVE PatchInv'
    OBVIOUS
  <1> USE DEF PatchInv
  <1>0. /\ stage = "read" /\ at = Portions + 1 /\ at' = 1 /\ status' = 0
        /\ file' = file /\ mixed' = mixed /\ MACvalid' = MACvalid
        /\ stage' \in {"read", "backup", "fat"}
    BY PatchAssumption DEF AfterAttempt, kept, PatchTypeOK, Goes
  <1>1. stage' # "read" => params' = file["rm"] \/ params' = Whole("default")
    <2> SUFFICES ASSUME stage' # "read", params' # Whole("default") PROVE params' = file["rm"]
      OBVIOUS
    <2>1. params' = params /\ status = 0
      BY DEF AfterAttempt, Goes, PatchTypeOK
    <2>2. \A p \in 1..Portions : params[p] = file["rm"][p]
      BY <2>1, <1>0, PatchAssumption DEF ReadSoFar
    <2>3. params \in [1..Portions -> {"none", "noise"} \cup Sets]
          /\ file["rm"] \in [1..Portions -> Sets]
      BY DEF PatchTypeOK, RmSets
    <2>4. /\ params = [p \in 1..Portions |-> params[p]]
          /\ file["rm"] = [p \in 1..Portions |-> file["rm"][p]]
      BY <2>3
    <2>5. [p \in 1..Portions |-> params[p]] = [p \in 1..Portions |-> file["rm"][p]]
      BY <2>2
    <2>6. QED
      BY <2>1, <2>4, <2>5
  <1>2. Whole("default") \in [1..Portions -> Sets]
    BY DEF Whole, Sets
  <1>3. PatchTypeOK'
    <2>1. params' = params \/ params' = Whole("default")
      BY DEF AfterAttempt
    <2>2. params' \in [1..Portions -> {"none", "noise"} \cup Sets]
      BY <2>1, <1>2 DEF PatchTypeOK
    <2>3. QED
      BY <2>2, <1>0, PatchAssumption DEF PatchTypeOK, Stages, Files
  <1>4. ParamsKept' /\ ParamsSets'
    BY <1>0, <1>1, <1>2 DEF ParamsKept, ParamsSets, RmSets
  <1>5. AtInFile' /\ MacOwn' /\ RmSets' /\ OneSet' /\ ReadSoFar'
    BY <1>0, LastIs, PatchAssumption
       DEF AtInFile, MacOwn, RmSets, OneSet, ReadSoFar, Files, Last
  <1>6. RmSoFar' /\ DrvSoFar' /\ FwSoFar'
    BY <1>0 DEF RmSoFar, DrvSoFar, FwSoFar
  <1>7. QED
    BY <1>3, <1>4, <1>5, <1>6

LEMMA BackupInv == PatchInv /\ BacksUp => PatchInv'
  <1> SUFFICES ASSUME PatchInv, BacksUp PROVE PatchInv'
    OBVIOUS
  <1> USE DEF PatchInv
  <1>0. /\ stage = "backup" /\ file' = file /\ mixed' = mixed /\ MACvalid' = MACvalid
        /\ params' = params
        /\ \/ stage' = "fat" /\ at' = 1 /\ status' = 0
           \/ stage' = "backup" /\ at # Portions /\ at' = at + 1 /\ status' = status
    BY DEF BacksUp, Goes
  <1>1. PatchTypeOK' /\ AtInFile'
    BY <1>0, PatchAssumption DEF PatchTypeOK, AtInFile, Stages, Files, Last
  <1>2. MacOwn' /\ RmSets' /\ OneSet' /\ ReadSoFar' /\ ParamsKept' /\ ParamsSets'
    BY <1>0 DEF MacOwn, RmSets, OneSet, ReadSoFar, ParamsKept, ParamsSets
  <1>3. RmSoFar' /\ DrvSoFar' /\ FwSoFar'
    BY <1>0 DEF RmSoFar, DrvSoFar, FwSoFar
  <1>4. QED
    BY <1>1, <1>2, <1>3

LEMMA CutInv == PatchInv /\ PowerCut => PatchInv'
  <1> SUFFICES ASSUME PatchInv, PowerCut PROVE PatchInv'
    OBVIOUS
  <1> USE DEF PatchInv
  <1>0. /\ stage' = "begin" /\ at' = 1 /\ status' = 0 /\ params' = Whole("none")
        /\ MACvalid' = FALSE /\ file' = file /\ mixed' = (mixed \/ ~Uniform("rm"))
    BY DEF PowerCut
  <1>1. Whole("none") \in [1..Portions -> {"none"}]
    BY DEF Whole
  <1>2. PatchTypeOK'
    <2>1. stage' \in Stages /\ at' \in 1..(Portions + 1) /\ status' \in {0, 1}
      BY <1>0, PatchAssumption DEF Stages
    <2>2. MACvalid' \in BOOLEAN /\ mixed' \in BOOLEAN
      BY <1>0, Zenon
    <2>3. params' \in [1..Portions -> {"none", "noise"} \cup Sets]
      BY <1>0, <1>1
    <2>4. QED
      BY <2>1, <2>2, <2>3, <1>0 DEF PatchTypeOK
  <1>3. OneSet'
    <2> SUFFICES ASSUME ~mixed' PROVE \E who \in Sets : file["rm"] = Whole(who)
      BY <1>0 DEF OneSet
    <2>1. PICK who \in {"own", "default", "new"} : file["rm"] = Whole(who)
      BY <1>0 DEF Uniform
    <2>2. file["rm"][1] = who /\ file["rm"][1] \in Sets
      BY <2>1, PatchAssumption DEF Whole, RmSets
    <2>3. QED
      BY <2>1, <2>2 DEF Sets
  <1>4. AtInFile' /\ MacOwn' /\ RmSets' /\ ReadSoFar' /\ ParamsKept' /\ ParamsSets'
    BY <1>0 DEF AtInFile, MacOwn, RmSets, ReadSoFar, ParamsKept, ParamsSets, Files
  <1>5. RmSoFar' /\ DrvSoFar' /\ FwSoFar'
    BY <1>0 DEF RmSoFar, DrvSoFar, FwSoFar
  <1>6. QED
    BY <1>2, <1>3, <1>4, <1>5

---------------------------------------------------------------------------
(* A write: what it does to the file, and where it goes on.                 *)
Stays(f, failed) ==
    stage' = f /\ at < Last(f) /\ at' = at + 1 /\ status' = Counted(f, failed)

Again(f) == stage' = f /\ at' = 1 /\ status' = 0

Ends(f, failed) ==
    /\ ~failed /\ at = Last(f) /\ (f # "fat" => status = 0)
    /\ stage' = Then(f) /\ at' = 1 /\ status' = 0

LEMMA WriteCases ==
    ASSUME PatchInv, NEW f \in Files, nvmem_write(f)
    PROVE  /\ stage = f /\ at \in 1..Last(f) /\ at \in 1..Portions
           /\ params' = params /\ MACvalid' = MACvalid /\ mixed' = mixed
           /\ \E failed, done \in BOOLEAN :
                 /\ failed \/ done
                 /\ Stays(f, failed) \/ Again(f) \/ Ends(f, failed)
                 /\ file' \in [Files -> [1..Portions -> {"new"} \cup Sets]]
                 /\ \A h \in Files : h # f => file'[h] = file[h]
                 /\ \A p \in 1..Portions :
                       file'[f][p] = IF done /\ p = at THEN Contents(f, at) ELSE file[f][p]
  <1>1. stage = f /\ at \in 1..Last(f)
    BY DEF nvmem_write, PatchInv, AtInFile
  <1>2. at \in 1..Portions
    BY <1>1, LastIs, PatchAssumption
  <1>3. params' = params /\ MACvalid' = MACvalid /\ mixed' = mixed
    BY DEF nvmem_write, kept
  <1>4. PICK failed \in BOOLEAN, done \in BOOLEAN :
            /\ failed \/ done
            /\ file' = IF done THEN [file EXCEPT ![f][at] = Contents(f, at)] ELSE file
            /\ IF at < Last(f) /\ ~EndsEarly(f, failed)
               THEN at' = at + 1 /\ status' = Counted(f, failed) /\ UNCHANGED stage
               ELSE Goes(IF Counted(f, failed) = 0 THEN Then(f) ELSE f)
    BY DEF nvmem_write
  <1>5. Stays(f, failed) \/ Again(f) \/ Ends(f, failed)
    <2>1. CASE at < Last(f) /\ ~EndsEarly(f, failed)
      BY <2>1, <1>1, <1>4 DEF Stays
    <2>2. CASE ~(at < Last(f) /\ ~EndsEarly(f, failed)) /\ Counted(f, failed) # 0
      BY <2>2, <1>4 DEF Again, Goes
    <2>3. CASE ~(at < Last(f) /\ ~EndsEarly(f, failed)) /\ Counted(f, failed) = 0
      <3>1. ~failed /\ (f # "fat" => status = 0)
        BY <2>3 DEF Counted
      <3>2. ~(at < Last(f))
        BY <2>3, <3>1 DEF EndsEarly
      <3>3. at = Last(f)
        BY <3>2, <1>1, LastIs
      <3>4. stage' = Then(f) /\ at' = 1 /\ status' = 0
        BY <2>3, <1>4 DEF Goes
      <3>5. QED
        BY <3>1, <3>3, <3>4 DEF Ends
    <2>4. QED
      BY <2>1, <2>2, <2>3
  <1>6. Contents(f, at) \in {"new"} \cup Sets
    <2>1. CASE f = "rm"
      <3>1. params[at] \in Sets
        BY <2>1, <1>1, <1>2 DEF PatchInv, ParamsSets
      <3>2. QED
        BY <2>1, <3>1 DEF Contents
    <2>2. CASE f # "rm"
      BY <2>2 DEF Contents, Sets
    <2>3. QED
      BY <2>1, <2>2
  <1>7. /\ file' \in [Files -> [1..Portions -> {"new"} \cup Sets]]
        /\ \A h \in Files : h # f => file'[h] = file[h]
        /\ \A p \in 1..Portions :
              file'[f][p] = IF done /\ p = at THEN Contents(f, at) ELSE file[f][p]
    <2>1. CASE done
      <3>1. file' = [file EXCEPT ![f][at] = Contents(f, at)]
        BY <2>1, <1>4
      <3>2. PatchTypeOK
        BY DEF PatchInv
      <3>3. /\ file' \in [Files -> [1..Portions -> {"new"} \cup Sets]]
            /\ \A h \in Files : h # f => file'[h] = file[h]
            /\ \A p \in 1..Portions :
                  file'[f][p] = IF p = at THEN Contents(f, at) ELSE file[f][p]
        BY <3>1, <3>2, <1>2, <1>6, WriteIs
      <3>4. QED
        BY <2>1, <3>3
    <2>2. CASE ~done
      BY <2>2, <1>4 DEF PatchInv, PatchTypeOK
    <2>3. QED
      BY <2>1, <2>2
  <1>8. QED
    BY <1>1, <1>2, <1>3, <1>4, <1>5, <1>7

\* A file of which every portion was written is whole.
LEMMA Filled ==
    ASSUME NEW f \in Files, NEW who, NEW S, file'[f] \in [1..Portions -> S], at = Portions,
           \A p \in 1..(at - 1) : file[f][p] = who, Contents(f, at) = who,
           \A p \in 1..Portions : file'[f][p] = IF p = at THEN Contents(f, at) ELSE file[f][p]
    PROVE  file'[f] = Whole(who)
  <1>1. \A p \in 1..Portions : file'[f][p] = who
    BY PatchAssumption
  <1>2. file'[f] = [p \in 1..Portions |-> file'[f][p]]
    OBVIOUS
  <1>3. QED
    BY <1>1, <1>2 DEF Whole

LEMMA WriteInv == ASSUME PatchInv, NEW f \in Files, nvmem_write(f) PROVE PatchInv'
  <1> USE DEF PatchInv
  <1>1. /\ stage = f /\ at \in 1..Last(f) /\ at \in 1..Portions
        /\ params' = params /\ MACvalid' = MACvalid /\ mixed' = mixed
    BY WriteCases
  <1>2. PICK failed \in BOOLEAN, done \in BOOLEAN :
            /\ failed \/ done
            /\ Stays(f, failed) \/ Again(f) \/ Ends(f, failed)
            /\ file' \in [Files -> [1..Portions -> {"new"} \cup Sets]]
            /\ \A h \in Files : h # f => file'[h] = file[h]
            /\ \A p \in 1..Portions :
                  file'[f][p] = IF done /\ p = at THEN Contents(f, at) ELSE file[f][p]
    BY WriteCases
  <1>3. Then(f) \in {"rm", "mac", "drv", "fw", "restart"}
        /\ (f = "fat" => Then(f) = "rm") /\ (f = "rm" => Then(f) \in {"mac", "drv"})
        /\ (f = "mac" => Then(f) = "drv") /\ (f = "drv" => Then(f) = "fw")
        /\ (f = "fw" => Then(f) = "restart")
    BY DEF Then, Files
  <1>4. Last(f) \in 1..Portions /\ (f # "mac" => Last(f) = Portions)
    BY LastIs
  \* A portion after which the turn is still without a failure was written.
  <1>5. ASSUME Stays(f, failed), status' = 0, f # "fat"
        PROVE  ~failed /\ done /\ status = 0 /\ at' = at + 1
    BY <1>2, <1>5 DEF Stays, Counted
  <1>6. ASSUME Ends(f, failed), f # "fat"
        PROVE  done /\ status = 0 /\ (f # "mac" => at = Portions) /\ stage' = Then(f)
    BY <1>2, <1>4, <1>6 DEF Ends
  <1>7. at' = 1 \/ (stage' = f /\ at' = at + 1 /\ at < Last(f))
    BY <1>2 DEF Stays, Again, Ends
  <1>8. stage' = f \/ (Ends(f, failed) /\ stage' = Then(f))
    BY <1>2 DEF Stays, Again, Ends
  <1>9. PatchTypeOK'
    <2>1. stage' \in Stages
      BY <1>3, <1>8 DEF Stages, Files
    <2>2. at' \in 1..(Portions + 1)
      BY <1>1, <1>4, <1>7, PatchAssumption
    <2>3. status' \in {0, 1}
      BY <1>2 DEF Stays, Again, Ends, Counted, PatchTypeOK
    <2>4. QED
      BY <2>1, <2>2, <2>3, <1>1, <1>2 DEF PatchTypeOK
  <1>10. AtInFile'
    <2>1. stage' \in Files => 1 \in 1..Last(stage')
      BY LastIs, PatchAssumption
    <2>2. at' = at + 1 /\ at < Last(f) => at' \in 1..Last(f)
      BY <1>1, <1>4
    <2>3. stage' # "backup"
      BY <1>3, <1>8 DEF Files
    <2>4. QED
      BY <2>1, <2>2, <2>3, <1>7 DEF AtInFile
  <1>11. MacOwn'
    <2>1. CASE f = "mac"
      <3>1. file["mac"] = Whole("own") /\ Contents(f, at) = "own"
        BY <2>1 DEF MacOwn, Contents
      <3>2. \A p \in 1..Portions : file'["mac"][p] = "own"
        BY <3>1, <2>1, <1>2 DEF Whole
      <3>3. file'["mac"] \in [1..Portions -> {"new"} \cup Sets]
        BY <1>2 DEF Files
      <3>4. QED
        BY <3>2, <3>3, WholeIs DEF MacOwn
    <2>2. CASE f # "mac"
      BY <2>2, <1>2 DEF MacOwn, Files
    <2>3. QED
      BY <2>1, <2>2
  <1>12. RmSets'
    <2>1. CASE f = "rm"
      <3>1. Contents(f, at) \in Sets
        BY <2>1, <1>1 DEF Contents, ParamsSets
      <3>2. \A p \in 1..Portions : file'["rm"][p] \in Sets
        BY <3>1, <2>1, <1>2 DEF RmSets
      <3>3. file'["rm"] \in [1..Portions -> {"new"} \cup Sets]
        BY <1>2 DEF Files
      <3>4. QED
        BY <3>2, <3>3 DEF RmSets
    <2>2. CASE f # "rm"
      BY <2>2, <1>2 DEF RmSets, Files
    <2>3. QED
      BY <2>1, <2>2
  <1>13. OneSet'
    <2>1. CASE f # "rm"
      <3>1. file'["rm"] = file["rm"]
        BY <2>1, <1>2 DEF Files
      <3>2. ASSUME stage' = "rm" PROVE f = "fat"
        BY <3>2, <2>1, <1>3, <1>8 DEF Files
      <3>3. ASSUME stage' = "rm", ~mixed PROVE \E who \in Sets : params = Whole(who)
        BY <3>2, <3>3, <1>1 DEF OneSet, ParamsKept, Sets
      <3>4. QED
        BY <3>1, <3>3, <2>1, <1>1 DEF OneSet
    <2>2. CASE f = "rm" /\ stage' = "rm"
      BY <2>2, <1>1 DEF OneSet
    <2>3. CASE f = "rm" /\ stage' # "rm"
      <3> SUFFICES ASSUME ~mixed PROVE \E who \in Sets : file'["rm"] = Whole(who)
        BY <1>1, <2>3 DEF OneSet
      <3>1. PICK who \in Sets : params = Whole(who)
        BY <1>1, <2>3 DEF OneSet
      <3>2. done /\ status = 0 /\ at = Portions
        BY <2>3, <1>6, <1>8
      <3>3. \A p \in 1..(at - 1) : file["rm"][p] = who
        BY <3>1, <3>2, <2>3, <1>1 DEF RmSoFar, Whole
      <3>4. Contents(f, at) = who
        BY <3>1, <2>3, <1>1 DEF Contents, Whole
      <3>5. file'[f] \in [1..Portions -> {"new"} \cup Sets]
        BY <1>2
      <3>6. QED
        BY <3>2, <3>3, <3>4, <3>5, <2>3, <1>2, Filled
    <2>4. QED
      BY <2>1, <2>2, <2>3
  <1>14. ReadSoFar' /\ ParamsKept' /\ ParamsSets'
    <2>1. stage' \in {"fat", "rm", "mac", "drv", "fw", "restart"}
      BY <1>3, <1>8 DEF Files
    <2>2. stage' = "fat" => f = "fat" /\ file'["rm"] = file["rm"]
      BY <1>2, <1>3, <1>8 DEF Files
    <2>3. stage' = "rm" => f \in {"fat", "rm"}
      BY <1>3, <1>8 DEF Files
    <2>4. QED
      BY <2>1, <2>2, <2>3, <1>1 DEF ReadSoFar, ParamsKept, ParamsSets
  <1>15. RmSoFar'
    <2> SUFFICES ASSUME stage' = "rm", status' = 0, NEW p \in 1..(at' - 1)
                 PROVE  file'["rm"][p] = params[p]
      BY <1>1 DEF RmSoFar
    <2>1. Stays(f, failed) /\ f = "rm"
      BY <1>2 DEF Stays, Again, Ends
    <2>2. ~failed /\ done /\ status = 0 /\ at' = at + 1
      BY <2>1, <1>5
    <2>3. p \in 1..Portions /\ (p # at => p \in 1..(at - 1))
      BY <2>2, <1>1, PatchAssumption
    <2>4. QED
      BY <2>1, <2>2, <2>3, <1>1, <1>2 DEF RmSoFar, Contents
  <1>16. DrvSoFar'
    <2>1. ASSUME stage' = "drv", status' = 0, NEW p \in 1..(at' - 1)
          PROVE  file'["drv"][p] = "new"
      <3>1. Stays(f, failed) /\ f = "drv"
        BY <2>1, <1>2 DEF Stays, Again, Ends
      <3>2. ~failed /\ done /\ status = 0 /\ at' = at + 1
        BY <3>1, <2>1, <1>5
      <3>3. p \in 1..Portions /\ (p # at => p \in 1..(at - 1))
        BY <2>1, <3>2, <1>1, PatchAssumption
      <3>4. QED
        BY <3>1, <3>2, <3>3, <1>1, <1>2 DEF DrvSoFar, Contents
    <2>2. ASSUME stage' \in {"fw", "restart", "patched"} PROVE file'["drv"] = Whole("new")
      <3>1. CASE f = "drv"
        <4>1. done /\ status = 0 /\ at = Portions
          BY <3>1, <2>2, <1>6, <1>8
        <4>2. \A p \in 1..(at - 1) : file["drv"][p] = "new"
          BY <4>1, <3>1, <1>1 DEF DrvSoFar
        <4>3. Contents(f, at) = "new" /\ file'[f] \in [1..Portions -> {"new"} \cup Sets]
          BY <3>1, <1>2 DEF Contents
        <4>4. QED
          BY <4>1, <4>2, <4>3, <3>1, <1>2, Filled
      <3>2. CASE f # "drv"
        <4>1. f = "fw"
          BY <3>2, <2>2, <1>3, <1>8 DEF Files
        <4>2. QED
          BY <4>1, <1>1, <1>2 DEF DrvSoFar, Files
      <3>3. QED
        BY <3>1, <3>2
    <2>3. QED
      BY <2>1, <2>2 DEF DrvSoFar
  <1>17. FwSoFar'
    <2>1. ASSUME stage' = "fw", status' = 0, NEW p \in 1..(at' - 1)
          PROVE  file'["fw"][p] = "new"
      <3>1. at' # 1
        BY <2>1
      <3>2. Stays(f, failed) /\ f = "fw"
        BY <3>1, <2>1, <1>2 DEF Stays, Again, Ends
      <3>3. ~failed /\ done /\ status = 0 /\ at' = at + 1
        BY <3>2, <2>1, <1>5
      <3>4. p \in 1..Portions /\ (p # at => p \in 1..(at - 1))
        BY <2>1, <3>3, <1>1, PatchAssumption
      <3>5. QED
        BY <3>2, <3>3, <3>4, <1>1, <1>2 DEF FwSoFar, Contents
    <2>2. ASSUME stage' \in {"restart", "patched"} PROVE file'["fw"] = Whole("new")
      <3>1. f = "fw"
        BY <2>2, <1>3, <1>8 DEF Files
      <3>2. done /\ status = 0 /\ at = Portions
        BY <3>1, <2>2, <1>6, <1>8
      <3>3. \A p \in 1..(at - 1) : file["fw"][p] = "new"
        BY <3>1, <3>2, <1>1 DEF FwSoFar
      <3>4. Contents(f, at) = "new" /\ file'[f] \in [1..Portions -> {"new"} \cup Sets]
        BY <3>1, <1>2 DEF Contents
      <3>5. QED
        BY <3>1, <3>2, <3>3, <3>4, <1>2, Filled
    <2>3. QED
      BY <2>1, <2>2 DEF FwSoFar
  <1>18. QED
    BY <1>9, <1>10, <1>11, <1>12, <1>13, <1>14, <1>15, <1>16, <1>17

---------------------------------------------------------------------------
LEMMA PatchStutterInv == PatchInv /\ UNCHANGED patchVars => PatchInv'
  BY DEF PatchInv, patchVars, PatchTypeOK, AtInFile, MacOwn, RmSets, OneSet, ReadSoFar,
         ParamsKept, ParamsSets, RmSoFar, DrvSoFar, FwSoFar

LEMMA PatchNextInv == PatchInv /\ [PatchNext]_patchVars => PatchInv'
  <1> SUFFICES ASSUME PatchInv, [PatchNext]_patchVars PROVE PatchInv'
    OBVIOUS
  <1>1. CASE beginUnpatched \/ displayMACAddress \/ beginPatched
    <2>1. /\ stage' \in {"halted", "address", "read"} \/ (stage = "restart" /\ stage' = "patched")
          /\ stage # "rm" /\ at' = 1 /\ status' = 0
          /\ params' = params /\ file' = file /\ mixed' = mixed
      BY <1>1 DEF beginUnpatched, displayMACAddress, beginPatched, Goes, kept
    <2>2. MACvalid' \in BOOLEAN
      BY <1>1 DEF beginUnpatched, displayMACAddress, beginPatched, PatchInv, PatchTypeOK
    <2>3. QED
      BY <2>1, <2>2, MovesInv
  <1>2. CASE nvmem_read
    BY <1>2, ReadInv
  <1>3. CASE AfterAttempt
    BY <1>3, AttemptInv
  <1>4. CASE BacksUp
    BY <1>4, BackupInv
  <1>5. ASSUME NEW f \in Files, nvmem_write(f) PROVE PatchInv'
    BY <1>5, WriteInv
  <1>6. CASE PowerCut
    BY <1>6, CutInv
  <1>7. CASE UNCHANGED patchVars
    BY <1>7, PatchStutterInv
  <1>8. QED
    BY <1>1, <1>2, <1>3, <1>4, <1>5, <1>6, <1>7 DEF PatchNext

\* The invariant of the patcher, for every length of the files and every number
\* of failed commands and power cuts.
THEOREM PatchInvariant == PatchSpec => []PatchInv
  BY PatchInitInv, PatchNextInv, PTL DEF PatchSpec

\* When the sketch says Patched!, both patches are in the chip from end to end,
\* its address is its own and its parameters are one set (driverpatch_1_12.ino
\* 130-285), however many commands fail and however often the power goes.
THEOREM PatchedIsWholeTheorem == PatchSpec => []PatchedIsWhole
  <1>1. PatchInv => PatchedIsWhole
    <2> SUFFICES ASSUME PatchInv, stage = "patched"
                 PROVE  /\ file["drv"] = Whole("new") /\ file["fw"] = Whole("new")
                        /\ file["mac"] = Whole("own")
                        /\ Uniform("rm") \/ mixed
      BY DEF PatchedIsWhole
    <2>1. file["drv"] = Whole("new") /\ file["fw"] = Whole("new") /\ file["mac"] = Whole("own")
      BY DEF PatchInv, DrvSoFar, FwSoFar, MacOwn
    <2>2. Uniform("rm") \/ mixed
      BY DEF PatchInv, OneSet, Uniform, Sets
    <2>3. QED
      BY <2>1, <2>2
  <1>2. QED
    BY <1>1, PatchInvariant, PTL

---------------------------------------------------------------------------
(* The display.  What Flattened and After compute is shown by induction: of *)
(* the numbers a formula fails for there would be a least one.              *)
Least(T, m) == m \in T /\ \A k \in T : m <= k

LEMMA LeastOf ==
    ASSUME NEW T, T \subseteq Nat, T # {}
    PROVE  \E m \in T : Least(T, m)
  <1> DEFINE R == {ss \in Nat \X Nat : ss[1] < ss[2]}
  <1>1. IsWellFoundedOn(R, Nat)
    BY NatLessThanWellFounded DEF OpToRel
  <1>2. \A x, y \in Nat : x < y => <<x, y>> \in R
    OBVIOUS
  <1> HIDE DEF R
  <1>3. PICK m \in T : \A y \in T : ~(<<y, m>> \in R)
    BY <1>1, WFMin
  <1>4. ASSUME NEW k \in T PROVE m <= k
    <2>1. m \in Nat /\ k \in Nat
      OBVIOUS
    <2>2. ~(k < m)
      BY <2>1, <1>2, <1>3
    <2>3. QED
      BY <2>1, <2>2
  <1>5. QED
    BY <1>4 DEF Least

(* Induction up to a bound, on the set of the numbers it holds for.         *)
LEMMA UpTo ==
    ASSUME NEW n \in Nat, NEW S, 0 \in S, \A i \in 1..n : i - 1 \in S => i \in S
    PROVE  \A i \in 0..n : i \in S
  <1> DEFINE T == {i \in 0..n : i \notin S}
  <1>1. SUFFICES ASSUME T # {} PROVE FALSE
    OBVIOUS
  <1>2. PICK m \in T : Least(T, m)
    <2>1. T \subseteq Nat
      OBVIOUS
    <2>2. QED
      BY <1>1, <2>1, LeastOf
  <1>3. m \in 1..n
    OBVIOUS
  <1>4. m - 1 \notin T
    BY <1>2, <1>3 DEF Least
  <1>5. m - 1 \in 0..n
    BY <1>3
  <1>6. m - 1 \in S
    BY <1>4, <1>5
  <1>7. QED
    BY <1>3, <1>6

(* A recursive function on 0..n that begins with a and goes from f[i - 1]   *)
(* to f[i] by step.                                                         *)
Follows(f, n, a, step) == f[0] = a /\ \A i \in 1..n : f[i] = step[<<f[i - 1], i>>]

LEMMA Recursion ==
    ASSUME NEW S, NEW a \in S, NEW n \in Nat, NEW step \in [S \X (1..n) -> S]
    PROVE  \E f \in [0..n -> S] : Follows(f, n, a, step)
  <1> DEFINE N == {k \in 0..n : \E f \in [0..k -> S] : Follows(f, k, a, step)}
  <1>1. 0 \in N
    <2>1. [i \in 0..0 |-> a] \in [0..0 -> S] /\ Follows([i \in 0..0 |-> a], 0, a, step)
      BY DEF Follows
    <2>2. QED
      BY <2>1
  <1>2. ASSUME NEW k \in 1..n, k - 1 \in N PROVE k \in N
    <2>1. PICK f \in [0..(k - 1) -> S] : Follows(f, k - 1, a, step)
      BY <1>2
    <2> DEFINE g == [i \in 0..k |-> IF i = k THEN step[<<f[k - 1], k>>] ELSE f[i]]
    <2>2. f[k - 1] \in S
      OBVIOUS
    <2>3. step[<<f[k - 1], k>>] \in S
      BY <2>2
    <2>4. g \in [0..k -> S]
      BY <2>3
    <2>5. ASSUME NEW i \in 1..k PROVE g[i] = step[<<g[i - 1], i>>]
      <3>1. g[i - 1] = f[i - 1]
        OBVIOUS
      <3>2. CASE i = k
        <4>1. g[k] = step[<<f[k - 1], k>>]
          OBVIOUS
        <4> HIDE DEF g
        <4>2. QED
          BY <3>1, <3>2, <4>1
      <3>3. CASE i # k
        <4>1. g[i] = f[i] /\ i \in 1..(k - 1)
          BY <3>3
        <4>2. f[i] = step[<<f[i - 1], i>>]
          BY <4>1, <2>1 DEF Follows
        <4> HIDE DEF g
        <4>3. QED
          BY <3>1, <4>1, <4>2
      <3>4. QED
        BY <3>2, <3>3
    <2>6. g[0] = a
      BY <2>1 DEF Follows
    <2>7. Follows(g, k, a, step)
      BY <2>5, <2>6 DEF Follows
    <2>8. QED
      BY <2>4, <2>7
  <1>3. n \in N
    <2> HIDE DEF N
    <2> QED BY <1>1, <1>2, UpTo
  <1>4. QED
    BY <1>3

Calling == [b : 0..255, rs : BOOLEAN]
Nibbles == [n : 0..15, rs : BOOLEAN]

Chips ==
    [bits8 : BOOLEAN, half : 0..None, halfRs : BOOLEAN, lines2 : BOOLEAN, on : BOOLEAN,
     inc : BOOLEAN, shift : BOOLEAN, moved : BOOLEAN, cg : BOOLEAN, at : 0..127,
     cells : [Cells -> 0..255]]

LEMMA TwoInSeq ==
    ASSUME NEW S, NEW x \in S, NEW y \in S
    PROVE  <<x, y>> \in Seq(S) /\ Len(<<x, y>>) = 2
  OBVIOUS

LEMMA SendIs ==
    ASSUME NEW b \in 0..255, NEW rs \in BOOLEAN
    PROVE  /\ send(b, rs) = <<Nibble(b \div 16, rs), Nibble(b % 16, rs)>>
           /\ send(b, rs) \in Seq(Nibbles) /\ Len(send(b, rs)) = 2
           /\ b \div 16 \in 0..15 /\ b % 16 \in 0..15 /\ 16 * (b \div 16) + (b % 16) = b
  <1>1. b \div 16 \in 0..15 /\ b % 16 \in 0..15 /\ 16 * (b \div 16) + (b % 16) = b
    <2>1. b \in Int /\ b >= 0 /\ b <= 255
      OBVIOUS
    <2>2. b % 16 \in 0..15
      BY <2>1
    <2>3. 16 * (b \div 16) + (b % 16) = b
      BY <2>1
    <2>4. b \div 16 \in 0..15
      BY <2>1
    <2>5. QED
      BY <2>2, <2>3, <2>4
  <1>2. Nibble(b \div 16, rs) \in Nibbles /\ Nibble(b % 16, rs) \in Nibbles
    BY <1>1 DEF Nibble, Nibbles
  <1>4. send(b, rs) = <<Nibble(b \div 16, rs), Nibble(b % 16, rs)>>
    BY DEF send
  <1>5. send(b, rs) \in Seq(Nibbles) /\ Len(send(b, rs)) = 2
    BY <1>2, <1>4, TwoInSeq
  <1>6. QED
    BY <1>1, <1>4, <1>5

\* c is a and then b.
AThenB(c, a, b) ==
    /\ Len(c) = Len(a) + Len(b)
    /\ \A i \in 1..Len(a) : c[i] = a[i]
    /\ \A i \in 1..Len(b) : c[Len(a) + i] = b[i]

LEMMA Appended ==
    ASSUME NEW S, NEW a \in Seq(S), NEW b \in Seq(S)
    PROVE  a \o b \in Seq(S) /\ AThenB(a \o b, a, b)
  BY DEF AThenB

\* c is the k nibbles of a and the one of b.
OneAfter(c, a, b, k) == Len(c) = k + 1 /\ (\A i \in 1..k : c[i] = a[i]) /\ c[k + 1] = b[1]

LEMMA OneAfterIs ==
    ASSUME NEW a, NEW b, NEW c, AThenB(c, a, b), NEW k \in Nat, Len(a) = k, Len(b) = 1
    PROVE  OneAfter(c, a, b, k)
  BY DEF AThenB, OneAfter

\* c is the k nibbles of a and the two of b.
TwoMore(c, a, b, k) ==
    /\ c \in Seq(Nibbles) /\ Len(c) = k + 2
    /\ \A i \in 1..k : c[i] = a[i]
    /\ c[k + 1] = b[1] /\ c[k + 2] = b[2]

LEMMA TwoMoreIs ==
    ASSUME NEW a \in Seq(Nibbles), NEW b \in Seq(Nibbles), NEW k \in Nat, Len(a) = k, Len(b) = 2
    PROVE  TwoMore(a \o b, a, b, k)
  <1> DEFINE c == a \o b
  <1>1. c \in Seq(Nibbles) /\ AThenB(c, a, b)
    BY Zenon, Appended
  <1> HIDE DEF c
  <1>2. TwoMore(c, a, b, k)
    BY <1>1 DEF TwoMore, AThenB
  <1>3. QED
    BY <1>2 DEF c

\* The nibbles of a sequence of calls.
Halved(t, calls, k) ==
    /\ t \in Seq(Nibbles) /\ Len(t) = 2 * k
    /\ \A i \in 1..k :
           /\ t[2 * i - 1] = Nibble(calls[i].b \div 16, calls[i].rs)
           /\ t[2 * i] = Nibble(calls[i].b % 16, calls[i].rs)

LEMMA FlattenedIs ==
    ASSUME NEW calls \in Seq(Calling)
    PROVE  Halved(Flattened(calls), calls, Len(calls))
  <1> DEFINE n == Len(calls)
             step == [x \in Seq(Nibbles) \X (1..n) |-> x[1] \o send(calls[x[2]].b, calls[x[2]].rs)]
             Body(f, i) == IF i = 0 THEN <<>> ELSE f[i - 1] \o send(calls[i].b, calls[i].rs)
             F(f) == f = [i \in 0..n |-> Body(f, i)]
             f == CHOOSE g : F(g)
  <1>1. Flattened(calls) = f[n]
    BY DEF Flattened
  <1>2. n \in Nat
    OBVIOUS
  <1>3. ASSUME NEW i \in 1..n
        PROVE  /\ send(calls[i].b, calls[i].rs) \in Seq(Nibbles)
               /\ calls[i].b \in 0..255 /\ calls[i].rs \in BOOLEAN
    <2>1. calls[i] \in Calling
      OBVIOUS
    <2>2. calls[i].b \in 0..255 /\ calls[i].rs \in BOOLEAN
      BY <2>1 DEF Calling
    <2>3. QED
      BY <2>2, SendIs
  <1> HIDE DEF n
  <1>4. ASSUME NEW u \in Seq(Nibbles), NEW i \in 1..n
        PROVE  /\ <<u, i>> \in Seq(Nibbles) \X (1..n)
               /\ step[<<u, i>>] = u \o send(calls[i].b, calls[i].rs)
               /\ step[<<u, i>>] \in Seq(Nibbles)
    <2>1. u \o send(calls[i].b, calls[i].rs) \in Seq(Nibbles)
      BY <1>3
    <2>2. step[<<u, i>>] = u \o send(calls[i].b, calls[i].rs)
      OBVIOUS
    <2>3. QED
      BY Zenon, <2>1, <2>2
  <1>5. step \in [Seq(Nibbles) \X (1..n) -> Seq(Nibbles)]
    <2>1. ASSUME NEW x \in Seq(Nibbles) \X (1..n) PROVE step[x] \in Seq(Nibbles)
      <3>1. PICK u \in Seq(Nibbles), i \in 1..n : x = <<u, i>>
        OBVIOUS
      <3> HIDE DEF step
      <3>2. QED
        BY <3>1, <1>4
    <2>2. step = [x \in Seq(Nibbles) \X (1..n) |-> step[x]]
      OBVIOUS
    <2> HIDE DEF step
    <2>3. QED
      BY <2>1, <2>2
  <1> HIDE DEF step
  <1>6. PICK g \in [0..n -> Seq(Nibbles)] : Follows(g, n, <<>>, step)
    <2>1. <<>> \in Seq(Nibbles)
      OBVIOUS
    <2>2. QED
      BY <1>2, <1>5, <2>1, Recursion
  <1>7. ASSUME NEW i \in 0..n PROVE g[i] = Body(g, i)
    <2>1. CASE i = 0
      BY <1>6, <2>1 DEF Follows
    <2>2. CASE i # 0
      <3>1. i \in 1..n /\ i - 1 \in 0..n
        BY <1>2, <2>2
      <3>5. g[i - 1] \in Seq(Nibbles)
        BY <3>1
      <3>2. g[i] = step[<<g[i - 1], i>>]
        BY <1>6, <3>1 DEF Follows
      <3>3. step[<<g[i - 1], i>>] = g[i - 1] \o send(calls[i].b, calls[i].rs)
        BY <1>4, <3>1, <3>5
      <3>4. QED
        BY Zenon, <2>2, <3>2, <3>3
    <2>3. QED
      BY <2>1, <2>2
  <1> HIDE DEF Body
  <1>8. F(g)
    BY <1>7
  <1>9. F(f)
    <2> HIDE DEF F
    <2> QED BY <1>8
  <1>10. \A i \in 0..n : f[i] = Body(f, i)
    <2> HIDE DEF f
    <2> QED BY <1>9
  <1> HIDE DEF f
  <1>11. f[0] = <<>> /\ \A i \in 1..n : f[i] = f[i - 1] \o send(calls[i].b, calls[i].rs)
    <2>1. 0 \in 0..n /\ \A i \in 1..n : i \in 0..n /\ i # 0
      BY <1>2
    <2>2. QED
      BY Zenon, <1>10, <2>1 DEF Body
  <1> DEFINE S == {k \in 0..n : Halved(f[k], calls, k)}
  <1>12. 0 \in S
    <2>1. Halved(<<>>, calls, 0)
      BY DEF Halved
    <2>2. QED
      BY <1>2, <1>11, <2>1
  <1>13. ASSUME NEW k \in 1..n, k - 1 \in S PROVE k \in S
    <2> DEFINE u == f[k - 1]  v == send(calls[k].b, calls[k].rs)
    <2>1. k \in 1..n /\ k - 1 \in 0..n /\ k \in 0..n
      BY <1>2
    <2>2. u \in Seq(Nibbles) /\ Len(u) = 2 * (k - 1) /\ Halved(u, calls, k - 1)
      BY <1>13 DEF Halved
    <2>3. f[k] = u \o v
      BY <1>11, <2>1
    <2>4. v = <<Nibble(calls[k].b \div 16, calls[k].rs), Nibble(calls[k].b % 16, calls[k].rs)>>
          /\ v \in Seq(Nibbles) /\ Len(v) = 2
      <3>1. calls[k].b \in 0..255 /\ calls[k].rs \in BOOLEAN
        BY <1>3, <2>1
      <3>2. QED
        BY Zenon, <3>1, SendIs
    <2>5. v[1] = Nibble(calls[k].b \div 16, calls[k].rs)
          /\ v[2] = Nibble(calls[k].b % 16, calls[k].rs)
      <3> HIDE DEF u, v
      <3>1. ASSUME NEW x, NEW y, v = <<x, y>> PROVE v[1] = x /\ v[2] = y
        BY <3>1
      <3>2. QED
        BY Zenon, <2>4, <3>1
    <2> HIDE DEF u, v
    <2> DEFINE m == 2 * (k - 1)
    <2>10. m \in Nat /\ m + 2 = 2 * k /\ m + 1 = 2 * k - 1
      BY <2>1
    <2>11. u \in Seq(Nibbles) /\ Len(u) = m
      BY Zenon, <2>2
    <2> HIDE DEF m
    <2>12. TwoMore(u \o v, u, v, m)
      BY Zenon, <2>4, <2>10, <2>11, TwoMoreIs
    <2>6. /\ u \o v \in Seq(Nibbles) /\ Len(u \o v) = 2 * k
          /\ \A i \in 1..(2 * (k - 1)) : (u \o v)[i] = u[i]
          /\ (u \o v)[2 * k - 1] = v[1] /\ (u \o v)[2 * k] = v[2]
      BY Zenon, <2>10, <2>12 DEF TwoMore, m
    <2>7. ASSUME NEW i \in 1..k
          PROVE  /\ (u \o v)[2 * i - 1] = Nibble(calls[i].b \div 16, calls[i].rs)
                 /\ (u \o v)[2 * i] = Nibble(calls[i].b % 16, calls[i].rs)
      <3>1. CASE i = k
        BY <2>5, <2>6, <3>1
      <3>2. CASE i # k
        <4>1. i \in 1..(k - 1) /\ 2 * i - 1 \in 1..(2 * (k - 1)) /\ 2 * i \in 1..(2 * (k - 1))
          BY <2>1, <3>2
        <4>2. u[2 * i - 1] = Nibble(calls[i].b \div 16, calls[i].rs)
              /\ u[2 * i] = Nibble(calls[i].b % 16, calls[i].rs)
          BY Zenon, <2>2, <4>1 DEF Halved
        <4>3. QED
          BY <2>6, <4>1, <4>2
      <3>3. QED
        BY <3>1, <3>2
    <2>8. Halved(u \o v, calls, k)
      BY <2>6, <2>7 DEF Halved
    <2>9. QED
      BY <2>1, <2>3, <2>8
  <1>14. QED
    <2>1. n \in S
      <3> HIDE DEF S
      <3>1. \A k \in 1..n : k - 1 \in S => k \in S
        BY <1>13
      <3>2. \A k \in 0..n : k \in S
        BY <1>2, <1>12, <3>1, UpTo
      <3>3. QED
        BY <1>2, <3>2
    <2>2. QED
      BY <2>1, <1>1

Harmless(b, rs) == rs \/ b \notin 32..63 \/ ~Bit(b, 16)

LEMMA NextAt == ASSUME NEW c \in Chips PROVE Next1(c) \in 0..127
  BY DEF Chips, Next1

LEMMA CellsType ==
    ASSUME NEW c \in Chips, NEW b \in 0..255
    PROVE  [a \in Cells |-> IF a = c.at THEN b ELSE c.cells[a]] \in [Cells -> 0..255]
  <1>1. c.cells \in [Cells -> 0..255]
    BY DEF Chips
  <1> HIDE DEF Cells
  <1>2. QED
    BY <1>1

LEMMA BlankType == [a \in Cells |-> Blank] \in [Cells -> 0..255]
  BY DEF Blank

\* A byte leaves the halves alone, and the 4-bit mode unless it is a function set.
LeavesMode(c, d, b, rs) ==
    /\ d \in Chips /\ d.half = c.half /\ d.halfRs = c.halfRs
    /\ ~c.bits8 /\ Harmless(b, rs) => ~d.bits8

(* What the bytes change, a field or some fields at a time.                 *)
LEMMA Placed ==
    ASSUME NEW c \in Chips, NEW k \in 0..127, NEW g \in BOOLEAN,
           NEW d, d = [c EXCEPT !.at = k, !.cg = g]
    PROVE  d \in Chips /\ d.half = c.half /\ d.halfRs = c.halfRs /\ d.bits8 = c.bits8
  BY DEF Chips

LEMMA Homed ==
    ASSUME NEW c \in Chips, NEW k \in 0..127, NEW g \in BOOLEAN, NEW m \in BOOLEAN,
           NEW d, d = [c EXCEPT !.at = k, !.cg = g, !.moved = m]
    PROVE  d \in Chips /\ d.half = c.half /\ d.halfRs = c.halfRs /\ d.bits8 = c.bits8
  BY DEF Chips

LEMMA DataKeeps ==
    ASSUME NEW c \in Chips, NEW b \in 0..255
    PROVE  LeavesMode(c, Data(c, b), b, TRUE)
  <1>1. CASE c.cg
    BY <1>1 DEF Data, LeavesMode
  <1>2. CASE ~c.cg
    <2> DEFINE h == [a \in Cells |-> IF a = c.at THEN b ELSE c.cells[a]]
    <2>1. h \in [Cells -> 0..255]
      BY CellsType
    <2>2. Next1(c) \in 0..127
      BY NextAt
    <2>3. Data(c, b) = [c EXCEPT !.cells = h, !.at = Next1(c), !.moved = @ \/ c.shift]
      BY <1>2 DEF Data
    <2> HIDE DEF h
    <2> DEFINE k == Next1(c)
    <2> HIDE DEF k
    <2>4. (c.moved \/ c.shift) \in BOOLEAN
      BY DEF Chips
    <2>5. Data(c, b) = [c EXCEPT !.cells = h, !.at = k, !.moved = c.moved \/ c.shift]
      BY <2>3 DEF Chips, k
    <2>6. k \in 0..127
      BY <2>2 DEF k
    <2>7. /\ Data(c, b) \in Chips /\ Data(c, b).half = c.half
          /\ Data(c, b).halfRs = c.halfRs /\ Data(c, b).bits8 = c.bits8
      <3> DEFINE d == Data(c, b)  m == (c.moved \/ c.shift)
      <3>1. d = [c EXCEPT !.cells = h, !.at = k, !.moved = m] /\ m \in BOOLEAN
        BY <2>4, <2>5
      <3> HIDE DEF d, m
      <3>2. d \in Chips /\ d.half = c.half /\ d.halfRs = c.halfRs /\ d.bits8 = c.bits8
        BY <2>1, <2>6, <3>1 DEF Chips
      <3>3. QED
        BY <3>2 DEF d
    <2>8. QED
      BY <2>7 DEF LeavesMode
  <1>3. QED
    BY <1>1, <1>2

LEMMA CommandKeeps ==
    ASSUME NEW c \in Chips, NEW b \in 0..255
    PROVE  LeavesMode(c, Command(c, b), b, FALSE)
  <1>1. CASE b >= 128
    <2>1. Command(c, b) = [c EXCEPT !.at = b - 128, !.cg = FALSE]
      BY <1>1 DEF Command
    <2>2. b - 128 \in 0..127
      BY <1>1
    <2>3. /\ Command(c, b) \in Chips /\ Command(c, b).half = c.half
          /\ Command(c, b).halfRs = c.halfRs /\ Command(c, b).bits8 = c.bits8
      BY Zenon, <2>1, <2>2, Placed
    <2>4. QED
      BY <2>3 DEF LeavesMode
  <1>2. CASE b \in 64..127
    <2>1. Command(c, b) = [c EXCEPT !.cg = TRUE]
      BY <1>2 DEF Command
    <2>2. QED
      BY <1>2, <2>1 DEF LeavesMode, Chips
  <1>3. CASE b \in 32..63
    <2>1. Command(c, b) = [c EXCEPT !.bits8 = Bit(b, 16), !.lines2 = Bit(b, 8)]
      BY <1>3 DEF Command
    <2>2. Bit(b, 16) \in BOOLEAN /\ Bit(b, 8) \in BOOLEAN
      BY DEF Bit
    <2>3. QED
      BY <1>3, <2>1, <2>2 DEF LeavesMode, Chips, Harmless
  <1>4. CASE b \in 16..31
    <2>1. Command(c, b) = IF Bit(b, 8) THEN [c EXCEPT !.moved = TRUE]
                          ELSE [c EXCEPT !.at = (@ + (IF Bit(b, 4) THEN 1 ELSE 127)) % 128]
      BY <1>4 DEF Command
    <2> DEFINE k == (c.at + (IF Bit(b, 4) THEN 1 ELSE 127)) % 128
    <2>2. k \in 0..127
      BY DEF Chips
    <2> HIDE DEF k
    <2>3. [c EXCEPT !.at = (@ + (IF Bit(b, 4) THEN 1 ELSE 127)) % 128] = [c EXCEPT !.at = k]
      BY DEF k
    <2>4. [c EXCEPT !.at = k] \in Chips /\ [c EXCEPT !.moved = TRUE] \in Chips
      BY <2>2 DEF Chips
    <2>5. QED
      BY <2>1, <2>2, <2>3, <2>4 DEF LeavesMode, Chips
  <1>5. CASE b \in 8..15
    <2>1. Command(c, b) = [c EXCEPT !.on = Bit(b, 4)]
      BY <1>5 DEF Command
    <2>2. Bit(b, 4) \in BOOLEAN
      BY DEF Bit
    <2>3. QED
      BY <2>1, <2>2 DEF LeavesMode, Chips
  <1>6. CASE b \in 4..7
    <2>1. Command(c, b) = [c EXCEPT !.inc = Bit(b, 2), !.shift = Bit(b, 1)]
      BY <1>6 DEF Command
    <2>2. Bit(b, 2) \in BOOLEAN /\ Bit(b, 1) \in BOOLEAN
      BY DEF Bit
    <2>3. QED
      BY <2>1, <2>2 DEF LeavesMode, Chips
  <1>7. CASE b \in 2..3
    <2>1. Command(c, b) = [c EXCEPT !.at = 0, !.cg = FALSE, !.moved = FALSE]
      BY <1>7 DEF Command
    <2>2. 0 \in 0..127
      OBVIOUS
    <2>3. /\ Command(c, b) \in Chips /\ Command(c, b).half = c.half
          /\ Command(c, b).halfRs = c.halfRs /\ Command(c, b).bits8 = c.bits8
      BY Zenon, <2>1, <2>2, Homed
    <2>4. QED
      BY <2>3 DEF LeavesMode
  <1>8. CASE b = 1
    <2> DEFINE h == [a \in Cells |-> Blank]
    <2>1. Command(c, b) = [c EXCEPT !.at = 0, !.cg = FALSE, !.moved = FALSE, !.inc = TRUE,
                                    !.cells = h]
      BY <1>8 DEF Command
    <2>2. h \in [Cells -> 0..255]
      BY BlankType
    <2> HIDE DEF h
    <2>3. 0 \in 0..127
      OBVIOUS
    <2>4. /\ Command(c, b) \in Chips /\ Command(c, b).half = c.half
          /\ Command(c, b).halfRs = c.halfRs /\ Command(c, b).bits8 = c.bits8
      <3> DEFINE d == Command(c, b)  k == 0  g == FALSE  i == TRUE
      <3>1. /\ d = [c EXCEPT !.at = k, !.cg = g, !.moved = g, !.inc = i, !.cells = h]
            /\ k \in 0..127 /\ g \in BOOLEAN /\ i \in BOOLEAN
        BY <2>1
      <3> HIDE DEF d, k, g, i
      <3>2. d \in Chips /\ d.half = c.half /\ d.halfRs = c.halfRs /\ d.bits8 = c.bits8
        BY <2>2, <3>1 DEF Chips
      <3>3. QED
        BY <3>2 DEF d
    <2>5. QED
      BY <2>4 DEF LeavesMode
  <1>9. CASE b = 0
    <2>1. Command(c, b) = c
      BY <1>9 DEF Command
    <2>2. QED
      BY <2>1 DEF LeavesMode
  <1>10. b >= 128 \/ b \in 64..127 \/ b \in 32..63 \/ b \in 16..31 \/ b \in 8..15 \/ b \in 4..7
         \/ b \in 2..3 \/ b = 1 \/ b = 0
    OBVIOUS
  <1>11. QED
    BY <1>10, <1>1, <1>2, <1>3, <1>4, <1>5, <1>6, <1>7, <1>8, <1>9

LEMMA ExecutedKeeps ==
    ASSUME NEW c \in Chips, NEW b \in 0..255, NEW rs \in BOOLEAN
    PROVE  LeavesMode(c, Executed(c, b, rs), b, rs)
  <1>1. CASE rs
    BY <1>1, DataKeeps DEF Executed, LeavesMode, Harmless
  <1>2. CASE ~rs
    BY <1>2, CommandKeeps DEF Executed, LeavesMode, Harmless
  <1>3. QED
    BY <1>1, <1>2

LEMMA AfterIs ==
    ASSUME NEW calls \in Seq(Calling), NEW c \in Chips
    PROVE  \E g \in [0..Len(calls) -> Chips] :
               /\ g[0] = c /\ g[Len(calls)] = After(c, calls)
               /\ \A i \in 1..Len(calls) : g[i] = Executed(g[i - 1], calls[i].b, calls[i].rs)
  <1> DEFINE n == Len(calls)
             step == [x \in Chips \X (1..n) |-> Executed(x[1], calls[x[2]].b, calls[x[2]].rs)]
             Body(f, i) == IF i = 0 THEN c ELSE Executed(f[i - 1], calls[i].b, calls[i].rs)
             F(f) == f = [i \in 0..n |-> Body(f, i)]
             f == CHOOSE g : F(g)
  <1>1. After(c, calls) = f[n]
    BY DEF After
  <1>2. n \in Nat
    OBVIOUS
  <1>3. ASSUME NEW i \in 1..n PROVE calls[i].b \in 0..255 /\ calls[i].rs \in BOOLEAN
    <2>1. calls[i] \in Calling
      OBVIOUS
    <2>2. QED
      BY <2>1 DEF Calling
  <1> HIDE DEF n
  <1>4. ASSUME NEW u \in Chips, NEW i \in 1..n
        PROVE  /\ <<u, i>> \in Chips \X (1..n)
               /\ step[<<u, i>>] = Executed(u, calls[i].b, calls[i].rs)
               /\ step[<<u, i>>] \in Chips
    <2>1. Executed(u, calls[i].b, calls[i].rs) \in Chips
      BY <1>3, ExecutedKeeps DEF LeavesMode
    <2>2. step[<<u, i>>] = Executed(u, calls[i].b, calls[i].rs)
      OBVIOUS
    <2>3. QED
      BY Zenon, <2>1, <2>2
  <1>5. step \in [Chips \X (1..n) -> Chips]
    <2>1. ASSUME NEW x \in Chips \X (1..n) PROVE step[x] \in Chips
      <3>1. PICK u \in Chips, i \in 1..n : x = <<u, i>>
        OBVIOUS
      <3> HIDE DEF step
      <3>2. QED
        BY <3>1, <1>4
    <2>2. step = [x \in Chips \X (1..n) |-> step[x]]
      OBVIOUS
    <2> HIDE DEF step
    <2>3. QED
      BY <2>1, <2>2
  <1> HIDE DEF step
  <1>6. PICK g \in [0..n -> Chips] : Follows(g, n, c, step)
    BY <1>2, <1>5, Recursion
  <1>7. ASSUME NEW i \in 0..n PROVE g[i] = Body(g, i)
    <2>1. CASE i = 0
      BY <1>6, <2>1 DEF Follows
    <2>2. CASE i # 0
      <3>1. i \in 1..n /\ i - 1 \in 0..n
        BY <1>2, <2>2
      <3>2. g[i] = step[<<g[i - 1], i>>]
        BY <1>6, <3>1 DEF Follows
      <3>3. g[i - 1] \in Chips
        BY <3>1
      <3>4. step[<<g[i - 1], i>>] = Executed(g[i - 1], calls[i].b, calls[i].rs)
        BY <1>4, <3>1, <3>3
      <3>5. QED
        BY Zenon, <2>2, <3>2, <3>4
    <2>3. QED
      BY <2>1, <2>2
  <1> HIDE DEF Body
  <1>8. F(g)
    BY <1>7
  <1>9. F(f)
    <2> HIDE DEF F
    <2> QED BY <1>8
  <1>10. \A i \in 0..n : f[i] = Body(f, i)
    <2> HIDE DEF f
    <2> QED BY <1>9
  <1> HIDE DEF f
  <1>11. f[0] = c /\ \A i \in 1..n : f[i] = Executed(f[i - 1], calls[i].b, calls[i].rs)
    <2>1. 0 \in 0..n /\ \A i \in 1..n : i \in 0..n /\ i # 0
      BY <1>2
    <2>2. QED
      BY Zenon, <1>10, <2>1 DEF Body
  <1>12. \A i \in 0..n : f[i] \in Chips
    <2> DEFINE S == {k \in 0..n : f[k] \in Chips}
    <2>1. 0 \in S
      BY <1>2, <1>11
    <2>2. ASSUME NEW k \in 1..n, k - 1 \in S PROVE k \in S
      <3>1. f[k] = Executed(f[k - 1], calls[k].b, calls[k].rs) /\ f[k - 1] \in Chips
        BY <1>11, <2>2
      <3>2. f[k] \in Chips
        BY <1>3, <3>1, ExecutedKeeps DEF LeavesMode
      <3>3. QED
        BY <1>2, <3>2
    <2>3. \A k \in 0..n : k \in S
      <3> HIDE DEF S
      <3>1. QED
        BY <1>2, <2>1, <2>2, UpTo
    <2>4. QED
      BY <2>3
  <1>13. f = [i \in 0..n |-> f[i]]
    BY <1>9
  <1>14. f \in [0..n -> Chips]
    BY <1>12, <1>13
  <1>15. QED
    BY <1>1, <1>11, <1>14 DEF n

Joined(t, i) == 16 * t[2 * i - 1].n + t[2 * i].n

\* The i-th two nibbles are of one byte, which takes g[i - 1] to g[i].
OneByte(t, i, g) ==
    /\ t[2 * i - 1].rs = t[2 * i].rs /\ Harmless(Joined(t, i), t[2 * i].rs)
    /\ g[i] = Executed(g[i - 1], Joined(t, i), t[2 * i].rs)

\* The nibbles t take the controller from c to d.
Leads(c, t, d) ==
    /\ t \in Seq(Nibbles)
    /\ \E k \in Nat : \E g \in [0..k -> Chips] :
           Len(t) = 2 * k /\ g[0] = c /\ g[k] = d /\ \A i \in 1..k : OneByte(t, i, g)

Calm(calls) == \A i \in 1..Len(calls) : Harmless(calls[i].b, calls[i].rs)

LEMMA CallsLead ==
    ASSUME NEW calls \in Seq(Calling), NEW c \in Chips, Calm(calls)
    PROVE  Leads(c, Flattened(calls), After(c, calls))
  <1> DEFINE t == Flattened(calls)  n == Len(calls)
  <1>1. Halved(t, calls, n)
    BY FlattenedIs
  <1>2. PICK g \in [0..n -> Chips] :
            /\ g[0] = c /\ g[n] = After(c, calls)
            /\ \A i \in 1..n : g[i] = Executed(g[i - 1], calls[i].b, calls[i].rs)
    BY AfterIs
  <1>3. n \in Nat /\ t \in Seq(Nibbles) /\ Len(t) = 2 * n
    BY <1>1 DEF Halved
  <1> HIDE DEF t
  <1>4. ASSUME NEW i \in 1..n PROVE OneByte(t, i, g)
    <2>1. calls[i] \in Calling
      OBVIOUS
    <2> DEFINE b == calls[i].b  rs == calls[i].rs
    <2>2. b \in 0..255 /\ rs \in BOOLEAN
      BY <2>1 DEF Calling
    <2>3. t[2 * i - 1] = Nibble(b \div 16, rs) /\ t[2 * i] = Nibble(b % 16, rs)
      BY <1>1 DEF Halved
    <2>4. g[i] = Executed(g[i - 1], b, rs)
      BY <1>2
    <2>5. Harmless(b, rs)
      BY DEF Calm
    <2> HIDE DEF b, rs, n
    <2>6. /\ t[2 * i - 1].n = b \div 16 /\ t[2 * i].n = b % 16
          /\ t[2 * i - 1].rs = rs /\ t[2 * i].rs = rs
      BY <2>3 DEF Nibble
    <2>7. Joined(t, i) = b
      BY <2>2, <2>6, SendIs DEF Joined
    <2>8. QED
      BY <2>4, <2>5, <2>6, <2>7 DEF OneByte
  <1> HIDE DEF n
  <1>5. QED
    BY <1>2, <1>3, <1>4 DEF Leads, t

LEMMA LeadsNowhere == ASSUME NEW c, NEW d, Leads(c, <<>>, d) PROVE c = d
  BY DEF Leads

LEMMA LeadsEven == ASSUME NEW c, NEW t, NEW d, Leads(c, t, d) PROVE t # <<>> => Len(t) >= 2
  BY DEF Leads

LEMMA LeadsOn ==
    ASSUME NEW c \in Chips, NEW t, NEW d, Leads(c, t, d), t # <<>>
    PROVE  /\ t[1].rs = t[2].rs /\ Harmless(16 * t[1].n + t[2].n, t[1].rs)
           /\ Leads(Executed(c, 16 * t[1].n + t[2].n, t[1].rs), Tail(Tail(t)), d)
  <1>1. t \in Seq(Nibbles)
    BY DEF Leads
  <1>2. PICK k \in Nat : \E g \in [0..k -> Chips] :
            Len(t) = 2 * k /\ g[0] = c /\ g[k] = d /\ \A i \in 1..k : OneByte(t, i, g)
    BY DEF Leads
  <1>3. PICK g \in [0..k -> Chips] :
            Len(t) = 2 * k /\ g[0] = c /\ g[k] = d /\ \A i \in 1..k : OneByte(t, i, g)
    BY <1>2
  <1>4. k # 0
    BY <1>1, <1>3
  <1>5. OneByte(t, 1, g)
    BY <1>3, <1>4
  <1>6. /\ t[1].rs = t[2].rs /\ Harmless(16 * t[1].n + t[2].n, t[1].rs)
        /\ g[1] = Executed(c, 16 * t[1].n + t[2].n, t[1].rs)
    <2>1. 2 * 1 - 1 = 1 /\ 2 * 1 = 2 /\ 1 - 1 = 0
      OBVIOUS
    <2>2. QED
      BY <1>3, <1>5, <2>1 DEF OneByte, Joined
  <1> DEFINE u == Tail(Tail(t))  h == [i \in 0..(k - 1) |-> g[i + 1]]
  <1>7. u \in Seq(Nibbles) /\ Len(u) = 2 * (k - 1) /\ \A j \in 1..Len(u) : u[j] = t[j + 2]
    <2>1. Len(t) >= 2
      BY <1>3, <1>4
    <2>2. QED
      BY <1>1, <1>3, <2>1
  <1>8. h \in [0..(k - 1) -> Chips] /\ h[0] = g[1] /\ h[k - 1] = d
    BY <1>3, <1>4
  <1>9. ASSUME NEW i \in 1..(k - 1) PROVE OneByte(u, i, h)
    <2>1. OneByte(t, i + 1, g)
      BY <1>3, <1>4
    <2>2. 2 * (i + 1) - 1 = (2 * i - 1) + 2 /\ 2 * (i + 1) = 2 * i + 2 /\ i + 1 - 1 = i
      OBVIOUS
    <2>3. u[2 * i - 1] = t[2 * (i + 1) - 1] /\ u[2 * i] = t[2 * (i + 1)]
      BY <1>7, <2>2
    <2>4. h[i] = g[i + 1] /\ h[i - 1] = g[i]
      OBVIOUS
    <2> HIDE DEF u, h
    <2>5. QED
      BY <2>1, <2>2, <2>3, <2>4 DEF OneByte, Joined
  <1> HIDE DEF u, h
  <1>10. Leads(g[1], u, d)
    BY <1>4, <1>7, <1>8, <1>9 DEF Leads
  <1>11. QED
    BY <1>6, <1>10 DEF u

(* What begin() has the board send.                                        *)
Script ==
    Attention \o command(FunctionSet) \o command(DisplayOn) \o Flattened(CLEAR)
    \o command(EntryMode)

\* Two nibbles, of the byte b.
IsCommand(t, b) ==
    /\ t \in Seq(Nibbles) /\ Len(t) = 2
    /\ t[1] = Nibble(b \div 16, FALSE) /\ t[2] = Nibble(b % 16, FALSE)

LEMMA CommandIs == ASSUME NEW b \in 0..255 PROVE IsCommand(command(b), b)
  <1>1. command(b) = <<Nibble(b \div 16, FALSE), Nibble(b % 16, FALSE)>>
    BY SendIs DEF command
  <1>2. command(b) \in Seq(Nibbles) /\ Len(command(b)) = 2
    BY SendIs DEF command
  <1> DEFINE t == command(b)  x == Nibble(b \div 16, FALSE)  y == Nibble(b % 16, FALSE)
  <1> HIDE DEF t, x, y
  <1>3. t = <<x, y>> => t[1] = x /\ t[2] = y
    OBVIOUS
  <1>4. QED
    BY <1>1, <1>2, <1>3 DEF IsCommand, t, x, y

LEMMA ClearIs == CLEAR \in Seq(Calling) /\ Len(CLEAR) = 1 /\ CLEAR[1] = [b |-> 1, rs |-> FALSE]
  BY DEF CLEAR, Calling

LEMMA FlattenedClear == IsCommand(Flattened(CLEAR), 1)
  <1>1. Halved(Flattened(CLEAR), CLEAR, 1)
    BY ClearIs, FlattenedIs
  <1>2. 2 * 1 - 1 = 1 /\ 2 * 1 = 2 /\ 1 \in 1..1
    OBVIOUS
  <1>3. CLEAR[1].b = 1 /\ CLEAR[1].rs = FALSE
    BY ClearIs
  <1>4. QED
    BY <1>1, <1>2, <1>3 DEF Halved, IsCommand

LEMMA AttentionIs ==
    /\ Attention \in Seq(Nibbles) /\ Len(Attention) = 4
    /\ \A i \in 1..3 : Attention[i] = Nibble(3, FALSE)
    /\ Attention[4] = Nibble(2, FALSE)
  <1> DEFINE x == <<Nibble(3, FALSE)>>  y == <<Nibble(2, FALSE)>>
  <1>1. /\ x \in Seq(Nibbles) /\ Len(x) = 1 /\ x[1] = Nibble(3, FALSE)
        /\ y \in Seq(Nibbles) /\ Len(y) = 1 /\ y[1] = Nibble(2, FALSE)
    <2>1. Nibble(3, FALSE) \in Nibbles /\ Nibble(2, FALSE) \in Nibbles
      BY DEF Nibble, Nibbles
    <2>2. \A n \in Nibbles : <<n>> \in Seq(Nibbles) /\ Len(<<n>>) = 1 /\ <<n>>[1] = n
      OBVIOUS
    <2>3. QED
      BY Zenon, <2>1, <2>2
  <1>2. Attention = ((x \o x) \o x) \o y
    BY DEF Attention, FourBits
  <1> HIDE DEF x, y
  <1> DEFINE u == x \o x  v == u \o x  w == v \o y
  <1>3. u \in Seq(Nibbles) /\ AThenB(u, x, x)
    BY Zenon, <1>1, Appended
  <1> HIDE DEF u
  <1>4. v \in Seq(Nibbles) /\ AThenB(v, u, x)
    BY Zenon, <1>1, <1>3, Appended
  <1> HIDE DEF v
  <1>5. w \in Seq(Nibbles) /\ AThenB(w, v, y)
    BY Zenon, <1>1, <1>4, Appended
  <1>6. Attention = w
    BY <1>2 DEF v, u
  <1> HIDE DEF w
  <1>7. 1 \in Nat /\ 2 \in Nat /\ 3 \in Nat
    OBVIOUS
  <1>8. OneAfter(u, x, x, 1)
    BY Zenon, <1>1, <1>3, <1>7, OneAfterIs
  <1>9. Len(u) = 2
    BY <1>8 DEF OneAfter
  <1>10. OneAfter(v, u, x, 2)
    BY Zenon, <1>1, <1>4, <1>7, <1>9, OneAfterIs
  <1>11. Len(v) = 3
    BY <1>10 DEF OneAfter
  <1>12. OneAfter(w, v, y, 3)
    BY Zenon, <1>1, <1>5, <1>7, <1>11, OneAfterIs
  <1>13. Len(w) = 4 /\ (\A i \in 1..3 : w[i] = x[1]) /\ w[4] = y[1]
    BY <1>8, <1>10, <1>12 DEF OneAfter
  <1>14. QED
    BY Zenon, <1>1, <1>5, <1>6, <1>13

LEMMA ScriptIs ==
    /\ Script \in Seq(Nibbles) /\ Len(Script) = 12
    /\ \A i \in 1..3 : Script[i] = Nibble(3, FALSE)
    /\ Script[4] = Nibble(2, FALSE)
    /\ Script[5] = Nibble(2, FALSE) /\ Script[6] = Nibble(8, FALSE)
    /\ Script[7] = Nibble(0, FALSE) /\ Script[8] = Nibble(12, FALSE)
    /\ Script[9] = Nibble(0, FALSE) /\ Script[10] = Nibble(1, FALSE)
    /\ Script[11] = Nibble(0, FALSE) /\ Script[12] = Nibble(6, FALSE)
  <1> DEFINE a == Attention
  <1> DEFINE f == command(FunctionSet)  o == command(DisplayOn)  c == Flattened(CLEAR)
             e == command(EntryMode)
  <1>1. /\ f \in Seq(Nibbles) /\ Len(f) = 2 /\ f[1] = Nibble(2, FALSE) /\ f[2] = Nibble(8, FALSE)
    <2>1. 40 \div 16 = 2 /\ 40 % 16 = 8 /\ 40 \in 0..255
      OBVIOUS
    <2>2. QED
      BY <2>1, CommandIs DEF FunctionSet, IsCommand
  <1>2. /\ o \in Seq(Nibbles) /\ Len(o) = 2 /\ o[1] = Nibble(0, FALSE) /\ o[2] = Nibble(12, FALSE)
    <2>1. 12 \div 16 = 0 /\ 12 % 16 = 12 /\ 12 \in 0..255
      OBVIOUS
    <2>2. QED
      BY <2>1, CommandIs DEF DisplayOn, IsCommand
  <1>3. /\ c \in Seq(Nibbles) /\ Len(c) = 2 /\ c[1] = Nibble(0, FALSE) /\ c[2] = Nibble(1, FALSE)
    <2>1. 1 \div 16 = 0 /\ 1 % 16 = 1
      OBVIOUS
    <2>2. QED
      BY <2>1, FlattenedClear DEF IsCommand
  <1>4. /\ e \in Seq(Nibbles) /\ Len(e) = 2 /\ e[1] = Nibble(0, FALSE) /\ e[2] = Nibble(6, FALSE)
    <2>1. 6 \div 16 = 0 /\ 6 % 16 = 6 /\ 6 \in 0..255
      OBVIOUS
    <2>2. QED
      BY <2>1, CommandIs DEF EntryMode, IsCommand
  <1>5. Script = (((a \o f) \o o) \o c) \o e
    BY DEF Script
  <1>6. /\ a \in Seq(Nibbles) /\ Len(a) = 4 /\ \A i \in 1..3 : a[i] = Nibble(3, FALSE)
        /\ a[4] = Nibble(2, FALSE)
    BY AttentionIs
  <1> HIDE DEF a, f, o, c, e
  <1> DEFINE g == a \o f  h == g \o o  u == h \o c  s == u \o e
  <1>7. 4 \in Nat /\ 6 \in Nat /\ 8 \in Nat /\ 10 \in Nat
    OBVIOUS
  <1>8. TwoMore(g, a, f, 4)
    BY Zenon, <1>1, <1>6, <1>7, TwoMoreIs
  <1> HIDE DEF g
  <1>9. g \in Seq(Nibbles) /\ Len(g) = 6
    BY <1>8 DEF TwoMore
  <1>10. TwoMore(h, g, o, 6)
    BY Zenon, <1>2, <1>7, <1>9, TwoMoreIs
  <1> HIDE DEF h
  <1>11. h \in Seq(Nibbles) /\ Len(h) = 8
    BY <1>10 DEF TwoMore
  <1>12. TwoMore(u, h, c, 8)
    BY Zenon, <1>3, <1>7, <1>11, TwoMoreIs
  <1> HIDE DEF u
  <1>13. u \in Seq(Nibbles) /\ Len(u) = 10
    BY <1>12 DEF TwoMore
  <1>14. TwoMore(s, u, e, 10)
    BY Zenon, <1>4, <1>7, <1>13, TwoMoreIs
  <1>15. Script = s
    BY <1>5 DEF u, h, g
  <1> HIDE DEF s
  <1>16. /\ s \in Seq(Nibbles) /\ Len(s) = 12 /\ \A i \in 1..4 : s[i] = a[i]
         /\ s[5] = f[1] /\ s[6] = f[2] /\ s[7] = o[1] /\ s[8] = o[2]
         /\ s[9] = c[1] /\ s[10] = c[2] /\ s[11] = e[1] /\ s[12] = e[2]
    BY <1>8, <1>10, <1>12, <1>14 DEF TwoMore
  <1>17. (\A i \in 1..3 : s[i] = a[i]) /\ s[4] = a[4]
    BY <1>16
  <1>18. QED
    BY Zenon, <1>1, <1>2, <1>3, <1>4, <1>6, <1>15, <1>16, <1>17

Good(c) == ~c.bits8 /\ c.half = None /\ ~c.halfRs

LEMMA FunctionSetIs ==
    ASSUME NEW c PROVE Executed(c, 40, FALSE) = [c EXCEPT !.bits8 = FALSE, !.lines2 = TRUE]
  <1>1. ~Bit(40, 16) /\ Bit(40, 8)
    BY DEF Bit
  <1>2. Executed(c, 40, FALSE) = [c EXCEPT !.bits8 = Bit(40, 16), !.lines2 = Bit(40, 8)]
    BY DEF Executed, Command
  <1>3. Bit(40, 16) = FALSE /\ Bit(40, 8) = TRUE
    BY DEF Bit
  <1>4. QED
    BY <1>2, <1>3

LEMMA DisplayOnIs == ASSUME NEW c PROVE Executed(c, 12, FALSE) = [c EXCEPT !.on = TRUE]
  <1>1. Executed(c, 12, FALSE) = [c EXCEPT !.on = Bit(12, 4)]
    BY DEF Executed, Command
  <1>2. Bit(12, 4) = TRUE
    BY DEF Bit
  <1>3. QED
    BY <1>1, <1>2

LEMMA ClearedIs ==
    ASSUME NEW c
    PROVE  Executed(c, 1, FALSE) = [c EXCEPT !.at = 0, !.cg = FALSE, !.moved = FALSE, !.inc = TRUE,
                                             !.cells = [a \in Cells |-> Blank]]
  BY DEF Executed, Command

LEMMA EntryModeIs ==
    ASSUME NEW c PROVE Executed(c, 6, FALSE) = [c EXCEPT !.inc = TRUE, !.shift = FALSE]
  <1>1. Executed(c, 6, FALSE) = [c EXCEPT !.inc = Bit(6, 2), !.shift = Bit(6, 1)]
    BY DEF Executed, Command
  <1>2. Bit(6, 2) = TRUE /\ Bit(6, 1) = FALSE
    BY DEF Bit
  <1>3. QED
    BY <1>1, <1>2

LEMMA PoweredOnIs ==
    /\ PoweredOn \in Chips /\ PoweredOn.bits8 /\ PoweredOn.half = None /\ ~PoweredOn.halfRs
    /\ PoweredOn.inc /\ ~PoweredOn.shift /\ ~PoweredOn.moved /\ ~PoweredOn.cg
    /\ PoweredOn.at = 0 /\ PoweredOn.cells = [a \in Cells |-> Blank]
  <1> DEFINE h == [a \in Cells |-> Blank]
  <1>1. h \in [Cells -> 0..255]
    BY BlankType
  <1>2. PoweredOn = [bits8 |-> TRUE, half |-> None, halfRs |-> FALSE, lines2 |-> FALSE,
                     on |-> FALSE, inc |-> TRUE, shift |-> FALSE, moved |-> FALSE, cg |-> FALSE,
                     at |-> 0, cells |-> h]
    BY DEF PoweredOn
  <1> HIDE DEF h
  <1>3. None \in 0..None
    BY DEF None
  <1>4. QED
    BY <1>1, <1>2, <1>3 DEF Chips, h

LEMMA ReadyIs ==
    ASSUME NEW c \in Chips, Good(c)
    PROVE  LET c1 == Executed(c, 40, FALSE)
               c2 == Executed(c1, 12, FALSE)
               c3 == Executed(c2, 1, FALSE)
           IN  Executed(c3, 6, FALSE) = Ready
  <1> DEFINE c1 == Executed(c, 40, FALSE)
             c2 == Executed(c1, 12, FALSE)
             c3 == Executed(c2, 1, FALSE)
             h == [a \in Cells |-> Blank]
  <1>1. c1 = [c EXCEPT !.bits8 = FALSE, !.lines2 = TRUE]
    BY FunctionSetIs
  <1>2. c2 = [c1 EXCEPT !.on = TRUE]
    BY DisplayOnIs
  <1>3. c3 = [c2 EXCEPT !.at = 0, !.cg = FALSE, !.moved = FALSE, !.inc = TRUE, !.cells = h]
    BY ClearedIs
  <1>4. Executed(c3, 6, FALSE) = [c3 EXCEPT !.inc = TRUE, !.shift = FALSE]
    BY EntryModeIs
  <1> HIDE DEF h
  <1>5. /\ Ready \in Chips
        /\ ~Ready.bits8 /\ Ready.half = None /\ ~Ready.halfRs /\ Ready.lines2 /\ Ready.on
        /\ Ready.inc /\ ~Ready.shift /\ ~Ready.moved /\ ~Ready.cg /\ Ready.at = 0
        /\ Ready.cells = h
    <2>1. /\ PoweredOn \in Chips /\ PoweredOn.half = None /\ ~PoweredOn.halfRs
          /\ PoweredOn.inc /\ ~PoweredOn.shift /\ ~PoweredOn.moved /\ ~PoweredOn.cg
          /\ PoweredOn.at = 0 /\ PoweredOn.cells = h
      BY PoweredOnIs DEF h
    <2> DEFINE x == FALSE  y == TRUE  p == PoweredOn
    <2>2. /\ Ready = [p EXCEPT !.bits8 = x, !.lines2 = y, !.on = y]
          /\ x \in BOOLEAN /\ y \in BOOLEAN /\ p \in Chips
      BY <2>1 DEF Ready
    <2> HIDE DEF x, y, p
    <2>3. /\ Ready \in Chips /\ Ready.bits8 = x /\ Ready.half = p.half /\ Ready.halfRs = p.halfRs
          /\ Ready.lines2 = y /\ Ready.on = y /\ Ready.inc = p.inc /\ Ready.shift = p.shift
          /\ Ready.moved = p.moved /\ Ready.cg = p.cg /\ Ready.at = p.at /\ Ready.cells = p.cells
      BY <2>2 DEF Chips
    <2>4. QED
      BY <2>1, <2>3 DEF x, y, p
  <1> DEFINE c4 == Executed(c3, 6, FALSE)
  <1>13. \A d \in Chips : \A b \in 0..255 : Executed(d, b, FALSE) \in Chips
    BY ExecutedKeeps DEF LeavesMode
  <1>14. {40, 12, 1, 6} \subseteq 0..255
    OBVIOUS
  <1>15. c4 = [c3 EXCEPT !.inc = TRUE, !.shift = FALSE]
    BY <1>4
  <1>6. c1 \in Chips /\ c2 \in Chips /\ c3 \in Chips /\ c4 \in Chips
    BY Zenon, <1>13, <1>14
  <1> HIDE DEF c1, c2, c3, c4
  <1>7. ~c1.bits8 /\ c1.half = None /\ ~c1.halfRs /\ c1.lines2
    BY <1>1 DEF Chips, Good
  <1>8. ~c2.bits8 /\ c2.half = None /\ ~c2.halfRs /\ c2.lines2 /\ c2.on
    BY <1>2, <1>6, <1>7 DEF Chips
  <1>9. /\ ~c3.bits8 /\ c3.half = None /\ ~c3.halfRs /\ c3.lines2 /\ c3.on
        /\ c3.inc /\ ~c3.moved /\ ~c3.cg /\ c3.at = 0 /\ c3.cells = h
    BY <1>3, <1>6, <1>8 DEF Chips
  <1>10. /\ ~c4.bits8 /\ c4.half = None /\ ~c4.halfRs /\ c4.lines2 /\ c4.on
         /\ c4.inc /\ ~c4.shift /\ ~c4.moved /\ ~c4.cg /\ c4.at = 0 /\ c4.cells = h
    BY <1>15, <1>6, <1>9 DEF Chips
  <1>11. c4 = Ready
    BY <1>5, <1>6, <1>10 DEF Chips
  <1>12. QED
    BY <1>11 DEF c1, c2, c3, c4

\* Once the controller is in its 4-bit mode.
SetUpRest(t) == t \in Seq(Nibbles) /\ Len(t) = 8 /\ \A i \in 1..8 : t[i] = Script[4 + i]

LEMMA ByteIs ==
    ASSUME NEW t, NEW i \in Nat, NEW g, NEW m \in 0..15, NEW n \in 0..15, NEW b,
           t[2 * i - 1] = Nibble(m, FALSE), t[2 * i] = Nibble(n, FALSE), b = 16 * m + n,
           Harmless(b, FALSE), g[i] = Executed(g[i - 1], b, FALSE)
    PROVE  OneByte(t, i, g)
  <1>1. /\ t[2 * i - 1].n = m /\ t[2 * i].n = n /\ t[2 * i - 1].rs = FALSE /\ t[2 * i].rs = FALSE
    BY DEF Nibble
  <1>2. Joined(t, i) = b
    BY <1>1 DEF Joined
  <1>3. QED
    BY Zenon, <1>1, <1>2 DEF OneByte

LEMMA SetUpLeads ==
    ASSUME NEW c \in Chips, Good(c), NEW t, SetUpRest(t)
    PROVE  Leads(c, t, Ready)
  <1> DEFINE c1 == Executed(c, 40, FALSE)
             c2 == Executed(c1, 12, FALSE)
             c3 == Executed(c2, 1, FALSE)
             g == [i \in 0..4 |-> IF i = 0 THEN c ELSE IF i = 1 THEN c1 ELSE IF i = 2 THEN c2
                                  ELSE IF i = 3 THEN c3 ELSE Ready]
  <1>1. Executed(c3, 6, FALSE) = Ready
    BY ReadyIs
  <1>2. \A d \in Chips : \A b \in 0..255 : Executed(d, b, FALSE) \in Chips
    BY ExecutedKeeps DEF LeavesMode
  <1>3. {40, 12, 1, 6} \subseteq 0..255
    OBVIOUS
  <1>4. c1 \in Chips /\ c2 \in Chips /\ c3 \in Chips /\ Ready \in Chips
    BY Zenon, <1>1, <1>2, <1>3
  <1>5. c1 = Executed(c, 40, FALSE) /\ c2 = Executed(c1, 12, FALSE) /\ c3 = Executed(c2, 1, FALSE)
    OBVIOUS
  <1> HIDE DEF c1, c2, c3
  <1>6. /\ g \in [0..4 -> Chips]
        /\ g[0] = c /\ g[1] = c1 /\ g[2] = c2 /\ g[3] = c3 /\ g[4] = Ready
    BY <1>4
  <1> HIDE DEF g
  <1>7. /\ t[1] = Nibble(2, FALSE) /\ t[2] = Nibble(8, FALSE)
        /\ t[3] = Nibble(0, FALSE) /\ t[4] = Nibble(12, FALSE)
        /\ t[5] = Nibble(0, FALSE) /\ t[6] = Nibble(1, FALSE)
        /\ t[7] = Nibble(0, FALSE) /\ t[8] = Nibble(6, FALSE)
    <2>1. \A i \in 1..8 : t[i] = Script[4 + i]
      BY DEF SetUpRest
    <2>2. /\ t[1] = Script[5] /\ t[2] = Script[6] /\ t[3] = Script[7] /\ t[4] = Script[8]
          /\ t[5] = Script[9] /\ t[6] = Script[10] /\ t[7] = Script[11] /\ t[8] = Script[12]
      BY <2>1
    <2>3. QED
      BY Zenon, <2>2, ScriptIs
  <1>8. /\ Harmless(40, FALSE) /\ Harmless(12, FALSE) /\ Harmless(1, FALSE) /\ Harmless(6, FALSE)
    BY DEF Harmless, Bit
  <1>9. OneByte(t, 1, g)
    <2>1. /\ 2 * 1 - 1 = 1 /\ 2 * 1 = 2 /\ 1 - 1 = 0 /\ 40 = 16 * 2 + 8
          /\ 1 \in Nat /\ 2 \in 0..15 /\ 8 \in 0..15
      OBVIOUS
    <2>2. QED
      BY Zenon, <1>1, <1>5, <1>6, <1>7, <1>8, <2>1, ByteIs
  <1>10. OneByte(t, 2, g)
    <2>1. /\ 2 * 2 - 1 = 3 /\ 2 * 2 = 4 /\ 2 - 1 = 1 /\ 12 = 16 * 0 + 12
          /\ 2 \in Nat /\ 0 \in 0..15 /\ 12 \in 0..15
      OBVIOUS
    <2>2. QED
      BY Zenon, <1>1, <1>5, <1>6, <1>7, <1>8, <2>1, ByteIs
  <1>11. OneByte(t, 3, g)
    <2>1. /\ 2 * 3 - 1 = 5 /\ 2 * 3 = 6 /\ 3 - 1 = 2 /\ 1 = 16 * 0 + 1
          /\ 3 \in Nat /\ 0 \in 0..15 /\ 1 \in 0..15
      OBVIOUS
    <2>2. QED
      BY Zenon, <1>1, <1>5, <1>6, <1>7, <1>8, <2>1, ByteIs
  <1>12. OneByte(t, 4, g)
    <2>1. /\ 2 * 4 - 1 = 7 /\ 2 * 4 = 8 /\ 4 - 1 = 3 /\ 6 = 16 * 0 + 6
          /\ 4 \in Nat /\ 0 \in 0..15 /\ 6 \in 0..15
      OBVIOUS
    <2>2. QED
      BY Zenon, <1>1, <1>5, <1>6, <1>7, <1>8, <2>1, ByteIs
  <1>13. \A i \in 1..4 : OneByte(t, i, g)
    <2>1. \A i \in 1..4 : i = 1 \/ i = 2 \/ i = 3 \/ i = 4
      OBVIOUS
    <2>2. QED
      BY Zenon, <2>1, <1>9, <1>10, <1>11, <1>12
  <1>14. t \in Seq(Nibbles) /\ Len(t) = 2 * 4 /\ 4 \in Nat
    BY DEF SetUpRest
  <1>15. QED
    BY Zenon, <1>6, <1>13, <1>14 DEF Leads

\* The controller but for the half byte it holds, and that half with what follows.
Settled(c) == [c EXCEPT !.half = None, !.halfRs = FALSE]
Owed(c, t) == IF c.half = None THEN t ELSE <<Nibble(c.half, c.halfRs)>> \o t

\* A half waits in the 4-bit mode only.
Sound(c) == c \in Chips /\ (c.bits8 => c.half = None) /\ (c.half = None => ~c.halfRs)

(* What a reset may have left of the controller is gone after the nibbles   *)
(* of Attention: p of them have been sent.                                  *)
Attended(c, p) ==
    \/ p = 0
    \/ p = 1 /\ (c.bits8 \/ c.half = None \/ (c.half = 3 /\ ~c.halfRs))
    \/ p = 2 /\ (c.bits8 \/ (c.half = 3 /\ ~c.halfRs))
    \/ p = 3 /\ c.bits8

Attending ==
    /\ pc = "setup" /\ meant = Ready
    /\ \E p \in 0..3 :
           /\ Attended(chip, p) /\ Len(todo) = 12 - p
           /\ \A i \in 1..(12 - p) : todo[i] = Script[p + i]

Sending == Good(Settled(chip)) /\ Leads(Settled(chip), Owed(chip, todo), meant)

OnWire == todo # <<>> /\ wire.n = Head(todo).n /\ wire.rs = Head(todo).rs

DisplayInv ==
    /\ Sound(chip) /\ meant \in Chips /\ todo \in Seq(Nibbles)
    /\ wire \in [e : BOOLEAN, n : 0..15, rs : BOOLEAN]
    /\ pc = "begin" => todo = <<>>
    /\ pc # "begin" => (wire.e => OnWire) /\ (Attending \/ Sending)

---------------------------------------------------------------------------
LEMMA SettledIs ==
    ASSUME NEW c \in Chips
    PROVE  /\ Settled(c) \in Chips /\ Settled(c).half = None /\ Settled(c).halfRs = FALSE
           /\ Settled(c).bits8 = c.bits8
           /\ Sound(c) /\ c.half = None => Settled(c) = c
  <1>1. None \in 0..None
    BY DEF None
  <1> DEFINE x == FALSE  n == None  s == Settled(c)
  <1>2. /\ s = [c EXCEPT !.half = n, !.halfRs = x]
        /\ x \in BOOLEAN /\ n \in 0..None
    BY <1>1 DEF Settled
  <1>6. x = FALSE /\ n = None
    OBVIOUS
  <1> HIDE DEF x, n, s
  <1>3. s \in Chips /\ s.half = n /\ s.halfRs = x /\ s.bits8 = c.bits8
    BY <1>2 DEF Chips
  <1>4. ASSUME Sound(c), c.half = None PROVE s = c
    BY <1>2, <1>4, <1>6 DEF Chips, Sound
  <1>5. QED
    BY <1>3, <1>4, <1>6 DEF s

LEMMA EightBits == ASSUME NEW b \in 48..63 PROVE Bit(b, 16) = TRUE
  <1>1. b \div 16 = 3
    OBVIOUS
  <1>2. QED
    BY <1>1 DEF Bit

LEMMA FourBitsOnly == ASSUME NEW b \in 32..47 PROVE Bit(b, 16) = FALSE
  <1>1. b \div 16 = 2
    OBVIOUS
  <1>2. QED
    BY <1>1 DEF Bit

LEMMA FunctionSets ==
    ASSUME NEW c \in Chips, NEW b \in 32..63
    PROVE  Executed(c, b, FALSE).bits8 = Bit(b, 16)
  <1>1. Executed(c, b, FALSE) = [c EXCEPT !.bits8 = Bit(b, 16), !.lines2 = Bit(b, 8)]
    BY DEF Executed, Command
  <1>2. QED
    BY <1>1 DEF Chips

\* And a function set says what the mode is.
SetsMode(c, d, b, rs) ==
    /\ LeavesMode(c, d, b, rs)
    /\ ~rs /\ b \in 48..63 => d.bits8
    /\ ~rs /\ b \in 32..47 => ~d.bits8

LEMMA ExecutedSets ==
    ASSUME NEW c \in Chips, NEW b \in 0..255, NEW rs \in BOOLEAN, NEW d, d = Executed(c, b, rs)
    PROVE  SetsMode(c, d, b, rs)
  <1>1. LeavesMode(c, d, b, rs)
    BY Zenon, ExecutedKeeps
  <1>2. ASSUME ~rs, b \in 48..63 PROVE d.bits8
    <2>1. rs = FALSE /\ b \in 32..63
      BY <1>2
    <2>2. d.bits8 = Bit(b, 16)
      BY Zenon, <2>1, FunctionSets
    <2>3. QED
      BY Zenon, <1>2, <2>2, EightBits
  <1>3. ASSUME ~rs, b \in 32..47 PROVE ~d.bits8
    <2>1. rs = FALSE /\ b \in 32..63
      BY <1>3
    <2>2. d.bits8 = Bit(b, 16)
      BY Zenon, <2>1, FunctionSets
    <2>3. QED
      BY Zenon, <1>3, <2>2, FourBitsOnly
  <1>4. QED
    BY <1>1, <1>2, <1>3 DEF SetsMode

\* The three ways a falling edge may go.
Whole8(d, n, rs) == chip.bits8 /\ \E l \in 0..15 : d = Executed(chip, 16 * n + l, rs)
FirstHalf(d, n, rs) ==
    ~chip.bits8 /\ chip.half = None /\ d = [chip EXCEPT !.half = n, !.halfRs = rs]
SecondHalf(d, n, rs) ==
    /\ ~chip.bits8 /\ chip.half # None
    /\ \E r \in {rs, chip.halfRs} : d = Executed(Settled(chip), 16 * chip.half + n, r)

LEMMA LatchedIs ==
    ASSUME NEW n, NEW rs, NEW d \in Latched(n, rs)
    PROVE  Whole8(d, n, rs) \/ FirstHalf(d, n, rs) \/ SecondHalf(d, n, rs)
  BY DEF Latched, Whole8, FirstHalf, SecondHalf, Settled

LEMMA WholeKeeps ==
    ASSUME Sound(chip), NEW n \in 0..15, NEW rs \in BOOLEAN, NEW d, Whole8(d, n, rs)
    PROVE  /\ Sound(d) /\ d.half = None
           /\ ~rs /\ n = 3 => d.bits8
           /\ ~rs /\ n = 2 => ~d.bits8
  <1>1. PICK l \in 0..15 : d = Executed(chip, 16 * n + l, rs)
    BY DEF Whole8
  <1> DEFINE b == 16 * n + l
  <1>2. b \in 0..255
    OBVIOUS
  <1>3. d = Executed(chip, b, rs) /\ chip \in Chips /\ chip.half = None /\ ~chip.halfRs
    BY <1>1 DEF Sound, Whole8
  <1>4. n = 3 => b \in 48..63
    OBVIOUS
  <1>5. n = 2 => b \in 32..47
    OBVIOUS
  <1> HIDE DEF b
  <1>6. SetsMode(chip, d, b, rs)
    BY Zenon, <1>2, <1>3, ExecutedSets
  <1>7. QED
    BY <1>3, <1>4, <1>5, <1>6 DEF Sound, SetsMode, LeavesMode

LEMMA FirstKeeps ==
    ASSUME Sound(chip), NEW n \in 0..15, NEW rs \in BOOLEAN, NEW d, FirstHalf(d, n, rs)
    PROVE  /\ Sound(d) /\ d.half = n /\ d.halfRs = rs /\ ~d.bits8
           /\ Settled(d) = chip
  <1>1. n \in 0..None /\ n # None
    BY DEF None
  <1>2. d = [chip EXCEPT !.half = n, !.halfRs = rs] /\ chip \in Chips /\ chip.half = None
        /\ chip.halfRs = FALSE /\ ~chip.bits8
    BY DEF FirstHalf, Sound, Chips
  <1>3. d \in Chips /\ d.half = n /\ d.halfRs = rs /\ ~d.bits8
    BY <1>1, <1>2 DEF Chips
  <1>4. Settled(d) = chip
    BY <1>2 DEF Settled, Chips
  <1>5. QED
    BY <1>1, <1>3, <1>4 DEF Sound

LEMMA SecondKeeps ==
    ASSUME Sound(chip), NEW n \in 0..15, NEW rs \in BOOLEAN, NEW d, SecondHalf(d, n, rs)
    PROVE  /\ Sound(d) /\ d.half = None
           /\ ~rs /\ ~chip.halfRs /\ chip.half = 3 /\ n = 3 => d.bits8
  <1>1. PICK r \in {rs, chip.halfRs} : d = Executed(Settled(chip), 16 * chip.half + n, r)
    BY DEF SecondHalf
  <1>2. chip \in Chips /\ chip.half \in 0..15 /\ r \in BOOLEAN
    BY DEF Sound, Chips, SecondHalf, None
  <1> DEFINE b == 16 * chip.half + n
  <1>3. b \in 0..255
    BY <1>2
  <1>4. chip.half = 3 /\ n = 3 => b \in 48..63
    OBVIOUS
  <1> DEFINE c == Settled(chip)
  <1>5. d = Executed(c, b, r) /\ c \in Chips /\ c.half = None /\ c.halfRs = FALSE
    BY <1>1, <1>2, SettledIs
  <1> HIDE DEF b, c
  <1>6. ~rs /\ ~chip.halfRs => ~r
    BY <1>1
  <1>7. SetsMode(c, d, b, r)
    BY Zenon, <1>2, <1>3, <1>5, ExecutedSets
  <1>8. QED
    BY <1>4, <1>5, <1>6, <1>7 DEF Sound, SetsMode, LeavesMode

LEMMA LatchedSound ==
    ASSUME Sound(chip), NEW n \in 0..15, NEW rs \in BOOLEAN, NEW d \in Latched(n, rs)
    PROVE  Sound(d)
  BY LatchedIs, WholeKeeps, FirstKeeps, SecondKeeps

LEMMA HeadIs ==
    ASSUME NEW t \in Seq(Nibbles), t # <<>>
    PROVE  /\ Head(t) \in Nibbles /\ Head(t) = t[1] /\ Len(t) >= 1
           /\ Head(t).n \in 0..15 /\ Head(t).rs \in BOOLEAN
           /\ Nibble(Head(t).n, Head(t).rs) = Head(t)
           /\ Tail(t) \in Seq(Nibbles) /\ Len(Tail(t)) = Len(t) - 1
           /\ \A i \in 1..(Len(t) - 1) : Tail(t)[i] = t[i + 1]
           /\ <<Head(t)>> \o Tail(t) = t
  <1>1. /\ Head(t) \in Nibbles /\ Head(t) = t[1] /\ Len(t) >= 1
        /\ Tail(t) \in Seq(Nibbles) /\ Len(Tail(t)) = Len(t) - 1
        /\ \A i \in 1..(Len(t) - 1) : Tail(t)[i] = t[i + 1]
    OBVIOUS
  <1>2. /\ Head(t).n \in 0..15 /\ Head(t).rs \in BOOLEAN
        /\ Nibble(Head(t).n, Head(t).rs) = Head(t)
    BY <1>1 DEF Nibble, Nibbles
  <1>3. <<Head(t)>> \o Tail(t) = t
    OBVIOUS
  <1>4. QED
    BY <1>1, <1>2, <1>3

LEMMA Prefixed ==
    ASSUME NEW n \in Nibbles, NEW t \in Seq(Nibbles)
    PROVE  /\ <<n>> \o t \in Seq(Nibbles) /\ <<n>> \o t # <<>> /\ Tail(<<n>> \o t) = t
           /\ (<<n>> \o t)[1] = n /\ (t # <<>> => (<<n>> \o t)[2] = t[1])
  OBVIOUS

\* The first nibbles of Attention.
LEMMA AttendingOn ==
    ASSUME DisplayInv, Attending, EnableDown, pc' = pc
    PROVE  Attending' \/ Sending'
  <1>1. /\ Sound(chip) /\ todo \in Seq(Nibbles) /\ todo # <<>> /\ wire.e
        /\ wire.n = Head(todo).n /\ wire.rs = Head(todo).rs
        /\ chip' \in Latched(wire.n, wire.rs) /\ todo' = Tail(todo) /\ meant' = meant
        /\ pc = "setup" /\ meant = Ready
    BY DEF DisplayInv, EnableDown, OnWire, Attending
  <1>2. PICK p \in 0..3 :
            /\ Attended(chip, p) /\ Len(todo) = 12 - p
            /\ \A i \in 1..(12 - p) : todo[i] = Script[p + i]
    BY DEF Attending
  <1>3. Head(todo) = Script[p + 1]
    BY <1>1, <1>2, HeadIs
  <1>4. /\ Len(todo') = 12 - (p + 1) /\ todo' \in Seq(Nibbles)
        /\ \A i \in 1..(12 - (p + 1)) : todo'[i] = Script[p + 1 + i]
    <2>1. /\ Len(todo') = Len(todo) - 1 /\ todo' \in Seq(Nibbles)
          /\ \A i \in 1..(Len(todo) - 1) : todo'[i] = todo[i + 1]
      BY <1>1, HeadIs
    <2>2. QED
      BY <1>2, <2>1
  <1> DEFINE n == wire.n  rs == wire.rs  d == chip'
  <1>5. rs = FALSE /\ n \in 0..15 /\ (p # 3 => n = 3) /\ (p = 3 => n = 2)
    <2>4. (\A i \in 1..3 : Script[i] = Nibble(3, FALSE)) /\ Script[4] = Nibble(2, FALSE)
      BY Zenon, ScriptIs
    <2>5. (p # 3 => p + 1 \in 1..3) /\ (p = 3 => p + 1 = 4)
      OBVIOUS
    <2>1. p # 3 => Script[p + 1] = Nibble(3, FALSE)
      BY Zenon, <2>4, <2>5
    <2>2. p = 3 => Script[p + 1] = Nibble(2, FALSE)
      BY Zenon, <2>4, <2>5
    <2>3. QED
      BY <1>1, <1>3, <2>1, <2>2 DEF Nibble
  <1>12. ~rs /\ rs \in BOOLEAN
    BY Zenon, <1>5
  <1>13. n \in 0..15 /\ (p # 3 => n = 3) /\ (p = 3 => n = 2)
    BY Zenon, <1>5
  <1>6. Whole8(d, n, rs) \/ FirstHalf(d, n, rs) \/ SecondHalf(d, n, rs)
    BY <1>1, LatchedIs
  <1>7. Sound(d)
    BY <1>1, <1>5, LatchedSound
  <1> HIDE DEF n, rs, d
  <1>8. ASSUME p # 3 PROVE Attended(d, p + 1)
    <2>1. n = 3 /\ ~rs /\ rs \in BOOLEAN /\ n \in 0..15 /\ n # None
      BY <1>12, <1>13, <1>8 DEF None
    <2>2. CASE Whole8(d, n, rs)
      <3>1. d.half = None /\ d.bits8
        BY <1>1, <2>1, <2>2, WholeKeeps
      <3>2. QED
        BY <1>8, <3>1 DEF Attended
    <2>3. CASE FirstHalf(d, n, rs)
      <3>1. d.half = 3 /\ ~d.halfRs
        BY <1>1, <2>1, <2>3, FirstKeeps
      <3>2. p # 2
        BY <1>2, <2>3 DEF Attended, FirstHalf, None
      <3>3. QED
        BY <1>8, <3>1, <3>2 DEF Attended
    <2>4. CASE SecondHalf(d, n, rs)
      <3>1. d.half = None /\ (~chip.halfRs /\ chip.half = 3 => d.bits8)
        BY <1>1, <2>1, <2>4, SecondKeeps
      <3>2. p # 0 => d.bits8
        BY <1>2, <1>8, <2>4, <3>1 DEF Attended, SecondHalf
      <3>3. QED
        BY <1>8, <3>1, <3>2 DEF Attended
    <2>5. QED
      BY <1>6, <2>2, <2>3, <2>4
  <1>9. CASE p # 3
    <2>1. p + 1 \in 0..3
      BY <1>9
    <2>2. Attending'
      BY <1>1, <1>4, <1>8, <1>9, <2>1 DEF Attending, d
    <2>3. QED
      BY <2>2
  <1>10. CASE p = 3
    <2>1. n = 2 /\ ~rs /\ rs \in BOOLEAN /\ n \in 0..15 /\ chip.bits8
      BY <1>2, <1>12, <1>13, <1>10 DEF Attended
    <2>2. Whole8(d, n, rs)
      BY <1>6, <2>1 DEF FirstHalf, SecondHalf
    <2>3. d.half = None /\ ~d.bits8
      BY <1>1, <2>1, <2>2, WholeKeeps
    <2>4. Good(d) /\ Settled(d) = d /\ Owed(d, todo') = todo' /\ d \in Chips
      BY <1>7, <2>3, SettledIs DEF Good, Sound, Owed
    <2>5. SetUpRest(todo')
      BY <1>4, <1>10 DEF SetUpRest
    <2>6. Leads(d, todo', Ready)
      BY <2>4, <2>5, SetUpLeads
    <2>7. Sending'
      BY <1>1, <2>4, <2>6 DEF Sending, d
    <2>8. QED
      BY <2>7
  <1>11. QED
    BY <1>9, <1>10

LEMMA SendingOn ==
    ASSUME DisplayInv, Sending, OnWire, EnableDown
    PROVE  Sending'
  <1> DEFINE n == wire.n  rs == wire.rs  d == chip'  c == Settled(chip)  h == Head(todo)
  <1>1. /\ Sound(chip) /\ chip \in Chips /\ todo \in Seq(Nibbles) /\ todo # <<>>
        /\ n = h.n /\ rs = h.rs
        /\ d \in Latched(n, rs) /\ todo' = Tail(todo) /\ meant' = meant
    BY DEF DisplayInv, EnableDown, OnWire, Sound
  <1>2. Good(c) /\ Leads(c, Owed(chip, todo), meant) /\ c \in Chips /\ c.bits8 = chip.bits8
    BY <1>1, SettledIs DEF Sending
  <1>3. n \in 0..15 /\ rs \in BOOLEAN /\ Nibble(n, rs) = h /\ h = todo[1]
        /\ <<h>> \o Tail(todo) = todo
    BY <1>1, HeadIs
  <1>4. Whole8(d, n, rs) \/ FirstHalf(d, n, rs) \/ SecondHalf(d, n, rs)
    BY <1>1, LatchedIs
  <1>5. ~chip.bits8
    BY <1>2 DEF Good
  <1> HIDE DEF n, rs, d, c, h
  <1>6. CASE FirstHalf(d, n, rs)
    <2>1. d.half = n /\ d.halfRs = rs /\ Settled(d) = chip
      BY <1>1, <1>3, <1>6, FirstKeeps
    <2>2. chip.half = None /\ n # None
      BY <1>3, <1>6 DEF FirstHalf, None
    <2>3. c = chip /\ Owed(chip, todo) = todo
      BY <1>1, <2>2, SettledIs DEF c, Owed
    <2>4. Owed(d, todo') = todo
      BY <1>1, <1>3, <2>1, <2>2 DEF Owed
    <2>5. Good(Settled(d)) /\ Leads(Settled(d), Owed(d, todo'), meant')
      BY <1>1, <1>2, <2>1, <2>3, <2>4
    <2>6. QED
      BY <2>5 DEF Sending, d
  <1>7. CASE SecondHalf(d, n, rs)
    <2> DEFINE o == Owed(chip, todo)  k == Nibble(chip.half, chip.halfRs)  b == 16 * chip.half + n
    <2>1. chip.half # None /\ chip.half \in 0..15 /\ chip.halfRs \in BOOLEAN
      BY <1>1, <1>7 DEF SecondHalf, Chips, None
    <2>2. o = <<k>> \o todo
      BY <2>1 DEF Owed
    <2>3. k \in Nibbles /\ k.n = chip.half /\ k.rs = chip.halfRs
      BY <2>1 DEF Nibble, Nibbles
    <2> HIDE DEF o, k
    <2>4. o # <<>> /\ o[1] = k /\ o[2] = h /\ Tail(o) = todo
      BY <1>1, <1>3, <2>2, <2>3, Prefixed
    <2>5. Leads(c, o, meant)
      BY <1>2 DEF o
    <2>6. /\ o[1].rs = o[2].rs /\ Harmless(16 * o[1].n + o[2].n, o[1].rs)
          /\ Leads(Executed(c, 16 * o[1].n + o[2].n, o[1].rs), Tail(Tail(o)), meant)
      BY Zenon, <1>2, <2>4, <2>5, LeadsOn
    <2>7. /\ chip.halfRs = rs /\ Harmless(b, rs) /\ Leads(Executed(c, b, rs), todo', meant)
      BY Zenon, <1>1, <2>3, <2>4, <2>6
    <2>8. d = Executed(c, b, rs)
      BY <1>7, <2>7 DEF SecondHalf, c
    <2>15. n \in 0..15 /\ chip.half \in 0..15
      BY Zenon, <1>3, <2>1
    <2>9. b \in 0..255
      BY <2>15
    <2> HIDE DEF b
    <2>10. LeavesMode(c, d, b, rs)
      BY Zenon, <1>2, <1>3, <2>8, <2>9, ExecutedKeeps
    <2>11. Good(d) /\ d \in Chips
      BY <1>2, <2>7, <2>10 DEF LeavesMode, Good
    <2>12. Settled(d) = d /\ Owed(d, todo') = todo'
      BY <2>11, SettledIs DEF Good, Sound, Owed
    <2>13. Good(Settled(d)) /\ Leads(Settled(d), Owed(d, todo'), meant')
      BY <1>1, <2>7, <2>8, <2>11, <2>12
    <2>14. QED
      BY <2>13 DEF Sending, d
  <1>8. QED
    BY <1>4, <1>5, <1>6, <1>7 DEF Whole8

LEMMA DisplayInit == Init => DisplayInv
  <1> SUFFICES ASSUME Init PROVE DisplayInv
    OBVIOUS
  <1>1. /\ todo = <<>> /\ wire = [e |-> FALSE, n |-> 15, rs |-> TRUE]
        /\ chip = PoweredOn /\ meant = PoweredOn /\ pc = "begin"
    BY DEF Init, LcdInit
  <1>2. Sound(PoweredOn) /\ PoweredOn \in Chips
    BY PoweredOnIs DEF Sound
  <1>3. <<>> \in Seq(Nibbles)
    OBVIOUS
  <1>4. QED
    BY <1>1, <1>2, <1>3 DEF DisplayInv

LEMMA BeginDisplay == ASSUME DisplayInv, begin, pc = "begin", pc' = "setup" PROVE DisplayInv'
  <1>1. /\ Sound(chip) /\ wire \in [e : BOOLEAN, n : 0..15, rs : BOOLEAN]
        /\ wire' = [e |-> FALSE, n |-> 0, rs |-> FALSE] /\ todo' = Script /\ meant' = Ready
        /\ chip' = chip
           \/ \E n \in {0, wire.n} : \E rs \in {FALSE, wire.rs} : chip' \in Latched(n, rs)
    BY DEF DisplayInv, begin, Script
  <1>2. Sound(chip')
    <2>1. CASE chip' = chip
      BY <1>1, <2>1
    <2>2. CASE \E n \in {0, wire.n} : \E rs \in {FALSE, wire.rs} : chip' \in Latched(n, rs)
      <3>1. PICK n \in {0, wire.n}, rs \in {FALSE, wire.rs} : chip' \in Latched(n, rs)
        BY <2>2
      <3>4. wire.n \in 0..15 /\ wire.rs \in BOOLEAN
        BY <1>1
      <3>5. 0 \in 0..15
        OBVIOUS
      <3>2. n \in 0..15 /\ rs \in BOOLEAN
        BY Zenon, <3>4, <3>5
      <3>3. QED
        BY <1>1, <3>1, <3>2, LatchedSound
    <2>3. QED
      BY <1>1, <2>1, <2>2
  <1>3. Ready \in Chips
    <2> DEFINE x == FALSE  y == TRUE  p == PoweredOn
    <2>1. /\ Ready = [p EXCEPT !.bits8 = x, !.lines2 = y, !.on = y]
          /\ x \in BOOLEAN /\ y \in BOOLEAN /\ p \in Chips
      BY PoweredOnIs DEF Ready
    <2> HIDE DEF x, y, p
    <2>2. QED
      BY <2>1 DEF Chips
  <1>4. Attending'
    <2>1. Script \in Seq(Nibbles) /\ Len(Script) = 12 - 0 /\ 0 \in 0..3
          /\ \A i \in 1..(12 - 0) : Script[i] = Script[0 + i]
      BY ScriptIs
    <2>2. Attended(chip', 0)
      BY DEF Attended
    <2>3. QED
      BY Zenon, <1>1, <2>1, <2>2 DEF Attending
  <1>5. wire' \in [e : BOOLEAN, n : 0..15, rs : BOOLEAN] /\ ~wire'.e /\ todo' \in Seq(Nibbles)
    BY <1>1, ScriptIs
  <1>6. QED
    BY <1>1, <1>2, <1>3, <1>4, <1>5 DEF DisplayInv

\* Nothing more to send: the controller is as it is meant to be.
LEMMA NothingOwed ==
    ASSUME DisplayInv, todo = <<>>, pc # "begin"
    PROVE  chip = meant /\ Good(chip) /\ chip \in Chips /\ ~wire.e
  <1>1. Attending \/ Sending
    BY DEF DisplayInv
  <1>2. ~Attending
    <2>1. Len(<<>>) = 0
      OBVIOUS
    <2>2. QED
      BY <2>1 DEF Attending
  <1>3. Sound(chip) /\ chip \in Chips /\ ~wire.e
    BY DEF DisplayInv, OnWire, Sound
  <1>4. Good(Settled(chip)) /\ Leads(Settled(chip), Owed(chip, <<>>), meant)
    BY <1>1, <1>2 DEF Sending
  <1>5. chip.half = None
    <2>1. SUFFICES ASSUME chip.half # None PROVE FALSE
      OBVIOUS
    <2> DEFINE k == Nibble(chip.half, chip.halfRs)
    <2>2. Owed(chip, <<>>) = <<k>>
      <3> HIDE DEF k
      <3>1. <<k>> \o <<>> = <<k>>
        OBVIOUS
      <3>2. QED
        BY <2>1, <3>1 DEF Owed, k
    <2> HIDE DEF k
    <2>3. <<k>> # <<>> /\ Len(<<k>>) = 1
      OBVIOUS
    <2>4. Len(<<k>>) >= 2
      BY <1>4, <2>2, <2>3, LeadsEven
    <2>5. QED
      BY <2>3, <2>4
  <1>6. Settled(chip) = chip /\ Owed(chip, <<>>) = <<>>
    BY <1>3, <1>5, SettledIs DEF Owed
  <1>7. QED
    BY <1>3, <1>4, <1>6, LeadsNowhere

LEMMA LeadsType == ASSUME NEW c, NEW t, NEW d, Leads(c, t, d) PROVE t \in Seq(Nibbles) /\ d \in Chips
  BY DEF Leads

Working == pc \notin {"begin", "setup"}

LEMMA CallsDisplay ==
    ASSUME DisplayInv, NEW calls \in Seq(Calling), Calm(calls), Calls(calls), pc # "begin", Working'
    PROVE  DisplayInv'
  <1>1. /\ todo = <<>> /\ todo' = Flattened(calls) /\ meant' = After(meant, calls)
        /\ wire' = wire /\ chip' = chip
    BY DEF Calls
  <1>2. chip = meant /\ Good(chip) /\ chip \in Chips /\ ~wire.e
    BY <1>1, NothingOwed
  <1>3. Leads(chip, todo', meant')
    BY <1>1, <1>2, CallsLead
  <1>4. Settled(chip) = chip /\ Owed(chip, todo') = todo'
    BY <1>2, SettledIs DEF Good, Sound, Owed
  <1>5. Sending'
    BY <1>1, <1>2, <1>3, <1>4 DEF Sending
  <1>6. todo' \in Seq(Nibbles) /\ meant' \in Chips
    BY <1>3, LeadsType
  <1>7. QED
    BY <1>1, <1>2, <1>5, <1>6 DEF DisplayInv, Working

LEMMA QuietDisplay ==
    ASSUME DisplayInv, UNCHANGED lcdVars, pc' = pc \/ (Working /\ Working') PROVE DisplayInv'
  <1>1. /\ todo' = todo /\ wire' = wire /\ chip' = chip /\ meant' = meant
    BY DEF lcdVars
  <1>2. Sending => Sending'
    BY <1>1 DEF Sending
  <1>3. pc' = pc => (Attending => Attending')
    BY <1>1 DEF Attending
  <1>4. Working => ~Attending
    BY DEF Working, Attending
  <1>5. OnWire => OnWire'
    BY <1>1 DEF OnWire
  <1>6. pc # "begin" <=> pc' # "begin"
    BY DEF Working
  <1>7. QED
    BY <1>1, <1>2, <1>3, <1>4, <1>5, <1>6 DEF DisplayInv

LEMMA UpDisplay == ASSUME DisplayInv, EnableUp, pc' = pc PROVE DisplayInv'
  <1>1. /\ todo # <<>> /\ todo' = todo /\ chip' = chip /\ meant' = meant
        /\ wire' = [e |-> TRUE, n |-> Head(todo).n, rs |-> Head(todo).rs]
    BY DEF EnableUp
  <1>2. todo \in Seq(Nibbles) /\ pc # "begin"
    BY <1>1 DEF DisplayInv
  <1>3. Head(todo).n \in 0..15 /\ Head(todo).rs \in BOOLEAN
    BY <1>1, <1>2, HeadIs
  <1>4. wire' \in [e : BOOLEAN, n : 0..15, rs : BOOLEAN] /\ wire'.n = Head(todo).n
        /\ wire'.rs = Head(todo).rs
    BY <1>1, <1>3
  <1>5. OnWire'
    BY <1>1, <1>4 DEF OnWire
  <1>6. (Sending => Sending') /\ (Attending => Attending')
    BY <1>1 DEF Sending, Attending
  <1>7. QED
    BY <1>1, <1>2, <1>4, <1>5, <1>6 DEF DisplayInv

LEMMA DownDisplay == ASSUME DisplayInv, EnableDown, pc' = pc PROVE DisplayInv'
  <1>1. /\ todo # <<>> /\ wire.e /\ wire' = [wire EXCEPT !.e = FALSE] /\ todo' = Tail(todo)
        /\ chip' \in Latched(wire.n, wire.rs) /\ meant' = meant
    BY DEF EnableDown
  <1>2. /\ todo \in Seq(Nibbles) /\ pc # "begin" /\ OnWire /\ (Attending \/ Sending)
        /\ wire \in [e : BOOLEAN, n : 0..15, rs : BOOLEAN] /\ Sound(chip) /\ meant \in Chips
    BY <1>1 DEF DisplayInv
  <1>3. Attending' \/ Sending'
    BY <1>2, AttendingOn, SendingOn
  <1>4. wire' \in [e : BOOLEAN, n : 0..15, rs : BOOLEAN] /\ ~wire'.e
    BY <1>1, <1>2
  <1>5. Tail(todo) \in Seq(Nibbles)
    BY <1>1, <1>2, HeadIs
  <1>6. Sound(chip')
    BY <1>1, <1>2, LatchedSound
  <1>7. QED
    BY <1>1, <1>2, <1>3, <1>4, <1>5, <1>6 DEF DisplayInv

LEMMA ResetDisplay == ASSUME DisplayInv, LcdReset, pc' = "begin" PROVE DisplayInv'
  <1>1. /\ todo' = <<>> /\ meant' = meant
        /\ \/ wire' = wire /\ chip' = chip
           \/ wire' = [e |-> FALSE, n |-> 15, rs |-> TRUE] /\ chip' = PoweredOn
    BY DEF LcdReset
  <1>2. Sound(PoweredOn)
    BY PoweredOnIs DEF Sound
  <1>6. Sound(chip) /\ wire \in [e : BOOLEAN, n : 0..15, rs : BOOLEAN]
    BY DEF DisplayInv
  <1>7. wire' \in [e : BOOLEAN, n : 0..15, rs : BOOLEAN]
    <2>1. CASE wire' = wire
      BY <1>6, <2>1
    <2>2. CASE wire' = [e |-> FALSE, n |-> 15, rs |-> TRUE]
      BY <2>2
    <2>3. QED
      BY Zenon, <1>1, <2>1, <2>2
  <1>3. Sound(chip')
    BY <1>1, <1>2, <1>6
  <1>4. <<>> \in Seq(Nibbles)
    OBVIOUS
  <1>5. QED
    BY <1>1, <1>3, <1>4, <1>7 DEF DisplayInv

(* What is printed.                                                        *)
Plain == {c \in Calling : Harmless(c.b, c.rs)}

LEMMA PlainCalls ==
    ASSUME NEW calls \in Seq(Plain) PROVE calls \in Seq(Calling) /\ Calm(calls)
  <1>1. \A i \in 1..Len(calls) : calls[i] \in Plain
    OBVIOUS
  <1>2. Calm(calls)
    BY <1>1 DEF Calm, Plain
  <1>3. Plain \subseteq Calling
    BY DEF Plain
  <1>4. calls \in Seq(Calling)
    BY <1>3
  <1>5. QED
    BY <1>2, <1>4

LEMMA PlainOnes ==
    /\ CLEAR \in Seq(Plain) /\ HOME \in Seq(Plain) /\ setCursor(0, 1) \in Seq(Plain)
    /\ \A b \in 0..255 : print(b) \in Seq(Plain)
    /\ EndOfLine \in Seq(Plain)
  <1>1. \A c \in Plain : <<c>> \in Seq(Plain)
    OBVIOUS
  <1>2. CLEAR \in Seq(Plain)
    <2>1. [b |-> 1, rs |-> FALSE] \in Plain
      BY DEF Plain, Calling, Harmless
    <2>2. QED
      BY <1>1, <2>1 DEF CLEAR
  <1>3. HOME \in Seq(Plain)
    <2>1. [b |-> 2, rs |-> FALSE] \in Plain
      BY DEF Plain, Calling, Harmless
    <2>2. QED
      BY <1>1, <2>1 DEF HOME
  <1>4. setCursor(0, 1) \in Seq(Plain)
    <2>1. [b |-> 192, rs |-> FALSE] \in Plain
      BY DEF Plain, Calling, Harmless
    <2>2. 128 + 0 + 64 * 1 = 192
      OBVIOUS
    <2>3. setCursor(0, 1) = <<[b |-> 192, rs |-> FALSE]>>
      BY <2>2 DEF setCursor
    <2>4. QED
      BY <1>1, <2>1, <2>3
  <1>5. ASSUME NEW b \in 0..255 PROVE print(b) \in Seq(Plain)
    <2>1. [b |-> b, rs |-> TRUE] \in Plain
      BY DEF Plain, Calling, Harmless
    <2>2. QED
      BY <1>1, <2>1 DEF print
  <1>6. EndOfLine \in Seq(Plain)
    <2>1. print(13) \in Seq(Plain) /\ print(10) \in Seq(Plain)
      BY <1>5
    <2>2. QED
      BY <2>1, Appended DEF EndOfLine
  <1>7. QED
    BY <1>2, <1>3, <1>4, <1>5, <1>6

LEMMA PlainTwo == ASSUME NEW x \in Seq(Plain), NEW y \in Seq(Plain) PROVE x \o y \in Seq(Plain)
  OBVIOUS

LEMMA PlainDisplay ==
    ASSUME DisplayInv, NEW calls \in Seq(Plain), Calls(calls), pc # "begin", Working'
    PROVE  DisplayInv'
  BY PlainCalls, CallsDisplay

LEMMA AmountIsByte == ASSUME CoinType PROVE Amount(low + Byte * count.hi) \in 0..255
  <1>1. low + Byte * count.hi \in Nat
    BY Halves, ReadType DEF CoinType
  <1>2. \A n \in Nat : 48 + (n % 10) \in 0..255
    OBVIOUS
  <1>3. QED
    BY Zenon, <1>1, <1>2 DEF Amount

LEMMA DisplayNext == ASSUME CoinType, DisplayInv, [Next]_vars PROVE DisplayInv'
  <1>1. CASE setup
    <2>1. CASE Steps("begin", "setup") /\ begin
      BY <2>1, BeginDisplay DEF Steps
    <2>2. CASE /\ Steps("setup", "loop")
               /\ Calls(HOME \o print(66) \o setCursor(0, 1) \o print(69) \o CLEAR \o HOME)
      <3>1. HOME \o print(66) \o setCursor(0, 1) \o print(69) \o CLEAR \o HOME \in Seq(Plain)
        <4>1. print(66) \in Seq(Plain) /\ print(69) \in Seq(Plain)
          BY PlainOnes
        <4>2. QED
          BY Zenon, <4>1, PlainOnes, PlainTwo
      <3>2. pc # "begin" /\ Working'
        BY <2>2 DEF Steps, Working
      <3>3. QED
        BY <2>2, <3>1, <3>2, PlainDisplay
    <2>3. QED
      BY <1>1, <2>1, <2>2 DEF setup
  <1>2. CASE ShowSum
    <2>1. CLEAR \o HOME \in Seq(Plain)
      BY Zenon, PlainOnes, PlainTwo
    <2>2. Calls(CLEAR \o HOME) /\ pc # "begin" /\ Working'
      BY <1>2 DEF ShowSum, Steps, Working
    <2>3. QED
      BY <2>1, <2>2, PlainDisplay
  <1>3. CASE ReadHigh
    <2> DEFINE a == Amount(low + Byte * count.hi)
    <2>1. /\ Calls(print(a) \o print(P)) /\ pc = "high" /\ pc' = "shown"
      BY <1>3 DEF ReadHigh, Steps
    <2>2. a \in 0..255 /\ P \in 0..255
      BY <2>1, AmountIsByte DEF P
    <2> HIDE DEF a
    <2>3. print(a) \o print(P) \in Seq(Plain)
      BY Zenon, <2>2, PlainOnes, PlainTwo
    <2>4. QED
      BY <2>1, <2>3, PlainDisplay DEF Working
  <1>4. CASE PressRead
    <2> DEFINE a == Amount(low + Byte * count.hi)
    <2>1. /\ Calls(setCursor(0, 1) \o print(a) \o EndOfLine) /\ pc = "press high" /\ pc' = "id"
      BY <1>4 DEF PressRead, Steps
    <2>2. a \in 0..255
      BY <2>1, AmountIsByte
    <2> HIDE DEF a
    <2>3. setCursor(0, 1) \o print(a) \o EndOfLine \in Seq(Plain)
      BY Zenon, <2>2, PlainOnes, PlainTwo
    <2>4. QED
      BY <2>1, <2>3, PlainDisplay DEF Working
  <1>5. CASE generateHash
    <2>1. Calls(print(Code) \o EndOfLine) /\ pc = "hash" /\ pc' = "clear"
      BY <1>5 DEF generateHash, Steps
    <2>2. Code \in 0..255
      BY DEF Code
    <2>3. print(Code) \o EndOfLine \in Seq(Plain)
      BY Zenon, <2>2, PlainOnes, PlainTwo
    <2>4. QED
      BY <2>1, <2>3, PlainDisplay DEF Working
  <1>6. CASE ReadLow \/ Shown \/ Press \/ FirstId \/ FetchId \/ getNextMessageID \/ Cleared \/ Released
    <2>1. UNCHANGED lcdVars /\ Working /\ Working'
      BY <1>6 DEF ReadLow, Shown, Press, FirstId, FetchId, getNextMessageID, Cleared, Released, Steps,
                  Quiet, Working
    <2>2. QED
      BY <2>1, QuietDisplay
  <1>7. CASE coinInserted \/ UNCHANGED vars
    <2>1. UNCHANGED lcdVars /\ pc' = pc
      BY <1>7 DEF coinInserted, vars
    <2>2. QED
      BY <2>1, QuietDisplay
  <1>8. CASE Driving
    <2>1. (EnableUp \/ EnableDown) /\ pc' = pc
      BY <1>8 DEF Driving, Drive
    <2>2. QED
      BY <2>1, UpDisplay, DownDisplay
  <1>9. CASE Reset
    <2>1. LcdReset /\ pc' = "begin"
      BY <1>9 DEF Reset
    <2>2. QED
      BY <2>1, ResetDisplay
  <1>10. QED
    BY <1>1, <1>2, <1>3, <1>4, <1>5, <1>6, <1>7, <1>8, <1>9 DEF Next

---------------------------------------------------------------------------
ShownInv == CoinType /\ DisplayInv /\ IdInv /\ flag \in {0, 1}

LEMMA FlagNext == ASSUME flag \in {0, 1}, [Next]_vars PROVE flag' \in {0, 1}
  BY DEF Next, vars, idVars, coinInserted, setup, ShowSum, ReadLow, ReadHigh, Shown, Press,
         PressRead, FirstId, FetchId, getNextMessageID, generateHash, Cleared, Released, Driving,
         Reset

\* When there is nothing more to send the display shows what has been printed
\* since begin(), however often a reset has left the controller in the middle of
\* a byte and whatever its other four lines then were (LCD.cpp 67-161,
\* LiquidCrystal_I2C.cpp 226-308).
THEOREM ShownIsMeantTheorem == Spec => []ShownIsMeant
  <1>1. Init => ShownInv
    <2>1. Init => CoinType /\ flag \in {0, 1}
      BY CoinInitInv DEF CoinInv, Init
    <2>2. QED
      BY <2>1, DisplayInit, IdStart DEF ShownInv
  <1>2. ShownInv /\ [Next]_vars => ShownInv'
    BY NextType, DisplayNext, NextIds, FlagNext DEF ShownInv
  <1>3. ShownInv => ShownIsMeant
    <2> SUFFICES ASSUME ShownInv PROVE ShownIsMeant
      OBVIOUS
    <2>1. LcdType
      <3>1. chip \in Chips /\ todo \in Seq(Nibbles) /\ wire \in [e : BOOLEAN, n : 0..15, rs : BOOLEAN]
        BY DEF ShownInv, DisplayInv, Sound
      <3>2. chip.half \in 0..None /\ chip.at \in 0..127 /\ chip.cells \in [Cells -> 0..255]
        BY <3>1 DEF Chips
      <3>5. \A i \in 1..Len(todo) : todo[i] \in Nibbles
        BY <3>1
      <3>3. \A i \in 1..Len(todo) : todo[i] \in [n : 0..15, rs : BOOLEAN]
        BY Zenon, <3>5 DEF Nibbles
      <3>4. QED
        BY <3>1, <3>2, <3>3 DEF LcdType
    <2>2. TypeOK
      BY <2>1 DEF TypeOK, ShownInv, CoinType, Words, IdInv, IdType
    <2>3. todo = <<>> /\ pc # "begin" => ~wire.e /\ chip = meant
      BY NothingOwed DEF ShownInv
    <2>4. QED
      BY <2>2, <2>3 DEF ShownIsMeant
  <1>4. QED
    BY <1>1, <1>2, <1>3, PTL DEF Spec
=============================================================================
