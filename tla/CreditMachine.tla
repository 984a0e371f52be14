---------------------------- MODULE CreditMachine ----------------------------
(***************************************************************************)
(* BBCreditMachine: an interrupt counts the coins, the loop shows the sum,  *)
(* and a press of the switch turns it into a signed code with the next      *)
(* message id.  The sum is two bytes that the loop reads and clears one     *)
(* after the other while the interrupt may come; the id is two bytes in the *)
(* EEPROM, written one after the other while the power may go.              *)
(***************************************************************************)
EXTENDS Lcd

CONSTANTS
    Byte,           \* 256
    MaxCoins,       \* coins inserted (a bound for TLC)
    MaxPresses,     \* presses of the switch (a bound for TLC)
    Resets          \* restarts of the board (a bound for TLC)

ASSUME CreditAssumption ==
    /\ Byte \in Nat \ {0, 1} /\ {MaxCoins, MaxPresses, Resets} \subseteq Nat
    /\ MaxCoins < Byte * Byte /\ MaxPresses < Byte * Byte
    /\ MaxCoins < 200      \* of 5p: less than ten pounds

VARIABLES
    pc, resets, presses,
    count,          \* coinCount, [lo, hi], in coins
    coinRead,
    low,            \* the byte read or cleared first
    amount,         \* what was read
    flag, idLo, idHi,   \* EEPROM 200, 201, 202
    id,
    inserted, credited, \* coins since the start, and those in codes
    carried,        \* a coin carried into the high byte between the two
    used, again,    \* the ids in codes; one has been used twice
    cut             \* the power went between the bytes of an id that carries

coinVars == <<count, coinRead, inserted, carried>>
idVars == <<flag, idLo, idHi, id, used, again, cut>>
vars == <<lcdVars, pc, resets, presses, coinVars, idVars, low, amount, credited>>

Value(w) == w.lo + Byte * w.hi
Zero == [lo |-> 0, hi |-> 0]

Init ==
    /\ LcdInit
    /\ pc = "begin" /\ resets = 0 /\ presses = 0
    /\ count = Zero /\ coinRead = FALSE /\ low = 0 /\ amount = 0
    /\ flag \in {0, 1} /\ idLo \in 0..(Byte - 1) /\ idHi \in 0..(Byte - 1) /\ id = 0
    /\ inserted = 0 /\ credited = 0 /\ carried = FALSE
    /\ used = {} /\ again = FALSE /\ cut = FALSE

---------------------------------------------------------------------------
(* The interrupt, at any point once it is attached.                        *)
Torn == pc \in {"high", "press high", "clear high"}

coinInserted ==
    /\ pc \notin {"begin", "setup"} /\ inserted < MaxCoins
    /\ inserted' = inserted + 1
    /\ count' = IF count.lo + 1 < Byte THEN [count EXCEPT !.lo = @ + 1]
                ELSE [lo |-> 0, hi |-> (count.hi + 1) % Byte]
    /\ coinRead' = TRUE
    /\ carried' = (carried \/ (Torn /\ count.lo + 1 = Byte))
    /\ UNCHANGED <<lcdVars, pc, resets, presses, idVars, low, amount, credited>>

---------------------------------------------------------------------------
(* setup and loop; the display is written to before they go on.            *)
Quiet == UNCHANGED lcdVars /\ todo = <<>>

Steps(from, to) == pc = from /\ pc' = to

Amount(n) == 48 + (n % 10)  \* what is printed is one cell, its last digit
P == 112
EndOfLine == print(13) \o print(10)
Code == 126

setup ==
    \/ /\ Steps("begin", "setup") /\ begin
       /\ UNCHANGED <<resets, presses, coinVars, idVars, low, amount, credited>>
    \/ /\ Steps("setup", "loop")
       /\ Calls(HOME \o print(66) \o setCursor(0, 1) \o print(69) \o CLEAR \o HOME)
       /\ UNCHANGED <<resets, presses, coinVars, idVars, low, amount, credited>>

ShowSum ==
    /\ Steps("loop", "low") /\ coinRead
    /\ Calls(CLEAR \o HOME)
    /\ UNCHANGED <<resets, presses, coinVars, idVars, low, amount, credited>>

ReadLow ==
    /\ Steps("low", "high") \/ Steps("press", "press high")
    /\ Quiet
    /\ low' = count.lo
    /\ UNCHANGED <<resets, presses, coinVars, idVars, amount, credited>>

ReadHigh ==
    /\ Steps("high", "shown")
    /\ Calls(print(Amount(low + Byte * count.hi)) \o print(P))
    /\ low' = 0
    /\ UNCHANGED <<resets, presses, coinVars, idVars, amount, credited>>

Shown ==
    /\ Steps("shown", "loop") /\ Quiet
    /\ coinRead' = FALSE
    /\ UNCHANGED <<resets, presses, count, inserted, carried, idVars, low, amount, credited>>

Press ==
    /\ Steps("loop", "press") /\ ~coinRead /\ presses < MaxPresses
    /\ Quiet
    /\ presses' = presses + 1
    /\ UNCHANGED <<resets, coinVars, idVars, low, amount, credited>>

\* itoa, three digits: less than ten pounds fit its buffer.
PressRead ==
    /\ Steps("press high", "id")
    /\ amount' = low + Byte * count.hi
    /\ low' = 0
    /\ Calls(setCursor(0, 1) \o print(Amount(amount')) \o EndOfLine)
    /\ UNCHANGED <<resets, presses, coinVars, idVars, credited>>

(* getNextMessageID, one write to the EEPROM after the other.               *)
FirstId ==
    /\ Quiet
    /\ \/ Steps("id", "id low 0") /\ flag # 1 /\ flag' = 1 /\ UNCHANGED <<idLo, idHi>>
       \/ Steps("id low 0", "id high 0") /\ idLo' = 0 /\ UNCHANGED <<flag, idHi>>
       \/ Steps("id high 0", "next id") /\ idHi' = 0 /\ UNCHANGED <<flag, idLo>>
    /\ UNCHANGED <<resets, presses, coinVars, id, used, again, cut, low, amount, credited>>

FetchId ==
    /\ Quiet
    /\ Steps("next id", "id low") \/ (Steps("id", "id low") /\ flag = 1)
    /\ id' = (idHi * Byte + idLo + 1) % (Byte * Byte)
    /\ UNCHANGED <<resets, presses, coinVars, flag, idLo, idHi, used, again, cut, low,
                   amount, credited>>

SaveId_Fetched == idLo' = (IF pc = "id low" THEN (id + Byte - 1) % Byte ELSE idLo)

SaveId == idLo' = (IF pc = "id low" THEN id % Byte ELSE idLo)

getNextMessageID ==
    /\ Quiet
    /\ SaveId
    /\ \/ Steps("id low", "id high") /\ UNCHANGED idHi
       \/ Steps("id high", "hash") /\ idHi' = id \div Byte
    /\ UNCHANGED <<resets, presses, coinVars, flag, id, used, again, cut, low, amount,
                   credited>>

\* The code is on the display.
generateHash ==
    /\ Steps("hash", "clear")
    /\ Calls(print(Code) \o EndOfLine)
    /\ credited' = credited + amount
    /\ used' = used \cup {id} /\ again' = (again \/ id \in used)
    /\ id' = 0 /\ amount' = 0
    /\ UNCHANGED <<resets, presses, coinVars, flag, idLo, idHi, cut, low>>

ClearSum_Forgotten == UNCHANGED <<count, low>>

\* coinCount = 0, its two bytes in the order the compiler chose.
ClearSum ==
    IF pc = "clear"
    THEN \/ count' = [count EXCEPT !.lo = 0] /\ low' = 0
         \/ count' = [count EXCEPT !.hi = 0] /\ low' = 1
    ELSE /\ count' = IF low = 1 THEN [count EXCEPT !.lo = 0] ELSE [count EXCEPT !.hi = 0]
         /\ low' = 0

Cleared ==
    /\ Quiet
    /\ Steps("clear", "clear high") \/ Steps("clear high", "held")
    /\ ClearSum
    /\ UNCHANGED <<resets, presses, coinRead, inserted, carried, idVars, amount, credited>>

Released ==
    /\ Steps("held", "loop") /\ Quiet
    /\ UNCHANGED <<resets, presses, coinVars, idVars, low, amount, credited>>

---------------------------------------------------------------------------
(* The EEPROM is all that stays.                                           *)
Reset ==
    /\ resets < Resets /\ resets' = resets + 1
    /\ LcdReset
    /\ pc' = "begin"
    /\ count' = Zero /\ coinRead' = FALSE /\ low' = 0 /\ amount' = 0 /\ id' = 0
    /\ cut' = (cut \/ (pc = "id high" /\ idHi # id \div Byte))
    /\ UNCHANGED <<presses, flag, idLo, idHi, inserted, credited, carried, used, again>>

Driving ==
    /\ Drive
    /\ UNCHANGED <<pc, resets, presses, coinVars, idVars, low, amount, credited>>

Next ==
    \/ coinInserted \/ setup \/ ShowSum \/ ReadLow \/ ReadHigh \/ Shown \/ Press
    \/ PressRead \/ FirstId \/ FetchId \/ getNextMessageID \/ generateHash
    \/ Cleared \/ Released \/ Driving \/ Reset

Spec == Init /\ [][Next]_vars

---------------------------------------------------------------------------
TypeOK ==
    /\ LcdType
    /\ count \in [lo : 0..(Byte - 1), hi : 0..(Byte - 1)]
    /\ low \in 0..(Byte - 1) /\ amount \in Nat
    /\ flag \in {0, 1} /\ idLo \in 0..(Byte - 1) /\ idHi \in 0..(Byte - 1)
    /\ id \in 0..(Byte * Byte - 1)

(* Whenever the driver has nothing more to send, the controller is in its   *)
(* 4-bit mode at the first half of a byte and shows what has been printed   *)
(* since begin(), wherever a reset of the board had left it.                *)
ShownIsMeant == TypeOK /\ (todo = <<>> /\ pc # "begin" => ~wire.e /\ chip = meant)

(* Codes are never worth more than the coins inserted, whenever the coins   *)
(* come and the power goes, unless a coin carried into the high byte while  *)
(* the loop was between the two bytes.                                      *)
NeverTooMuch ==
    carried \/ credited + (IF pc \in {"clear", "clear high"} THEN 0 ELSE Value(count)) <= inserted

(* No message id is in two codes, whenever the power goes, unless it went   *)
(* between the two writes of an id that carries into the high byte.         *)
IdsFresh == again => cut
=============================================================================
