--------------------------------- MODULE Lcd ---------------------------------
(***************************************************************************)
(* The LiquidCrystal class over an I2C port with four data lines, and the   *)
(* HD44780 it drives.  The controller takes a nibble, or what it finds on   *)
(* all eight lines while it is in its 8-bit mode, at every falling edge of  *)
(* E, and no reset of the board resets it: begin() has to bring it back     *)
(* from wherever it was left.                                               *)
(***************************************************************************)
EXTENDS Naturals, Sequences

CONSTANT Width      \* cells of a line that are looked at

ASSUME WidthAssumption == Width \in 1..40

VARIABLES
    todo,       \* the nibbles still to be sent
    wire,       \* E, RS and the data lines
    chip,       \* the controller
    meant       \* the controller as the calls since begin() would have it

lcdVars == <<todo, wire, chip, meant>>

None == 16      \* no first half is waiting
Blank == 32
Cells == (0..(Width - 1)) \cup (64..(63 + Width))

Bit(b, i) == (b \div i) % 2 = 1

---------------------------------------------------------------------------
(* The HD44780.                                                            *)
\* Its internal reset at power on.
PoweredOn ==
    [bits8 |-> TRUE, half |-> None, halfRs |-> FALSE, lines2 |-> FALSE, on |-> FALSE,
     inc |-> TRUE, shift |-> FALSE, moved |-> FALSE, cg |-> FALSE, at |-> 0,
     cells |-> [a \in Cells |-> Blank]]

Next1(c) == (c.at + (IF c.inc THEN 1 ELSE 127)) % 128

Data(c, b) ==
    IF c.cg THEN c
    ELSE [c EXCEPT !.cells = [a \in Cells |-> IF a = c.at THEN b ELSE c.cells[a]],
                   !.at = Next1(c), !.moved = @ \/ c.shift]

Command(c, b) ==
    CASE b >= 128 -> [c EXCEPT !.at = b - 128, !.cg = FALSE]
      [] b \in 64..127 -> [c EXCEPT !.cg = TRUE]
      [] b \in 32..63 -> [c EXCEPT !.bits8 = Bit(b, 16), !.lines2 = Bit(b, 8)]
      [] b \in 16..31 -> IF Bit(b, 8) THEN [c EXCEPT !.moved = TRUE]
                         ELSE [c EXCEPT !.at = (@ + (IF Bit(b, 4) THEN 1 ELSE 127)) % 128]
      [] b \in 8..15 -> [c EXCEPT !.on = Bit(b, 4)]
      [] b \in 4..7 -> [c EXCEPT !.inc = Bit(b, 2), !.shift = Bit(b, 1)]
      [] b \in 2..3 -> [c EXCEPT !.at = 0, !.cg = FALSE, !.moved = FALSE]
      [] b = 1 -> [c EXCEPT !.at = 0, !.cg = FALSE, !.moved = FALSE, !.inc = TRUE,
                            !.cells = [a \in Cells |-> Blank]]
      [] OTHER -> c

Executed(c, b, rs) == IF rs THEN Data(c, b) ELSE Command(c, b)

(* A falling edge of E: of a byte in 8-bit mode the four lines that are not *)
(* connected may be anything; halves of two bytes may differ in RS.         *)
Latched(n, rs) ==
    IF chip.bits8 THEN {Executed(chip, 16 * n + low, rs) : low \in 0..15}
    ELSE IF chip.half = None THEN {[chip EXCEPT !.half = n, !.halfRs = rs]}
    ELSE {Executed([chip EXCEPT !.half = None, !.halfRs = FALSE], 16 * chip.half + n, r) :
              r \in {rs, chip.halfRs}}

---------------------------------------------------------------------------
(* The class.                                                              *)
Nibble(n, rs) == [n |-> n, rs |-> rs]

FourBits(n) == <<Nibble(n, FALSE)>>

send(b, rs) == <<Nibble(b \div 16, rs), Nibble(b % 16, rs)>>

command(b) == send(b, FALSE)

write(b) == send(b, TRUE)

\* A word to the port with E high, then the same with E low.
EnableUp ==
    /\ todo # <<>> /\ ~wire.e
    /\ wire' = [e |-> TRUE, n |-> Head(todo).n, rs |-> Head(todo).rs]
    /\ UNCHANGED <<todo, chip, meant>>

EnableDown ==
    /\ todo # <<>> /\ wire.e
    /\ wire' = [wire EXCEPT !.e = FALSE]
    /\ chip' \in Latched(wire.n, wire.rs)
    /\ todo' = Tail(todo)
    /\ UNCHANGED meant

Drive == EnableUp \/ EnableDown

Attention_Twice == FourBits(3) \o FourBits(3) \o FourBits(2)

\* Three times 8-bit mode, the first two perhaps the end of something else.
Attention == FourBits(3) \o FourBits(3) \o FourBits(3) \o FourBits(2)

FunctionSet == 40       \* four bits, two lines
DisplayOn == 12
EntryMode == 6          \* to the right, without a shift

CLEAR == <<[b |-> 1, rs |-> FALSE]>>
HOME == <<[b |-> 2, rs |-> FALSE]>>
print(b) == <<[b |-> b, rs |-> TRUE]>>
setCursor(col, row) == <<[b |-> 128 + col + 64 * row, rs |-> FALSE]>>

Flattened(calls) ==
    LET f[i \in 0..Len(calls)] ==
          IF i = 0 THEN <<>> ELSE f[i - 1] \o send(calls[i].b, calls[i].rs)
    IN f[Len(calls)]

\* What the controller would be after the calls, had it got them whole.
After(c, calls) ==
    LET f[i \in 0..Len(calls)] ==
          IF i = 0 THEN c ELSE Executed(f[i - 1], calls[i].b, calls[i].rs)
    IN f[Len(calls)]

Ready ==
    [PoweredOn EXCEPT !.bits8 = FALSE, !.lines2 = TRUE, !.on = TRUE]

(* init() sets the port to 0, which may be the falling edge of an E that a  *)
(* reset left high; then LCD::begin.                                        *)
begin ==
    /\ wire' = [e |-> FALSE, n |-> 0, rs |-> FALSE]
    /\ \/ ~wire.e /\ chip' = chip
       \/ wire.e /\ \E n \in {0, wire.n}, rs \in {FALSE, wire.rs} : chip' \in Latched(n, rs)
    /\ todo' = Attention \o command(FunctionSet) \o command(DisplayOn)
               \o Flattened(CLEAR) \o command(EntryMode)
    /\ meant' = Ready

Calls(calls) ==
    /\ todo = <<>>
    /\ todo' = Flattened(calls)
    /\ meant' = After(meant, calls)
    /\ UNCHANGED <<wire, chip>>

(* The board starts anew in the middle of anything: the port and the        *)
(* controller stay as they are, or lose their power too.                    *)
LcdReset ==
    /\ todo' = <<>>
    /\ \/ UNCHANGED <<wire, chip>>
       \/ wire' = [e |-> FALSE, n |-> 15, rs |-> TRUE] /\ chip' = PoweredOn
    /\ UNCHANGED meant

LcdInit ==
    /\ todo = <<>> /\ wire = [e |-> FALSE, n |-> 15, rs |-> TRUE]
    /\ chip = PoweredOn /\ meant = PoweredOn

LcdType ==
    /\ wire \in [e : BOOLEAN, n : 0..15, rs : BOOLEAN]
    /\ chip.half \in 0..None /\ chip.at \in 0..127
    /\ chip.cells \in [Cells -> 0..255]
    /\ \A i \in 1..Len(todo) : todo[i] \in [n : 0..15, rs : BOOLEAN]
=============================================================================
