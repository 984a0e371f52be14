-------------------------------- MODULE AJson --------------------------------
(***************************************************************************)
(* aJSON.cpp: the parser and the look-up of a name, as operators on a         *)
(* text (a sequence of one-character strings, "NL" for any control          *)
(* character) and on items.  An item owns its children; a string fits the   *)
(* buffer of stringbuffer.c, and an integer the int of the processor.       *)
(***************************************************************************)
EXTENDS Integers, Sequences, SequencesExt

Digits == {"0", "1", "2", "3", "4", "5", "6", "7", "8", "9"}
Blanks == {" ", "NL"}          \* characters up to 32
Control == {"NL"}              \* characters below 32
EOF == "EOF"

Item(type, value, children) ==
    [type |-> type, name |-> <<>>, value |-> value, children |-> children]

\* What a parse returns: the item and the place of the next character.
Parsed(item, next) == [ok |-> TRUE, item |-> item, next |-> next]
Failed == [ok |-> FALSE]

getch(t, i) == IF i <= Len(t) THEN t[i] ELSE EOF

RECURSIVE skip(_, _)
skip(t, i) == IF getch(t, i) \in Blanks THEN skip(t, i + 1) ELSE i

---------------------------------------------------------------------------
(* parseString.  An escape that is not understood is left out; a control    *)
(* character ends the string as a quote does.                               *)
Special == [b |-> "\\b", f |-> "\\f", n |-> "\\n", r |-> "\\r", t |-> "\\t"]

Unescaped(c) ==
    IF c \in DOMAIN Special THEN <<Special[c]>>
    ELSE IF c \in {"\\", "\"", "/"} THEN <<c>> ELSE <<>>

RECURSIVE StringFrom(_, _, _)
StringFrom(t, i, s) ==
    CASE getch(t, i) = EOF -> Failed
      [] getch(t, i) \in {"\""} \cup Control ->
            Parsed(Item("String", s, <<>>), i + 1)
      [] getch(t, i) = "\\" ->
            IF getch(t, i + 1) = EOF THEN Failed
            ELSE StringFrom(t, i + 2, s \o Unescaped(t[i + 1]))
      [] OTHER -> StringFrom(t, i + 1, Append(s, t[i]))

parseString(t, i) == IF getch(t, i) # "\"" THEN Failed ELSE StringFrom(t, i + 1, <<>>)

---------------------------------------------------------------------------
(* parseNumber.  An integer keeps its digits; a fraction takes one character *)
(* after its point whatever it is.                                          *)
RECURSIVE DigitsEnd(_, _)
DigitsEnd(t, i) == IF getch(t, i) \in Digits THEN DigitsEnd(t, i + 1) ELSE i

Fraction(t, i) ==
    IF getch(t, i) = "." THEN DigitsEnd(t, Min({i + 2, Len(t) + 1})) ELSE i

Exponent(t, i) ==
    IF getch(t, i) \notin {"e", "E"} THEN i
    ELSE DigitsEnd(t, IF getch(t, i + 1) \in {"+", "-"} THEN i + 2 ELSE i + 1)

parseNumber(t, i) ==
    LET first == IF getch(t, i) = "-" THEN i + 1 ELSE i
        whole == DigitsEnd(t, first)
        end   == Exponent(t, Fraction(t, whole))
    IN  IF getch(t, first) = EOF THEN Failed
        ELSE IF end = whole
        THEN Parsed(Item("Int", SubSeq(t, i, whole - 1), <<>>), whole)
        ELSE Parsed(Item("Float", SubSeq(t, i, end - 1), <<>>), end)

---------------------------------------------------------------------------
Literals == [n |-> <<"n", "u", "l", "l">>, t |-> <<"t", "r", "u", "e">>,
             f |-> <<"f", "a", "l", "s", "e">>]
LiteralType == [n |-> "NULL", t |-> "True", f |-> "False"]

parseLiteral(t, i) ==
    LET c == getch(t, i)
        w == Literals[c]
        end == i + Len(w)
    IN  IF end - 1 <= Len(t) /\ SubSeq(t, i, end - 1) = w
        THEN Parsed(Item(LiteralType[c], <<>>, <<>>), end) ELSE Failed

\* A member ends with a comma, after which another follows, or the bracket.
RECURSIVE parseValue(_, _), Elements(_, _, _), Members(_, _, _)

Elements(t, i, items) ==
    LET v == parseValue(t, i)
        j == skip(t, v.next)
    IN  IF ~v.ok THEN Failed
        ELSE CASE getch(t, j) = "," -> Elements(t, j + 1, Append(items, v.item))
               [] getch(t, j) = "]" -> Parsed(Item("Array", <<>>, Append(items, v.item)), j + 1)
               [] OTHER -> Failed

parseArray(t, i) ==
    LET j == skip(t, i + 1)
    IN  IF getch(t, j) = "]" THEN Parsed(Item("Array", <<>>, <<>>), j + 1)
        ELSE Elements(t, j, <<>>)

Members(t, i, items) ==
    LET k == parseString(t, skip(t, i))
        c == skip(t, k.next)
        v == parseValue(t, c + 1)
        j == skip(t, v.next)
        m == [v.item EXCEPT !.name = k.item.value]
    IN  IF ~k.ok THEN Failed
        ELSE IF getch(t, c) # ":" THEN Failed
        ELSE IF ~v.ok THEN Failed
        ELSE CASE getch(t, j) = "," -> Members(t, j + 1, Append(items, m))
               [] getch(t, j) = "}" -> Parsed(Item("Object", <<>>, Append(items, m)), j + 1)
               [] OTHER -> Failed

parseObject(t, i) ==
    LET j == skip(t, i + 1)
    IN  IF getch(t, j) = "}" THEN Parsed(Item("Object", <<>>, <<>>), j + 1)
        ELSE Members(t, j, <<>>)

parseValue(t, start) ==
    LET i == skip(t, start)
        c == getch(t, i)
    IN  CASE c = "\"" -> parseString(t, i)
          [] c \in Digits \cup {"-"} -> parseNumber(t, i)
          [] c = "[" -> parseArray(t, i)
          [] c = "{" -> parseObject(t, i)
          [] c \in DOMAIN Literals -> parseLiteral(t, i)
          [] OTHER -> Failed

\* What follows the value is left in the stream.
parse(t) == parseValue(t, 1)

---------------------------------------------------------------------------
(* The items of an object by name.  Names are compared without regard to    *)
(* case; those of a text here are all in one.                               *)
None == Item("None", <<>>, <<>>)

getObjectItem(object, name) ==
    LET same == {k \in DOMAIN object.children : object.children[k].name = name}
    IN  IF same = {} THEN None ELSE object.children[Min(same)]
=============================================================================
