---------------------------- MODULE SerialLookup ----------------------------
(***************************************************************************)
(* The first generation of devices reaches the server through a modem on    *)
(* the serial port: a line out, a busy pin, and a line back some time       *)
(* later, if at all.  Nothing says which line an answer is for.  Each       *)
(* sketch has its copy of the lookup over that port and of the table of     *)
(* members; V1Door, V1Node and V1First have what is their own.              *)
(***************************************************************************)
EXTENDS Naturals, Sequences, SequencesExt

CONSTANTS
    Tags,
    MaxMembers,     \* db.limit()
    TxRoom,         \* lines that are on their way to the modem
    RxRoom,         \* answers the receive buffer holds
    Mishaps         \* failures of the modem and the power, presses of the button (a bound)

ASSUME LookupAssumption ==
    /\ "none" \notin Tags
    /\ {MaxMembers, TxRoom, RxRoom} \subseteq Nat \ {0} /\ Mishaps \in Nat

VARIABLES
    ready,          \* ethernetReadyPin
    modem,          \* the line the modem is busy with
    tx, serial,     \* lines on the way out; answers received
    mishaps,
    pc, tag,        \* where the sketch is, and the tag it read
    db,             \* the table of members
    success,        \* the result of the lookup: "no", "table" or "server"
    answer,         \* the answer it comes from
    outstanding,    \* another line was on its way when the tag was sent
    networkSetup

modemVars == <<ready, modem, tx, serial, mishaps>>
lookupVars == <<pc, tag, db, success, answer, outstanding, networkSetup>>

\* "other": the address, a report or the end of a session, none about a tag.
Line(what, t) == [what |-> what, tag |-> t]
NoLine == Line("none", "none")
NoAnswer == [line |-> NoLine, valid |-> FALSE]

Busy == modem # NoLine

LookupInit ==
    /\ ready \in BOOLEAN /\ modem = NoLine /\ tx = <<>> /\ serial = <<>>
    /\ mishaps = 0
    /\ pc = "loop" /\ tag = "none" /\ db = <<>>
    /\ success = "no" /\ answer = NoAnswer /\ outstanding = FALSE
    /\ networkSetup = FALSE

---------------------------------------------------------------------------
(* The modem and the server.                                               *)
Mishap == mishaps < Mishaps /\ mishaps' = mishaps + 1

\* A modem that is not on the network loses what it is sent.
Takes ==
    /\ tx # <<>> /\ ~Busy
    /\ tx' = Tail(tx)
    /\ modem' = IF ready THEN Head(tx) ELSE NoLine
    /\ UNCHANGED <<ready, serial, mishaps>>

(* An answer says whether the tag is valid, as the server has it that day;  *)
(* one to another line does not, and the sketches read that through NULL.   *)
Answers ==
    /\ Busy
    /\ modem' = NoLine
    /\ \E v \in BOOLEAN :
          serial' = IF Len(serial) < RxRoom
                    THEN Append(serial, [line |-> modem, valid |-> v]) ELSE serial
    /\ UNCHANGED <<ready, tx, mishaps>>

GivesUp ==
    /\ Busy /\ Mishap
    /\ modem' = NoLine
    /\ UNCHANGED <<ready, tx, serial>>

ReadyChanges ==
    /\ ready' = ~ready
    /\ IF ready THEN Mishap ELSE UNCHANGED mishaps
    /\ UNCHANGED <<modem, tx, serial>>

ModemStep == Takes \/ Answers
Environment == ModemStep \/ GivesUp \/ ReadyChanges

---------------------------------------------------------------------------
(* println() returns before the line is out; the modem keeps a few lines.  *)
Println(line) == tx' = IF Len(tx) < TxRoom THEN Append(tx, line) ELSE tx

clearBuffer_Forgotten == UNCHANGED serial

clearBuffer == serial' = <<>>

(* setupNetwork waits as long as the modem is busy.                         *)
setupNetwork ==
    /\ pc = "loop" /\ ~networkSetup /\ ready /\ ~Busy
    /\ clearBuffer
    /\ Println(Line("other", "none"))
    /\ networkSetup' = TRUE
    /\ UNCHANGED <<ready, modem, mishaps, pc, tag, db, success, answer, outstanding>>

\* checkConfigure, when there is nothing to be set up.
Configured == networkSetup \/ ~ready

InTable(t) == \E i \in 1..Len(db) : db[i] = t

searchLocalDB(t) == success' = (IF InTable(t) THEN "table" ELSE "no") /\ answer' = NoAnswer

\* searchRemoteDB up to the wait.
Transmit(t) ==
    /\ clearBuffer
    /\ Println(Line("lookup", t))
    /\ outstanding' = (Busy \/ tx # <<>>)
    /\ UNCHANGED <<ready, modem, mishaps>>

\* waitForResponse: not busy, then half a second more.
Waited ==
    /\ pc = "wait" /\ ~Busy
    /\ pc' = "receive"
    /\ UNCHANGED <<modemVars, tag, db, success, answer, outstanding, networkSetup>>

\* Or the wait is too long, and the lookup fails.
WaitFails ==
    /\ pc = "wait" /\ Busy
    /\ success' = "no" /\ answer' = NoAnswer
    /\ pc' = "decide"
    /\ UNCHANGED <<modemVars, tag, db, outstanding, networkSetup>>

(* The table after an answer: the record goes or is added, and what follows *)
(* a record that goes is not looked at.                                     *)
Corrected(t, valid) ==
    LET i == SelectInSeq(db, LAMBDA m : m = t) IN
    IF i # 0 THEN (IF valid THEN db ELSE RemoveAt(db, i))
    ELSE IF valid /\ Len(db) < MaxMembers THEN Append(db, t) ELSE db

\* receiveString and what is made of the first answer in the buffer.
Received ==
    /\ pc = "receive" /\ serial # <<>>
    /\ answer' = Head(serial)
    /\ serial' = <<>>
    /\ success' = IF answer'.valid THEN "server" ELSE "no"
    /\ pc' = "decide"
    /\ UNCHANGED <<ready, modem, tx, mishaps, tag, outstanding, networkSetup>>

\* A pass is over: what it found out is local to it.
Forgotten ==
    tag' = "none" /\ success' = "no" /\ answer' = NoAnswer /\ outstanding' = FALSE

---------------------------------------------------------------------------
(* Whom the server lets in is let in by the answer to his own tag, unless   *)
(* another line was still on its way when that was sent: an answer that     *)
(* came late is never taken for the next tag once it has come.              *)
AnswerIsOwn ==
    success = "server" /\ ~outstanding => answer.line.tag = tag /\ answer.line.what = "lookup"
=============================================================================
