------------------------------- MODULE V1Proofs -------------------------------
(***************************************************************************)
(* That an answer is taken for the tag it is an answer to, in each of the   *)
(* three sketches, that a node is on only for a tag that was let in, and    *)
(* that the door's log has whoever came in until a line about him is out,   *)
(* for every set of tags, room in the buffers, size of the tables and       *)
(* number of failures.                                                      *)
(***************************************************************************)
EXTENDS V1Board, SequenceTheorems, FiniteSetTheorems, TLAPS

Lines == [what : {"none", "other", "lookup", "delayed"}, tag : Tags \cup {"none"}]
AnswerSet == [line : Lines, valid : BOOLEAN]

LookupType ==
    /\ modem \in Lines /\ tx \in Seq(Lines) /\ serial \in Seq(AnswerSet)
    /\ outstanding \in BOOLEAN /\ tag \in Tags \cup {"none"}

\* While an answer is waited for, and no line was out before, there is no line
\* and no answer but those for the tag.
Mine(t) == Line("lookup", t)

OnlyMine ==
    pc \in {"wait", "receive"} /\ ~outstanding =>
        /\ modem \in {NoLine, Mine(tag)}
        /\ \A i \in 1..Len(tx) : tx[i] = Mine(tag)
        /\ \A i \in 1..Len(serial) : serial[i].line = Mine(tag)

AnswerInv == LookupType /\ OnlyMine /\ AnswerIsOwn

\* What the door's upload sends and deletes is of its log.
LogType ==
    /\ log \in Seq(Tags) /\ recno \in Nat \ {0}
    /\ sketch = "door" /\ pc = "uploaded" => recno <= Len(log)

---------------------------------------------------------------------------
LEMMA Nothing == \A S : <<>> \in Seq(S)
  OBVIOUS

LEMMA LineType ==
    /\ NoLine \in Lines /\ Line("other", "none") \in Lines
    /\ \A t \in Tags : Mine(t) \in Lines
  BY DEF NoLine, Line, Lines, Mine

\* What println leaves in the buffer.
LEMMA PrintlnIs ==
    ASSUME LookupType, NEW l \in Lines, Println(l)
    PROVE  /\ tx' \in Seq(Lines)
           /\ tx = <<>> => \A i \in 1..Len(tx') : tx'[i] = l
  BY DEF Println, LookupType

\* A step that neither looks up nor answers.
LEMMA Elsewhere ==
    ASSUME AnswerInv, LookupType', pc' \notin {"wait", "receive"},
           \/ success' # "server"
           \/ UNCHANGED <<success, answer, outstanding, tag>>
    PROVE  AnswerInv'
  BY DEF AnswerInv, OnlyMine, AnswerIsOwn

LEMMA EnvironmentKeeps ==
    ASSUME AnswerInv, Environment, UNCHANGED lookupVars
    PROVE  AnswerInv'
  <1> USE DEF AnswerInv, lookupVars
  <1>1. CASE Takes
    <2>1. tx # <<>> /\ tx \in Seq(Lines) /\ tx' = Tail(tx) /\ Len(tx) > 0
      BY <1>1 DEF Takes, LookupType
    <2>2. /\ tx' \in Seq(Lines) /\ Len(tx') = Len(tx) - 1
          /\ \A i \in 1..Len(tx') : tx'[i] = tx[i + 1] /\ i + 1 \in 1..Len(tx)
          /\ Head(tx) = tx[1] /\ tx[1] \in Lines
      BY <2>1
    <2>3. LookupType'
      BY <1>1, <2>2, LineType DEF Takes, LookupType
    <2>4. OnlyMine'
      <3> SUFFICES ASSUME pc \in {"wait", "receive"}, ~outstanding
                   PROVE  /\ modem' \in {NoLine, Mine(tag)}
                          /\ \A i \in 1..Len(tx') : tx'[i] = Mine(tag)
                          /\ \A i \in 1..Len(serial') : serial'[i].line = Mine(tag)
        BY DEF OnlyMine
      <3>1. \A i \in 1..Len(tx) : tx[i] = Mine(tag)
        BY DEF OnlyMine
      <3>2. 1 \in 1..Len(tx)
        BY <2>1
      <3> QED BY <1>1, <2>1, <2>2, <3>1, <3>2 DEF Takes, OnlyMine
    <2> QED BY <1>1, <2>3, <2>4 DEF AnswerIsOwn
  <1>2. CASE Answers
    <2>1. PICK v \in BOOLEAN :
             serial' = IF Len(serial) < RxRoom
                       THEN Append(serial, [line |-> modem, valid |-> v]) ELSE serial
      BY <1>2 DEF Answers
    <2>2. [line |-> modem, valid |-> v] \in AnswerSet
      BY DEF LookupType, AnswerSet
    <2>3. serial' \in Seq(AnswerSet)
      BY <2>1, <2>2 DEF LookupType
    <2>4. LookupType'
      BY <1>2, <2>3, LineType DEF Answers, LookupType
    <2>5. OnlyMine'
      <3> SUFFICES ASSUME pc \in {"wait", "receive"}, ~outstanding
                   PROVE  \A i \in 1..Len(serial') : serial'[i].line = Mine(tag)
        BY <1>2 DEF OnlyMine, Answers
      <3>1. modem = Mine(tag)
        BY <1>2 DEF OnlyMine, Answers, Busy
      <3> QED BY <2>1, <2>2, <3>1 DEF OnlyMine, LookupType
    <2> QED BY <1>2, <2>4, <2>5 DEF AnswerIsOwn
  <1>3. CASE GivesUp
    BY <1>3, LineType DEF GivesUp, OnlyMine, LookupType, AnswerIsOwn
  <1>4. CASE ReadyChanges
    BY <1>4 DEF ReadyChanges, OnlyMine, LookupType, AnswerIsOwn
  <1> QED BY <1>1, <1>2, <1>3, <1>4 DEF Environment, ModemStep

\* A tag is sent: the buffer is empty, and nothing is out but what outstanding says.
LEMMA TransmitKeeps ==
    ASSUME AnswerInv, NEW t \in Tags, tag' = t, Transmit(t), success' = "no"
    PROVE  AnswerInv'
  <1> USE DEF AnswerInv
  <1>1. LookupType'
    <2>1. tx' \in Seq(Lines)
      BY LineType, PrintlnIs DEF Transmit, Mine
    <2> QED BY <2>1 DEF Transmit, clearBuffer, LookupType, Busy
  <1>2. OnlyMine'
    <2> SUFFICES ASSUME ~outstanding' PROVE
            /\ modem' \in {NoLine, Mine(t)}
            /\ \A i \in 1..Len(tx') : tx'[i] = Mine(t)
            /\ \A i \in 1..Len(serial') : serial'[i].line = Mine(t)
      BY DEF OnlyMine
    <2>1. ~Busy /\ tx = <<>>
      BY DEF Transmit
    <2>2. \A i \in 1..Len(tx') : tx'[i] = Mine(t)
      BY <2>1, LineType, PrintlnIs DEF Transmit, Mine
    <2>3. serial' = <<>> /\ modem' = NoLine
      BY <2>1 DEF Transmit, clearBuffer, Busy
    <2> QED BY <2>2, <2>3
  <1> QED BY <1>1, <1>2 DEF AnswerIsOwn

LEMMA WaitedKeeps == ASSUME AnswerInv, Waited PROVE AnswerInv'
  BY DEF AnswerInv, Waited, OnlyMine, LookupType, AnswerIsOwn, modemVars

LEMMA WaitFailsKeeps == ASSUME AnswerInv, WaitFails PROVE AnswerInv'
  BY DEF AnswerInv, WaitFails, OnlyMine, LookupType, AnswerIsOwn, modemVars

LEMMA ReceivedKeeps == ASSUME AnswerInv, Received PROVE AnswerInv'
  <1>1. serial \in Seq(AnswerSet) /\ serial # <<>>
    BY DEF AnswerInv, LookupType, Received
  <1>2. Head(serial) = serial[1] /\ 1 \in 1..Len(serial)
    BY <1>1
  <1>3. LookupType'
    BY DEF AnswerInv, LookupType, Received
  <1>4. AnswerIsOwn'
    <2> SUFFICES ASSUME ~outstanding
                 PROVE  answer'.line.tag = tag /\ answer'.line.what = "lookup"
      BY DEF AnswerIsOwn, Received
    <2>1. serial[1].line = Mine(tag)
      BY <1>2 DEF AnswerInv, OnlyMine, Received
    <2> QED BY <1>2, <2>1 DEF Received, Mine, Line
  <1> QED BY <1>3, <1>4 DEF AnswerInv, OnlyMine, Received

LEMMA SetupKeeps == ASSUME AnswerInv, setupNetwork PROVE AnswerInv'
  <1>1. tx' \in Seq(Lines)
    BY LineType, PrintlnIs DEF AnswerInv, setupNetwork
  <1>2. LookupType'
    BY <1>1 DEF AnswerInv, LookupType, setupNetwork, clearBuffer
  <1> QED BY <1>2, Elsewhere DEF setupNetwork

\* A pass that is over has forgotten the answer.
LEMMA ForgottenType == ASSUME Forgotten PROVE
    tag' \in Tags \cup {"none"} /\ outstanding' \in BOOLEAN /\ success' # "server"
  BY DEF Forgotten

\* The lookup of the door's sketch is that of SerialLookup.
LEMMA DoorLookup ==
    /\ \A t \in Tags : Door!Transmit(t) <=> Transmit(t)
    /\ \A l \in Lines : Door!Println(l) <=> Println(l)
    /\ Door!Waited <=> Waited
    /\ Door!WaitFails <=> WaitFails
    /\ Door!Received <=> Received
    /\ Door!setupNetwork <=> setupNetwork
    /\ Door!Environment <=> Environment
    /\ Door!Forgotten <=> Forgotten
    /\ \A t \in Tags : Door!searchLocalDB(t) => success' # "server"
  <1>1. \A w, t : Door!Line(w, t) = Line(w, t)
    BY DEF Door!Line, Line
  <1> QED BY <1>1 DEF Door!Transmit, Transmit, Door!Println, Println, Door!Waited, Waited,
        Door!WaitFails, WaitFails, Door!Received, Received, Door!setupNetwork, setupNetwork,
        Door!Environment, Environment, Door!Forgotten, Forgotten, Door!clearBuffer, clearBuffer,
        Door!Line, Line, Door!NoLine, NoLine, Door!NoAnswer, NoAnswer,
        Door!Busy, Busy, Door!modemVars, modemVars, Door!ModemStep, ModemStep,
        Door!Takes, Takes, Door!Answers, Answers, Door!GivesUp, GivesUp,
        Door!ReadyChanges, ReadyChanges, Door!Mishap, Mishap,
        Door!searchLocalDB

\* The lookup of the node's sketch is that of SerialLookup.
LEMMA NodeLookup ==
    /\ \A t \in Tags : Node!Transmit(t) <=> Transmit(t)
    /\ \A l \in Lines : Node!Println(l) <=> Println(l)
    /\ Node!Waited <=> Waited
    /\ Node!WaitFails <=> WaitFails
    /\ Node!Received <=> Received
    /\ Node!setupNetwork <=> setupNetwork
    /\ Node!Environment <=> Environment
    /\ Node!Forgotten <=> Forgotten
    /\ \A t \in Tags : Node!searchLocalDB(t) => success' # "server"
  <1>1. \A w, t : Node!Line(w, t) = Line(w, t)
    BY DEF Node!Line, Line
  <1> QED BY <1>1 DEF Node!Transmit, Transmit, Node!Println, Println, Node!Waited, Waited,
        Node!WaitFails, WaitFails, Node!Received, Received, Node!setupNetwork, setupNetwork,
        Node!Environment, Environment, Node!Forgotten, Forgotten, Node!clearBuffer, clearBuffer,
        Node!Line, Line, Node!NoLine, NoLine, Node!NoAnswer, NoAnswer,
        Node!Busy, Busy, Node!modemVars, modemVars, Node!ModemStep, ModemStep,
        Node!Takes, Takes, Node!Answers, Answers, Node!GivesUp, GivesUp,
        Node!ReadyChanges, ReadyChanges, Node!Mishap, Mishap,
        Node!searchLocalDB

\* The lookup of the first's sketch is that of SerialLookup.
LEMMA FirstLookup ==
    /\ \A t \in Tags : First!Transmit(t) <=> Transmit(t)
    /\ \A l \in Lines : First!Println(l) <=> Println(l)
    /\ First!Waited <=> Waited
    /\ First!Received <=> Received
    /\ First!setupNetwork <=> setupNetwork
    /\ First!Environment <=> Environment
    /\ First!Forgotten <=> Forgotten
  <1>1. \A w, t : First!Line(w, t) = Line(w, t)
    BY DEF First!Line, Line
  <1> QED BY <1>1 DEF First!Transmit, Transmit, First!Println, Println, First!Waited, Waited,
        First!Received, Received, First!setupNetwork, setupNetwork, First!Environment, Environment,
        First!Forgotten, Forgotten, First!clearBuffer, clearBuffer, First!Line, Line,
        First!NoLine, NoLine, First!NoAnswer, NoAnswer, First!Busy, Busy,
        First!modemVars, modemVars, First!ModemStep, ModemStep, First!Takes, Takes,
        First!Answers, Answers, First!GivesUp, GivesUp, First!ReadyChanges, ReadyChanges,
        First!Mishap, Mishap

---------------------------------------------------------------------------
LEMMA DoorKeeps == ASSUME AnswerInv, LogType, Door!DoorNext PROVE AnswerInv'
  <1> USE DEF AnswerInv
  <1>1. CASE Door!setupNetwork
    BY <1>1, DoorLookup, SetupKeeps
  <1>2. CASE Door!Report
    <2>1. tx' \in Seq(Lines)
      <3>1. CASE UNCHANGED tx
        BY <3>1 DEF LookupType
      <3>2. CASE Door!Println(Line("other", "none"))
        BY <3>2, LineType, DoorLookup, PrintlnIs
      <3> QED BY <1>2, <3>1, <3>2 DEF Door!Report, Door!Line, Line
    <2>2. LookupType'
      BY <1>2, <2>1 DEF Door!Report, LookupType
    <2> QED BY <1>2, <2>2, Elsewhere DEF Door!Report
  <1>3. CASE Door!NoTag
    BY <1>3, Elsewhere DEF Door!NoTag, Door!modemVars, LookupType
  <1>4. CASE Door!ReadOnline
    BY <1>4, DoorLookup, TransmitKeeps DEF Door!ReadOnline
  <1>5. CASE Door!ReadOffline
    <2>1. PICK t \in Tags : tag' = t /\ Door!searchLocalDB(t)
      BY <1>5 DEF Door!ReadOffline
    <2>2. LookupType'
      BY <1>5, <2>1 DEF Door!ReadOffline, Door!modemVars, LookupType
    <2> QED BY <1>5, <2>1, <2>2, DoorLookup, Elsewhere DEF Door!ReadOffline
  <1>6. CASE Door!DoorWaited
    BY <1>6, DoorLookup, WaitedKeeps DEF Door!DoorWaited
  <1>7. CASE Door!DoorWaitFails
    BY <1>7, DoorLookup, WaitFailsKeeps DEF Door!DoorWaitFails
  <1>8. CASE Door!DoorReceived
    BY <1>8, DoorLookup, ReceivedKeeps DEF Door!DoorReceived
  <1>9. CASE Door!NoData
    <2>1. LookupType'
      BY <1>9, LineType DEF Door!NoData, Door!NoLine, Door!Line, NoLine, Line, LookupType
    <2>2. success' # "server"
      BY <1>9 DEF Door!NoData, Door!searchLocalDB
    <2> QED BY <1>9, <2>1, <2>2, Elsewhere DEF Door!NoData
  <1>10. CASE Door!Decide
    <2>1. LookupType'
      BY <1>10, DoorLookup, ForgottenType DEF Door!Decide, Door!modemVars, LookupType
    <2> QED BY <1>10, <2>1, DoorLookup, ForgottenType, Elsewhere DEF Door!Decide
  <1>11. CASE Door!Relay
    BY <1>11, Elsewhere DEF Door!Relay, Door!modemVars, LookupType
  <1>12. CASE Door!Upload
    <2>1. tx' \in Seq(Lines)
      <3>1. CASE UNCHANGED tx
        BY <3>1 DEF LookupType
      <3>2. CASE recno <= Len(log) /\ Door!Println(Door!Line("delayed", log[recno]))
        <4>1. recno \in 1..Len(log)
          BY <3>2 DEF LogType
        <4>2. log[recno] \in Tags
          BY <4>1 DEF LogType
        <4>3. Door!Line("delayed", log[recno]) \in Lines
          BY <4>2 DEF Door!Line, Lines
        <4> QED BY <3>2, <4>3, DoorLookup, PrintlnIs
      <3> QED BY <1>12, <3>1, <3>2 DEF Door!Upload
    <2> QED BY <1>12, <2>1, Elsewhere DEF Door!Upload, LookupType
  <1>13. CASE Door!Uploaded \/ Door!UploadFails
    BY <1>13, Elsewhere DEF Door!Uploaded, Door!UploadFails, Door!modemVars, LookupType
  <1>14. CASE Door!Button
    BY <1>14, Elsewhere DEF Door!Button, LookupType
  <1>15. CASE Door!TimePasses
    BY <1>15 DEF Door!TimePasses, Door!modemVars, Door!lookupVars, OnlyMine, AnswerIsOwn,
                 LookupType
  <1>16. CASE Door!WatchdogRestart
    <2>1. LookupType'
      BY <1>16, Nothing, LineType DEF Door!WatchdogRestart, Door!NoLine, Door!Line, NoLine, Line,
                             LookupType
    <2> QED BY <1>16, <2>1, Elsewhere DEF Door!WatchdogRestart
  <1>17. CASE Door!Environment /\ UNCHANGED Door!lookupVars
    BY <1>17, DoorLookup, EnvironmentKeeps DEF Door!lookupVars, lookupVars
  <1> QED BY <1>1, <1>2, <1>3, <1>4, <1>5, <1>6, <1>7, <1>8, <1>9, <1>10, <1>11, <1>12,
             <1>13, <1>14, <1>15, <1>16, <1>17 DEF Door!DoorNext, Door!Loop

\* The log: an entry is appended, deleted under the index of the upload, or all are.
LEMMA LogKeeps == ASSUME LogType, DoorRuns, Door!DoorNext PROVE LogType'
  <1> USE DEF LogType, DoorRuns
  <1>1. CASE Door!ReadOffline
    <2>1. PICK t \in Tags : IF Door!InTable(t) THEN Door!appendRec(t) ELSE UNCHANGED log
      BY <1>1 DEF Door!ReadOffline
    <2>2. log' \in Seq(Tags)
      BY <2>1 DEF Door!appendRec
    <2> QED BY <1>1, <2>2 DEF Door!ReadOffline
  <1>2. CASE Door!Upload
    BY <1>2 DEF Door!Upload
  <1>3. CASE Door!Uploaded
    <2>1. log' = SubSeq(log, 1, recno - 1) \o SubSeq(log, recno + 1, Len(log))
      BY <1>3 DEF Door!Uploaded, Door!Deleted, Door!RemoveAt
    <2>2. recno \in 1..Len(log)
      BY <1>3 DEF Door!Uploaded
    <2>3. SubSeq(log, 1, recno - 1) \in Seq(Tags)
      BY <2>2, SubSeqProperties
    <2>4. SubSeq(log, recno + 1, Len(log)) \in Seq(Tags)
      BY <2>2, SubSeqProperties
    <2>5. log' \in Seq(Tags)
      BY <2>1, <2>3, <2>4, ConcatProperties
    <2> QED BY <1>3, <2>5 DEF Door!Uploaded
  <1>4. CASE Door!UploadFails
    BY <1>4 DEF Door!UploadFails
  <1>5. CASE Door!Button
    BY <1>5, Nothing DEF Door!Button, Door!Stays
  <1>6. CASE Door!TimePasses \/ Door!WatchdogRestart
    BY <1>6 DEF Door!TimePasses, Door!WatchdogRestart, Door!lookupVars
  <1>7. CASE Door!Environment /\ UNCHANGED <<Door!lookupVars, Door!doorVars>>
    BY <1>7 DEF Door!lookupVars, Door!doorVars
  <1>8. CASE UNCHANGED <<log, recno>> /\ pc' # "uploaded"
    BY <1>8
  <1> QED BY <1>1, <1>2, <1>3, <1>4, <1>5, <1>6, <1>7, <1>8
          DEF Door!DoorNext, Door!Loop, Door!Report, Door!NoTag, Door!ReadOnline,
              Door!DoorWaited, Door!DoorWaitFails, Door!DoorReceived, Door!NoData,
              Door!Decide, Door!Relay, Door!doorVars, Door!setupNetwork, Door!Waited,
              Door!WaitFails, Door!Received

LEMMA NodeKeeps == ASSUME AnswerInv, Node!NodeNext PROVE AnswerInv'
  <1> USE DEF AnswerInv
  <1>1. CASE Node!setupNetwork
    BY <1>1, NodeLookup, SetupKeeps
  <1>2. CASE Node!NothingRead
    BY <1>2, Elsewhere DEF Node!NothingRead, Node!modemVars, LookupType
  <1>3. CASE Node!ReadTag
    <2>1. PICK t \in Tags :
             /\ tag' = t
             /\ \/ Node!Transmit(t) /\ success' = "no"
                \/ /\ Node!searchLocalDB(t) /\ outstanding' = FALSE /\ pc' = "decide"
                   /\ UNCHANGED Node!modemVars
      BY <1>3 DEF Node!ReadTag
    <2>2. CASE Node!Transmit(t) /\ success' = "no"
      BY <2>1, <2>2, NodeLookup, TransmitKeeps
    <2>3. CASE /\ Node!searchLocalDB(t) /\ outstanding' = FALSE /\ pc' = "decide"
               /\ UNCHANGED Node!modemVars
      <3>1. LookupType'
        BY <2>1, <2>3 DEF Node!modemVars, LookupType
      <3> QED BY <2>1, <2>3, <3>1, NodeLookup, Elsewhere
    <2> QED BY <2>1, <2>2, <2>3
  <1>4. CASE Node!ReCheck
    <2>1. PICK t \in Tags :
             /\ tag' = t /\ Node!searchLocalDB(t)
             /\ UNCHANGED tx \/ Node!Println(Line("other", "none"))
      BY <1>4 DEF Node!ReCheck, Node!Line, Line
    <2>2. tx' \in Seq(Lines)
      BY <2>1, LineType, NodeLookup, PrintlnIs DEF LookupType
    <2>3. LookupType'
      BY <1>4, <2>1, <2>2 DEF Node!ReCheck, LookupType
    <2> QED BY <1>4, <2>1, <2>3, NodeLookup, Elsewhere DEF Node!ReCheck
  <1>5. CASE Node!NodeWaited
    BY <1>5, NodeLookup, WaitedKeeps DEF Node!NodeWaited
  <1>6. CASE Node!NodeWaitFails
    BY <1>6, NodeLookup, WaitFailsKeeps DEF Node!NodeWaitFails
  <1>7. CASE Node!NodeReceived
    BY <1>7, NodeLookup, ReceivedKeeps DEF Node!NodeReceived
  <1>8. CASE Node!NoData
    BY <1>8, Elsewhere DEF Node!NoData, Node!modemVars, LookupType
  <1>9. CASE Node!OpenDoor
    BY <1>9, Elsewhere DEF Node!OpenDoor, Node!modemVars, LookupType
  <1>10. CASE Node!CloseDoor \/ Node!SwitchOn
    <2>1. LookupType'
      BY <1>10, NodeLookup, ForgottenType
      DEF Node!CloseDoor, Node!SwitchOn, Node!modemVars, LookupType
    <2> QED BY <1>10, <2>1, NodeLookup, ForgottenType, Elsewhere
            DEF Node!CloseDoor, Node!SwitchOn
  <1>11. CASE Node!Timer
    BY <1>11, Elsewhere DEF Node!Timer, LookupType
  <1>12. CASE Node!SecondsPass
    BY <1>12 DEF Node!SecondsPass, Node!modemVars, Node!lookupVars, OnlyMine, AnswerIsOwn,
                 LookupType
  <1>13. CASE Node!PowerCycle
    <2>1. LookupType'
      BY <1>13, Nothing DEF Node!PowerCycle, LookupType
    <2> QED BY <1>13, <2>1, Elsewhere DEF Node!PowerCycle
  <1>14. CASE Node!Environment /\ UNCHANGED Node!lookupVars
    BY <1>14, NodeLookup, EnvironmentKeeps DEF Node!lookupVars, lookupVars
  <1> QED BY <1>1, <1>2, <1>3, <1>4, <1>5, <1>6, <1>7, <1>8, <1>9, <1>10, <1>11, <1>12,
             <1>13, <1>14 DEF Node!NodeNext, Node!Loop

LEMMA FirstKeeps == ASSUME AnswerInv, First!FirstNext PROVE AnswerInv'
  <1> USE DEF AnswerInv
  <1>1. CASE First!setupNetwork
    BY <1>1, FirstLookup, SetupKeeps
  <1>2. CASE First!ReadTag
    BY <1>2, FirstLookup, TransmitKeeps DEF First!ReadTag
  <1>3. CASE First!FirstWaited
    BY <1>3, FirstLookup, WaitedKeeps DEF First!FirstWaited
  <1>4. CASE First!FirstReceived
    BY <1>4, FirstLookup, ReceivedKeeps DEF First!FirstReceived
  <1>5. CASE First!NoData
    BY <1>5, Elsewhere DEF First!NoData, First!modemVars, LookupType
  <1>6. CASE First!resetDisplay
    <2>1. LookupType'
      BY <1>6, FirstLookup, ForgottenType DEF First!resetDisplay, First!modemVars, LookupType
    <2> QED BY <1>6, <2>1, FirstLookup, ForgottenType, Elsewhere DEF First!resetDisplay
  <1>7. CASE First!Environment /\ UNCHANGED First!lookupVars
    BY <1>7, FirstLookup, EnvironmentKeeps DEF First!lookupVars, lookupVars
  <1> QED BY <1>1, <1>2, <1>3, <1>4, <1>5, <1>6, <1>7 DEF First!FirstNext, First!Loop

---------------------------------------------------------------------------
LEMMA LogLeft == ASSUME LogType, UNCHANGED <<sketch, doorVars>>, sketch # "door" PROVE LogType'
  BY DEF LogType, doorVars

LEMMA AnswerStart == Init => AnswerInv /\ LogType
  <1> SUFFICES ASSUME Init PROVE AnswerInv /\ LogType
    OBVIOUS
  <1>1. LookupType
    BY Nothing, LineType DEF Init, LookupInit, LookupType
  <1> QED BY <1>1, Nothing, LookupAssumption
          DEF Init, LookupInit, AnswerInv, OnlyMine, AnswerIsOwn, LogType, Door!DoorInit

LEMMA AnswerNext == AnswerInv /\ LogType /\ [Next]_vars => (AnswerInv /\ LogType)'
  <1> SUFFICES ASSUME AnswerInv, LogType, [Next]_vars PROVE AnswerInv' /\ LogType'
    OBVIOUS
  <1>1. CASE DoorRuns /\ Door!DoorNext
    BY <1>1, DoorKeeps, LogKeeps
  <1>2. CASE NodeRuns /\ Node!NodeNext
    BY <1>2, NodeKeeps, LogLeft DEF NodeRuns
  <1>3. CASE FirstRuns /\ First!FirstNext
    BY <1>3, FirstKeeps, LogLeft DEF FirstRuns
  <1>4. CASE UNCHANGED vars
    BY <1>4 DEF vars, modemVars, lookupVars, doorVars, AnswerInv, LookupType, OnlyMine,
                AnswerIsOwn, LogType
  <1> QED BY <1>1, <1>2, <1>3, <1>4 DEF Next

\* Whom the server lets in is let in by the answer to his own tag, however late the
\* answers come and whichever sketch asks (Network.cpp 115-153 and the copies of
\* searchRemoteDB): clearBuffer before each line, and no second line meanwhile.
THEOREM AnswerIsOwnTheorem == Spec => []AnswerIsOwn
  <1>1. AnswerInv /\ LogType => AnswerIsOwn
    BY DEF AnswerInv
  <1> QED BY <1>1, AnswerStart, AnswerNext, PTL DEF Spec

---------------------------------------------------------------------------
(* The session of a node: whose tag it has was let in, also after the       *)
(* machine was switched off.                                                *)
SessionInv ==
    sketch = "node" =>
        /\ activeTagString \in known \cup {"none"}
        /\ systemActive => activeTagString \in known

LEMMA SessionStart == Init => SessionInv
  BY DEF Init, SessionInv, Node!NodeInit

LEMMA SessionNode == ASSUME SessionInv, sketch = "node", Node!NodeNext PROVE SessionInv'
  <1> USE DEF SessionInv
  <1>1. CASE Node!ReCheck
    <2>1. PICK t \in Tags :
             IF t = activeTagString
             THEN systemActive' = TRUE /\ UNCHANGED activeTagString
             ELSE systemActive' = FALSE /\ activeTagString' = "none"
      BY <1>1 DEF Node!ReCheck
    <2>2. t # "none"
      BY <2>1, LookupAssumption
    <2>3. UNCHANGED known
      BY <1>1 DEF Node!ReCheck
    <2> QED BY <2>1, <2>2, <2>3
  <1>2. CASE Node!OpenDoor
    BY <1>2 DEF Node!OpenDoor
  <1>3. CASE Node!CloseDoor
    BY <1>3 DEF Node!CloseDoor
  <1>4. CASE Node!SwitchOn
    BY <1>4 DEF Node!SwitchOn, Node!ActiveTag, Node!LetIn
  <1>5. CASE Node!Timer
    BY <1>5 DEF Node!Timer
  <1>6. CASE Node!SecondsPass
    BY <1>6 DEF Node!SecondsPass
  <1>7. CASE Node!PowerCycle
    BY <1>7 DEF Node!PowerCycle
  <1>8. CASE UNCHANGED Node!nodeVars
    BY <1>8 DEF Node!nodeVars
  <1> QED BY <1>1, <1>2, <1>3, <1>4, <1>5, <1>6, <1>7, <1>8
          DEF Node!NodeNext, Node!Loop, Node!NothingRead, Node!ReadTag, Node!NodeWaited,
              Node!NodeWaitFails, Node!NodeReceived, Node!NoData

LEMMA SessionNext == SessionInv /\ [Next]_vars => SessionInv'
  <1> SUFFICES ASSUME SessionInv, [Next]_vars PROVE SessionInv'
    OBVIOUS
  <1>1. CASE NodeRuns /\ Node!NodeNext
    BY <1>1, SessionNode DEF NodeRuns
  <1>2. CASE DoorRuns \/ FirstRuns
    BY <1>2 DEF DoorRuns, FirstRuns, SessionInv
  <1>3. CASE UNCHANGED vars
    BY <1>3 DEF vars, nodeVars, SessionInv
  <1> QED BY <1>1, <1>2, <1>3 DEF Next

\* A machine is on only for a tag the server or the table has let in since the node
\* was started (BB_Access_Control_2.ino 188-332), through any number of rechecks,
\* though a recheck asks neither and reCheck is never reset.
THEOREM ActiveIsKnownTheorem == Spec => []ActiveIsKnown
  <1>1. SessionInv => ActiveIsKnown
    BY DEF SessionInv, ActiveIsKnown, Node!ActiveIsKnown
  <1> QED BY <1>1, SessionStart, SessionNext, PTL DEF Spec

---------------------------------------------------------------------------
(* The log and the visits: between a line that is out and the deletion of   *)
(* its record there is one record of the tag to spare.                      *)
Positions(s, t) == {i \in 1..Len(s) : s[i] = t}

UnsentInv ==
    /\ unsent \in [Tags -> Nat]
    /\ NothingUnsent
    /\ sketch = "door" /\ pc = "uploaded" =>
          unsent[log[recno]] < Cardinality(Records(log[recno]))

LEMMA PositionsType ==
    ASSUME NEW s \in Seq(Tags), NEW t
    PROVE  IsFiniteSet(Positions(s, t)) /\ Cardinality(Positions(s, t)) \in Nat
  <1>1. Len(s) \in Nat /\ IsFiniteSet(1..Len(s))
    BY FS_Interval
  <1>2. Positions(s, t) \in SUBSET (1..Len(s))
    BY DEF Positions
  <1>3. IsFiniteSet(Positions(s, t))
    BY <1>1, <1>2, FS_Subset
  <1> QED BY <1>3, FS_CardinalityType

\* A record more is a position more of its tag.
LEMMA PositionsAppended ==
    ASSUME NEW s \in Seq(Tags), NEW x \in Tags, NEW t
    PROVE  Cardinality(Positions(Append(s, x), t)) =
               IF x = t THEN Cardinality(Positions(s, t)) + 1 ELSE Cardinality(Positions(s, t))
  <1> DEFINE n == Len(s)
  <1>1. /\ n \in Nat /\ Len(Append(s, x)) = n + 1 /\ Append(s, x)[n + 1] = x
        /\ \A i \in 1..n : Append(s, x)[i] = s[i]
    OBVIOUS
  <1>2. n + 1 \notin Positions(s, t)
    BY <1>1 DEF Positions
  <1>3. CASE x = t
    <2>1. Positions(Append(s, x), t) = Positions(s, t) \cup {n + 1}
      BY <1>1, <1>3 DEF Positions
    <2> QED BY <1>2, <1>3, <2>1, PositionsType, FS_AddElement
  <1>4. CASE x # t
    <2>1. Positions(Append(s, x), t) = Positions(s, t)
      BY <1>1, <1>4 DEF Positions
    <2> QED BY <1>4, <2>1
  <1> QED BY <1>3, <1>4

\* A record less leaves all positions but its own.
LEMMA PositionsRemoved ==
    ASSUME NEW s \in Seq(Tags), NEW r \in Seq(Tags), NEW k \in 1..Len(s), NEW t,
           Len(r) = Len(s) - 1,
           \A i \in 1..(Len(s) - 1) : r[i] = IF i < k THEN s[i] ELSE s[i + 1]
    PROVE  Cardinality(Positions(s, t) \ {k}) <= Cardinality(Positions(r, t))
  <1> DEFINE n == Len(s)
             from == Positions(s, t) \ {k}
             to == Positions(r, t)
             f == [i \in from |-> IF i < k THEN i ELSE i - 1]
  <1>1. n \in Nat /\ k \in 1..n /\ Len(r) = n - 1
    OBVIOUS
  <1>2. ASSUME NEW i \in from PROVE f[i] \in to
    <2>1. i \in 1..n /\ s[i] = t /\ i # k
      BY DEF Positions
    <2>2. CASE i < k
      <3>1. i \in 1..(n - 1) /\ r[i] = t
        BY <1>1, <2>1, <2>2
      <3> QED BY <1>1, <2>2, <3>1 DEF Positions
    <2>3. CASE ~(i < k)
      <3>1. i - 1 \in 1..(n - 1) /\ ~(i - 1 < k) /\ (i - 1) + 1 = i
        BY <1>1, <2>1, <2>3
      <3>2. r[i - 1] = t
        BY <2>1, <3>1
      <3> QED BY <1>1, <2>3, <3>1, <3>2 DEF Positions
    <2> QED BY <2>2, <2>3
  <1>3. ASSUME NEW i \in from, NEW j \in from, f[i] = f[j] PROVE i = j
    <2>1. i \in 1..n /\ j \in 1..n /\ i # k /\ j # k
      BY DEF Positions
    <2>2. (IF i < k THEN i ELSE i - 1) = (IF j < k THEN j ELSE j - 1)
      BY <1>3
    <2> QED BY <1>1, <2>1, <2>2
  <1>4. f \in Injection(from, to)
    <2>1. f \in [from -> to]
      BY <1>2
    <2> HIDE DEF f
    <2> QED BY <1>3, <2>1 DEF Injection, IsInjective
  <1>5. IsFiniteSet(to)
    BY PositionsType
  <1> HIDE DEF from, to, f
  <1>6. Cardinality(from) <= Cardinality(to)
    BY <1>4, <1>5, FS_Injection
  <1> QED BY <1>6 DEF from, to

LEMMA RecordsType ==
    ASSUME LogType, NEW t
    PROVE  Records(t) = Positions(log, t) /\ IsFiniteSet(Records(t)) /\ Cardinality(Records(t)) \in Nat
  <1>1. log \in Seq(Tags) /\ Records(t) = Positions(log, t)
    BY DEF LogType, Records, Positions
  <1> QED BY <1>1, PositionsType

LEMMA UnsentStart == Init => UnsentInv
  <1> SUFFICES ASSUME Init PROVE UnsentInv
    OBVIOUS
  <1>1. unsent \in [Tags -> Nat] /\ \A t \in Tags : unsent[t] = 0
    BY DEF Init, Door!DoorInit
  <1>2. \A t \in Tags : Records(t) = {}
    BY DEF Init, Door!DoorInit, Records
  <1>3. pc = "loop"
    BY DEF Init, LookupInit
  <1> QED BY <1>1, <1>2, <1>3, FS_EmptySet DEF UnsentInv, NothingUnsent

\* A step that leaves the log and the visits alone.
LEMMA LogAlone ==
    ASSUME UnsentInv, UNCHANGED <<log, unsent, sketch>>, pc' = "uploaded" => UNCHANGED <<pc, recno>>
    PROVE  UnsentInv'
  <1>1. \A t : Records(t)' = Records(t)
    BY DEF Records
  <1>2. UNCHANGED <<log, unsent, sketch>> /\ (NothingUnsent => NothingUnsent')
    BY <1>1 DEF NothingUnsent
  <1>3. ASSUME sketch = "door", pc' = "uploaded"
        PROVE  unsent'[log'[recno']] < Cardinality(Records(log[recno])')
    BY <1>1, <1>3 DEF UnsentInv
  <1> QED BY <1>2, <1>3 DEF UnsentInv

\* A visit that is logged.
LEMMA UnsentLogged ==
    ASSUME UnsentInv, LogType, DoorRuns, Door!ReadOffline
    PROVE  UnsentInv'
  <1>1. PICK x \in Tags :
          IF Door!InTable(x)
          THEN /\ Door!appendRec(x)
               /\ unsent' = IF Len(log) < MaxLog THEN [unsent EXCEPT ![x] = @ + 1] ELSE unsent
          ELSE UNCHANGED <<log, unsent>>
    BY DEF Door!ReadOffline
  <1>2. pc' = "decide" /\ UNCHANGED sketch
    BY DEF Door!ReadOffline, DoorRuns
  <1>3. CASE UNCHANGED <<log, unsent>>
    BY <1>2, <1>3, LogAlone
  <1>4. CASE log' = Append(log, x) /\ unsent' = [unsent EXCEPT ![x] = @ + 1]
    <2>1. unsent \in [Tags -> Nat] /\ unsent' \in [Tags -> Nat] /\ log \in Seq(Tags)
      BY <1>4 DEF UnsentInv, LogType
    <2>2. ASSUME NEW t \in Tags, sketch = "door" PROVE unsent'[t] <= Cardinality(Records(t)')
      <3> DEFINE c == Cardinality(Positions(log, t))
      <3>1. c \in Nat /\ unsent[t] \in Nat /\ unsent[t] <= c
        BY <2>1, <2>2, RecordsType DEF UnsentInv, NothingUnsent
      <3>2. Records(t)' = Positions(Append(log, x), t)
        BY <1>4 DEF Records, Positions
      <3>3. Cardinality(Records(t)') = IF x = t THEN c + 1 ELSE c
        BY <2>1, <3>2, PositionsAppended
      <3>4. unsent'[t] = IF x = t THEN unsent[t] + 1 ELSE unsent[t]
        BY <1>4, <2>1
      <3> HIDE DEF c
      <3> QED BY <3>1, <3>3, <3>4
    <2> QED BY <1>2, <2>1, <2>2 DEF UnsentInv, NothingUnsent
  <1> QED BY <1>1, <1>3, <1>4 DEF Door!appendRec

\* A line is out, and there is a record to spare; or there is none left.
LEMMA UnsentSent ==
    ASSUME UnsentInv, LogType, DoorRuns, Door!Upload
    PROVE  UnsentInv'
  <1>1. CASE recno <= Len(log)
    <2> DEFINE x == log[recno]
               c == Cardinality(Records(x))
    <2>1. /\ unsent' = [unsent EXCEPT ![x] = IF @ = 0 THEN 0 ELSE @ - 1]
          /\ UNCHANGED <<log, recno, sketch>> /\ sketch = "door"
      BY <1>1 DEF Door!Upload, DoorRuns
    <2>2. recno \in 1..Len(log) /\ log \in Seq(Tags) /\ x \in Tags
      BY <1>1 DEF LogType
    <2>3. unsent \in [Tags -> Nat] /\ unsent[x] \in Nat
      BY <2>2 DEF UnsentInv
    <2>4. unsent' \in [Tags -> Nat]
      <3> DEFINE v == IF unsent[x] = 0 THEN 0 ELSE unsent[x] - 1
      <3>1. v \in Nat
        BY <2>3
      <3>2. unsent' = [unsent EXCEPT ![x] = v]
        BY <2>1
      <3> HIDE DEF v, x
      <3> QED BY <2>3, <3>1, <3>2
    <2>5. \A t : Records(t)' = Records(t)
      BY <2>1 DEF Records
    <2>6. c \in Nat /\ c # 0
      <3>1. recno \in Records(x)
        BY <2>2 DEF Records
      <3> QED BY <3>1, RecordsType, FS_EmptySet
    <2>7. \A t \in Tags : unsent'[t] <= unsent[t] /\ unsent[t] \in Nat /\ unsent'[t] \in Nat
      BY <2>1, <2>3, <2>4
    <2>8. unsent[x] <= c
      BY <2>1, <2>2 DEF UnsentInv, NothingUnsent
    <2>9. unsent'[x] = IF unsent[x] = 0 THEN 0 ELSE unsent[x] - 1
      BY <2>1, <2>2, <2>3
    <2>10. unsent'[x] < c
      <3> HIDE DEF x, c
      <3> QED BY <2>3, <2>6, <2>8, <2>9
    <2>11. ASSUME NEW t \in Tags PROVE unsent'[t] <= Cardinality(Records(t))
      <3>1. unsent[t] <= Cardinality(Records(t)) /\ Cardinality(Records(t)) \in Nat
        BY <2>1, RecordsType DEF UnsentInv, NothingUnsent
      <3> QED BY <2>7, <3>1
    <2>12. NothingUnsent'
      BY <2>5, <2>11 DEF NothingUnsent
    <2>13. unsent'[log'[recno']] < Cardinality(Records(log[recno])')
      BY <2>1, <2>5, <2>10
    <2> QED BY <2>4, <2>12, <2>13 DEF UnsentInv
  <1>2. CASE ~(recno <= Len(log))
    BY <1>2, LogAlone DEF Door!Upload, DoorRuns
  <1> QED BY <1>1, <1>2

\* The record of the line goes, and no other.
LEMMA UnsentDeleted ==
    ASSUME UnsentInv, LogType, LogType', DoorRuns, Door!Uploaded
    PROVE  UnsentInv'
  <1> DEFINE n == Len(log)
             k == recno
             x == log[recno]
             low == SubSeq(log, 1, k - 1)
             high == SubSeq(log, k + 1, n)
  <1>1. /\ log \in Seq(Tags) /\ log' \in Seq(Tags) /\ n \in Nat
        /\ pc = "uploaded" /\ pc' = "upload" /\ UNCHANGED <<unsent, sketch>> /\ sketch = "door"
    BY DEF Door!Uploaded, DoorRuns, LogType
  <1>2. k \in 1..n /\ x \in Tags
    BY <1>1 DEF LogType
  <1>3. log' = low \o high
    BY DEF Door!Uploaded, Door!Deleted, Door!RemoveAt
  <1>4. low \in Seq(Tags) /\ Len(low) = k - 1 /\ \A i \in 1..(k - 1) : low[i] = log[i]
    BY <1>1, <1>2, SubSeqProperties
  <1>5. high \in Seq(Tags) /\ Len(high) = n - k /\ \A i \in 1..(n - k) : high[i] = log[k + i]
    BY <1>1, <1>2, SubSeqProperties
  <1>6. Len(log') = n - 1
    <2> HIDE DEF n, k, low, high
    <2> QED BY <1>1, <1>2, <1>3, <1>4, <1>5, ConcatProperties
  <1>7. \A i \in 1..(n - 1) : log'[i] = IF i < k THEN log[i] ELSE log[i + 1]
    <2> HIDE DEF n, k, low, high
    <2> SUFFICES ASSUME NEW i \in 1..(n - 1)
                 PROVE  log'[i] = IF i < k THEN log[i] ELSE log[i + 1]
      OBVIOUS
    <2>1. CASE i < k
      <3>1. i \in 1..(k - 1)
        BY <1>2, <2>1
      <3>2. (low \o high)[i] = low[i]
        BY <1>4, <1>5, <3>1, ConcatProperties
      <3> QED BY <1>3, <1>4, <2>1, <3>1, <3>2
    <2>2. CASE ~(i < k)
      <3>1. /\ i - (k - 1) \in 1..(n - k) /\ k + (i - (k - 1)) = i + 1
            /\ i > Len(low) /\ i \in 1..(Len(low) + Len(high))
        BY <1>1, <1>2, <1>4, <1>5, <2>2
      <3>2. (low \o high)[i] = high[i - (k - 1)]
        BY <1>4, <1>5, <3>1, ConcatProperties
      <3> QED BY <1>3, <1>5, <2>2, <3>1, <3>2
    <2> QED BY <2>1, <2>2
  <1>8. ASSUME NEW t \in Tags PROVE unsent[t] <= Cardinality(Records(t)')
    <2> DEFINE c == Cardinality(Records(t))
               d == Cardinality(Records(t) \ {k})
               e == Cardinality(Records(t)')
    <2>1. Records(t) = Positions(log, t) /\ Records(t)' = Positions(log', t)
      BY DEF Records, Positions
    <2>2. d <= e
      BY <1>1, <1>2, <1>6, <1>7, <2>1, PositionsRemoved
    <2>3. IsFiniteSet(Records(t)) /\ c \in Nat /\ IsFiniteSet(Records(t)') /\ e \in Nat
      BY <1>1, <2>1, PositionsType
    <2>4. d = IF k \in Records(t) THEN c - 1 ELSE c
      BY <2>3, FS_RemoveElement
    <2>5. k \in Records(t) <=> t = x
      BY <1>2 DEF Records
    <2>6. unsent[t] \in Nat /\ unsent[t] <= c /\ (t = x => unsent[t] < c)
      BY <1>1 DEF UnsentInv, NothingUnsent
    <2> HIDE DEF c, d, e, x, k
    <2>7. unsent[t] <= d /\ d \in Int
      BY <2>3, <2>4, <2>5, <2>6
    <2>8. unsent[t] <= e
      BY <2>2, <2>3, <2>6, <2>7
    <2> QED BY <2>8 DEF e
  <1> QED BY <1>1, <1>8 DEF UnsentInv, NothingUnsent

\* The button clears the log and the visits with it, or neither.
LEMMA UnsentCleared ==
    ASSUME UnsentInv, LogType, DoorRuns, Door!Button
    PROVE  UnsentInv'
  <1>1. CASE UNCHANGED <<log, unsent>>
    BY <1>1, LogAlone DEF Door!Button, DoorRuns
  <1>2. CASE log' = <<>> /\ unsent' = [t \in Tags |-> 0]
    <2>1. unsent' \in [Tags -> Nat] /\ \A t \in Tags : unsent'[t] = 0
      BY <1>2
    <2>2. \A t \in Tags : Records(t)' = {}
      BY <1>2 DEF Records
    <2>3. pc' = "loop"
      BY DEF Door!Button
    <2> QED BY <2>1, <2>2, <2>3, FS_EmptySet DEF UnsentInv, NothingUnsent
  <1> QED BY <1>1, <1>2 DEF Door!Button

LEMMA UnsentDoor ==
    ASSUME UnsentInv, LogType, LogType', DoorRuns, Door!DoorNext
    PROVE  UnsentInv'
  <1>1. CASE Door!ReadOffline
    BY <1>1, UnsentLogged
  <1>2. CASE Door!Upload
    BY <1>2, UnsentSent
  <1>3. CASE Door!Uploaded
    BY <1>3, UnsentDeleted
  <1>4. CASE Door!Button
    BY <1>4, UnsentCleared
  <1>5. CASE Door!UploadFails \/ Door!WatchdogRestart
    BY <1>5, LogAlone DEF Door!UploadFails, Door!WatchdogRestart, DoorRuns
  <1>6. CASE Door!TimePasses
    BY <1>6, LogAlone DEF Door!TimePasses, Door!lookupVars, DoorRuns
  <1>7. CASE Door!Environment /\ UNCHANGED <<Door!lookupVars, Door!doorVars>>
    BY <1>7, LogAlone DEF Door!lookupVars, Door!doorVars, DoorRuns
  <1>8. CASE UNCHANGED <<log, unsent>> /\ pc' # "uploaded"
    BY <1>8, LogAlone DEF DoorRuns
  <1> QED BY <1>1, <1>2, <1>3, <1>4, <1>5, <1>6, <1>7, <1>8
          DEF Door!DoorNext, Door!Loop, Door!Report, Door!NoTag, Door!ReadOnline,
              Door!DoorWaited, Door!DoorWaitFails, Door!DoorReceived, Door!NoData,
              Door!Decide, Door!Relay, Door!doorVars, Door!setupNetwork, Door!Waited,
              Door!WaitFails, Door!Received

LEMMA UnsentNext == AnswerInv /\ LogType /\ UnsentInv /\ [Next]_vars => UnsentInv'
  <1> SUFFICES ASSUME AnswerInv, LogType, UnsentInv, [Next]_vars PROVE UnsentInv'
    OBVIOUS
  <1>1. LogType'
    BY AnswerNext
  <1>2. CASE DoorRuns /\ Door!DoorNext
    BY <1>1, <1>2, UnsentDoor
  <1>3. CASE NodeRuns \/ FirstRuns
    <2>1. sketch # "door" /\ UNCHANGED <<sketch, unsent>>
      BY <1>3 DEF NodeRuns, FirstRuns, doorVars
    <2> QED BY <2>1 DEF UnsentInv, NothingUnsent
  <1>4. CASE UNCHANGED vars
    BY <1>4, LogAlone DEF vars, doorVars, lookupVars
  <1> QED BY <1>2, <1>3, <1>4 DEF Next

\* Whoever was let in by the table is in the log until a line about him is out, as
\* often as he came in (BB_Access_Control_Door.ino, uploadLogFiles): it deletes each record
\* under the index of its loop while the table closes up behind it, stops half way
\* when the modem is slow, and is cut short by the watchdog at any point.
THEOREM NothingUnsentTheorem == Spec => []NothingUnsent
  <1>1. UnsentInv => NothingUnsent
    BY DEF UnsentInv
  <1> QED BY <1>1, AnswerStart, AnswerNext, UnsentStart, UnsentNext, PTL DEF Spec
=============================================================================
