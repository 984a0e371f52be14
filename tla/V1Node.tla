-------------------------------- MODULE V1Node --------------------------------
(***************************************************************************)
(* BB_Access_Control_2: a door (mode 1) or a node that keeps a machine on   *)
(* while the member's tag stays at the reader (mode 2): after half a minute *)
(* the reader is switched off and on so that it reads the tag again.        *)
(***************************************************************************)
EXTENDS SerialLookup

CONSTANT Modes      \* 1, 2: `mode' as the sketch is built

VARIABLES
    mode,
    doorLock,       \* the lock's pin
    systemActive, activeTagString, reCheck,
    since,          \* seconds since systemActiveAt: 0, 30 or 45
    known           \* the tags let in since the sketch started

nodeVars == <<mode, doorLock, systemActive, activeTagString, reCheck, since, known>>

NodeInit ==
    /\ mode \in Modes
    /\ doorLock = FALSE
    /\ systemActive = FALSE /\ activeTagString = "none" /\ reCheck = FALSE
    /\ since = 0 /\ known = {}

---------------------------------------------------------------------------
NothingRead ==
    /\ pc = "loop" /\ Configured
    /\ pc' = "timer"
    /\ UNCHANGED <<modemVars, tag, db, success, answer, outstanding, networkSetup, nodeVars>>

Rechecking == reCheck /\ mode = 2

ReadTag ==
    /\ pc = "loop" /\ Configured /\ ~Rechecking
    /\ \E t \in Tags :
          /\ tag' = t
          /\ IF ready
             THEN Transmit(t) /\ success' = "no" /\ answer' = NoAnswer /\ pc' = "wait"
             ELSE /\ searchLocalDB(t) /\ outstanding' = FALSE /\ pc' = "decide"
                  /\ UNCHANGED modemVars
    /\ UNCHANGED <<db, networkSetup, nodeVars>>

(* The same tag keeps the machine on; another ends the session at the       *)
(* server.  The table is searched in any case.                              *)
ReCheck ==
    /\ pc = "loop" /\ Configured /\ Rechecking
    /\ \E t \in Tags :
          /\ tag' = t
          /\ searchLocalDB(t)
          /\ IF t = activeTagString
             THEN /\ systemActive' = TRUE /\ since' = 0
                  /\ UNCHANGED <<activeTagString, tx>>
             ELSE /\ Println(Line("other", "none"))
                  /\ systemActive' = FALSE /\ activeTagString' = "none"
                  /\ UNCHANGED since
    /\ pc' = "decide" /\ outstanding' = FALSE
    /\ UNCHANGED <<ready, modem, serial, mishaps, db, networkSetup, mode,
                   doorLock, reCheck, known>>

NodeWaited == Waited /\ UNCHANGED nodeVars

\* Ten seconds.
NodeWaitFails == WaitFails /\ UNCHANGED nodeVars

NodeReceived ==
    /\ Received
    /\ db' = Corrected(tag, answer'.valid)
    /\ UNCHANGED nodeVars

NoData ==
    /\ pc = "receive" /\ serial = <<>>
    /\ success' = "no" /\ answer' = NoAnswer
    /\ pc' = "decide"
    /\ UNCHANGED <<modemVars, tag, db, outstanding, networkSetup, nodeVars>>

LetIn == success # "no"

ActiveTag_Copied == tag

ActiveTag == IF LetIn THEN tag ELSE activeTagString

\* Mode 1: the lock is open for four seconds of this pass.
OpenDoor ==
    /\ pc = "decide" /\ mode = 1
    /\ doorLock' = LetIn
    /\ known' = IF LetIn THEN known \cup {tag} ELSE known
    /\ pc' = "open"
    /\ UNCHANGED <<modemVars, tag, db, success, answer, outstanding, networkSetup,
                   mode, systemActive, activeTagString, reCheck, since>>

CloseDoor ==
    /\ pc = "open"
    /\ doorLock' = FALSE
    /\ pc' = "timer" /\ Forgotten
    /\ UNCHANGED <<modemVars, db, networkSetup,
                   mode, systemActive, activeTagString, reCheck, since, known>>

\* Mode 2: the machine is on for the tag.
SwitchOn ==
    /\ pc = "decide" /\ mode = 2
    /\ known' = IF LetIn THEN known \cup {tag} ELSE known
    /\ activeTagString' = ActiveTag
    /\ IF LetIn THEN systemActive' = TRUE /\ since' = 0
       ELSE UNCHANGED <<systemActive, since>>
    /\ pc' = "timer" /\ Forgotten
    /\ UNCHANGED <<modemVars, db, networkSetup, mode, doorLock, reCheck>>

\* The end of the pass: the timers, and the button that clears the table.
Timer ==
    /\ pc = "timer"
    /\ reCheck' = (reCheck \/ (mode = 2 /\ systemActive /\ since >= 30))
    /\ systemActive' = (systemActive /\ ~(mode = 2 /\ since = 45))
    /\ \/ UNCHANGED <<db, mishaps>>
       \/ Mishap /\ db' = <<>>
    /\ pc' = "loop"
    /\ UNCHANGED <<ready, modem, tx, serial, tag, success, answer, outstanding,
                   networkSetup, mode, doorLock, activeTagString, since, known>>

SecondsPass ==
    /\ systemActive /\ since < 45
    /\ since' = IF since = 0 THEN 30 ELSE 45
    /\ UNCHANGED <<modemVars, lookupVars, mode, doorLock, systemActive,
                   activeTagString, reCheck, known>>

PowerCycle ==
    /\ Mishap
    /\ pc' = "loop" /\ tag' = "none" /\ success' = "no" /\ answer' = NoAnswer
    /\ outstanding' = FALSE /\ networkSetup' = FALSE
    /\ doorLock' = FALSE /\ systemActive' = FALSE /\ activeTagString' = "none"
    /\ reCheck' = FALSE /\ since' = 0 /\ known' = {}
    /\ serial' = <<>>
    /\ UNCHANGED <<ready, modem, tx, db, mode>>

Loop ==
    \/ setupNetwork /\ UNCHANGED nodeVars
    \/ NothingRead \/ ReadTag \/ ReCheck \/ NodeWaited \/ NodeWaitFails \/ NodeReceived
    \/ NoData \/ OpenDoor \/ CloseDoor \/ SwitchOn \/ Timer

NodeNext ==
    Loop \/ SecondsPass \/ PowerCycle \/ (Environment /\ UNCHANGED <<lookupVars, nodeVars>>)

---------------------------------------------------------------------------
(* The machine is on only for a tag that the server or the table has let in *)
(* since the node was started, though a recheck asks neither; and no recheck *)
(* takes over what another member left.                                     *)
ActiveIsKnown == systemActive => activeTagString \in known
=============================================================================
