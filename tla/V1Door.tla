-------------------------------- MODULE V1Door --------------------------------
(***************************************************************************)
(* The door controller of the first generation: the server when the modem   *)
(* is ready, else the table, a log of those let in by the table, sent when  *)
(* there is time.  A watchdog restarts the board; the tables stay.          *)
(***************************************************************************)
EXTENDS SerialLookup

CONSTANT MaxLog     \* logDb.limit()

VARIABLES
    log, recno,     \* the log, and where the upload is
    online,         \* accessControl.systemOnline
    reportedHome,
    uptime16,       \* 65 seconds after boot waitForResponse no longer waits
    active,         \* the door is open; the relay follows at the end of each pass
    unsent          \* entries made and not sent yet, by tag

doorVars == <<log, recno, online, reportedHome, uptime16, active, unsent>>

DoorInit ==
    /\ log = <<>> /\ recno = 1
    /\ online = FALSE /\ reportedHome = FALSE /\ uptime16 = FALSE
    /\ active = FALSE
    /\ unsent = [t \in Tags |-> 0]

Stays == UNCHANGED <<recno, online, reportedHome, uptime16, active>>

---------------------------------------------------------------------------
\* The head of loop(): the pin, the boot message or a heartbeat.
Report ==
    /\ pc = "loop" /\ Configured
    /\ online' = ready
    /\ \/ /\ ready /\ Println(Line("other", "none"))
          /\ reportedHome' = TRUE
       \/ /\ ~ready \/ reportedHome
          /\ UNCHANGED <<tx, reportedHome>>
    /\ pc' = "tag"
    /\ UNCHANGED <<ready, modem, serial, mishaps, tag, db, success, answer,
                   outstanding, networkSetup, log, recno, uptime16, active, unsent>>

NoTag ==
    /\ pc = "tag" /\ pc' = "relay"
    /\ UNCHANGED <<modemVars, tag, db, success, answer, outstanding, networkSetup, doorVars>>

\* A tag while the modem is ready.
ReadOnline ==
    /\ pc = "tag" /\ online
    /\ \E t \in Tags : tag' = t /\ Transmit(t)
    /\ success' = "no" /\ answer' = NoAnswer
    /\ pc' = "wait"
    /\ UNCHANGED <<db, networkSetup, doorVars>>

appendRec(t) == log' = IF Len(log) < MaxLog THEN Append(log, t) ELSE log

\* Or not ready: the table decides, and the log keeps it if there is room.
ReadOffline ==
    /\ pc = "tag" /\ ~online
    /\ \E t \in Tags :
          /\ tag' = t
          /\ searchLocalDB(t)
          /\ IF InTable(t)
             THEN /\ appendRec(t)
                  /\ unsent' = IF Len(log) < MaxLog THEN [unsent EXCEPT ![t] = @ + 1] ELSE unsent
             ELSE UNCHANGED <<log, unsent>>
    /\ pc' = "decide"
    /\ outstanding' = FALSE
    /\ UNCHANGED <<modemVars, db, networkSetup, recno, online, reportedHome, uptime16,
                   active>>

DoorWaited == Waited /\ UNCHANGED doorVars

\* millis() is compared with 16 bits: early on the wait is long, later none.
DoorWaitFails == uptime16 /\ WaitFails /\ UNCHANGED doorVars

DoorReceived ==
    /\ Received
    /\ db' = Corrected(tag, answer'.valid)
    /\ UNCHANGED doorVars

\* No data: the modem is reset, the table decides, the log does not hear of it.
NoData ==
    /\ pc = "receive" /\ serial = <<>>
    /\ modem' = NoLine /\ tx' = <<>> /\ ready' = FALSE
    /\ searchLocalDB(tag)
    /\ pc' = "decide"
    /\ UNCHANGED <<serial, mishaps, tag, db, outstanding, networkSetup, doorVars>>

Decide ==
    /\ pc = "decide"
    /\ active' = (success # "no")
    /\ pc' = "relay" /\ Forgotten
    /\ UNCHANGED <<modemVars, db, networkSetup,
                   log, recno, online, reportedHome, uptime16, unsent>>

\* Four seconds, or not yet; the log when the door is closed.
Relay ==
    /\ pc = "relay"
    /\ \/ active /\ active' \in BOOLEAN /\ pc' = "button"
       \/ /\ ~active /\ UNCHANGED active
          /\ IF online /\ log # <<>> THEN pc' = "upload" ELSE pc' = "button"
    /\ UNCHANGED <<modemVars, tag, db, success, answer, outstanding, networkSetup,
                   log, recno, online, reportedHome, uptime16, unsent>>

Upload ==
    /\ pc = "upload"
    /\ IF recno <= Len(log)
       THEN /\ Println(Line("delayed", log[recno]))
            /\ unsent' = [unsent EXCEPT ![log[recno]] = IF @ = 0 THEN 0 ELSE @ - 1]
            /\ pc' = "uploaded" /\ UNCHANGED recno
       ELSE UNCHANGED <<tx, unsent>> /\ pc' = "button" /\ recno' = 1
    /\ UNCHANGED <<ready, modem, serial, mishaps, tag, db, success, answer,
                   outstanding, networkSetup, log, online, reportedHome, uptime16,
                   active>>

\* uploadLogFiles deletes what it sent, under its own index.
Deleted_Next(i) == IF i < Len(log) THEN RemoveAt(log, i + 1) ELSE RemoveAt(log, i)

Deleted(i) == RemoveAt(log, i)

Uploaded ==
    /\ pc = "uploaded" /\ ~Busy
    /\ log' = Deleted(recno) /\ recno' = recno + 1
    /\ pc' = "upload"
    /\ UNCHANGED <<modemVars, tag, db, success, answer, outstanding, networkSetup,
                   online, reportedHome, uptime16, active, unsent>>

\* The wait fails: the record stays, and will be sent again.
UploadFails ==
    /\ pc = "uploaded" /\ Busy /\ uptime16
    /\ pc' = "button" /\ recno' = 1
    /\ UNCHANGED <<modemVars, tag, db, success, answer, outstanding, networkSetup,
                   log, online, reportedHome, uptime16, active, unsent>>

\* resetDBs when the button is held.
Button ==
    /\ pc = "button" /\ pc' = "loop"
    /\ \/ UNCHANGED <<db, log, unsent, mishaps>>
       \/ Mishap /\ db' = <<>> /\ log' = <<>> /\ unsent' = [t \in Tags |-> 0]
    /\ UNCHANGED <<ready, modem, tx, serial, tag, success, answer, outstanding,
                   networkSetup>> /\ Stays

TimePasses ==
    /\ ~uptime16 /\ uptime16' = TRUE
    /\ UNCHANGED <<modemVars, lookupVars, log, recno, online, reportedHome, active, unsent>>

(* The board waits for the modem until the watchdog restarts it: setup()    *)
(* resets the modem; what is not in the EEPROM is lost.                     *)
Stuck_InLookup == Busy /\ pc = "wait"

Stuck == Busy /\ (pc \in {"wait", "uploaded"} \/ (pc = "loop" /\ ~Configured))

WatchdogRestart ==
    /\ Stuck
    /\ modem' = NoLine /\ tx' = <<>> /\ serial' = <<>> /\ ready' = FALSE
    /\ pc' = "loop" /\ tag' = "none" /\ success' = "no" /\ answer' = NoAnswer
    /\ outstanding' = FALSE /\ networkSetup' = FALSE
    /\ online' = FALSE /\ reportedHome' = FALSE /\ uptime16' = FALSE /\ active' = FALSE
    /\ recno' = 1
    /\ UNCHANGED <<mishaps, db, log, unsent>>

Loop ==
    \/ setupNetwork /\ UNCHANGED doorVars
    \/ Report \/ NoTag \/ ReadOnline \/ ReadOffline
    \/ DoorWaited \/ DoorWaitFails \/ DoorReceived \/ NoData
    \/ Decide \/ Relay \/ Upload \/ Uploaded \/ UploadFails \/ Button

DoorNext == Loop \/ TimePasses \/ WatchdogRestart \/ (Environment /\ UNCHANGED <<lookupVars, doorVars>>)

=============================================================================
