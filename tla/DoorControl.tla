----------------------------- MODULE DoorControl -----------------------------
(***************************************************************************)
(* The door controller, v2/Door_Control/Door_Control.ino with its          *)
(* AccessControl and the requests it makes through BBWiFi.  The sketch is  *)
(* one loop; pc names the place it has reached.  The loop blocks in every  *)
(* network exchange and in the tones, and the world goes on meanwhile:     *)
(* people present tags, the server's member list changes, WiFi comes and   *)
(* goes, the relay's four seconds run out, the power fails.                *)
(*                                                                         *)
(* The two record tables are sequences here: a call of EDB is one step,    *)
(* as it is between two polls of anything (module EDB has its bytes and    *)
(* what a power failure inside a call leaves).  A name is the tag it       *)
(* belongs to.  The time in a log record is the number of the visit;       *)
(* setting the clock from the replies (syncTime) is left out.              *)
(***************************************************************************)
EXTENDS Integers, SequencesExt

CONSTANTS Tags, None,
          MemberLimit, LogLimit,  \* db.limit(), logDb.limit(): 481 and 818
          CountMod,               \* countLocalRecords() returns uint8_t: 256
          Faults,                 \* what may go wrong, see AllFaults
          MaxVisits, MaxPowerLosses    \* bounds on the behaviours explored

AllFaults == {"loss",      \* an exchange may fail at either end
              "refusal",   \* the server may answer with another status than 200
              "wifi",      \* WiFi may go and come back, setup may fail
              "partial",   \* a tag may be polled before its last byte is in
              "power"}

ASSUME ConstantsAssumption ==
  /\ None \notin Tags
  /\ MemberLimit \in Nat /\ LogLimit \in Nat
  /\ CountMod \in Nat \ {0}
  /\ Faults \subseteq AllFaults
  /\ MaxVisits \in Nat /\ MaxPowerLosses \in Nat

VARIABLES
  pc,        \* where the loop is
  active, expired,  \* _systemActive; have the 4 s since setSystemActive passed
  relay,     \* the pin: 1 holds the door open
  user,      \* activeUserName
  tag,       \* tagString
  online, reported, \* systemOnline, reportedHome
  netSetup,  \* _networkSetup
  cmd, hasCmd,      \* the command of the last reply, and whether it is pending
  recno,     \* the record uploadLogFiles is at
  db, log,   \* the member table and the access log, on the EEPROM
  reader,    \* the tag in the serial buffer, or None
  link,      \* the exchange in progress
  wifi,      \* the status the CC3000 reports
  members,   \* the tags the server's members hold
  visits, losses,   \* tags presented and power failures so far
  \* history, for the properties only:
  opener,    \* the tag setSystemActive was last called for
  confirmed, \* tags the server has called valid since the last wipe of db
  owed,      \* records of the admissions from the local table
  archived,  \* log records the server has received
  unsaved,   \* of owed, those no room was left for
  bounced,   \* tags and records sent when the server answered other than 200
  ordered    \* a clear-memory command arrived and no wipe has followed

access == <<active, expired, relay, user, opener>>
radio  == <<netSetup, cmd, hasCmd>>
tables == <<db, log>>
world  == <<members, visits, losses>>
audit  == <<confirmed, owed, archived, unsaved, bounced, ordered>>
vars == <<pc, access, tag, online, reported, radio, recno, tables, reader,
          link, wifi, world, audit>>

Visit == [tag : Tags, time : 1..MaxVisits]

\* The exchange: NoLink, Sent until the server or the timeout ends it.
NoLink  == [state |-> "none"]
Sent    == [state |-> "sent"]
Failed  == [state |-> "failed"]    \* sendData returns false
Refused == [state |-> "refused"]   \* sendData returns true, the body is empty
Reply(valid, c) == [state |-> "reply", valid |-> valid, cmd |-> c]
Commands == {"none", "clear-memory"}
Answers == {Failed, Refused} \cup {Reply(v, c) : v \in BOOLEAN, c \in Commands}

-----------------------------------------------------------------------------

Init == /\ pc = "setup"
        /\ active = FALSE /\ expired = FALSE /\ relay = 0
        /\ user = None /\ opener = None /\ tag = None
        /\ online = FALSE /\ reported = FALSE
        /\ netSetup = FALSE /\ cmd = "none" /\ hasCmd = FALSE
        /\ recno = 1
        /\ db = <<>> /\ log = <<>>
        /\ reader = None /\ link = NoLink /\ wifi = "disconnected"
        /\ members \in SUBSET Tags
        /\ visits = 0 /\ losses = 0
        /\ confirmed = {} /\ owed = {} /\ archived = {} /\ unsaved = {}
        /\ bounced = {} /\ ordered = FALSE

goto(from, to) == pc = from /\ pc' = to

(* WiFi.isNetworkSetup and checkConfigure: blocks until the access point and *)
(* DHCP have answered or not.  A failed DHCP lookup leaves WiFi connected.   *)
CheckConfigure ==
  /\ goto("setup", "status")
  /\ ~netSetup
  /\ \/ netSetup' = TRUE /\ wifi' = "connected"
     \/ /\ "wifi" \in Faults
        /\ wifi' \in {"disconnected", "connected"}
        /\ UNCHANGED netSetup
  /\ UNCHANGED <<access, tag, online, reported, cmd, hasCmd, recno, tables,
                 reader, link, world, audit>>

\* The network is set up, or five minutes have not passed since the last try.
SkipConfigure ==
  /\ goto("setup", "status")
  /\ UNCHANGED <<access, tag, online, reported, radio, recno, tables,
                 reader, link, wifi, world, audit>>

\* Every five seconds: WiFi.isNetworkReady().
ReadStatus ==
  /\ goto("status", "beat")
  /\ online' = (wifi = "connected")
  /\ netSetup' = (netSetup /\ wifi # "disconnected")
  /\ UNCHANGED <<access, tag, reported, cmd, hasCmd, recno, tables, reader,
                 link, wifi, world, audit>>

SkipStatus ==
  /\ goto("status", "beat")
  /\ UNCHANGED <<access, tag, online, reported, netSetup, cmd, hasCmd, recno, tables,
                 reader, link, wifi, world, audit>>

\* fiveMinutes.check(): a boot message until one is answered, then heartbeats.
Beat ==
  /\ goto("beat", "boot")
  /\ ~active /\ online
  /\ link' = Sent
  /\ UNCHANGED <<access, tag, online, reported, radio, recno, tables, reader,
                 wifi, world, audit>>

SkipBeat ==
  /\ goto("beat", "read")
  /\ UNCHANGED <<access, tag, online, reported, radio, recno, tables, reader,
                 link, wifi, world, audit>>

-----------------------------------------------------------------------------

\* decodeResponse: the command of every reply replaces the last one's.
decodeResponse(c) ==
  /\ cmd' = c
  /\ hasCmd' = TRUE
  /\ ordered' = (ordered \/ c = "clear-memory")

Answered == link \in Answers

\* What sendData returns once the exchange is over: an answer counts as sent
\* whatever its status.
sendData_Always == TRUE
sendData == link # Failed

GotReply == Answered /\ link.state = "reply"

(* An empty body parses to NULL, which decodeResponse and searchRemoteDB read *)
(* through: the processor faults and the loop stops, or goes on with garbage. *)
Faulted ==
  /\ link = Refused
  /\ pc' = "hung"
  /\ link' = NoLink
  /\ UNCHANGED <<access, tag, online, reported, radio, recno, tables, reader,
                 wifi, world, audit>>

BootDone ==
  /\ goto("boot", "read")
  /\ Answered
  /\ link' = NoLink
  /\ \/ GotReply /\ decodeResponse(link.cmd) /\ reported' = TRUE
     \/ link = Refused /\ decodeResponse("none") /\ reported' = TRUE
     \/ link = Failed /\ UNCHANGED <<radio, ordered, reported>>
  /\ UNCHANGED <<access, tag, online, netSetup, recno, tables, reader, wifi, world,
                 confirmed, owed, archived, unsaved, bounced>>

-----------------------------------------------------------------------------

setSystemActive(t) == active' = TRUE /\ expired' = FALSE /\ opener' = t

\* rfidReadTag found nothing, or the first half of a tag, which it drops.
NoTag ==
  /\ goto("read", "relay")
  /\ reader = None \/ "partial" \in Faults
  /\ reader' = None
  /\ UNCHANGED <<access, tag, online, reported, radio, recno, tables, link, wifi,
                 world, audit>>

\* The result of appendRec is not looked at: a full table keeps what it has.
appendRec(table, limit, rec) ==
  IF Len(table) < limit THEN Append(table, rec) ELSE table

searchLocalDB_Inverted(t) == \E r \in 1..Len(db) : db[r] # t
searchLocalDB(t) == \E r \in 1..Len(db) : db[r] = t

\* A tag of the local table: logged for upload, and let in.
AdmitLocal ==
  /\ goto("read", "relay")
  /\ reader # None /\ searchLocalDB(reader)
  /\ tag' = reader /\ reader' = None
  /\ user' = reader
  /\ setSystemActive(reader)
  /\ LET rec == [tag |-> reader, time |-> visits] IN
       /\ owed' = owed \cup {rec}
       /\ log' = appendRec(log, LogLimit, rec)
       /\ unsaved' = unsaved \cup (IF Len(log) < LogLimit THEN {} ELSE {rec})
  /\ UNCHANGED <<relay, online, reported, radio, recno, db, link, wifi, world,
                 confirmed, archived, bounced, ordered>>

\* Not in the table: ask the server, the name cleared first.
AskServer ==
  /\ goto("read", "lookup")
  /\ reader # None /\ ~searchLocalDB(reader) /\ online
  /\ tag' = reader /\ reader' = None
  /\ user' = None
  /\ link' = Sent
  /\ UNCHANGED <<active, expired, relay, opener, online, reported, radio, recno,
                 tables, wifi, world, audit>>

DenyOffline ==
  /\ goto("read", "deny")
  /\ reader # None /\ ~searchLocalDB(reader) /\ ~online
  /\ tag' = reader /\ reader' = None
  /\ UNCHANGED <<access, online, reported, radio, recno, tables, link, wifi,
                 world, audit>>

countLocalRecords == Len(db) % CountMod
countLocalLogRecords == Len(log) % CountMod

\* The member table after the server's verdict on tag: a tag called valid is
\* added, a local record of another is deleted.
Corrected_Unchecked(success) == appendRec(db, MemberLimit, tag)
Corrected(success) ==
  LET found == {r \in 1..countLocalRecords : db[r] = tag} IN
  CASE success /\ found = {}  -> appendRec(db, MemberLimit, tag)
    \* found has one record at most (CacheSound)
    [] ~success /\ found # {} -> RemoveAt(db, CHOOSE r \in found : \A q \in found : r <= q)
    [] OTHER -> db

\* The rest of searchRemoteDB, and the branch of loop() on its result.
Verdict(success) ==
  /\ db' = Corrected(success)
  /\ IF success
     THEN user' = tag /\ setSystemActive(tag) /\ pc' = "relay"
     ELSE UNCHANGED <<active, expired, opener, user>> /\ pc' = "deny"
  /\ UNCHANGED <<relay, log>>

LookupDone ==
  /\ pc = "lookup"
  /\ Answered
  /\ link' = NoLink
  /\ \/ GotReply /\ decodeResponse(link.cmd) /\ Verdict(link.valid)
     \/ link = Refused /\ decodeResponse("none") /\ \E v \in BOOLEAN : Verdict(v)
     \/ link = Failed /\ pc' = "deny" /\ UNCHANGED <<access, radio, tables, ordered>>
  /\ UNCHANGED <<tag, online, reported, netSetup, recno, reader, wifi, world,
                 confirmed, owed, archived, unsaved, bounced>>

\* failureTone, deactivateSystem, "No Access" for a second.
Deny_StaysActive ==
  /\ goto("deny", "relay")
  /\ UNCHANGED <<access, tag, online, reported, radio, recno, tables, reader, link,
                 wifi, world, audit>>

Deny ==
  /\ goto("deny", "relay")
  /\ active' = FALSE
  /\ UNCHANGED <<expired, relay, user, opener, tag, online, reported, radio,
                 recno, tables, reader, link, wifi, world, audit>>

-----------------------------------------------------------------------------

\* The door is held open, and let go when the four seconds are over: only the
\* flag falls here, the pin follows in a later pass.
HoldOpen_NoTimer ==
  /\ goto("relay", "setup")
  /\ active
  /\ relay' = 1
  /\ UNCHANGED <<active, expired, user, opener, tag, online, reported, radio, recno,
                 tables, reader, link, wifi, world, audit>>

HoldOpen ==
  /\ goto("relay", "setup")
  /\ active
  /\ relay' = 1
  /\ active' = ~expired
  /\ UNCHANGED <<expired, user, opener, tag, online, reported, radio, recno,
                 tables, reader, link, wifi, world, audit>>

KeepLocked ==
  /\ goto("relay", "upload")
  /\ ~active
  /\ relay' = 0
  /\ UNCHANGED <<active, expired, user, opener, tag, online, reported, radio,
                 recno, tables, reader, link, wifi, world, audit>>

StartUpload ==
  /\ goto("upload", "record")
  /\ online /\ countLocalLogRecords > 0
  /\ recno' = 1
  /\ UNCHANGED <<access, tag, online, reported, radio, tables, reader, link,
                 wifi, world, audit>>

\* Offline, nothing to send, or the last upload was less than a minute ago.
SkipUpload ==
  /\ goto("upload", "cmd")
  /\ UNCHANGED <<access, tag, online, reported, radio, recno, tables, reader,
                 link, wifi, world, audit>>

\* uploadLogFiles: the count is read again for every record.
MoreRecords_LessThan == recno < countLocalLogRecords
MoreRecords == recno <= countLocalLogRecords

SendArchive ==
  /\ goto("record", "archive")
  /\ MoreRecords
  /\ link' = Sent
  /\ UNCHANGED <<access, tag, online, reported, radio, recno, tables, reader,
                 wifi, world, audit>>

UploadDone ==
  /\ goto("record", "cmd")
  /\ ~MoreRecords
  /\ UNCHANGED <<access, tag, online, reported, radio, recno, tables, reader,
                 link, wifi, world, audit>>

\* sendArchiveLookup returned; a record it was true for is deleted.
ArchiveDone ==
  /\ goto("archive", "record")
  /\ Answered
  /\ link' = NoLink
  /\ recno' = recno + 1
  /\ log' = IF sendData THEN RemoveAt(log, recno) ELSE log
  /\ \/ GotReply /\ decodeResponse(link.cmd)
     \/ link = Refused /\ decodeResponse("none")
     \/ link = Failed /\ UNCHANGED <<radio, ordered>>
  /\ UNCHANGED <<access, tag, online, reported, netSetup, db, reader, wifi, world,
                 confirmed, owed, archived, unsaved, bounced>>

ClearMemory_AnyCommand == hasCmd
ClearMemory == hasCmd /\ cmd = "clear-memory"

clearCmd == hasCmd' = FALSE

\* The pending command; resetMemberDB creates the member table anew.
ActOnCmd ==
  /\ goto("cmd", "setup")
  /\ IF hasCmd THEN clearCmd ELSE UNCHANGED hasCmd
  /\ IF ClearMemory
     THEN db' = <<>> /\ confirmed' = {} /\ bounced' = bounced \cap Visit /\ ordered' = FALSE
     ELSE UNCHANGED <<db, confirmed, bounced, ordered>>
  /\ UNCHANGED <<access, tag, online, reported, netSetup, cmd, recno, log,
                 reader, link, wifi, world, owed, archived, unsaved>>

-----------------------------------------------------------------------------

idle == <<pc, active, relay, user, opener, tag, online, reported, radio, recno, tables>>

\* Somebody holds a tag to the reader.
Present(t) ==
  /\ visits < MaxVisits
  /\ reader = None
  /\ reader' = t
  /\ visits' = visits + 1
  /\ UNCHANGED <<idle, expired, link, wifi, members, losses, audit>>

\* The server's member list changes.
Enrol(t) ==
  /\ members' = IF t \in members THEN members \ {t} ELSE members \cup {t}
  /\ UNCHANGED <<idle, expired, reader, link, wifi, visits, losses, audit>>

\* Four seconds have passed since setSystemActive.
Expire ==
  /\ active /\ ~expired
  /\ expired' = TRUE
  /\ UNCHANGED <<idle, reader, link, wifi, world, audit>>

\* The CC3000 reconnects only when connectToAP tells it to.
WifiDrops ==
  /\ "wifi" \in Faults
  /\ wifi = "connected"
  /\ wifi' = "disconnected"
  /\ UNCHANGED <<idle, expired, reader, link, world, audit>>

Request == CASE pc = "archive" -> {log[recno]}
             [] pc = "lookup"  -> {tag}
             [] OTHER          -> {}

\* The server handles a request and answers with status 200.
Serve ==
  /\ link = Sent /\ wifi = "connected"
  /\ \E c \in Commands : link' = Reply(pc = "lookup" /\ tag \in members, c)
  /\ archived' = archived \cup (IF pc = "archive" THEN Request ELSE {})
  /\ confirmed' = confirmed \cup (Request \cap members)
  /\ UNCHANGED <<idle, expired, reader, wifi, world, owed, unsaved, bounced, ordered>>

\* The server, or something before it, answers with another status.
Refuse ==
  /\ "refusal" \in Faults
  /\ link = Sent /\ wifi = "connected"
  /\ link' = Refused
  /\ bounced' = bounced \cup Request
  /\ UNCHANGED <<idle, expired, reader, wifi, world, confirmed, owed, archived,
                 unsaved, ordered>>

\* No address, no connection, or no answer in time: before or after the server.
Lose ==
  /\ link \in ({Sent} \cup Answers) \ {Failed}
  /\ "loss" \in Faults \/ wifi # "connected"
  /\ link' = Failed
  /\ UNCHANGED <<idle, expired, reader, wifi, world, audit>>

\* The supply fails and returns: setup() opens the tables, the rest is new.
PowerCycle ==
  /\ "power" \in Faults
  /\ losses < MaxPowerLosses
  /\ losses' = losses + 1
  /\ pc' = "setup"
  /\ active' = FALSE /\ expired' = FALSE /\ relay' = 0
  /\ user' = None /\ opener' = None /\ tag' = None
  /\ online' = FALSE /\ reported' = FALSE
  /\ netSetup' = FALSE /\ cmd' = "none" /\ hasCmd' = FALSE
  /\ recno' = 1
  /\ reader' = None /\ link' = NoLink /\ wifi' = "disconnected"
  /\ ordered' = FALSE
  /\ UNCHANGED <<tables, members, visits, confirmed, owed, archived, unsaved, bounced>>

-----------------------------------------------------------------------------

Loop == \/ CheckConfigure \/ SkipConfigure \/ ReadStatus \/ SkipStatus
        \/ Beat \/ SkipBeat \/ BootDone
        \/ NoTag \/ AdmitLocal \/ AskServer \/ DenyOffline \/ LookupDone \/ Deny
        \/ HoldOpen \/ KeepLocked
        \/ StartUpload \/ SkipUpload \/ SendArchive \/ UploadDone \/ ArchiveDone
        \/ ActOnCmd \/ Faulted

World == \/ \E t \in Tags : Present(t) \/ Enrol(t)
         \/ Expire \/ WifiDrops \/ Serve \/ Refuse \/ Lose \/ PowerCycle

Next == Loop \/ World

Spec == Init /\ [][Next]_vars

(***************************************************************************)
(* The loop runs, an exchange ends, time passes.  The loop tests each of   *)
(* its timers again and again, and each is over at some of the tests:      *)
(* strong fairness of the step it guards.                                  *)
(***************************************************************************)
Fairness == /\ WF_vars(Loop)
            /\ WF_vars(Serve \/ Refuse \/ Lose)
            /\ WF_vars(Expire)
            /\ SF_vars(CheckConfigure)
            /\ SF_vars(ReadStatus)
            /\ SF_vars(StartUpload)

FairSpec == Spec /\ Fairness

-----------------------------------------------------------------------------

Stored(table) == {table[r] : r \in 1..Len(table)}

TypeOK ==
  /\ pc \in {"setup", "status", "beat", "boot", "read", "lookup", "deny", "relay",
            "upload", "record", "archive", "cmd", "hung"}
  /\ {active, expired, online, reported, netSetup, hasCmd, ordered} \subseteq BOOLEAN
  /\ relay \in {0, 1}
  /\ {user, tag, reader, opener} \subseteq Tags \cup {None}
  /\ cmd \in Commands
  /\ recno \in 1..LogLimit+1
  /\ db \in Seq(Tags) /\ Len(db) <= MemberLimit
  /\ log \in Seq(Visit) /\ Len(log) <= LogLimit
  /\ link \in {NoLink, Sent} \cup Answers
  /\ wifi \in {"disconnected", "connected"}
  /\ members \subseteq Tags /\ confirmed \subseteq Tags
  /\ visits \in 0..MaxVisits /\ losses \in 0..MaxPowerLosses
  /\ owed \subseteq Visit /\ archived \subseteq Visit /\ unsaved \subseteq Visit
  /\ bounced \subseteq Tags \cup Visit

\* The door opens only for a tag the server called valid since the member table
\* was last wiped (loop 311-335, searchLocalDB, searchRemoteDB), or whose lookup
\* it answered with a status other than 200, when the verdict is read from no
\* reply at all.  So clear-memory does lock a revoked tag out.
OnlyConfirmedOpens == relay = 1 => opener \in confirmed \cup bounced

\* Whoever is let in is greeted by the right name, also when another tag was
\* looked up or denied while the door was open (351-370, 523-560).
WelcomeNamesOpener == pc = "relay" /\ active => user = opener

\* The member table is a cache of the server's verdicts: nothing else gets into
\* it, and no tag twice, so that deleting one record forgets the tag (590-596).
CacheSound == /\ Stored(db) \subseteq confirmed \cup bounced
              /\ \A q, r \in 1..Len(db) : db[q] = db[r] => q = r

\* An admission from the local table stays in the log until the server has it
\* (317-324, 606-628), whatever exchanges and power do while uploadLogFiles
\* deletes records under its own index.  Two ways remain to lose one: no room in
\* the log, or an answer with another status, which counts as sent.
AuditComplete == owed \subseteq Stored(log) \cup archived \cup unsaved \cup bounced

\* A tag leaves the member table only by a clear-memory command, each command
\* wipes the table once (419-431), and no verdict of the server removes a tag:
\* the branch of searchRemoteDB that would (578-581) follows a search that failed.
ForgetsOnlyOnCommand == [][Len(db') < Len(db) => ordered]_vars

\* The door does not stay open: the pin falls although only a later pass of the
\* loop lowers it, and exchanges and denials come in between (359-379).
Relocks == relay = 1 ~> relay = 0

\* Once WiFi stays up and exchanges are answered, every admission in the log
\* reaches the server, although a pass of uploadLogFiles skips the record after
\* each one it deletes (606-628).
Uploaded ==
  <>[](wifi = "connected" /\ link # Failed)
    => \A r \in Visit : r \in owed \ unsaved ~> r \in archived
=============================================================================
