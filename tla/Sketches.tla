------------------------------- MODULE Sketches -------------------------------
(***************************************************************************)
(* The example sketches of the Adafruit library, on the chip of WiFi and    *)
(* the sockets of Sockets: WebClient, GeoLocation, buildtest, ntpTest,      *)
(* InternetTime, SendTweet, EchoServer and ChatServer.  Each setup() is a   *)
(* plan of stages that most of them share; a stage that fails halts the     *)
(* sketch, or ends its setup(), and its loop() is then empty.               *)
(***************************************************************************)
EXTENDS Server

CONSTANTS
    Tries,   \* of SendTweet to get the time at first: 5
    Day      \* rounds between two requests of the time

ASSUME SketchesAssumption == Tries \in Nat \ {0} /\ Day \in Nat \ {0}

\* setup() of each sketch; the last two go on in Server.
WebClient ==
    <<"begin", "join", "dhcp", "details", "resolve", "page", "leave", "end">>
GeoLocation ==
    <<"begin", "join", "dhcp", "details", "resolve", "page", "leave", "end">>
buildtest ==
    <<"begin", "version", "mac", "scan", "profiles", "join", "dhcp", "details", "resolve",
      "ping", "leave", "end">>
ntpTest ==
    <<"begin", "version", "profiles", "join", "dhcp", "sntp", "leave", "end">>
InternetTime ==
    <<"begin", "version", "mac", "profiles", "join", "dhcp", "details", "round">>
SendTweet ==
    <<"begin", "version", "profiles", "join", "dhcp", "details", "time">>
EchoServer == <<"begin", "join", "dhcp", "details", "listen">>
ChatServer == <<"begin", "join", "dhcp", "details", "listen">>

Plan == [web |-> WebClient, geo |-> GeoLocation, build |-> buildtest, ntp |-> ntpTest,
         internet |-> InternetTime, tweet |-> SendTweet, echo |-> EchoServer,
         chat |-> ChatServer]

VARIABLES
    tries,       \* what is left of the first tries of SendTweet
    countdown,   \* rounds until the time is asked again
    got,         \* the last getTime had an answer
    depth        \* of jsonParse

sketchVars == <<tries, countdown, got, depth>>
all == <<vars, socketVars, serverVars, sketchVars>>

SketchInit ==
    /\ Init /\ SocketInit /\ ServerInit
    /\ tries = IF program = "tweet" THEN Tries ELSE 0
    /\ countdown = IF program = "tweet" THEN Day - 1 ELSE 0
    /\ got = FALSE /\ depth = 0

\* The sketch is at a stage of its plan, and goes on to the next.
At(here) ==
    /\ pc = here /\ program \in DOMAIN Plan
    /\ UNCHANGED <<program, bbwifi, serverVars>>

GoesOn(here) ==
    LET plan == Plan[program] IN
    \E i \in 1..(Len(plan) - 1) : plan[i] = here /\ pc' = plan[i + 1]

Quiet == UNCHANGED <<initialised, bits, chip, events>>
NoTraffic == UNCHANGED <<socketVars, sketchVars>>

---------------------------------------------------------------------------
(* The stages on the chip alone.                                           *)
Begins ==
    /\ At("begin")
    /\ \/ begin(FALSE) /\ initialised' = TRUE /\ GoesOn("begin") /\ UNCHANGED mishaps
       \/ Fails
    /\ NoTraffic

\* checkFirmwareVersion: too old, or not to be read.
ChecksVersion ==
    /\ At("version")
    /\ \/ Ask /\ GoesOn("version") /\ UNCHANGED <<initialised, chip, mishaps>>
       \/ Fails
    /\ NoTraffic

\* The MAC address, the networks around and the ping are only printed.
Looks(here) ==
    /\ At(here)
    /\ GoesOn(here)
    /\ Ask
    /\ UNCHANGED <<initialised, chip, mishaps>>
    /\ NoTraffic

displayMACAddress == Looks("mac")
listSSIDResults == Looks("scan")
ping == Looks("ping")

deleteProfiles ==
    /\ At("profiles")
    /\ \/ /\ Ask
          /\ policy' = "command" /\ profile' = FALSE
          /\ GoesOn("profiles")
          /\ UNCHANGED <<initialised, ap, lease, smart, mishaps>>
       \/ Fails
    /\ NoTraffic

Joins ==
    /\ At("join")
    /\ connectToAP
    /\ UNCHANGED initialised
    /\ NoTraffic

WaitsToJoin ==
    /\ At("joining")
    /\ \/ checkConnected /\ pc' = "joined" /\ UNCHANGED mishaps
       \/ TimesOut /\ pc' = "halt"
    /\ Quiet /\ NoTraffic

JoinsAgain ==
    /\ At("joined")
    /\ IF checkConnected THEN GoesOn("join") ELSE pc' = "join"
    /\ Quiet /\ NoTraffic
    /\ UNCHANGED mishaps

\* For a minute (GeoLocation, SendTweet) or for ever.
Requests ==
    /\ At("dhcp")
    /\ \/ checkDHCP /\ GoesOn("dhcp") /\ UNCHANGED mishaps
       \/ program \in {"geo", "tweet"} /\ TimesOut /\ pc' = "halt"
    /\ Quiet /\ NoTraffic

ShowsDetails ==
    /\ At("details")
    /\ Details /\ Ask
    /\ GoesOn("details")
    /\ UNCHANGED <<initialised, chip, mishaps>>
    /\ NoTraffic

\* It asks while the flags say that it can.
getHostByName == initialised /\ checkConnected /\ checkDHCP

Resolves ==
    /\ At("resolve")
    /\ \/ getHostByName /\ Networked /\ GoesOn("resolve") /\ UNCHANGED mishaps
       \/ program = "geo" /\ TimesOut /\ pc' = "halt"
    /\ Quiet /\ NoTraffic

Leaves ==
    /\ At("leave")
    /\ disconnect
    /\ GoesOn("leave")
    /\ UNCHANGED <<initialised, mishaps>>
    /\ NoTraffic

---------------------------------------------------------------------------
(* A page: one connection (WebClient, GeoLocation), or fifteen seconds of   *)
(* tries (SendTweet, which looks at no result before).                      *)
Opening == Byte(0, 1)
Closing == Byte(0, 2)
Page == <<Opening, Closing>>

ConnectsTCP ==
    /\ At("page")
    /\ Connects(1, "open") \/ ConnectFails(1)
    /\ pc' = "connected"
    /\ Quiet /\ UNCHANGED sketchVars

AfterPage == IF program = "tweet" THEN pc' = "hour" ELSE GoesOn("page")

\* Fifteen seconds; without a network every further try would fail.
TriesAgain(again, after) ==
    \/ Networked /\ pc' = again /\ UNCHANGED mishaps
    \/ TimesOut /\ pc' = after

ChecksConnection ==
    /\ At("connected")
    /\ \/ IsConnected(1) /\ pc' = "request" /\ UNCHANGED mishaps
       \/ /\ NotConnected(1)
          /\ IF program = "tweet"
             THEN TriesAgain("page", "hour")
             ELSE pc' = "halt" /\ UNCHANGED mishaps
    /\ Quiet /\ UNCHANGED sketchVars

SendsRequest ==
    /\ At("request")
    /\ IF conn[Socket(1)].state = "open" THEN Asks(1, Page)
       ELSE UNCHANGED <<socketVars, mishaps>>
    /\ depth' = 0
    /\ pc' = "reading"
    /\ Quiet /\ UNCHANGED <<tries, countdown, got>>

(* WebClient reads what is there until the peer is gone or three seconds    *)
(* passed; the others read until they have seen enough.  jsonParse goes on  *)
(* at the end of the data, when an object is still open.                    *)
Enough(c) ==
    \/ program = "geo" /\ (c = Closing \/ (c = NUL /\ depth = 0))
    \/ program = "tweet" /\ c \in {Opening, NUL}

jsonParse(c) ==
    depth' = IF program # "geo" THEN depth
             ELSE IF c = Opening THEN 1 ELSE IF c = Closing THEN 0 ELSE depth

ReadsPage ==
    /\ At("reading")
    /\ program = "web" => TRUE \in available(1)
    /\ read(1)
    /\ jsonParse(Char(1))
    /\ pc' = IF Enough(Char(1)) THEN "close" ELSE "reading"
    /\ Quiet /\ UNCHANGED <<tries, countdown, got, mishaps>>

StopsReading ==
    /\ At("reading") /\ program = "web"
    /\ \/ NotConnected(1) /\ UNCHANGED mishaps
       \/ /\ IsConnected(1) /\ FALSE \in available(1)
          /\ GivesUpOn(Socket(1))
    /\ pc' = "close"
    /\ Quiet /\ UNCHANGED sketchVars

ClosesPage ==
    /\ At("close")
    /\ close(1)
    /\ AfterPage
    /\ Quiet /\ UNCHANGED <<sketchVars, mishaps>>

---------------------------------------------------------------------------
(* getTime: a name, a connection, a datagram and its answer.               *)
Stamp == <<Byte(0, 3)>>

FindsTimeServer ==
    /\ At("time")
    /\ \/ getHostByName /\ Networked /\ pc' = "timeconnect" /\ UNCHANGED <<got, mishaps>>
       \/ TimesOut /\ got' = FALSE /\ pc' = "timed"
    /\ Quiet /\ UNCHANGED <<socketVars, tries, countdown, depth>>

ConnectsUDP ==
    /\ At("timeconnect")
    /\ Connects(1, "udp") \/ ConnectFails(1)
    /\ pc' = "timeconnected"
    /\ Quiet /\ UNCHANGED sketchVars

AsksTime ==
    /\ At("timeconnected")
    /\ \/ StillThere(1) /\ Asks(1, Stamp) /\ pc' = "timewait" /\ UNCHANGED got
       \/ NotConnected(1) /\ TriesAgain("timeconnect", "timed") /\ got' = FALSE
    /\ Quiet /\ UNCHANGED <<tries, countdown, depth>>

\* The answer, or fifteen seconds without one.
TimeOrNot ==
    /\ At("timewait")
    /\ got' = (TRUE \in available(1))
    /\ IF got' THEN UNCHANGED mishaps ELSE GivesUpOn(Socket(1))
    /\ close(1)
    /\ pc' = "timed"
    /\ Quiet /\ UNCHANGED <<tries, countdown, depth>>

(* What the sketches do with it.  SendTweet tries five times in setup().    *)
TriesLeft_NotCounted == IF got THEN 0 ELSE tries

TriesLeft == IF got \/ tries = 0 THEN 0 ELSE tries - 1

Timed ==
    /\ At("timed")
    /\ tries' = TriesLeft
    /\ countdown' = IF got /\ tries = 0 THEN Day - 1 ELSE countdown
    /\ pc' = IF tries' > 0 THEN "time" ELSE "round"
    /\ Quiet /\ UNCHANGED <<socketVars, got, depth, mishaps>>

\* loop() of InternetTime and SendTweet: the time once a day.
PollsTime == IF countdown = 0 THEN pc' = "time" /\ UNCHANGED countdown
             ELSE countdown' = countdown - 1 /\ pc' = "round"

Round ==
    /\ At("round")
    /\ IF program = "tweet" THEN pc' = "page" /\ UNCHANGED countdown ELSE PollsTime
    /\ Quiet /\ UNCHANGED <<socketVars, tries, got, depth, mishaps>>

HourLater ==
    /\ At("hour")
    /\ PollsTime
    /\ Quiet /\ UNCHANGED <<socketVars, tries, got, depth, mishaps>>

---------------------------------------------------------------------------
(* sntp::UpdateNTPTime.  The delegating constructor leaves the pools of the *)
(* object empty, so the one server of the sketch is asked for ever.         *)
OpensNTP ==
    /\ At("sntp")
    /\ \/ Creates(1, "udp") /\ pc' = "ask"
       \/ Mishap /\ GoesOn("sntp") /\ UNCHANGED socketVars
    /\ Quiet /\ UNCHANGED sketchVars

SNTP_GetTime ==
    /\ At("ask")
    /\ Networked
    /\ Asks(1, Stamp)
    /\ pc' = "recvfrom"
    /\ Quiet /\ UNCHANGED sketchVars

HearsNTP ==
    /\ At("recvfrom")
    /\ IF TRUE \in available(1)
       THEN close(1) /\ GoesOn("sntp") /\ UNCHANGED mishaps
       ELSE /\ GivesUpOn(Socket(1))
            /\ pc' = "ask"
            /\ UNCHANGED socketVars
    /\ Quiet /\ UNCHANGED sketchVars
---------------------------------------------------------------------------
NetworkStage ==
    \/ Begins \/ ChecksVersion \/ displayMACAddress \/ listSSIDResults \/ ping
    \/ deleteProfiles \/ Joins \/ WaitsToJoin
    \/ JoinsAgain \/ Requests \/ ShowsDetails \/ Resolves \/ Leaves

Errand ==
    \/ ConnectsTCP \/ ChecksConnection \/ SendsRequest \/ ReadsPage \/ StopsReading
    \/ ClosesPage \/ FindsTimeServer \/ ConnectsUDP \/ AsksTime \/ TimeOrNot \/ Timed
    \/ Round \/ HourLater \/ OpensNTP \/ SNTP_GetTime \/ HearsNTP

Others == <<socketVars, serverVars, sketchVars>>

SketchesNext ==
    \/ Next /\ UNCHANGED Others
    \/ NetworkStage
    \/ Errand
    \/ ServerStep /\ UNCHANGED sketchVars
    \/ (PeerSends \/ PeerLeaves) /\ UNCHANGED <<serverVars, sketchVars>>

Alone(A) == A /\ UNCHANGED Others

(* The fairness of WiFi; the sketches run, and what is not lost arrives.    *)
(* A chip that hears nothing of a peer for a minute closes its socket.      *)
SketchesSpec ==
    /\ SketchInit /\ [][SketchesNext]_all
    /\ WF_all(Alone(Sketch)) /\ WF_all(Alone(Handle))
    /\ SF_all(Alone(checkConfigure))
    /\ WF_all(Alone(FindsAp)) /\ WF_all(Alone(Associates))
    /\ WF_all(Alone(GetsLease)) /\ WF_all(Alone(HearsApp))
    /\ WF_all(NetworkStage) /\ WF_all(Errand)
    /\ WF_all(ServerStep /\ UNCHANGED sketchVars)
    /\ WF_all(PeerSends /\ UNCHANGED <<serverVars, sketchVars>>)
    /\ WF_all(PeerLeaves /\ UNCHANGED <<serverVars, sketchVars>>)

---------------------------------------------------------------------------
InUse == SocketIds \ Free
Held(s) == s = listenSocket \/ \E i \in 1..Slots : s = Socket(i)

(* The chip's few sockets are kept: no number is in two places, none in use *)
(* is forgotten but the one a failed begin() of the server gave up, and a   *)
(* sketch that is through with an errand has closed what it opened.         *)
SocketsKept ==
    /\ \A i \in 1..Slots : Socket(i) # None =>
          /\ Socket(i) \in InUse \ {listenSocket}
          /\ \A j \in 1..Slots : Socket(j) = Socket(i) => i = j
    /\ \A s \in InUse : Held(s) \/ conn[s].state = "created"
    /\ pc \in {"end", "halt", "round", "hour"} => InUse = {}

(* When nothing goes wrong any more every sketch ends or begins a new round *)
(* again and again, but for the waits the code leaves without a limit when  *)
(* the connection is lost, and a parser that goes on behind the end.        *)
WaitsForEver == pc \in {"dhcp", "details", "resolve", "ask"} /\ ap = "disconnected"
ParsesForEver == pc = "reading" /\ program = "geo" /\ Socket(1) = None

SketchEnds ==
    program \in DOMAIN Plan ~>
        (pc \in {"end", "halt", "round", "accept"} \/ WaitsForEver \/ ParsesForEver)
=============================================================================
