-------------------------------- MODULE WiFi --------------------------------
(***************************************************************************)
(* How a sketch gets the CC3000 on the network and notices that it is not:  *)
(* BBWiFi::checkConfigure and isNetworkReady, as Door_Control calls them,   *)
(* and the SmartConfig examples, on the class Adafruit_CC3000.  The chip    *)
(* joins, gets its address and loses both in its own time; what it reports  *)
(* is put into the flags of cc3000Bitset by a callback in the interrupt.    *)
(* A command handles the reports that came before its answer, as CC3000     *)
(* shows, so a command is one step here.                                    *)
(***************************************************************************)
EXTENDS Naturals, Sequences, SequencesExt

CONSTANTS
    Programs,   \* the sketches: "door", "create", "reconnect", those of Sketches
    Mishaps     \* failures, late answers and lost connections (a bound for TLC)

ASSUME WiFiAssumption == Mishaps \in Nat

VARIABLES
    program,      \* the sketch that runs
    pc,           \* where it is
    initialised,  \* Adafruit_CC3000::_initialised
    wifi_initialized, wifi_connected, dhcp_lookup_complete, networkSetup,
    online,       \* the result of isNetworkReady, and the LED
    bits,         \* cc3000Bitset
    ap,           \* the chip: its WLAN status, or off
    lease,        \* the chip has an address
    policy,       \* the chip joins: on command, or by its profiles
    profile,      \* the chip has a profile
    smart,        \* the chip listens for the SmartConfig app
    events,       \* its reports the host has not seen
    mishaps       \* what went wrong so far

bbwifi == <<wifi_initialized, wifi_connected, dhcp_lookup_complete, networkSetup, online>>
chip   == <<ap, lease, policy, profile, smart>>
vars   == <<program, pc, initialised, bbwifi, bits, chip, events, mishaps>>

Init ==
    /\ program \in Programs
    /\ pc = IF program = "door" THEN "loop" ELSE "begin"
    /\ initialised = FALSE
    /\ wifi_initialized = FALSE /\ wifi_connected = FALSE
    /\ dhcp_lookup_complete = FALSE /\ networkSetup = FALSE /\ online = FALSE
    /\ bits = {}
    /\ ap = "off" /\ lease = FALSE /\ policy = "command"
    /\ profile = (program = "reconnect")
    /\ smart = FALSE
    /\ events = <<>>
    /\ mishaps = 0

Mishap == mishaps < Mishaps /\ mishaps' = mishaps + 1

\* A wait ends because the chip has given up, or before it answers.
TimesOut == Mishap \/ (ap = "disconnected" /\ UNCHANGED mishaps)

---------------------------------------------------------------------------
(* The callback of the driver, and its flags.                              *)
Flags == {"IsConnected", "HasDHCP", "IsSmartConfigFinished"}

OnDisconnect_KeepsLease == {"IsConnected"}

OnDisconnect == {"IsConnected", "HasDHCP"}

SetBy == [SIMPLE_CONFIG_DONE |-> "IsSmartConfigFinished",
          CONNECT |-> "IsConnected", DHCP |-> "HasDHCP"]

CC3000_UsynchCallback(flags, e) ==
    IF e = "DISCONNECT" THEN flags \ OnDisconnect ELSE flags \cup {SetBy[e]}

checkConnected == "IsConnected" \in bits
checkDHCP == "HasDHCP" \in bits
checkSmartConfigFinished == "IsSmartConfigFinished" \in bits

\* A flag after all reports: one set it, or it was, and none after that cleared it.
Flushed(flags) ==
    {f \in Flags :
        LET KeptFrom(k) ==
                \A i \in k..Len(events) : f \in CC3000_UsynchCallback({f}, events[i])
        IN  \/ f \in flags /\ KeptFrom(1)
            \/ \E k \in 1..Len(events) :
                  f \in CC3000_UsynchCallback({}, events[k]) /\ KeptFrom(k + 1)}

\* A command that leaves the chip as it is.
Ask == bits' = Flushed(bits) /\ events' = <<>>

\* The interrupt, outside a command.
Handle ==
    /\ events # <<>>
    /\ bits' = CC3000_UsynchCallback(bits, Head(events))
    /\ events' = Tail(events)
    /\ UNCHANGED <<program, pc, initialised, bbwifi, chip, mishaps>>

---------------------------------------------------------------------------
(* The class Adafruit_CC3000.                                              *)
\* A chip that starts forgets its connection and what it wanted to say.
wlan_start(newPolicy, newProfile) ==
    /\ ap' = IF newPolicy = "profiles" /\ newProfile THEN "scanning" ELSE "disconnected"
    /\ lease' = FALSE /\ smart' = FALSE
    /\ policy' = newPolicy /\ profile' = newProfile
    /\ events' = <<>>

\* begin(useSmartConfigData): the policy, the profiles, the event mask.
begin(useSmartConfigData) ==
    /\ UNCHANGED bits
    /\ IF useSmartConfigData THEN wlan_start("profiles", profile)
                             ELSE wlan_start("command", FALSE)

getStatus == IF initialised THEN ap ELSE "disconnected"

getIPAddress == initialised /\ checkConnected /\ checkDHCP /\ lease

\* A command that ends a connection reports it before it answers.
AskAndLeave ==
    /\ bits' = IF ap = "connected" THEN CC3000_UsynchCallback(Flushed(bits), "DISCONNECT")
               ELSE Flushed(bits)
    /\ events' = <<>>

\* connectOpen: the policy, then wlan_connect.
wlan_connect ==
    /\ ap' = "scanning" /\ lease' = FALSE /\ policy' = "command"
    /\ AskAndLeave
    /\ UNCHANGED <<profile, smart>>

disconnect ==
    /\ ap' = "disconnected" /\ lease' = FALSE
    /\ AskAndLeave
    /\ UNCHANGED <<policy, profile, smart>>

---------------------------------------------------------------------------
(* BBWiFi.                                                                 *)
Door(here) == pc = here /\ program = "door" /\ UNCHANGED program

checkConfigure ==
    /\ Door("loop")
    /\ pc' = IF networkSetup THEN "status1" ELSE "begin"
    /\ UNCHANGED <<initialised, bbwifi, bits, chip, events, mishaps>>

\* The loop tries to set up the network every five minutes only.
NotYet ==
    /\ Door("loop")
    /\ ~networkSetup
    /\ pc' = "status1"
    /\ UNCHANGED <<initialised, bbwifi, bits, chip, events, mishaps>>

Initialise ==
    /\ Door("begin")
    /\ \/ /\ ~wifi_initialized
          /\ begin(FALSE)
          /\ initialised' = TRUE /\ wifi_initialized' = TRUE
          /\ pc' = "join"
          /\ UNCHANGED mishaps
       \/ /\ ~wifi_initialized
          /\ Mishap
          /\ begin(FALSE)
          /\ pc' = "status1"
          /\ UNCHANGED <<initialised, wifi_initialized>>
       \/ /\ wifi_initialized
          /\ pc' = "join"
          /\ UNCHANGED <<initialised, wifi_initialized, bits, chip, events, mishaps>>
    /\ UNCHANGED <<wifi_connected, dhcp_lookup_complete, networkSetup, online>>

Join ==
    /\ Door("join")
    /\ pc' = IF wifi_connected THEN "dhcp" ELSE "connect"
    /\ UNCHANGED <<initialised, bbwifi, bits, chip, events, mishaps>>

(* connectToAP.  A command that fails goes to the condition of the loop.   *)
connectToAP ==
    \/ /\ wlan_connect
       /\ pc' = "joining"
       /\ UNCHANGED mishaps
    \/ /\ Mishap
       /\ Ask
       /\ pc' = "joined"
       /\ UNCHANGED chip

Connect ==
    /\ Door("connect")
    /\ connectToAP
    /\ UNCHANGED <<initialised, bbwifi>>

\* Ten seconds; an answer in the last ten milliseconds counts as none.
WaitToJoin ==
    /\ Door("joining")
    /\ \/ checkConnected /\ pc' = "joined" /\ UNCHANGED mishaps
       \/ TimesOut /\ pc' = "status1"
    /\ UNCHANGED <<initialised, bbwifi, bits, chip, events>>

JoinedOrAgain ==
    /\ Door("joined")
    /\ IF checkConnected THEN pc' = "dhcp" /\ wifi_connected' = TRUE
       ELSE pc' = "connect" /\ UNCHANGED wifi_connected
    /\ UNCHANGED <<initialised, wifi_initialized, dhcp_lookup_complete, networkSetup,
                   online, bits, chip, events, mishaps>>

WaitForAddress ==
    /\ Door("dhcp")
    /\ IF dhcp_lookup_complete
       THEN /\ networkSetup' = TRUE /\ pc' = "status1"
            /\ UNCHANGED mishaps
       ELSE /\ UNCHANGED networkSetup
            /\ pc' = "address"
            /\ (checkDHCP /\ UNCHANGED mishaps) \/ TimesOut
    /\ UNCHANGED <<initialised, wifi_initialized, wifi_connected, dhcp_lookup_complete,
                   online, bits, chip, events>>

AddressOrTimeout ==
    /\ Door("address")
    /\ dhcp_lookup_complete' = checkDHCP
    /\ pc' = IF checkDHCP THEN "display" ELSE "status1"
    /\ UNCHANGED <<initialised, wifi_initialized, wifi_connected, networkSetup, online,
                   bits, chip, events, mishaps>>

\* displayConnectionDetails, again and again until it has something to show.
Details == getIPAddress

displayConnectionDetails ==
    /\ Door("display")
    /\ Details
    /\ Ask
    /\ networkSetup' = TRUE
    /\ pc' = "status1"
    /\ UNCHANGED <<initialised, wifi_initialized, wifi_connected, dhcp_lookup_complete,
                   online, chip, mishaps>>

(* isNetworkReady asks for the status once for each value it compares it    *)
(* with; the chip may change in between.                                    *)
Compared == [status1 |-> "disconnected", status2 |-> "scanning",
             status3 |-> "connecting", status4 |-> "connected"]

NextRead == [status1 |-> "status2", status2 |-> "status3",
             status3 |-> "status4", status4 |-> "loop"]

Noticed_KeepsJoined == networkSetup' = FALSE /\ UNCHANGED wifi_connected

Noticed == networkSetup' = FALSE /\ wifi_connected' = FALSE

isNetworkReady ==
    /\ \E here \in DOMAIN Compared :
          /\ Door(here)
          /\ IF getStatus = Compared[here]
             THEN /\ pc' = "loop"
                  /\ online' = (here = "status4")
                  /\ IF here = "status1" THEN Noticed
                     ELSE UNCHANGED <<networkSetup, wifi_connected>>
             ELSE /\ pc' = NextRead[here]
                  /\ online' = IF here = "status4" THEN FALSE ELSE online
                  /\ UNCHANGED <<networkSetup, wifi_connected>>
    /\ Ask
    /\ UNCHANGED <<initialised, wifi_initialized, dhcp_lookup_complete, chip, mishaps>>

---------------------------------------------------------------------------
(* SmartConfigCreate and SmartConfigReconnect.                             *)
Examples == {"create", "reconnect"}
Example(here) == pc = here /\ program \in Examples /\ UNCHANGED <<program, bbwifi>>

Halts == Ask /\ pc' = "halt" /\ UNCHANGED <<initialised, chip>>
Fails == Mishap /\ Halts

setup ==
    /\ Example("begin")
    /\ \/ /\ begin(program = "reconnect")
          /\ initialised' = TRUE
          /\ pc' = IF program = "create" THEN "configure" ELSE "connecting"
          /\ UNCHANGED mishaps
       \/ Fails

\* startSmartConfig: the flags are cleared, then policy and profiles.
ForgetProfiles ==
    /\ Example("configure")
    /\ \/ /\ bits' = Flushed({}) /\ events' = <<>>
          /\ policy' = "command" /\ profile' = FALSE
          /\ pc' = "leave"
          /\ UNCHANGED <<initialised, ap, lease, smart, mishaps>>
       \/ Fails

LeaveNetwork ==
    /\ Example("leave")
    /\ IF checkConnected
       THEN disconnect /\ UNCHANGED <<pc, mishaps>>
       ELSE \/ /\ wlan_start("command", FALSE)
               /\ UNCHANGED <<bits, mishaps>>
               /\ pc' = "prefix"
            \/ Fails
    /\ UNCHANGED initialised

startSmartConfig ==
    /\ Example("prefix")
    /\ \/ /\ Ask
          /\ smart' = TRUE
          /\ pc' = "smart"
          /\ UNCHANGED <<initialised, ap, lease, policy, profile, mishaps>>
       \/ Fails

ConfigDone ==
    /\ Example("smart")
    /\ \/ /\ checkSmartConfigFinished
          /\ wlan_start("profiles", profile)
          /\ pc' = "connecting"
          /\ UNCHANGED <<initialised, bits, mishaps>>
       \/ Fails

WaitToConnect ==
    /\ Example("connecting")
    /\ \/ /\ checkConnected
          /\ pc' = "lease"
          /\ UNCHANGED <<initialised, bits, chip, events, mishaps>>
       \/ TimesOut /\ Halts

\* Two loops without a timeout, then the connection is closed.
ShowDetails ==
    /\ Example("lease")
    /\ checkDHCP
    /\ Details
    /\ disconnect
    /\ pc' = "done"
    /\ UNCHANGED <<initialised, mishaps>>

---------------------------------------------------------------------------
(* The chip.                                                               *)
host == <<program, pc, initialised, bbwifi, bits>>

Reports(e) == events' = Append(events, e)

FindsAp ==
    /\ ap = "scanning"
    /\ ap' = "connecting"
    /\ UNCHANGED <<host, lease, policy, profile, smart, events, mishaps>>

Associates ==
    /\ ap = "connecting"
    /\ ap' = "connected"
    /\ Reports("CONNECT")
    /\ UNCHANGED <<host, lease, policy, profile, smart, mishaps>>

GetsLease ==
    /\ ap = "connected" /\ ~lease
    /\ lease' = TRUE
    /\ Reports("DHCP")
    /\ UNCHANGED <<host, ap, policy, profile, smart, mishaps>>

\* A chip with profiles tries again by itself.
LosesAp ==
    /\ ap \in {"scanning", "connecting", "connected"}
    /\ Mishap
    /\ ap' = IF policy = "profiles" THEN "scanning" ELSE "disconnected"
    /\ lease' = FALSE
    /\ Reports("DISCONNECT")
    /\ UNCHANGED <<host, policy, profile, smart>>

HearsApp ==
    /\ smart
    /\ smart' = FALSE /\ profile' = TRUE
    /\ Reports("SIMPLE_CONFIG_DONE")
    /\ UNCHANGED <<host, ap, lease, policy, mishaps>>

---------------------------------------------------------------------------
Sketch ==
    \/ checkConfigure \/ NotYet \/ Initialise \/ Join \/ Connect \/ WaitToJoin \/ JoinedOrAgain
    \/ WaitForAddress \/ AddressOrTimeout \/ displayConnectionDetails \/ isNetworkReady
    \/ setup \/ ForgetProfiles \/ LeaveNetwork \/ startSmartConfig \/ ConfigDone
    \/ WaitToConnect \/ ShowDetails

Next ==
    \/ Sketch \/ Handle
    \/ FindsAp \/ Associates \/ GetsLease \/ LosesAp \/ HearsApp

Spec == Init /\ [][Next]_vars

\* The sketch runs, its five minutes pass, the interrupt is taken, the access point and the DHCP
\* server answer once the mishaps are over.
FairSpec ==
    /\ Spec
    /\ WF_vars(Sketch) /\ WF_vars(Handle)
    /\ SF_vars(checkConfigure)
    /\ WF_vars(FindsAp) /\ WF_vars(Associates) /\ WF_vars(GetsLease) /\ WF_vars(HearsApp)

---------------------------------------------------------------------------
(* Flags, status and places have their types; a sketch that is connected   *)
(* has initialised the chip.                                               *)
TypeOK ==
    /\ program \in Programs
    /\ program \in Examples \cup {"door"} => pc \in {"loop", "begin", "join", "connect", "joining", "joined", "dhcp",
               "address", "display", "halt", "configure", "leave", "prefix", "smart",
               "connecting", "lease", "done"} \cup DOMAIN Compared
    /\ initialised \in BOOLEAN /\ wifi_initialized = (initialised /\ program = "door")
    /\ wifi_connected \in BOOLEAN /\ dhcp_lookup_complete \in BOOLEAN
    /\ networkSetup \in BOOLEAN /\ online \in BOOLEAN
    /\ bits \subseteq Flags
    /\ ap \in {"off", "scanning", "connecting", "connected", "disconnected"}
    /\ lease \in BOOLEAN /\ policy \in {"command", "profiles"}
    /\ profile \in BOOLEAN /\ smart \in BOOLEAN
    /\ events \in Seq({"CONNECT", "DISCONNECT", "DHCP", "SIMPLE_CONFIG_DONE"})
    /\ mishaps \in 0..Mishaps

(* Once the callback has seen every report, the flags are what the chip is: *)
(* no restart, reconnection or order of reports leaves a stale one behind.  *)
FlagsFollowChip ==
    /\ TypeOK
    /\ ("IsConnected" \in Flushed(bits)) <=> (ap = "connected")
    /\ ("HasDHCP" \in Flushed(bits)) <=> lease

(* When nothing goes wrong any more, the controller is online for good, or  *)
(* its loop waits for details of a connection that was lost in that loop.   *)
StuckInDisplay == pc = "display" /\ ap = "disconnected"

ComesOnline == program = "door" ~> [](online \/ StuckInDisplay)
=============================================================================
