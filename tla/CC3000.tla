------------------------------- MODULE CC3000 -------------------------------
(***************************************************************************)
(* The functions of the CC3000 host driver that the sketches and            *)
(* Adafruit_CC3000 call (wlan.cpp, socket.cpp, netapp.cpp, nvmem.cpp), each *)
(* a command or a few, on the link of CC3000Link; and the chip.  Every      *)
(* function writes its arguments into the one transmit buffer, sends them   *)
(* and waits for the event of its own opcode.                               *)
(***************************************************************************)
EXTENDS CC3000Link

CONSTANT PeerCloses   \* whether the peer of a connection may close it

ASSUME PeerAssumption == PeerCloses \in BOOLEAN

VARIABLE closed       \* sockets whose peer is gone, as the chip knows

vars == <<pc, host, receiver, spi, intEnabled, cs, irq, edge, chip, sent,
          answered, closed>>

Init ==
    /\ pc = "off"
    /\ cmd = NoCmd /\ script = <<>>
    /\ spi = "POWERUP" /\ intEnabled = FALSE /\ cs = FALSE
    /\ rx = None
    /\ awaited = None /\ dataPending = FALSE
    /\ credits = 0 /\ loaded = 0 /\ txError = FALSE /\ inactive = {}
    /\ ret = "fail"
    /\ irq = FALSE /\ edge = FALSE /\ power = "off"
    /\ inbox = <<>> /\ out = <<>> /\ free = Buffers
    /\ sent = 0 /\ got = 0 /\ answered = 0
    /\ closed = {}

---------------------------------------------------------------------------
(* Calls.  Run(commands) is a call whose first command is written next;     *)
(* its later ones follow when the event of the one before has come.         *)
hci_command_send(c) ==
    /\ cmd' = c
    /\ sent' = Another(sent)
    /\ pc' = "write"

SimpleLinkWaitEvent(op) == awaited' = op

SimpleLinkWaitData == dataPending' = TRUE

Run(commands) ==
    /\ Main("app")
    /\ script' = commands
    /\ hci_command_send(commands[1])
    /\ SimpleLinkWaitEvent(commands[1].op)
    /\ UNCHANGED <<dataPending, loaded, receiver, spi, intEnabled, cs, irq, edge,
                   chip, answered, closed>>

Call(op) == Run(<<Cmd(op, None)>>)

(* wlan_start: the driver's state is as new, the interrupt on, the chip
   powered; its first low interrupt line is waited for. *)
wlan_start ==
    /\ Main("off")
    /\ pc' = "power"
    /\ awaited' = None /\ dataPending' = FALSE /\ rx' = None
    /\ credits' = 0 /\ txError' = FALSE
    /\ spi' = "POWERUP"
    /\ intEnabled' = TRUE
    /\ power' = "booting"
    /\ UNCHANGED <<cmd, script, loaded, inactive, ret, out, cs, irq, edge,
                   inbox, free, got, sent, answered, closed>>

SimpleLink_Init_Start ==
    /\ Main("power")
    /\ irq
    /\ script' = <<Cmd("SIMPLE_LINK_START", None), Cmd("READ_BUFFER_SIZE", None)>>
    /\ hci_command_send(Cmd("SIMPLE_LINK_START", None))
    /\ SimpleLinkWaitEvent("SIMPLE_LINK_START")
    /\ UNCHANGED <<dataPending, loaded, receiver, spi, intEnabled, cs, irq, edge,
                   chip, answered, closed>>

\* wlan_stop: the chip without power lets go of the line.
wlan_stop ==
    /\ Main("app")
    /\ pc' = "off"
    /\ power' = "off" /\ irq' = FALSE /\ out' = <<>> /\ inbox' = <<>>
    /\ free' = Buffers /\ closed' = {}
    /\ intEnabled' = FALSE
    /\ UNCHANGED <<host, rx, credits, txError, inactive, ret, spi, cs,
                   edge, got, sent, answered>>

wlan_connect == Call("WLAN_CONNECT")
wlan_disconnect == Call("WLAN_DISCONNECT")
wlan_ioctl_set_connection_policy == Call("WLAN_SET_CONNECTION_POLICY")
wlan_add_profile == Call("WLAN_ADD_PROFILE")
wlan_ioctl_del_profile == Call("WLAN_DEL_PROFILE")
wlan_ioctl_get_scan_results == Call("WLAN_GET_SCAN_RESULTS")
wlan_ioctl_set_scan_params == Call("WLAN_SET_SCANPARAM")
wlan_set_event_mask == Call("EVENT_MASK")
wlan_ioctl_statusget == Call("WLAN_STATUSGET")
wlan_smart_config_start == Call("SIMPLE_CONFIG_START")
wlan_smart_config_stop == Call("SIMPLE_CONFIG_STOP")
wlan_smart_config_set_prefix == Call("SIMPLE_CONFIG_SET_PREFIX")

netapp_dhcp == Call("NETAPP_DHCP")
netapp_timeout_values == Call("NETAPP_SET_TIMERS")
netapp_ping_send == Call("NETAPP_PING_SEND")
netapp_ping_report == Call("NETAPP_PING_REPORT")
netapp_ping_stop == Call("NETAPP_PING_STOP")
netapp_ipconfig == Call("NETAPP_IPCONFIG")
netapp_arp_flush == Call("NETAPP_ARP_FLUSH")
netapp_set_debug_level == Call("NETAPP_SET_DEBUG_LEVEL")

nvmem_read == Call("NVMEM_READ")
nvmem_write == Call("NVMEM_WRITE")
nvmem_read_sp_version == Call("READ_SP_VERSION")
nvmem_create_entry == Call("NVMEM_CREATE_ENTRY")

\* Two portions and what is left of a patch; a write that fails ends it.
nvmem_write_patch ==
    Run(<<Cmd("NVMEM_WRITE", None), Cmd("NVMEM_WRITE", None), Cmd("NVMEM_WRITE", None)>>)

\* The AES key and the profile are read, then a profile is added.
wlan_smart_config_process ==
    Run(<<Cmd("NVMEM_READ", None), Cmd("NVMEM_READ", None), Cmd("WLAN_ADD_PROFILE", None)>>)

socket == Call("SOCKET")
closesocket(sd) == Run(<<Cmd("CLOSE_SOCKET", sd)>>)
accept(sd) == Run(<<Cmd("ACCEPT", sd)>>)
bind(sd) == Run(<<Cmd("BIND", sd)>>)
listen(sd) == Run(<<Cmd("LISTEN", sd)>>)
gethostbyname == Call("BSD_GETHOSTBYNAME")
connect(sd) == Run(<<Cmd("CONNECT", sd)>>)
select == Call("BSD_SELECT")
setsockopt(sd) == Run(<<Cmd("SETSOCKOPT", sd)>>)
getsockopt(sd) == Run(<<Cmd("GETSOCKOPT", sd)>>)
simple_link_recv(sd, op) == Run(<<Cmd(op, sd)>>)
recv(sd) == simple_link_recv(sd, "RECV")
recvfrom(sd) == simple_link_recv(sd, "RECVFROM")
mdnsAdvertiser == Call("MDNS_ADVERTISE")

---------------------------------------------------------------------------
(* simple_link_send: HostFlowControlConsumeBuff spins until the chip has a  *)
(* buffer, then takes one; usNumberOfFreeBuffers-- is a load and a store,   *)
(* between which the interrupt may return a buffer.                         *)
simple_link_send(sd, op) ==
    /\ Main("app")
    /\ script' = <<Cmd(op, sd)>>
    /\ pc' = "credit"
    /\ UNCHANGED <<cmd, awaited, dataPending, loaded, receiver, spi, intEnabled, cs,
                   irq, edge, chip, sent, answered, closed>>

send(sd) == simple_link_send(sd, "SEND")
sendto(sd) == simple_link_send(sd, "SENDTO")

NoCredit_Unchecked == FALSE

NoCredit == credits = 0

HostFlowControlConsumeBuff ==
    /\ Main("credit")
    /\ IF txError
       THEN /\ txError' = FALSE /\ pc' = "app" /\ script' = <<>>
            /\ UNCHANGED loaded
       ELSE /\ UNCHANGED txError
            /\ IF Head(script).sd \in inactive
               THEN pc' = "app" /\ script' = <<>> /\ UNCHANGED loaded
               ELSE /\ ~NoCredit
                    /\ loaded' = credits
                    /\ pc' = "take"
                    /\ UNCHANGED script
    /\ UNCHANGED <<cmd, awaited, dataPending, rx, credits, inactive,
                   ret, out, spi, intEnabled, cs, irq, edge, chip, sent, answered, closed>>

hci_data_send ==
    /\ Main("take")
    /\ credits' = loaded - 1 /\ loaded' = 0
    /\ hci_command_send(Head(script))
    /\ SimpleLinkWaitEvent(Head(script).op)
    /\ UNCHANGED <<script, dataPending, rx, txError, inactive, ret, out,
                   spi, intEnabled, cs, irq, edge, chip, answered, closed>>

---------------------------------------------------------------------------
(* The tail of a function, after its event.                                *)
\* RECV with bytes, and every NVMEM_READ, waits for the data as well.
FetchesData(c) ==
    \/ c.op \in {"RECV", "RECVFROM"} /\ ret = "data"
    \/ c.op = "NVMEM_READ"

\* A call goes on to its next command unless the one before failed.
GoesOn == Len(script) > 1 /\ (ret = "ok" \/ Head(script).op = "SIMPLE_LINK_START")

SocketStatus(c) ==
    CASE c.op = "SOCKET"       -> set_socket_active_status(ret, TRUE)
      [] c.op = "CLOSE_SOCKET" -> set_socket_active_status(c.sd, FALSE)
      [] c.op = "ACCEPT"       -> IF ret \in Sockets
                                  THEN set_socket_active_status(ret, TRUE)
                                  ELSE set_socket_active_status(c.sd, FALSE)
      [] OTHER -> inactive

FetchData ==
    /\ Main("return")
    /\ Head(script).op # "DATA"
    /\ FetchesData(Head(script))
    /\ SimpleLinkWaitData
    /\ script' = <<Cmd("DATA", None)>> \o Tail(script)
    /\ pc' = "wait"
    /\ UNCHANGED <<cmd, awaited, loaded, receiver, spi, intEnabled, cs, irq, edge, chip,
                   sent, answered, closed>>

Return ==
    /\ Main("return")
    /\ ~FetchesData(Head(script))
    /\ inactive' = SocketStatus(Head(script))
    /\ ret' = "fail"
    /\ IF GoesOn
       THEN /\ script' = Tail(script)
            /\ hci_command_send(script[2])
            /\ SimpleLinkWaitEvent(script[2].op)
       ELSE /\ pc' = "app"
            /\ script' = <<>>
            /\ UNCHANGED <<cmd, sent, awaited>>
    /\ UNCHANGED <<dataPending, loaded, rx, credits, txError, out, spi,
                   intEnabled, cs, irq, edge, chip, answered, closed>>

---------------------------------------------------------------------------
(* The chip, as the driver uses it.  It lowers the line when it has booted, *)
(* when it is ready for a write and when it has a packet; it executes what  *)
(* it received, and has more to say at any time.                            *)
driver == <<pc, host, receiver, spi, intEnabled, cs, sent, answered>>
driverButOut == <<pc, host, rx, credits, txError, inactive, ret, spi, intEnabled,
                  cs, sent, answered>>

LowersLine ==
    /\ ~irq
    /\ \/ /\ power = "booting" /\ power' = "on"
       \/ /\ power = "on" /\ (cs \/ out # <<>>)
          /\ UNCHANGED power
    /\ Falls
    /\ UNCHANGED <<driver, inbox, free, got, closed>>

Say(packets) == out' = out \o packets

Results(c) ==
    CASE c.op \in {"SOCKET", "ACCEPT"} -> Sockets \cup {"fail"}
      [] c.op \in {"RECV", "RECVFROM"} ->
            IF c.sd \in closed THEN {"inactive"} ELSE {"data", "none", "inactive"}
      [] c.op \in {"SEND", "SENDTO"} -> IF c.sd \in closed THEN {"inactive"} ELSE {"ok"}
      [] OTHER -> {"ok", "fail"}

Answers(c, r) ==
    <<Event(IF c.op = "PATCH" THEN "SIMPLE_LINK_START" ELSE c.op, c.sd, r, got)>>
    \o IF r = "data" \/ c.op = "NVMEM_READ" THEN <<Data(got)>> ELSE <<>>

Executes ==
    /\ inbox # <<>>
    /\ inbox' = Tail(inbox)
    /\ LET c == Head(inbox) IN
       \/ \E r \in Results(c) :
              /\ Say(Answers(c, r))
              /\ closed' = IF c.op \in {"SOCKET", "ACCEPT"} THEN closed \ {r}
                           ELSE IF c.op = "CLOSE_SOCKET" THEN closed \ {c.sd} ELSE closed
       \/ /\ c.op = "SIMPLE_LINK_START"
          /\ Say(<<Unsol("PATCHES_REQ", None)>>)
          /\ UNCHANGED closed
    /\ UNCHANGED <<driverButOut, irq, edge, power, free, got>>

FreesBuffer ==
    /\ power = "on" /\ free < Buffers /\ Len(out) < Pending
    /\ free' = free + 1
    /\ Say(<<Unsol("FREE_BUFF", None)>>)
    /\ UNCHANGED <<driverButOut, irq, edge, power, inbox, got, closed>>

Notifies ==
    /\ power = "on" /\ Len(out) < Pending
    /\ Say(<<Unsol("WLAN", None)>>)
    /\ UNCHANGED <<driverButOut, irq, edge, chip, closed>>

Disconnects(sd) ==
    /\ PeerCloses /\ power = "on" /\ sd \notin closed /\ Len(out) < Pending
    /\ closed' = closed \cup {sd}
    /\ Say(<<Unsol("TCP_CLOSE_WAIT", sd)>>)
    /\ UNCHANGED <<driverButOut, irq, edge, chip>>

---------------------------------------------------------------------------
Calls ==
    \/ wlan_start \/ wlan_stop \/ wlan_connect \/ wlan_disconnect
    \/ wlan_ioctl_set_connection_policy \/ wlan_add_profile \/ wlan_ioctl_del_profile
    \/ wlan_ioctl_get_scan_results \/ wlan_ioctl_set_scan_params
    \/ wlan_set_event_mask \/ wlan_ioctl_statusget \/ wlan_smart_config_start
    \/ wlan_smart_config_stop \/ wlan_smart_config_set_prefix
    \/ wlan_smart_config_process
    \/ netapp_dhcp \/ netapp_timeout_values \/ netapp_ping_send \/ netapp_ping_report
    \/ netapp_ping_stop \/ netapp_ipconfig \/ netapp_arp_flush \/ netapp_set_debug_level
    \/ nvmem_read \/ nvmem_write \/ nvmem_read_sp_version \/ nvmem_create_entry
    \/ nvmem_write_patch
    \/ socket \/ gethostbyname \/ select \/ mdnsAdvertiser
    \/ \E sd \in Sockets :
          \/ closesocket(sd) \/ accept(sd) \/ bind(sd) \/ listen(sd) \/ connect(sd)
          \/ setsockopt(sd) \/ getsockopt(sd) \/ recv(sd) \/ recvfrom(sd)
          \/ send(sd) \/ sendto(sd)

\* What the main code does once it is in a call.
Driver ==
    /\ \/ SimpleLink_Init_Start
       \/ SpiFirstWrite \/ WlanInterruptDisable \/ ClaimSpi \/ WlanInterruptEnable
       \/ CheckMissed \/ SpiWriteReturns \/ Poll \/ hci_event_handler
       \/ HostFlowControlConsumeBuff \/ hci_data_send \/ FetchData \/ Return
    /\ UNCHANGED closed

Interrupted == Isr /\ UNCHANGED closed

Next ==
    \/ Calls
    \/ Driver
    \/ Interrupted
    \/ LowersLine
    \/ Executes
    \/ FreesBuffer
    \/ Notifies
    \/ \E sd \in Sockets : Disconnects(sd)

Spec == Init /\ [][Next]_vars

\* The processor runs, one instruction at least between two interrupts; an
\* interrupt that is due is taken, the chip lowers its line and executes what
\* it is told.
FairSpec ==
    /\ Spec
    /\ SF_vars(Driver)
    /\ WF_vars(Interrupted)
    /\ WF_vars(LowersLine)
    /\ WF_vars(Executes)
    /\ WF_vars(FreesBuffer)

---------------------------------------------------------------------------
(* The descriptors and the places of the code have their types, the chip's *)
(* inbox never holds more than one command.                                 *)
TypeOK ==
    /\ pc \in {"off", "power", "app", "credit", "take", "write", "claim", "enable",
               "check", "sent", "wait", "return"}
    /\ spi \in {"POWERUP", "INITIALIZED", "IDLE", "WRITE_IRQ"}
    /\ intEnabled \in BOOLEAN /\ cs \in BOOLEAN /\ irq \in BOOLEAN /\ edge \in BOOLEAN
    /\ credits \in 0..Buffers /\ free \in 0..Buffers /\ loaded \in 0..Buffers
    /\ inactive \subseteq Sockets /\ closed \subseteq Sockets
    /\ Len(inbox) <= 1

(* The driver never counts more free buffers than the chip has, whatever    *)
(* the interrupt does between the load and the store of the counter: the    *)
(* chip is never sent data it has no buffer for.                            *)
NeverOverrun ==
    /\ TypeOK
    /\ credits <= free
    /\ pc = "write" /\ cmd.op \in {"SEND", "SENDTO"} => credits < free

(* Main code and interrupt may both believe they have to write: each packet *)
(* of SpiWrite still reaches the chip exactly once.                         *)
WrittenOnce == pc \in {"wait", "return", "app"} => got = sent

(* A call ends with the event and the data that answer its own command,     *)
(* whatever else arrived before.                                            *)
OwnAnswer == pc = "return" => answered = sent

(* What has been read and not yet been looked at is not overwritten by the  *)
(* next packet: there is one buffer and the interrupt is off meanwhile.     *)
NothingOverwritten ==
    [][power' = power /\ Len(out') < Len(out) => rx = None]_vars

(* Every call returns, even when the controller misses an edge of the line  *)
(* while the pin is detached; except a send, which may wait for a buffer    *)
(* that was miscounted, or for an event the interrupt has swallowed.        *)
Sending == pc \in {"credit", "take"} \/ cmd.op \in {"SEND", "SENDTO"}
             \/ awaited \in {"SEND", "SENDTO"}

CallsReturn == pc \notin {"app", "off"} ~> (pc = "app" \/ Sending)
=============================================================================
