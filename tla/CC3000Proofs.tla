---------------------------- MODULE CC3000Proofs ----------------------------
(***************************************************************************)
(* The link to the CC3000, for every set of sockets, number of buffers and  *)
(* packets waiting, whether edges are lost or not.  Four invariants, each   *)
(* on the ones before: who has the SPI (Inv: every packet of SpiWrite       *)
(* reaches the chip once); what the interrupt line and the script of a call *)
(* say (Base: the interrupt never reads without a packet to read); what is  *)
(* in flight between the chip and main code (Protocol: one command, one     *)
(* answer); and where the buffers are (Counted).                            *)
(***************************************************************************)
EXTENDS CC3000, SequenceTheorems, FiniteSetTheorems, TLAPS

Places == {"off", "power", "app", "credit", "take", "write", "claim", "enable",
           "check", "sent", "wait", "return"}

LinkType ==
    /\ pc \in Places /\ spi \in {"POWERUP", "INITIALIZED", "IDLE", "WRITE_IRQ"}
    /\ sent \in 0..2 /\ got \in 0..2
    /\ cs \in BOOLEAN /\ intEnabled \in BOOLEAN

\* The chip is selected exactly while a packet is offered.
Selected == cs <=> spi = "WRITE_IRQ"

Claimed ==
    /\ spi = "WRITE_IRQ" => pc \in {"enable", "check", "sent"}
    /\ pc = "enable" => spi = "WRITE_IRQ"
    /\ spi \in {"POWERUP", "INITIALIZED"} => pc \in {"off", "power", "write"}

\* The interrupt is off while the SPI is taken.
Masked == pc \in {"claim", "enable"} => ~intEnabled

\* One packet is on its way, or none.
OnItsWay == pc \in {"write", "claim"} \/ spi = "WRITE_IRQ"

InStep == sent = IF OnItsWay THEN Another(got) ELSE got

Inv == LinkType /\ Selected /\ Claimed /\ Masked /\ InStep

---------------------------------------------------------------------------
LEMMA AnotherType == \A k \in 0..2 : Another(k) \in 0..2
  BY DEF Another

LEMMA Start == Init => Inv
  <1> SUFFICES ASSUME Init PROVE Inv
    OBVIOUS
  <1>1. /\ pc = "off" /\ spi = "POWERUP" /\ sent = 0 /\ got = 0
        /\ cs = FALSE /\ intEnabled = FALSE
    BY DEF Init
  <1>2. LinkType
    <2>1. cs \in BOOLEAN /\ intEnabled \in BOOLEAN
      BY <1>1, Zenon
    <2> QED BY <1>1, <2>1 DEF LinkType, Places
  <1>3. Selected /\ Claimed /\ Masked
    BY <1>1 DEF Selected, Claimed, Masked
  <1>4. InStep
    BY <1>1 DEF InStep, OnItsWay
  <1> QED BY <1>2, <1>3, <1>4 DEF Inv

\* A call that writes its first command, or waits for a buffer to write it.
LEMMA RunKeeps == ASSUME Inv, NEW commands, Run(commands) PROVE Inv'
  BY AnotherType
  DEF Run, Main, hci_command_send, chip, Inv, LinkType, Places, Selected, Claimed, Masked,
      OnItsWay, InStep

LEMMA SendKeeps == ASSUME Inv, NEW sd, NEW op, simple_link_send(sd, op) PROVE Inv'
  BY DEF simple_link_send, Main, chip, Inv, LinkType, Places, Selected, Claimed, Masked,
         OnItsWay, InStep

LEMMA CallsKeep == ASSUME Inv, Calls PROVE Inv'
  <1>1. CASE wlan_start
    BY <1>1 DEF wlan_start, Main, Inv, LinkType, Places, Selected, Claimed, Masked, OnItsWay,
                InStep
  <1>2. CASE wlan_stop
    BY <1>2 DEF wlan_stop, Main, Inv, LinkType, Places, Selected, Claimed, Masked, OnItsWay,
                InStep
  <1>3. CASE \E commands : Run(commands)
    BY <1>3, RunKeeps
  <1>4. CASE \E sd, op : simple_link_send(sd, op)
    BY <1>4, SendKeeps
  <1> QED BY <1>1, <1>2, <1>3, <1>4
          DEF Calls, Call, wlan_connect, wlan_disconnect, wlan_ioctl_set_connection_policy,
              wlan_add_profile, wlan_ioctl_del_profile, wlan_ioctl_get_scan_results,
              wlan_ioctl_set_scan_params, wlan_set_event_mask, wlan_ioctl_statusget,
              wlan_smart_config_start, wlan_smart_config_stop, wlan_smart_config_set_prefix,
              wlan_smart_config_process, netapp_dhcp, netapp_timeout_values,
              netapp_ping_send, netapp_ping_report, netapp_ping_stop, netapp_ipconfig,
              netapp_arp_flush, netapp_set_debug_level, nvmem_read, nvmem_write,
              nvmem_read_sp_version, nvmem_create_entry, nvmem_write_patch, socket,
              gethostbyname, select, mdnsAdvertiser, closesocket, accept, bind, listen,
              connect, setsockopt, getsockopt, recv, recvfrom, simple_link_recv, send, sendto

---------------------------------------------------------------------------
\* Main code or the interrupt writes what is offered, once.
LEMMA WriteDoneIs ==
    ASSUME Inv, spi = "WRITE_IRQ", WriteDone
    PROVE  got' = Another(got) /\ got' = sent /\ spi' = "IDLE" /\ cs' = FALSE
  BY DEF WriteDone, SpiWriteDataSynchronous, Inv, Selected, InStep, OnItsWay

\* Whoever comes too late writes nothing.
LEMMA WriteDoneLate ==
    ASSUME Inv, spi = "IDLE", WriteDone
    PROVE  got' = got /\ spi' = "IDLE" /\ cs' = FALSE
  BY DEF WriteDone, SpiWriteDataSynchronous, Inv, Selected

(* The interrupt routine, called by the interrupt or, while the event is    *)
(* waited for, by main code.                                                *)
LEMMA IrqKeeps ==
    ASSUME Inv, SPI_IRQ, intEnabled, UNCHANGED <<pc, sent>>
    PROVE  Inv'
  <1> USE DEF Inv
  <1>1. CASE spi = "POWERUP" \/ spi = "INITIALIZED"
    <2>1. UNCHANGED <<cs, intEnabled, got>> /\ spi' = "INITIALIZED"
      BY <1>1 DEF SPI_IRQ
    <2>2. cs' \in BOOLEAN /\ intEnabled' \in BOOLEAN
      BY <2>1, Zenon DEF LinkType
    <2> QED BY <1>1, <2>1, <2>2
            DEF LinkType, Places, Selected, Claimed, Masked, InStep, OnItsWay
  <1>2. CASE spi = "IDLE"
    <2>1. /\ got' = got /\ spi' = "IDLE" /\ cs' = FALSE /\ intEnabled' \in BOOLEAN
      BY <1>2 DEF SPI_IRQ, Read, SpiReceiveHandler, SpiPauseSpi
    <2> QED BY <1>2, <2>1 DEF LinkType, Selected, Claimed, Masked, InStep, OnItsWay
  <1>3. CASE spi = "WRITE_IRQ"
    <2>1. WriteDone /\ UNCHANGED intEnabled
      BY <1>3 DEF SPI_IRQ
    <2>2. got' = sent /\ got' = Another(got) /\ spi' = "IDLE" /\ cs' = FALSE
      BY <1>3, <2>1, WriteDoneIs
    <2>3. pc \in {"check", "sent"}
      BY <1>3 DEF Claimed, Masked
    <2> QED BY <2>1, <2>2, <2>3 DEF LinkType, Selected, Claimed, Masked, InStep, OnItsWay
  <1> QED BY <1>1, <1>2, <1>3 DEF LinkType

LEMMA DriverKeeps == ASSUME Inv, Driver PROVE Inv'
  <1> USE DEF Inv
  <1>1. CASE SimpleLink_Init_Start
    BY <1>1, AnotherType
    DEF SimpleLink_Init_Start, Main, hci_command_send, chip,
        LinkType, Places, Selected, Claimed, Masked, InStep, OnItsWay
  <1>2. CASE SpiFirstWrite
    <2>1. /\ got' = sent /\ spi' = "IDLE" /\ cs' = FALSE /\ pc' = "sent"
          /\ UNCHANGED <<sent, intEnabled>>
      BY <1>2 DEF SpiFirstWrite, Main, InStep, OnItsWay
    <2> QED BY <2>1 DEF LinkType, Places, Selected, Claimed, Masked, InStep, OnItsWay
  <1>3. CASE WlanInterruptDisable
    BY <1>3
    DEF WlanInterruptDisable, Main, chip,
        LinkType, Places, Selected, Claimed, Masked, InStep, OnItsWay
  <1>4. CASE ClaimSpi
    BY <1>4
    DEF ClaimSpi, Main, chip,
        LinkType, Places, Selected, Claimed, Masked, InStep, OnItsWay
  <1>5. CASE WlanInterruptEnable
    BY <1>5
    DEF WlanInterruptEnable, Main, chip,
        LinkType, Places, Selected, Claimed, Masked, InStep, OnItsWay
  <1>6. CASE CheckMissed
    <2>1. pc = "check" /\ pc' = "sent" /\ UNCHANGED <<sent, intEnabled>>
      BY <1>6 DEF CheckMissed, Main
    <2>2. CASE UNCHANGED <<spi, cs, got>>
      BY <2>1, <2>2 DEF LinkType, Places, Selected, Claimed, Masked, InStep, OnItsWay
    <2>3. CASE WriteDone /\ spi = "WRITE_IRQ"
      <3>1. got' = sent /\ spi' = "IDLE" /\ cs' = FALSE
        BY <2>3, WriteDoneIs
      <3> QED BY <2>1, <3>1 DEF LinkType, Places, Selected, Claimed, Masked, InStep, OnItsWay
    <2>4. CASE WriteDone /\ spi = "IDLE"
      <3>1. got' = got /\ spi' = "IDLE" /\ cs' = FALSE
        BY <2>4, WriteDoneLate
      <3> QED BY <2>1, <2>4, <3>1
              DEF LinkType, Places, Selected, Claimed, Masked, InStep, OnItsWay
    <2> QED BY <1>6, <2>1, <2>2, <2>3, <2>4 DEF CheckMissed, LinkType, Claimed
  <1>7. CASE SpiWriteReturns
    BY <1>7
    DEF SpiWriteReturns, Written, Main, chip,
        LinkType, Places, Selected, Claimed, Masked, InStep, OnItsWay
  <1>8. CASE Poll
    BY <1>8, IrqKeeps DEF Poll, cc3k_int_poll
  <1>9. CASE hci_event_handler
    <2>1. /\ pc = "wait" /\ UNCHANGED <<spi, cs, got>> /\ intEnabled' = TRUE
          /\ \/ pc' = "write" /\ sent' = Another(sent)
             \/ pc' \in {"return", "wait"} /\ sent' = sent
      BY <1>9 DEF hci_event_handler, Main, chip, SpiResumeSpi
    <2> QED BY <2>1, AnotherType
            DEF LinkType, Places, Selected, Claimed, Masked, InStep, OnItsWay
  <1>10. CASE HostFlowControlConsumeBuff
    BY <1>10
    DEF HostFlowControlConsumeBuff, Main, chip,
        LinkType, Places, Selected, Claimed, Masked, InStep, OnItsWay
  <1>11. CASE hci_data_send
    BY <1>11, AnotherType
    DEF hci_data_send, Main, hci_command_send, chip,
        LinkType, Places, Selected, Claimed, Masked, InStep, OnItsWay
  <1>12. CASE FetchData
    BY <1>12
    DEF FetchData, Main, chip,
        LinkType, Places, Selected, Claimed, Masked, InStep, OnItsWay
  <1>13. CASE Return
    <2>1. /\ pc = "return" /\ UNCHANGED <<spi, cs, got, intEnabled>>
          /\ \/ pc' = "write" /\ sent' = Another(sent)
             \/ pc' = "app" /\ sent' = sent
      BY <1>13 DEF Return, Main, hci_command_send, chip
    <2> QED BY <2>1, AnotherType
            DEF LinkType, Places, Selected, Claimed, Masked, InStep, OnItsWay
  <1> QED BY <1>1, <1>2, <1>3, <1>4, <1>5, <1>6, <1>7, <1>8, <1>9, <1>10, <1>11, <1>12, <1>13
          DEF Driver

LEMMA InvStep == Inv /\ [Next]_vars => Inv'
  <1> SUFFICES ASSUME Inv, [Next]_vars PROVE Inv'
    OBVIOUS
  <1>1. CASE Calls
    BY <1>1, CallsKeep
  <1>2. CASE Driver
    BY <1>2, DriverKeeps
  <1>3. CASE Interrupted
    BY <1>3, IrqKeeps DEF Interrupted, Isr, Interrupt
  <1>4. CASE UNCHANGED <<pc, spi, sent, got, cs, intEnabled>>
    BY <1>4 DEF Inv, LinkType, Selected, Claimed, Masked, InStep, OnItsWay
  <1> QED BY <1>1, <1>2, <1>3, <1>4
          DEF Next, LowersLine, driver, Executes, driverButOut, FreesBuffer, Notifies,
              Disconnects, chip, vars

\* Main code and interrupt may both find that the chip is ready for the packet
\* (ccspi.cpp 339-372 and SPI_IRQ): it reaches the chip once and not twice, wherever
\* the edges come and whether they are seen or not.
THEOREM WrittenOnceTheorem == Spec => []WrittenOnce
  <1>1. Inv => WrittenOnce
    BY DEF Inv, LinkType, Claimed, InStep, OnItsWay, WrittenOnce
  <1> QED BY <1>1, Start, InvStep, PTL DEF Spec

---------------------------------------------------------------------------
(***************************************************************************)
(* The types of what travels, and the interrupt line.                       *)
(***************************************************************************)
InACall == pc \notin {"off", "power", "app"}

Typed ==
    /\ cmd \in Commands /\ script \in Seq(Commands) /\ inbox \in Seq(Commands)
    /\ out \in Seq(Packets)
    /\ rx \in Packets \cup {None}
    /\ awaited \in Opcodes \cup {None}
    /\ ret \in Sockets \cup Outcomes
    /\ InACall => script # <<>>

\* A call is a command or a few, each sent once the one before has been answered.
Scripted ==
    /\ script # <<>> => script[1].op \in Opcodes \cup {"DATA"}
    /\ \A i \in 2..Len(script) :
          \/ script[i].op \in Plain
          \/ /\ i = 2 /\ script[2].op = "READ_BUFFER_SIZE"
             /\ script[1].op = "SIMPLE_LINK_START"
    /\ pc \in {"credit", "take"} => script[1].op \in {"SEND", "SENDTO"}

\* The chip has something to say only while it has power.
Powered ==
    /\ power \in {"off", "booting", "on"}
    /\ power = "off" <=> pc = "off"
    /\ power = "booting" => pc = "power"
    /\ irq \/ out # <<>> \/ inbox # <<>> => power = "on"
    /\ pc = "power" => spi \in {"POWERUP", "INITIALIZED"}

\* The line is low because the chip is selected or has a packet: an interrupt
\* that finds the SPI idle has something to read.
LowFor == irq /\ spi \in {"IDLE", "WRITE_IRQ"} => cs \/ out # <<>>

Latched == edge => irq \/ pc = "off" \/ spi = "POWERUP"

Listening ==
    /\ spi \in {"POWERUP", "INITIALIZED"} => (intEnabled <=> pc # "off")
    /\ spi = "WRITE_IRQ" /\ pc # "enable" => intEnabled
    /\ pc = "off" => ~intEnabled

Line == Powered /\ LowFor /\ Latched /\ Listening

\* The commands of a call.
PlainCommands == [op : Plain, sd : Sockets \cup {None}]

Legal(commands) == commands \in Seq(PlainCommands) /\ commands # <<>>

LEMMA OneIsLegal ==
    \A op \in Plain, sd \in Sockets \cup {None} : Legal(<<Cmd(op, sd)>>)
  BY DEF Legal, Cmd, PlainCommands

LEMMA ThreeAreLegal ==
    \A a, b, c \in Plain :
        Legal(<<Cmd(a, None), Cmd(b, None), Cmd(c, None)>>)
  BY DEF Legal, Cmd, PlainCommands

\* What a call does first.
LEMMA CallsAre ==
    ASSUME Calls
    PROVE  \/ wlan_start
           \/ wlan_stop
           \/ \E commands : Legal(commands) /\ Run(commands)
           \/ \E sd \in Sockets, op \in {"SEND", "SENDTO"} : simple_link_send(sd, op)
  <1> DEFINE Runs == \E commands : Legal(commands) /\ Run(commands)
  <1>1. ASSUME NEW op \in Plain, NEW sd \in Sockets \cup {None}, Run(<<Cmd(op, sd)>>)
        PROVE  Runs
    BY <1>1, OneIsLegal
  <1>2. ASSUME NEW op \in Plain, Call(op)
        PROVE  Runs
    BY <1>2, <1>1 DEF Call
  <1>3. wlan_smart_config_process \/ nvmem_write_patch => Runs
    <2>1. {"NVMEM_READ", "NVMEM_WRITE", "WLAN_ADD_PROFILE"} \subseteq Plain
      BY DEF Plain
    <2> QED BY <2>1, ThreeAreLegal DEF wlan_smart_config_process, nvmem_write_patch
  <1> HIDE DEF Runs
  <1>4. wlan_connect \/ wlan_disconnect \/ wlan_ioctl_set_connection_policy
          \/ wlan_add_profile \/ wlan_ioctl_del_profile \/ wlan_ioctl_get_scan_results
          \/ wlan_ioctl_set_scan_params \/ wlan_set_event_mask \/ wlan_ioctl_statusget
          \/ wlan_smart_config_start \/ wlan_smart_config_stop \/ wlan_smart_config_set_prefix
        => \E op \in Plain : Call(op)
    BY DEF Plain, wlan_connect, wlan_disconnect, wlan_ioctl_set_connection_policy,
           wlan_add_profile, wlan_ioctl_del_profile, wlan_ioctl_get_scan_results,
           wlan_ioctl_set_scan_params, wlan_set_event_mask, wlan_ioctl_statusget,
           wlan_smart_config_start, wlan_smart_config_stop, wlan_smart_config_set_prefix
  <1>5. netapp_dhcp \/ netapp_timeout_values \/ netapp_ping_send \/ netapp_ping_report
          \/ netapp_ping_stop \/ netapp_ipconfig \/ netapp_arp_flush
          \/ netapp_set_debug_level \/ nvmem_read \/ nvmem_write \/ nvmem_read_sp_version
          \/ nvmem_create_entry \/ socket \/ gethostbyname \/ select \/ mdnsAdvertiser
        => \E op \in Plain : Call(op)
    BY DEF Plain, netapp_dhcp, netapp_timeout_values, netapp_ping_send,
           netapp_ping_report, netapp_ping_stop, netapp_ipconfig, netapp_arp_flush,
           netapp_set_debug_level, nvmem_read, nvmem_write, nvmem_read_sp_version,
           nvmem_create_entry, socket, gethostbyname, select, mdnsAdvertiser
  <1>6. ASSUME NEW sd \in Sockets,
               \/ closesocket(sd) \/ accept(sd) \/ bind(sd) \/ listen(sd) \/ connect(sd)
               \/ setsockopt(sd) \/ getsockopt(sd) \/ recv(sd) \/ recvfrom(sd)
        PROVE  Runs
    <2>1. \E op \in Plain : Run(<<Cmd(op, sd)>>)
      BY <1>6 DEF Plain, closesocket, accept, bind, listen, connect, setsockopt,
                  getsockopt, simple_link_recv, recv, recvfrom
    <2> QED BY <2>1, <1>1
  <1>7. ASSUME NEW sd \in Sockets, send(sd) \/ sendto(sd)
        PROVE  \E op \in {"SEND", "SENDTO"} : simple_link_send(sd, op)
    BY <1>7 DEF send, sendto
  <1>8. wlan_start \/ wlan_stop \/ Runs
          \/ \E sd \in Sockets, op \in {"SEND", "SENDTO"} : simple_link_send(sd, op)
    BY <1>2, <1>3, <1>4, <1>5, <1>6, <1>7 DEF Calls
  <1> QED BY <1>8 DEF Runs

---------------------------------------------------------------------------
LEMMA Naming == Plain \subseteq Opcodes /\ Opcodes \subseteq Names
  BY DEF Opcodes, Names

LEMMA LegalType == \A commands : Legal(commands) => commands \in Seq(Commands)
  <1> SUFFICES ASSUME NEW commands, Legal(commands) PROVE commands \in Seq(Commands)
    OBVIOUS
  <1>1. PlainCommands \subseteq Commands
    BY Naming DEF PlainCommands, Commands
  <1> QED BY <1>1, SeqMonotonic DEF Legal

LEMMA LegalHead ==
    ASSUME NEW commands, Legal(commands)
    PROVE  /\ commands \in Seq(Commands) /\ commands # <<>> /\ Len(commands) \in Nat \ {0}
           /\ commands[1] \in Commands /\ commands[1].op \in Plain
           /\ Head(commands) = commands[1]
           /\ \A i \in 1..Len(commands) : commands[i].op \in Plain
  <1>1. commands \in Seq(Commands)
    BY LegalType
  <1>2. commands \in Seq(PlainCommands) /\ commands # <<>>
    BY DEF Legal
  <1>3. \A i \in 1..Len(commands) : commands[i].op \in Plain
    <2>1. \A i \in 1..Len(commands) : commands[i] \in PlainCommands
      BY <1>2, ElementOfSeq
    <2> QED BY <2>1 DEF PlainCommands
  <1> QED BY <1>1, <1>2, <1>3, EmptySeq

\* What the chip says has its type.
LEMMA SaysType ==
    /\ \A sd \in Sockets \cup {None} :
          /\ Unsol("FREE_BUFF", sd) \in Packets /\ Unsol("WLAN", sd) \in Packets
          /\ Unsol("TCP_CLOSE_WAIT", sd) \in Packets /\ Unsol("PATCHES_REQ", sd) \in Packets
    /\ \A c \in Commands, r \in Sockets \cup Outcomes :
          got \in 0..2 => /\ Answers(c, r) \in Seq(Packets)
                          /\ Answers(c, r) # <<>>
  <1>1. \A op \in {"FREE_BUFF", "WLAN", "TCP_CLOSE_WAIT", "PATCHES_REQ"},
           sd \in Sockets \cup {None} : Unsol(op, sd) \in Packets
    BY DEF Unsol, Packets, Names, Outcomes
  <1>2. ASSUME NEW c \in Commands, NEW r \in Sockets \cup Outcomes, got \in 0..2
        PROVE  Answers(c, r) \in Seq(Packets) /\ Answers(c, r) # <<>>
    <2> DEFINE op == IF c.op = "PATCH" THEN "SIMPLE_LINK_START" ELSE c.op
               e == Event(op, c.sd, r, got)
               d == Data(got)
    <2>1. e \in Packets /\ d \in Packets
      <3>1. op \in Names /\ c.sd \in Sockets \cup {None}
        BY <1>2 DEF Commands, Names, Opcodes
      <3>2. "DATA" \in Names /\ "ok" \in Outcomes
        BY DEF Names, Outcomes
      <3> HIDE DEF op
      <3> QED BY <1>2, <3>1, <3>2 DEF Event, Data, Packets
    <2> HIDE DEF e, d
    <2>2. /\ <<e>> \o <<>> \in Seq(Packets) /\ <<e>> \o <<>> # <<>>
          /\ <<e>> \o <<d>> \in Seq(Packets) /\ <<e>> \o <<d>> # <<>>
      BY <2>1
    <2>3. Answers(c, r) = <<e>> \o IF r = "data" \/ c.op = "NVMEM_READ" THEN <<d>> ELSE <<>>
      BY DEF Answers, e, d
    <2> QED BY <2>2, <2>3
  <1> QED BY <1>1, <1>2

LEMMA ResultsType == \A c : Results(c) \subseteq Sockets \cup Outcomes
  BY DEF Results, Outcomes

LEMMA Saying ==
    ASSUME NEW s \in Seq(Packets), NEW t \in Seq(Packets)
    PROVE  s \o t \in Seq(Packets) /\ (s # <<>> => s \o t # <<>>)
  BY ConcatProperties, ConcatEqualIffEmpty

---------------------------------------------------------------------------
Base == Inv /\ Typed /\ Scripted /\ Line

LEMMA BaseStart == Init => Base
  <1> SUFFICES ASSUME Init PROVE Base
    OBVIOUS
  <1>1. Typed
    BY DEF Init, Typed, NoCmd, Cmd, Commands, Names, Outcomes, InACall
  <1>2. Line
    BY DEF Init, Line, Powered, LowFor, Latched, Listening
  <1>3. Scripted
    BY DEF Init, Scripted
  <1> QED BY <1>1, <1>2, <1>3, Start DEF Base

\* The script: a call brings its own, the others end it, go on with it, or put the
\* data that is fetched in the place of the command that asked for it.
LEMMA ScriptCalls == ASSUME Base, Calls PROVE Scripted'
  <1> USE DEF Base
  <1>1. CASE wlan_start \/ wlan_stop
    BY <1>1 DEF wlan_start, wlan_stop, host, Scripted
  <1>2. ASSUME NEW commands, Legal(commands), Run(commands)
        PROVE  Scripted'
    BY <1>2, LegalHead, Naming DEF Run, hci_command_send, Scripted
  <1>3. ASSUME NEW sd \in Sockets, NEW op \in {"SEND", "SENDTO"}, simple_link_send(sd, op)
        PROVE  Scripted'
    BY <1>3 DEF simple_link_send, Scripted, Cmd, Opcodes
  <1> QED BY <1>1, <1>2, <1>3, CallsAre

LEMMA ScriptFetch ==
    ASSUME Base, FetchData
    PROVE  /\ script' \in Seq(Commands) /\ script' # <<>> /\ script'[1] = Cmd("DATA", None)
           /\ Len(script') = Len(script)
           /\ \A i \in 2..Len(script) : script'[i] = script[i]
  <1> DEFINE d == Cmd("DATA", None)
  <1>1. d \in Commands
    BY DEF Cmd, Commands, Names
  <1> HIDE DEF d
  <1>2. /\ script \in Seq(Commands) /\ script # <<>> /\ Len(script) \in Nat
        /\ script' = <<d>> \o Tail(script)
    BY DEF FetchData, Main, Base, Typed, InACall, d
  <1>3. /\ Tail(script) \in Seq(Commands) /\ Len(Tail(script)) = Len(script) - 1
        /\ \A i \in 1..Len(Tail(script)) : Tail(script)[i] = script[i+1]
    BY <1>2, HeadTailProperties
  <1>4. <<d>> \in Seq(Commands) /\ <<d>> # <<>> /\ Len(<<d>>) = 1 /\ <<d>>[1] = d
    BY <1>1
  <1>5. /\ script' \in Seq(Commands) /\ script' # <<>> /\ script'[1] = d
        /\ Len(script') = Len(script)
        /\ \A i \in 2..Len(script) : script'[i] = script[i]
    BY <1>2, <1>3, <1>4, ConcatProperties, ConcatEqualIffEmpty
  <1> QED BY <1>5 DEF d

\* The command that follows.
LEMMA ScriptGoesOn ==
    ASSUME Base, InACall, Len(script) > 1
    PROVE  /\ Tail(script) \in Seq(Commands) /\ Tail(script) # <<>>
           /\ Len(Tail(script)) = Len(script) - 1
           /\ \A i \in 1..Len(Tail(script)) : Tail(script)[i] = script[i+1]
           /\ script[2] \in Commands /\ Tail(script)[1] = script[2]
           /\ \/ script[2].op \in Plain
              \/ script[2].op = "READ_BUFFER_SIZE" /\ script[1].op = "SIMPLE_LINK_START"
           /\ \A i \in 2..Len(Tail(script)) : Tail(script)[i].op \in Plain
  <1>1. script \in Seq(Commands) /\ script # <<>> /\ Len(script) \in Nat
    BY DEF Base, Typed
  <1>2. /\ Tail(script) \in Seq(Commands) /\ Len(Tail(script)) = Len(script) - 1
        /\ \A i \in 1..Len(Tail(script)) : Tail(script)[i] = script[i+1]
    BY <1>1, HeadTailProperties
  <1>3. script[2] \in Commands
    BY <1>1, ElementOfSeq
  <1>4. /\ \/ script[2].op \in Plain
           \/ script[2].op = "READ_BUFFER_SIZE" /\ script[1].op = "SIMPLE_LINK_START"
        /\ \A i \in 3..Len(script) : script[i].op \in Plain
    BY <1>1 DEF Base, Scripted
  <1>5. \A i \in 2..Len(Tail(script)) : Tail(script)[i].op \in Plain
    <2> TAKE i \in 2..Len(Tail(script))
    <2>1. i + 1 \in 3..Len(script) /\ Tail(script)[i] = script[i+1]
      BY <1>1, <1>2
    <2> QED BY <2>1, <1>4
  <1> QED BY <1>1, <1>2, <1>3, <1>4, <1>5, EmptySeq

LEMMA ScriptDriver == ASSUME Base, Driver PROVE Scripted'
  <1> USE DEF Base
  <1>1. CASE SimpleLink_Init_Start
    BY <1>1 DEF SimpleLink_Init_Start, hci_command_send, Scripted, Cmd, Opcodes
  <1>2. CASE \/ SpiFirstWrite \/ WlanInterruptDisable \/ ClaimSpi \/ WlanInterruptEnable
             \/ CheckMissed \/ SpiWriteReturns \/ Poll \/ hci_event_handler \/ hci_data_send
    <2>1. UNCHANGED script /\ pc' \notin {"credit", "take"}
      BY <1>2 DEF SpiFirstWrite, WlanInterruptDisable, ClaimSpi, WlanInterruptEnable,
                  CheckMissed, SpiWriteReturns, Poll, hci_event_handler, hci_data_send,
                  hci_command_send, Main, host
    <2> QED BY <2>1 DEF Scripted
  <1>3. CASE HostFlowControlConsumeBuff
    BY <1>3 DEF HostFlowControlConsumeBuff, Main, Scripted
  <1>4. CASE FetchData
    <2>1. script[1].op # "SIMPLE_LINK_START"
      BY <1>4 DEF FetchData, FetchesData, Main, Typed, InACall
    <2>2. \A i \in 2..Len(script') : script'[i].op \in Plain
      BY <1>4, <2>1, ScriptFetch DEF Scripted
    <2>3. script'[1].op = "DATA" /\ pc' = "wait"
      BY <1>4, ScriptFetch DEF FetchData, Cmd
    <2> QED BY <2>2, <2>3 DEF Scripted
  <1>5. CASE Return
    <2>1. CASE script' = Tail(script) /\ Len(script) > 1 /\ pc' = "write"
      <3>1. InACall
        BY <1>5 DEF Return, Main, InACall
      <3>2. script'[1].op \in Opcodes
        BY <2>1, <3>1, ScriptGoesOn, Naming DEF Opcodes
      <3> QED BY <2>1, <3>1, <3>2, ScriptGoesOn DEF Scripted
    <2>2. CASE script' = <<>> /\ pc' = "app"
      BY <2>2 DEF Scripted
    <2> QED BY <1>5, <2>1, <2>2 DEF Return, GoesOn, hci_command_send
  <1> QED BY <1>1, <1>2, <1>3, <1>4, <1>5 DEF Driver

LEMMA ScriptStep == ASSUME Base, [Next]_vars PROVE Scripted'
  <1>1. CASE Calls
    BY <1>1, ScriptCalls
  <1>2. CASE Driver
    BY <1>2, ScriptDriver
  <1>3. CASE UNCHANGED <<pc, script>>
    BY <1>3 DEF Base, Scripted
  <1> QED BY <1>1, <1>2, <1>3
          DEF Next, Interrupted, Isr, LowersLine, driver, Executes, driverButOut, FreesBuffer,
              Notifies, Disconnects, host, vars

LEMMA BaseCalls == ASSUME Base, Calls PROVE Typed' /\ Line'
  <1> USE DEF Base
  <1>1. CASE wlan_start
    <2>1. Typed'
      BY <1>1 DEF wlan_start, Typed, InACall
    <2>2. Line'
      BY <1>1 DEF wlan_start, Main, Line, Powered, LowFor, Latched, Listening, Inv, Selected
    <2> QED BY <2>1, <2>2
  <1>2. CASE wlan_stop
    <2>1. Typed'
      BY <1>2 DEF wlan_stop, host, Typed, InACall
    <2>2. Line'
      BY <1>2 DEF wlan_stop, Main, Line, Powered, LowFor, Latched, Listening, Inv, Selected, Claimed
    <2> QED BY <2>1, <2>2
  <1>3. ASSUME NEW commands, Legal(commands), Run(commands)
        PROVE  Typed' /\ Line'
    <2>1. Typed'
      BY <1>3, LegalHead, Naming
      DEF Run, hci_command_send, SimpleLinkWaitEvent, receiver, chip, Typed, InACall
    <2>2. Line'
      BY <1>3 DEF Run, Main, hci_command_send, receiver, chip,
                  Line, Powered, LowFor, Latched, Listening, Inv, Claimed
    <2> QED BY <2>1, <2>2
  <1>4. ASSUME NEW sd \in Sockets, NEW op \in {"SEND", "SENDTO"}, simple_link_send(sd, op)
        PROVE  Typed' /\ Line'
    <2>1. Cmd(op, sd) \in Commands
      BY DEF Cmd, Commands, Names, Opcodes
    <2>2. Typed'
      BY <1>4, <2>1 DEF simple_link_send, receiver, chip, Typed, InACall
    <2>3. Line'
      BY <1>4 DEF simple_link_send, Main, receiver, chip,
                  Line, Powered, LowFor, Latched, Listening, Inv, Claimed
    <2> QED BY <2>2, <2>3
  <1> QED BY <1>1, <1>2, <1>3, <1>4, CallsAre

\* The interrupt routine, when it reads, has a packet to read.
LEMMA SomethingToRead ==
    ASSUME Base, spi = "IDLE", irq \/ edge, pc # "off"
    PROVE  out # <<>>
  BY DEF Base, Line, LowFor, Latched, Inv, Selected

LEMMA BaseIrq ==
    ASSUME Base, SPI_IRQ, intEnabled, irq \/ edge,
           UNCHANGED <<pc, host, ret, power>>,
           ~edge'
    PROVE  Typed' /\ Line'
  <1> USE DEF Base
  <1>0. pc # "off"
    BY DEF Line, Listening
  <1>1. CASE spi \in {"POWERUP", "INITIALIZED"}
    <2>1. Typed'
      BY <1>1 DEF SPI_IRQ, host, Typed, InACall
    <2>2. spi' = "INITIALIZED" /\ UNCHANGED <<pc, power, intEnabled, irq, out, inbox>>
      BY <1>1 DEF SPI_IRQ
    <2>3. Line'
      BY <1>0, <1>1, <2>2 DEF Line, Powered, LowFor, Latched, Listening
    <2> QED BY <2>1, <2>3
  <1>2. CASE spi = "IDLE"
    <2>1. out # <<>> /\ Head(out) \in Packets /\ Tail(out) \in Seq(Packets)
      BY <1>0, <1>2, SomethingToRead, HeadTailProperties DEF Typed
    <2>2. Typed'
      BY <1>2, <2>1 DEF SPI_IRQ, Read, SpiReceiveHandler, Offered, host, Typed, InACall
    <2>3. Line'
      BY <1>0, <1>2, <2>1
      DEF SPI_IRQ, Read, host, Line, Powered, LowFor, Latched, Listening
    <2> QED BY <2>2, <2>3
  <1>3. CASE spi = "WRITE_IRQ"
    <2>1. /\ WriteDone /\ UNCHANGED <<rx, intEnabled, out>> /\ cs
      BY <1>3 DEF SPI_IRQ, Inv, Selected
    <2>2. Typed'
      BY <2>1, AppendProperties
      DEF WriteDone, SpiWriteDataSynchronous, host, Typed, InACall
    <2>3. Line'
      BY <1>0, <1>3, <2>1
      DEF WriteDone, SpiWriteDataSynchronous, host, Line, Powered, LowFor, Latched,
          Listening, Inv, Claimed
    <2> QED BY <2>2, <2>3
  <1> QED BY <1>1, <1>2, <1>3 DEF Inv, LinkType

LEMMA BaseWrite ==
    ASSUME Base,
           \/ SpiFirstWrite \/ WlanInterruptDisable \/ ClaimSpi \/ WlanInterruptEnable
           \/ CheckMissed \/ SpiWriteReturns
    PROVE  Typed' /\ Line'
  <1> USE DEF Base
  <1>1. Typed'
    <2>1. Append(inbox, cmd) \in Seq(Commands)
      BY AppendProperties DEF Typed
    <2>2. NoCmd \in Commands
      BY DEF NoCmd, Cmd, Commands, Names
    <2>3. UNCHANGED <<script, awaited, receiver>> /\ InACall
      BY DEF SpiFirstWrite, WlanInterruptDisable, ClaimSpi, WlanInterruptEnable, CheckMissed,
             SpiWriteReturns, Main, host, chip, InACall
    <2>4. cmd' \in {cmd, NoCmd} /\ inbox' \in {inbox, Append(inbox, cmd)}
      BY DEF SpiFirstWrite, WlanInterruptDisable, ClaimSpi, WlanInterruptEnable, CheckMissed,
             SpiWriteReturns, WriteDone, SpiWriteDataSynchronous, host, chip
    <2> QED BY <2>1, <2>2, <2>3, <2>4 DEF Typed, receiver
  <1>2. CASE SpiFirstWrite
    <2>1. Line'
      BY <1>2 DEF SpiFirstWrite, Main, Interrupt, receiver, Line, Powered, LowFor, Latched,
                  Listening
    <2> QED BY <1>1, <2>1
  <1>3. CASE WlanInterruptDisable
    <2>1. Line'
      BY <1>3 DEF WlanInterruptDisable, Main, receiver, chip, Line, Powered, LowFor, Latched,
                  Listening, Inv, Claimed
    <2> QED BY <1>1, <2>1
  <1>4. CASE ClaimSpi
    <2>1. Line'
      BY <1>4 DEF ClaimSpi, Main, receiver, chip, Line, Powered, LowFor, Latched, Listening
    <2> QED BY <1>1, <2>1
  <1>5. CASE WlanInterruptEnable
    <2>1. Line'
      BY <1>5 DEF WlanInterruptEnable, Main, receiver, chip, Line, Powered, LowFor, Latched,
                  Listening
    <2> QED BY <1>1, <2>1
  <1>6. CASE CheckMissed
    <2>1. /\ pc = "check" /\ pc' = "sent" /\ ~(edge /\ intEnabled)
          /\ UNCHANGED <<receiver, intEnabled, edge, power>>
          /\ spi \in {"IDLE", "WRITE_IRQ"}
      BY <1>6 DEF CheckMissed, Main, Interrupt, Inv, LinkType, Claimed
    <2>2. CASE UNCHANGED <<spi, cs, inbox, irq>>
      BY <1>1, <2>1, <2>2 DEF receiver, Line, Powered, LowFor, Latched, Listening
    <2>3. CASE irq /\ cs /\ WriteDone
      BY <1>1, <2>1, <2>3
      DEF WriteDone, SpiWriteDataSynchronous, receiver, Line, Powered, LowFor, Latched, Listening,
          Inv, Selected
    <2>4. CASE irq /\ ~cs /\ WriteDone
      BY <1>1, <2>1, <2>4
      DEF WriteDone, SpiWriteDataSynchronous, receiver, Line, Powered, LowFor, Latched, Listening,
          Inv, Selected
    <2> QED BY <1>6, <2>2, <2>3, <2>4 DEF CheckMissed, ReadWlanInterruptPin
  <1>7. CASE SpiWriteReturns
    <2>1. Line'
      BY <1>7 DEF SpiWriteReturns, Written, Main, receiver, chip, Line, Powered, LowFor, Latched,
                  Listening
    <2> QED BY <1>1, <2>1
  <1> QED BY <1>2, <1>3, <1>4, <1>5, <1>6, <1>7

LEMMA BaseCall ==
    ASSUME Base,
           \/ SimpleLink_Init_Start \/ hci_event_handler \/ HostFlowControlConsumeBuff
           \/ hci_data_send \/ FetchData \/ Return
    PROVE  Typed' /\ Line'
  <1> USE DEF Base
  <1>1. CASE SimpleLink_Init_Start
    <2> DEFINE a == Cmd("SIMPLE_LINK_START", None)
               b == Cmd("READ_BUFFER_SIZE", None)
    <2>1. a \in Commands /\ b \in Commands /\ "SIMPLE_LINK_START" \in Opcodes
      BY DEF Cmd, Commands, Names, Opcodes
    <2>2. <<a, b>> \in Seq(Commands) /\ <<a, b>> # <<>>
      <3> HIDE DEF a, b
      <3> QED BY <2>1
    <2>3. Typed'
      BY <1>1, <2>1, <2>2
      DEF SimpleLink_Init_Start, hci_command_send, SimpleLinkWaitEvent, receiver, chip,
          Typed, InACall
    <2>4. Line'
      BY <1>1 DEF SimpleLink_Init_Start, hci_command_send, Main, receiver, chip,
                  Line, Powered, LowFor, Latched, Listening
    <2> QED BY <2>3, <2>4
  <1>2. CASE hci_event_handler
    <2>1. rx \in Packets /\ pc = "wait"
      BY <1>2 DEF hci_event_handler, Main, Typed
    <2>2. Cmd("PATCH", None) \in Commands
      BY DEF Cmd, Commands, Names
    <2>3. ret' \in Sockets \cup Outcomes
      BY <1>2, <2>1 DEF hci_event_handler, StoreResult, Typed, Packets
    <2>4. Typed'
      BY <1>2, <2>1, <2>2, <2>3 DEF hci_event_handler, chip, Typed, InACall
    <2>5. Line'
      BY <1>2, <2>1
      DEF hci_event_handler, SpiResumeSpi, chip, Line, Powered, LowFor, Latched, Listening,
          Inv, Claimed
    <2> QED BY <2>4, <2>5
  <1>3. CASE HostFlowControlConsumeBuff
    <2>1. Typed'
      BY <1>3, EmptySeq DEF HostFlowControlConsumeBuff, Main, chip, Typed, InACall
    <2>2. Line'
      BY <1>3 DEF HostFlowControlConsumeBuff, Main, chip, Line, Powered, LowFor, Latched,
                  Listening, Inv, Claimed
    <2> QED BY <2>1, <2>2
  <1>4. CASE FetchData
    <2>1. Typed'
      BY <1>4, ScriptFetch DEF FetchData, receiver, chip, Typed, InACall
    <2>2. Line'
      BY <1>4 DEF FetchData, Main, receiver, chip, Line, Powered, LowFor, Latched,
                  Listening, Inv, Claimed
    <2> QED BY <2>1, <2>2
  <1>5. CASE hci_data_send
    <2>1. Head(script) \in Commands /\ Head(script).op \in Opcodes
      BY <1>5, HeadTailProperties DEF hci_data_send, Main, Typed, InACall, Scripted, Opcodes
    <2>2. Typed'
      BY <1>5, <2>1
      DEF hci_data_send, hci_command_send, SimpleLinkWaitEvent, Main, chip, Typed, InACall
    <2>3. Line'
      BY <1>5 DEF hci_data_send, hci_command_send, Main, chip, Line, Powered, LowFor, Latched,
                  Listening, Inv, Claimed
    <2> QED BY <2>2, <2>3
  <1>6. CASE Return
    <2>1. "fail" \in Outcomes
      BY DEF Outcomes
    <2>2. Typed'
      <3>1. CASE Len(script) > 1 /\ script' = Tail(script) /\ cmd' = script[2]
                   /\ awaited' = script[2].op
        <4>1. InACall
          BY <1>6 DEF Return, Main, InACall
        <4>2. script[2].op \in Opcodes
          BY <3>1, <4>1, ScriptGoesOn, Naming DEF Opcodes
        <4> QED BY <1>6, <2>1, <3>1, <4>1, <4>2, ScriptGoesOn DEF Return, chip, Typed, InACall
      <3>2. CASE script' = <<>> /\ pc' = "app" /\ UNCHANGED <<cmd, awaited>>
        BY <1>6, <2>1, <3>2, EmptySeq DEF Return, chip, Typed, InACall
      <3> QED BY <1>6, <3>1, <3>2 DEF Return, GoesOn, hci_command_send, SimpleLinkWaitEvent
    <2>3. Line'
      BY <1>6 DEF Return, hci_command_send, Main, chip, Line, Powered, LowFor, Latched,
                  Listening, Inv, Claimed
    <2> QED BY <2>2, <2>3
  <1> QED BY <1>1, <1>2, <1>3, <1>4, <1>5, <1>6

LEMMA BaseChip ==
    ASSUME Base,
           LowersLine \/ Executes \/ FreesBuffer \/ Notifies
             \/ \E sd \in Sockets : Disconnects(sd)
    PROVE  Typed' /\ Line'
  <1> USE DEF Base
  <1>1. CASE LowersLine
    <2>1. Typed'
      BY <1>1 DEF LowersLine, driver, receiver, host, Typed, InACall
    <2>2. Line'
      BY <1>1 DEF LowersLine, Falls, driver, receiver, Line, Powered, LowFor, Latched,
                  Listening, Inv, Selected, Claimed
    <2> QED BY <2>1, <2>2
  <1>2. ASSUME NEW s \in Seq(Packets), out' = out \o s, power = "on",
               UNCHANGED <<driverButOut, irq, edge, power>>,
               inbox' \in Seq(Commands)
        PROVE  Typed' /\ Line'
    <2>1. out' \in Seq(Packets) /\ (out # <<>> => out' # <<>>)
      BY <1>2, Saying DEF Typed
    <2>2. Typed'
      BY <1>2, <2>1 DEF driverButOut, host, Typed, InACall
    <2>3. Line'
      BY <1>2, <2>1 DEF driverButOut, Line, Powered, LowFor, Latched, Listening
    <2> QED BY <2>2, <2>3
  <1>3. \A op \in {"FREE_BUFF", "WLAN", "TCP_CLOSE_WAIT", "PATCHES_REQ"},
           sd \in Sockets \cup {None} : <<Unsol(op, sd)>> \in Seq(Packets)
    <2> SUFFICES ASSUME NEW op \in {"FREE_BUFF", "WLAN", "TCP_CLOSE_WAIT", "PATCHES_REQ"},
                        NEW sd \in Sockets \cup {None}
                 PROVE  <<Unsol(op, sd)>> \in Seq(Packets)
      OBVIOUS
    <2>1. Unsol(op, sd) \in Packets
      BY SaysType
    <2> QED BY <2>1
  <1>4. CASE Executes
    <2> DEFINE c == Head(inbox)
    <2>1. c \in Commands /\ Tail(inbox) \in Seq(Commands) /\ inbox' = Tail(inbox)
          /\ power = "on"
      BY <1>4, HeadTailProperties DEF Executes, Typed, Line, Powered
    <2>2. \E s \in Seq(Packets) : out' = out \o s
      <3>1. CASE \E r \in Results(c) : out' = out \o Answers(c, r)
        <4>1. got \in 0..2
          BY DEF Inv, LinkType
        <4>2. \A r \in Results(c) : Answers(c, r) \in Seq(Packets)
          BY <2>1, <4>1, ResultsType, SaysType
        <4> QED BY <3>1, <4>2
      <3>2. CASE out' = out \o <<Unsol("PATCHES_REQ", None)>>
        BY <1>3, <3>2
      <3> QED BY <1>4, <3>1, <3>2 DEF Executes, Say
    <2> QED BY <1>2, <1>4, <2>1, <2>2 DEF Executes
  <1>5. CASE FreesBuffer
    BY <1>2, <1>3, <1>5 DEF FreesBuffer, Say, Typed
  <1>6. CASE Notifies
    BY <1>2, <1>3, <1>6 DEF Notifies, Say, chip, Typed
  <1>7. ASSUME NEW sd \in Sockets, Disconnects(sd)
        PROVE  Typed' /\ Line'
    BY <1>2, <1>3, <1>7 DEF Disconnects, Say, chip, Typed
  <1> QED BY <1>1, <1>4, <1>5, <1>6, <1>7

LEMMA BaseStep == Base /\ [Next]_vars => Base'
  <1> SUFFICES ASSUME Base, [Next]_vars PROVE Base'
    OBVIOUS
  <1>1. Inv' /\ Scripted'
    BY InvStep, ScriptStep DEF Base
  <1>2. Typed' /\ Line'
    <2>1. CASE Calls
      BY <2>1, BaseCalls
    <2>2. CASE Driver
      <3>1. CASE Poll
        BY <3>1, BaseIrq DEF Poll, cc3k_int_poll, Interrupt
      <3> QED BY <2>2, <3>1, BaseWrite, BaseCall DEF Driver
    <2>3. CASE Interrupted
      BY <2>3, BaseIrq DEF Interrupted, Isr, Interrupt
    <2>4. CASE LowersLine \/ Executes \/ FreesBuffer \/ Notifies
                 \/ \E sd \in Sockets : Disconnects(sd)
      BY <2>4, BaseChip
    <2>5. CASE UNCHANGED vars
      <3>1. Typed'
        BY <2>5 DEF Base, Typed, InACall, vars, host, receiver, chip
      <3>2. Line'
        BY <2>5 DEF Base, Line, Powered, LowFor, Latched, Listening, vars, host, receiver, chip
      <3> QED BY <3>1, <3>2
    <2> QED BY <2>1, <2>2, <2>3, <2>4, <2>5 DEF Next
  <1> QED BY <1>1, <1>2 DEF Base

---------------------------------------------------------------------------
(***************************************************************************)
(* What is in flight: what the chip has said and main code has not looked   *)
(* at.  The event, or the request for patches, opens the answer to a        *)
(* command; data may follow it, behind other reports.                       *)
(***************************************************************************)
Opener(p) == p.kind = "event" \/ p.op = "PATCHES_REQ"

IsReply(p) == Opener(p) \/ p.kind = "data"

\* The event behind which data comes.
Brings(p) ==
    /\ p.kind = "event"
    /\ \/ p.op \in {"RECV", "RECVFROM"} /\ p.ret = "data"
       \/ p.op = "NVMEM_READ"

Quiet(f) == \A i \in 1..Len(f) : ~IsReply(f[i])

Unopened(f) == \A i \in 1..Len(f) : ~Opener(f[i])

InOrder(f) ==
    \A i, j \in 1..Len(f) :
        i < j /\ IsReply(f[i]) /\ IsReply(f[j]) => Brings(f[i]) /\ f[j].kind = "data"

\* A reply is one to the command op, the k-th packet.
Ours(p, op, k) ==
    /\ p.kind \in {"event", "data"} => p.to = k
    /\ p.kind = "event" => p.op = op
    /\ p.kind = "data" => p.op = "DATA"
    /\ p.op = "PATCHES_REQ" => op = "SIMPLE_LINK_START" /\ p.kind = "unsol"

Tagged(f, op, k) == \A i \in 1..Len(f) : Ours(f[i], op, k)

LEMMA TailSays ==
    ASSUME NEW f \in Seq(Packets), f # <<>>, InOrder(f), NEW op, NEW k, Tagged(f, op, k)
    PROVE  /\ Tail(f) \in Seq(Packets) /\ f[1] \in Packets /\ Ours(f[1], op, k)
           /\ InOrder(Tail(f)) /\ Tagged(Tail(f), op, k)
           /\ Quiet(f) => Quiet(Tail(f))
           /\ Unopened(f) => Unopened(Tail(f))
           /\ IsReply(f[1]) => Unopened(Tail(f)) /\ ~Quiet(f)
           /\ IsReply(f[1]) /\ ~Brings(f[1]) => Quiet(Tail(f))
           /\ ~IsReply(f[1]) /\ Quiet(Tail(f)) => Quiet(f)
           /\ ~IsReply(f[1]) /\ Unopened(Tail(f)) => Unopened(f)
           /\ Opener(f[1]) => ~Unopened(f)
  <1> DEFINE t == Tail(f)
  <1>1. /\ t \in Seq(Packets) /\ Len(t) = Len(f) - 1 /\ Len(f) \in Nat \ {0}
        /\ \A i \in 1..Len(t) : t[i] = f[i+1]
    BY HeadTailProperties, EmptySeq
  <1> HIDE DEF t
  <1>2. f[1] \in Packets /\ Ours(f[1], op, k)
    BY <1>1 DEF Tagged
  <1>3. \A i \in 1..Len(t) : i + 1 \in 2..Len(f) /\ t[i] = f[i+1]
    BY <1>1
  <1>4. \A j \in 2..Len(f) : j - 1 \in 1..Len(t) /\ t[j-1] = f[j]
    BY <1>1
  <1>5. InOrder(t)
    <2> SUFFICES ASSUME NEW i \in 1..Len(t), NEW j \in 1..Len(t), i < j,
                        IsReply(t[i]), IsReply(t[j])
                 PROVE  Brings(t[i]) /\ t[j].kind = "data"
      BY DEF InOrder
    <2>1. i + 1 \in 1..Len(f) /\ j + 1 \in 1..Len(f) /\ i + 1 < j + 1
      BY <1>1
    <2> QED BY <1>3, <2>1 DEF InOrder
  <1>6. Tagged(t, op, k) /\ (Quiet(f) => Quiet(t)) /\ (Unopened(f) => Unopened(t))
    BY <1>1, <1>3 DEF Tagged, Quiet, Unopened
  <1>7. ASSUME IsReply(f[1]) PROVE Unopened(t) /\ ~Quiet(f) /\ (~Brings(f[1]) => Quiet(t))
    <2>1. \A j \in 2..Len(f) : IsReply(f[j]) => Brings(f[1]) /\ f[j].kind = "data"
      BY <1>1, <1>7 DEF InOrder
    <2>2. \A j \in 2..Len(f) : ~Opener(f[j])
      <3> SUFFICES ASSUME NEW j \in 2..Len(f), Opener(f[j]) PROVE FALSE
        OBVIOUS
      <3>1. f[j].kind = "data" /\ f[j].op = "PATCHES_REQ"
        BY <2>1 DEF Opener, IsReply
      <3>2. Ours(f[j], op, k)
        BY <1>1 DEF Tagged
      <3> QED BY <3>1, <3>2 DEF Ours
    <2> QED BY <1>1, <1>3, <1>7, <2>1, <2>2 DEF Unopened, Quiet
  <1>8. ASSUME ~IsReply(f[1])
        PROVE  (Quiet(t) => Quiet(f)) /\ (Unopened(t) => Unopened(f))
    <2>1. ~Opener(f[1])
      BY <1>8 DEF IsReply
    <2>2. \A j \in 1..Len(f) : j = 1 \/ j \in 2..Len(f)
      BY <1>1
    <2> QED BY <1>4, <1>8, <2>1, <2>2 DEF Quiet, Unopened
  <1>9. Opener(f[1]) => ~Unopened(f)
    BY <1>1 DEF Unopened
  <1> QED BY <1>1, <1>2, <1>5, <1>6, <1>7, <1>8, <1>9 DEF t

\* A report more.
LEMMA ReportSaid ==
    ASSUME NEW f \in Seq(Packets), NEW u \in Packets, ~IsReply(u),
           InOrder(f), NEW op, NEW k, Tagged(f, op, k)
    PROVE  /\ InOrder(f \o <<u>>) /\ Tagged(f \o <<u>>, op, k)
           /\ Quiet(f \o <<u>>) <=> Quiet(f)
           /\ Unopened(f \o <<u>>) <=> Unopened(f)
  <1> DEFINE g == f \o <<u>>
  <1>1. <<u>> \in Seq(Packets) /\ Len(<<u>>) = 1 /\ <<u>>[1] = u
    OBVIOUS
  <1>2. Len(f) \in Nat /\ Len(g) = Len(f) + 1 /\ g[Len(f) + 1] = u
        /\ \A i \in 1..Len(f) : g[i] = f[i]
    BY <1>1, ConcatProperties
  <1> HIDE DEF g
  <1>3. \A i \in 1..Len(g) : i \in 1..Len(f) \/ i = Len(f) + 1
    BY <1>2
  <1>4. \A i \in 1..Len(f) : i \in 1..Len(g)
    BY <1>2
  <1>5. ~IsReply(g[Len(f) + 1]) /\ ~Opener(g[Len(f) + 1]) /\ Ours(u, op, k)
    BY <1>2 DEF IsReply, Opener, Packets, Ours
  <1>6. InOrder(g)
    BY <1>2, <1>3, <1>5 DEF InOrder
  <1>7. Tagged(g, op, k)
    BY <1>2, <1>3, <1>5 DEF Tagged
  <1>8. (Quiet(g) <=> Quiet(f)) /\ (Unopened(g) <=> Unopened(f))
    BY <1>2, <1>3, <1>4, <1>5 DEF Quiet, Unopened
  <1> QED BY <1>6, <1>7, <1>8 DEF g

\* An answer, after nothing but reports.
LEMMA AnswerSaid ==
    ASSUME NEW f \in Seq(Packets), Quiet(f),
           NEW s \in Seq(Packets), s # <<>>, InOrder(s), Opener(s[1]),
           NEW op, NEW k, Tagged(s, op, k)
    PROVE  InOrder(f \o s) /\ Tagged(f \o s, op, k) /\ ~Unopened(f \o s)
  <1> DEFINE g == f \o s
             n == Len(f)
  <1>1. /\ n \in Nat /\ Len(s) \in Nat \ {0} /\ Len(g) = n + Len(s)
        /\ \A i \in 1..n : g[i] = f[i]
        /\ \A i \in n+1..Len(g) : g[i] = s[i - n]
    BY ConcatProperties, EmptySeq
  <1> HIDE DEF g, n
  <1>2. \A i \in 1..Len(g) : ~IsReply(g[i]) \/ (i - n \in 1..Len(s) /\ g[i] = s[i - n])
    BY <1>1 DEF Quiet, n
  <1>3. InOrder(g)
    <2> SUFFICES ASSUME NEW i \in 1..Len(g), NEW j \in 1..Len(g), i < j,
                        IsReply(g[i]), IsReply(g[j])
                 PROVE  Brings(g[i]) /\ g[j].kind = "data"
      BY DEF InOrder
    <2>1. i - n \in 1..Len(s) /\ j - n \in 1..Len(s) /\ g[i] = s[i - n] /\ g[j] = s[j - n]
          /\ i - n < j - n
      BY <1>1, <1>2
    <2> QED BY <2>1 DEF InOrder
  <1>4. Tagged(g, op, k)
    <2> SUFFICES ASSUME NEW i \in 1..Len(g) PROVE Ours(g[i], op, k)
      BY DEF Tagged
    <2>1. CASE i \in 1..n
      <3>1. g[i] = f[i] /\ f[i] \in Packets /\ ~IsReply(f[i])
        BY <1>1, <2>1 DEF Quiet, n
      <3> QED BY <3>1 DEF Ours, IsReply, Opener
    <2>2. CASE i \in n+1..Len(g)
      BY <1>1, <2>2 DEF Tagged
    <2> QED BY <1>1, <2>1, <2>2
  <1>5. ~Unopened(g)
    BY <1>1 DEF Unopened
  <1> QED BY <1>3, <1>4, <1>5 DEF g

---------------------------------------------------------------------------
(***************************************************************************)
(* One command, one answer.                                                 *)
(***************************************************************************)
\* The packet in the buffer is the first of those in flight.
Flight == IF rx = None THEN out ELSE <<rx>> \o out

\* The command is with the chip and its event has not come.
Asking == pc \in {"check", "sent", "wait"} /\ ~OnItsWay /\ ~dataPending

\* PATCH is the answer to a request of the chip, in the middle of the start.
Belongs(c) == c.op = awaited \/ (c.op = "PATCH" /\ awaited = "SIMPLE_LINK_START")

Waiting ==
    /\ dataPending \in BOOLEAN
    /\ dataPending => pc = "wait" /\ awaited = None
    /\ ~dataPending /\ pc \in {"write", "claim", "enable", "check", "sent", "wait"} =>
            awaited \in Opcodes /\ awaited = script[1].op
    /\ pc \in {"off", "power", "app", "credit", "take", "return"} => awaited = None
    /\ OnItsWay => Belongs(cmd)

\* A packet waits in the buffer only with the interrupt off.
Held == rx # None => IsReply(rx) /\ ~intEnabled

Asked ==
    inbox # <<>> => Asking /\ Quiet(Flight) /\ Len(inbox) = 1 /\ Belongs(inbox[1])

Opened == ~Unopened(Flight) => Asking /\ inbox = <<>>

\* Data without its event: the event has been looked at, and said that there is data.
Fetching ==
    Unopened(Flight) /\ ~Quiet(Flight) =>
        \/ pc = "return" /\ FetchesData(script[1]) /\ script[1].op # "DATA"
        \/ pc = "wait" /\ dataPending

Told == pc = "return" => answered = sent

Flying == InOrder(Flight) /\ Tagged(Flight, awaited, sent)

Protocol == Waiting /\ Held /\ Asked /\ Opened /\ Fetching /\ Told /\ Flying

LEMMA FlightType ==
    ASSUME Base
    PROVE  /\ Flight \in Seq(Packets)
           /\ rx # None => /\ rx \in Packets /\ Flight # <<>> /\ Flight[1] = rx
                           /\ Tail(Flight) = out
           /\ rx = None => Flight = out
  <1>1. out \in Seq(Packets) /\ rx \in Packets \cup {None}
    BY DEF Base, Typed
  <1>2. CASE rx = None
    BY <1>1, <1>2 DEF Flight
  <1>3. CASE rx # None
    <2> DEFINE f == <<rx>> \o out
    <2>1. /\ <<rx>> \in Seq(Packets) /\ Len(<<rx>>) = 1 /\ <<rx>>[1] = rx /\ <<rx>> # <<>>
          /\ rx \in Packets
      BY <1>1, <1>3
    <2>2. /\ f \in Seq(Packets) /\ f # <<>> /\ Len(f) = Len(out) + 1 /\ f[1] = rx
          /\ \A i \in 1..Len(out) : f[i+1] = out[i]
          /\ Len(out) \in Nat
      BY <1>1, <2>1, ConcatProperties, ConcatEqualIffEmpty
    <2> HIDE DEF f
    <2>3. Tail(f) \in Seq(Packets) /\ Len(Tail(f)) = Len(out)
          /\ \A i \in 1..Len(out) : Tail(f)[i] = out[i]
      BY <2>2, HeadTailProperties
    <2>4. Tail(f) = out
      BY <1>1, <2>3, SeqEqual
    <2> QED BY <1>3, <2>1, <2>2, <2>4 DEF Flight, f
  <1> QED BY <1>2, <1>3

\* Nothing but reports is in flight while main code is not waiting.
LEMMA Silence ==
    ASSUME Base, Protocol,
           \/ pc \notin {"check", "sent", "wait", "return"}
           \/ OnItsWay
           \/ pc = "return" /\ ~FetchesData(script[1])
    PROVE  Quiet(Flight) /\ inbox = <<>> /\ rx = None
  <1>1. inbox = <<>> /\ Unopened(Flight)
    BY DEF Protocol, Asked, Opened, Asking
  <1>2. Quiet(Flight)
    <2>1. OnItsWay /\ pc = "wait" => FALSE
      BY DEF OnItsWay, Base, Inv, Claimed
    <2>2. OnItsWay /\ pc = "return" => FALSE
      BY DEF OnItsWay, Base, Inv, Claimed
    <2> QED BY <1>1, <2>1, <2>2 DEF Protocol, Fetching
  <1>3. rx = None
    <2> SUFFICES ASSUME rx # None PROVE FALSE
      OBVIOUS
    <2>1. IsReply(Flight[1]) /\ Flight \in Seq(Packets) /\ Flight # <<>>
      BY FlightType DEF Protocol, Held
    <2>2. Len(Flight) \in Nat \ {0}
      BY <2>1, EmptySeq
    <2> QED BY <1>2, <2>1, <2>2 DEF Quiet
  <1> QED BY <1>1, <1>2, <1>3

\* With nothing but reports in flight the tags are for any command.
LEMMA QuietTagged ==
    ASSUME NEW f \in Seq(Packets), Quiet(f), NEW op, NEW k
    PROVE  Tagged(f, op, k) /\ Unopened(f) /\ InOrder(f)
  <1>1. \A i \in 1..Len(f) : ~IsReply(f[i]) /\ f[i] \in Packets
    BY DEF Quiet
  <1> QED BY <1>1 DEF Tagged, Unopened, InOrder, Ours, IsReply, Opener

LEMMA ProtocolStart == Init => Protocol
  <1> SUFFICES ASSUME Init PROVE Protocol
    OBVIOUS
  <1>1. rx = None /\ out = <<>> /\ pc = "off" /\ dataPending = FALSE /\ inbox = <<>>
        /\ awaited = None /\ spi = "POWERUP" /\ Flight = <<>>
    BY DEF Init, Flight
  <1>2. Quiet(Flight) /\ <<>> \in Seq(Packets)
    BY <1>1 DEF Quiet
  <1>3. Flying /\ Unopened(Flight)
    BY <1>1, <1>2, QuietTagged DEF Flying
  <1>4. dataPending \in BOOLEAN
    BY <1>1, Zenon
  <1>5. Waiting
    BY <1>1, <1>4 DEF Waiting, OnItsWay
  <1> QED BY <1>1, <1>2, <1>3, <1>5 DEF Protocol, Held, Asked, Opened, Fetching, Told

\* A step after which nothing but reports is in flight and the chip has no command.
LEMMA StillSilent ==
    ASSUME Base', Quiet(Flight)', inbox' = <<>>, rx' = None,
           Waiting', Told'
    PROVE  Protocol'
  <1>1. Flight' \in Seq(Packets)
    BY DEF Flight, Base, Typed
  <1>2. Flying' /\ Unopened(Flight')
    BY <1>1, QuietTagged DEF Flying
  <1> QED BY <1>2 DEF Protocol, Held, Asked, Opened, Fetching

---------------------------------------------------------------------------
LEMMA ProtocolCalls == ASSUME Base, Base', Protocol, Calls PROVE Protocol'
  <1>1. CASE wlan_start
    <2>1. pc = "off" /\ pc' = "power" /\ rx' = None /\ UNCHANGED <<out, inbox>>
          /\ dataPending' = FALSE /\ awaited' = None /\ spi' = "POWERUP"
      BY <1>1 DEF wlan_start, Main
    <2>2. Quiet(Flight) /\ inbox = <<>> /\ rx = None
      BY <2>1, Silence
    <2>3. Quiet(Flight)'
      BY <2>1, <2>2 DEF Flight, Quiet
    <2>4. dataPending' \in BOOLEAN
      BY <2>1, Zenon
    <2>5. Waiting' /\ Told'
      BY <2>1, <2>4 DEF Waiting, Told, OnItsWay
    <2> QED BY <2>1, <2>2, <2>3, <2>5, StillSilent
  <1>2. CASE wlan_stop
    <2>1. pc = "app" /\ pc' = "off" /\ rx' = rx /\ out' = <<>> /\ inbox' = <<>>
          /\ UNCHANGED <<host, spi>>
      BY <1>2 DEF wlan_stop, Main
    <2>2. rx = None
      BY <2>1, Silence
    <2>3. Quiet(Flight)'
      BY <2>1, <2>2 DEF Flight, Quiet
    <2>4. spi # "WRITE_IRQ" /\ ~dataPending /\ awaited = None
      BY <2>1 DEF Base, Inv, Claimed, Protocol, Waiting
    <2>5. Waiting' /\ Told'
      BY <2>1, <2>4 DEF Protocol, Waiting, Told, OnItsWay, host
    <2> QED BY <2>1, <2>2, <2>3, <2>5, StillSilent
  <1>3. ASSUME NEW commands, Legal(commands), Run(commands)
        PROVE  Protocol'
    <2>1. /\ pc = "app" /\ pc' = "write" /\ UNCHANGED <<rx, out, inbox, dataPending>>
          /\ cmd' = commands[1] /\ awaited' = commands[1].op /\ script' = commands
      BY <1>3 DEF Run, Main, hci_command_send, SimpleLinkWaitEvent, receiver, chip
    <2>2. Quiet(Flight) /\ inbox = <<>> /\ rx = None
      BY <2>1, Silence
    <2>3. Quiet(Flight)'
      BY <2>1, <2>2 DEF Flight, Quiet
    <2>4. commands[1].op \in Opcodes
      BY <1>3, LegalHead, Naming
    <2>5. Waiting' /\ Told'
      BY <2>1, <2>4 DEF Protocol, Waiting, Told, Belongs
    <2> QED BY <2>1, <2>2, <2>3, <2>5, StillSilent
  <1>4. ASSUME NEW sd \in Sockets, NEW op \in {"SEND", "SENDTO"}, simple_link_send(sd, op)
        PROVE  Protocol'
    <2>1. /\ pc = "app" /\ pc' = "credit"
          /\ UNCHANGED <<rx, out, inbox, dataPending, awaited, spi>>
      BY <1>4 DEF simple_link_send, Main, receiver, chip
    <2>2. Quiet(Flight) /\ inbox = <<>> /\ rx = None
      BY <2>1, Silence
    <2>3. Quiet(Flight)'
      BY <2>1, <2>2 DEF Flight, Quiet
    <2>4. spi # "WRITE_IRQ"
      BY <2>1 DEF Base, Inv, Claimed
    <2>5. Waiting' /\ Told'
      BY <2>1, <2>4 DEF Protocol, Waiting, Told, OnItsWay
    <2> QED BY <2>1, <2>2, <2>3, <2>5, StillSilent
  <1> QED BY <1>1, <1>2, <1>3, <1>4, CallsAre

\* The packet reaches the chip.
LEMMA ProtocolArrives ==
    ASSUME Base, Base', Protocol, OnItsWay, ~OnItsWay', pc' \in {"check", "sent", "wait"},
           inbox' = Append(inbox, cmd),
           UNCHANGED <<cmd, script, awaited, dataPending, rx, out, intEnabled, sent>>
    PROVE  Protocol'
  <1>1. Quiet(Flight) /\ inbox = <<>> /\ rx = None
    BY Silence
  <1>2. Quiet(Flight)' /\ rx' = None /\ Flight' = Flight
    BY <1>1 DEF Flight, Quiet
  <1>3. Flying' /\ Unopened(Flight')
    BY <1>1, <1>2, QuietTagged, FlightType DEF Flying
  <1>4. /\ ~dataPending
        /\ awaited \in Opcodes /\ awaited = script[1].op
        /\ Belongs(cmd)
    <2>1. pc \in {"write", "claim", "enable", "check", "sent"}
      BY DEF OnItsWay, Base, Inv, Claimed
    <2> QED BY <2>1 DEF Protocol, Waiting
  <1>5. Asked'
    <2>1. cmd \in Commands /\ Append(inbox, cmd) = <<cmd>>
      BY <1>1 DEF Base, Typed
    <2>2. Len(<<cmd>>) = 1 /\ <<cmd>>[1] = cmd
      OBVIOUS
    <2> QED BY <1>2, <1>4, <2>1, <2>2 DEF Asked, Asking, Belongs
  <1>6. Waiting'
    BY <1>4 DEF Protocol, Waiting
  <1> QED BY <1>2, <1>3, <1>5, <1>6 DEF Protocol, Held, Opened, Fetching, Told

\* A step that leaves alone what is in flight and with the chip.
LEMMA ProtocolAlone ==
    ASSUME Base, Base', Protocol,
           UNCHANGED <<script, awaited, dataPending, rx, out, inbox, sent, ret, answered>>,
           intEnabled' = intEnabled \/ rx = None,
           \/ pc' = pc
           \/ pc \in {"write", "claim"} /\ pc' \in {"claim", "enable"}
           \/ pc = "enable" /\ pc' = "check"
           \/ pc \in {"check", "sent"} /\ pc' \in {"sent", "wait"},
           OnItsWay' <=> OnItsWay,
           OnItsWay => cmd' = cmd
    PROVE  Protocol'
  <1>1. Flight' = Flight
    BY DEF Flight
  <1>2. Waiting'
    BY DEF Protocol, Waiting, Belongs
  <1>3. Held' /\ Flying' /\ Told'
    BY <1>1 DEF Protocol, Held, Flying, Told
  <1>4. Asked' /\ Opened'
    BY <1>1 DEF Protocol, Asked, Opened, Asking, Belongs
  <1>5. Fetching'
    BY <1>1 DEF Protocol, Fetching, FetchesData
  <1> QED BY <1>2, <1>3, <1>4, <1>5 DEF Protocol

LEMMA ProtocolWrite ==
    ASSUME Base, Base', Protocol,
           \/ SpiFirstWrite \/ WlanInterruptDisable \/ ClaimSpi \/ WlanInterruptEnable
           \/ CheckMissed \/ SpiWriteReturns
    PROVE  Protocol'
  <1>1. CASE SpiFirstWrite
    <2>1. OnItsWay /\ ~OnItsWay' /\ pc' = "sent"
      BY <1>1 DEF SpiFirstWrite, Main, OnItsWay
    <2> QED BY <1>1, <2>1, ProtocolArrives DEF SpiFirstWrite, host, receiver
  <1>2. CASE WlanInterruptDisable
    <2>1. OnItsWay /\ OnItsWay' /\ pc = "write" /\ pc' = "claim"
      BY <1>2 DEF WlanInterruptDisable, Main, OnItsWay
    <2>2. rx = None
      BY <2>1, Silence
    <2> QED BY <1>2, <2>1, <2>2, ProtocolAlone DEF WlanInterruptDisable, host, receiver, chip
  <1>3. CASE ClaimSpi
    <2>1. OnItsWay /\ OnItsWay' /\ pc = "claim" /\ pc' = "enable"
      BY <1>3 DEF ClaimSpi, Main, OnItsWay
    <2> QED BY <1>3, <2>1, ProtocolAlone DEF ClaimSpi, host, receiver, chip
  <1>4. CASE WlanInterruptEnable
    <2>1. OnItsWay /\ OnItsWay' /\ pc = "enable" /\ pc' = "check"
      BY <1>4 DEF WlanInterruptEnable, Main, OnItsWay, Base, Inv, Claimed
    <2>2. rx = None
      BY <2>1, Silence
    <2> QED BY <1>4, <2>1, <2>2, ProtocolAlone DEF WlanInterruptEnable, host, receiver, chip
  <1>5. CASE CheckMissed
    <2>1. pc = "check" /\ pc' = "sent" /\ UNCHANGED <<host, receiver, intEnabled, sent, answered>>
      BY <1>5 DEF CheckMissed, Main
    <2>2. CASE UNCHANGED <<spi, inbox>>
      <3>1. OnItsWay' <=> OnItsWay
        BY <2>1, <2>2 DEF OnItsWay
      <3> QED BY <2>1, <2>2, <3>1, ProtocolAlone DEF host, receiver
    <2>3. CASE WriteDone /\ cs
      <3>1. OnItsWay /\ ~OnItsWay'
        BY <2>1, <2>3 DEF OnItsWay, WriteDone, Base, Inv, Selected
      <3> QED BY <2>1, <2>3, <3>1, ProtocolArrives
              DEF WriteDone, SpiWriteDataSynchronous, host, receiver
    <2>4. CASE WriteDone /\ ~cs
      <3>1. ~OnItsWay /\ ~OnItsWay'
        BY <2>1, <2>4 DEF OnItsWay, WriteDone, Base, Inv, Selected
      <3> QED BY <2>1, <2>4, <3>1, ProtocolAlone
              DEF WriteDone, SpiWriteDataSynchronous, host, receiver
    <2> QED BY <1>5, <2>2, <2>3, <2>4 DEF CheckMissed
  <1>6. CASE SpiWriteReturns
    <2>1. ~OnItsWay /\ ~OnItsWay' /\ pc = "sent" /\ pc' = "wait"
      BY <1>6 DEF SpiWriteReturns, Written, Main, OnItsWay
    <2> QED BY <1>6, <2>1, ProtocolAlone DEF SpiWriteReturns, receiver, chip
  <1> QED BY <1>1, <1>2, <1>3, <1>4, <1>5, <1>6

\* The interrupt routine reads a packet: into the buffer, if it is a reply, and
\* otherwise it is dealt with.  A send that failed is dealt with although main code
\* waits for it.
LEMMA ProtocolRead ==
    ASSUME Base, Base', Protocol, Read, spi = "IDLE", out # <<>>, rx = None,
           UNCHANGED <<pc, host, ret, sent, answered>>
    PROVE  Protocol'
  <1> DEFINE p == out[1]
  <1>1. /\ out \in Seq(Packets) /\ Flight = out /\ out' = Tail(out) /\ Offered = p
        /\ p \in Packets /\ spi' = "IDLE" /\ UNCHANGED inbox
    BY FlightType, HeadTailProperties, EmptySeq DEF Read, Base, Typed, Offered
  <1>2. /\ InOrder(out) /\ Tagged(out, awaited, sent)
    BY <1>1 DEF Protocol, Flying
  <1>3. OnItsWay' <=> OnItsWay
    BY <1>1 DEF OnItsWay
  <1>4. Waiting' /\ Told'
    BY <1>3 DEF Protocol, Waiting, Told, host, Belongs
  <1>5. CASE ~hci_unsol_event_handler(p)
    <2>1. rx' = p /\ ~intEnabled'
      BY <1>1, <1>5 DEF Read, SpiReceiveHandler, SpiPauseSpi
    <2>2. IsReply(p)
      BY <1>1, <1>5 DEF hci_unsol_event_handler, IsReply, Opener, Packets
    <2>3. rx' # None
      BY <1>1, <2>1, LinkAssumption DEF LinkAssumption
    <2>4. Flight' = Flight
      <3> DEFINE f == <<p>> \o Tail(out)
      <3>1. /\ Tail(out) \in Seq(Packets) /\ Len(Tail(out)) = Len(out) - 1
            /\ \A i \in 1..Len(Tail(out)) : Tail(out)[i] = out[i+1]
            /\ Len(out) \in Nat \ {0}
        BY <1>1, HeadTailProperties, EmptySeq
      <3>2. <<p>> \in Seq(Packets) /\ Len(<<p>>) = 1 /\ <<p>>[1] = p
        <4> HIDE DEF p
        <4> QED BY <1>1
      <3>3. /\ f \in Seq(Packets) /\ Len(f) = Len(out)
            /\ \A i \in 1..Len(out) : f[i] = out[i]
        BY <3>1, <3>2, ConcatProperties
      <3>4. f = out
        <4> HIDE DEF f
        <4> QED BY <1>1, <3>3, SeqEqual
      <3> QED BY <1>1, <2>1, <2>3, <3>4 DEF Flight
    <2>5. Held' /\ Flying'
      BY <2>1, <2>2, <2>4 DEF Protocol, Held, Flying, host
    <2>6. Asked' /\ Opened'
      BY <1>1, <1>3, <2>4 DEF Protocol, Asked, Opened, Asking, Belongs, host
    <2>7. Fetching'
      BY <2>4 DEF Protocol, Fetching, FetchesData, host
    <2> QED BY <1>4, <2>5, <2>6, <2>7 DEF Protocol
  <1>6. CASE hci_unsol_event_handler(p)
    <2>1. rx' = None /\ Flight' = Tail(out)
      BY <1>1, <1>6 DEF Read, SpiReceiveHandler, Flight
    <2>2. /\ InOrder(Tail(out)) /\ Tagged(Tail(out), awaited, sent)
          /\ Quiet(out) => Quiet(Tail(out))
          /\ Unopened(out) => Unopened(Tail(out))
          /\ Ours(p, awaited, sent)
          /\ IsReply(p) /\ ~Brings(p) => Quiet(Tail(out))
          /\ ~IsReply(p) /\ Unopened(Tail(out)) => Unopened(out)
      BY <1>1, <1>2, TailSays
    <2>3. ~Brings(p)
      BY <1>6 DEF hci_unsol_event_handler, Brings
    <2>4. Held' /\ Flying'
      BY <2>1, <2>2 DEF Held, Flying, host
    <2>5. Asked' /\ Opened'
      BY <1>1, <1>3, <2>1, <2>2 DEF Protocol, Asked, Opened, Asking, Belongs, host
    <2>6. Fetching'
      BY <1>1, <2>1, <2>2, <2>3 DEF Protocol, Fetching, FetchesData, host
    <2> QED BY <1>4, <2>4, <2>5, <2>6 DEF Protocol
  <1> QED BY <1>5, <1>6

LEMMA ProtocolIrq ==
    ASSUME Base, Base', Protocol, SPI_IRQ, intEnabled, irq \/ edge,
           UNCHANGED <<pc, host, ret, sent, answered>>
    PROVE  Protocol'
  <1>1. rx = None /\ pc # "off"
    BY DEF Protocol, Held, Base, Line, Listening
  <1>2. CASE spi \in {"POWERUP", "INITIALIZED"}
    <2>1. OnItsWay' <=> OnItsWay
      BY <1>2 DEF SPI_IRQ, OnItsWay
    <2> QED BY <1>2, <2>1, ProtocolAlone DEF SPI_IRQ, host
  <1>3. CASE spi = "IDLE"
    BY <1>1, <1>3, SomethingToRead, ProtocolRead DEF SPI_IRQ
  <1>4. CASE spi = "WRITE_IRQ"
    <2>1. /\ WriteDone /\ UNCHANGED <<rx, intEnabled, out>> /\ cs
      BY <1>4 DEF SPI_IRQ, Base, Inv, Selected
    <2>2. pc \in {"check", "sent"}
      BY <1>4 DEF Base, Inv, Claimed, Masked
    <2>3. OnItsWay /\ ~OnItsWay'
      BY <1>4, <2>1, <2>2 DEF OnItsWay, WriteDone
    <2> QED BY <2>1, <2>2, <2>3, ProtocolArrives DEF WriteDone, SpiWriteDataSynchronous, host
  <1> QED BY <1>2, <1>3, <1>4 DEF Base, Inv, LinkType

\* Main code looks at the packet in the buffer: the event ends the wait, or the data
\* that followed it; a request for patches is answered.
LEMMA ProtocolLooks ==
    ASSUME Base, Base', Protocol, hci_event_handler
    PROVE  Protocol'
  <1> DEFINE f == Flight
             p == rx
  <1>1. /\ pc = "wait" /\ rx # None /\ rx' = None /\ UNCHANGED <<out, spi, script, inbox>>
    BY DEF hci_event_handler, Main, chip
  <1>2. /\ f \in Seq(Packets) /\ f # <<>> /\ f[1] = p /\ p \in Packets /\ Tail(f) = out
    BY <1>1, FlightType
  <1>3. Flight' = out
    BY <1>1 DEF Flight
  <1>4. /\ InOrder(out) /\ Tagged(out, awaited, sent) /\ Ours(p, awaited, sent)
        /\ Unopened(out) /\ ~Quiet(f)
        /\ ~Brings(p) => Quiet(out)
        /\ Opener(p) => ~Unopened(f)
        /\ Quiet(f) => Quiet(Tail(f))
    BY <1>1, <1>2, TailSays DEF Protocol, Flying, Held
  <1>5. inbox = <<>>
    BY <1>4 DEF Protocol, Asked
  <1>6. ~OnItsWay /\ spi # "WRITE_IRQ"
    BY <1>1 DEF OnItsWay, Base, Inv, Claimed
  <1>7. \A op : Tagged(out, op, sent)
    BY <1>4 DEF Tagged, Unopened, Ours, Opener
  <1>8. CASE p.kind = "event"
    <2>1. /\ ~dataPending /\ awaited \in Opcodes /\ awaited = script[1].op
          /\ p.op = awaited /\ p.to = sent /\ dataPending \in BOOLEAN
      BY <1>1, <1>4, <1>8 DEF Opener, Protocol, Opened, Asking, Waiting, Ours
    <2>2. awaited # None /\ p.op # "PATCHES_REQ"
      BY <2>1, LinkAssumption DEF LinkAssumption, Opcodes, Plain
    <2>3. /\ awaited' = None /\ ~dataPending' /\ pc' = "return" /\ answered' = p.to
          /\ sent' = sent /\ ret' = p.ret
      BY <1>8, <2>1, <2>2 DEF hci_event_handler, Expected, StoreResult
    <2>4. dataPending' = FALSE
      BY <2>1, <1>8 DEF hci_event_handler
    <2>5. dataPending' \in BOOLEAN
      BY <2>4, Zenon
    <2>6. Waiting' /\ Held' /\ Told'
      BY <1>1, <1>6, <2>1, <2>3, <2>5 DEF Waiting, Held, Told, OnItsWay
    <2>7. Asked' /\ Opened' /\ Flying'
      BY <1>1, <1>3, <1>4, <1>5, <1>7, <2>3 DEF Asked, Opened, Flying
    <2>8. Fetching'
      <3>1. ~Quiet(out) => FetchesData(script[1])' /\ script[1].op # "DATA"
        BY <1>1, <1>4, <2>1, <2>3 DEF Brings, FetchesData
      <3> QED BY <1>1, <1>3, <2>3, <3>1 DEF Fetching
    <2> QED BY <2>6, <2>7, <2>8 DEF Protocol
  <1>9. CASE p.kind # "event" /\ p.op = "PATCHES_REQ"
    <2>1. /\ ~dataPending /\ awaited \in Opcodes /\ awaited = script[1].op
          /\ awaited = "SIMPLE_LINK_START" /\ dataPending \in BOOLEAN
      BY <1>1, <1>4, <1>9 DEF Opener, Protocol, Opened, Asking, Waiting, Ours
    <2>2. /\ awaited' = awaited /\ pc' = "write" /\ cmd' = Cmd("PATCH", None)
      BY <1>9, <2>1 DEF hci_event_handler, Expected
    <2>3. dataPending' = FALSE
      BY <2>1 DEF hci_event_handler
    <2>4. dataPending' \in BOOLEAN
      BY <2>3, Zenon
    <2>5. Waiting' /\ Told'
      BY <1>1, <2>1, <2>2, <2>3, <2>4 DEF Waiting, Told, Belongs, Cmd
    <2>6. Quiet(Flight')
      BY <1>3, <1>4, <1>9 DEF Brings
    <2> QED BY <1>1, <1>5, <2>5, <2>6, StillSilent
  <1>10. CASE p.kind # "event" /\ p.op # "PATCHES_REQ"
    <2>1. p.kind = "data" /\ Quiet(out)
      BY <1>1, <1>2, <1>4, <1>10 DEF Protocol, Held, IsReply, Opener, Brings
    <2>2. Unopened(f)
      <3>1. ~Opener(p)
        BY <1>10 DEF Opener
      <3>2. \A j \in 1..Len(f) : j = 1 \/ (j - 1 \in 1..Len(out) /\ out[j-1] = f[j])
        BY <1>2, HeadTailProperties
      <3> QED BY <1>2, <1>4, <3>1, <3>2 DEF Unopened
    <2>3. dataPending /\ awaited = None /\ dataPending \in BOOLEAN
      BY <1>1, <1>4, <2>2 DEF Protocol, Fetching, Waiting
    <2>4. dataPending' = FALSE
      BY <2>1 DEF hci_event_handler
    <2>5. dataPending' \in BOOLEAN
      BY <2>4, Zenon
    <2>6. awaited' = None /\ pc' = "return" /\ sent' = sent
      BY <2>1, <2>3, <1>10, <2>4 DEF hci_event_handler
    <2>7. answered' = p.to /\ p.to = sent
      BY <1>4, <2>1, <2>3, <2>4 DEF hci_event_handler, Ours
    <2>8. Waiting' /\ Told'
      BY <1>1, <1>6, <2>4, <2>5, <2>6, <2>7 DEF Waiting, Told, OnItsWay
    <2>9. Quiet(Flight')
      BY <1>3, <2>1
    <2> QED BY <1>1, <1>5, <2>8, <2>9, StillSilent
  <1> QED BY <1>8, <1>9, <1>10

LEMMA ProtocolCall ==
    ASSUME Base, Base', Protocol,
           \/ SimpleLink_Init_Start \/ HostFlowControlConsumeBuff \/ hci_data_send
           \/ FetchData \/ Return
    PROVE  Protocol'
  <1>1. CASE SimpleLink_Init_Start \/ hci_data_send
    <2>1. /\ pc \in {"power", "take"} /\ pc' = "write"
          /\ UNCHANGED <<rx, out, inbox, dataPending>>
          /\ cmd' = script'[1] /\ awaited' = cmd'.op /\ script'[1].op \in Opcodes
      <3>1. CASE SimpleLink_Init_Start
        BY <3>1 DEF SimpleLink_Init_Start, Main, hci_command_send, SimpleLinkWaitEvent,
                    receiver, chip, Cmd, Opcodes
      <3>2. CASE hci_data_send
        <4>1. script # <<>> /\ script \in Seq(Commands) /\ pc = "take"
          BY <3>2 DEF hci_data_send, Main, Base, Typed, InACall
        <4>2. script[1] = Head(script) /\ script[1].op \in Opcodes
          BY <4>1 DEF Base, Scripted, Opcodes
        <4> QED BY <3>2, <4>1, <4>2
                DEF hci_data_send, hci_command_send, SimpleLinkWaitEvent, chip
      <3> QED BY <1>1, <3>1, <3>2
    <2>2. Quiet(Flight) /\ inbox = <<>> /\ rx = None
      BY <2>1, Silence
    <2>3. Quiet(Flight)'
      BY <2>1, <2>2 DEF Flight, Quiet
    <2>4. Waiting' /\ Told'
      BY <2>1 DEF Protocol, Waiting, Told, Belongs
    <2> QED BY <2>1, <2>2, <2>3, <2>4, StillSilent
  <1>2. CASE HostFlowControlConsumeBuff
    <2>1. /\ pc = "credit" /\ pc' \in {"app", "take"}
          /\ UNCHANGED <<rx, out, inbox, dataPending, awaited, spi>>
      BY <1>2 DEF HostFlowControlConsumeBuff, Main, chip
    <2>2. Quiet(Flight) /\ inbox = <<>> /\ rx = None
      BY <2>1, Silence
    <2>3. Quiet(Flight)'
      BY <2>1, <2>2 DEF Flight, Quiet
    <2>4. spi # "WRITE_IRQ"
      BY <2>1 DEF Base, Inv, Claimed
    <2>5. Waiting' /\ Told'
      BY <2>1, <2>4 DEF Protocol, Waiting, Told, OnItsWay
    <2> QED BY <2>1, <2>2, <2>3, <2>5, StillSilent
  <1>3. CASE FetchData
    <2>1. /\ pc = "return" /\ pc' = "wait" /\ dataPending' = TRUE
          /\ UNCHANGED <<rx, out, inbox, awaited, sent, spi, intEnabled>>
      BY <1>3 DEF FetchData, Main, SimpleLinkWaitData, receiver, chip
    <2>2. spi # "WRITE_IRQ" /\ awaited = None /\ inbox = <<>> /\ Unopened(Flight)
      BY <2>1 DEF Base, Inv, Claimed, Protocol, Waiting, Asked, Asking, Opened
    <2>3. Flight' = Flight
      BY <2>1 DEF Flight
    <2>4. dataPending' \in BOOLEAN
      BY <2>1, Zenon
    <2>5. Waiting' /\ Held' /\ Flying'
      BY <2>1, <2>2, <2>3, <2>4 DEF Protocol, Waiting, Held, Flying, OnItsWay
    <2> QED BY <2>1, <2>2, <2>3, <2>5 DEF Protocol, Asked, Opened, Fetching, Told
  <1>4. CASE Return
    <2>1. /\ pc = "return" /\ ~FetchesData(script[1])
          /\ UNCHANGED <<rx, out, inbox, dataPending, spi>>
      BY <1>4 DEF Return, Main, chip, Base, Typed, InACall
    <2>2. Quiet(Flight) /\ inbox = <<>> /\ rx = None
      BY <2>1, Silence
    <2>3. Quiet(Flight)'
      BY <2>1, <2>2 DEF Flight, Quiet
    <2>4. spi # "WRITE_IRQ" /\ ~dataPending /\ awaited = None
      BY <2>1 DEF Base, Inv, Claimed, Protocol, Waiting
    <2>5. Told' /\ pc' \in {"write", "app"}
      BY <1>4 DEF Return, Told, hci_command_send
    <2>6. CASE pc' = "app" /\ awaited' = awaited
      <3>1. Waiting'
        BY <2>1, <2>4, <2>6 DEF Protocol, Waiting, OnItsWay
      <3> QED BY <2>1, <2>2, <2>3, <2>5, <3>1, StillSilent
    <2>7. CASE /\ Len(script) > 1 /\ pc' = "write" /\ script' = Tail(script)
               /\ cmd' = script[2] /\ awaited' = script[2].op
      <3>1. script'[1] = script[2] /\ script[2].op \in Opcodes
        BY <2>1, <2>7, ScriptGoesOn, Naming DEF Opcodes, InACall
      <3>2. Waiting'
        BY <2>1, <2>4, <2>7, <3>1 DEF Protocol, Waiting, Belongs
      <3> QED BY <2>1, <2>2, <2>3, <2>5, <3>2, StillSilent
    <2> QED BY <1>4, <2>6, <2>7 DEF Return, GoesOn, hci_command_send, SimpleLinkWaitEvent
  <1> QED BY <1>1, <1>2, <1>3, <1>4

\* A report of the chip.
LEMMA ProtocolReport ==
    ASSUME Base, Base', Protocol, NEW u \in Packets, ~IsReply(u), Say(<<u>>),
           UNCHANGED <<driverButOut, inbox>>
    PROVE  Protocol'
  <1>1. Flight' = Flight \o <<u>>
    <2>1. <<u>> \in Seq(Packets) /\ out \in Seq(Packets) /\ rx' = rx
      BY DEF Base, Typed, driverButOut
    <2>2. CASE rx = None
      BY <2>1, <2>2 DEF Flight, Say
    <2>3. CASE rx # None
      <3>1. <<rx>> \in Seq(Packets)
        <4>1. rx \in Packets
          BY <2>3 DEF Base, Typed
        <4> QED BY <4>1
      <3> QED BY <2>1, <2>3, <3>1, ConcatAssociative DEF Flight, Say
    <2> QED BY <2>2, <2>3
  <1>2. /\ InOrder(Flight') /\ Tagged(Flight', awaited, sent)
        /\ Quiet(Flight') <=> Quiet(Flight)
        /\ Unopened(Flight') <=> Unopened(Flight)
    BY <1>1, FlightType, ReportSaid DEF Protocol, Flying
  <1>3. Waiting' /\ Held' /\ Told' /\ Flying'
    BY <1>2 DEF Protocol, Waiting, Held, Told, Flying, OnItsWay, Belongs, driverButOut, host
  <1>4. Asked' /\ Opened' /\ Fetching'
    BY <1>2 DEF Protocol, Asked, Opened, Fetching, Asking, OnItsWay, Belongs, FetchesData,
                driverButOut, host
  <1> QED BY <1>3, <1>4 DEF Protocol

\* The chip answers the command it has.
LEMMA ProtocolAnswers ==
    ASSUME Base, Base', Protocol, inbox # <<>>, inbox' = Tail(inbox),
           NEW s \in Seq(Packets), s # <<>>, InOrder(s), Opener(s[1]),
           Tagged(s, awaited, sent), Say(s),
           UNCHANGED driverButOut
    PROVE  Protocol'
  <1>1. Asking /\ Quiet(Flight) /\ Len(inbox) = 1
    BY DEF Protocol, Asked
  <1>2. inbox' = <<>>
    <2>1. inbox \in Seq(Commands)
      BY DEF Base, Typed
    <2>2. Tail(inbox) \in Seq(Commands) /\ Len(Tail(inbox)) = 0
      BY <1>1, <2>1, HeadTailProperties
    <2> QED BY <2>2, EmptySeq
  <1>3. rx = None /\ rx' = None
    <2>1. Flight \in Seq(Packets)
      BY FlightType
    <2>2. rx # None => Flight # <<>> /\ IsReply(Flight[1])
      BY FlightType DEF Protocol, Held
    <2>3. Flight # <<>> => Len(Flight) \in Nat \ {0}
      BY <2>1, EmptySeq
    <2>4. rx = None
      BY <1>1, <2>2, <2>3 DEF Quiet
    <2> QED BY <2>4 DEF driverButOut
  <1>4. Flight' = Flight \o s
    BY <1>3 DEF Flight, Say
  <1>5. /\ InOrder(Flight') /\ Tagged(Flight', awaited, sent) /\ ~Unopened(Flight')
    BY <1>1, <1>4, FlightType, AnswerSaid
  <1>6. Waiting' /\ Told' /\ Flying' /\ Asking'
    BY <1>1, <1>5 DEF Protocol, Waiting, Told, Flying, Asking, OnItsWay, Belongs,
                      driverButOut, host
  <1> QED BY <1>2, <1>3, <1>5, <1>6 DEF Protocol, Held, Asked, Opened, Fetching

LEMMA ProtocolExecutes == ASSUME Base, Base', Protocol, Executes PROVE Protocol'
  <1> DEFINE c == Head(inbox)
             op == IF c.op = "PATCH" THEN "SIMPLE_LINK_START" ELSE c.op
             d == Data(got)
  <1>1. /\ c \in Commands /\ c = inbox[1] /\ inbox # <<>> /\ inbox' = Tail(inbox)
    BY DEF Executes, Base, Typed
  <1>2. Asking /\ Belongs(c) /\ got = sent /\ got \in 0..2 /\ awaited \in Opcodes
    <2>1. Asking /\ Belongs(c)
      BY <1>1 DEF Protocol, Asked
    <2> QED BY <2>1 DEF Base, Inv, InStep, LinkType, Asking, Protocol, Waiting
  <1>3. "PATCH" \notin Opcodes /\ "PATCHES_REQ" \notin Opcodes
    BY DEF Opcodes, Plain
  <1>4. op = awaited
    BY <1>2, <1>3 DEF Belongs
  <1>5. ASSUME NEW r \in Results(c), Say(Answers(c, r))
        PROVE  Protocol'
    <2> DEFINE e == Event(op, c.sd, r, got)
               s == Answers(c, r)
    <2>1. s \in Seq(Packets) /\ s # <<>>
      BY <1>1, <1>2, ResultsType, SaysType
    <2>2. s = <<e>> \o IF r = "data" \/ c.op = "NVMEM_READ" THEN <<d>> ELSE <<>>
      BY DEF Answers
    <2>3. e.kind = "event" /\ e.op = op /\ e.to = got /\ e.ret = r
      BY DEF Event
    <2>4. d.kind = "data" /\ d.op = "DATA" /\ d.to = got
      BY DEF Data
    <2>5. r = "data" => c.op \in {"RECV", "RECVFROM"}
      BY LinkAssumption DEF LinkAssumption, Results, Outcomes
    <2>6. Ours(e, awaited, sent) /\ Ours(d, awaited, sent) /\ Opener(e)
      BY <1>2, <1>3, <1>4, <2>3, <2>4 DEF Ours, Opener
    <2> HIDE DEF e, d, s, c, op
    <2>7. e \in Packets /\ d \in Packets
      BY <1>1, <1>2, <1>5, ResultsType
      DEF e, d, op, Event, Data, Packets, Commands, Names, Opcodes, Outcomes
    <2>8. s[1] = e /\ Len(s) \in {1, 2} /\ (Len(s) = 2 => s[2] = d /\ Brings(e))
      <3>1. CASE r = "data" \/ c.op = "NVMEM_READ"
        <4>1. s = <<e>> \o <<d>>
          BY <2>2, <3>1
        <4>2. s[1] = e /\ Len(s) = 2 /\ s[2] = d
          BY <2>7, <4>1
        <4>3. c.op # "PATCH"
          BY <2>5, <3>1
        <4> QED BY <2>3, <2>5, <3>1, <4>2, <4>3 DEF Brings, op
      <3>2. CASE ~(r = "data" \/ c.op = "NVMEM_READ")
        <4>1. s = <<e>> \o <<>>
          BY <2>2, <3>2
        <4> QED BY <2>7, <4>1
      <3> QED BY <3>1, <3>2
    <2>9. InOrder(s) /\ Tagged(s, awaited, sent) /\ Opener(s[1])
      BY <2>4, <2>6, <2>8 DEF InOrder, Tagged, d
    <2>10. UNCHANGED driverButOut /\ Say(s)
      BY <1>5 DEF Executes, s
    <2> QED BY <1>1, <2>1, <2>9, <2>10, ProtocolAnswers
  <1>6. ASSUME c.op = "SIMPLE_LINK_START", Say(<<Unsol("PATCHES_REQ", None)>>)
        PROVE  Protocol'
    <2> DEFINE u == Unsol("PATCHES_REQ", None)
               s == <<u>>
    <2>1. u \in Packets
      BY SaysType
    <2>2. Opener(u) /\ Ours(u, awaited, sent)
      BY <1>4, <1>6 DEF Unsol, Opener, Ours
    <2> HIDE DEF u
    <2>3. s \in Seq(Packets) /\ s # <<>> /\ s[1] = u /\ Len(s) = 1
      BY <2>1
    <2>4. InOrder(s) /\ Tagged(s, awaited, sent) /\ Opener(s[1])
      BY <2>2, <2>3 DEF InOrder, Tagged
    <2>5. UNCHANGED driverButOut /\ Say(s)
      BY <1>6 DEF Executes, u
    <2> QED BY <1>1, <2>3, <2>4, <2>5, ProtocolAnswers
  <1> QED BY <1>5, <1>6 DEF Executes

LEMMA ProtocolChip ==
    ASSUME Base, Base', Protocol,
           LowersLine \/ Executes \/ FreesBuffer \/ Notifies
             \/ \E sd \in Sockets : Disconnects(sd)
    PROVE  Protocol'
  <1>1. CASE LowersLine
    <2>1. OnItsWay' <=> OnItsWay
      BY <1>1 DEF LowersLine, driver, OnItsWay
    <2> QED BY <1>1, <2>1, ProtocolAlone DEF LowersLine, driver, host, receiver
  <1>2. \A op \in {"FREE_BUFF", "WLAN", "TCP_CLOSE_WAIT"}, sd \in Sockets \cup {None} :
            Unsol(op, sd) \in Packets /\ ~IsReply(Unsol(op, sd))
    BY SaysType DEF Unsol, IsReply, Opener
  <1>3. CASE FreesBuffer
    BY <1>2, <1>3, ProtocolReport DEF FreesBuffer
  <1>4. CASE Notifies
    BY <1>2, <1>4, ProtocolReport DEF Notifies, chip
  <1>5. ASSUME NEW sd \in Sockets, Disconnects(sd)
        PROVE  Protocol'
    BY <1>2, <1>5, ProtocolReport DEF Disconnects, chip
  <1> QED BY <1>1, <1>3, <1>4, <1>5, ProtocolExecutes

LEMMA ProtocolStep == Base /\ Base' /\ Protocol /\ [Next]_vars => Protocol'
  <1> SUFFICES ASSUME Base, Base', Protocol, [Next]_vars PROVE Protocol'
    OBVIOUS
  <1>1. CASE Calls
    BY <1>1, ProtocolCalls
  <1>2. CASE Driver
    <2>1. CASE Poll
      BY <2>1, ProtocolIrq DEF Poll, cc3k_int_poll
    <2> QED BY <1>2, <2>1, ProtocolWrite, ProtocolLooks, ProtocolCall DEF Driver
  <1>3. CASE Interrupted
    BY <1>3, ProtocolIrq DEF Interrupted, Isr, Interrupt
  <1>4. CASE LowersLine \/ Executes \/ FreesBuffer \/ Notifies
               \/ \E sd \in Sockets : Disconnects(sd)
    BY <1>4, ProtocolChip
  <1>5. CASE UNCHANGED vars
    <2>1. OnItsWay' <=> OnItsWay
      BY <1>5 DEF vars, OnItsWay
    <2> QED BY <1>5, <2>1, ProtocolAlone DEF vars, host, receiver, chip
  <1> QED BY <1>1, <1>2, <1>3, <1>4, <1>5 DEF Next

\* A call returns with the event, and the data, that answer the packet it has sent last
\* (evnt_handler.cpp 237-494), whatever the chip reports in between and whatever the
\* interrupt routine has swallowed.
THEOREM OwnAnswerTheorem == Spec => []OwnAnswer
  <1>1. Protocol => OwnAnswer
    BY DEF Protocol, Told, OwnAnswer
  <1> QED BY <1>1, BaseStart, BaseStep, ProtocolStart, ProtocolStep, PTL DEF Spec

\* Whoever takes a packet from the chip finds the buffer empty.
LEMMA ReadsIntoEmpty ==
    ASSUME Base, Protocol, [Next]_vars, power' = power, Len(out') < Len(out)
    PROVE  rx = None
  <1>1. CASE Poll \/ Isr
    BY <1>1 DEF Poll, cc3k_int_poll, Isr, Interrupt, Protocol, Held
  <1>2. CASE wlan_stop
    BY <1>2 DEF wlan_stop, Main, Base, Line, Powered
  <1>3. out \in Seq(Packets) /\ Len(out) \in Nat
    BY DEF Base, Typed
  <1>4. ASSUME NEW s, s \in Seq(Packets), out' = out \o s
        PROVE  FALSE
    BY <1>3, <1>4, ConcatProperties, EmptySeq
  <1>5. CASE Executes \/ FreesBuffer \/ Notifies \/ \E sd \in Sockets : Disconnects(sd)
    <2>1. \E s \in Seq(Packets) : out' = out \o s
      <3>1. \A op \in {"FREE_BUFF", "WLAN", "TCP_CLOSE_WAIT", "PATCHES_REQ"},
               sd \in Sockets \cup {None} : <<Unsol(op, sd)>> \in Seq(Packets)
        <4> SUFFICES ASSUME NEW op \in {"FREE_BUFF", "WLAN", "TCP_CLOSE_WAIT", "PATCHES_REQ"},
                            NEW sd \in Sockets \cup {None}
                     PROVE  <<Unsol(op, sd)>> \in Seq(Packets)
          OBVIOUS
        <4>1. Unsol(op, sd) \in Packets
          BY SaysType
        <4> QED BY <4>1
      <3>2. inbox # <<>> => Head(inbox) \in Commands
        BY HeadTailProperties DEF Base, Typed
      <3>3. inbox # <<>> =>
              \A r \in Results(Head(inbox)) : Answers(Head(inbox), r) \in Seq(Packets)
        BY <3>2, ResultsType, SaysType DEF Base, Inv, LinkType
      <3> QED BY <1>5, <3>1, <3>3 DEF Executes, FreesBuffer, Notifies, Disconnects, Say
    <2> QED BY <1>4, <2>1
  <1>6. CASE out' = out
    BY <1>3, <1>6
  <1>7. Calls => wlan_stop \/ out' = out
    BY CallsAre DEF wlan_start, Run, simple_link_send, receiver
  <1>8. Driver => Poll \/ out' = out
    BY DEF Driver, SimpleLink_Init_Start, SpiFirstWrite, WlanInterruptDisable, ClaimSpi,
           WlanInterruptEnable, CheckMissed, SpiWriteReturns, hci_event_handler,
           HostFlowControlConsumeBuff, hci_data_send, FetchData, Return, receiver
  <1> QED BY <1>1, <1>2, <1>5, <1>6, <1>7, <1>8
          DEF Next, Interrupted, LowersLine, driver, receiver, vars

\* There is one receive buffer (ccspi.cpp, SSIContReadOperation): the interrupt routine
\* reads into it only when main code has looked at what was there.
THEOREM NothingOverwrittenTheorem == Spec => NothingOverwritten
  <1>1. Base /\ Protocol /\ [Next]_vars =>
            [power' = power /\ Len(out') < Len(out) => rx = None]_vars
    BY ReadsIntoEmpty
  <1> QED BY <1>1, BaseStart, BaseStep, ProtocolStart, ProtocolStep, PTL
          DEF Spec, NothingOverwritten

---------------------------------------------------------------------------
(***************************************************************************)
(* The buffers.  Those the chip has given back and said so are still in     *)
(* flight as reports; the packet on its way to the chip will take one.      *)
(***************************************************************************)
Returns(s) == {i \in 1..Len(s) : s[i].op = "FREE_BUFF"}

Returned(s) == Cardinality(Returns(s))

LEMMA ReturnedType ==
    ASSUME NEW s \in Seq(Packets)
    PROVE  IsFiniteSet(Returns(s)) /\ Returned(s) \in Nat
  <1>1. Len(s) \in Nat
    OBVIOUS
  <1>2. IsFiniteSet(1..Len(s))
    BY <1>1, FS_Interval
  <1>3. Returns(s) \in SUBSET (1..Len(s))
    BY DEF Returns
  <1>4. IsFiniteSet(Returns(s))
    BY <1>2, <1>3, FS_Subset
  <1> QED BY <1>4, FS_CardinalityType DEF Returned

LEMMA ReturnedNone ==
    ASSUME NEW s \in Seq(Packets), NEW t \in Seq(Packets),
           \A i \in 1..Len(t) : t[i].op # "FREE_BUFF"
    PROVE  Returned(s \o t) = Returned(s)
  <1> DEFINE g == s \o t
  <1>1. /\ Len(s) \in Nat /\ Len(t) \in Nat /\ Len(g) = Len(s) + Len(t)
        /\ \A i \in 1..Len(s) : g[i] = s[i]
        /\ \A i \in Len(s)+1..Len(g) : i - Len(s) \in 1..Len(t) /\ g[i] = t[i - Len(s)]
    BY ConcatProperties
  <1> HIDE DEF g
  <1>2. \A i : i \in Returns(g) <=> i \in Returns(s)
    BY <1>1 DEF Returns
  <1>3. Returns(g) = Returns(s)
    BY <1>2, Zenon
  <1> QED BY <1>3 DEF Returned, g

LEMMA ReturnedOne ==
    ASSUME NEW s \in Seq(Packets), NEW u \in Packets, u.op = "FREE_BUFF"
    PROVE  Returned(s \o <<u>>) = Returned(s) + 1
  <1> DEFINE g == s \o <<u>>
             n == Len(s)
  <1>0. <<u>> \in Seq(Packets) /\ Len(<<u>>) = 1 /\ <<u>>[1] = u
    OBVIOUS
  <1>1. /\ n \in Nat /\ Len(g) = n + 1 /\ g[n + 1] = u
        /\ \A i \in 1..n : g[i] = s[i]
    BY <1>0, ConcatProperties
  <1> HIDE DEF g
  <1>2. Returns(g) = Returns(s) \cup {n + 1}
    BY <1>1 DEF Returns
  <1>3. n + 1 \notin Returns(s)
    BY <1>1 DEF Returns
  <1> QED BY <1>2, <1>3, ReturnedType, FS_AddElement DEF Returned, g

\* The first packet is taken away, the others move up.
LEMMA ReturnedTail ==
    ASSUME NEW s \in Seq(Packets), s # <<>>
    PROVE  Returned(s) = Returned(Tail(s)) + IF s[1].op = "FREE_BUFF" THEN 1 ELSE 0
  <1> DEFINE t == Tail(s)
             U == Returns(s) \ {1}
             f == [i \in Returns(t) |-> i + 1]
  <1>1. /\ t \in Seq(Packets) /\ Len(t) = Len(s) - 1 /\ Len(s) \in Nat \ {0}
        /\ \A i \in 1..Len(t) : t[i] = s[i+1]
    BY HeadTailProperties, EmptySeq
  <1> HIDE DEF t
  <1>2. \A i \in Returns(t) : i \in Nat /\ i + 1 \in U
    BY <1>1 DEF Returns
  <1>3. \A j \in U : j - 1 \in Returns(t) /\ (j - 1) + 1 = j
    BY <1>1 DEF Returns
  <1>4. f \in Bijection(Returns(t), U)
    <2>1. f \in [Returns(t) -> U] /\ \A i \in Returns(t) : f[i] = i + 1
      BY <1>2
    <2>2. \A i, j \in Returns(t) : f[i] = f[j] => i = j
      BY <1>2, <2>1
    <2>3. \A j \in U : \E i \in Returns(t) : f[i] = j
      BY <1>3, <2>1
    <2> QED BY <2>1, <2>2, <2>3, Zenon DEF Bijection, Injection, Surjection, IsInjective
  <1>5. Cardinality(U) = Returned(t)
    <2>1. IsFiniteSet(Returns(t))
      BY <1>1, ReturnedType
    <2>2. ExistsBijection(Returns(t), U)
      BY <1>4 DEF ExistsBijection
    <2> QED BY <2>1, <2>2, FS_Bijection DEF Returned
  <1>6. Cardinality(U) = IF 1 \in Returns(s) THEN Returned(s) - 1 ELSE Returned(s)
    BY ReturnedType, FS_RemoveElement DEF Returned
  <1>7. 1 \in Returns(s) <=> s[1].op = "FREE_BUFF"
    BY <1>1 DEF Returns
  <1>8. Returned(s) \in Nat /\ Returned(t) \in Nat
    BY <1>1, ReturnedType
  <1> QED BY <1>5, <1>6, <1>7, <1>8 DEF t

---------------------------------------------------------------------------
Owed == IF OnItsWay /\ cmd.op \in {"SEND", "SENDTO"} THEN 1 ELSE 0

\* Until READ_BUFFER_SIZE is answered no buffer is taken.
Starting ==
    \/ pc \in {"off", "power"}
    \/ script # <<>> /\ script[1].op \in {"SIMPLE_LINK_START", "READ_BUFFER_SIZE"}

Balance ==
    /\ credits \in Nat /\ free \in Nat /\ loaded \in Nat
    /\ credits + Returned(out) + Owed <= free /\ free <= Buffers
    /\ Starting => free = Buffers /\ Returned(out) = 0
    /\ loaded <= Buffers
    /\ pc = "take" => loaded >= 1 /\ loaded <= credits

SocketSets == inactive \subseteq Sockets /\ closed \subseteq Sockets

Counted == Balance /\ SocketSets

\* While the driver starts, no data is on its way.
LEMMA NoneOwed == ASSUME Base, Protocol, Starting PROVE Owed = 0
  <1>1. ASSUME OnItsWay PROVE cmd.op \notin {"SEND", "SENDTO"}
    <2>1. awaited = script[1].op /\ Belongs(cmd) /\ script # <<>> /\ pc \notin {"off", "power"}
      BY <1>1 DEF OnItsWay, Base, Inv, Claimed, Protocol, Waiting, Typed, InACall
    <2> QED BY <2>1 DEF Starting, Belongs
  <1> QED BY <1>1 DEF Owed

LEMMA ReturnedIsNat == ASSUME Base PROVE Returned(out) \in Nat
  BY ReturnedType DEF Base, Typed

LEMMA OwedIs == Owed \in {0, 1}
  BY DEF Owed

LEMMA CountedStart == Init => Counted
  <1> SUFFICES ASSUME Init PROVE Counted
    OBVIOUS
  <1>1. Returns(<<>>) = {}
    BY DEF Returns
  <1>2. Returned(out) = 0
    BY <1>1, FS_EmptySet DEF Init, Returned
  <1>3. Owed = 0
    BY DEF Init, Owed, OnItsWay
  <1>4. Buffers \in Nat
    BY LinkAssumption DEF LinkAssumption
  <1> QED BY <1>2, <1>3, <1>4 DEF Init, Counted, Balance, SocketSets, Starting

\* A step that leaves the count of buffers alone.
LEMMA CountedAlone ==
    ASSUME Base, Base', Counted,
           UNCHANGED <<credits, out, free, loaded>>, Owed' <= Owed,
           Starting' => Starting, pc' = "take" => pc = "take"
    PROVE  Balance'
  <1>1. Returned(out) \in Nat /\ Returned(out)' = Returned(out)
    BY ReturnedIsNat
  <1>2. Owed \in Nat /\ Owed' \in Nat
    BY DEF Owed
  <1>3. Buffers \in Nat
    BY LinkAssumption DEF LinkAssumption
  <1> QED BY <1>1, <1>2, <1>3 DEF Counted, Balance

LEMMA CountedCalls ==
    ASSUME Base, Base', Protocol, Protocol', Counted, Calls
    PROVE  Balance' /\ SocketSets'
  <1> USE LinkAssumption DEF LinkAssumption
  <1>1. CASE wlan_start
    <2>1. /\ pc = "off" /\ credits' = 0 /\ UNCHANGED <<loaded, out, free, inactive, closed>>
          /\ pc' = "power" /\ spi' = "POWERUP"
      BY <1>1 DEF wlan_start, Main
    <2>2. Owed' = 0
      BY <2>1 DEF Owed, OnItsWay
    <2>3. Returned(out)' = Returned(out) /\ Starting
      BY <2>1 DEF Starting
    <2> QED BY <2>1, <2>2, <2>3 DEF Counted, Balance, SocketSets
  <1>2. CASE wlan_stop
    <2>1. /\ pc = "app" /\ pc' = "off" /\ free' = Buffers /\ out' = <<>> /\ closed' = {}
          /\ UNCHANGED <<credits, loaded, inactive, cmd, spi>>
      BY <1>2 DEF wlan_stop, Main, host
    <2>2. Returned(out') = 0
      <3>1. Returns(<<>>) = {}
        BY DEF Returns
      <3> QED BY <2>1, <3>1, FS_EmptySet DEF Returned
    <2>3. Owed' = 0
      BY <2>1 DEF Owed, OnItsWay, Base, Inv, Claimed
    <2> QED BY <2>1, <2>2, <2>3, ReturnedIsNat, OwedIs DEF Counted, Balance, SocketSets
  <1>3. ASSUME NEW commands, Legal(commands), Run(commands)
        PROVE  Balance' /\ SocketSets'
    <2>1. /\ pc = "app" /\ pc' = "write" /\ cmd' = commands[1] /\ script' = commands
          /\ UNCHANGED <<credits, out, free, loaded, inactive, closed>>
      BY <1>3 DEF Run, Main, hci_command_send, receiver, chip
    <2>2. commands[1].op \notin {"SEND", "SENDTO", "SIMPLE_LINK_START", "READ_BUFFER_SIZE"}
      BY <1>3, LegalHead DEF Plain
    <2>3. Owed' = 0 /\ ~Starting'
      BY <2>1, <2>2 DEF Owed, Starting
    <2>4. Owed' <= Owed
      BY <2>3, OwedIs
    <2>5. Balance'
      BY <2>1, <2>3, <2>4, CountedAlone
    <2> QED BY <2>1, <2>5 DEF Counted, SocketSets
  <1>4. ASSUME NEW sd \in Sockets, NEW op \in {"SEND", "SENDTO"}, simple_link_send(sd, op)
        PROVE  Balance' /\ SocketSets'
    <2>1. /\ pc = "app" /\ pc' = "credit" /\ script' = <<Cmd(op, sd)>>
          /\ UNCHANGED <<credits, out, free, loaded, inactive, closed, spi, cmd>>
      BY <1>4 DEF simple_link_send, Main, receiver, chip
    <2>2. Owed' = 0 /\ ~Starting'
      BY <2>1 DEF Owed, OnItsWay, Base, Inv, Claimed, Starting, Cmd
    <2>3. Owed' <= Owed
      BY <2>2, OwedIs
    <2>4. Balance'
      BY <2>1, <2>2, <2>3, CountedAlone
    <2> QED BY <2>1, <2>4 DEF Counted, SocketSets
  <1> QED BY <1>1, <1>2, <1>3, <1>4, CallsAre

\* The packet reaches the chip, which keeps a buffer for data.
LEMMA CountedArrives ==
    ASSUME Base, Base', Protocol, Counted, OnItsWay, ~OnItsWay',
           pc' \in {"check", "sent", "wait"},
           free' = IF cmd.op \in {"SEND", "SENDTO"} THEN free - 1 ELSE free,
           UNCHANGED <<cmd, script, credits, loaded, out>>
    PROVE  Balance'
  <1>1. Returned(out) \in Nat /\ Returned(out)' = Returned(out)
    BY ReturnedIsNat
  <1>2. Owed' = 0 /\ free' = free - Owed
    BY DEF Owed, Counted, Balance
  <1>3. Starting => Owed = 0
    BY NoneOwed
  <1>4. Starting' => Starting
    BY DEF Starting
  <1> QED BY <1>1, <1>2, <1>3, <1>4, OwedIs, LinkAssumption
          DEF Counted, Balance, LinkAssumption

LEMMA CountedWrite ==
    ASSUME Base, Base', Protocol, Counted,
           \/ SpiFirstWrite \/ WlanInterruptDisable \/ ClaimSpi \/ WlanInterruptEnable
           \/ CheckMissed \/ SpiWriteReturns
    PROVE  Balance'
  <1>1. CASE SpiFirstWrite
    <2>1. /\ pc = "write" /\ pc' = "sent" /\ OnItsWay /\ ~OnItsWay' /\ spi = "INITIALIZED"
          /\ UNCHANGED <<cmd, script, credits, loaded, out, free>>
      BY <1>1 DEF SpiFirstWrite, Main, OnItsWay, host, receiver
    <2>2. Owed' <= Owed
      BY <2>1, OwedIs DEF Owed
    <2>3. Starting' => Starting
      BY <2>1 DEF Starting
    <2> QED BY <2>1, <2>2, <2>3, CountedAlone
  <1>2. CASE WlanInterruptDisable \/ ClaimSpi \/ WlanInterruptEnable
    <2>1. /\ OnItsWay /\ OnItsWay' /\ pc' \in {"claim", "enable", "check"}
          /\ UNCHANGED <<cmd, script, credits, loaded, out, free>>
      BY <1>2 DEF WlanInterruptDisable, ClaimSpi, WlanInterruptEnable, Main, OnItsWay, host,
                  receiver, chip, Base, Inv, Claimed
    <2>2. Owed' <= Owed
      BY <2>1, OwedIs DEF Owed
    <2>3. Starting' => Starting
      BY <2>1 DEF Starting
    <2> QED BY <2>1, <2>2, <2>3, CountedAlone
  <1>3. CASE CheckMissed
    <2>1. pc = "check" /\ pc' = "sent" /\ UNCHANGED <<cmd, script, credits, loaded, out>>
      BY <1>3 DEF CheckMissed, Main, host, receiver
    <2>2. CASE WriteDone /\ cs
      <3>1. OnItsWay /\ ~OnItsWay'
        BY <2>1, <2>2 DEF OnItsWay, WriteDone, Base, Inv, Selected
      <3> QED BY <2>1, <2>2, <3>1, CountedArrives DEF WriteDone, SpiWriteDataSynchronous
    <2>3. CASE (WriteDone /\ ~cs) \/ UNCHANGED <<spi, free>>
      <3>1. UNCHANGED free /\ (OnItsWay' <=> OnItsWay)
        BY <2>1, <2>3 DEF OnItsWay, WriteDone, SpiWriteDataSynchronous, Base, Inv, Selected
      <3>2. Owed' <= Owed
        BY <2>1, <3>1, OwedIs DEF Owed
      <3>3. Starting' => Starting
        BY <2>1 DEF Starting
      <3> QED BY <2>1, <3>1, <3>2, <3>3, CountedAlone
    <2> QED BY <1>3, <2>2, <2>3 DEF CheckMissed
  <1>4. CASE SpiWriteReturns
    <2>1. /\ pc = "sent" /\ pc' = "wait" /\ ~OnItsWay'
          /\ UNCHANGED <<script, credits, loaded, out, free>>
      BY <1>4 DEF SpiWriteReturns, Written, Main, OnItsWay, receiver, chip
    <2>2. Owed' <= Owed
      BY <2>1, OwedIs DEF Owed
    <2>3. Starting' => Starting
      BY <2>1 DEF Starting
    <2> QED BY <2>1, <2>2, <2>3, CountedAlone
  <1> QED BY <1>1, <1>2, <1>3, <1>4

LEMMA CountedIrq ==
    ASSUME Base, Base', Protocol, Counted, SPI_IRQ, intEnabled, irq \/ edge,
           UNCHANGED <<pc, host, ret, closed>>
    PROVE  Balance' /\ SocketSets'
  <1>1. /\ UNCHANGED <<cmd, script, loaded, pc>>
        /\ Starting' <=> Starting
    BY DEF host, Starting
  <1>2. CASE spi \in {"POWERUP", "INITIALIZED"}
    <2>1. UNCHANGED <<credits, out, free, inactive>> /\ (OnItsWay' <=> OnItsWay)
      BY <1>1, <1>2 DEF SPI_IRQ, OnItsWay
    <2>2. Owed' <= Owed
      BY <1>1, <2>1, OwedIs DEF Owed
    <2> QED BY <1>1, <2>1, <2>2, CountedAlone DEF Counted, SocketSets
  <1>3. CASE spi = "IDLE"
    <2> DEFINE p == out[1]
    <2>1. out # <<>> /\ out \in Seq(Packets)
      BY <1>3, SomethingToRead DEF Base, Typed, Line, Listening
    <2>2. /\ out' = Tail(out) /\ Offered = p /\ UNCHANGED free /\ spi' = "IDLE"
          /\ SpiReceiveHandler(p) /\ p \in Packets
      BY <1>3, <2>1 DEF SPI_IRQ, Read, Offered
    <2>3. Returned(out) = Returned(out)' + IF p.op = "FREE_BUFF" THEN 1 ELSE 0
      BY <2>1, <2>2, ReturnedTail
    <2>4. credits' = credits \/ (credits' = credits + 1 /\ p.op = "FREE_BUFF")
      BY <2>2 DEF SpiReceiveHandler, hci_event_unsol_flowcontrol_handler
    <2>5. Returned(out) \in Nat /\ Returned(out)' \in Nat
      BY <2>1, <2>2, ReturnedType, HeadTailProperties
    <2>6. Owed' = Owed
      BY <1>1, <1>3, <2>2 DEF Owed, OnItsWay
    <2>7. Balance'
      BY <1>1, <2>2, <2>3, <2>4, <2>5, <2>6, OwedIs DEF Counted, Balance
    <2>8. inactive' \subseteq Sockets
      BY <2>2 DEF SpiReceiveHandler, set_socket_active_status, Counted, SocketSets
    <2> QED BY <2>7, <2>8 DEF Counted, SocketSets
  <1>4. CASE spi = "WRITE_IRQ"
    <2>1. /\ WriteDone /\ UNCHANGED <<credits, inactive, out>> /\ cs
      BY <1>4 DEF SPI_IRQ, Base, Inv, Selected
    <2>2. pc \in {"check", "sent"}
      BY <1>4 DEF Base, Inv, Claimed, Masked
    <2>3. OnItsWay /\ ~OnItsWay'
      BY <1>1, <1>4, <2>1, <2>2 DEF OnItsWay, WriteDone
    <2>4. Balance'
      BY <1>1, <2>1, <2>2, <2>3, CountedArrives DEF WriteDone, SpiWriteDataSynchronous
    <2> QED BY <2>1, <2>4 DEF Counted, SocketSets
  <1> QED BY <1>2, <1>3, <1>4 DEF Base, Inv, LinkType

\* The answer to READ_BUFFER_SIZE sets the count, when no buffer is taken.
LEMMA CountedLooks ==
    ASSUME Base, Base', Protocol, Protocol', Counted, hci_event_handler
    PROVE  Balance' /\ inactive' \subseteq Sockets
  <1>1. /\ pc = "wait" /\ rx # None /\ pc' \in {"write", "return", "wait"}
        /\ UNCHANGED <<out, spi, script, free, loaded>>
    BY DEF hci_event_handler, Main, chip
  <1>2. ~OnItsWay
    BY <1>1 DEF OnItsWay, Base, Inv, Claimed
  <1>3. Owed = 0 /\ Owed' = 0
    <2>1. pc' = "write" => cmd'.op = "PATCH"
      BY DEF hci_event_handler, Cmd
    <2> QED BY <1>1, <1>2, <2>1 DEF Owed, OnItsWay
  <1>4. Starting' => Starting
    BY <1>1 DEF Starting
  <1>5. Returned(out) \in Nat /\ Returned(out)' = Returned(out)
    BY <1>1, ReturnedIsNat
  <1>6. Buffers \in Nat
    BY LinkAssumption DEF LinkAssumption
  <1>7. CASE rx.op = "READ_BUFFER_SIZE"
    <2>1. /\ Flight \in Seq(Packets) /\ Flight # <<>> /\ Flight[1] = rx /\ rx \in Packets
          /\ IsReply(rx)
      BY <1>1, FlightType DEF Protocol, Held
    <2>2. Len(Flight) \in Nat \ {0}
      BY <2>1, EmptySeq
    <2>3. Ours(rx, awaited, sent)
      BY <2>1, <2>2 DEF Protocol, Flying, Tagged
    <2>4. rx.kind = "event" /\ ~Unopened(Flight)
      BY <1>7, <2>1, <2>2, <2>3 DEF Ours, IsReply, Opener, Unopened
    <2>5. awaited = "READ_BUFFER_SIZE" /\ awaited = script[1].op
      BY <1>1, <1>7, <2>3, <2>4 DEF Ours, Protocol, Opened, Asking, Waiting
    <2>6. Starting
      BY <1>1, <2>5 DEF Starting, Base, Typed, InACall
    <2>7. credits' = Buffers
      BY <1>7 DEF hci_event_handler, StoreResult
    <2>8. Balance'
      BY <1>1, <1>3, <1>4, <1>5, <1>6, <2>6, <2>7 DEF Counted, Balance
    <2>9. inactive' \subseteq Sockets
      BY <1>7 DEF hci_event_handler, StoreResult, Counted, SocketSets
    <2> QED BY <2>8, <2>9
  <1>8. CASE rx.op # "READ_BUFFER_SIZE"
    <2>1. credits' = credits
      BY <1>8 DEF hci_event_handler, StoreResult
    <2>2. Owed' <= Owed
      BY <1>3
    <2>3. Balance'
      BY <1>1, <1>4, <2>1, <2>2, CountedAlone
    <2>4. inactive' \subseteq Sockets
      BY DEF hci_event_handler, StoreResult, set_socket_active_status, Counted, SocketSets
    <2> QED BY <2>3, <2>4
  <1> QED BY <1>7, <1>8

LEMMA CountedCall ==
    ASSUME Base, Base', Protocol, Protocol', Counted,
           \/ SimpleLink_Init_Start \/ HostFlowControlConsumeBuff \/ hci_data_send
           \/ FetchData \/ Return
    PROVE  Balance' /\ inactive' \subseteq Sockets
  <1>1. CASE SimpleLink_Init_Start
    <2>1. /\ pc = "power" /\ pc' = "write" /\ cmd'.op = "SIMPLE_LINK_START"
          /\ UNCHANGED <<credits, out, free, loaded, inactive>>
      BY <1>1 DEF SimpleLink_Init_Start, Main, hci_command_send, receiver, chip, Cmd
    <2>2. Owed' = 0 /\ Starting
      BY <2>1 DEF Owed, Starting
    <2>3. Owed' <= Owed
      BY <2>2, OwedIs
    <2> QED BY <2>1, <2>2, <2>3, CountedAlone DEF Counted, SocketSets
  <1>2. CASE HostFlowControlConsumeBuff
    <2>1. /\ pc = "credit" /\ pc' \in {"app", "take"}
          /\ UNCHANGED <<credits, out, free, inactive, cmd, spi>>
          /\ script' = <<>> \/ script' = script
      BY <1>2 DEF HostFlowControlConsumeBuff, Main, chip
    <2>2. Owed' <= Owed
      BY <2>1, OwedIs DEF Owed, OnItsWay
    <2>3. Starting' => Starting
      BY <2>1 DEF Starting
    <2>4. CASE UNCHANGED loaded /\ pc' = "app"
      BY <2>1, <2>2, <2>3, <2>4, CountedAlone DEF Counted, SocketSets
    <2>5. CASE loaded' = credits /\ credits # 0 /\ pc' = "take"
      <3>1. Returned(out) \in Nat /\ Returned(out)' = Returned(out)
        BY <2>1, ReturnedIsNat
      <3>2. Owed \in Nat /\ Owed' \in Nat
        BY DEF Owed
      <3>3. Balance'
        BY <2>1, <2>2, <2>3, <2>5, <3>1, <3>2, LinkAssumption
        DEF Counted, Balance, LinkAssumption
      <3> QED BY <2>1, <3>3 DEF Counted, SocketSets
    <2> QED BY <1>2, <2>4, <2>5 DEF HostFlowControlConsumeBuff, NoCredit
  <1>3. CASE hci_data_send
    <2>1. /\ pc = "take" /\ pc' = "write" /\ credits' = loaded - 1 /\ loaded' = 0
          /\ UNCHANGED <<out, free, script, inactive>>
      BY <1>3 DEF hci_data_send, Main, hci_command_send, chip
    <2>2. Owed = 0
      BY <2>1 DEF Owed, OnItsWay, Base, Inv, Claimed
    <2>3. Starting' => Starting
      BY <2>1 DEF Starting
    <2>4. Returned(out) \in Nat /\ Returned(out)' = Returned(out) /\ Owed' \in {0, 1}
      BY <2>1, ReturnedIsNat DEF Owed
    <2>5. Balance'
      BY <2>1, <2>2, <2>3, <2>4, LinkAssumption DEF Counted, Balance, LinkAssumption
    <2> QED BY <2>1, <2>5 DEF Counted, SocketSets
  <1>4. CASE FetchData
    <2>1. /\ pc = "return" /\ pc' = "wait"
          /\ UNCHANGED <<credits, out, free, loaded, inactive, cmd, spi>>
      BY <1>4 DEF FetchData, Main, receiver, chip
    <2>2. ~Starting'
      BY <1>4, <2>1, ScriptFetch DEF Starting, Cmd
    <2>3. Owed' <= Owed
      BY <2>1, OwedIs DEF Owed, OnItsWay
    <2> QED BY <2>1, <2>2, <2>3, CountedAlone DEF Counted, SocketSets
  <1>5. CASE Return
    <2>1. /\ pc = "return" /\ pc' \in {"write", "app"}
          /\ UNCHANGED <<credits, out, free, loaded, spi>>
      BY <1>5 DEF Return, Main, hci_command_send, chip
    <2>2. inactive' \subseteq Sockets
      BY <1>5 DEF Return, SocketStatus, set_socket_active_status, Counted, SocketSets
    <2>3. spi # "WRITE_IRQ"
      BY <2>1 DEF Base, Inv, Claimed
    <2>4. CASE script' = <<>> /\ pc' = "app"
      <3>1. Owed' = 0 /\ ~Starting'
        BY <2>1, <2>3, <2>4 DEF Owed, OnItsWay, Starting
      <3>2. Owed' <= Owed
        BY <3>1, OwedIs
      <3> QED BY <2>1, <2>2, <3>1, <3>2, CountedAlone
    <2>5. CASE Len(script) > 1 /\ script' = Tail(script) /\ cmd' = script[2] /\ pc' = "write"
      <3>1. /\ script'[1] = script[2]
            /\ \/ script[2].op \in Plain
               \/ script[2].op = "READ_BUFFER_SIZE" /\ script[1].op = "SIMPLE_LINK_START"
        BY <2>1, <2>5, ScriptGoesOn DEF InACall
      <3>2. Owed' = 0
        BY <2>5, <3>1 DEF Owed, Plain
      <3>3. Starting' => Starting
        BY <2>1, <2>5, <3>1 DEF Starting, Plain, Base, Typed, InACall
      <3>4. Owed' <= Owed
        BY <3>2, OwedIs
      <3> QED BY <2>1, <2>2, <2>5, <3>3, <3>4, CountedAlone
    <2> QED BY <1>5, <2>4, <2>5 DEF Return, GoesOn, hci_command_send
  <1> QED BY <1>1, <1>2, <1>3, <1>4, <1>5

\* The chip: a buffer given back is counted once, as free and as a report.
LEMMA CountedSays ==
    ASSUME Base, Base', Counted, NEW u \in Packets, Say(<<u>>), UNCHANGED driverButOut,
           \/ u.op = "FREE_BUFF" /\ free < Buffers /\ free' = free + 1
           \/ u.op # "FREE_BUFF" /\ free' = free
    PROVE  Balance'
  <1>1. out \in Seq(Packets) /\ <<u>> \in Seq(Packets) /\ Len(<<u>>) = 1 /\ <<u>>[1] = u
    BY DEF Base, Typed
  <1>2. Returned(out)' = Returned(out) + IF u.op = "FREE_BUFF" THEN 1 ELSE 0
    <2>1. CASE u.op = "FREE_BUFF"
      BY <1>1, <2>1, ReturnedOne DEF Say
    <2>2. CASE u.op # "FREE_BUFF"
      <3>1. \A i \in 1..Len(<<u>>) : <<u>>[i].op # "FREE_BUFF"
        BY <1>1, <2>2
      <3>2. Returned(out \o <<u>>) = Returned(out)
        BY <1>1, <3>1, ReturnedNone
      <3> QED BY <2>2, <3>2, ReturnedIsNat DEF Say
    <2> QED BY <2>1, <2>2
  <1>3. Owed' = Owed /\ (Starting' <=> Starting)
    BY DEF Owed, OnItsWay, Starting, driverButOut, host
  <1> QED BY <1>2, <1>3, ReturnedIsNat, OwedIs, LinkAssumption
          DEF Counted, Balance, driverButOut, host, LinkAssumption

LEMMA CountedExecutes ==
    ASSUME Base, Base', Protocol, Counted, Executes
    PROVE  Balance' /\ SocketSets'
  <1> DEFINE c == Head(inbox)
  <1>1. c \in Commands /\ c = inbox[1] /\ inbox # <<>> /\ got \in 0..2
        /\ UNCHANGED <<driverButOut, free>>
    BY DEF Executes, Base, Typed, Inv, LinkType
  <1>2. c.op \in Opcodes \cup {"PATCH"}
    <2>1. Asking /\ Belongs(c)
      BY <1>1 DEF Protocol, Asked
    <2> QED BY <2>1 DEF Asking, Belongs, Protocol, Waiting
  <1>3. \E s \in Seq(Packets) : Say(s) /\ \A i \in 1..Len(s) : s[i].op # "FREE_BUFF"
    <2>1. ASSUME NEW r \in Results(c), Say(Answers(c, r))
          PROVE  \E s \in Seq(Packets) : Say(s) /\ \A i \in 1..Len(s) : s[i].op # "FREE_BUFF"
      <3> DEFINE op == IF c.op = "PATCH" THEN "SIMPLE_LINK_START" ELSE c.op
                 e == Event(op, c.sd, r, got)
                 d == Data(got)
                 s == Answers(c, r)
      <3>1. s \in Seq(Packets)
        BY <1>1, <2>1, ResultsType, SaysType
      <3>2. s = <<e>> \o IF r = "data" \/ c.op = "NVMEM_READ" THEN <<d>> ELSE <<>>
        BY DEF Answers
      <3>3. e.op # "FREE_BUFF" /\ d.op # "FREE_BUFF"
        BY <1>2 DEF Event, Data, Opcodes, Plain
      <3>4. e \in Packets /\ d \in Packets
        BY <1>1, <2>1, ResultsType
        DEF Event, Data, Packets, Commands, Names, Opcodes, Outcomes
      <3> HIDE DEF e, d, s, c
      <3>5. s = <<e>> \o <<>> \/ s = <<e>> \o <<d>>
        BY <3>2
      <3>6. \A i \in 1..Len(s) : s[i] = e \/ s[i] = d
        BY <3>4, <3>5
      <3> QED BY <2>1, <3>1, <3>3, <3>6 DEF s
    <2>2. ASSUME Say(<<Unsol("PATCHES_REQ", None)>>)
          PROVE  \E s \in Seq(Packets) : Say(s) /\ \A i \in 1..Len(s) : s[i].op # "FREE_BUFF"
      <3> DEFINE u == Unsol("PATCHES_REQ", None)
      <3>1. u \in Packets /\ u.op # "FREE_BUFF"
        BY SaysType DEF Unsol
      <3> HIDE DEF u
      <3>2. <<u>> \in Seq(Packets) /\ Len(<<u>>) = 1 /\ <<u>>[1] = u
        BY <3>1
      <3>3. \A i \in 1..Len(<<u>>) : <<u>>[i].op # "FREE_BUFF"
        BY <3>1, <3>2
      <3> QED BY <2>2, <3>2, <3>3 DEF u
    <2> QED BY <2>1, <2>2 DEF Executes
  <1>4. Returned(out)' = Returned(out)
    BY <1>3, ReturnedNone DEF Say, Base, Typed
  <1>5. Owed' = Owed /\ (Starting' <=> Starting)
    BY <1>1 DEF Owed, OnItsWay, Starting, driverButOut, host
  <1>6. Balance'
    BY <1>1, <1>4, <1>5, ReturnedIsNat, OwedIs, LinkAssumption
    DEF Counted, Balance, driverButOut, host, LinkAssumption
  <1>7. SocketSets'
    BY <1>1 DEF Executes, Counted, SocketSets, driverButOut
  <1> QED BY <1>6, <1>7

LEMMA CountedChip ==
    ASSUME Base, Base', Protocol, Counted,
           LowersLine \/ Executes \/ FreesBuffer \/ Notifies
             \/ \E sd \in Sockets : Disconnects(sd)
    PROVE  Balance' /\ SocketSets'
  <1>1. CASE LowersLine
    <2>1. UNCHANGED <<pc, cmd, script, spi, credits, out, free, loaded, inactive, closed>>
      BY <1>1 DEF LowersLine, driver, host, receiver
    <2>2. Owed' <= Owed /\ (Starting' <=> Starting)
      BY <2>1, OwedIs DEF Owed, OnItsWay, Starting
    <2> QED BY <2>1, <2>2, CountedAlone DEF Counted, SocketSets
  <1>2. \A op \in {"FREE_BUFF", "WLAN", "TCP_CLOSE_WAIT"}, sd \in Sockets \cup {None} :
            Unsol(op, sd) \in Packets /\ Unsol(op, sd).op = op
    BY SaysType DEF Unsol
  <1>3. CASE FreesBuffer
    BY <1>2, <1>3, CountedSays DEF FreesBuffer, driverButOut, Counted, SocketSets
  <1>4. CASE Notifies
    BY <1>2, <1>4, CountedSays DEF Notifies, driverButOut, chip, Counted, SocketSets
  <1>5. ASSUME NEW sd \in Sockets, Disconnects(sd)
        PROVE  Balance' /\ SocketSets'
    BY <1>2, <1>5, CountedSays DEF Disconnects, driverButOut, chip, Counted, SocketSets
  <1> QED BY <1>1, <1>3, <1>4, <1>5, CountedExecutes

LEMMA CountedStep ==
    Base /\ Base' /\ Protocol /\ Protocol' /\ Counted /\ [Next]_vars => Counted'
  <1> SUFFICES ASSUME Base, Base', Protocol, Protocol', Counted, [Next]_vars
               PROVE  Balance' /\ SocketSets'
    BY DEF Counted
  <1>1. CASE Calls
    BY <1>1, CountedCalls
  <1>2. CASE Driver /\ UNCHANGED closed
    <2>1. CASE Poll
      BY <1>2, <2>1, CountedIrq DEF Poll, cc3k_int_poll
    <2>2. CASE \/ SpiFirstWrite \/ WlanInterruptDisable \/ ClaimSpi \/ WlanInterruptEnable
               \/ CheckMissed \/ SpiWriteReturns
      <3>1. UNCHANGED inactive
        BY <2>2 DEF SpiFirstWrite, WlanInterruptDisable, ClaimSpi, WlanInterruptEnable,
                    CheckMissed, SpiWriteReturns, receiver
      <3> QED BY <1>2, <2>2, <3>1, CountedWrite DEF Counted, SocketSets
    <2>3. CASE \/ SimpleLink_Init_Start \/ HostFlowControlConsumeBuff \/ hci_data_send
               \/ FetchData \/ Return \/ hci_event_handler
      BY <1>2, <2>3, CountedCall, CountedLooks DEF Counted, SocketSets
    <2> QED BY <1>2, <2>1, <2>2, <2>3 DEF Driver
  <1>3. CASE Interrupted
    BY <1>3, CountedIrq DEF Interrupted, Isr, Interrupt
  <1>4. CASE LowersLine \/ Executes \/ FreesBuffer \/ Notifies
               \/ \E sd \in Sockets : Disconnects(sd)
    BY <1>4, CountedChip
  <1>5. CASE UNCHANGED vars
    <2>1. UNCHANGED <<pc, cmd, script, spi, credits, out, free, loaded, inactive, closed>>
      BY <1>5 DEF vars, host, receiver, chip
    <2>2. Owed' <= Owed /\ (Starting' <=> Starting)
      BY <2>1, OwedIs DEF Owed, OnItsWay, Starting
    <2> QED BY <2>1, <2>2, CountedAlone DEF Counted, SocketSets
  <1> QED BY <1>1, <1>2, <1>3, <1>4, <1>5 DEF Next, Driver

\* The line and the latch are up or down.
Levels == irq \in BOOLEAN /\ edge \in BOOLEAN

LEMMA LevelsStep == Base /\ Levels /\ [Next]_vars => Levels'
  <1> SUFFICES ASSUME Base, Levels, [Next]_vars PROVE Levels'
    OBVIOUS
  <1>1. irq' \in {irq, TRUE, FALSE}
    <2>1. WriteDone => irq' \in {irq, FALSE}
      BY DEF WriteDone, SpiWriteDataSynchronous
    <2>2. SPI_IRQ => irq' \in {irq, FALSE}
      BY <2>1 DEF SPI_IRQ, Read
    <2>3. Calls => irq' \in {irq, FALSE}
      BY CallsAre DEF wlan_start, wlan_stop, Run, hci_command_send, simple_link_send
    <2>4. Driver => irq' \in {irq, FALSE}
      BY <2>1, <2>2
      DEF Driver, SimpleLink_Init_Start, SpiFirstWrite, WlanInterruptDisable, ClaimSpi,
          WlanInterruptEnable, CheckMissed, SpiWriteReturns, hci_event_handler, Poll,
          HostFlowControlConsumeBuff, hci_data_send, FetchData, Return
    <2> QED BY <2>2, <2>3, <2>4
            DEF Next, Interrupted, Isr, LowersLine, Falls, Executes, FreesBuffer, Notifies,
                Disconnects, vars
  <1>2. edge' \in {edge, TRUE, FALSE}
    <2>1. Calls => edge' = edge
      BY CallsAre DEF wlan_start, wlan_stop, Run, hci_command_send, simple_link_send
    <2>2. Driver => edge' = edge
      BY DEF Driver, SimpleLink_Init_Start, SpiFirstWrite, WlanInterruptDisable, ClaimSpi,
             WlanInterruptEnable, CheckMissed, SpiWriteReturns, hci_event_handler, Poll,
             HostFlowControlConsumeBuff, hci_data_send, FetchData, Return
    <2>3. LowersLine => edge' \in {TRUE, FALSE}
      BY DEF LowersLine, Falls
    <2> QED BY <2>1, <2>2, <2>3
            DEF Next, Interrupted, Isr, Executes, FreesBuffer, Notifies, Disconnects, vars
  <1> QED BY <1>1, <1>2, Zenon DEF Levels

\* The driver never counts more free buffers than the chip has and never sends data the
\* chip has no buffer for, although usNumberOfFreeBuffers-- is a load and a store with
\* the interrupt between (socket.cpp 157 and evnt_handler.cpp 765); and the variables
\* have their types.
THEOREM NeverOverrunTheorem == Spec => []NeverOverrun
  <1>1. Base /\ Protocol /\ Counted /\ Levels => NeverOverrun
    <2> SUFFICES ASSUME Base, Protocol, Counted, Levels PROVE NeverOverrun
      OBVIOUS
    <2>1. Buffers \in Nat /\ Returned(out) \in Nat
      BY LinkAssumption, ReturnedIsNat DEF LinkAssumption
    <2>2. credits <= free
      BY <2>1, OwedIs DEF Counted, Balance
    <2>3. pc = "write" /\ cmd.op \in {"SEND", "SENDTO"} => credits < free
      BY <2>1 DEF Counted, Balance, Owed, OnItsWay
    <2>4. Len(inbox) <= 1
      <3>1. inbox = <<>> => Len(inbox) = 0
        OBVIOUS
      <3>2. inbox # <<>> => Len(inbox) = 1
        BY DEF Protocol, Asked
      <3>3. inbox \in Seq(Commands) /\ Len(inbox) \in Nat
        BY DEF Base, Typed
      <3>4. Len(inbox) = 0 \/ Len(inbox) = 1
        BY <3>1, <3>2, Zenon
      <3>5. \A n \in Nat : n = 0 \/ n = 1 => n <= 1
        OBVIOUS
      <3> QED BY <3>3, <3>4, <3>5, Zenon
    <2>5. credits \in 0..Buffers /\ free \in 0..Buffers /\ loaded \in 0..Buffers
      BY <2>1, <2>2 DEF Counted, Balance
    <2>6. intEnabled \in BOOLEAN /\ cs \in BOOLEAN /\ irq \in BOOLEAN /\ edge \in BOOLEAN
      BY Zenon DEF Base, Inv, LinkType, Levels
    <2>7. TypeOK
      BY <2>4, <2>5, <2>6 DEF TypeOK, Base, Inv, LinkType, Places, Counted, SocketSets
    <2> QED BY <2>2, <2>3, <2>7 DEF NeverOverrun
  <1>2. Init => Levels
    BY Zenon DEF Init, Levels
  <1> QED BY <1>1, <1>2, BaseStart, BaseStep, ProtocolStart, ProtocolStep, CountedStart,
             CountedStep, LevelsStep, PTL DEF Spec
=============================================================================
