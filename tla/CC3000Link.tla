----------------------------- MODULE CC3000Link -----------------------------
(***************************************************************************)
(* The link to the CC3000 WiFi chip: ccspi.cpp, hci.cpp, evnt_handler.cpp.  *)
(* Main code writes one command at a time and waits for its event; the      *)
(* interrupt routine SPI_IRQ reads what the chip has to say into the only   *)
(* receive buffer and answers unsolicited events on the spot.  The two      *)
(* share the state of the SPI, the buffer and the count of free chip        *)
(* buffers; the chip, which pulls the interrupt line, is the third actor.   *)
(* An interrupt that is due is taken before the next step of the main code. *)
(***************************************************************************)
EXTENDS Integers, Sequences, SequencesExt, FiniteSets

CONSTANTS
    Sockets,    \* socket descriptors of the chip
    None,       \* no socket, no packet
    Buffers,    \* transmit buffers of the chip
    Pending,    \* packets the chip may have waiting (a bound for TLC)
    Misses      \* whether a falling edge is lost while the pin is detached

\* The commands of hci.h that a function of the driver sends on its own, all that it
\* sends, and what an event can report beside a descriptor.
Plain ==
    {"WLAN_CONNECT", "WLAN_DISCONNECT", "WLAN_SET_CONNECTION_POLICY",
     "WLAN_ADD_PROFILE", "WLAN_DEL_PROFILE", "WLAN_GET_SCAN_RESULTS",
     "WLAN_SET_SCANPARAM", "EVENT_MASK", "WLAN_STATUSGET", "SIMPLE_CONFIG_START",
     "SIMPLE_CONFIG_STOP", "SIMPLE_CONFIG_SET_PREFIX",
     "SOCKET", "BIND", "RECV", "ACCEPT", "LISTEN", "CONNECT", "BSD_SELECT",
     "SETSOCKOPT", "GETSOCKOPT", "CLOSE_SOCKET", "RECVFROM", "BSD_GETHOSTBYNAME",
     "MDNS_ADVERTISE", "NVMEM_CREATE_ENTRY", "NVMEM_READ", "NVMEM_WRITE",
     "READ_SP_VERSION", "NETAPP_DHCP", "NETAPP_PING_SEND", "NETAPP_PING_REPORT",
     "NETAPP_PING_STOP", "NETAPP_IPCONFIG", "NETAPP_ARP_FLUSH",
     "NETAPP_SET_DEBUG_LEVEL", "NETAPP_SET_TIMERS"}

Opcodes == Plain \cup {"SEND", "SENDTO", "SIMPLE_LINK_START", "READ_BUFFER_SIZE"}

Outcomes == {"ok", "fail", "data", "none", "inactive"}

\* All that a command or a packet may be called; what the chip sends.
Names == Opcodes \cup {"NONE", "DATA", "PATCH", "PATCHES_REQ", "FREE_BUFF", "WLAN",
                      "TCP_CLOSE_WAIT"}

Commands == [op : Names, sd : Sockets \cup {None}]

Packets == [kind : {"event", "data", "unsol"}, op : Names, sd : Sockets \cup {None},
            ret : Sockets \cup Outcomes, to : 0..2]

ASSUME LinkAssumption ==
    /\ Buffers \in Nat \ {0}
    /\ Pending \in Nat \ {0}
    /\ Misses \in BOOLEAN
    /\ None \notin Sockets \cup Opcodes \cup Packets
    /\ Sockets \cap Outcomes = {}

VARIABLES
    pc,          \* where the main code is
    cmd,         \* the packet to write, pTxPacket: [op, sd]
    script,      \* the commands of the call in progress, the current one first
    spi,         \* sSpiInformation.ulSpiState
    intEnabled,  \* ccspi_int_enabled, and the pin attached
    cs,          \* chip select asserted
    rx,          \* the packet in spi_buffer, None unless usEventOrDataReceived
    awaited,     \* usRxEventOpcode
    dataPending, \* usRxDataPending
    credits,     \* usNumberOfFreeBuffers
    loaded,      \* credits as loaded by usNumberOfFreeBuffers--
    txError,     \* slTransmitDataError
    inactive,    \* the set bits of socket_active_status
    ret,         \* what the event wrote through pRetParams
    irq,         \* the interrupt line is low
    edge,        \* a falling edge the controller has latched
    power,       \* the chip: off, booting, on
    inbox,       \* commands the chip has received and not yet answered
    out,         \* packets the chip has for the host
    free,        \* buffers the chip has free
    sent, got,   \* packets written, packets the chip received (mod 3)
    answered     \* history: the packet the last awaited event answers

host == <<cmd, script, awaited, dataPending, loaded>>
chip == <<power, inbox, free, got>>

Another(k) == (k + 1) % 3

\* A command is what hci_command_send, hci_data_send and
\* hci_data_command_send put on the wire.
Cmd(op, sd) == [op |-> op, sd |-> sd]
NoCmd == Cmd("NONE", None)

\* What the chip sends: an event that answers a command, data, a request for
\* patches, or an unsolicited event, which needs no command.
Event(op, sd, r, k) == [kind |-> "event", op |-> op, sd |-> sd, ret |-> r, to |-> k]
Data(k)  == [kind |-> "data", op |-> "DATA", sd |-> None, ret |-> "ok", to |-> k]
Unsol(op, sd) == [kind |-> "unsol", op |-> op, sd |-> sd, ret |-> "ok", to |-> 0]
Noise    == [kind |-> "noise", op |-> "NOISE", sd |-> None, ret |-> "ok", to |-> 0]

\* The interrupt is due: it preempts the main code.
Interrupt == edge /\ intEnabled

\* The line falls: the controller latches the edge, or, with the pin
\* detached, may miss it.
Falls ==
    /\ irq' = TRUE
    /\ edge' \in IF Misses /\ ~intEnabled THEN BOOLEAN ELSE {TRUE}

---------------------------------------------------------------------------
(* What the bytes of a write do to the chip: it listens while it is        *)
(* selected, lets go of the line when it is deselected, and keeps a buffer  *)
(* for data.                                                                *)
SpiWriteDataSynchronous ==
    IF cs
    THEN /\ inbox' = Append(inbox, cmd)
         /\ got' = Another(got)
         /\ free' = IF cmd.op \in {"SEND", "SENDTO"} THEN free - 1 ELSE free
         /\ irq' = FALSE
    ELSE UNCHANGED <<inbox, got, free, irq>>

WriteDone ==
    /\ SpiWriteDataSynchronous
    /\ spi' = "IDLE"
    /\ cs' = FALSE

---------------------------------------------------------------------------
(* Unsolicited events, handled in the interrupt.                           *)
hci_event_unsol_flowcontrol_handler(p) == credits + 1

set_socket_active_status(sd, active) ==
    IF sd \notin Sockets THEN inactive
    ELSE IF active THEN inactive \ {sd} ELSE inactive \cup {sd}

\* TRUE for the events that are complete when this has run: the callbacks,
\* the returned buffers and the send that failed.
hci_unsol_event_handler(p) ==
    \/ p.kind = "unsol" /\ p.op # "PATCHES_REQ"
    \/ p.op \in {"SEND", "SENDTO"} /\ p.ret = "inactive"

SpiPauseSpi_Forgotten == UNCHANGED intEnabled

SpiPauseSpi == intEnabled' = FALSE

(* SpiReceiveHandler and hci_unsolicited_event_handler: an event that was
   handled frees the buffer at once, any other waits for the main code with
   the interrupt off. *)
SpiReceiveHandler(p) ==
    IF hci_unsol_event_handler(p)
    THEN /\ rx' = None
         /\ intEnabled' = TRUE
         /\ credits' = IF p.op = "FREE_BUFF"
                       THEN hci_event_unsol_flowcontrol_handler(p) ELSE credits
         /\ txError' = (txError \/ p.kind = "event")
         /\ inactive' = IF p.kind = "event"
                        THEN set_socket_active_status(p.sd, FALSE) ELSE inactive
    ELSE /\ rx' = p
         /\ SpiPauseSpi
         /\ UNCHANGED <<credits, txError, inactive>>

\* Reading with nothing to read gives bytes of no packet type.
Offered == IF out = <<>> THEN Noise ELSE Head(out)

(* The read of one packet: SpiReadHeader, SpiReadDataCont,
   SSIContReadOperation and SpiTriggerRxProcessing, all in the interrupt. *)
Read ==
    /\ out' = IF out = <<>> THEN out ELSE Tail(out)
    /\ irq' = FALSE
    /\ spi' = "IDLE"
    /\ cs' = FALSE
    /\ SpiReceiveHandler(Offered)
    /\ UNCHANGED <<inbox, got, free>>

(* SPI_IRQ.  While main code holds the state in between, it does nothing. *)
SPI_IRQ ==
    \/ /\ spi = "POWERUP"
       /\ spi' = "INITIALIZED"
       /\ UNCHANGED <<rx, intEnabled, credits, txError, inactive,
                      cs, irq, out, inbox, got, free>>
    \/ /\ spi = "IDLE"
       /\ Read
    \/ /\ spi = "WRITE_IRQ"
       /\ WriteDone
       /\ UNCHANGED <<rx, intEnabled, credits, txError, inactive, out>>
    \/ /\ spi = "INITIALIZED"
       /\ UNCHANGED <<spi, rx, intEnabled, credits, txError, inactive,
                      cs, irq, out, inbox, got, free>>

\* The interrupt.
Isr ==
    /\ Interrupt
    /\ edge' = FALSE
    /\ SPI_IRQ
    /\ UNCHANGED <<pc, host, ret, power, sent, answered>>

cc3k_int_poll_Never == FALSE

(* cc3k_int_poll, called by the loop of hci_event_handler: the line is low
   although no edge was seen. *)
cc3k_int_poll == irq /\ intEnabled

Poll ==
    /\ pc = "wait"
    /\ ~Interrupt
    /\ cc3k_int_poll
    /\ SPI_IRQ
    /\ UNCHANGED <<pc, host, ret, edge, power, sent, answered>>

---------------------------------------------------------------------------
(* SpiWrite, called with cmd at pc = "write".  What the interrupt may      *)
(* change between two of these steps is not part of any of them.           *)
receiver == <<rx, credits, txError, inactive, ret, out>>

Main(here) == pc = here /\ ~Interrupt

\* The first transaction after power up needs no interrupt.
SpiFirstWrite ==
    /\ Main("write")
    /\ spi = "INITIALIZED"
    /\ inbox' = Append(inbox, cmd)
    /\ got' = Another(got)
    /\ irq' = FALSE
    /\ spi' = "IDLE"
    /\ cs' = FALSE
    /\ pc' = "sent"
    /\ UNCHANGED <<host, receiver, intEnabled, edge, power, free, sent, answered>>

WlanInterruptDisable ==
    /\ Main("write")
    /\ spi \notin {"POWERUP", "INITIALIZED"}
    /\ intEnabled' = FALSE
    /\ pc' = "claim"
    /\ UNCHANGED <<host, receiver, spi, cs, irq, edge, chip, sent, answered>>

ClaimSpi ==
    /\ Main("claim")
    /\ spi = "IDLE"
    /\ spi' = "WRITE_IRQ"
    /\ cs' = TRUE
    /\ pc' = "enable"
    /\ UNCHANGED <<host, receiver, intEnabled, irq, edge, chip, sent, answered>>

WlanInterruptEnable ==
    /\ Main("enable")
    /\ intEnabled' = TRUE
    /\ pc' = "check"
    /\ UNCHANGED <<host, receiver, spi, cs, irq, edge, chip, sent, answered>>

\* "Check for a missing interrupt": the line is low, so write now.
ReadWlanInterruptPin == irq

CheckMissed ==
    /\ Main("check")
    /\ pc' = "sent"
    /\ IF ReadWlanInterruptPin THEN WriteDone
       ELSE UNCHANGED <<spi, cs, inbox, got, free, irq>>
    /\ UNCHANGED <<host, receiver, intEnabled, edge, power, sent, answered>>

\* SpiWrite returns to hci_command_send, and that to the wait for the event.
Written_Unchecked == TRUE

Written == spi = "IDLE"

SpiWriteReturns ==
    /\ Main("sent")
    /\ Written
    /\ pc' = "wait"
    /\ cmd' = NoCmd
    /\ UNCHANGED <<script, awaited, dataPending, loaded, receiver, spi,
                   intEnabled, cs, irq, edge, chip, sent, answered>>

---------------------------------------------------------------------------
(* hci_event_handler, called by SimpleLinkWaitEvent and SimpleLinkWaitData.*)
StoreResult(p) ==
    /\ credits' = IF p.op = "READ_BUFFER_SIZE" THEN Buffers ELSE credits
    /\ inactive' = IF p.op \in {"RECV", "RECVFROM"} /\ p.ret = "inactive"
                   THEN set_socket_active_status(p.sd, FALSE) ELSE inactive
    /\ ret' = IF p.kind = "event" THEN p.ret ELSE ret

Expected_Any(p) == TRUE

\* The event is the one that is waited for.
Expected(p) == p.op = awaited

SpiResumeSpi == intEnabled' = TRUE

(* One turn of the loop with a packet in the buffer.  A request for patches
   is answered after the interrupt is on again; the function returns once
   nothing is waited for. *)
hci_event_handler ==
    /\ Main("wait")
    /\ rx # None
    /\ LET p == rx
           ev == IF p.kind # "data" /\ Expected(p) THEN None ELSE awaited
           dp == dataPending /\ p.kind \in {"event", "unsol"}
       IN  /\ StoreResult(p)
           /\ awaited' = ev
           /\ dataPending' = dp
           /\ answered' = IF ev # awaited \/ dp # dataPending THEN p.to ELSE answered
           /\ rx' = None
           /\ SpiResumeSpi
           /\ IF p.op = "PATCHES_REQ"
              THEN /\ cmd' = Cmd("PATCH", None)
                   /\ sent' = Another(sent)
                   /\ pc' = "write"
              ELSE /\ pc' = IF ev = None /\ ~dp THEN "return" ELSE "wait"
                   /\ UNCHANGED <<cmd, sent>>
    /\ UNCHANGED <<script, spi, cs, loaded, txError, irq, edge, chip, out>>
=============================================================================
