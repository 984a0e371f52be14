-------------------------------- MODULE Server --------------------------------
(***************************************************************************)
(* Adafruit_CC3000_Server with its two sketches: EchoServer gives each      *)
(* visitor its bytes back, ChatServer gives them to all.  The loop accepts  *)
(* a visitor into each free slot, takes the first slot with something to    *)
(* read, reads one byte and writes it.  Setting up the network is in        *)
(* Sketches.                                                               *)
(***************************************************************************)
EXTENDS Sockets

CONSTANTS Visits, Bytes    \* visitors, and bytes of each (bounds for TLC)

ASSUME ServerAssumption == Visits \in Nat /\ Bytes \in Nat

VARIABLES
    listenSocket,   \* _listenSocket
    at,             \* the i of the loops over the slots
    ref,            \* the slot of the Adafruit_CC3000_ClientRef
    said,           \* the bytes read, in their order
    visits          \* visitors so far

serverVars == <<listenSocket, at, ref, said, visits>>
wifiRest   == <<program, initialised, bbwifi, bits, chip, events>>

ServerInit ==
    /\ listenSocket = None
    /\ at = 1 /\ ref = 1
    /\ said = <<>> /\ visits = 0

Servers == {"echo", "chat"}
Serving(here) == pc = here /\ program \in Servers /\ UNCHANGED wifiRest

---------------------------------------------------------------------------
(* begin(): a socket that does not block in accept, bound and listening.   *)
GivesUp == Mishap /\ pc' = "accept" /\ UNCHANGED listenSocket

ServerBegin ==
    /\ Serving("listen")
    /\ \/ /\ \E s \in SocketIds :
                IsNew(s) /\ conn' = [conn EXCEPT ![s] = Opened("created", 0, <<>>)]
          /\ pc' = "bind"
          /\ UNCHANGED <<listenSocket, mishaps>>
       \/ GivesUp /\ UNCHANGED conn
    /\ UNCHANGED <<clients, closed_sockets, at, ref, said, visits>>

\* A step that fails leaves the socket as it is.
Listens ==
    /\ Serving("bind")
    /\ \/ /\ \E s \in SocketIds :
                /\ conn[s].state = "created"
                /\ conn' = [conn EXCEPT ![s].state = "listening"]
                /\ listenSocket' = s
          /\ pc' = "accept"
          /\ UNCHANGED mishaps
       \/ GivesUp /\ UNCHANGED conn
    /\ UNCHANGED <<clients, closed_sockets, at, ref, said, visits>>

---------------------------------------------------------------------------
(* available(): acceptNewConnections, then the first slot with something.  *)
NextSlot(here, after) ==
    IF at < Slots THEN at' = at + 1 /\ pc' = here ELSE at' = 1 /\ pc' = after

SlotTaken ==
    /\ Serving("accept")
    /\ IsConnected(at)
    /\ NextSlot("accept", "find")
    /\ UNCHANGED <<listenSocket, ref, said, visits, mishaps>>

SlotFree ==
    /\ Serving("accept")
    /\ NotConnected(at)
    /\ pc' = "accepting"
    /\ UNCHANGED <<serverVars, mishaps>>

accept ==
    /\ Serving("accepting")
    /\ listenSocket # None /\ Networked /\ visits < Visits
    /\ visits' = visits + 1
    /\ \E s \in SocketIds :
          /\ IsNew(s)
          /\ conn' = [conn EXCEPT ![s] =
                Opened("open", visits', [k \in 1..Bytes |-> Byte(visits', k)])]
          /\ clients' = [clients EXCEPT ![at] = [socket |-> s, rx |-> <<>>]]
    /\ NextSlot("accept", "find")
    /\ UNCHANGED <<closed_sockets, listenSocket, ref, said, mishaps>>

\* Nobody, or a failure: both are a number below zero.
NobodyWaits ==
    /\ Serving("accepting")
    /\ NextSlot("accept", "find")
    /\ UNCHANGED <<socketVars, listenSocket, ref, said, visits, mishaps>>

FindsNone ==
    /\ Serving("find")
    /\ \/ IsConnected(at) /\ FALSE \in available(at)
       \/ NotConnected(at)
    /\ NextSlot("find", "accept")
    /\ UNCHANGED <<listenSocket, ref, said, visits, mishaps>>

FindsOne ==
    /\ Serving("find")
    /\ IsConnected(at) /\ TRUE \in available(at)
    /\ ref' = at /\ at' = 1
    /\ pc' = "client"
    /\ UNCHANGED <<listenSocket, said, visits, mishaps>>

---------------------------------------------------------------------------
(* loop(): if (client), if (client.available() > 0), then read.            *)
ClientGone ==
    /\ Serving("client")
    /\ \/ NotConnected(ref)
       \/ IsConnected(ref) /\ FALSE \in available(ref)
    /\ pc' = "accept"
    /\ UNCHANGED <<serverVars, mishaps>>

ReadsByte ==
    /\ Serving("client")
    /\ TRUE \in available(ref)
    /\ read(ref)
    /\ said' = Append(said, Char(ref))
    /\ pc' = IF program = "echo" THEN "echo" ELSE "write"
    /\ UNCHANGED <<listenSocket, at, ref, visits, mishaps>>

Echo ==
    /\ Serving("echo")
    /\ write(ref, Last(said))
    /\ pc' = "accept"
    /\ UNCHANGED <<serverVars, mishaps>>

\* Adafruit_CC3000_Server::write, to every slot that is connected.
WriteToSlot ==
    /\ Serving("write")
    /\ StillThere(at)
    /\ write(at, Last(said))
    /\ NextSlot("write", "accept")
    /\ UNCHANGED <<listenSocket, ref, said, visits, mishaps>>

SkipsSlot ==
    /\ Serving("write")
    /\ NotConnected(at)
    /\ NextSlot("write", "accept")
    /\ UNCHANGED <<listenSocket, ref, said, visits, mishaps>>

ServerStep ==
    \/ ServerBegin \/ Listens
    \/ SlotTaken \/ SlotFree \/ accept \/ NobodyWaits \/ FindsNone \/ FindsOne
    \/ ClientGone \/ ReadsByte \/ Echo \/ WriteToSlot \/ SkipsSlot

---------------------------------------------------------------------------
(* Each visitor hears bytes in the order they were read: of its own, all    *)
(* and nothing else (echo); of what was said, a stretch without a gap       *)
(* (chat), whichever slots and socket numbers were used again meanwhile.    *)
HeardInOrder ==
    \A s \in SocketIds :
        LET heard == conn[s].heard IN
        IF program = "chat" THEN \E i, j \in 0..Len(said) : heard = SubSeq(said, i + 1, j)
        ELSE heard = [k \in 1..Len(heard) |-> Byte(conn[s].who, k)]
=============================================================================
