------------------------------- MODULE Sockets -------------------------------
(***************************************************************************)
(* The sockets of the chip as Adafruit_CC3000_Client uses them, for the     *)
(* example sketches: one client, or the slots of a server.  The chip has    *)
(* few sockets and reuses their numbers; a peer that leaves is noted by the *)
(* callback in closed_sockets, and only connected() looks there.            *)
(***************************************************************************)
EXTENDS WiFi

CONSTANTS
    SocketIds,   \* socket numbers of the chip
    Slots,       \* MAX_SERVER_CLIENTS; a client sketch uses the first
    None         \* no socket: -1

ASSUME SocketsAssumption == Slots \in Nat \ {0} /\ SocketIds \subseteq Nat /\ None \notin SocketIds

VARIABLES
    conn,            \* the chip's sockets
    clients,         \* Adafruit_CC3000_Client objects: the socket, what is left of _rx_buf
    closed_sockets

socketVars == <<conn, clients, closed_sockets>>

\* A byte is known by the peer that sent it and its place; NUL is read from no peer.
Byte(who, n) == [who |-> who, n |-> n]
NUL == Byte(0, 0)

\* who: the peer; wire, data: what it has yet to send and what came; heard: what it got.
Idle == [state |-> "free", who |-> 0, wire |-> <<>>, data |-> <<>>, heard |-> <<>>]
Opened(state, who, wire) == [Idle EXCEPT !.state = state, !.who = who, !.wire = wire]

NoClient == [socket |-> None, rx |-> <<>>]

SocketInit ==
    /\ conn = [s \in SocketIds |-> Idle]
    /\ clients = [i \in 1..Slots |-> NoClient]
    /\ closed_sockets = {}

\* Packets pass while the chip has its address.
Networked == ap = "connected" /\ lease

---------------------------------------------------------------------------
(* Adafruit_CC3000_Client, the object in slot i.                           *)
Socket(i) == clients[i].socket
Free == {s \in SocketIds : conn[s].state = "free"}

\* The chip uses a number again as soon as it can.
IsNew(s) == s \in Free /\ s = Min(Free)

\* select finds data; a peer that left may or may not make a socket readable.
select(i) ==
    IF conn[Socket(i)].data # <<>> THEN {TRUE}
    ELSE IF conn[Socket(i)].state = "left" THEN BOOLEAN ELSE {FALSE}

available(i) ==
    IF Socket(i) = None THEN {FALSE}
    ELSE IF clients[i].rx # <<>> THEN {TRUE} ELSE select(i)

closesocket_Forgotten(s) == UNCHANGED conn

closesocket(s) == conn' = [t \in SocketIds |-> IF t = s THEN Idle ELSE conn[t]]

\* close() leaves what the callback noted.
close(i) ==
    /\ closesocket(Socket(i))
    /\ clients' = [clients EXCEPT ![i] = NoClient]
    /\ UNCHANGED closed_sockets

\* connected(), in the two ways it answers.
StillThere(i) ==
    Socket(i) # None /\ (Socket(i) \in closed_sockets => TRUE \in available(i))

IsConnected(i) == StillThere(i) /\ UNCHANGED socketVars

NotConnected(i) ==
    \/ Socket(i) = None /\ UNCHANGED socketVars
    \/ /\ Socket(i) \in closed_sockets /\ FALSE \in available(i)
       /\ closesocket(Socket(i))
       /\ clients' = [clients EXCEPT ![i] = NoClient]
       /\ closed_sockets' = closed_sockets \ {Socket(i)}

\* socket(), kept by the object in slot i.
Creates(i, state) ==
    /\ \E s \in SocketIds :
          /\ IsNew(s)
          /\ conn' = [conn EXCEPT ![s] = Opened(state, 0, <<>>)]
          /\ clients' = [clients EXCEPT ![i] = [socket |-> s, rx |-> <<>>]]
    /\ UNCHANGED <<closed_sockets, mishaps>>

(* connectTCP and connectUDP: the socket is created and connected, or both  *)
(* are undone.                                                              *)
Connects(i, state) == Networked /\ Creates(i, state)

ConnectFails(i) ==
    /\ Mishap \/ (~Networked /\ UNCHANGED mishaps)
    /\ clients' = [clients EXCEPT ![i] = NoClient]
    /\ UNCHANGED <<conn, closed_sockets>>

(* read(): the next character of the buffer, after recv when it is empty.   *)
(* recv waits for data; a connection that is gone is closed and gives a     *)
(* character all the same.  Without a socket the loop never ends.           *)
Came(i) == clients[i].rx \o conn[Socket(i)].data

Readable(i) == Socket(i) # None /\ (Came(i) # <<>> \/ conn[Socket(i)].state = "left")

Char(i) == IF Came(i) # <<>> THEN Head(Came(i)) ELSE NUL

Rest_Again(came) == came

Rest(came) == Tail(came)

read(i) ==
    /\ Readable(i)
    /\ IF Came(i) = <<>> THEN close(i)
       ELSE /\ UNCHANGED closed_sockets
            /\ IF clients[i].rx # <<>>
               THEN /\ clients' = [clients EXCEPT ![i].rx = Rest(@)]
                    /\ UNCHANGED conn
               ELSE /\ clients' = [clients EXCEPT ![i].rx = Rest(Came(i))]
                    /\ conn' = [conn EXCEPT ![Socket(i)].data = <<>>]

\* write(): what the peer of the socket hears, if it is there.
Hears(s, c) ==
    IF s # None /\ conn[s].state = "open"
    THEN conn' = [conn EXCEPT ![s].heard = Append(@, c)] ELSE UNCHANGED conn

write(i, c) == Hears(Socket(i), c) /\ UNCHANGED <<clients, closed_sockets>>

\* A request, for which the peer has an answer, unless it is lost.
Asks(i, answer) ==
    /\ \/ conn' = [conn EXCEPT ![Socket(i)].wire = answer] /\ UNCHANGED mishaps
       \/ Mishap /\ UNCHANGED conn
    /\ UNCHANGED <<clients, closed_sockets>>

\* A wait for a peer ends although it has more to say.
GivesUpOn(s) ==
    IF conn[s].wire # <<>> /\ Networked THEN Mishap ELSE UNCHANGED mishaps

---------------------------------------------------------------------------
(* The peers.                                                              *)
PeerSends ==
    /\ Networked
    /\ \E s \in SocketIds :
          /\ conn[s].wire # <<>>
          /\ conn' = [conn EXCEPT ![s].data = Append(@, Head(conn[s].wire)),
                                  ![s].wire = Tail(@)]
    /\ UNCHANGED <<clients, closed_sockets, vars>>

(* A peer leaves when it has said all, or sooner (before it was asked, or   *)
(* with more to say); so does the chip after a minute of silence.           *)
PeerLeaves ==
    /\ \E s \in SocketIds :
          /\ conn[s].state = "open"
          /\ IF pc \in {"connected", "request"} THEN Mishap ELSE GivesUpOn(s)
          /\ conn' = [conn EXCEPT ![s].state = "left", ![s].wire = <<>>]
          /\ closed_sockets' = closed_sockets \cup {s}
    /\ UNCHANGED <<clients, program, pc, initialised, bbwifi, bits, chip, events>>
=============================================================================
