------------------------------ MODULE Exchange ------------------------------
(***************************************************************************)
(* One request to the server and its reply: BBWiFi::sendData and            *)
(* fetchResponse, on the sockets of Adafruit_CC3000_Client.  The reply      *)
(* comes in pieces, late or cut short; the peer closes its connection,      *)
(* which the callback notes in closed_sockets.  Reply adds what             *)
(* decodeResponse makes of the text.                                        *)
(***************************************************************************)
EXTENDS Integers, Sequences, SequencesExt

CONSTANTS
    Sockets,     \* socket numbers of the chip
    Characters,  \* "NL" and "CR" end a line, "NUL" ends a text
    Responses,   \* what the server may answer: [status, header, body]
    Requests,    \* "boot", "lookup": what a request is for
    Mishaps      \* failures and late or lost packets (a bound for TLC)

\* The bytes of a response on the wire, with the empty line before the body.
Heading(r) == <<"H", " ">> \o r.status \o <<"NL">> \o r.header \o <<"NL">>

Text(r) == Heading(r) \o r.body

\* After n bytes nothing is on the line yet; "CR" does not count.
LineEmpty(t, n) ==
    \E i \in 0..n :
        /\ i = 0 \/ t[i] = "NL"
        /\ \A j \in (i + 1)..n : t[j] = "CR"

\* HTTP: a status of three characters, and a header that ends at the first
\* empty line.  The body is JSON: it does not begin in the middle of a line end.
WellFormed(r) ==
    /\ Len(r.status) = 3 /\ \A i \in 1..3 : r.status[i] # " "
    /\ \A n \in 1..Len(Heading(r)) :
          Heading(r)[n] = "NL" /\ LineEmpty(Heading(r), n - 1) <=> n = Len(Heading(r))
    /\ r.body # <<>> => Head(r.body) # "CR"

ASSUME ExchangeAssumption ==
    /\ Sockets # {} /\ "none" \notin Sockets
    /\ {"H", " ", "NL", "CR", "NUL"} \subseteq Characters
    /\ Responses \subseteq
          [status : Seq(Characters), header : Seq(Characters), body : Seq(Characters)]
    /\ \A r \in Responses : WellFormed(r)
    /\ Mishaps \in Nat

VARIABLES
    place, request,
    target,       \* _target_ip is known
    client,       \* _client: the socket, and what is left in _rx_buf
    closed_sockets,
    conn,         \* the chip's sockets: [state, data], the peer still there or not
    server,       \* what the server answered this request, and has yet to send
    asked,        \* requests of this exchange the server received
    parser,       \* the variables of fetchResponse
    httpResponse,
    mishaps

exchangeVars == <<place, request, target, client, closed_sockets, conn, server, asked,
                  parser, httpResponse, mishaps>>

Idle == [state |-> "free", data |-> <<>>]
NoClient == [socket |-> "none", rx |-> <<>>]
NoServer == [reply |-> [status |-> <<>>, header |-> <<>>, body |-> <<>>], wire |-> <<>>]

\* The variables of fetchResponse as it declares them.
Fresh == [lastCharacterEOL |-> TRUE, httpBody |-> FALSE, statusLine |-> FALSE,
          code |-> <<>>, receiving |-> TRUE]

ExchangeInit ==
    /\ place = "idle" /\ request \in Requests
    /\ target = FALSE
    /\ client = NoClient
    /\ closed_sockets = {}
    /\ conn = [s \in Sockets |-> Idle]
    /\ server = NoServer /\ asked = 0
    /\ parser = Fresh /\ httpResponse = <<>>
    /\ mishaps = 0

Mishap == mishaps < Mishaps /\ mishaps' = mishaps + 1

---------------------------------------------------------------------------
(* Adafruit_CC3000_Client.                                                 *)
\* select finds data; a peer that left may or may not make a socket readable.
Selects ==
    IF client.socket = "none" THEN {FALSE}
    ELSE LET c == conn[client.socket] IN
         IF c.data # <<>> THEN {TRUE}
         ELSE IF c.state = "left" THEN BOOLEAN ELSE {FALSE}

available == IF client.socket = "none" THEN {FALSE}
             ELSE IF client.rx # <<>> THEN {TRUE} ELSE Selects

closesocket_Forgotten == UNCHANGED conn

closesocket == conn' = [s \in Sockets |-> IF s = client.socket THEN Idle ELSE conn[s]]

close == closesocket /\ client' = NoClient

(* connectTCP: a socket is created and connected, or both are undone.      *)
connectTCP ==
    \/ \E s \in Sockets :
          /\ conn[s].state = "free"
          /\ conn' = [conn EXCEPT ![s] = [state |-> "open", data |-> <<>>]]
          /\ client' = [socket |-> s, rx |-> <<>>]
          /\ UNCHANGED mishaps
    \/ /\ Mishap
       /\ client' = NoClient
       /\ UNCHANGED conn

\* connected() closes a socket whose peer has left when nothing is to be read.
SeenClosed == client.socket \in closed_sockets /\ FALSE \in available

---------------------------------------------------------------------------
(* sendData.  Each step may fail or take too long.                         *)
Go(here) == place = here

\* sendBootMessage, sendLookup and the others clear the answer first.
BeginExchange ==
    /\ Go("idle")
    /\ request' \in Requests
    /\ place' = "lookup"
    /\ parser' = Fresh /\ httpResponse' = <<>>
    /\ server' = NoServer /\ asked' = 0
    /\ UNCHANGED <<target, client, closed_sockets, conn, mishaps>>

lookupIp ==
    /\ Go("lookup")
    /\ \/ /\ target' = TRUE /\ place' = "connect"
          /\ UNCHANGED mishaps
       \/ /\ ~target /\ Mishap
          /\ place' = "idle"
          /\ UNCHANGED target
    /\ UNCHANGED <<request, client, closed_sockets, conn, server, asked, parser,
                   httpResponse>>

Connect ==
    /\ Go("connect")
    /\ connectTCP
    /\ place' = "connected"
    /\ UNCHANGED <<request, target, closed_sockets, server, asked, parser,
                   httpResponse>>

\* The condition of the loop: again for five seconds.
ConnectLoop ==
    /\ Go("connected")
    /\ IF client.socket # "none" /\ SeenClosed
       THEN close /\ closed_sockets' = closed_sockets \ {client.socket}
       ELSE UNCHANGED <<client, conn, closed_sockets>>
    /\ IF client'.socket # "none"
       THEN place' = "send" /\ UNCHANGED mishaps
       ELSE \/ place' = "connect" /\ UNCHANGED mishaps
            \/ place' = "idle" /\ Mishap
    /\ UNCHANGED <<request, target, server, asked, parser, httpResponse>>

(* connected() once more, then the request.  A send on a connection that is *)
(* gone is not looked at; the server answers what it receives.              *)
Send ==
    /\ Go("send")
    /\ IF SeenClosed
       THEN /\ close /\ closed_sockets' = closed_sockets \ {client.socket}
            /\ place' = "idle"
            /\ UNCHANGED <<server, asked>>
       ELSE /\ place' = "await"
            /\ UNCHANGED <<client, conn, closed_sockets>>
            /\ IF conn[client.socket].state = "open"
               THEN /\ asked' = asked + 1
                    /\ \E r \in Responses : server' = [reply |-> r, wire |-> Text(r)]
               ELSE UNCHANGED <<server, asked>>
    /\ UNCHANGED <<request, target, parser, httpResponse, mishaps>>

AfterSilence == "idle"

\* Four seconds for the first byte.
Await ==
    /\ Go("await")
    /\ \/ /\ TRUE \in available
          /\ place' = "fetch"
          /\ UNCHANGED <<client, conn, mishaps>>
       \/ /\ FALSE \in available
          /\ IF server.wire # <<>> THEN Mishap ELSE UNCHANGED mishaps
          /\ close
          /\ place' = AfterSilence
    /\ UNCHANGED <<request, target, closed_sockets, server, asked, parser,
                   httpResponse>>

---------------------------------------------------------------------------
(* fetchResponse, character by character.                                  *)
\* The status code is the three characters after the first space.
StatusCode(p, c) ==
    IF (p.statusLine \/ c = " ") /\ Len(p.code) < 3 /\ c # " "
    THEN Append(p.code, c) ELSE p.code

BodyStarts_AtOnce(p, c) == c = "NL"

BodyStarts(p, c) == c = "NL" /\ p.lastCharacterEOL

Step(p, c) ==
    [lastCharacterEOL |-> (c = "NL" \/ (c = "CR" /\ p.lastCharacterEOL)),
     httpBody   |-> p.httpBody \/ BodyStarts(p, c),
     statusLine |-> p.statusLine \/ c = " ",
     code       |-> StatusCode(p, c),
     receiving  |-> p.receiving /\ ~(c = "NL" /\ p.httpBody)]

Collects(p) == ~p.lastCharacterEOL /\ p.receiving /\ p.httpBody

\* Another status than 200 ends the function at once.
OtherStatus(p) == Len(p.code) = 3 /\ p.code # <<"2", "0", "0">>

Take(c) ==
    LET p == Step(parser, c) IN
    /\ parser' = p
    /\ httpResponse' = IF Collects(p) /\ ~OtherStatus(p)
                       THEN Append(httpResponse, c) ELSE httpResponse
    /\ place' = IF OtherStatus(p) THEN "close" ELSE "fetch"

(* read(): the next character of the buffer, after recv when it is empty.   *)
(* A connection that is gone is closed and gives a character all the same.  *)
Read ==
    /\ Go("fetch") /\ TRUE \in available
    /\ IF client.rx # <<>>
       THEN /\ Take(Head(client.rx))
            /\ client' = [client EXCEPT !.rx = Tail(@)]
            /\ UNCHANGED conn
       ELSE LET data == conn[client.socket].data IN
            IF data # <<>>
            THEN /\ Take(Head(data))
                 /\ client' = [client EXCEPT !.rx = Tail(data)]
                 /\ conn' = [conn EXCEPT ![client.socket].data = <<>>]
            ELSE Take("NUL") /\ close
    /\ UNCHANGED <<request, target, closed_sockets, server, asked, mishaps>>

AfterGap_Waits == "fetch"

AfterGap == "close"

\* Nothing available: the line has ended, or nothing came for 250 ms.
StopReceiving ==
    /\ Go("fetch") /\ FALSE \in available
    /\ IF parser.receiving /\ server.wire # <<>> THEN Mishap ELSE UNCHANGED mishaps
    /\ place' = AfterGap
    /\ UNCHANGED <<request, target, client, closed_sockets, conn, server, asked,
                   parser, httpResponse>>

Close ==
    /\ Go("close")
    /\ close
    /\ place' = "decode"
    /\ UNCHANGED <<request, target, closed_sockets, server, asked, parser,
                   httpResponse, mishaps>>

---------------------------------------------------------------------------
(* The network and the server.                                             *)
Arrives ==
    /\ server.wire # <<>> /\ client.socket # "none"
    /\ conn[client.socket].state = "open"
    /\ conn' = [conn EXCEPT ![client.socket].data = Append(@, Head(server.wire))]
    /\ server' = [server EXCEPT !.wire = Tail(@)]
    /\ UNCHANGED <<place, request, target, client, closed_sockets, asked, parser,
                   httpResponse, mishaps>>

(* The server closes when it has sent all (the request says "Connection:    *)
(* close"), or sooner; the chip reports it to the callback.                 *)
CC3000_UsynchCallback(s) == closed_sockets' = closed_sockets \cup {s}

Leaves ==
    /\ client.socket # "none"
    /\ conn[client.socket].state = "open"
    /\ IF server.wire = <<>> /\ asked > 0 THEN UNCHANGED mishaps ELSE Mishap
    /\ conn' = [conn EXCEPT ![client.socket].state = "left"]
    /\ server' = [server EXCEPT !.wire = <<>>]
    /\ CC3000_UsynchCallback(client.socket)
    /\ UNCHANGED <<place, request, target, client, asked, parser, httpResponse>>

---------------------------------------------------------------------------
(* sendData is over; the answer, a text that ends at its first NUL, is      *)
(* decoded.                                                                *)
Cut(t) == SubSeq(t, 1, Min({i \in 1..Len(t) : t[i] = "NUL"} \cup {Len(t) + 1}) - 1)

Decoded ==
    /\ Go("decode")
    /\ place' = "idle"
    /\ UNCHANGED <<request, target, client, closed_sockets, conn, server, asked,
                   parser, httpResponse, mishaps>>

SendData ==
    \/ BeginExchange \/ lookupIp \/ Connect \/ ConnectLoop \/ Send \/ Await
    \/ Read \/ StopReceiving \/ Close

ExchangeNext == SendData \/ Arrives \/ Leaves \/ Decoded

ExchangeSpec == ExchangeInit /\ [][ExchangeNext]_exchangeVars

---------------------------------------------------------------------------
(* The client, the sockets and the parser have their types.                *)
ExchangeType ==
    /\ place \in {"idle", "lookup", "connect", "connected", "send", "await", "fetch",
               "close", "decode"}
    /\ request \in Requests /\ target \in BOOLEAN
    /\ client \in [socket : Sockets \cup {"none"}, rx : Seq(Characters)]
    /\ closed_sockets \subseteq Sockets
    /\ conn \in [Sockets -> [state : {"free", "open", "left"}, data : Seq(Characters)]]
    /\ server \in [reply : Responses \cup {NoServer.reply}, wire : Seq(Characters)]
    /\ asked \in Nat
    /\ parser \in [lastCharacterEOL : BOOLEAN, httpBody : BOOLEAN, statusLine : BOOLEAN,
                   code : Seq(Characters), receiving : BOOLEAN]
    /\ Len(parser.code) <= 3
    /\ httpResponse \in Seq(Characters)
    /\ mishaps \in 0..Mishaps

(* The chip has few sockets: every way out of an exchange has closed its    *)
(* own, and no exchange has more than one.                                  *)
NoSocketLeft == \A s \in Sockets : conn[s].state # "free" => s = client.socket
NoSocketLeaked == NoSocketLeft /\ (place \in {"idle", "decode"} => client.socket = "none")

(* What is collected is the beginning of the body of the server's answer,   *)
(* however the bytes were cut up, and nothing of an answer other than 200.  *)
BodyIsPrefix ==
    /\ ExchangeType
    /\ httpResponse # <<>> =>
          /\ server.reply.status = <<"2", "0", "0">>
          /\ IsPrefix(Cut(httpResponse), server.reply.body)
=============================================================================
