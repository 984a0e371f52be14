-------------------------------- MODULE Reply --------------------------------
(***************************************************************************)
(* BBWiFi::decodeResponse: what the exchange of Exchange collected, parsed  *)
(* by AJson, and what the program keeps of it.                              *)
(***************************************************************************)
EXTENDS Exchange, AJson

VARIABLES time, cmd      \* BBWiFi::_time, cmd

vars == <<place, request, target, client, closed_sockets, conn, server, asked,
          parser, httpResponse, mishaps, time, cmd>>

Unknown == <<"unknown">>
Garbage == <<"garbage">>

Init == ExchangeInit /\ time = Unknown /\ cmd = Unknown

---------------------------------------------------------------------------
(* What is read through NULL may be anything.                              *)
Field(object, name) ==
    IF object = None THEN Garbage
    ELSE LET f == getObjectItem(object, name) IN
         IF f = None THEN Garbage ELSE f.value

Parse_Prefix(t) ==
    LET r == parse(t \o <<"\"", "}">>) IN IF r.ok THEN r.item ELSE None

Parse(t) == LET r == parse(t) IN IF r.ok THEN r.item ELSE None

decodeResponse ==
    /\ Decoded
    /\ LET object == Parse(Cut(httpResponse)) IN
       IF request = "boot" /\ Field(object, <<"d">>) = Garbage
       THEN time' = Garbage /\ cmd' = Garbage
       ELSE /\ time' = Field(object, <<"t">>)
            /\ cmd' = Field(object, <<"c">>)

---------------------------------------------------------------------------
Sketch == SendData /\ UNCHANGED <<time, cmd>>

Network == (Arrives \/ Leaves) /\ UNCHANGED <<time, cmd>>

Next == Sketch \/ Network \/ decodeResponse

Spec == Init /\ [][Next]_vars

\* The sketch runs, and what is not lost arrives.  (The last conjunct is
\* WF_vars(decodeResponse), which is enabled whenever the sketch is there.)
FairSpec ==
    /\ Spec
    /\ WF_vars(Sketch)
    /\ WF_vars(Arrives /\ UNCHANGED <<time, cmd>>)
    /\ WF_vars(Leaves /\ UNCHANGED <<time, cmd>>)
    /\ []<>(place # "decode")

---------------------------------------------------------------------------
(* A reply cut short is not taken for a shorter one: what the program keeps *)
(* is what the server sent, or came through a failed parse.                 *)
Sent(name) == LET r == parse(server.reply.body) IN Field(r.item, name)

DecodedIsSent ==
    [][place = "decode" /\ place' = "idle" =>
          \/ time' = Garbage /\ cmd' = Garbage
          \/ time' = Sent(<<"t">>) /\ cmd' = Sent(<<"c">>)]_vars

(* An exchange ends, whatever is lost.                                      *)
ExchangeEnds == place # "idle" ~> place = "idle"
=============================================================================
