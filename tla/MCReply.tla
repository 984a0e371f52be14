------------------------------- MODULE MCReply -------------------------------
(* Two replies and a refusal.  The values differ, so that what came of one  *)
(* is not taken for the other; a string and a number can be cut short, and  *)
(* the first body goes on after its line.                                   *)
EXTENDS Reply

Lookup == <<"{", "\"", "t", "\"", ":", "1", "2", ",", "\"", "c", "\"", ":", "\"", "x", "\"", "}">>
Boot   == <<"{", "\"", "d", "\"", ":", "3", ",", "\"", "t", "\"", ":", "4", ",",
            "\"", "c", "\"", ":", "5", "}">>

OK == <<"2", "0", "0">>

MCResponses == {
    [status |-> OK, header |-> <<"h", "NL", "CR">>, body |-> Lookup \o <<"CR", "NL", "0">>],
    [status |-> OK, header |-> <<>>, body |-> Boot],
    [status |-> <<"4", "0", "4">>, header |-> <<>>, body |-> Boot]}

MCCharacters == {"H", " ", "h", "NL", "CR", "NUL", "{", "}", "\"", ":", ",",
                 "0", "1", "2", "3", "4", "5", "t", "c", "d", "x"}
=============================================================================
