------------------------------- MODULE V1First -------------------------------
(***************************************************************************)
(* BB_Access_Control, the first sketch: every tag is looked up, the answer  *)
(* is shown, and without the network nothing happens at all.                *)
(***************************************************************************)
EXTENDS SerialLookup

VARIABLE screen     \* "scan", "no data", "not found" or "found"

FirstInit == screen = "scan"

\* checkNetworkReady waits for the network at the head of loop().
ReadTag ==
    /\ pc = "loop" /\ networkSetup /\ ready
    /\ \E t \in Tags : tag' = t /\ Transmit(t)
    /\ success' = "no" /\ answer' = NoAnswer
    /\ pc' = "wait"
    /\ UNCHANGED <<db, networkSetup, screen>>

\* No time limit.
FirstWaited == Waited /\ UNCHANGED screen

\* Nothing is kept of the answer.
FirstReceived ==
    /\ Received
    /\ screen' = IF answer'.valid THEN "found" ELSE "not found"
    /\ UNCHANGED db

NoData ==
    /\ pc = "receive" /\ serial = <<>>
    /\ success' = "no" /\ answer' = NoAnswer
    /\ screen' = "no data"
    /\ pc' = "decide"
    /\ UNCHANGED <<modemVars, tag, db, outstanding, networkSetup>>

\* Four seconds later.
resetDisplay ==
    /\ pc = "decide"
    /\ screen' = "scan"
    /\ pc' = "loop" /\ Forgotten
    /\ UNCHANGED <<modemVars, db, networkSetup>>

Loop ==
    \/ setupNetwork /\ UNCHANGED screen
    \/ ReadTag \/ FirstWaited \/ FirstReceived \/ NoData \/ resetDisplay

FirstNext == Loop \/ (Environment /\ UNCHANGED <<lookupVars, screen>>)
=============================================================================
