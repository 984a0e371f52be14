-------------------------------- MODULE V1Board --------------------------------
(***************************************************************************)
(* A board of the first generation runs one of the three sketches, on the   *)
(* same modem and server.                                                   *)
(***************************************************************************)
EXTENDS SerialLookup

CONSTANTS MaxLog, Modes, Sketches

ASSUME BoardAssumption ==
    /\ MaxLog \in Nat \ {0} /\ Modes \subseteq {1, 2}
    /\ Sketches \subseteq {"door", "node", "first"}

VARIABLES
    sketch,
    log, recno, online, reportedHome, uptime16, active, unsent,
    mode, doorLock, systemActive, activeTagString, reCheck, since, known,
    screen

Door  == INSTANCE V1Door
Node  == INSTANCE V1Node
First == INSTANCE V1First

doorVars == <<log, recno, online, reportedHome, uptime16, active, unsent>>
nodeVars == <<mode, doorLock, systemActive, activeTagString, reCheck, since, known>>
vars == <<sketch, modemVars, lookupVars, doorVars, nodeVars, screen>>

Init ==
    /\ sketch \in Sketches
    /\ LookupInit /\ Door!DoorInit /\ Node!NodeInit /\ First!FirstInit

DoorRuns  == sketch = "door" /\ UNCHANGED <<sketch, nodeVars, screen>>
NodeRuns  == sketch = "node" /\ UNCHANGED <<sketch, doorVars, screen>>
FirstRuns == sketch = "first" /\ UNCHANGED <<sketch, doorVars, nodeVars>>

Next ==
    \/ DoorRuns /\ Door!DoorNext
    \/ NodeRuns /\ Node!NodeNext
    \/ FirstRuns /\ First!FirstNext

Spec == Init /\ [][Next]_vars

\* The sketches run; the door has its watchdog, the other two rely on a modem
\* that comes to an end with every line.
FairSpec ==
    /\ Spec
    /\ WF_vars(DoorRuns /\ Door!Loop)
    /\ WF_vars(DoorRuns /\ Door!WatchdogRestart)
    /\ WF_vars(NodeRuns /\ Node!Loop)
    /\ WF_vars(NodeRuns /\ ModemStep /\ UNCHANGED <<lookupVars, nodeVars>>)

---------------------------------------------------------------------------
Records(t) == {i \in 1..Len(log) : log[i] = t}

(* Whoever came in while the server could not be reached is in the log      *)
(* until a line about him has been sent, as often as he came in: deleting   *)
(* records while going through them loses none, nor does a restart.         *)
NothingUnsent ==
    sketch = "door" => \A t \in Tags : unsent[t] <= Cardinality(Records(t))

(* The machine is on only for a tag that the server or the table has let in *)
(* since the node was started, though a recheck asks neither; and no recheck *)
(* takes over what another member left.                                     *)
ActiveIsKnown == sketch = "node" => Node!ActiveIsKnown

(* The head of the loop is passed again and again, whatever the modem does: *)
(* a door that waits for it is restarted by the watchdog, and the restart   *)
(* does not wait for the same modem.                                        *)
LoopsOn == sketch # "first" => []<>(pc = "loop" /\ Door!Configured)
=============================================================================
