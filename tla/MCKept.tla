-------------------------------- MODULE MCKept --------------------------------
(***************************************************************************)
(* The two sketches that write a memory the power may go from under: the    *)
(* credit machine and the patcher of the CC3000.  They share nothing, so a  *)
(* behaviour is one of them, while the other rests.                         *)
(***************************************************************************)
EXTENDS CreditMachine, Patch

VARIABLE board      \* "credit" or "patcher"

CreditRests == Init /\ flag = 0 /\ idLo = 0 /\ idHi = 0
PatcherRests == PatchInit /\ backup = Whole("own")

MCInit ==
    \/ board = "credit" /\ Init /\ PatcherRests
    \/ board = "patcher" /\ CreditRests /\ PatchInit

MCNext ==
    /\ UNCHANGED board
    /\ \/ board = "credit" /\ Next /\ UNCHANGED patchVars
       \/ board = "patcher" /\ PatchNext /\ UNCHANGED vars

MCSpec == MCInit /\ [][MCNext]_<<board, vars, patchVars>>
=============================================================================
