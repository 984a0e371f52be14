-------------------------------- MODULE Patch --------------------------------
(***************************************************************************)
(* driverpatch_1_12: the sketch that replaces the files in the memory of    *)
(* the CC3000, one command per portion, with the radio's parameters held in *)
(* RAM in between.  A command that fails may have been done all the same,   *)
(* and the power may go between any two.                                    *)
(***************************************************************************)
EXTENDS Naturals

CONSTANTS
    Portions,       \* portions of a file: 16, 4 or the patch's length by 32
    Faults,         \* commands that fail (a bound for TLC)
    Cuts            \* times the power goes (a bound for TLC)

ASSUME PatchAssumption == Portions \in Nat \ {0} /\ {Faults, Cuts} \subseteq Nat

VARIABLES
    stage, at,      \* the stage of setup, and the portion it is at
    status,         \* return_status, ucStatus_Dr, ucStatus_FW: 0 if all went well
    counter,        \* attempts to read the parameters
    params,         \* cRMParamsFromEeprom, or the default
    MACvalid,
    file,           \* the chip's memory: file, portion, whose it is
    backup,         \* the board's EEPROM
    faults, cuts,
    mixed           \* the power went while one set of parameters replaced another

patchVars ==
    <<stage, at, status, counter, params, MACvalid, file, backup, faults, cuts, mixed>>

Files == {"rm", "fat", "mac", "drv", "fw"}
Whole(who) == [p \in 1..Portions |-> who]
Last(f) == IF f = "mac" THEN 1 ELSE Portions

InRam == stage = "begin" /\ at = 1 /\ status = 0 /\ counter = 0
         /\ params = Whole("none") /\ MACvalid = FALSE

PatchInit ==
    /\ InRam
    /\ file = [f \in Files |-> Whole("own")]
    /\ backup \in {Whole("none"), Whole("own")}
    /\ faults = 0 /\ cuts = 0 /\ mixed = FALSE

Goes(next) == stage' = next /\ at' = 1 /\ status' = 0

\* A command is done, or fails.
Fails == faults < Faults /\ faults' = faults + 1
Answers(failed) == (failed /\ Fails) \/ (~failed /\ UNCHANGED faults)

kept == <<backup, cuts, mixed>>

---------------------------------------------------------------------------
beginUnpatched ==
    /\ stage = "begin"
    /\ \E failed \in BOOLEAN :
          Answers(failed) /\ Goes(IF failed THEN "halted" ELSE "address")
    /\ UNCHANGED <<counter, params, MACvalid, file, kept>>

displayMACAddress ==
    /\ stage = "address"
    /\ \E failed \in BOOLEAN : Answers(failed) /\ MACvalid' = ~failed
    /\ Goes("read")
    /\ UNCHANGED <<counter, params, file, kept>>

nvmem_read ==
    /\ stage = "read" /\ at <= Portions
    /\ \E failed \in BOOLEAN :
          /\ Answers(failed)
          /\ status' = IF failed THEN 1 ELSE status
          /\ params' = [params EXCEPT ![at] = IF failed THEN "noise" ELSE file["rm"][at]]
    /\ at' = at + 1
    /\ UNCHANGED <<stage, counter, MACvalid, file, kept>>

\* The third attempt counts as failed even when it did not.
AfterAttempt ==
    /\ stage = "read" /\ at > Portions
    /\ counter' = counter + 1
    /\ IF counter' = 3
       THEN Goes("fat") /\ params' = Whole("default")
       ELSE /\ Goes(IF status # 0 THEN "read" ELSE
                    IF backup[1] = "none" THEN "backup" ELSE "fat")
            /\ UNCHANGED params
    /\ UNCHANGED <<MACvalid, file, faults, kept>>

BacksUp ==
    /\ stage = "backup"
    /\ backup' = [backup EXCEPT ![at] = params[at]]
    /\ IF at = Portions THEN Goes("fat") ELSE at' = at + 1 /\ UNCHANGED <<stage, status>>
    /\ UNCHANGED <<counter, params, MACvalid, file, faults, cuts, mixed>>

---------------------------------------------------------------------------
(* The writes.  The parameters' portions are all written and their failures *)
(* counted together; a patch stops at the first; of the FAT's, only the     *)
(* last counts.  After a failure it is all done again.                      *)
Then(f) ==
    CASE f = "fat" -> "rm"
      [] f = "rm" -> IF MACvalid THEN "mac" ELSE "drv"
      [] f = "mac" -> "drv"
      [] f = "drv" -> "fw"
      [] f = "fw" -> "restart"

Contents(f, p) == IF f = "rm" THEN params[p] ELSE IF f = "mac" THEN "own" ELSE "new"

Counted_Last(f, failed) == IF failed THEN 1 ELSE 0

Counted(f, failed) ==
    IF failed THEN 1 ELSE IF f = "fat" THEN 0 ELSE status

EndsEarly(f, failed) == failed /\ f \in {"drv", "fw"}

nvmem_write(f) ==
    /\ stage = f
    /\ \E failed, done \in BOOLEAN :
          /\ failed \/ done
          /\ Answers(failed)
          /\ file' = IF done THEN [file EXCEPT ![f][at] = Contents(f, at)] ELSE file
          /\ LET now == Counted(f, failed) IN
             IF at < Last(f) /\ ~EndsEarly(f, failed)
             THEN at' = at + 1 /\ status' = now /\ UNCHANGED stage
             ELSE Goes(IF now = 0 THEN Then(f) ELSE f)
    /\ UNCHANGED <<counter, params, MACvalid, kept>>

beginPatched ==
    /\ stage = "restart"
    /\ \E failed \in BOOLEAN :
          Answers(failed) /\ Goes(IF failed THEN "halted" ELSE "patched")
    /\ UNCHANGED <<counter, params, MACvalid, file, kept>>

Uniform(f) == \E who \in {"own", "default", "new"} : file[f] = Whole(who)

PowerCut ==
    /\ cuts < Cuts /\ cuts' = cuts + 1
    /\ stage' = "begin" /\ at' = 1 /\ status' = 0 /\ counter' = 0
    /\ params' = Whole("none") /\ MACvalid' = FALSE
    /\ mixed' = (mixed \/ ~Uniform("rm"))
    /\ UNCHANGED <<file, backup, faults>>

PatchNext ==
    \/ beginUnpatched \/ displayMACAddress \/ nvmem_read \/ AfterAttempt \/ BacksUp
    \/ \E f \in Files : nvmem_write(f)
    \/ beginPatched \/ PowerCut

PatchSpec == PatchInit /\ [][PatchNext]_patchVars

---------------------------------------------------------------------------
(* When the sketch says Patched!, whatever failed and however often it was  *)
(* started, both patches are in the chip from end to end, its address is    *)
(* its own, and its parameters are one set, its own or the default, unless  *)
(* the power went while the one replaced the other.                         *)
PatchedIsWhole ==
    stage = "patched" =>
        /\ file["drv"] = Whole("new") /\ file["fw"] = Whole("new")
        /\ file["mac"] = Whole("own")
        /\ Uniform("rm") \/ mixed
=============================================================================
