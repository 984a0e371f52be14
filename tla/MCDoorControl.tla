--------------------------- MODULE MCDoorControl ---------------------------
EXTENDS DoorControl

\* Every definition treats the tags alike.
TagSymmetry == Permutations(Tags)
=============================================================================
