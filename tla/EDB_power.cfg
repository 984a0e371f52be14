\* A table of three records of two bytes between one byte of another table on
\* either side; every count fits one byte; the power fails twice.
CONSTANTS
  Base = 4
  HeadPtr = 1
  EndPtr = 9
  RecSize = 2
  MemSize = 11
  Chip <- MCChip
  Records <- MCRecords
  CallsMade = {"append", "delete", "insert", "update", "create"}
  MaxPowerLosses = 2
SPECIFICATION Spec
INVARIANTS CountSound
PROPERTIES LeavesNeighbourAlone ImplementsRecordTable
