\* Counts that need two bytes: five records, Base 4, so the header of a
\* deletion from 4 to 3 records passes through the count 7.
CONSTANTS
  Base = 4
  HeadPtr = 0
  EndPtr = 7
  RecSize = 1
  MemSize = 10
  Chip <- MCChip
  Records <- MCRecords
  CallsMade = {"append", "delete"}
  MaxPowerLosses = 1
SPECIFICATION Spec
PROPERTIES LeavesNeighbourAlone
