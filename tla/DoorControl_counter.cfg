\* Two bits of log records for a counter of one: 256 of up to 818 for eight bits.
CONSTANTS
  Tags = {t1}
  None = None
  MemberLimit = 1
  LogLimit = 3
  CountMod = 2
  Faults = {}
  MaxVisits = 3
  MaxPowerLosses = 0
SPECIFICATION FairSpec
PROPERTIES Uploaded
