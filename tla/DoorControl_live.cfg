CONSTANTS
  Tags = {t1}
  None = None
  MemberLimit = 1
  LogLimit = 2
  CountMod = 256
  Faults = {"loss", "wifi", "partial", "power"}
  MaxVisits = 3
  MaxPowerLosses = 1
SPECIFICATION FairSpec
PROPERTIES Uploaded 
