CONSTANTS
  Tags = {t1, t2}
  None = None
  MemberLimit = 1
  LogLimit = 1
  CountMod = 256
  Faults = {"loss", "refusal", "wifi", "partial", "power"}
  MaxVisits = 3
  MaxPowerLosses = 1
SPECIFICATION Spec
INVARIANTS    AuditComplete
PROPERTIES ForgetsOnlyOnCommand
SYMMETRY TagSymmetry
