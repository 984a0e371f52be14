CONSTANTS
  Tags = {"t1", "t2"}
  MaxMembers = 1
  TxRoom = 1
  RxRoom = 1
  Mishaps = 1
  MaxLog = 2
  Modes = {1, 2}
  Sketches = {"door", "node", "first"}
SPECIFICATION FairSpec
CHECK_DEADLOCK FALSE
INVARIANTS AnswerIsOwn  ActiveIsKnown
PROPERTIES LoopsOn
