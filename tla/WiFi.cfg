\* The examples stop in an endless loop.
CHECK_DEADLOCK FALSE
CONSTANTS
  Programs = {"door", "create", "reconnect", "web", "geo", "build", "ntp", "internet", "tweet", "echo", "chat"}
  Mishaps = 2
  SocketIds = {1, 2, 3}
  None = None
  Slots = 2
  Visits = 2
  Bytes = 2
  Tries = 2
  Day = 2
SPECIFICATION SketchesSpec
INVARIANTS  SocketsKept HeardInOrder
PROPERTIES ComesOnline SketchEnds
