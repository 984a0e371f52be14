CONSTANTS
  Start <- MCStart
  ServerError <- MCServerError
  Dates <- MCDates
  Word = 32
  MaxPass = 3
  Limit = 7
  Slack = 4
  FirstInterval = 2
  Interval = 6
  autoreset = FALSE
  Second = 3
  WallWord = 12884902
  SyncInterval = 300
  Pauses = {1, 299, 3600, 4294866}
  SecondWord = 64
  FractionBits = 3
  ClockBits = 2
  PerSecond = 3
  Epochs = {10, 121, 122, 123, 183}
  West = 4
  LastCount = 10
SPECIFICATION MillisSpec
CHECK_DEADLOCK FALSE
INVARIANTS MetroExact OnTime DatesRight SyncIsServers
PROPERTIES HourIsBritish NowIsRtc
