CONSTANTS
  Sockets = {s0, s1}
  Characters <- MCCharacters
  Responses <- MCResponses
  Requests = {"boot", "lookup"}
  Mishaps = 2
SPECIFICATION FairSpec
INVARIANTS NoSocketLeaked 
PROPERTIES  ExchangeEnds
