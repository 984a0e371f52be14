\* A send that waits for a buffer spins: the system may stop there.
CHECK_DEADLOCK FALSE
CONSTANTS
  Sockets = {s1}
  None = None
  Buffers = 2
  Pending = 2
  Misses = TRUE
  PeerCloses = TRUE
SPECIFICATION FairSpec
INVARIANTS NeverOverrun WrittenOnce OwnAnswer
  
