\* A worker that decided to sleep misses the broadcast of the shutdown.
SPECIFICATION FairSpec
CONSTANTS
  Workers = {w1}
  Conns = {c1}
  None = None
  MaxQueue = 1
  MaxRequests = 1
PROPERTIES ShutdownCompletes
CHECK_DEADLOCK FALSE
