\* Two workers, three connections, a queue of two: every way in and out.
SPECIFICATION FairSpec
CONSTANTS
  Workers = {w1, w2}
  Conns = {c1, c2, c3}
  None = None
  MaxQueue = 2
  MaxRequests = 1
INVARIANTS TypeOK ListIsQueue OneOwner NoIdleWhileQueued AllClosedAtExit
PROPERTIES EveryConnectionEnds ImplementsQueue
\* The daemon stops, and at shutdown it can hang: see ShutdownCompletes.
CHECK_DEADLOCK FALSE
