SPECIFICATION Spec
CONSTANTS
  w1 = w1  w2 = w2  w3 = w3  o1 = o1  o2 = o2  o3 = o3  i1 = i1  i2 = i2  i3 = i3
  None = None
  Reaper = reaper
  Workers = {w1, w2}
  Objs = {o1, o2, o3}
  Ids = {i1, i2, i3}
  LongIds = {}
  Ops = {"create_session", "append_turn"}
  MaxSessions = 2
  SessionTimeout = 1
  CtxSizes = {1}
  DefaultCtx = 1
  MaxRequests = 4
  MaxTime = 2
SYMMETRY Symmetry
INVARIANTS NoUseAfterFree WithinLimit
PROPERTIES EvictsLeastRecent ReapsAllExpired
CHECK_DEADLOCK FALSE
