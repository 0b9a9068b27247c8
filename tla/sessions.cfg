SPECIFICATION Spec
CONSTANTS
  w1 = w1  w2 = w2  w3 = w3  o1 = o1  o2 = o2  o3 = o3  i1 = i1  i2 = i2  i3 = i3
  None = None
  Reaper = reaper
  Workers = {w1, w2, w3}
  Objs = {o1, o2}
  Ids = {i1, i2}
  LongIds = {i2}
  Ops = {"create_session", "generate", "append_turn", "replace_history", "reset_session", "close_session", "load_model", "health"}
  MaxSessions = 2
  SessionTimeout = 0
  CtxSizes = {2}
  DefaultCtx = 1
  MaxRequests = 4
  MaxTime = 0
SYMMETRY Symmetry
INVARIANTS Inv OneSessionPerId NoOrphanInProvider PromptIsHistory
PROPERTIES GenerateKeepsEngine RefusesOnlyWhenBusy
CHECK_DEADLOCK FALSE
