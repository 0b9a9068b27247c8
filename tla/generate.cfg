SPECIFICATION Spec
CONSTANTS
  Ids = {a, b}
  LongIds = {b}
  NoId = none
  NSlots = 1
  LocalTokens = 3
  NPlanes = 2
  Tokens = {x, y}
  Stop = stop
  NCtx = 3
  MaxGen = 2
  ChunkSize = 2
  Fallback = 2
  MaxPrompt = 3
  MaxGenerates = 2
INVARIANTS TypeOK AttentionIsExact StoredIsExact ContextFits
SYMMETRY Sym
