SPECIFICATION Spec
CONSTANTS
  Ids = {a}
  LongIds = {}
  NoId = none
  NSlots = 1
  LocalTokens = 3
  NPlanes = 2
  Tokens = {x, y}
  Stop = stop
  NCtx = 3
  MaxGen = 2
  ChunkSize = 2
  Fallback = 2
  MaxPrompt = 3
  MaxGenerates = 2
INVARIANT CachedPrefixComesBack
