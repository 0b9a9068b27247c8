SPECIFICATION Spec
CONSTANTS
  Ids = {a, b}
  LongIds = {}
  NoId = none
  NSlots = 2
  LocalTokens = 2
  NPlanes = 2
  Tokens = {x}
  Stop = stop
  NCtx = 2
  MaxGen = 1
  ChunkSize = 2
  Fallback = 2
  MaxPrompt = 3
  MaxGenerates = 2
INVARIANTS SlotsAreAccountedFor
PROPERTY GenerateReturns
