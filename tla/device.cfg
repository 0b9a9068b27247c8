SPECIFICATION Spec
CONSTANTS
  NLayer = 2
  ChunkSize = 2
  NCtx = 3
  Tokens <- MCTokens
  Prompts <- MCPrompts
  Generated = {1}
  Fused = {1}
  HasShared = TRUE
  UseShared = TRUE
  Environments <- MCEnvironments
  MaxGenerates = 2
  MaxFailures = 1
INVARIANTS ForwardIsExact BatchIsClosed HostWaitsForBatch
CHECK_DEADLOCK FALSE
