SPECIFICATION FairSpec
CONSTANTS
  Ids = {i}
  Clients = {c}
  Nobody = nobody
  NEntries = 2
  MaxArenas = 2
  Blocks = {b1, b2, b3}
  ArenaName = ""
  BlockSize = 2
  x = x
  y = y
  Tokens <- MCTokens
  Prompts <- MCPrompts
  Outputs <- MCOutputs
  MaxGenerates = 2
  MaxOps = 2
  MaxBeats = 1
  MaxFaults = 1
INVARIANTS TypeOK AnswerIsOurs ReadIsExact IndexIsExact EntriesAreAccountedFor
PROPERTY CallsReturn
