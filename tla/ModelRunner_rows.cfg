SPECIFICATION Spec
CONSTANTS
  Reqs = {"r1", "r2", "r3", "r4"}
  Prompt <- SharedPrompts
  OutTokens = {9}
  MaxOutput = 2
  MaxBatch = 2
  PoolSize = 12
  NumRows = 2
INVARIANT
  OneOwner
CHECK_DEADLOCK FALSE
