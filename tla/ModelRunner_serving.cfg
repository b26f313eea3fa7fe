SPECIFICATION CarefulSpec
CONSTANTS
  Reqs = {"r1", "r2", "r3", "r4"}
  Prompt <- Conversation
  OutTokens = {9}
  MaxOutput = 2
  MaxBatch = 2
  PoolSize = 8
  NumRows = 3
INVARIANTS
  TypeOK
  ReadsOwnPrefix
  OneOwner
  LocksCounted
  ProtectedExact
CHECK_DEADLOCK FALSE
