\* Conversations in which no token occurs at two places (see Qwen3Session_repeats for
\* those in which one does), and a window smaller than a word of the bitmap.
CONSTANTS
  ContextLen = 6
  ArLens = {1, 2, 3, 6}
  Rows = 3
  SeqLens = {1, 6}
  MaxCalls = 2
  Answers = {51}
  Think = 1
  Close = 2
  Eos = 3
  MaxLength = 2
  MaxRequests = 3
  SessionPageBits = 1
  SessionLaneBits = 2
  SessionWordBits = 4
  Window = 2
  WordBits = 8
  MaxTokens = 9
SPECIFICATION MCSpec
INVARIANTS
  AttendsExactly
  SessionReadsOwnPrefix
  TreeHoldsItsTokens
  FindsLongest
  WindowAllocatedOnce
PROPERTIES
  WritesStayInside
  WindowEvictionKeepsWindow
CHECK_DEADLOCK FALSE
