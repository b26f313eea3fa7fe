\* The proportions of the example paged_attn_hybrid: a window smaller than a word of
\* the bitmap.
CONSTANTS
  ContextLen = 6
  ArLens = {1}
  Rows = 3
  SeqLens = {1}
  MaxCalls = 1
  Answers = {51}
  Think = 1
  Close = 2
  Eos = 3
  MaxLength = 2
  MaxRequests = 1
  SessionPageBits = 1
  SessionLaneBits = 2
  SessionWordBits = 4
  Window = 2
  WordBits = 8
  MaxTokens = 4
SPECIFICATION MCSpec
INVARIANT WindowAddressesHold
CHECK_DEADLOCK FALSE
