\* Conversations over two tokens.
CONSTANTS
  Bodies <- Repeating
  Answers = {51}
  Think = 1
  Close = 2
  Eos = 3
  MaxLength = 2
  MaxRequests = 3
  PageBits = 1
  LaneBits = 2
  WordBits = 4
SPECIFICATION Spec
INVARIANT ReadsOwnPrefix
CHECK_DEADLOCK FALSE
