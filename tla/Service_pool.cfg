CONSTANTS
  Workers = {w1, w2}
  Clients = {c1, c2}
  IdOf <- FreshIds
  MaxChunks = 2
SPECIFICATION FairSpec
INVARIANTS
  OwnAnswerInOrder
  NobodyLeftAsleep
PROPERTIES
  RequestIsTaken
  StopReturns
CHECK_DEADLOCK FALSE
