\* One thread serves requests, the default of startService().
CONSTANTS
  ThreadCnt = 3
  Submitters = {"s1"}
  Sessions = {"s1"}
  Loops <- SomeLoops
SPECIFICATION FairSpec
INVARIANTS
  EachTileOnce
  ClosureAlive
  NoStaleFlag
  PoolComesBack
PROPERTIES
  PushReturns
  DestructorReturns
CHECK_DEADLOCK FALSE
