\* Two forked tasks run their modules at the same time.
CONSTANTS
  ThreadCnt = 2
  Submitters = {"s1", "s2"}
  Sessions = {}
  Loops <- OneLoop
SPECIFICATION Spec
INVARIANT
  EachTileOnce
CHECK_DEADLOCK FALSE
