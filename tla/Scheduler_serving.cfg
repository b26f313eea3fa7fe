SPECIFICATION FairSpec
CONSTANTS
  r1 = r1
  r2 = r2
  r3 = r3
  Reqs = {r1, r2, r3}
  Streaming = {r3}
  InputLen <- MCInputLen
  MaxNewTokens <- MCMaxNewTokens
  max_running_requests = 2
  max_prefill_tokens = 3
  max_total_tokens = 6
INVARIANTS
  TypeOK
  BudgetExact
  RunnerMatches
  RunningBounded
  StreamedInOrder
PROPERTIES
  SilentAtEnd
  EveryFittingRequestEnds
CHECK_DEADLOCK FALSE
