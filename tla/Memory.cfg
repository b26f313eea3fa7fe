CONSTANTS
  Threads = {t1, t2}
  Storages = {"a", "b", "c"}
  Sizes = {1, 33, 96}
  PoolSize = 288
  HostStorages = {"a", "b", "c", "d"}
  HostSizes = {1, 3, 7, 8}
  MinOrder = 1
  FirstOrder = 3
  LargestOrder = 4
  Threshold = 8
  MaxSegments = 2
SPECIFICATION MCSpec
INVARIANTS
  BlocksApart
  StoragesMatchBlocks
  HostTiled
  HostUsedExact
  HostCoalesced
