SPECIFICATION LiveSpec
CONSTANTS
  j1 = j1
  j2 = j2
  downloads = downloads
  Pools = {downloads}
  PoolOf <- OnePool
  Jobs = {j1}
  PoolSize <- TwoThreads
  MaxAttempts = 3
  MaxBoots = 2
CHECK_DEADLOCK FALSE
INVARIANT EndedRowIsAtRest
INVARIANT OneLiveRun
INVARIANT RunningRowHasRun
INVARIANT CancelReachesItsRun
INVARIANT PendingRowIsScheduled
PROPERTY EveryRunEnds
PROPERTY EveryCallReturns
