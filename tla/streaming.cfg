SPECIFICATION RequestLiveSpec
CONSTANTS
  t1 = t1
  t2 = t2
  Tasks = {t1, t2}
  Coroutines = {t1, t2}
  Streamer = t1
  MaxHeavyTasks = 1
  Enabled = TRUE
  MaxChunks = 3
  Cancels = TRUE
CHECK_DEADLOCK FALSE
INVARIANT PermitsAccounted
INVARIANT GeneratesUnderPermit
PROPERTY EveryAskAnswered
PROPERTY Contract
PROPERTY ThreadEnds
