SPECIFICATION LiveSpec
CONSTANTS
  r1 = r1
  r2 = r2
  r3 = r3
  r4 = r4
  m1 = m1
  m2 = m2
  None = None
  Tasks = {r1, r2, r3, r4}
  Coroutines = {}
  MaxHeavyTasks = 1
  Enabled = TRUE
  Models = {m1, m2}
  Kind <- MixKind
  Model <- MixModel
  Slots = 1
  QueueLimit = 2
CHECK_DEADLOCK FALSE
INVARIANT LoadedOnce
INVARIANT NoUnloadUnderGeneration
PROPERTY EveryRequestEnds
