SPECIFICATION GpuSpec
CONSTANTS
  t1 = t1
  t2 = t2
  t3 = t3
  Enabled = TRUE
  Tasks = {t1, t2, t3}
  Coroutines = {t3}
  MaxHeavyTasks = 1
CHECK_DEADLOCK FALSE
PROPERTY RefusalMeansBusy
