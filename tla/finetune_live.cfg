SPECIFICATION LiveSpec
CONSTANTS
  a = a
  Runs = {a}
  MaxJobs = 3
  MaxSaves = 1
  MaxBoots = 2
CHECK_DEADLOCK FALSE
INVARIANT RunRowsTell
PROPERTY SignalledRunStops
PROPERTY EveryJobEnds
