SPECIFICATION LiveSpec
CONSTANTS
  g1 = g1
  g2 = g2
  g3 = g3
  a1 = a1
  None = None
  Gens = {g1, g2, g3}
  Streaming = {g1, g2}
  Worker = {g1}
  Adapter <- OneAdapter
  SaveTo = {g1, g3}
  Slots = 1
  MaxChunks = 1
CHECK_DEADLOCK FALSE
INVARIANT TextAndSlotsAccounted
PROPERTY EveryGenerationEnds
