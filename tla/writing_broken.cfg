SPECIFICATION Spec
CONSTANTS
  g1 = g1
  g2 = g2
  g3 = g3
  a1 = a1
  None = None
  Gens = {g1, g2}
  Streaming = {g1, g2}
  Worker = {g1}
  Adapter <- OneAdapter
  SaveTo = {}
  Slots = 1
  MaxChunks = 2
CHECK_DEADLOCK FALSE
INVARIANT BrokenStreamFails
