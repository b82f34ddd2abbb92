SPECIFICATION Spec
CONSTANTS
  Samples = {1, 2, 3}
  a = a
  b = b
  c = c
  empty = empty
  Contents = {a, b, c, empty}
  Valid = {a, b, c}
  Chapter <- TwoChapters
  Project <- OneProject
  MinEntries = 2
  Percents = {50}
  MaxCalls = 3
SYMMETRY Texts
CHECK_DEADLOCK FALSE
INVARIANT VersionIsBacked
INVARIANT SplitSeparates
INVARIANT FrozenIsLatest
PROPERTY VersionsKept
