SPECIFICATION Spec
CONSTANTS
  t1 = t1
  t2 = t2
  bare = bare
  Threads = {t1, t2, bare}
  Bare = {bare}
  Chunks = {a, b, c}
  None = None
  UsedSize = 2
  BatchSize = 3
  kSize = 2
  Options <- MCOptions
SYMMETRY Symmetry
INVARIANTS
  QuarantinedOnce
  SizesExact
  OverLimitOnlyWhenSkipped
  OldestFirst
PROPERTIES
  PurgeIsComplete
