SPECIFICATION Spec
CONSTANTS
  Threads = {t1, t2}
  h1 = h1
  h2 = h2
  h3 = h3
  Traces = {h1, h2, h3}
  NoTrace = NoTrace
  kTabSize = 2
  HashOf <- Hash
  CompressFlags <- Flags
  MaxForks = 1
INVARIANTS
  UniqueIds
  IdsStayValid
  ForkIsClean
PROPERTIES
  CallsReturn
  WorkGetsDone
