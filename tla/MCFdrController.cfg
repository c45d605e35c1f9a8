SPECIFICATION Spec
CONSTANTS
  CPUs = {c1, c2}
  Steps = {1, 5}
  CycleThreshold = 2
  MaxDelta = 4
  BufferSize = 16
  MaxCalls = 5
  MaxDepth = 2
  MaxGenerations = 2
SYMMETRY Symmetry
CHECK_DEADLOCK FALSE
INVARIANT RecordsWhole
INVARIANT TimesDecode
INVARIANT UndoableEntriesOnTop
INVARIANT OnlyShortCallsErased
