SPECIFICATION FdrSpec
CONSTANTS
  Threads = {t1, t2}
  Counts = {1, 2}
  MaxGenerations = 2
SYMMETRY Symmetry
INVARIANT StoresStayAllocated
INVARIANT SharedOnlyByOverlap
INVARIANT EventsDroppedWithCause
PROPERTY LogIsComplete
