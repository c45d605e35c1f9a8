SPECIFICATION Spec
CONSTANTS
  Threads = {t1, t2}
  Counts = {2}
  MaxGenerations = 1
SYMMETRY Symmetry
INVARIANT BuffersExclusive
