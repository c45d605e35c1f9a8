SPECIFICATION LiveSpec
CONSTANTS
  Threads = {t1, t2, t3}
  kMaxSpinIters = 1
  MaxCalls = 1
PROPERTIES
  ImplementsRWLock
  EveryRequestGranted
CHECK_DEADLOCK FALSE
