SPECIFICATION Spec
CONSTANTS
  max_threads_ = 4
  thread_quarantine_size_ = 1
  max_reuse_ = 2
  UserIds = {1, 2}
  MaxCreates = 5
INVARIANTS
  ChecksHold
  LiveMatchesContexts
  Recycling
  JoinsTheRightThread
CHECK_DEADLOCK FALSE
