SPECIFICATION Spec
CONSTANTS
  max_threads_ = 8
  thread_quarantine_size_ = 1
  max_reuse_ = 0
  UserIds = {1, 2}
  Main = m
  Actors = {m, a, b}
  MaxCreates = 3
INVARIANTS
  ChecksHold
  UserIdsCurrent
  ClocksFollowThreads
PROPERTY CallsReturn
CHECK_DEADLOCK FALSE
