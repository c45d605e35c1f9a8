SPECIFICATION Spec
CONSTANTS
  Threads = {t1, t2, t3, t4}
  kMaxSpinIters = 1
SYMMETRY ThreadSymmetry
INVARIANTS
  HoldersMatchState
  SpinWaitHasOneOwner
  WaitersAccounted
  NoLostWakeup
  TokensReachWaiters
