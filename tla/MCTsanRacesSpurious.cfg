SPECIFICATION Spec
CONSTANTS
  Threads = {t0, t1, t2}
  Main = t0
  None = None
  Syncs = {m}
  SyncOps <- MCSyncOps
  AccessTypes <- MCAccessTypes
  NSlots = 2
  kEpochLast = 3
  kShadowCnt = 2
  MaxOps = 5
  MaxFlushes = 0
CHECK_DEADLOCK FALSE
INVARIANT SpuriousOnlyAfterReset
