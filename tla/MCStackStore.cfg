SPECIFICATION Spec
CONSTANTS
  Threads = {t1, t2, t3}
  kBlockSizeFrames = 4
  kBlockCount = 2
  FrameCounts = {2, 3}
  PackedSizes = {3, 8}
  BlockPages = 8
SYMMETRY ThreadSymmetry
INVARIANTS
  TotalsExact
  WritersKeepTheirBlock
  TracesStayReadable
  CompletionReportedOnce
CHECK_DEADLOCK FALSE
