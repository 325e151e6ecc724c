SPECIFICATION Spec
CONSTANTS
  t1 = t1
  t2 = t2
  e1 = e1
  e2 = e2
  big = big
  l1 = l1
  Threads = {t1, t2}
  Controllers = {t1, t2}
  Items <- MCItems
  Kind <- MCKind
  Size <- MCSize
  BatchSize <- MCBatchSize
  Interval <- MCInterval
  MaxBatchBytes = 3
  MaxQueueSize = 10
  MaxTotalMemory = 6
  KeyValid = TRUE
  CallbackResults = {"sent", "failed", "lost"}
  ThreadsMayFail = TRUE
INVARIANTS
  MemoryBounded
  BatchWithinLimits
  NoLossNoReorder
  FateMatchesBatch
  StoppedMeansDrained
  JoinedOnce
  StatsMatchFates
PROPERTIES
  KeepsOutbox
SYMMETRY MCSymmetry
CHECK_DEADLOCK FALSE
