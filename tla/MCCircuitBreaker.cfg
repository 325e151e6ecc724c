SPECIFICATION FairSpec
CONSTANTS
  t1 = t1
  t2 = t2
  t3 = t3
  Callers = {t1, t2, t3}
  FailureThreshold = 2
  SuccessThreshold = 2
  Timeout = 2
  Cap = 4
  Resets = TRUE
INVARIANTS
  CountsMatchState
  HalfOpenIsQuiet
PROPERTIES
  LeavesOpen
  RecoversWithService
