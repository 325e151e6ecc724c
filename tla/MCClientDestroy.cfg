SPECIFICATION Spec
CONSTANTS
  a1 = a1
  a2 = a2
  Owner = Owner
  Timer = Timer
  Nobody = Nobody
  Apps = {a1}
  MaxEvents = 1
  MaxLogs = 1
  BatchSize = 1
  MaxStarts = 2
  ThreadsMayFail = TRUE
  ShutsDownFirst = FALSE
INVARIANTS
  NoUseAfterDestroy
CHECK_DEADLOCK FALSE
