SPECIFICATION FairSpec
CONSTANTS
  a1 = a1
  a2 = a2
  Owner = Owner
  Timer = Timer
  Nobody = Nobody
  Apps = {a1, a2}
  MaxEvents = 2
  MaxLogs = 1
  BatchSize = 1
  MaxStarts = 2
  ThreadsMayFail = TRUE
  ShutsDownFirst = TRUE
INVARIANTS
  AcceptedIsKept
  ShutDownIsFinal
  NoUseAfterDestroy
  NeverOvercounted
PROPERTIES
  AcceptedGoesOut
  OwnerReturns
CHECK_DEADLOCK FALSE
