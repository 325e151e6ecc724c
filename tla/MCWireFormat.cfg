SPECIFICATION FairSpec
CONSTANTS
  none = none
  None = none
  null = null
  Null = null
  nan = nan
  NaN = nan
  notutf8 = notutf8
  NotUtf8 = notutf8
  Calls <- MCCalls
  MaxTime = 1
INVARIANTS
  EventsUnchanged
PROPERTIES
  LogsAllArrive
CHECK_DEADLOCK FALSE
