SPECIFICATION FairSpec
CONSTANTS
  c1 = c1
  c2 = c2
  w1 = w1
  Callers = {c1, c2}
  Waiters = {w1}
  Unit = 2
  Quanta = 2
  Burst = 2
  Rates = {1, 2}
  Fastest = 2
  MaxSince = 8
  Base = 1
  Times = 2
  Over = 1
  MaxDelay = 4
  MaxAttempts = 2
  Wanted = {1, 3}
  Timeouts = {0, 4}
  Pause = 3
INVARIANTS
  LimiterHolds
PROPERTIES
  GetsThrough
  WaitReturns
CHECK_DEADLOCK FALSE
