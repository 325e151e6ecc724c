SPECIFICATION ConfigSpec
CONSTANTS
  Ports <- MCPorts
  BatchSizes <- MCBatchSizes
  Intervals <- MCIntervals
  MaxChanges = 1
  Unset = Unset
  NoPort = NoPort
INVARIANTS
  LogsGoFirst
  
