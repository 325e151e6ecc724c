SPECIFICATION FairSpec
CONSTANTS
  s1 = s1
  c1 = c1
  Senders = {s1}
  Closers = {c1}
  MaxPayloads = 3
  Units = 2
  MaxConnections = 3
  MaxOthers = 1
  ConnectMayFail = TRUE
  SendMayFail = TRUE
  PeerMayStall = TRUE
  PipeSignal = TRUE
INVARIANTS
  SentMeansWhole
  NoSocketLeaks
  NoStrangerTouched
PROPERTIES
  KeepsChannel
  SendReturns
CHECK_DEADLOCK FALSE
