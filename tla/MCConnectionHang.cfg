SPECIFICATION FairSpec
CONSTANTS
  t1 = t1
  t2 = t2
  p1 = p1
  p2 = p2
  Nobody = Nobody
  Threads = {t1}
  Payloads = {p1, p2}
  Units = 2
  MaxSockets = 1
  ConnectResults = {"ok", "fails"}
  SendResults = {"ok"}
  PeerEnds = {}
PROPERTIES
  CallsReturn
CHECK_DEADLOCK FALSE
