SPECIFICATION Spec
CONSTANTS
  t1 = t1
  t2 = t2
  p1 = p1
  p2 = p2
  Nobody = Nobody
  Threads = {t1, t2}
  Payloads = {p1, p2}
  Units = 2
  MaxSockets = 2
  ConnectResults = {"ok", "fails"}
  SendResults = {"ok", "aborts"}
  PeerEnds = {"closed", "lost", "reset"}
INVARIANTS
  StateMatchesSocket
  BreakNoticed
  PiecesTogether
  OkMeansWritten
SYMMETRY MCSymmetry
CHECK_DEADLOCK FALSE
