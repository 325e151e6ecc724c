SPECIFICATION Spec
CONSTANTS
  t1 = t1
  t2 = t2
  Callers = {t1, t2}
  MaxBatches = 2
  Size <- MCSize
  Results = {"ok", "error", "other"}
INVARIANTS
  Accounted
  AtMostOneLate
  SnapshotInventsNothing
