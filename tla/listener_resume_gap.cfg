SPECIFICATION StreamsSpec
CONSTANTS
  Docs = {d1, d2}
  MaxTime = 3
  MaxDrops = 1
  MaxQueued = 2
  ServerMay = {"token"}
  Callers = {c1, c2}
SYMMETRY Symmetry
INVARIANTS
  InSyncMeansDelivered
CHECK_DEADLOCK FALSE
