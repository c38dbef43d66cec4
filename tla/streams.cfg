SPECIFICATION StreamsSpec
CONSTANTS
  Docs = {d1, d2}
  MaxTime = 3
  MaxDrops = 1
  MaxQueued = 2
  ServerMay = {"token", "moveOut", "readd", "lateReset", "earlyFilter", "reject", "unavailable"}
  Callers = {c1, c2}
SYMMETRY Symmetry
INVARIANTS
  SnapshotsAreExact
  StreamsDeliverTheBody
  AiServicesAreTheirs
CHECK_DEADLOCK FALSE
