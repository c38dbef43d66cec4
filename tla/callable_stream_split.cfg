SPECIFICATION StreamsSpec
CONSTANTS
  Docs = {d1, d2}
  MaxTime = 3
  MaxDrops = 1
  MaxQueued = 3
  ServerMay = {"reject", "unavailable"}
  Callers = {c1, c2}
SYMMETRY Symmetry
INVARIANTS
  MessagesArriveAsSent
CHECK_DEADLOCK FALSE
