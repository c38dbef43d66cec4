SPECIFICATION DatabaseSpec
CONSTANTS
  MaxIds = 2
  Specs = {p}
  MaxConns = 2
  MaxFaults = 1
  a = a
  b = b
  MaxListeners = 2
  MaxWrites = 2
  Clients = {c1, c2}
  Limit = 3
  MaxAttempts = 3
  MaxValue = 3
  NullIs404 = FALSE
  MaxNumber = 2
  MaxOps = 3
  Bounds = {u, v}
  Limits = {0, 1}
  MaxConstraints = 3
  Pushers = {t1, t2}
  Digits = 3
  Base = 3
  MaxTime = 2
INVARIANTS
  AttachedListenersAreServed
  ViewsAreExact
  MirrorMatchesBackend
  QueryIsItsConstraints
  PushIdsIncrease
  QueriesMeanTheirResult
PROPERTIES
  ImplementsRegister
CHECK_DEADLOCK FALSE
