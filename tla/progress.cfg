SPECIFICATION ProgressSpec
CONSTANTS
  Tasks = {w1, w2}
  None = None
  Torn = Torn
  Ops = {"get_id", "get_token", "delete"}
  MaxCalls = 2
  MaxCrashes = 1
  MaxRevoked = 1
  Service = c
  Version = v
  Worker = w
  MaxRegistry = 3
INVARIANTS
  AppsKeepTheirServices
  InstallationIsKept
  OkMeansApplied
PROPERTIES
  PlatformCallsReturn
  TransactionEnds
  Converges
CHECK_DEADLOCK FALSE
