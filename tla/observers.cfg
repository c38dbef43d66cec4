SPECIFICATION ObserversSpec
CONSTANTS
  Uids = {alice, bob}
  None = None
  Kinds = {"sign_in", "reauth", "refresh", "update", "reload", "delete", "restore"}
  MaxCalls = 3
  MaxTokens = 3
  MaxFaults = 1
  Subscribers = {task}
INVARIANTS
  TypeOK
  SessionIsPersisted
  ListenersFollow
  OneLiveTimer
  TimersServeTheCurrentUser
  SubscribersSeeTheCache
CHECK_DEADLOCK FALSE
