SPECIFICATION ServicesSpec
CONSTANTS
  Tasks = {t1, t2}
  Keys = {"k1", "k2", "k3"}
  Defaults = {"k2", "k3"}
  Params <- TwoTemplates
  SignalKeys = {"s1", "s2"}
  MaxSignals = 1
  MaxTime = 1
  MaxCalls = 2
  MaxFaults = 1
  Callers = {c1, c2}
  Loops = {l1, l2}
  Refreshers = 2
  Ttl = 4
  Offset = 1
  MinWait = 1
  MaxWait = 2
  OneDay = 3
SYMMETRY Symmetry
INVARIANTS
  AppCheckIsSound
  EtagFollowsConfig
  
  SharedListsAreKept
  AnswersWereTrue
CHECK_DEADLOCK FALSE
