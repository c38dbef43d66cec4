SPECIFICATION FirestoreSpec
CONSTANTS
  Parts = {"transaction"}
  Clients = {c1}
  Docs = {d1}
  MaxAttempts = 2
  MaxStaged = 1
  MaxInterference = 1
  ReliableBackend = FALSE
  SequentialClosure = TRUE
  Writers = {w1}
  MaxTransactions = 1
INVARIANTS
  AppliedAtMostOnce
CHECK_DEADLOCK FALSE
