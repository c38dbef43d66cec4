SPECIFICATION FirestoreSpec
CONSTANTS
  Parts = {"writes"}
  Clients = {c1}
  Docs = {d1}
  MaxAttempts = 1
  MaxStaged = 1
  MaxInterference = 1
  ReliableBackend = TRUE
  SequentialClosure = TRUE
  Writers = {w1, w2}
  MaxTransactions = 2
SYMMETRY Symmetry
INVARIANTS
  AppliesToWhatWasRead
CHECK_DEADLOCK FALSE
