SPECIFICATION FirestoreSpec
CONSTANTS
  Parts = {"transaction", "writes"}
  Clients = {c1, c2}
  Docs = {d1, d2}
  MaxAttempts = 2
  MaxStaged = 2
  MaxInterference = 1
  ReliableBackend = TRUE
  SequentialClosure = TRUE
  Writers = {w1, w2}
  MaxTransactions = 1
SYMMETRY Symmetry
INVARIANTS
  TypeOK
  ReadSetIsSent
  AppliedAtMostOnce
  ErrorMeansNoEffect
  WritesMeanTheirData
PROPERTIES
  CommitValidatesReads
CHECK_DEADLOCK FALSE
