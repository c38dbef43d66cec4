SPECIFICATION ProductsSpec
CONSTANTS
  Callers = {c1, c2}
  Controllers = {u1, u2}
  Sizes = {1, 3}
  MaxChunk = 2
  MaxAttempts = 2
  MaxControls = 4
SYMMETRY Symmetry
INVARIANTS
  UploadsReportTheTruth
  RetriesAreSafe
  OneRegistration
  TelemetryIsSentOnce
  ValuesSurvive
  
CHECK_DEADLOCK FALSE
