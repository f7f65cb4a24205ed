\* Timely calls, one fault of each kind.
SPECIFICATION SystemSpec
CONSTANTS
  e1 = e1
  e2 = e2
  ann = ann
  w1 = w1
  w2 = w2
  s1 = s1
  None = None
  Event <- TwoEvents
  Employee = {ann}
  EmployeeOf <- MCEmployeeOf
  Worker = {w1, w2}
  Sweeper = {s1}
  MaxAttempts = 2
  Answers <- SucceedOrRetry
  Overlap = FALSE
  MayExhaust <- TwoEvents
  JobAttempts = 2
  MaxStalls = 1
  Eviction = FALSE
  FaultLimit <- OneOfEach
SYMMETRY Workers
CHECK_DEADLOCK FALSE
INVARIANTS
  SystemTypeOK
  OneHandlerPerEvent
  SerialCallsPerEmployee
  BudgetRespected
PROPERTIES
  BackstopSparesRunning
  FinalizesOwnAttempt
  RecoversOnlyStale
