\* Enqueues are lost, workers do not fail, nothing is evicted.
SPECIFICATION FairSystem
CONSTANTS
  e1 = e1
  e2 = e2
  ann = ann
  w1 = w1
  w2 = w2
  s1 = s1
  None = None
  Event <- TwoEvents
  Employee = {ann}
  EmployeeOf <- MCEmployeeOf
  Worker = {w1}
  Sweeper = {s1}
  MaxAttempts = 2
  Answers <- AnyAnswer
  Overlap = FALSE
  MayExhaust <- TwoEvents
  JobAttempts = 2
  MaxStalls = 1
  Eviction = FALSE
  FaultLimit <- LostEnqueues
CHECK_DEADLOCK FALSE
PROPERTIES
  EventuallyEnds
