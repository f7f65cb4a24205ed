\* Faults and slow calls, while later jobs evict finished ones.
SPECIFICATION FairSystem
CONSTANTS
  e1 = e1
  e2 = e2
  ann = ann
  w1 = w1
  w2 = w2
  s1 = s1
  None = None
  Event <- OneEvent
  Employee = {ann}
  EmployeeOf <- MCEmployeeOf
  Worker = {w1}
  Sweeper = {s1}
  MaxAttempts = 2
  Answers <- AnyAnswer
  Overlap = TRUE
  MayExhaust <- OneEvent
  JobAttempts = 2
  MaxStalls = 1
  Eviction = TRUE
  FaultLimit <- OneOfEach
CHECK_DEADLOCK FALSE
PROPERTIES
  EventuallyEnds
