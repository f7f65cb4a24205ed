\* A worker dies while it holds an event; nothing is evicted.
SPECIFICATION FairSystem
CONSTANTS
  e1 = e1
  e2 = e2
  ann = ann
  w1 = w1
  w2 = w2
  s1 = s1
  None = None
  Event <- OneEvent
  Employee = {ann}
  EmployeeOf <- MCEmployeeOf
  Worker = {w1}
  Sweeper = {s1}
  MaxAttempts = 2
  Answers <- AnyAnswer
  Overlap = FALSE
  MayExhaust <- OneEvent
  JobAttempts = 2
  MaxStalls = 1
  Eviction = FALSE
  FaultLimit <- OneCrash
CHECK_DEADLOCK FALSE
PROPERTY
  EventuallyEnds
