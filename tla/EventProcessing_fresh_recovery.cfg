\* Two passes of the sweep at the same time; calls are timely.
SPECIFICATION Spec
CONSTANTS
  e1 = e1
  e2 = e2
  ann = ann
  w1 = w1
  w2 = w2
  s1 = s1
  s2 = s2
  None = None
  Event <- MCEvents1
  Employee = {ann}
  EmployeeOf <- MCEmployeeOf
  Worker = {w1, w2}
  Sweeper = {s1, s2}
  MaxAttempts = 2
  Answers <- AnyAnswer
  Overlap = FALSE
  MayExhaust = {}
SYMMETRY WorkersAndSweepers
PROPERTY
  RecoversOnlyStale
