\* Two events of one employee, calls may outlast the staleness threshold.
SPECIFICATION Spec
CONSTANTS
  e1 = e1
  e2 = e2
  ann = ann
  w1 = w1
  w2 = w2
  s1 = s1
  s2 = s2
  None = None
  Event <- MCEvents2
  Employee = {ann}
  EmployeeOf <- MCEmployeeOf
  Worker = {w1, w2}
  Sweeper = {s1}
  MaxAttempts = 2
  Answers <- AnyThenRefused
  Overlap = TRUE
  MayExhaust <- MCEvents1
SYMMETRY Workers
INVARIANTS
  TypeOK
  OrderedClaim
  AuditTrail
  OneOutcome
  DistinctAttempts
  OvershootBounded
PROPERTIES
  TerminalFrozen
  ImplementsLifecycle
