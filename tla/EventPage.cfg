\* The lifecycle, read by a page that is polling.
SPECIFICATION TrackingSpec
CONSTANTS
  e1 = e1
  e2 = e2
  ann = ann
  None = None
  Missing = Missing
  Event = {e1, e2}
  Employee = {ann}
  EmployeeOf <- MCEmployeeOf
  MaxStarts = 2
  MaxPollAttempts = 2
  MaxRequests = 2
  MaxMoves = 3
CHECK_DEADLOCK FALSE
INVARIANTS
  TrackingTypeOK
  OneRunningPerEmployee
  EndInOrder
  AnswersAreConsistent
  ShowsRequestedEvent
  PollingAsShown
PROPERTIES
  ShownNeverGoesBack
  EventuallyShown
