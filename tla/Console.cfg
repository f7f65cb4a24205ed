\* One page at a time, a service that changes beneath it.
SPECIFICATION ConsoleSpec
CONSTANTS
  MaxCalls = 2
  MaxRows = 3
  MaxMoves = 3
  PageSize = 1
  DashboardLimit = 2
  MetricsLimit = 3
  Filter <- MCFilter
  PresetEmployee = {"X", "x"}
CHECK_DEADLOCK FALSE
INVARIANTS
  ConsoleTypeOK
  OnlyDatesRefused
  OneEventPerIntent
  CardsWithinTotal
PROPERTIES
  ListsSettle
  HealthSettles
