SPECIFICATION Spec
CONSTANTS
  Reports <- MCReports
  Limit = 3
  Walks <- MCWalks
  Bodies <- MCBodies
  Policies <- MCPolicies
  DateOf <- MCDateOf
INVARIANTS
  CalendarIsTrue
  CyclesTile
  NextChangeFound
  HistoryIsTruth
  PeriodsMatch
CHECK_DEADLOCK FALSE
