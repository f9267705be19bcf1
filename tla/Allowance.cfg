SPECIFICATION Spec
CONSTANTS
  Windows <- MCWindows
  Period <- MCPeriod
  CycleStart <- MCCycleStart
  Quotas <- MCQuotas
  Monthlies = {60, 30}
  FirstRates = {3}
  TrueRate = 6
  Grant = 60
  Total <- MCTotal
  ExhaustAt = 20
  MarkFor = 1
  BackOff <- MCBackOff
  RefreshEvery = 4
  MaxClock = 5
  MaxSent = 3
  MaxUnseen = 1
  MaxCalls <- MCMaxCalls
INVARIANTS
  LevelIsProviders
  TotalsRight
  WindowsNeverLow
  DrySeen
CHECK_DEADLOCK FALSE
