SPECIFICATION Spec
CONSTANTS
    r1 = r1
    r2 = r2
    r3 = r3
    Requests = {r1, r2, r3}
    Costs = {1, 2}
    Sizes = {0, 1, 2}
    OldFiles <- MCOldFiles
    Windows <- MCWindows
    Period <- MCPeriod
    Keep = 2
    Cap = 2
    MaxClock = 4
INVARIANTS
    NothingInvented
    OnlyOldForgotten
    MissedOnlyWhenOvertaken
    NoSampleOutrunsTheWindow
CHECK_DEADLOCK FALSE
