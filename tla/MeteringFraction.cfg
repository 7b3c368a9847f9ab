SPECIFICATION Spec
CONSTANTS
    Reqs = {r1, r2}
    Limits = {2}
    Costs = {1}
    DayLength = 2
    TimeLimit = 2
    IdleGap = 2
    Attempts = 1
    Ahead = FALSE
    DbOffset <- West
    MaxClock = 2
    MaxUsed = 4
INVARIANT EveryRequestAnswered
CHECK_DEADLOCK FALSE
