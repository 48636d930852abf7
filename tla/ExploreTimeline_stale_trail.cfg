SPECIFICATION TimelineSpec
CONSTANTS
    Horizon = 4
    Limit = 2
    UpcomingLimit = 1
    MaxLoads = 3
INVARIANTS
    RevealedStaysVisible
CHECK_DEADLOCK FALSE
