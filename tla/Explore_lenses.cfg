SPECIFICATION DispatchSpec
CONSTANTS
    Horizon = 5
    Limit = 2
    UpcomingLimit = 2
    MaxLoads = 4
    Streams = {s1, s2}
    Times = {1, 2}
    PageLimit = 2
    TotalCap = 3
    MaxStored = 3
INVARIANTS
    FeedIsPrefix
    UpcomingIsPrefix
    MissingIsDisclosed
PROPERTIES
    LoadMoreOnlyAdds
CHECK_DEADLOCK FALSE
