SPECIFICATION Spec
CONSTANTS
    Streams = {s1, s2}
    Times = {1, 2}
    PageLimit = 2
    TotalCap = 3
    MaxStored = 3
INVARIANTS
    ExactMeansExact
CHECK_DEADLOCK FALSE
