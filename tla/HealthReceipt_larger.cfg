SPECIFICATION Spec
CONSTANTS
    N = 3
    PageLimit = 2
    DomLimit = 2
    DomBudget = 3
    MaxTroubled = 1
    MaxChanges = 1
    MaxFaults = 1
CHECK_DEADLOCK FALSE
INVARIANTS
    TypeOK
    PassIsEarned
    AgreeMeansRendered
    ReadMeansSettled
    WalkIsBounded
