SPECIFICATION Spec
CONSTANTS
    N = 2
    PageLimit = 1
    DomLimit = 2
    DomBudget = 3
    MaxTroubled = 2
    MaxChanges = 1
    MaxFaults = 1
CHECK_DEADLOCK FALSE
INVARIANTS
    PassIsEarned
    AgreeMeansRendered
    ReadMeansSettled
PROPERTY AuditEnds
