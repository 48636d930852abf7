SPECIFICATION Spec
CONSTANTS
  Names <- MCNames
  Cost <- MCCost
  Passes = {p1, p2}
  maxInspectedEntries = 2
  maxRemovalAttempts = 1
  maxStateTransitions = 2
  MaxArrivals = 1
  MaxFaults = 1
PROPERTY StaleEntriesRemoved
