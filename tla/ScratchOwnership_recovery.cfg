SPECIFICATION FairSpec
CONSTANTS
  Roots = {r1}
  Passes = {p1, p2, p3}
  Foreign = {p3}
  MaxFaults = 2
  MaxReboots = 1
INVARIANTS LiveRemovalOnlyMisread CapabilityKept
PROPERTIES NoTheft StaleRootsRecovered
CHECK_DEADLOCK FALSE
