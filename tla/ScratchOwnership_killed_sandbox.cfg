SPECIFICATION Spec
CONSTANTS
  Roots = {r1}
  Passes = {p1}
  Foreign = {}
  MaxFaults = 3
  MaxReboots = 1
INVARIANT NoLiveRemoval
CHECK_DEADLOCK FALSE
