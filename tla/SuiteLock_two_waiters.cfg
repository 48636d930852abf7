SPECIFICATION LockSpec
CONSTANTS
  Wrappers = {w1, w2, w3}
  CI = {}
  CrashPoints = {"spawn"}
INVARIANTS OneGateAtATime
