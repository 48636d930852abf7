SPECIFICATION Spec
CONSTANTS
  None = None
  Captures = {a, b}
  Pids = {p}
  MaxChunks = 1
INVARIANTS NoOrphans
PROPERTIES SignalsOwnGroup NeverSignalledAgain
SYMMETRY CaptureSymmetry
CHECK_DEADLOCK FALSE
