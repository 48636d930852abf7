SPECIFICATION FairSpec
CONSTANTS
  None = None
  Captures = {a}
  Pids = {p}
  MaxChunks = 4
INVARIANTS NothingDiscarded
PROPERTIES EverySettles
CHECK_DEADLOCK FALSE
