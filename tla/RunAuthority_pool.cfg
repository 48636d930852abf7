SPECIFICATION FairSpec
CONSTANTS
  a = a
  b = b
  c = c
  d = d
  e = e
  f = f
  None = None
  Runs = {a, b, c, d, e, f}
  Pos <- MCPos
  Prepared = {b, e}
  Concurrency = 3
INVARIANTS SealedLeftNothing PreparedRunsAlone NeverStranded GreenIsComplete
PROPERTIES NoStartOverLeftovers PoolEnds
CHECK_DEADLOCK FALSE
