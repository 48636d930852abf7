SPECIFICATION Spec
CONSTANTS
  a = a
  b = b
  d = d
  f = f
  g = g
  full = full
  partial = partial
  Records = {a, b, d}
  Pos <- MCPos
  Fields = {f, g}
  Clients = {full}
  Projection <- MCProjectionFull
  Limits = {1}
  MaxVersion = 5
INVARIANTS NoGap
