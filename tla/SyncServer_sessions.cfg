SPECIFICATION FairSpec
CONSTANTS
  a = a
  b = b
  d = d
  f = f
  g = g
  full = full
  partial = partial
  Records = {a, b, d}
  Pos <- MCPos
  Fields = {f, g}
  Clients = {partial}
  Projection <- MCProjectionPartial
  Limits = {1, 2}
  MaxVersion = 5
INVARIANTS NoHiddenChange AnchoredToFirstPage CaughtUp
PROPERTIES OncePerSession SessionEnds
