SPECIFICATION Spec
CONSTANTS
  s1 = s1
  s2 = s2
  f1 = f1
  f2 = f2
  v1 = v1
  None = None
  Streams = {s1, s2}
  Fields = {f1, f2}
  Declared <- MCDeclared
  Views = {v1}
  ViewStream <- MCViewStream
  InitialViews <- MCInitialViews
  Requests <- MCRequests
  GrantIds = {g1, g2}
  AccessTokens = {t1, t2, t3}
  RefreshTokens = {r1, r2, r3}
  Handles = {h1}
SYMMETRY Fresh
INVARIANTS ReuseEndsGrant ExchangedAtMostOnce ApprovalOnlyWidens
PROPERTIES KeepsConsent
