SPECIFICATION Spec
CONSTANTS
  Ids = {i1, i2, i3, i4}
  Signers = {i1, i2}
  Requests = {q1, q2, q3, q4}
  LastYear = 1
  CandidateYears = 1
  RATE_LIMIT_MAX = 2
  MaxWindows = 2
  MaxFaults = 1
SYMMETRY Symmetry
CONSTRAINT Bound
INVARIANTS NothingDropped DoneMeansGone LogCounts MailBounded
CHECK_DEADLOCK FALSE
