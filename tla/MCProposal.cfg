\* Three capabilities, two workers, with and without a limit of candidates.
SPECIFICATION FairSpec
CONSTANTS
  MaxPlans = 3
  Concurrency = 2
  Limits = {0, 2}
  x = x
  y = y
  z = z
  Identities = {x, y, z}
  Own = {x, y}
  CapOf <- MCCapOf
  Bound <- MCBound
CHECK_DEADLOCK FALSE
INVARIANTS
  ReturnsWantedInOrder
  ProbePlansMatch
  DiagnosticsMatchProgress
PROPERTY
  Returns
