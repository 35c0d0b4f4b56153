\* One worker, so that the overall deadline finds capabilities still waiting.
SPECIFICATION Spec
CONSTANTS
  MaxPlans = 2
  Concurrency = 1
  Limits = {0}
  x = x
  y = y
  z = z
  Identities = {x, y, z}
  Own = {x, y}
  CapOf <- MCCapOf
  Bound <- MCBound
CHECK_DEADLOCK FALSE
INVARIANT
  OverallTimeoutFails
