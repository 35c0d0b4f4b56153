\* The same acquisitions over a store that never refuses a write.
SPECIFICATION Spec
CONSTANTS
  Acqs = {a1, a2}
  b0 = b0
  b1 = b1
  b2 = b2
  b3 = b3
  b4 = b4
  Bindings = {b0, b1, b2, b3, b4}
  CapOf <- MCCapOf
  Seed = {b0}
  Unpromotable = {b4}
  ByContract = {b2}
  Proposals <- MCProposals
  StoreFaults = FALSE
CHECK_DEADLOCK FALSE
INVARIANT
  NoTraceLeftRunning
