\* A command leaves a child that never ends: its acquisition is not answered.
SPECIFICATION RunFair
CONSTANTS
  Acqs = {a1}
  b0 = b0
  b1 = b1
  b2 = b2
  b3 = b3
  b4 = b4
  Bindings = {b0, b1, b2, b3, b4}
  CapOf <- MCCapOf
  Seed = {b0}
  Unpromotable = {b4}
  ByContract = {b2}
  Proposals <- MCProposals
  StoreFaults = FALSE
CHECK_DEADLOCK FALSE
PROPERTY
  Settles
