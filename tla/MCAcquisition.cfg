\* Two acquisitions over a catalog that holds b0, the store failing at will.
SPECIFICATION FairSpec
CONSTANTS
  Acqs = {a1, a2}
  b0 = b0
  b1 = b1
  b2 = b2
  b3 = b3
  b4 = b4
  Bindings = {b0, b1, b2, b3, b4}
  CapOf <- MCCapOf
  Seed = {b0}
  Unpromotable = {b4}
  ByContract = {b2}
  Proposals <- MCProposals
  StoreFaults = TRUE
CHECK_DEADLOCK FALSE
INVARIANTS
  PromotedOnlyVerified
  TraceAccounts
  CanceledStaysCanceled
  ReplyTellsTrace
  SeedSurvives
  LostOnlyToAnother
PROPERTY
  Settles
