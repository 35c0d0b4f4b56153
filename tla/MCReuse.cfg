\* Two calls, a promotion, one tick of the clock or two.
SPECIFICATION FairSpec
CONSTANTS
  Calls = {1, 2}
  Promoters = {p1}
  Capabilities = {1, 2}
  Bindings = {1, 2, 3}
  Names = {"in", "opt", "target"}
  TopK = 2
  Instants = 2
  NoCall = NoCall
  Asks <- MCAsks
  CapOf <- MCCapOf
  ProviderOf <- MCProviderOf
  Required <- MCRequired
  Seed <- MCSeed
  Promotable <- MCPromotable
CHECK_DEADLOCK FALSE
INVARIANTS
  ExecutedAsAsked
  SelectionHolds
  RunsAccounted
  VerifiedOwnArtifact
PROPERTY
  Returns
