\* Every check on every request: line ends, columns, documents, archives.
CONSTANTS
  NoValue = NoValue
  MaxInt = 30
  Specs <- MCSpecs
  Requests <- MCRequests
  Values <- MCValues
  Matching <- MCMatching
  Encoded <- MCEncoded
  Digest <- MCDigest

SPECIFICATION Spec
CHECK_DEADLOCK FALSE

INVARIANTS
  VerdictExact
  SilenceExplained
