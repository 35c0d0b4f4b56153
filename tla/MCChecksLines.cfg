\* The counterexample to CountsLines: a source whose last line has no line feed.
CONSTANTS
  NoValue = NoValue
  MaxInt = 30
  Specs <- MCSpecs
  Requests <- MCRequests
  Values <- MCValues
  Matching <- MCMatching
  Encoded <- MCEncoded
  Digest <- MCDigest

SPECIFICATION Spec
CHECK_DEADLOCK FALSE

INVARIANTS
  CountsLines
