\* Two acquisitions, two files, one disk error or death of the daemon.
SPECIFICATION FairSpec
CONSTANTS
  Probers = {p1, p2}
  Files = {in, out}
  in = in
  out = out
  NoFile = NoFile
  BadName = BadName
  Process = Process
  NoOne = NoOne
  MaxFaults = 1
  Most = 2
  Jobs <- MCJobs
CHECK_DEADLOCK FALSE
INVARIANTS
  ForeignOnlyByOverlap
  LossOnlyByOverlap
  WorkdirsGone
PROPERTY
  Finishes
