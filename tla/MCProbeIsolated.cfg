\* Two acquisitions of one daemon, nothing fails.
SPECIFICATION FairSpec
CONSTANTS
  Probers = {p1, p2}
  Files = {in, out}
  in = in
  out = out
  NoFile = NoFile
  BadName = BadName
  Process = Process
  NoOne = NoOne
  MaxFaults = 0
  Most = 2
  Jobs <- MCJobs
CHECK_DEADLOCK FALSE
INVARIANT
  IsolatedWorkdir
