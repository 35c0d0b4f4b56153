\* One acquisition whose program leaves a child that never ends.
SPECIFICATION RunFair
CONSTANTS
  Probers = {p1}
  Files = {in, out}
  in = in
  out = out
  NoFile = NoFile
  BadName = BadName
  Process = Process
  NoOne = NoOne
  MaxFaults = 0
  Most = 2
  Jobs <- MCJobs
CHECK_DEADLOCK FALSE
PROPERTY
  RuntimeBounded
