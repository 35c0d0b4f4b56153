\* One daemon, a request it works on and a stop.
SPECIFICATION Spec
CONSTANTS
  Daemons = {d1}
  Starters = {s1}
  Stoppers = {c1}
  Requests = {r1}
  NoDaemon = NoDaemon
  MaxDeaths = 0
CHECK_DEADLOCK FALSE
INVARIANT
  DrainedOnStop
