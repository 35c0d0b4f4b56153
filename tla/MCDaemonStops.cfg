\* Two stops race each other and a request over one daemon, which may be killed.
SPECIFICATION FairSpec
CONSTANTS
  Daemons = {d1}
  Starters = {s1}
  Stoppers = {c1, c2}
  Requests = {r1}
  NoDaemon = NoDaemon
  MaxDeaths = 1
CHECK_DEADLOCK FALSE
PROPERTY
  StopTakesEffect
