\* Two starts and a stop over one home, one daemon killed.
SPECIFICATION FairSpec
CONSTANTS
  Daemons = {d1, d2}
  Starters = {s1, s2}
  Stoppers = {c1}
  Requests = {}
  NoDaemon = NoDaemon
  MaxDeaths = 1
CHECK_DEADLOCK FALSE
INVARIANTS
  NoLeakedChild
PROPERTIES
  RecordLostOnlyToAnother
  StartsReturn
  StopTakesEffect
