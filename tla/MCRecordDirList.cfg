\* One Save and one List at the same time, nothing failing in the directory.
SPECIFICATION Spec
CONSTANTS
  Ids = {i1, i2}
  Values = {v1, v2}
  Valid = {v1, v2}
  Savers = {s1}
  Readers = {r1}
  Files = {f1, f2, f3}
  MaxSaves = 1
  MaxCrashes = 0
  NoValue = NoValue
  NoFile = NoFile
  Torn = Torn
  Broken = Broken
INVARIANT
  ListNeverMeetsAWrite
