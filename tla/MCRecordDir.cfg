\* Two Saves and a reader over two records; the daemon may die once.
SPECIFICATION Spec
CONSTANTS
  Ids = {i1, i2}
  Values = {v1, v2, bad}
  Valid = {v1, v2}
  Savers = {s1, s2}
  Readers = {r1}
  Files = {f1, f2, f3}
  MaxSaves = 2
  MaxCrashes = 1
  NoValue = NoValue
  NoFile = NoFile
  Torn = Torn
  Broken = Broken
SYMMETRY Symmetry
INVARIANTS
  PublishedWhole
  NoLeakWithoutCrash
  ListExactWithoutTemps
PROPERTY
  ImplementsRecordStore
