SPECIFICATION Spec
CONSTANTS
  k1 = k1
  k2 = k2
  k3 = k3
  r1 = r1
  r2 = r2
  t1 = t1
  t2 = t2
  Files <- MCFiles
  Environments <- MCEnvironments
  CacheKeys = {k1, k2, k3}
  Ranges = {r1, r2}
  Threads = {t1, t2}
  MaxClock = 2
SYMMETRY Symmetry
INVARIANTS
  ConfigIsWhatWasSet
  NoTypoSurvives
  ReportedIsWired
PROPERTIES
  ServedInTime
  KeptWhileUseful
  ImplementsRangeCache
