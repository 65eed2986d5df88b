SPECIFICATION FairSpec
CONSTANTS
  t1 = t1
  t2 = t2
  Threads = {t1, t2}
  MaxCalls = 2
  MaxSpawns = 3
\* Every thread may have made its calls.
CHECK_DEADLOCK FALSE
INVARIANTS
  OwnAnswer
  OneRoundTrip
  NoOrphan
PROPERTIES
  ScoreReturns
