SPECIFICATION Spec
CONSTANTS
  t1 = t1
  t2 = t2
  w1 = w1
  Workers = {w1}
  Threads = {t1, t2}
  WorkerOf <- MCWorkerOf
  Namespaces = {"batch"}
  Keys = {"batch:client"}
  NamespaceOf <- MCNamespaceOf
  Period <- OnePeriod
  Rate <- OneRate
  Costs <- OneCosts
  IdlePeriods = 2
  EvictionInterval = 1
  EvictAbove = 1
  MaxSteps = 0
  MaxLag = 1
  MaxClock = 3
SYMMETRY ThreadSymmetry
INVARIANTS
  WindowAllowance
PROPERTIES
  RefusalIsFree
  RestedIsAllowed
