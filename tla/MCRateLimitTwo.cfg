SPECIFICATION Spec
CONSTANTS
  t1 = t1
  t2 = t2
  w1 = w1
  Workers = {w1}
  Threads = {t1}
  WorkerOf <- MCWorkerOf
  Namespaces = {"policy", "batch"}
  Keys = {"policy:client", "batch:client"}
  NamespaceOf <- MCNamespaceOf
  Period <- TwoPeriod
  Rate <- TwoRate
  Costs <- TwoCosts
  IdlePeriods = 1
  EvictionInterval = 1
  EvictAbove = 1
  MaxSteps = 2
  MaxLag = 0
  MaxClock = 2
INVARIANTS
  WindowAllowance
