SPECIFICATION Spec
CONSTANTS
  w1 = w1
  w2 = w2
  t1 = t1
  t2 = t2
  hibp = hibp
  weakpass = weakpass
  Workers = {w1, w2}
  Threads = {t1, t2}
  WorkerOf <- MCWorkerOf
  Names = {hibp, weakpass}
  Judged = {hibp}
  Past <- MCPast
  Scraped = {w1}
  MaxOutcomes = 4
  MaxFaults = 0
PROPERTIES
  LastOkKept
