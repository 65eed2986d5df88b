SPECIFICATION Spec
CONSTANTS
  c1 = c1
  c2 = c2
  d1 = d1
  d2 = d2
  n1 = n1
  p1 = p1
  p2 = p2
  Digests <- MCDigests
  Prefixes <- MCPrefixes
  AlgorithmOf <- MCAlgorithmOf
  PrefixOf <- MCPrefixOf
  Corpus <- MCCorpus
  Supported <- MCSupported
  OnError <- MCOnError
  Enabled = {"hibp", "weakpass", "denylist"}
  Calls = {c1, c2}
  Requests <- MCRequests
  Limited = {"policy", "batch"}
  Capacity <- MCCapacity
  BatchEnabled = TRUE
  StrengthEnabled = TRUE
  PlaintextGate = TRUE
  MaxRefills = 1
\* Every call has been answered, and nothing is left to expire or refill.
CHECK_DEADLOCK FALSE
SYMMETRY CallSymmetry
INVARIANTS
  SafeIsEarned
  HonestResults
  HashStaysHome
  PaidFor
  RefusedIsFree
  InteractiveAllowance
