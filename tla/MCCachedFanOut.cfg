SPECIFICATION PairSpec
CONSTANTS
  c1 = c1
  c2 = c2
  d1 = d1
  d2 = d2
  n1 = n1
  p1 = p1
  p2 = p2
  Digests <- MCDigests
  Prefixes <- MCPrefixes
  AlgorithmOf <- MCAlgorithmOf
  PrefixOf <- MCPrefixOf
  Corpus <- MCCorpus
  Requests <- MCRequests
  OnError <- PairOnError
  MaxConcurrency = 2
  Calls = {c1, c2}
  Enabled = {"weakpass", "denylist"}
  Supported <- WeakpassBoth
  UpstreamOutcomes = {"answered", "failed"}
\* Every call may have returned or been refused, and a hung fetch never ends.
CHECK_DEADLOCK FALSE
INVARIANTS
  NoFalseAllClear
  CacheIsTruthful
