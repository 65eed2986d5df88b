SPECIFICATION Spec
CONSTANTS
  w1 = w1
  w2 = w2
  old = old
  new = new
  plain = plain
  wide = wide
  Workers = {w1, w2}
  Dictionaries = {old, new}
  Rules = {plain}
  Refused = {}
INVARIANTS
  CacheIsTrue
