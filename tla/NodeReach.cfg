SPECIFICATION FairSpec
CONSTANTS
  r1 = r1
  r2 = r2
  r3 = r3
  a = a
  b = b
  c = c
  Request = {r1, r2, r3}
  Key = {a, b, c}
  Other = {n}
  Renamed = {b, n}
  Asks <- MCAsks
  Limit = 1
  WaiterLimit = 1
  CacheMax = 1
  MaxRenames = 1
INVARIANTS HiddenStaysHidden ScansBounded
PROPERTY EveryRequestEnds
CHECK_DEADLOCK FALSE
