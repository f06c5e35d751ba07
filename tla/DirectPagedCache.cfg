SPECIFICATION Spec
CONSTANTS
  Caches = {c1, c2}
  Files = {1, 2}
  Regions <- MCRegions
  pageCapacity = 1
  MaxRequests = 3
  MaxOutstanding = 2
  SizeMod = 8
INVARIANTS CacheConsistent
PROPERTIES NoDirtyPageLost RequestsEnd
