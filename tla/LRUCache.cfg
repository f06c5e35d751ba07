SPECIFICATION LRUSpec
CONSTANTS
  Keys = {k1, k2, k3, k4}
  Values = {v1}
  maxEntries = 3
  SizeMod = 4
INVARIANTS ListMatchesMap
PROPERTIES ImplementsRecencyCache
