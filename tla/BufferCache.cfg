SPECIFICATION Spec
CONSTANTS
  Requests = {r1, r2, r3, r4}
  Blocks = {b1, b2, b3, m1}
  ThroughBlocks = {m1}
  maxEntries = 3
  dirtyLimit = 1
  SizeMod = 8
INVARIANTS OneReadPerPendingBlock NoDirtyBlockLost DirtyBounded
PROPERTIES ImplementsDevice
