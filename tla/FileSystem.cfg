SPECIFICATION Spec
CONSTANTS
  FirstDataBlock = 10
  Requests = {"r", "w", "u"}
  Kind <- MCKind
  FileRegions <- MCRegions
  BlockSize = 4
  SizeMod = 64
  FirstBlock = 10
  MetaBlock = 0
  AddrsPerBlock = 2
  NoATime = FALSE
INVARIANTS TransfersAccounted
PROPERTIES ImplementsFileService
CHECK_DEADLOCK FALSE
