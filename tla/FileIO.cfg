SPECIFICATION Spec
CONSTANTS
  NumServers = 2
  NumBuffers = 2
  BufferSize = 2
  Sizes = {0, 1, 7}
  WriteAt = 3
  OldSizes = {0, 5}
INVARIANTS NoUseAfterDelete BytesConserved
PROPERTIES RequestsCleanedUp ImplementsTransfer
