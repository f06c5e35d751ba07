SPECIFICATION AccessSpec
CONSTANTS
  Directories <- MCDirectories
  Files <- MCFiles
  FileSize <- MCFileSize
  MetaDataSize = 5
  DirectorySize = 6
  DefaultSize = 16
  BlockSize = 4
  SizeMod = 64
  FirstDataBlock = 10
  HandleSpan = 100
  MaxServers = 3
  StripSize = 4
  PageSize = 2
  BufferSize = 8
  Client = {"writer", "reader"}
  Traces <- MCTraces
INVARIANTS HandlesLeadToObjects BlocksDisjoint BlocksHoldRegions
  AccessReachesItsBytes ReadsFindWhatWasWritten BytesInOwnBlocks PagesKeepTheirBytes
CHECK_DEADLOCK FALSE
