SPECIFICATION AccessSpec
CONSTANTS
  Directories <- MCDirectories
  Files <- MCFiles
  FileSize <- MCFileSize
  MetaDataSize = 5
  DirectorySize = 6
  DefaultSize = 16
  BlockSize = 4
  SizeMod = 64
  FirstDataBlock = 10
  HandleSpan = 100
  MaxServers = 3
  StripSize = 4
  PageSize = 2
  BufferSize = 3
  Client = {"writer", "reader"}
  Traces <- MCTraces
INVARIANT AccessReachesItsBytes
CHECK_DEADLOCK FALSE
