SPECIFICATION Spec
CONSTANTS
  Clients = {c1, c2}
  Servers = {1, 2}
  Names = {"d", "e", "f", "x", "y"}
  Directories <- MCDirectories
  Files <- MCFiles
  Unknown <- MCUnknown
  MetaServer <- MCMetaServer
  DataServers <- MCDataServers
  FirstHandle <- MCFirstHandle
  MaxNames = 2
  MaxAttrs = 1
  MaxOperations = 2
INVARIANTS ServersConsistent
PROPERTIES AnswersKeepPromise OperationsEnd
CHECK_DEADLOCK FALSE
