CONSTANTS
  Contracts <- MCContracts
  Keyless = {}
  PageSize = 1
  MaxPages = 2
  Expired = Expired
  w = w
  Collector = w
  Writers = {w}
  Paths <- MCPaths
  MaxInodes = 5
  MaxCrashes = 2
SPECIFICATION AwardsSpec
INVARIANTS WindowIsStored NothingSeenIsLost
INVARIANTS NoTruncatedBlob RecordedIsReadable
PROPERTIES NeverOverwritten
CHECK_DEADLOCK FALSE
