CONSTANTS
  Contracts <- MCContracts
  Keyless = {1}
  PageSize = 2
  MaxPages = 2
  Expired = Expired
  w = w
  Collector = w
  Writers = {w}
  Paths <- MCPaths
  MaxInodes = 8
  MaxCrashes = 1
SPECIFICATION AwardsSpec
CHECK_DEADLOCK FALSE
INVARIANT OneRowPerAward
