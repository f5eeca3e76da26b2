SPECIFICATION Spec
CONSTANTS
  NPorts = 2
  NStreams = 2
  WordSize = 1
  Limit = 2
  Contents <- MCContents
  Parts <- MCParts
  Requests <- MCRequests
INVARIANTS NotClearedIsTrue
