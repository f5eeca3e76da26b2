SPECIFICATION FairSpec
CONSTANTS
  NPorts = 2
  NStreams = 2
  WordSize = 1
  Limit = 2
  Contents <- MCContents
  Parts <- MCParts
  Requests <- MCRequests
INVARIANTS TypeOK StreamAsReplied RunsAsReplied
PROPERTIES OnlyProgrammedRun RequestReturns
