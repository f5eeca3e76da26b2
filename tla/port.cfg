SPECIFICATION FairSpec
CONSTANTS
  Procs <- MCProcs
  Requests <- MCRequests
  NPorts = 2
  Limit = 1
  MaxCount = 1
  Crashes = {"reset"}
INVARIANTS TypeOK NoStrayReset
PROPERTIES ImplementsSettings ResetClears CommandReturns
