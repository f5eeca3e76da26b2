SPECIFICATION FairDriverSpec
CONSTANTS
  Callers <- MCCallers
  Asks <- MCAsks
INVARIANTS DriverTypeOK ReadsItsRegister WritesOnlyAsked
PROPERTIES OopsOnlyKnown CallReturns
