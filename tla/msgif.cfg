SPECIFICATION FairSpec
CONSTANTS
  Clients = {"tester", "viewer"}
  Messages <- MCMessages
  MaxSent <- MCMaxSent
  FdLimit = 3
  AcceptFails = TRUE
INVARIANTS TypeOK RepliesPair ResultsTell
PROPERTIES OnlyResetKills ListensAgain
