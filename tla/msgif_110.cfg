SPECIFICATION Spec
CONSTANTS
  Clients = {"tester"}
  Messages <- MC110
  MaxSent <- MCMaxSent
  FdLimit = 4
  AcceptFails = FALSE
INVARIANTS NoReplyTo110
