SPECIFICATION Spec
CONSTANTS
  Callers = {"daemon"}
  Ports = {0, 1, 2, 3}
  Slots = {"s1"}
  Loaded = {1}
  MaxEntries = 1
  BufSize = 1
  UintRange = 4
  Faults = {}
  Crashes = FALSE
  SleepCovers = TRUE
  ClientWaits = TRUE
INVARIANTS EngineConfined
