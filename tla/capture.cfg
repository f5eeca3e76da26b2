SPECIFICATION FairSpec
CONSTANTS
  Callers = {"daemon"}
  Ports = {0, 1}
  Slots = {"s1", "s2"}
  Loaded = {1, 2}
  MaxEntries = 2
  BufSize = 2
  UintRange = 4
  Faults = {"devmem", "write", "readback"}
  Crashes = FALSE
  SleepCovers = TRUE
  ClientWaits = TRUE
INVARIANTS FileHoldsCapture EngineConfined
PROPERTIES StopEndsCapture StartReturns
