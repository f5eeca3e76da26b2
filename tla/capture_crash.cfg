SPECIFICATION Spec
CONSTANTS
  Callers = {"daemon"}
  Ports = {0, 1}
  Slots = {"s1", "s2"}
  Loaded = {1, 2}
  MaxEntries = 2
  BufSize = 1
  UintRange = 4
  Faults = {"devmem", "thread", "file", "clear"}
  Crashes = TRUE
  SleepCovers = FALSE
  ClientWaits = FALSE
INVARIANTS TypeOK MarksAccounted
PROPERTIES ImplementsLease
