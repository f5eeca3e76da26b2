SPECIFICATION Spec
CONSTANTS
  Callers = {daemon, tool}
  daemon = daemon
  tool = tool
  Loaded = {2}
  MaxEntries = 2
  DebugNodes = FALSE
INVARIANTS FullMeansFull
