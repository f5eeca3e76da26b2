SPECIFICATION Spec
CONSTANTS
  Callers = {daemon, tool, script}
  daemon = daemon
  tool = tool
  script = script
  Loaded = {0, 1, 2}
  MaxEntries = 2
  DebugNodes = TRUE
INVARIANTS TypeOK LoansExclusive LoansMarked RefusalHonest
SYMMETRY Symmetry
