SPECIFICATION Spec
CONSTANTS
  Faults = {"torn"}
  MaxSessions = 3
  MaxChunks = 2
INVARIANTS
  NewFolders
CHECK_DEADLOCK FALSE
