SPECIFICATION Spec
CONSTANTS
  Faults = {"torn", "failed"}
  MaxSessions = 3
  MaxChunks = 2
INVARIANTS
  TypeOK
  SessionsInOrder
  FoldersShared
PROPERTIES
  SavedChunksStay
  ChunksFiled
CHECK_DEADLOCK FALSE
