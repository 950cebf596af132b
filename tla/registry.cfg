SPECIFICATION Spec
CONSTANTS
  MaxPackets = 1
  Handles = {h1, h2}
  Serials = {3, 7}
  SerialCallbacks = TRUE
  SendsFail = FALSE
INVARIANTS
  TypeOK
  IdsFitList
  SyncFindsSerials
