SPECIFICATION FairSpec
CONSTANTS
  MaxPackets = 0
  Handles = {h1}
  Serials = {3}
  SerialCallbacks = TRUE
  SendsFail = TRUE
PROPERTIES
  AsksPeriodically
CHECK_DEADLOCK FALSE
