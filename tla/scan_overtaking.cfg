SPECIFICATION Spec
CONSTANTS
  MaxPackets = 2
  MaxSentences = 2
  Autostart = FALSE
  WaitForLidarSync = FALSE
  OneClick = TRUE
  AbortOnUsbError = FALSE
  HasGnss = TRUE
  disableBuzzer = FALSE
  Commands <- ButtonsOrQuit
  Overtaking = TRUE
  SavesFail = FALSE
  MaxReceived = 2
  MaxChunks = 2
INVARIANTS
  SavedOnce
PROPERTIES
  UsbErrorIsFinal
  ChunksFiled
CHECK_DEADLOCK FALSE
