SPECIFICATION FairSpec
CONSTANTS
  MaxPackets = 1
  MaxSentences = 0
  Autostart = TRUE
  WaitForLidarSync = TRUE
  OneClick = TRUE
  AbortOnUsbError = TRUE
  HasGnss = FALSE
  disableBuzzer = TRUE
  Commands <- NoQuit
  Overtaking = FALSE
  SavesFail = TRUE
  MaxReceived = 2
  MaxChunks = 3
INVARIANTS
  NoNullDereference
  StateTellsRecording
PROPERTIES
  ErrorsAreFinal
  StartIsServed
  StopIsServed
  UsbErrorRestarts
  RecordedIsSaved
CHECK_DEADLOCK FALSE
