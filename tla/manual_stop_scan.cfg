SPECIFICATION FairSpec
CONSTANTS
  MaxPackets = 0
  MaxSentences = 0
  Autostart = TRUE
  WaitForLidarSync = TRUE
  OneClick = TRUE
  AbortOnUsbError = FALSE
  HasGnss = FALSE
  disableBuzzer = TRUE
  Commands <- Buttons
  Overtaking = FALSE
  SavesFail = FALSE
  MaxReceived = 0
  MaxChunks = 2
PROPERTIES
  StopScanIsRun
CHECK_DEADLOCK FALSE
