SPECIFICATION FairSpec
CONSTANTS
  MaxPackets = 0
  MaxSentences = 0
  Autostart = FALSE
  WaitForLidarSync = FALSE
  OneClick = FALSE
  AbortOnUsbError = FALSE
  HasGnss = FALSE
  disableBuzzer = TRUE
  Commands <- NoQuit
  Overtaking = FALSE
  SavesFail = FALSE
  MaxReceived = 0
  MaxChunks = 2
PROPERTIES
  StartIsServed
  StopScanIsServed
  StageTimesOut
