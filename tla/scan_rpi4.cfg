SPECIFICATION SerialSpec
CONSTANTS
  MaxPackets = 2
  MaxSentences = 0
  Autostart = FALSE
  WaitForLidarSync = FALSE
  OneClick = FALSE
  AbortOnUsbError = FALSE
  HasGnss = FALSE
  disableBuzzer = TRUE
  Commands <- NoQuit
  Overtaking = TRUE
  SavesFail = FALSE
  MaxReceived = 4
  MaxChunks = 2
INVARIANTS
  TypeOK
  NoNullDereference
  ChunkNumbersDiffer
  StateTellsRecording
PROPERTIES
  LidarLog
  ImuLog
