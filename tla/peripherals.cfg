SPECIFICATION FairSpec
CONSTANTS
  Wrap = 2
  MaxSessions = 2
  MaxQueue = 1
  MaxBuffer = 1
  Period = 2
  MaxFrameAge = 2
  MaxRequests = 2
  Offsets = {1, 4}
  MaxTime = 5
INVARIANTS TypeOK  SavedNotOlder
PROPERTIES DurationCoversTime FiledInOrder ModeReachesRtk RtkSavesItsScans
CHECK_DEADLOCK FALSE
