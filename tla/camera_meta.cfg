SPECIFICATION CameraSpec
CONSTANTS
  Period = 2
  MaxFrameAge = 2
  MaxRequests = 2
  Offsets = {1, 4}
  MaxTime = 5
INVARIANT MetadataInSync
CHECK_DEADLOCK FALSE
