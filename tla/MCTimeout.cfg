SPECIFICATION FairSpec
CONSTANTS
  NumCameras = 1
  NumRequests <- MCNumRequests
PROPERTY
  TimeoutRestarts
