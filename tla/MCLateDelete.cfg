SPECIFICATION Spec
CONSTANTS
  NumCameras = 1
  NumRequests <- MCNumRequests
INVARIANT
  LateDeleteIsSafe
