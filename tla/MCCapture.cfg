SPECIFICATION FairSpec
CONSTANTS
  NumCameras = 2
  NumRequests <- MCNumRequests
INVARIANTS
  TypeOK
  OnlyTimeoutsIdle
  OnlyVideoHoldsDestroyed
  NeverStuck
PROPERTIES
  FreeCaptureEnds
  CompletedComesBack
  ObeysContract
