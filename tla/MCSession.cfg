SPECIFICATION Spec
CONSTANTS
  Generations = 2
  MaxStarts = 4
  Life = 4
  Margin = 3
  MaxDelay = 1
  Polls = 2
  MaxTime = 6
  MaxBroadcasts = 2
  NumCameras = 2
INVARIANTS
  TypeOK
  TokenIsFresh
  PollingOutlastsCode
  LogsInOrder
  CamerasReleased
  OpenBroadcastIsKnown
PROPERTIES
  OnlyOldestForgotten
  BroadcastLifecycle
CHECK_DEADLOCK FALSE
