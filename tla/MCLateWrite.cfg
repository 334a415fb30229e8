SPECIFICATION Spec
CONSTANTS
  video = video
  audio = audio
  Worker = worker
  Main = main
  Producers <- MCProducers
  MaxCapacity = 3
  HighWatermark = 2
  LowWatermark = 0
  MaxPackets = 3
INVARIANT
  FlushedPacketsReachOutput
CHECK_DEADLOCK FALSE
