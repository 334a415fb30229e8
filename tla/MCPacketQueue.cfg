SPECIFICATION QueueSpec
CONSTANTS
  video = video
  audio = audio
  Worker = worker
  Main = main
  Producers <- MCProducers
  MaxCapacity = 5
  HighWatermark = 3
  LowWatermark = 1
  MaxPackets = 7
INVARIANTS
  Hysteresis
  NothingLost
  WorkerSleepsOnlyWhenIdle
PROPERTY
  ImplementsChannel
CHECK_DEADLOCK FALSE
