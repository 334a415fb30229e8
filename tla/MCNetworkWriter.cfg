SPECIFICATION FairSpec
CONSTANTS
  video = video
  audio = audio
  Worker = worker
  Main = main
  Producers <- MCProducers
  MaxCapacity = 3
  HighWatermark = 2
  LowWatermark = 0
  MaxPackets = 4
INVARIANTS
  TypeOK
  WriterKeepsOrder
  StopDrains
  RateFollowsUnlessOverlapped
  OnlyFlushHangs
PROPERTIES
  AcceptedIsHandled
  IdleWriterStops
CHECK_DEADLOCK FALSE
