SPECIFICATION Spec
CONSTANTS
  Configs <- MCConfigs
  EncoderDelay = 1
  FifoSize = 5
  ReadSizes = {3}
  FrameSize = 2
  QueueCapacity = 1
INVARIANTS
  TypeOK
  AudioIsGapless
  EncodedIsWritten
PROPERTIES
  FreeCaptureEnds
  ObeysFFmpeg
CHECK_DEADLOCK FALSE
