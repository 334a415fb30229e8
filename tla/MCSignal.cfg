SPECIFICATION FairSpec
CONSTANT MaxEvents = 5
PROPERTY
  SignalEnds
CHECK_DEADLOCK FALSE
