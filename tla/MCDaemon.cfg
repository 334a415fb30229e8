SPECIFICATION FairSpec
CONSTANT MaxEvents = 5
INVARIANTS
  TypeOK
PROPERTIES
  ReleaseStopsCapture
  SignalEndsIdle
  IsSwitch
CHECK_DEADLOCK FALSE
