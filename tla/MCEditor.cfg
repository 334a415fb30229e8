SPECIFICATION Spec
CONSTANTS
  csi = csi
  usb = usb
  Locations <- MCLocations
  TwoStream <- MCTwoStream
  Installed <- MCInstalled
  MaxLayers <- MCMaxLayers
INVARIANTS
  TypeOK
  StrmMapAgrees
  SourcesFollowCameras
  GraphConnects
  SavedIsWhatLoads
CHECK_DEADLOCK FALSE
