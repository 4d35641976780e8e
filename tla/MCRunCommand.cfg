\* Output below, at and beyond the capture limit, cut into reads anyhow.
CONSTANTS
  Limit = 2
  Marker = 1
  Buffer = 2
  PipeCapacity = 2
  Width = 8
  MaxOutput = 5
  Descendants = TRUE
SPECIFICATION Spec
INVARIANTS
  CaptureExact
  OkMeansDrained
  NoChildLeftRunning
PROPERTIES
  ReturnsByTimer
  ReturnsIfPatient
