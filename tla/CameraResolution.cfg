SPECIFICATION Spec
CONSTANTS
  Resolutions = {"FRAME_320x240", "FRAME_160x120"}
  ReportLength = 5
  RxDepth = 1
INVARIANTS
  ReturnsResolution
