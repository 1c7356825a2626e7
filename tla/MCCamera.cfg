SPECIFICATION CameraSpec
CONSTANTS
  Resolutions = {"FRAME_320x240", "FRAME_160x120"}
  ReportLength = 5
  RxDepth = 1
  CHUNK = 3
  MARK = 5
  SPARE = 10
  REPORT_BYTES = 5
  PTR_RANGE = 12
  Sizes = {1, 3, 4, 9, 14}
  MaxDepth = 2
INVARIANTS
  AnswerIsForThisCommand
  SuccessMeansDone
  MotionIsOfThisWatch
  WritesInBounds
  BytesInPlace
  PhotoIsFrame
