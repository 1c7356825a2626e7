SPECIFICATION Spec
CONSTANTS
  kCW180_MIN = 800
  kCW180_MID = 800
  kCW180_MAX = 801
  kCW360_MID = 4113
  kCWFIRE_MID = 3000
  kCWFIRE_MAX = 5750
  MIN_MOTOR_SPEED = 1
  MAX_MOTOR_SPEED = 3
  Angles <- MCAngles
  Touchable <- Buttons
  FieldBytes <- MCFieldBytes
  CameraAnswers = {TRUE, FALSE}
  MaxDepth = 2
INVARIANTS
  SpeedAtLeastMin
