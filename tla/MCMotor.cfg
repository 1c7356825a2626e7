SPECIFICATION MCSpec
CONSTANTS
  kCW180_MIN = 2900
  kCW180_MID = 3900
  kCW180_MAX = 4900
  kCW360_MID = 4113
  kCWFIRE_MID = 3000
  kCWFIRE_MAX = 5750
  MIN_MOTOR_SPEED = 1
  MAX_MOTOR_SPEED = 9
  Angles <- MCAngles
INVARIANTS
  TiltWithinLimits
  PanWithinLimits
  BoostIsReversal
