SPECIFICATION Spec
CONSTANTS
  Raws <- MCRaws
  RxDepth = 1
INVARIANTS
  PressIsPenDown
