SPECIFICATION Spec
INVARIANTS
  PictureTruthful
PROPERTIES
  DrawingEnds
