CONSTANTS
  Contours <- MCContours
  MaxContours = 4
  THRESH = 200
  Byte = 4
SPECIFICATION Spec
INVARIANTS
  TypeOK
  TwoBiggest
  HotSides
  BothHot
  TotalIsRight
CHECK_DEADLOCK FALSE
