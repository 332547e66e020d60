SPECIFICATION Spec
CONSTANTS
  NumMajors = 2
  NumMinors = 2
  LineBits = 8
  AddBits = 2
  UncompBits = 1
  MinorMax = 4
  MajorMax = 2
  WordSize = 32
  Compression = 8
  JointZcc = TRUE
  HasSuper = TRUE
  Policy = 0
  SmoothStep = 2
  MaxSuper = 2
PROPERTIES
  OverflowPassesMinors
\* The line stops where the code asserts that a major counter cannot overflow.
CHECK_DEADLOCK FALSE
