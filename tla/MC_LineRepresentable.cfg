SPECIFICATION Spec
CONSTANTS
  NumMajors = 1
  NumMinors = 4
  LineBits = 16
  AddBits = 7
  UncompBits = 2
  MinorMax = 6
  MajorMax = 9
  WordSize = 32
  Compression = 8
  JointZcc = FALSE
  HasSuper = FALSE
  Policy = 0
  SmoothStep = 2
  MaxSuper = 0
INVARIANTS
  ZccRepresentable
\* The line stops where the code asserts that a major counter cannot overflow.
CHECK_DEADLOCK FALSE
