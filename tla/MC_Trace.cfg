SPECIFICATION MCSpec

CONSTANTS
  NumCores   = 2
  MaxFetch   = 2
  Trace      <- MCLines
  MaxExec    = 4
  MaxExec2nd = 6
  MaxInst    = 10
  Args       <- MCArgs
  Texts      <- MCTexts
  TextLength = 7
  Block      = 4
  MaxLine    = 3

INVARIANTS
  CountsAgree
  SharesDone
  PathsAgree

PROPERTIES
  InOrder
  RunEnds
  LinesInOrder
