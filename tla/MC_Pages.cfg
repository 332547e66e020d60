SPECIFICATION MCSpec

CONSTANTS
  Thread      <- MCThread
  Page        <- MCPage
  NumFrames   = 3
  RandomAlloc = TRUE

INVARIANTS
  TypeOK
  TablesInverse
  ShortcutAgrees

PROPERTIES
  KeepsPages
  SearchRight
