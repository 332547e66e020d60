SPECIFICATION MCSpec

CONSTANTS
  NumCores   = 1
  RobSize    = 2
  MaxFetch   = 2
  WqCapacity = 2
  HiWm       = 1
  LoWm       = 0
  UseL3      = TRUE
  l1         = l1
  Line       = {l1}
  Meta       = meta
  Walk      <- MCOverflow
  MaxReads   = 4

INVARIANTS
  QueuesBounded
  ReadsAwaited

PROPERTIES
  TwoCoresGoOn
