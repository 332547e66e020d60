SPECIFICATION LayoutSpec

CONSTANTS
  Memories    <- MCMemories
  Geometries  <- MCGeometries
  Controllers  = {"fast", "slow"}
  IntMax       = 65535
  NoEntry      = none

INVARIANTS
  WaysUpAgree
  ReencryptsItsOwn
  PlacesDiffer

\* Nothing is looked up in the memory that init_memOrg refuses.
CHECK_DEADLOCK FALSE
