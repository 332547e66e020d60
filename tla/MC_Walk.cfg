SPECIFICATION MCSpec

CONSTANTS
  Data   <- MCData
  Node   <- MCNode
  Root   = "root"
  Parent <- MCParent
  Siblings <- MCSiblings
  SetOf  <- MCTwoSets
  Assoc  = 2

INVARIANTS
  TypeOK
  Accounted
  DataCountersSurvive
  TreeCountersSurviveLru

PROPERTIES
  NestingPaidFor
  WalksEnd
