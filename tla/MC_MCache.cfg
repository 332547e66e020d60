SPECIFICATION MCSpec

CONSTANTS
  Tag              = {a, b, c, d}
  Spare            = d
  TreeTag          = {c}
  Tid              = {t1, t2}
  Assocs           = {2, 3}
  MCACHE_SRRIP_MAX = 3
  MCACHE_PSEL_MAX  = 1
  MetPrios         = {0, 3}
  Wrap             = 4

INVARIANTS
  TypeOK
  OccupancyAddsUp

PROPERTIES
  VictimsRight
