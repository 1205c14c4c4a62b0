CONSTANTS
  CPUs = {c1, c2}
  Cpus = {c1, c2}
  PAGE = 8
  Pages = {0, 1, 2, 3}
  Classes = {2, 11, 12}
  Size <- MCSize
  LargeSizes = {2, 3}
  MaxCalls = 4
  Holes4k = {h1, h2, h3}
  HolesSmall = {s1}
  K = 4
  DROP = 2
  Regions <- OneRegion
  PhyPages = {12}
  Sizes4k = {2, 5}
  SizesSmall = {1}
  ReadRaces = FALSE
  Threads = {t1, t2, t3}
  Idle = Idle
  Lvls <- MCLvls
  NULL = NULL
  null = null
  Top = 5
  Phys = {1, 2, 3, 4}
  MAX_LINEAR_HOLE = 3
  Kinds = {"vm", "stack"}
  Sizes = {2, 3}
SPECIFICATION MCSpec
INVARIANTS KHeapSafe  ClassesFit  UserHeapPartitioned ThreadsSafe
PROPERTIES MappingStable
SYMMETRY MCSymmetry
