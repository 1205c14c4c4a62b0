CONSTANTS
  CPUs = {c1, c2}
  Holes4k = {h1, h2}
  HolesSmall = {s1, s2}
  K = 4
  PAGE = 8
  DROP = 1
  Regions <- TwoRegions
  PhyPages = {}
  Sizes4k = {3}
  SizesSmall = {2}
  ReadRaces = TRUE
  NULL = NULL
SPECIFICATION KHeapSpec
INVARIANTS SortedAsc
