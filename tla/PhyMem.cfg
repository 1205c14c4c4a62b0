CONSTANTS
  CPUs = {c1, c2}
  Bits = 12
  WORD = 4
  INT = 2
  ULONG = 4
  Usable = {4, 5, 8}
SPECIFICATION FairSpec
INVARIANTS PageHasOneOwner PhyMemSafe
PROPERTIES AllocReturns
