CONSTANTS
  CPUs = {c1}
  Bits = 8
  WORD = 4
  INT = 2
  ULONG = 4
  Usable = {1, 2, 4}
SPECIFICATION Spec
INVARIANTS FfsFindsBit
