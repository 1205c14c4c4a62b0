CONSTANTS
  Cpus = {c1, c2}
  Top = 5
  Phys = {1, 2, 3, 4, 5}
  MAX_LINEAR_HOLE = 3
  Kinds = {"stack"}
  Sizes = {2}
SPECIFICATION VMSpec
INVARIANTS GuardUnmapped
CHECK_DEADLOCK FALSE
