CONSTANTS
  BSIZE = 2
  NDIRECT = 2
  NINDIRECT = 1
  ninodes = 5
  NMETA = 2
  nblocks = 6
  nlog = 1
  Names = {a, b}
  MaxDepth = 2
  Lens = {1, 5}
  MaxCmds = 5
  Data = {1}
  Archives <- MCArchives
SPECIFICATION Spec
INVARIANTS FsConsistent ReportsAgree
PROPERTIES OthersKept
SYMMETRY Symmetry
VIEW View
CHECK_DEADLOCK FALSE
