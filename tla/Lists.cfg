CONSTANTS
  Heads = {h1, h2}
  Elems = {a, b, c}
  NULL = NULL
  POISON1 = P1
  POISON2 = P2
  Kinds = {"list", "hlist", "SLIST", "STAILQ", "LIST", "TAILQ"}
  Threads = {a, b, c}
  First <- MCFirst
  Nodes = {n1, n2, n3}
  null = null
  Cpus = {c1, c2}
  LONGS = 16
  MaxCalls = 3
  Ops <- MCOps
SPECIFICATION Spec
INVARIANTS LinksAgree
PROPERTIES ListsAreSequences IsStack ActsAtomically
SYMMETRY MCSymmetry
CHECK_DEADLOCK FALSE
