CONSTANTS
  b1 = b1  b2 = b2  b3 = b3  h1 = h1
  test_timeout = test_timeout  vn_timeout = vn_timeout  other_timeout = other_timeout
  NULL = NULL
  TimerBuf <- Bufs
  BufSizes = {1, 3}
  HeapNodes = {h1}
  Funcs = {test_timeout, vn_timeout, other_timeout}
  Period <- Periods
  NR_FUNC = 2
  MaxMsec = 5
SPECIFICATION Spec
INVARIANT TimerSafe
PROPERTIES ExpiredFires
