CONSTANTS
  Buffers = {0, 1, 2, 3}
  NULL = NULL
  threads = 0
  num_indirect = 1
  U16 = 8
  BUF_PACKETS = 4
  QueueSizes = {4, 6, 8}
  AnySize = 4
  ChainSizes = {1, 2, 3}
  MaxAdds = 5
SPECIFICATION Spec
INVARIANTS QueueKept PacketsConserved
PROPERTY CompletionsCollected
CHECK_DEADLOCK FALSE
