CONSTANTS
  Threads = {t1, t2}
  Idle = Idle
  Lvls <- AllLvls
  null = null
SPECIFICATION ThreadsSpec
INVARIANTS AssertsHold
CHECK_DEADLOCK FALSE
