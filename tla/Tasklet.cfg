CONSTANTS
  CPUs = {c1, c2}
  Tasklets = {t1, t2}
  NULL = NULL
  HEAD = HEAD
  Vecs = {"hi"}
  FirstOnEmpty = FALSE
SPECIFICATION Spec
INVARIANTS RunExclusive TaskletSafe
PROPERTIES ScheduledRuns
