SPECIFICATION FairSpec
CONSTANTS
  Threads = {t1}
  Conns = {c1}
  Posts = {p1}
  None = None
  MaxRuns = 1
PROPERTIES
  StopUnblocksRun
CHECK_DEADLOCK FALSE
