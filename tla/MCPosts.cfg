SPECIFICATION FairSpec
CONSTANTS
  Threads = {t1, t2}
  Conns = {c1, c2}
  Posts = {p1, p2}
  None = None
  MaxRuns = 2
INVARIANTS
  NoLostWake
  NothingLeaked
PROPERTIES
  ExactlyOnceInOrder
  PostsSettle
CHECK_DEADLOCK FALSE
