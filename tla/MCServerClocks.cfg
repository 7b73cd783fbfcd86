SPECIFICATION FairSpec
CONSTANTS
  Conns = {c1}
  Threads = {t1}
  Nobody = Nobody
  MaxConnections = 0
  HandshakeTimeout = 1
  CloseTimeout = 1
  IdleTimeout = 3
  PingInterval = 2
  MaxPendingOutput = 2
  Frames = {"msg", "close", "bad"}
  MaxRead = 1
  MaxReads = 1
  MaxCalls = 1
  MaxPosts = 1
INVARIANTS
  NoClockForgotten
PROPERTIES
  WaitNotExtended
  AskedBeforeIdleClose
  StallsEnd
