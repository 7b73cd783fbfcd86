SPECIFICATION Spec
CONSTANTS
  Conns = {c1}
  Threads = {t1}
  Nobody = Nobody
  MaxConnections = 0
  HandshakeTimeout = 0
  CloseTimeout = 0
  IdleTimeout = 0
  PingInterval = 0
  MaxPendingOutput = 2
  Frames = {"msg", "ping", "close", "bad"}
  MaxRead = 2
  MaxReads = 2
  MaxCalls = 2
  MaxPosts = 1
INVARIANTS
  NoUseAfterFree
  WireDiscipline
  OutputBounded
  NothingStranded
PROPERTIES
  DrainedBeforeDrop
  HostContract
