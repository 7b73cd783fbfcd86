SPECIFICATION Spec
CONSTANTS
  Conns = {c1, c2, c3}
  Threads = {t1}
  Nobody = Nobody
  MaxConnections = 2
  HandshakeTimeout = 1
  CloseTimeout = 0
  IdleTimeout = 0
  PingInterval = 0
  MaxPendingOutput = 0
  Frames = {}
  MaxRead = 0
  MaxReads = 0
  MaxCalls = 0
  MaxPosts = 1
INVARIANTS
  OpenClosePaired
  RegistryExact
SYMMETRY Symmetry
