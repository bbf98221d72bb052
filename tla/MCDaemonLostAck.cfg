SPECIFICATION AttentiveSpec
CONSTANTS
  Cap = 1
  MaxPendingMutations = 2
  Waiters = {w1}
  Conns = {c1}
  NoConn = NoConn
  MaxOps = 2
  AgentFaults = FALSE
  MaxRender = 0
  MaxEvents = 0
  MaxDials = 1
  MaxRequests = 0
  SocketBuffer = 2
PROPERTY
  CommitAcknowledged
CHECK_DEADLOCK FALSE
