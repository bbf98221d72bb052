SPECIFICATION Spec
CONSTANTS
  Cap = 2
  MaxPendingMutations = 1
  Waiters = {w1}
  Conns = {c1}
  NoConn = NoConn
  MaxOps = 1
  AgentFaults = TRUE
  MaxRender = 2
  MaxEvents = 1
  MaxDials = 1
  MaxRequests = 1
  SocketBuffer = 2
INVARIANTS
  NoStaleTerminal
PROPERTY
  BarrierImplemented
CHECK_DEADLOCK FALSE
