SPECIFICATION Spec
CONSTANTS
  Cap = 2
  MaxPendingMutations = 2
  Waiters = {}
  Conns = {c1, c2}
  NoConn = NoConn
  MaxOps = 2
  AgentFaults = FALSE
  MaxRender = 2
  MaxEvents = 1
  MaxDials = 2
  MaxRequests = 0
  SocketBuffer = 2
SYMMETRY Interchangeable
INVARIANTS
  LeaseExclusive
  DetachAckMeansFree
  NoStaleTerminal
PROPERTY
  BarrierImplemented
CHECK_DEADLOCK FALSE
