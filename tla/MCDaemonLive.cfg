SPECIFICATION FairSpec
CONSTANTS
  Cap = 2
  MaxPendingMutations = 2
  Waiters = {}
  Conns = {c1}
  NoConn = NoConn
  MaxOps = 2
  AgentFaults = FALSE
  MaxRender = 0
  MaxEvents = 0
  MaxDials = 1
  MaxRequests = 0
  SocketBuffer = 2
PROPERTIES
  CommitAcknowledged
  ChangesAreDrawn
  LeaseRecovered
CHECK_DEADLOCK FALSE
