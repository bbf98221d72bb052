SPECIFICATION BrokerSpec
CONSTANTS
  Cap = 3
  Ids = {"a", "b"}
  MaxBatch = 2
  MaxOrder = 5
INVARIANTS
  DepthWithinCap
  CriticalExactlyOnce
  BatchesWhole
  NewestUpdateKept
PROPERTY
  CoalescedOldestFirst
CHECK_DEADLOCK FALSE
