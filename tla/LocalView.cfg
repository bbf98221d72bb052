SPECIFICATION Spec
CONSTANTS
  Cap = 2
  MaxPendingMutations = 3
  MaxOps = 4
  MaxRender = 2
  MaxEvents = 2
INVARIANTS
  CommittedWasVisible
  PublishedWasVisible
  CommittedEventsMatch
  BacklogFitsQueue
  PendingIsRetried
  FrameMatchesToken
PROPERTY
  BarrierImplemented
CHECK_DEADLOCK FALSE
