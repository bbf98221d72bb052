SPECIFICATION Spec
CONSTANTS
  Cap = 2
  MaxPendingMutations = 2
  Waiters = {w1, w2}
  MaxOps = 3
  MaxEvents = 3
INVARIANT
  TerminalEventsWake
PROPERTY
  TerminalEventsTaken
CHECK_DEADLOCK FALSE
