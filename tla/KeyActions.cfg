SPECIFICATION Spec
CONSTANTS
  Cap = 1
  Calls = {1, 2}
  Actions = {act}
  MaxInflight = 1
  MaxRequests = 2
INVARIANTS
  SlotsBounded
  OutcomeAnnounced
PROPERTIES
  AnswersAreOwn
  RequestsReturn
CHECK_DEADLOCK FALSE
