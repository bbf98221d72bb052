SPECIFICATION Spec
CONSTANTS
  MaxNodes = 4
  MaxDepth = 3
  MaxChildren = 2
  MaxTableRows = 3
  MaxTextBytesPerNode = 2
  MaxTotalTextBytes = 3
  MaxDocumentBytes = 20
  Ids = {a, b, c}
  Types = {"viewport", "text"}
  Patches <- TreePatches
  Parents <- AnyParent
  Indexes <- TreeIndexes
  Chunks = {0, 1}
  Values = {"u"}
  MaxToken = 4
  MaxRender = 4
SYMMETRY IdSymmetry
INVARIANTS
  ReducerKeepsTree
  UpsertIdempotent
  FocusMovesForCause
CHECK_DEADLOCK FALSE
