SPECIFICATION Spec
CONSTANTS
  MaxNodes = 4
  MaxDepth = 2
  MaxChildren = 3
  MaxTableRows = 3
  MaxTextBytesPerNode = 2
  MaxTotalTextBytes = 3
  MaxDocumentBytes = 40
  Ids = {"a", "b"}
  Types = {"input", "table", "actions"}
  Patches <- WidgetPatches
  Parents = {""}
  Indexes <- NoIndexes
  Chunks = {}
  Values = {"u", "v"}
  MaxToken = 3
  MaxRender = 5
INVARIANTS
  StateTypeOK
  ProjectionMatchesDocument
  UserInputSurvives
  SelectionFollowsRow
PROPERTY
  VersionsImplemented
CHECK_DEADLOCK FALSE
