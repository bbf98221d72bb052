SPECIFICATION Spec
CONSTANTS
  Boxes <- MCBoxes
  ColumnSets <- MCColumns
  Sizes <- MCSizes
  LineCells = 10
  ViewHeight = 2
  Lines = {1, 3}
  Rows = {0, 1, 3}
  MaxRunes = 1
  MaxChanges = 2
INVARIANTS
  WindowsSettled
  LayoutFits
  OneChain
PROPERTIES
  ReadingPosition
  AnimationFollows
CHECK_DEADLOCK FALSE
