SPECIFICATION Spec
CONSTANTS
  Columns = 4
  Rows = 3
  LineMax = 7
  LeftMost = 2
INVARIANT RowOnScreen
