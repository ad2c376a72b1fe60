SPECIFICATION Spec
CONSTANTS
  a = a
  b = b
  Names <- MCNames
  Unnamed = Unnamed
  Null = Null
  BuiltIn <- MCBuiltIn
  CellSize = 2
  HeaderSize = 2
  Limit = 12
INVARIANT TornHidden
