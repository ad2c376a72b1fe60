SPECIFICATION Spec
CONSTANTS
  root = root
  sub = sub
  f = f
  Other = Other
  None = None
  EndMark = EndMark
  Root <- root
  Names <- MCNames
  Directory <- MCDirectory
  PerRead = 2
  Sectors = 2
  NFiles = 3
  Span = 4
INVARIANT FindsFile
