SPECIFICATION FairSpec
CONSTANTS
  root = root
  sub = sub
  f = f
  Other = Other
  None = None
  EndMark = EndMark
  Root <- root
  Names <- MCNames
  Directory <- MCDirectory
  PerRead = 2
  Sectors = 1
  NFiles = 3
  Span = 2
INVARIANTS TypeOK FindsFile
PROPERTIES KeepsFiles ComesCloser Returns
