SPECIFICATION Spec
CONSTANTS
  B0 = B0
  B1 = B1
  T1 = T1
  T2 = T2
  T3 = T3
  T4 = T4
  T5 = T5
  TIB = TIB
  Magic = Magic
  Junk = Junk
  Stale <- MCStale
  Boot <- B0
  Words <- MCWords
  Colon <- MCColon
  Numbers <- MCNumbers
  Value <- MCValue
  Unknown <- MCUnknown
  Texts <- MCTexts
  Source <- MCSource
  Lines <- MCLines
  Slack = 1
  Room = 3
  LineLength = 2
PROPERTY CaughtThrowKeepsStack
