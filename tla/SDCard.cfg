SPECIFICATION FairSpec
CONSTANTS
  Blocks = {1, 2}
  Words = 2
  Rcas = {1, 2}
  HighCapacity = FALSE
  Depth = 2
INVARIANTS TypeOK ReadsAsked ResponseOwn EnableSound
PROPERTIES ComesCloser Returns
