SPECIFICATION Spec
CONSTANTS
  Blocks = {1, 2}
  Words = 2
  Rcas = {1}
  HighCapacity = FALSE
  Depth = 2
INVARIANT InhibitOff
