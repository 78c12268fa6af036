SPECIFICATION RcFairSpec
CONSTANTS
  RcLen = 2
  OrigLens = {1, 2}
  ModLens = {0, 1, 2}
  Counts = {1, 2, 3, 4}
  MaxOpens = 2
PROPERTIES
    InitServed
CHECK_DEADLOCK FALSE
