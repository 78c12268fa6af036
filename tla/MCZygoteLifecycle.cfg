SPECIFICATION FairSpec
CONSTANTS
  Pids = {p1, p2}
  Slots = {s1}
  Bundles = {b1, b2}
  MaxChildren = 1
  MaxLives = 2
  Replace = FALSE
  None = None
INVARIANTS
    RefsBalanced
    AnnouncedOnce
PROPERTIES
    InstalledInTarget
CHECK_DEADLOCK FALSE
