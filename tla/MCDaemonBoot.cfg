SPECIFICATION BootFairSpec
CONSTANTS
  Modules = {a, b}
  Providers = {a}
  Managers = {b}
  Zygotes = {z1}
  Presses = 2
  Threshold = 2
  GuardMax = 1
  MaxBoots = 2
  MaxEvents = 1
INVARIANTS
    
    FirstZygoteInjected
PROPERTIES
    BootLoopEnds
CHECK_DEADLOCK FALSE
