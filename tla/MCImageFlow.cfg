SPECIFICATION ImageSpec
CONSTANTS
  a = a
  b = b
  v1 = v1
  v2 = v2
  v3 = v3
  BootSlots <- MCSlots
  Versions <- MCVersions
  Layout <- MCLayout
  Factory = v2
  Callers = {"manager", "installed"}
  MaxCommands = 4
  MaxTrouble = 2
SYMMETRY MCSymmetry
INVARIANTS
  PatchedBoots
  RestoreIsStock
CHECK_DEADLOCK FALSE
