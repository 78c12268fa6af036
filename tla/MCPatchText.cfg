SPECIFICATION PatchFairSpec
CONSTANTS
  Cpus = {c1, c2, c3, c4}
  Words = {w1, w2}
  Values = {old, hook}
  Boot = old
INVARIANTS
    NoTornText
PROPERTIES
    ResultIsTrue
    CallsReturn
