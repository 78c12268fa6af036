\* Two targets of overlapping domains, three entries: enough for one target to
\* publish twice while the other's entry is being taken back.
SPECIFICATION FairSpec
CONSTANTS
  n1 = n1
  n2 = n2
  shared = shared
  own1 = own1
  boot = boot
  Procs = {n1, n2}
  Entries = {e1, e2, e3}
  Rules = {shared, own1, boot}
  BootPolicy <- MCBoot
  Needs <- MCNeeds
  Zygiskd = Zygiskd
  None = None
INVARIANTS
    NoUseAfterFree
    OneOwner
    
PROPERTIES
    EveryGrantEnds
    
