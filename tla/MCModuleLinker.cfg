SPECIFICATION Spec
CONSTANTS
    l1 = l1
    l2 = l2
    l3 = l3
    libc = libc
    Libs = {l1, l2, l3}
    Tls = {l1, l3}
    Offset = {l3}
    Needs <- MCNeeds
    t1 = t1
    Threads = {t1}
    MaxOpens = 3
    MaxTls = 2
    MaxImages = 2
    MaxFaults = 1
INVARIANTS
    TablesMapped
    RunningIsComplete
PROPERTIES
    TlsAnswered
CHECK_DEADLOCK FALSE
