SPECIFICATION Spec
CONSTANTS
    a = a
    b = b
    f = f
    g = g
    None = None
    p1 = p1
    p2 = p2
    Modules = {a, b}
    Lists <- MCLists
    Pids = {p1, p2}
    Funs = {f, g}
    PageOf <- MCPageOf
    MaxRecords = 2
    MaxTargets = 2
    MaxExecs = 2
    MaxActs = 2
    MaxTroubles = 2
INVARIANTS
    CalmNativeLoadExact
    
    CompanionOwn
    
CHECK_DEADLOCK FALSE
