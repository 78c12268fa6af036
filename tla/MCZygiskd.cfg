SPECIFICATION FairSpec
CONSTANTS
    a = a
    b = b
    u1 = u1
    u2 = u2
    p1 = p1
    p2 = p2
    NoModule = NoModule
    Order <- MCOrder
    UidOf <- MCUidOne
    Configs <- MCConfigs
    Uids = {u1, u2}
    Procs = {p1}
    MaxEdits = 2
    MaxDeaths = 1
    MaxQueue = 1
    MaxCalls = 2
INVARIANTS
    CalmCompanionMatches
    QuietViewFresh

    
CHECK_DEADLOCK FALSE
