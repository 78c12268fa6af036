SPECIFICATION Spec
CONSTANTS
    a = a
    b = b
    MaxKids = 2
    Order <- MCOrder
    Version <- MCVersion
    Calls = {"none", "dir", "exempt", "dlclose", "socket", "jni", "jni_table", "plt"}
    Requests <- MCRequests
    Layouts <- MCLayouts
    MaxCalls = 2
    MaxFaults = 1
INVARIANTS
    ZygoteClean
    
    FdsClean
    NothingReachesCore
PROPERTIES
    CallsSound
CHECK_DEADLOCK FALSE
