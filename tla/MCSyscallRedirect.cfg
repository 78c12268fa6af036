SPECIFICATION FairSpec
CONSTANTS
    init = init
    child = child
    Tasks = {init, child}
    InitTask = init
    MaxCalls = 1
    MaxToggles = 3
    MaxSweeps = 1
INVARIANTS
    OursStayMarked
    ExitTracerSeesAll

    
CHECK_DEADLOCK FALSE
