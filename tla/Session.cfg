\* Two calls, a pipe and a server that take one at a time.
SPECIFICATION FairSpec
CONSTANTS
    Calls = {c1, c2}
    None = none
    PipeCap = 1
    WorkLimit = 1
INVARIANTS
    TypeOK
    Forgotten
    EofLeavesNobody
PROPERTIES
    ImplementsService
    EofReachesAll
    WaitersTold
\* A session ends: init is gone and every call returned.
CHECK_DEADLOCK FALSE
