\* Two callers and the reconciler: start, stop and restart in every order
SPECIFICATION Spec
CONSTANTS
    Callers = {a1, a2}
    Timers = {}
    Reconciler = rec
    Applier = app
    AutoRestart = FALSE
    BusCap = 2
    MaxProcs = 2
    MaxHandles = 3
    Budget <- CallsOnly
INVARIANTS
    TypeOK
    OneProcess
PROPERTY
    StopSeesTheEnd
SYMMETRY Symmetric
