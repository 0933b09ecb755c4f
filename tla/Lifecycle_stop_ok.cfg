\* What the design says of a stop
SPECIFICATION Spec
CONSTANTS
    Callers = {a1}
    Timers = {}
    Reconciler = rec
    Applier = app
    AutoRestart = FALSE
    BusCap = 2
    MaxProcs = 2
    MaxHandles = 3
    Budget <- CallsOnly
PROPERTY
    StopLeavesNothing
