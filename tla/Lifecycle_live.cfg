\* Two calls and the reconciler, nothing fails
SPECIFICATION FairSpec
CONSTANTS
    Callers = {a1}
    Timers = {}
    Reconciler = rec
    Applier = app
    AutoRestart = FALSE
    BusCap = 2
    MaxProcs = 2
    MaxHandles = 2
    Budget <- CallsOnly
PROPERTIES
    SettlesOrLags
    CallsReturn
