\* One failed call, lost answer, missing jar or missing Java anywhere, and
\* cocktail-init dies once and is restarted
SPECIFICATION Spec
CONSTANTS
    Callers = {a1}
    Timers = {}
    Reconciler = rec
    Applier = app
    AutoRestart = FALSE
    BusCap = 1
    MaxProcs = 3
    MaxHandles = 3
    Budget <- CallsFaultInit
CONSTRAINT OneMishap
INVARIANTS
    OneProcess
    WatchedHasEntry

    
