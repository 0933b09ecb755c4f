\* The server exits once by itself, auto-restart on
SPECIFICATION FairSpec
CONSTANTS
    Callers = {a1}
    Timers = {t1}
    Reconciler = rec
    Applier = app
    AutoRestart = TRUE
    BusCap = 2
    MaxProcs = 3
    MaxHandles = 3
    Budget <- OneCallOneExit
PROPERTIES
    CrashedComesBack
    SettlesOrLags
