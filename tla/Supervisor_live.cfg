\* One monitored service that is restarted once, one caller, under fairness.
SPECIFICATION FairSpec
CONSTANTS
    web = web
    db = db
    a1 = a1
    a2 = a2
    Services <- OneService
    Callers = {a1}
    StartupOrder <- Single
    ShutdownOrders <- SingleShutdown
    Policy <- OnFailureOnce
    Monitored <- OneService
    Bounded <- NoService
    SlowStop <- NoService
    MaxSpawns = 2
PROPERTIES
    BackoffEnds
    CallsReturn
    SupersededChildEnds
