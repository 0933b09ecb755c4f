\* One service, two callers, one automatic restart, an early
\* rejection, no monitor.
SPECIFICATION Spec
CONSTANTS
    web = web
    db = db
    a1 = a1
    a2 = a2
    Services <- OneService
    Callers = {a1, a2}
    StartupOrder <- Single
    ShutdownOrders <- NoService
    Policy <- OnFailureOnce
    Monitored <- NoService
    Bounded <- OneService
    SlowStop <- OneService
    MaxSpawns = 3
CONSTRAINT EarlyRejection
SYMMETRY CallerSymmetry
INVARIANTS
    TypeOK
    RunningIsSupervised
    BackoffHasTimer
    GenerationsDiffer
    RestartBudget
    AutomaticSpawnsCounted
PROPERTY SupersededWatcherSilent
