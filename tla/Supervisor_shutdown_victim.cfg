\* shutdown_all after a cascade.
SPECIFICATION Spec
CONSTANTS
    web = web
    db = db
    a1 = a1
    a2 = a2
    Services <- TwoServices
    Callers = {a1}
    StartupOrder <- Chain
    ShutdownOrders <- ChainShutdown
    Policy <- Never
    Monitored <- NoService
    Bounded <- NoService
    SlowStop <- NoService
    MaxSpawns = 1
PROPERTY ShutdownStopsAll
