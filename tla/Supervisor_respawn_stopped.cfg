\* A stop that falls between the test of the timer and its spawn.
SPECIFICATION Spec
CONSTANTS
    web = web
    db = db
    a1 = a1
    a2 = a2
    Services <- OneService
    Callers = {a1}
    StartupOrder <- Single
    ShutdownOrders <- SingleShutdown
    Policy <- Always
    Monitored <- NoService
    Bounded <- NoService
    SlowStop <- NoService
    MaxSpawns = 2
PROPERTY RespawnUnlessStopped
