SPECIFICATION Spec
SYMMETRY Swap
CONSTANTS
 a1 = a1
 timer = timer
 i1 = i1
 i2 = i2
 p1 = p1
 p2 = p2
 t1 = t1
 t2 = t2
 web = web
 db = db
 Operators = {a1}
 Restarter = timer
 MaxSessions = 2
 MaxOps = 2
 MaxMishaps = 1
 Budget = 3
 EventCap = 2
 WireCap = 1
 Records = {i1, i2}
 Persisters = {p1, p2}
 MaxChanges = 3
 StoreTroubles = 2
 Schedules = {s1, s2}
 Every = 2
 ScheduleTime = 4
 ScheduleRestarts = 1
 MetricRules = {m1}
 CrashRules = {k1}
 Crashes = {c1}
 Pause = 2
 Hold = 1
 Covered = {i1}
 Day = 3
 Hour = 2
 RuleTime = 5
 RuleRestarts = 1
 Threads = {t1, t2, t3}
 Granted = {"instances.read", "files.write"}
 MaxTables = 2
 MaxCalls = 4
 Services = {web, db}
 Requesters = {a1}
 Startup <- Chain
 Shutdowns <- WholeStop
 Retries <- WebRetries
 Limited = {}
 Bounded = {db}
 SlowStop = {}
 MaxSpawns = 2
 Requests = {p1, p2}
 UserNames = {i1, i2}
 MaxUsers = 3
 MaxTokens = 3
 MaxRequests = 3
 Tries = {p1, p2}
 Peers = {i1, i2}
 MaxFails = 2
 FailWindow = 2
 FailLock = 3
 MaxPeers = 2
 LoginTime = 3
 MaxWrong = 5
CONSTRAINT OneSuccessor
INVARIANTS
 TypesOK
 NodesAreKnown
 StoreKeeps
 
 
 ServicesAreSupervised
 
 
 
 
 AlertsAreTrue
 
 
PROPERTIES
 MetricRulesRest
CHECK_DEADLOCK FALSE
