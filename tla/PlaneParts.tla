----------------------------- MODULE PlaneParts -----------------------------
(***************************************************************************)
(* The components of the plane that theorems are proved of, each on         *)
(* constants and variables of its own: "part" says whose behaviour it is,   *)
(* and x1, x2, ... are the variables of that component.                     *)
(***************************************************************************)
EXTENDS Naturals, Sequences, FiniteSets

CONSTANTS
    Operators, Restarter, MaxSessions, MaxOps, MaxMishaps, Budget, EventCap, WireCap,
    Records, Persisters, MaxChanges, StoreTroubles,
    Schedules, Every, ScheduleTime, ScheduleRestarts,
    MetricRules, CrashRules, Crashes, Pause, Hold, Covered, Day, Hour, RuleTime, RuleRestarts,
    Threads, Granted, MaxTables, MaxCalls,
    Services, Requesters, Startup, Shutdowns, Retries, Limited, Bounded, SlowStop, MaxSpawns,
    Requests, UserNames, MaxUsers, MaxTokens, MaxRequests,
    Tries, Peers, MaxFails, FailWindow, FailLock, MaxPeers, LoginTime, MaxWrong

(* RemoteNode: the agent keeps 512 events that it has not read, 2 would do. *)
ASSUME ClusterBounds ==
    /\ MaxSessions \in Nat /\ MaxOps \in Nat
    /\ EventCap \in Nat /\ EventCap >= 2

(* PlaneStore: the bounds are numbers. *)
ASSUME StoreBounds == MaxChanges \in Nat /\ StoreTroubles \in Nat

(* Scheduler: create_schedule refuses an interval below 30, 0 would do. *)
ASSUME ScheduleBounds == Every \in Nat

(* Automations: a rule is on a metric or on a crash; a day is not empty. *)
ASSUME RuleBounds ==
    /\ MetricRules \cap CrashRules = {}
    /\ Pause \in Nat /\ Hold \in Nat /\ Day \in Nat \ {0} /\ RuleTime \in Nat

(* PluginHost: no thread is the absence of one; there is a table at first. *)
ASSUME HostBounds == "nobody" \notin Threads /\ MaxTables \in Nat \ {0}

(* Supervisor: a service starts after what it depends on, never after       *)
(* nothing, and who asks for a start is neither a timer nor a monitor.       *)
ASSUME ServiceBounds ==
    /\ MaxSpawns \in Nat
    /\ Startup \in [Services -> Seq(Services)]
    /\ \A s \in Services : Startup[s] # <<>>
    /\ Shutdowns \subseteq Seq(Services)
    /\ Retries \in [Services -> [kind : {"never", "on_failure", "always"}, max : Nat]]
    /\ Limited \subseteq Services /\ Bounded \subseteq Services /\ SlowStop \subseteq Services
    /\ Requesters \cap ({"respawn", "single"} \X Services \X (1..MaxSpawns)) = {}

(* Accounts: there is room for two owners, and names for them. *)
ASSUME AccountBounds ==
    /\ MaxUsers \in Nat /\ MaxUsers >= 2
    /\ \E m, n \in UserNames : m # n

(* LoginGuard: 5 wrong passwords in 600 seconds lock for 900. *)
ASSUME LoginBounds ==
    /\ IsFiniteSet(Tries) /\ Peers # {}
    /\ MaxFails \in Nat \ {0} /\ FailWindow \in Nat /\ FailLock \in Nat /\ FailLock >= FailWindow

VARIABLES part, x1, x2, x3, x4, x5, x6, x7, x8, x9, x10, x11, x12
vars == <<part, x1, x2, x3, x4, x5, x6, x7, x8, x9, x10, x11, x12>>

-----------------------------------------------------------------------------
Cluster == INSTANCE RemoteNode WITH
    Callers <- Operators, Timer <- Restarter,
    rec <- x1, sender <- x2, sess <- x3, wire <- x4, agent <- x5, events <- x6,
    server <- x7, bus <- x8, task <- x9, ops <- x10, mishaps <- x11, missed <- x12

Store == INSTANCE PlaneStore WITH
    Ids <- Records, MaxTroubles <- StoreTroubles,
    instances <- x1, schedules <- x2, table <- x3, file <- x4, op <- x5, up <- x6,
    changes <- x7, troubles <- x8, given <- x9, settled <- x10

Timed == INSTANCE Scheduler WITH
    MaxTime <- ScheduleTime, MaxRestarts <- ScheduleRestarts,
    now <- x1, sched <- x2, saved <- x3, loop <- x4, restarts <- x5, ended <- x6, late <- x7

Automated == INSTANCE Automations WITH
    Instances <- Covered, MaxTime <- RuleTime, MaxRestarts <- RuleRestarts,
    now <- x1, rows <- x2, hold <- x3, stamps <- x4, ops <- x5, crash <- x6, restarts <- x7,
    fired <- x8, matched <- x9, backups <- x10

Plugins == INSTANCE PluginHost WITH
    Permissions <- Granted,
    table <- x1, slot <- x2, slotsLock <- x3, plugin <- x4, pluginLock <- x5, disk <- x6,
    thread <- x7, calls <- x8

(* Supervisor, with the theorems about it, which hold on these constants too. *)
Supervised == INSTANCE SupervisorProofs WITH
    Callers <- Requesters, StartupOrder <- Startup, ShutdownOrders <- Shutdowns,
    Policy <- Retries, Monitored <- Limited,
    rt <- x1, child <- x2, spawned <- x3, task <- x4

Sign == INSTANCE Accounts WITH
    Names <- UserNames, MaxAdmins <- MaxUsers, MaxSessions <- MaxTokens, MaxChanges <- MaxRequests,
    admins <- x1, nextId <- x2, sessions <- x3, req <- x4, used <- x5, crossed <- x6,
    verified <- x7

Guard == INSTANCE LoginGuard WITH
    Keys <- Peers, Window <- FailWindow, Lock <- FailLock, MaxKeys <- MaxPeers,
    MaxTime <- LoginTime,
    now <- x1, fails <- x2, row <- x3, try <- x4, wrong <- x5

Gate == INSTANCE Permissions WITH
    asked <- x1, verdict <- x2

-----------------------------------------------------------------------------
(* RemoteNode: an order of an operator is not lost while the agent stays,    *)
(* the plane says "running" only of a server that the agent has, and the      *)
(* sender it keeps of a node is one that is listened to. *)
NodesAreKnown ==
    part = "cluster" => Cluster!NoWishLost /\ Cluster!RunningIsReal /\ Cluster!SenderIsHeard

(* PlaneStore: control finds one list of instances that it had at every     *)
(* start, and what is on disk when nothing is under way is what is in memory. *)
StoreKeeps == part = "store" => Store!RecoversOneList /\ Store!DurableAtRest

(* Scheduler, Automations: the runs of a schedule keep their distance, and a *)
(* daily backup is made once a day. *)
RunsKeepTheirDistance ==
    /\ part = "schedules" => Timed!RunsKeepTheirDistance
    /\ part = "rules" => Automated!DailyBackupOnce

(* Automations: a rule on a metric rests between two firings. *)
MetricRulesRest == [][part = "rules" => Automated!MetricRuleStep]_vars

(* PluginHost: threads do not wait for one another in a circle, and a plugin *)
(* runs one export at a time. *)
PluginsTakeTurns == part = "plugins" => Plugins!NoLockCycle /\ Plugins!PluginRunsAlone

(* Supervisor: what runs is supervised, and a back-off has its timer, also   *)
(* when a failure runs down a chain of services. *)
ServicesAreSupervised ==
    part = "services" => Supervised!RunningIsSupervised /\ Supervised!BackoffHasTimer

(* Accounts, LoginGuard, Permissions: an owner and the sessions of the      *)
(* living remain, tries are bounded, and a role can do what a lesser can. *)
SignInSound ==
    /\ part = "accounts" => Sign!AccountsSound
    /\ part = "guard" => Guard!TriesBounded
    /\ part = "gate" => Gate!RolesNest
=============================================================================
