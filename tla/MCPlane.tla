------------------------------- MODULE MCPlane -------------------------------
(***************************************************************************)
(* The components beside the lifecycle and init's session, each on an       *)
(* instance of its own.  They share no state here, so a behaviour moves     *)
(* one of them only: "part" says which.  PlaneParts has those of them that  *)
(* theorems are proved of.                                                  *)
(***************************************************************************)
EXTENDS PlaneParts, FiniteSets, TLC

CONSTANTS a1, timer, i1, i2, p1, p2, t1, t2, web, db

-----------------------------------------------------------------------------
(* Supervisor: web depends on db, and is restarted once. *)
Chain == [s \in {web, db} |-> IF s = web THEN <<db, web>> ELSE <<db>>]
WholeStop == {<<web, db>>}
WebRetries == [s \in {web, db} |-> [kind |-> IF s = web THEN "on_failure" ELSE "never", max |-> 1]]

(* BackupStore: one snapshot of the last day, one of the last two. *)
TheLimits == 1 :> 1 @@ 2 :> 1

(* AlertRules: rules that look up, down and not at a time, and inhibitions   *)
(* in a chain and in a circle. *)
AlertRule(cmp, threshold, hold) == [cmp |-> cmp, threshold |-> threshold, hold |-> hold]
TheAlertRules ==
    [cpu |-> AlertRule("gt", 0, 1), disk |-> AlertRule("lte", 0, 1), players |-> AlertRule("lt", 1, 0)]
TheInhibitions ==
    {{<<"cpu", "disk">>, <<"disk", "players">>}, {<<"cpu", "players">>, <<"players", "cpu">>}}

(* Cron: values, ranges and steps inside, outside and at the ends of a field. *)
Item(kind, from, to, step) == [kind |-> kind, from |-> from, to |-> to, step |-> step]
TheItems ==
    {Item("all", 0, 0, 0), Item("all", 0, 0, 2), Item("value", 2, 0, 0), Item("value", 7, 0, 0),
     Item("value", 2, 0, 2), Item("range", 1, 3, 0), Item("range", 3, 2, 0), Item("range", 0, 2, 2),
     Item("range", 2, 9, 3)}

(* Placement: two nodes with and without a label, room and load. *)
TheFacts ==
    {f \in [state : {"active", "draining"}, labels : {{}, {"ssd"}}, cpu : {10, 60}, used : {2, 6},
            total : {8}, disk : {0, 5}, count : {1, 2}, max : {0, 2}] :
        f.state = "draining" => f.cpu = 10 /\ f.used = 2}
TheRequests ==
    {[pinned |-> 0, required |-> {}, avoid |-> {"ssd"}, mem |-> 4, disk |-> 0],
     [pinned |-> 1, required |-> {"ssd"}, avoid |-> {}, mem |-> 0, disk |-> 5]}

(* StorageUpload: two keys of one stem. *)
TheKeys == [zip |-> "a", sql |-> "a", log |-> "b"]

(* PluginSet: three plugins, one of which may provide a fourth or occur twice. *)
Dep(id, kind, op) == [id |-> id, kind |-> kind, clauses |-> {<<op, <<1, 0, 0>>>>}]
Wants ==
    {{}, {Dep(1, "required", "^")}, {Dep(2, "required", ">=")}, {Dep(3, "optional", "~")},
     {Dep(4, "required", "^")}, {Dep(1, "conflict", ">=")},
     {Dep(1, "required", "<="), Dep(2, "optional", "^")}, {Dep(4, "required", ">="), Dep(3, "required", "<")}}
Plugin(id, version, provides, depends) ==
    [id |-> id, version |-> version, provides |-> provides, depends |-> depends, fits |-> TRUE]
TheSets ==
    {<<Plugin(1, <<1, 0, 0>>, {}, d1), Plugin(2, v, p, d2), Plugin(c, <<1, 0, 2>>, {}, d3)>> :
        c \in {1, 3}, v \in {<<1, 0, 0>>, <<2, 1, 0>>}, p \in {{}, {4}},
        d1 \in Wants, d2 \in Wants, d3 \in Wants}
TheLatest == {[i \in 1..3 |-> <<1, 1, 0>>], [i \in {1, 2} |-> <<2, 2, 0>>]}

(* Requests and persisters are alike. *)
Swap == Permutations({p1, p2})

-----------------------------------------------------------------------------
Policy == INSTANCE Policies WITH
    RoleIds <- {"r1", "r2", "r3"}, Builtin <- {"r1", "r2"}, Users <- {"u"}, Scopes <- {"s1"},
    Hops <- 4, MaxTime <- 1, MaxOps <- 1,
    now <- x1, roles <- x2, groups <- x3, grants <- x4, ops <- x5

Places == INSTANCE Catalogue WITH
    Requests <- {p1, p2}, Dirs <- {<<"a">>, <<"a", "b">>}, Ports <- {25570},
    Nodes <- {"local", "n1"}, MaxInstances <- 3, MaxRequests <- 3,
    inst <- x1, nextId <- x2, req <- x3, used <- x4, moved <- x5, samePort <- x6,
    sameDir <- x7

Contents == INSTANCE Workdir WITH
    Requests <- {p1, p2}, Versions <- {2, 3}, Keep <- 1, MaxTime <- 1, MaxRequests <- 2,
    now <- x1, up <- x2, dir <- x3, command <- x4, leftover <- x5, tmpZip <- x6,
    backups <- x7, births <- x8, req <- x9, used <- x10

Backups == INSTANCE BackupStore WITH
    Callers <- {p1, p2}, Files <- {i1, i2}, Chunks <- {1, 2}, Limits <- TheLimits,
    MaxSnapshots <- 3, MaxCalls <- 3,
    work <- x1, objects <- x2, snaps <- x3, clock <- x4, call <- x5, used <- x6, raced <- x7

Blocks == INSTANCE NetRules WITH
    Callers <- {a1}, Timer <- timer, Ids <- {1, 2}, Instances <- {i1}, Ports <- {1}, MaxCalls <- 2,
    backend <- x1, rows <- x2, port <- x3, kernel <- x4, banned <- x5, task <- x6,
    used <- x7, trouble <- x8, lapsed <- x9

Traffic == INSTANCE NetMonitor WITH
    Sources <- {i1, i2}, Kept <- 1, MaxBytes <- 2, MaxSamples <- 3,
    kind <- x1, count <- x2, prev <- x3, shown <- x4, moved <- x5, samples <- x6

Process == INSTANCE ServerProcess WITH
    Kinds <- {"child", "adopted", "container", "demo"}, PipeCap <- 2, MaxLaunches <- 2,
    MaxCommands <- 3,
    kind <- x1, launch <- x2, server <- x3, box <- x4, entry <- x5, order <- x6, sup <- x7,
    told <- x8, pipe <- x9, holders <- x10, used <- x11, odd <- x12

Java == INSTANCE JavaRuntimes WITH
    Callers <- {p1, p2}, Versions <- {<<20, 4>>, <<20, 5>>}, System <- 17, MaxCalls <- 2,
    MaxTroubles <- 2,
    templates <- x1, jre <- x2, staging <- x3, lock <- x4, call <- x5, answer <- x6,
    used <- x7, troubles <- x8, odd <- x9

Core == INSTANCE CoreInstall WITH
    Cores <- {"paper", "fabric", "leaves", "mohist", "arclight", "forge", "neoforge", "vanilla"},
    Games <- {1, 2}, Builds <- 3, MaxInstalls <- 2, MaxTroubles <- 1,
    core <- x1, feed <- x2, task <- x3, jar <- x4, args <- x5, runaway <- x6, started <- x7,
    used <- x8, troubles <- x9

Messages == INSTANCE Alerts WITH
    Texts <- {"t1"}, Apps <- {"a", "b"}, Quiet <- 2, Every <- 1, Life <- 3, Margin <- 1,
    MaxTime <- 3, MaxSenders <- 2, MaxTroubles <- 1,
    now <- x1, app <- x2, seen <- x3, last <- x4, token <- x5, senders <- x6, passed <- x7,
    near <- x8, changed <- x9, mixed <- x10, late <- x11, troubles <- x12

Series == INSTANCE MetricSeries WITH
    Threads <- {t1, t2}, Bounds <- {1, 2}, MaxAdds <- 2,
    kind <- x1, reg <- x2, cells <- x3, task <- x4, hist <- x5, used <- x6, counted <- x7,
    observed <- x8

Alerting == INSTANCE AlertRules WITH
    Rules <- TheAlertRules, Inhibitions <- TheInhibitions, MaxTime <- 2, MaxOps <- 1,
    now <- x1, inhibits <- x2, enabled <- x3, since <- x4, until <- x5, report <- x6,
    ops <- x7, due <- x8, below <- x9

Flows == INSTANCE Workflows WITH
    StepIds <- {"a", "b", "c", "x"}, Lists <- {<<>>, <<"a", "b", "c">>, <<"b", "a", "a">>},
    steps <- x1, fallback <- x2, indegree <- x3, current <- x4, layers <- x5

Clock == INSTANCE Cron WITH
    Items <- TheItems, Lowest <- 1, Highest <- 4, Minute <- 3, Gap <- 3, Horizon <- 12,
    items <- x1, now <- x2, last <- x3, ran <- x4, missed <- x5

Audit == INSTANCE AuditChain WITH
    Parts <- {<<"a">>, <<"a", "|", "a">>}, MaxEntries <- 3, MaxDamage <- 2,
    chain <- x1, damage <- x2, written <- x3

Placing == INSTANCE Placement WITH
    Facts <- TheFacts, Requests <- TheRequests, Ports <- 2, MaxOn <- 2,
    facts <- x1, req <- x2, taken <- x3, on <- x4, room <- x5

Uploads == INSTANCE StorageUpload WITH
    Writers <- {"w1", "w2"}, Keys <- TheKeys, MaxWrites <- 3, MaxTroubles <- 1,
    encrypt <- x1, object <- x2, tmp <- x3, task <- x4, used <- x5, troubles <- x6,
    answer <- x7, proven <- x8, latest <- x9, crossed <- x10

Resolved == INSTANCE PluginSet WITH
    Sets <- TheSets, Latest <- TheLatest,
    installed <- x1, latest <- x2, indegree <- x3, queue <- x4, order <- x5

Contract == INSTANCE InitApi WITH
    method <- x1, sent <- x2, large <- x3, session <- x4, pc <- x5, answer <- x6

Moves == INSTANCE Transfers WITH
    Size <- 2, BusCap <- 2, MaxTroubles <- 1,
    kind <- x1, place <- x2, out <- x3, reply <- x4, pipe <- x5, bus <- x6, caller <- x7,
    last <- x8, shown <- x9, up <- x10, troubles <- x11, mishap <- x12

Init ==
    \/ part = "cluster" /\ Cluster!Init
    \/ part = "store" /\ Store!Init /\ x11 = 0 /\ x12 = 0
    \/ part = "schedules" /\ Timed!Init /\ x8 = 0 /\ x9 = 0 /\ x10 = 0 /\ x11 = 0 /\ x12 = 0
    \/ part = "rules" /\ Automated!Init /\ x11 = 0 /\ x12 = 0
    \/ part = "plugins" /\ Plugins!Init /\ x9 = 0 /\ x10 = 0 /\ x11 = 0 /\ x12 = 0
    \/ part = "services" /\ Supervised!Init /\ x5 = 0 /\ x6 = 0 /\ x7 = 0 /\ x8 = 0 /\ x9 = 0 /\ x10 = 0 /\ x11 = 0 /\ x12 = 0
    \/ part = "accounts" /\ Sign!Init /\ x8 = 0 /\ x9 = 0 /\ x10 = 0 /\ x11 = 0 /\ x12 = 0
    \/ part = "guard" /\ Guard!Init /\ x6 = 0 /\ x7 = 0 /\ x8 = 0 /\ x9 = 0 /\ x10 = 0 /\ x11 = 0 /\ x12 = 0
    \/ part = "gate" /\ Gate!Init /\ x3 = 0 /\ x4 = 0 /\ x5 = 0 /\ x6 = 0 /\ x7 = 0 /\ x8 = 0 /\ x9 = 0 /\ x10 = 0 /\ x11 = 0 /\ x12 = 0
    \/ part = "policies" /\ Policy!Init /\ x6 = 0 /\ x7 = 0 /\ x8 = 0 /\ x9 = 0 /\ x10 = 0 /\ x11 = 0 /\ x12 = 0
    \/ part = "catalogue" /\ Places!Init /\ x8 = 0 /\ x9 = 0 /\ x10 = 0 /\ x11 = 0 /\ x12 = 0
    \/ part = "workdir" /\ Contents!Init /\ x11 = 0 /\ x12 = 0
    \/ part = "backups" /\ Backups!Init /\ x8 = 0 /\ x9 = 0 /\ x10 = 0 /\ x11 = 0 /\ x12 = 0
    \/ part = "netrules" /\ Blocks!Init /\ x10 = 0 /\ x11 = 0 /\ x12 = 0
    \/ part = "netmonitor" /\ Traffic!Init /\ x7 = 0 /\ x8 = 0 /\ x9 = 0 /\ x10 = 0 /\ x11 = 0 /\ x12 = 0
    \/ part = "process" /\ Process!Init
    \/ part = "java" /\ Java!Init /\ x10 = 0 /\ x11 = 0 /\ x12 = 0
    \/ part = "core" /\ Core!Init /\ x10 = 0 /\ x11 = 0 /\ x12 = 0
    \/ part = "alerts" /\ Messages!Init
    \/ part = "series" /\ Series!Init /\ x9 = 0 /\ x10 = 0 /\ x11 = 0 /\ x12 = 0
    \/ part = "alerting" /\ Alerting!Init /\ x10 = 0 /\ x11 = 0 /\ x12 = 0
    \/ part = "workflows" /\ Flows!Init /\ x6 = 0 /\ x7 = 0 /\ x8 = 0 /\ x9 = 0 /\ x10 = 0 /\ x11 = 0 /\ x12 = 0
    \/ part = "cron" /\ Clock!Init /\ x6 = 0 /\ x7 = 0 /\ x8 = 0 /\ x9 = 0 /\ x10 = 0 /\ x11 = 0 /\ x12 = 0
    \/ part = "audit" /\ Audit!Init /\ x4 = 0 /\ x5 = 0 /\ x6 = 0 /\ x7 = 0 /\ x8 = 0 /\ x9 = 0 /\ x10 = 0 /\ x11 = 0 /\ x12 = 0
    \/ part = "placement" /\ Placing!Init /\ x6 = 0 /\ x7 = 0 /\ x8 = 0 /\ x9 = 0 /\ x10 = 0 /\ x11 = 0 /\ x12 = 0
    \/ part = "uploads" /\ Uploads!Init /\ x11 = 0 /\ x12 = 0
    \/ part = "pluginset" /\ Resolved!Init /\ x6 = 0 /\ x7 = 0 /\ x8 = 0 /\ x9 = 0 /\ x10 = 0 /\ x11 = 0 /\ x12 = 0
    \/ part = "initapi" /\ Contract!Init /\ x7 = 0 /\ x8 = 0 /\ x9 = 0 /\ x10 = 0 /\ x11 = 0 /\ x12 = 0
    \/ part = "transfers" /\ Moves!Init

Next ==
    \/ part = "cluster" /\ Cluster!Next /\ UNCHANGED part
    \/ part = "store" /\ Store!Next /\ UNCHANGED <<part, x11, x12>>
    \/ part = "schedules" /\ Timed!Next /\ UNCHANGED <<part, x8, x9, x10, x11, x12>>
    \/ part = "rules" /\ Automated!Next /\ UNCHANGED <<part, x11, x12>>
    \/ part = "plugins" /\ Plugins!Next /\ UNCHANGED <<part, x9, x10, x11, x12>>
    \/ part = "services" /\ Supervised!Next /\ UNCHANGED <<part, x5, x6, x7, x8, x9, x10, x11, x12>>
    \/ part = "accounts" /\ Sign!Next /\ UNCHANGED <<part, x8, x9, x10, x11, x12>>
    \/ part = "guard" /\ Guard!Next /\ UNCHANGED <<part, x6, x7, x8, x9, x10, x11, x12>>
    \/ part = "gate" /\ Gate!Next /\ UNCHANGED <<part, x3, x4, x5, x6, x7, x8, x9, x10, x11, x12>>
    \/ part = "policies" /\ Policy!Next /\ UNCHANGED <<part, x6, x7, x8, x9, x10, x11, x12>>
    \/ part = "catalogue" /\ Places!Next /\ UNCHANGED <<part, x8, x9, x10, x11, x12>>
    \/ part = "workdir" /\ Contents!Next /\ UNCHANGED <<part, x11, x12>>
    \/ part = "backups" /\ Backups!Next /\ UNCHANGED <<part, x8, x9, x10, x11, x12>>
    \/ part = "netrules" /\ Blocks!Next /\ UNCHANGED <<part, x10, x11, x12>>
    \/ part = "netmonitor" /\ Traffic!Next /\ UNCHANGED <<part, x7, x8, x9, x10, x11, x12>>
    \/ part = "process" /\ Process!Next /\ UNCHANGED part
    \/ part = "java" /\ Java!Next /\ UNCHANGED <<part, x10, x11, x12>>
    \/ part = "core" /\ Core!Next /\ UNCHANGED <<part, x10, x11, x12>>
    \/ part = "alerts" /\ Messages!Next /\ UNCHANGED part
    \/ part = "series" /\ Series!Next /\ UNCHANGED <<part, x9, x10, x11, x12>>
    \/ part = "alerting" /\ Alerting!Next /\ UNCHANGED <<part, x10, x11, x12>>
    \/ part = "workflows" /\ Flows!Next /\ UNCHANGED <<part, x6, x7, x8, x9, x10, x11, x12>>
    \/ part = "cron" /\ Clock!Next /\ UNCHANGED <<part, x6, x7, x8, x9, x10, x11, x12>>
    \/ part = "audit" /\ Audit!Next /\ UNCHANGED <<part, x4, x5, x6, x7, x8, x9, x10, x11, x12>>
    \/ part = "placement" /\ Placing!Next /\ UNCHANGED <<part, x6, x7, x8, x9, x10, x11, x12>>
    \/ part = "uploads" /\ Uploads!Next /\ UNCHANGED <<part, x11, x12>>
    \/ part = "pluginset" /\ Resolved!Next /\ UNCHANGED <<part, x6, x7, x8, x9, x10, x11, x12>>
    \/ part = "initapi" /\ Contract!Next /\ UNCHANGED <<part, x7, x8, x9, x10, x11, x12>>
    \/ part = "transfers" /\ Moves!Next /\ UNCHANGED part

Spec == Init /\ [][Next]_vars

(* Bound: the chain of services has three processes in all: one of each and  *)
(* the successor of one. *)
OneSuccessor == part = "services" => x3[web] + x3[db] <= 3

(* Every component is type-correct. *)
TypesOK ==
    /\ part = "cluster" => Cluster!TypeOK
    /\ part = "store" => Store!TypeOK
    /\ part = "schedules" => Timed!TypeOK
    /\ part = "rules" => Automated!TypeOK
    /\ part = "plugins" => Plugins!TypeOK
    /\ part = "services" => Supervised!TypeOK
    /\ part = "accounts" => Sign!TypeOK
    /\ part = "guard" => Guard!TypeOK
    /\ part = "gate" => Gate!TypeOK
    /\ part = "policies" => Policy!TypeOK
    /\ part = "catalogue" => Places!TypeOK
    /\ part = "workdir" => Contents!TypeOK
    /\ part = "backups" => Backups!TypeOK
    /\ part = "netrules" => Blocks!TypeOK
    /\ part = "netmonitor" => Traffic!TypeOK
    /\ part = "process" => Process!TypeOK
    /\ part = "java" => Java!TypeOK
    /\ part = "core" => Core!TypeOK
    /\ part = "alerts" => Messages!TypeOK
    /\ part = "series" => Series!TypeOK
    /\ part = "alerting" => Alerting!TypeOK
    /\ part = "workflows" => Flows!TypeOK
    /\ part = "cron" => Clock!TypeOK
    /\ part = "audit" => Audit!TypeOK
    /\ part = "placement" => Placing!TypeOK
    /\ part = "uploads" => Uploads!TypeOK
    /\ part = "pluginset" => Resolved!TypeOK
    /\ part = "initapi" => Contract!TypeOK
    /\ part = "transfers" => Moves!TypeOK

-----------------------------------------------------------------------------
(* Catalogue, Workdir, BackupStore: two instances do not get one directory   *)
(* or one port, an instance starts what its directory holds, a restored or    *)
(* imported one is one of those that were, and a listed snapshot can be       *)
(* restored. *)
FilesAreWhole ==
    /\ part = "catalogue" => Places!EachHasItsPlace
    /\ part = "workdir" => Contents!DoesWhatItSays
    /\ part = "backups" => Backups!StoreSound

(* NetRules, NetMonitor: a block that is shown as applied is in force, and   *)
(* no traffic is shown that did not flow. *)
NetworkIsHonest ==
    /\ part = "netrules" => Blocks!BlocksAreHonest
    /\ part = "netmonitor" => Traffic!NothingMadeUp

(* ServerProcess, JavaRuntimes, CoreInstall: a server starts the build that  *)
(* was installed, with a Java that is whole and new enough; its end is told   *)
(* when it is gone, and no order outlives the server it was for. *)
ServersRunAsInstalled ==
    /\ part = "process" => Process!ServersEndCleanly
    /\ part = "java" => Java!JavaSound
    /\ part = "core" => Core!CoreSound

(* Alerts, AlertRules, MetricSeries: no count is lost, an alert stands for a *)
(* trouble that lasted, and is passed on once and by the bot that is set. *)
AlertsAreTrue ==
    /\ part = "alerts" => Messages!AlertsSound
    /\ part = "alerting" => Alerting!RulesSound
    /\ part = "series" => Series!SeriesSound

(* Workflows, Cron, AuditChain, Placement, StorageUpload, PluginSet,         *)
(* Policies: the libraries compute what they are asked for, by independent   *)
(* definitions of it. *)
LibrariesAgree ==
    /\ part = "workflows" => Flows!WorkflowsSound
    /\ part = "cron" => Clock!CronSound
    /\ part = "audit" => Audit!VerifiedIsWhatWasWritten
    /\ part = "placement" => Placing!PlacementSound
    /\ part = "uploads" => Uploads!UploadSound
    /\ part = "pluginset" => Resolved!SetsSound
    /\ part = "policies" => Policy!PoliciesSound

(* InitApi, Transfers: init understands what control sends, and a transfer   *)
(* ends as its caller is told. *)
InitIsUnderstood ==
    /\ part = "initapi" => Contract!UnderstoodElsewhere
    /\ part = "transfers" => Moves!TransfersSound
=============================================================================
