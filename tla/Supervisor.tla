----------------------------- MODULE Supervisor -----------------------------
(***************************************************************************)
(* The local service supervisor of cocktail-control (supervisor.rs).       *)
(*                                                                         *)
(* A service has one runtime record behind a lock (rt).  Everything that   *)
(* touches it is a task of its own: an API caller inside start / stop /    *)
(* restart / shutdown_all, the watcher of one child process, the back-off  *)
(* timer a watcher left behind, the resource monitor of one child.  A task *)
(* holds the lock for one step at a time, so an action below is one        *)
(* critical section (or one wait) and tasks interleave between them.       *)
(*                                                                         *)
(* A child of a service is named by the order of its creation; 0 is none.  *)
(***************************************************************************)
EXTENDS Naturals, Sequences, FiniteSets, SequencesExt

CONSTANTS
    Services,
    Callers,         \* tasks that use the public API, one call at a time
    StartupOrder,    \* startup_order(s): a sequence of services ending in s
    ShutdownOrders,  \* the sequences all_shutdown_order() may return
    Policy,          \* restart policy: [kind, max]
    Monitored,       \* services with a memory or CPU limit and action Restart
    Bounded,         \* services whose permission boundary may reject a spawn
    SlowStop,        \* services whose stop can outlast the 60 s of stop_one
    MaxSpawns        \* bound: children the operating system creates per service

PolicyType == [kind : {"never", "on_failure", "always"}, max : Nat]

ASSUME SupervisorAssumption ==
    /\ MaxSpawns \in Nat
    /\ StartupOrder \in [Services -> Seq(Services)]
    /\ \A s \in Services : StartupOrder[s] # <<>>
    /\ ShutdownOrders \subseteq Seq(Services)
    /\ Policy \in [Services -> PolicyType]
    /\ Monitored \subseteq Services
    /\ Bounded \subseteq Services
    /\ SlowStop \subseteq Services
    /\ Callers \cap ({"respawn", "single"} \X Services \X (1..MaxSpawns)) = {}

Children == 1..MaxSpawns
NoChild == 0
Timers == {"respawn"} \X Services \X Children
Monitors == {"single"} \X Services \X Children
Tasks == Callers \cup Timers \cup Monitors

VARIABLES
    rt,       \* rt[s]: the ServiceRuntime of s
    child,    \* child[s][c]: the c-th process of s and its watcher
    spawned,  \* spawned[s]: how many processes of s were created
    task      \* task[a]: where task a is in its operation

vars == <<rt, child, spawned, task>>
-----------------------------------------------------------------------------
States == {"Stopped", "Starting", "Running", "Stopping", "Backoff", "Failed"}

\* pid, client and stopTx name the child they belong to; stopTx is the sender
\* of that child's stop channel, so replacing it closes the channel.
RuntimeType ==
    [state : States, pid : 0..MaxSpawns, client : 0..MaxSpawns,
     stopTx : 0..MaxSpawns, generation : Nat, restarts : Nat,
     stopping : BOOLEAN]

\* A watcher waits ("select"), stops its child ("graceful") or has a failure
\* to pass on ("cascade").  "held" is a child between its spawn and its
\* installation, "leaked" one whose log file could not be opened: the handle
\* is dropped, the process lives on and never gets a watcher.
Phases == {"none", "held", "leaked", "select", "graceful", "cascade", "done"}

\* What a task is doing, and the point it has reached.
Ops == {"none", "start", "stop", "shutdown", "respawn", "single"}
Points == {"idle", "check", "mark", "exec", "install", "cascade", "stop",
           "wait", "final", "bump", "sleep", "watch", "sampled"}

\* gen: the generation its watcher carries; by: the operation that created it.
ChildType == [phase : Phases, alive : BOOLEAN, gen : Nat,
              by : Ops]

\* todo: the services still to visit, the current one first; then: the startup
\* order restart() walks once its stop walk is over; child: the process held,
\* or the one whose watcher is awaited.
TaskType == [op : Ops, pc : Points,
             todo : Seq(Services), then : Seq(Services), child : 0..MaxSpawns]

Idle == [op |-> "none", pc |-> "idle", todo |-> <<>>, then |-> <<>>,
         child |-> NoChild]
FreshRuntime == [state |-> "Stopped", pid |-> NoChild, client |-> NoChild,
                 stopTx |-> NoChild, generation |-> 0, restarts |-> 0,
                 stopping |-> FALSE]
FreshChild == [phase |-> "none", alive |-> FALSE, gen |-> 0, by |-> "none"]

Init ==
    /\ rt = [s \in Services |-> FreshRuntime]
    /\ child = [s \in Services |-> [c \in Children |-> FreshChild]]
    /\ spawned = [s \in Services |-> 0]
    /\ task = [a \in Tasks |-> Idle]
-----------------------------------------------------------------------------
(* Where a task stands and where it goes next.                             *)

At(a, p) == task[a].pc = p
Current(a) == Head(task[a].todo)

Walk(op, p, order, then) ==
    IF order = <<>> THEN Idle
    ELSE [op |-> op, pc |-> p, todo |-> order, then |-> then, child |-> NoChild]

Become(a, t) == task' = [task EXCEPT ![a] = t]
Goto(a, p) == Become(a, [task[a] EXCEPT !.pc = p])

\* The current service is up, or was skipped: start() goes on with the next.
AfterSpawn(a) == Walk(task[a].op, "check", Tail(task[a].todo), <<>>)

\* stop_one returned: the stop walk goes on; restart() then starts again, and
\* restart_single counts the restart.
AfterStop(a) ==
    CASE task[a].op = "single" ->
            [task[a] EXCEPT !.pc = "bump", !.child = NoChild]
      [] task[a].op # "single" /\ Tail(task[a].todo) # <<>> ->
            Walk(task[a].op, "stop", Tail(task[a].todo), task[a].then)
      [] OTHER -> Walk("start", "check", task[a].then, <<>>)
-----------------------------------------------------------------------------
(* The public API: what a caller may begin.                                *)

Start(a, s) ==
    /\ At(a, "idle")
    /\ Become(a, Walk("start", "check", StartupOrder[s], <<>>))
    /\ UNCHANGED <<rt, child, spawned>>

Stop(a, s) ==
    /\ At(a, "idle")
    /\ Become(a, Walk("stop", "stop", Reverse(StartupOrder[s]), <<>>))
    /\ UNCHANGED <<rt, child, spawned>>

Restart(a, s) ==
    /\ At(a, "idle")
    /\ Become(a, Walk("stop", "stop", Reverse(StartupOrder[s]), StartupOrder[s]))
    /\ UNCHANGED <<rt, child, spawned>>

ShutdownAll(a) ==
    /\ At(a, "idle")
    /\ \E order \in ShutdownOrders :
          Become(a, Walk("shutdown", "stop", order, <<>>))
    /\ UNCHANGED <<rt, child, spawned>>

\* The skip test of start(), under the read lock only.
CheckSkip(a) ==
    /\ At(a, "check")
    /\ IF rt[Current(a)].state \in {"Running", "Starting"}
       THEN Become(a, AfterSpawn(a))
       ELSE Goto(a, "mark")
    /\ UNCHANGED <<rt, child, spawned>>
-----------------------------------------------------------------------------
(* spawn_and_watch.                                                        *)

MarkStarting(a) ==
    /\ At(a, "mark")
    /\ rt' = [rt EXCEPT ![Current(a)].state = "Starting",
                        ![Current(a)].stopping = FALSE]
    /\ Goto(a, "exec")
    /\ UNCHANGED <<child, spawned>>

\* The permission boundary rejects program or cwd: mark_failed, and then (a
\* lock of its own) cascade_failure.
Reject(a) ==
    /\ At(a, "exec")
    /\ Current(a) \in Bounded
    /\ rt' = [rt EXCEPT ![Current(a)].state = "Failed",
                        ![Current(a)].pid = NoChild]
    /\ Goto(a, "cascade")
    /\ UNCHANGED <<child, spawned>>

Downstream(s) ==
    {t \in Services \ {s} :
        \E i \in DOMAIN StartupOrder[t] : StartupOrder[t][i] = s}

Cascade_FlagOnly(s) ==  \* seeded fault: victims keep their state
    rt' = [t \in Services |->
             IF t \in Downstream(s) /\ rt[t].state # "Stopped"
             THEN [rt[t] EXCEPT !.stopping = TRUE]
             ELSE rt[t]]

\* cascade_failure: every transitive dependent that is not Stopped.
Cascade(s) ==
    rt' = [t \in Services |->
             IF t \in Downstream(s) /\ rt[t].state # "Stopped"
             THEN [rt[t] EXCEPT !.state = "Failed", !.stopping = TRUE]
             ELSE rt[t]]

CascadeRejected(a) ==
    /\ At(a, "cascade")
    /\ Cascade(Current(a))
    /\ Become(a, Idle)
    /\ UNCHANGED <<child, spawned>>

\* The process cannot be created: the error ends the whole operation and the
\* service keeps the state Starting.
SpawnError(a) ==
    /\ At(a, "exec")
    /\ Become(a, Idle)
    /\ UNCHANGED <<rt, child, spawned>>

NextChild_Skips(s) == spawned[s] + 2  \* seeded fault
NextChild(s) == spawned[s] + 1

NewChild(s, by, p) ==
    /\ spawned[s] < MaxSpawns
    /\ spawned' = [spawned EXCEPT ![s] = @ + 1]
    /\ child' = [child EXCEPT ![s][NextChild(s)] =
                    [phase |-> p, alive |-> TRUE, gen |-> 0, by |-> by]]

\* The process exists, but opening its log fails: kill_on_drop is off.
LogOpenError(a) ==
    /\ At(a, "exec")
    /\ NewChild(Current(a), task[a].op, "leaked")
    /\ Become(a, Idle)
    /\ UNCHANGED rt

Exec(a) ==
    /\ At(a, "exec")
    /\ NewChild(Current(a), task[a].op, "held")
    /\ Become(a, [task[a] EXCEPT !.pc = "install",
                                 !.child = NextChild(Current(a))])
    /\ UNCHANGED rt

Installed_SameGeneration(r, c) ==  \* seeded fault
    [r EXCEPT !.state = "Running", !.pid = c, !.client = c, !.stopTx = c]
Installed(r, c) ==
    [r EXCEPT !.generation = @ + 1, !.state = "Running",
              !.pid = c, !.client = c, !.stopTx = c]

\* The second critical section of spawn_and_watch, and the start of the
\* watcher and of the monitor.  Whatever happened since MarkStarting is not
\* looked at.
Install(a) ==
    LET s == Current(a)
        c == task[a].child
        t == [task EXCEPT ![a] = AfterSpawn(a)]
    IN  /\ At(a, "install")
        /\ rt' = [rt EXCEPT ![s] = Installed(@, c)]
        /\ child' = [child EXCEPT ![s][c].phase = "select",
                                  ![s][c].gen = rt[s].generation + 1]
        /\ task' = IF s \in Monitored
                   THEN [t EXCEPT ![<<"single", s, c>>] =
                            [op |-> "single", pc |-> "watch", todo |-> <<s>>,
                             then |-> <<>>, child |-> NoChild]]
                   ELSE t
        /\ UNCHANGED spawned
-----------------------------------------------------------------------------
(* stop_one.                                                               *)

BeingStopped_StateKept(r) ==  \* seeded fault: no Stopping
    [r EXCEPT !.stopping = TRUE, !.stopTx = NoChild]
BeingStopped(r) ==
    [r EXCEPT !.state = "Stopping", !.stopping = TRUE, !.stopTx = NoChild]

\* Stopped and Failed return at once; otherwise the sender is taken and the
\* request sent (the channel is empty, so sending does not wait).
StopMark(a) ==
    LET s == Current(a)
    IN  /\ At(a, "stop")
        /\ IF rt[s].state \in {"Stopped", "Failed"}
           THEN /\ Become(a, AfterStop(a))
                /\ UNCHANGED rt
           ELSE /\ rt' = [rt EXCEPT ![s] = BeingStopped(@)]
                /\ Become(a, [task[a] EXCEPT
                        !.pc = IF rt[s].stopTx = NoChild THEN "final" ELSE "wait",
                        !.child = rt[s].stopTx])
        /\ UNCHANGED <<child, spawned>>

\* The watcher answered, or it ended and dropped the request with its channel.
StopAnswered(a) ==
    /\ At(a, "wait")
    /\ child[Current(a)][task[a].child].phase = "done"
    /\ Goto(a, "final")
    /\ UNCHANGED <<rt, child, spawned>>

StopTimedOut(a) ==
    /\ At(a, "wait")
    /\ Current(a) \in SlowStop
    /\ Goto(a, "final")
    /\ UNCHANGED <<rt, child, spawned>>

Cleared(r) == [r EXCEPT !.state = "Stopped", !.pid = NoChild,
                        !.client = NoChild, !.stopTx = NoChild,
                        !.stopping = FALSE]

\* The last write of stop_one: unconditional, whatever generation is installed.
StopFinal(a) ==
    /\ At(a, "final")
    /\ rt' = [rt EXCEPT ![Current(a)] = Cleared(@)]
    /\ Become(a, AfterStop(a))
    /\ UNCHANGED <<child, spawned>>
-----------------------------------------------------------------------------
(* The child process and its watcher.                                      *)

\* The process ends by itself, or because its watcher stops it.
ChildDies(s, c) ==
    /\ child[s][c].alive
    /\ child' = [child EXCEPT ![s][c].alive = FALSE]
    /\ UNCHANGED <<rt, spawned, task>>

Owns_Unchecked(s, c) == TRUE  \* seeded fault: no generation test
Owns(s, c) == rt[s].generation = child[s][c].gen
WatcherTo(s, c, p) == child' = [child EXCEPT ![s][c].phase = p]

\* stop_rx.recv() returns: a request, or None once the sender was dropped;
\* either way the sender is no longer in the runtime.
SenderGone_OnlyTaken(s, c) == rt[s].stopTx = NoChild  \* seeded fault
SenderGone(s, c) == rt[s].stopTx # c

StopRequested(s, c) ==
    /\ child[s][c].phase = "select"
    /\ SenderGone(s, c)
    /\ WatcherTo(s, c, "graceful")
    /\ UNCHANGED <<rt, spawned, task>>

\* graceful_stop returned; done.send wakes the caller of stop_one.
GracefullyStopped_NoAnswer(s, c) ==  \* seeded fault: done is never sent
    /\ child[s][c].phase = "graceful"
    /\ ~child[s][c].alive
    /\ rt' = [rt EXCEPT ![s] = IF Owns(s, c) THEN Cleared(@) ELSE @]
    /\ UNCHANGED <<child, spawned, task>>
GracefullyStopped(s, c) ==
    /\ child[s][c].phase = "graceful"
    /\ ~child[s][c].alive
    /\ rt' = [rt EXCEPT ![s] = IF Owns(s, c) THEN Cleared(@) ELSE @]
    /\ WatcherTo(s, c, "done")
    /\ UNCHANGED <<spawned, task>>

\* decide_restart.
WillRestart_OneMore(s, code, restarts) ==  \* seeded fault
    \/ Policy[s].kind = "always"
    \/ Policy[s].kind = "on_failure" /\ code = "err" /\ restarts <= Policy[s].max
WillRestart(s, code, restarts) ==
    \/ Policy[s].kind = "always"
    \/ Policy[s].kind = "on_failure" /\ code = "err" /\ restarts < Policy[s].max

\* child.wait() returned first: handle_child_exit.
ExitSeen(s, c) == child[s][c].phase = "select" /\ ~child[s][c].alive

ExitSuperseded(s, c) ==
    /\ ExitSeen(s, c)
    /\ ~Owns(s, c)
    /\ WatcherTo(s, c, "done")
    /\ UNCHANGED <<rt, spawned, task>>

ExitWhileStopping(s, c) ==
    /\ ExitSeen(s, c)
    /\ Owns(s, c)
    /\ rt[s].stopping
    /\ rt' = [rt EXCEPT ![s] = Cleared(@)]
    /\ WatcherTo(s, c, "done")
    /\ UNCHANGED <<spawned, task>>

ExitFinal(s, c, code) ==
    /\ ExitSeen(s, c)
    /\ Owns(s, c)
    /\ ~rt[s].stopping
    /\ ~WillRestart(s, code, rt[s].restarts)
    /\ rt' = [rt EXCEPT ![s] = [Cleared(@) EXCEPT
                !.state = IF code = "ok" THEN "Stopped" ELSE "Failed"]]
    /\ WatcherTo(s, c, IF code = "ok" THEN "done" ELSE "cascade")
    /\ UNCHANGED <<spawned, task>>

BackedOff_Uncounted(r) == [Cleared(r) EXCEPT !.state = "Backoff"]  \* seeded fault
BackedOff(r) == [Cleared(r) EXCEPT !.state = "Backoff", !.restarts = @ + 1]

ExitRestart(s, c, code) ==
    /\ ExitSeen(s, c)
    /\ Owns(s, c)
    /\ ~rt[s].stopping
    /\ WillRestart(s, code, rt[s].restarts)
    /\ rt' = [rt EXCEPT ![s] = BackedOff(@)]
    /\ WatcherTo(s, c, "done")
    /\ Become(<<"respawn", s, c>>,
              [op |-> "respawn", pc |-> "sleep", todo |-> <<s>>,
               then |-> <<>>, child |-> NoChild])
    /\ UNCHANGED spawned

CascadeExit(s, c) ==
    /\ child[s][c].phase = "cascade"
    /\ Cascade(s)
    /\ WatcherTo(s, c, "done")
    /\ UNCHANGED <<spawned, task>>
-----------------------------------------------------------------------------
(* The back-off timer and the resource monitor of child c.                 *)

\* respawn_after_backoff: the test, under the read lock only.
MayRespawn_Inverted(s, c) ==  \* seeded fault
    Owns(s, c) /\ rt[s].state = "Backoff" /\ rt[s].stopping
MayRespawn(s, c) == Owns(s, c) /\ rt[s].state = "Backoff" /\ ~rt[s].stopping

TimerFires(s, c) ==
    LET a == <<"respawn", s, c>>
    IN  /\ At(a, "sleep")
        /\ IF MayRespawn(s, c)
           THEN Goto(a, "mark")
           ELSE Become(a, Idle)
        /\ UNCHANGED <<rt, child, spawned>>

\* One tick of the monitor: the test under the read lock, then the sample.
MonitorTick(s, c) ==
    LET a == <<"single", s, c>>
    IN  /\ At(a, "watch")
        /\ IF Owns(s, c) /\ rt[s].pid = c
           THEN Goto(a, "sampled")
           ELSE Become(a, Idle)
        /\ UNCHANGED <<rt, child, spawned>>

MonitorSample(s, c) ==
    LET a == <<"single", s, c>>
    IN  /\ At(a, "sampled")
        /\ \/ child[s][c].alive /\ \/ Goto(a, "watch")  \* within the limits
                                   \/ Goto(a, "stop")   \* restart_single
           \/ ~child[s][c].alive /\ Become(a, Idle)
        /\ UNCHANGED <<rt, child, spawned>>

CountRestart(a) ==
    /\ At(a, "bump")
    /\ rt' = [rt EXCEPT ![Current(a)].restarts = @ + 1]
    /\ Goto(a, "mark")
    /\ UNCHANGED <<child, spawned>>
-----------------------------------------------------------------------------
Call(a) ==
    \/ \E s \in Services : Start(a, s) \/ Stop(a, s) \/ Restart(a, s)
    \/ ShutdownAll(a)

SpawnStep(a) ==
    \/ CheckSkip(a) \/ MarkStarting(a)
    \/ Reject(a) \/ CascadeRejected(a) \/ SpawnError(a) \/ LogOpenError(a)
    \/ Exec(a) \/ Install(a)

StopStep(a) == StopMark(a) \/ StopAnswered(a) \/ StopTimedOut(a) \/ StopFinal(a)

TaskStep(a) ==
    /\ ~At(a, "idle")   \* no step of its own begins a task
    /\ SpawnStep(a) \/ StopStep(a) \/ CountRestart(a)

WatcherStep(s, c) ==
    \/ StopRequested(s, c) \/ GracefullyStopped(s, c)
    \/ ExitSuperseded(s, c) \/ ExitWhileStopping(s, c)
    \/ \E code \in {"ok", "err"} : ExitFinal(s, c, code) \/ ExitRestart(s, c, code)
    \/ CascadeExit(s, c)

Next ==
    \/ \E a \in Callers : Call(a)
    \/ \E a \in Tasks : TaskStep(a)
    \/ \E s \in Services, c \in Children :
          ChildDies(s, c) \/ WatcherStep(s, c) \/ TimerFires(s, c)
          \/ MonitorTick(s, c) \/ MonitorSample(s, c)

Spec == Init /\ [][Next]_vars

\* Tokio polls every ready task again, a sleep ends, and graceful_stop kills a
\* child that does not leave.  Nothing obliges a caller to call, nor a process
\* nobody stops to exit.
Fairness ==
    /\ \A a \in Tasks : WF_vars(TaskStep(a))
    /\ \A s \in Services, c \in Children :
          /\ WF_vars(WatcherStep(s, c))
          /\ WF_vars(TimerFires(s, c))
          /\ WF_vars(MonitorTick(s, c))
          /\ WF_vars(MonitorSample(s, c))
          /\ WF_vars(child[s][c].phase = "graceful" /\ ChildDies(s, c))

FairSpec == Spec /\ Fairness
-----------------------------------------------------------------------------
(* Properties.                                                             *)

TypeOK ==
    /\ rt \in [Services -> RuntimeType]
    /\ child \in [Services -> [Children -> ChildType]]
    /\ spawned \in [Services -> 0..MaxSpawns]
    /\ task \in [Tasks -> TaskType]

\* A service reported Running is supervised: the newest installed child is the
\* one pid, client and the stop channel name, and its watcher still waits, so
\* that a stop reaches it and its exit is seen.  Every writer of the runtime
\* (stop_one, mark_failed, a watcher of any age) has to keep this.
RunningIsSupervised ==
    \A s \in Services : rt[s].state = "Running" =>
        /\ rt[s].pid # NoChild
        /\ rt[s].stopTx = rt[s].pid
        /\ rt[s].client = rt[s].pid
        /\ child[s][rt[s].pid].gen = rt[s].generation
        /\ child[s][rt[s].pid].phase = "select"

\* A service in Backoff has a timer of the installed generation that has not
\* fired, or has fired and decided to respawn: the state is never left behind
\* by a timer that gave up.
BackoffHasTimer ==
    \A s \in Services : rt[s].state = "Backoff" =>
        /\ ~rt[s].stopping
        /\ \E c \in Children : /\ child[s][c].gen # 0
                               /\ child[s][c].gen = rt[s].generation
                               /\ task[<<"respawn", s, c>>].pc \in {"sleep", "mark"}

\* No two children of a service carry one generation, so that the generation
\* test of the watchers, timers and monitors names one child at most.
GenerationsDiffer ==
    \A s \in Services : \A c, d \in Children :
        /\ child[s][c].gen <= rt[s].generation
        /\ (child[s][c].gen = child[s][d].gen /\ child[s][c].gen # 0) => c = d

\* What the two above rest on.  A process has no generation before its
\* installation, and the numbers above spawned are unused.
SlotsInOrder ==
    \A s \in Services, c \in Children :
        /\ child[s][c].phase = "none" <=> c > spawned[s]
        /\ child[s][c].phase \in {"none", "held", "leaked"} <=> child[s][c].gen = 0

\* A task about to install a child holds it, and holds it alone.
HeldByOne ==
    \A a \in Tasks : At(a, "install") =>
        /\ task[a].child \in Children
        /\ child[Current(a)][task[a].child].phase = "held"
        /\ \A b \in Tasks :
              (At(b, "install") /\ Current(b) = Current(a)
               /\ task[b].child = task[a].child) => a = b

\* A stop channel in the runtime leads to the waiting watcher of the newest
\* installed child.
StopChannelLive ==
    \A s \in Services : rt[s].stopTx # NoChild =>
        /\ child[s][rt[s].stopTx].gen = rt[s].generation
        /\ child[s][rt[s].stopTx].phase = "select"

\* The timer of a child works for the service of that child and is somewhere
\* between its sleep and its spawn.
TimersKeepTheirService ==
    \A s \in Services, c \in Children :
        LET t == task[<<"respawn", s, c>>]
        IN  t.pc # "idle" =>
              /\ t.todo = <<s>>
              /\ t.pc \in {"sleep", "mark", "exec", "install", "cascade"}

SupervisorInv ==
    /\ SlotsInOrder
    /\ HeldByOne
    /\ GenerationsDiffer
    /\ StopChannelLive
    /\ RunningIsSupervised
    /\ TimersKeepTheirService
    /\ BackoffHasTimer

\* max_attempts of OnFailure bounds the processes created without being asked
\* for, over the whole life of the supervisor and whatever stops and starts
\* fall in between (a resource monitor restarts on its own account).
RestartBudget ==
    \A s \in Services \ Monitored :
        Policy[s].kind = "on_failure" =>
            Cardinality({c \in Children : child[s][c].by = "respawn"})
                <= Policy[s].max

\* Every process created without being asked for was counted in restarts.
AutomaticSpawnsCounted ==
    \A s \in Services :
        Cardinality({c \in Children : child[s][c].by \in {"respawn", "single"}})
            <= rt[s].restarts

\* What the two above rest on: an automatic spawn, done or still owed by a
\* timer or a monitor, was paid for with one count of restarts.
Paid(s) ==
    ({"spawned"} \X {c \in Children : child[s][c].by \in {"respawn", "single"}})
    \cup ({"respawn"} \X {c \in Children :
             task[<<"respawn", s, c>>].pc \in {"sleep", "mark", "exec"}})
    \cup ({"single"} \X {c \in Children :
             task[<<"single", s, c>>].pc \in {"mark", "exec"}})

SpawnsArePaid == \A s \in Services : Cardinality(Paid(s)) <= rt[s].restarts

\* decide_restart is the only one to count for a service without a monitor.
RestartsWithinPolicy ==
    \A s \in Services \ Monitored :
        Policy[s].kind = "on_failure" => rt[s].restarts <= Policy[s].max

\* Timers respawn, monitors restart a service with limits, callers do neither,
\* and no caller or timer reaches the count of restart_single.
TasksKeepTheirTrade ==
    \A a \in Tasks : ~At(a, "idle") =>
        /\ task[a].op = "respawn" <=> a \in Timers
        /\ task[a].op = "single" <=> a \in Monitors
        /\ At(a, "bump") => a \in Monitors
        /\ At(a, "sleep") => a \in Timers

\* The monitor of a child works for the service of that child alone.
MonitorsKeepTheirService ==
    \A s \in Services, c \in Children :
        LET t == task[<<"single", s, c>>]
        IN  t.pc # "idle" =>
              /\ s \in Monitored
              /\ t.todo = <<s>>
              /\ t.pc \notin {"sleep", "check"}

BudgetInv ==
    /\ TasksKeepTheirTrade
    /\ MonitorsKeepTheirService
    /\ SpawnsArePaid
    /\ RestartsWithinPolicy

\* What a watcher does once its generation is superseded never changes the
\* runtime of its service.
SupersededWatcherSilent ==
    [][\A s \in Services, c \in Children :
          (/\ child[s][c].gen # 0
           /\ child[s][c].gen # rt[s].generation
           /\ child'[s][c].phase # child[s][c].phase) => rt'[s] = rt[s]]_vars

\* A child whose stop channel is no longer the one of its service (a second
\* start replaced it, a stop took it) does not live on beside its successor.
SupersededChildEnds ==
    \A s \in Services, c \in Children :
        (child[s][c].phase = "select" /\ rt[s].stopTx # c)
            ~> (child[s][c].phase \notin {"select", "graceful"} /\ ~child[s][c].alive)

\* Back-off always ends: in a respawn, or because an operation overtook it.
BackoffEnds ==
    \A s \in Services : rt[s].state = "Backoff" ~> rt[s].state # "Backoff"

\* Every operation of a caller returns.
CallsReturn == \A a \in Callers : ~At(a, "idle") ~> At(a, "idle")
-----------------------------------------------------------------------------
(* What comments of the source say and the interleavings do not keep.      *)

\* "respawn when the back-off has elapsed (unless stopped in the meantime)":
\* a timer that goes on to spawn finds the service still in back-off.
RespawnUnlessStopped ==
    [][\A s \in Services, c \in Children :
          LET a == <<"respawn", s, c>>
          IN  (At(a, "mark") /\ task'[a].pc = "exec") => rt[s].state = "Backoff"]_vars

\* "stop everything (called when control exits)": when shutdown_all returns,
\* no child is alive with a watcher that nobody asked to stop it.
ShutdownStopsAll ==
    [][\A a \in Callers :
          (task[a].op = "shutdown" /\ task'[a] = Idle) =>
              \A s \in Services, c \in Children :
                  ~(child[s][c].phase = "select" /\ child[s][c].alive
                    /\ rt'[s].stopTx = c)]_vars

=============================================================================
