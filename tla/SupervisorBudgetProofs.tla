----------------------- MODULE SupervisorBudgetProofs -----------------------
(***************************************************************************)
(* The restart budget of the supervisor: BudgetInv is inductive, so every  *)
(* process nobody asked for was counted, and a service without a monitor   *)
(* never gets more of them than its policy allows.                         *)
(***************************************************************************)
EXTENDS SupervisorProofs, FiniteSetTheorems

Monitor(s, c) == <<"single", s, c>>

\* Every set Paid counts over is finite.
LEMMA PaidFinite ==
    ASSUME NEW s \in Services
    PROVE  IsFiniteSet(Paid(s)) /\ IsFiniteSet(Children)
  <1>1. IsFiniteSet(Children)
    BY SupervisorAssumption, FS_Interval DEF Children
  <1>2. IsFiniteSet({"spawned", "respawn", "single"})
    <2>1. IsFiniteSet({"single"})
      BY FS_Singleton
    <2>2. IsFiniteSet({"single"} \cup {"respawn"})
      BY <2>1, FS_AddElement
    <2>3. IsFiniteSet(({"single"} \cup {"respawn"}) \cup {"spawned"})
      BY <2>2, FS_AddElement
    <2>4. ({"single"} \cup {"respawn"}) \cup {"spawned"}
          = {"spawned", "respawn", "single"}
      OBVIOUS
    <2> QED BY <2>3, <2>4
  <1>3. IsFiniteSet({"spawned", "respawn", "single"} \X Children)
    BY <1>1, <1>2, FS_Product
  <1>4. Paid(s) \subseteq {"spawned", "respawn", "single"} \X Children
    BY DEF Paid
  <1> QED BY <1>1, <1>3, <1>4, FS_Subset

\* A set that gained at most one element counts at most one more.
LEMMA GrowsByOne ==
    ASSUME NEW A, IsFiniteSet(A), NEW x, NEW B, B \subseteq A \cup {x}
    PROVE  Cardinality(B) <= Cardinality(A) + 1
  <1>0. Cardinality(A) \in Nat
    BY FS_CardinalityType
  <1>1. IsFiniteSet(A \cup {x}) /\ Cardinality(A \cup {x}) <= Cardinality(A) + 1
    <2>1. /\ IsFiniteSet(A \cup {x})
          /\ Cardinality(A \cup {x}) = IF x \in A THEN Cardinality(A)
                                       ELSE Cardinality(A) + 1
      BY FS_AddElement
    <2> QED BY <1>0, <2>1
  <1>2. Cardinality(B) <= Cardinality(A \cup {x}) /\ IsFiniteSet(B)
    BY <1>1, FS_Subset
  <1>3. Cardinality(B) \in Nat /\ Cardinality(A \cup {x}) \in Nat
    BY <1>1, <1>2, FS_CardinalityType
  <1> QED BY <1>0, <1>1, <1>2, <1>3

\* A set that lost an element and gained at most one counts no more.
LEMMA Exchange ==
    ASSUME NEW A, IsFiniteSet(A), NEW x \in A, NEW y, NEW B,
           B \subseteq (A \ {x}) \cup {y}
    PROVE  Cardinality(B) <= Cardinality(A)
  <1>1. IsFiniteSet(A \ {x}) /\ Cardinality(A \ {x}) = Cardinality(A) - 1
    BY FS_RemoveElement
  <1>2. Cardinality(B) <= Cardinality(A \ {x}) + 1
    BY <1>1, GrowsByOne
  <1> QED BY <1>1, <1>2, FS_CardinalityType

\* A part of a finite set counts no more than the whole.
LEMMA PartCounts ==
    ASSUME NEW A, IsFiniteSet(A), NEW B, B \subseteq A
    PROVE  /\ Cardinality(A) \in Nat /\ Cardinality(B) \in Nat
           /\ Cardinality(B) <= Cardinality(A)
  BY FS_Subset, FS_CardinalityType
-----------------------------------------------------------------------------
(* What a task step makes of its own task.                                 *)

\* Task u goes on as t within its trade, or its caller's stop walk turns into
\* the start walk of a restart.
KeepsTrade(u, t) ==
    \/ t.pc = "idle"
    \/ t.op = u.op /\ t.todo = u.todo /\ t.pc \notin {"idle", "sleep", "bump", "check"}
    \/ t.op = u.op /\ Tail(u.todo) # <<>> /\ t.pc \in {"check", "stop"}
    \/ u.op = "single" /\ t.op = u.op /\ t.todo = u.todo /\ t.pc = "bump"
    \/ u.op # "single" /\ u.pc \in {"stop", "final"} /\ t.op = "start" /\ t.pc = "check"

\* A spawn still ahead of t was ahead of u, or was decided by the skip test of
\* a start.
KeepsPending(u, t) ==
    t.pc \in {"sleep", "mark", "exec"} =>
        \/ u.pc \in {"sleep", "mark"} /\ t.pc \in {"mark", "exec"}
        \/ u.pc = "check"

\* What follows a spawn.
LEMMA AfterSpawnKeeps ==
    ASSUME NEW a \in Tasks
    PROVE  KeepsTrade(task[a], AfterSpawn(a)) /\ KeepsPending(task[a], AfterSpawn(a))
  <1>1. CASE Tail(task[a].todo) = <<>>
    BY <1>1 DEF AfterSpawn, Walk, Idle, KeepsTrade, KeepsPending
  <1>2. CASE Tail(task[a].todo) # <<>>
    BY <1>2 DEF AfterSpawn, Walk, KeepsTrade, KeepsPending
  <1> QED BY <1>1, <1>2

\* What follows a stop.
LEMMA AfterStopKeeps ==
    ASSUME Typing, NEW a \in Tasks, task[a].pc \in {"stop", "final"}
    PROVE  KeepsTrade(task[a], AfterStop(a)) /\ KeepsPending(task[a], AfterStop(a))
  <1>0. task[a] \in TaskType
    BY DEF Typing, TypeOK
  <1>1. CASE task[a].op = "single"
    <2>1. AfterStop(a) = [task[a] EXCEPT !.pc = "bump", !.child = NoChild]
      BY <1>1 DEF AfterStop
    <2>2. /\ AfterStop(a).pc = "bump"
          /\ AfterStop(a).op = task[a].op
          /\ AfterStop(a).todo = task[a].todo
      BY <1>0, <2>1 DEF TaskType
    <2> QED BY <1>1, <2>2 DEF KeepsTrade, KeepsPending
  <1>2. CASE task[a].op # "single" /\ Tail(task[a].todo) # <<>>
    <2>1. AfterStop(a) = Walk(task[a].op, "stop", Tail(task[a].todo), task[a].then)
      BY <1>2 DEF AfterStop
    <2> QED BY <1>2, <2>1 DEF Walk, KeepsTrade, KeepsPending
  <1>3. CASE task[a].op # "single" /\ Tail(task[a].todo) = <<>>
    <2>1. AfterStop(a) = Walk("start", "check", task[a].then, <<>>)
      BY <1>3 DEF AfterStop
    <2>2. CASE task[a].then = <<>>
      BY <2>1, <2>2 DEF Walk, Idle, KeepsTrade, KeepsPending
    <2>3. CASE task[a].then # <<>>
      BY <1>3, <2>1, <2>3 DEF Walk, KeepsTrade, KeepsPending
    <2> QED BY <2>2, <2>3
  <1> QED BY <1>1, <1>2, <1>3

\* A task that moves to another point of its operation.
LEMMA GotoKeeps ==
    ASSUME Typing, NEW a \in Tasks,
           NEW p \in Points \ {"idle", "sleep", "bump", "check"},
           p \in {"mark", "exec"} => \/ At(a, "sleep") \/ At(a, "mark")
                                     \/ At(a, "check"),
           NEW t, t \in TaskType, t.pc = p, t.op = task[a].op, t.todo = task[a].todo
    PROVE  KeepsTrade(task[a], t) /\ KeepsPending(task[a], t)
  BY DEF KeepsTrade, KeepsPending, At, Points

\* The new task of a step that moves none but its own.
LEMMA OwnTask ==
    ASSUME Typing, NEW a \in Tasks, TaskStep(a), ~Install(a), ~CountRestart(a)
    PROVE  \E t : /\ Become(a, t)
                  /\ KeepsTrade(task[a], t)
                  /\ KeepsPending(task[a], t)
  <1>0. KeepsTrade(task[a], Idle) /\ KeepsPending(task[a], Idle)
    BY DEF KeepsTrade, KeepsPending, Idle
  <1>1. KeepsTrade(task[a], AfterSpawn(a)) /\ KeepsPending(task[a], AfterSpawn(a))
    BY AfterSpawnKeeps
  <1>2. task[a] \in TaskType
    BY DEF Typing, TypeOK
  <1>3. ASSUME NEW p \in Points \ {"idle", "sleep", "bump", "check"}, Goto(a, p),
               p \in {"mark", "exec"} => At(a, "mark") \/ At(a, "check")
        PROVE  \E t : /\ Become(a, t)
                      /\ KeepsTrade(task[a], t)
                      /\ KeepsPending(task[a], t)
    <2> DEFINE t == [task[a] EXCEPT !.pc = p]
    <2>1. t \in TaskType /\ t.pc = p /\ t.op = task[a].op /\ t.todo = task[a].todo
      BY <1>2, <1>3 DEF TaskType
    <2>2. Become(a, t)
      BY <1>3 DEF Goto
    <2> HIDE DEF t
    <2>3. KeepsTrade(task[a], t) /\ KeepsPending(task[a], t)
      BY <1>3, <2>1, GotoKeeps
    <2> QED BY <2>2, <2>3
  <1>4. CASE CheckSkip(a)
    <2>1. CASE Become(a, AfterSpawn(a))
      BY <1>1, <2>1
    <2>2. CASE Goto(a, "mark")
      BY <1>3, <1>4, <2>2 DEF CheckSkip, Points
    <2> QED BY <1>4, <2>1, <2>2 DEF CheckSkip
  <1>5. CASE MarkStarting(a) \/ Reject(a)
             \/ StopAnswered(a) \/ StopTimedOut(a)
    BY <1>3, <1>5 DEF MarkStarting, Reject, StopAnswered,
       StopTimedOut, Points
  <1>6. CASE CascadeRejected(a) \/ SpawnError(a) \/ LogOpenError(a)
    BY <1>0, <1>6 DEF CascadeRejected, SpawnError, LogOpenError
  <1>7. CASE Exec(a)
    <2>0. ~At(a, "idle")
      BY <1>7 DEF Exec, At
    <2>1. NextChild(Current(a)) \in 0..MaxSpawns
      BY <1>7, <2>0, CurrentTyped, SupervisorAssumption
         DEF Exec, NewChild, NextChild, Typing, TypeOK
    <2>2. PICK t : /\ Become(a, t)
                   /\ t = [task[a] EXCEPT !.pc = "install",
                                          !.child = NextChild(Current(a))]
      BY <1>7 DEF Exec
    <2>3. t \in TaskType /\ t.pc = "install" /\ t.op = task[a].op /\ t.todo = task[a].todo
      BY <1>2, <2>1, <2>2 DEF TaskType, Points
    <2> QED BY <2>2, <2>3, GotoKeeps DEF Points
  <1>8. CASE StopMark(a)
    <2>0. task[a].pc = "stop" /\ ~At(a, "idle")
      BY <1>8 DEF StopMark, At
    <2>1. CASE rt[Current(a)].state \in {"Stopped", "Failed"}
      <3>1. Become(a, AfterStop(a))
        BY <1>8, <2>1 DEF StopMark
      <3> QED BY <2>0, <3>1, AfterStopKeeps
    <2>2. CASE rt[Current(a)].state \notin {"Stopped", "Failed"}
      <3>1. rt[Current(a)].stopTx \in 0..MaxSpawns
        BY <2>0, CurrentTyped DEF Typing, TypeOK, RuntimeType
      <3>2. PICK p \in {"final", "wait"} :
               Become(a, [task[a] EXCEPT !.pc = p, !.child = rt[Current(a)].stopTx])
        BY <1>8, <2>2 DEF StopMark
      <3> DEFINE t == [task[a] EXCEPT !.pc = p, !.child = rt[Current(a)].stopTx]
      <3>3. t \in TaskType /\ t.pc = p /\ t.op = task[a].op /\ t.todo = task[a].todo
        BY <1>2, <3>1 DEF TaskType, Points
      <3>4. Become(a, t)
        BY <3>2
      <3> HIDE DEF t
      <3> QED BY <3>3, <3>4, GotoKeeps DEF Points
    <2> QED BY <2>1, <2>2
  <1>9. CASE StopFinal(a)
    <2>1. Become(a, AfterStop(a)) /\ task[a].pc = "final"
      BY <1>9 DEF StopFinal, At
    <2> QED BY <2>1, AfterStopKeeps
  <1> QED BY <1>4, <1>5, <1>6, <1>7, <1>8, <1>9 DEF TaskStep, SpawnStep, StopStep

-----------------------------------------------------------------------------
(* What any step makes of any task.                                        *)

MonitorStart(s) == [op |-> "single", pc |-> "watch", todo |-> <<s>>,
                    then |-> <<>>, child |-> NoChild]
TimerStart(s) == [op |-> "respawn", pc |-> "sleep", todo |-> <<s>>,
                  then |-> <<>>, child |-> NoChild]

\* restart_single counted: its monitor goes on to spawn.
Counts(u, t) ==
    u.pc = "bump" /\ t.pc = "mark" /\ t.op = u.op /\ t.todo = u.todo

\* A caller begins a walk.
Begins(u, t) ==
    u.pc = "idle" /\ t.pc \in {"idle", "check", "stop"}
    /\ t.op \notin {"respawn", "single"}

TaskMoves(b) ==
    \/ task'[b] = task[b]
    \/ /\ KeepsTrade(task[b], task'[b]) /\ KeepsPending(task[b], task'[b])
       /\ task[b].pc # "idle"
    \/ b \in Callers /\ Begins(task[b], task'[b])
    \/ \E s \in Monitored, c \in Children :
          b = Monitor(s, c) /\ task'[b] = MonitorStart(s)

\* A call begins the walk of a caller.
LEMMA CallMoves ==
    ASSUME Typing, NEW a \in Callers, Call(a), NEW b \in Tasks
    PROVE  TaskMoves(b)
  <1>0. task \in [Tasks -> TaskType] /\ a \in Tasks /\ task[a].pc = "idle"
    BY DEF Typing, TypeOK, Tasks, Call, Start, Stop, Restart, ShutdownAll, At
  <1>1. \A p \in {"check", "stop"}, op \in {"start", "stop", "shutdown"} :
           \A order, then : Begins(task[a], Walk(op, p, order, then))
    BY <1>0 DEF Begins, Walk, Idle
  <1>2. PICK t : Become(a, t) /\ Begins(task[a], t)
    <2>1. CASE \E s \in Services : Start(a, s)
      BY <1>1, <2>1 DEF Start
    <2>2. CASE \E s \in Services : Stop(a, s)
      BY <1>1, <2>2 DEF Stop
    <2>3. CASE \E s \in Services : Restart(a, s)
      BY <1>1, <2>3 DEF Restart
    <2>4. CASE ShutdownAll(a)
      BY <1>1, <2>4 DEF ShutdownAll
    <2> QED BY <2>1, <2>2, <2>3, <2>4 DEF Call
  <1>3. task' = [task EXCEPT ![a] = t]
    BY <1>2 DEF Become
  <1>4. CASE b = a
    BY <1>0, <1>2, <1>3, <1>4 DEF TaskMoves
  <1>5. CASE b # a
    BY <1>0, <1>3, <1>5 DEF TaskMoves
  <1> QED BY <1>4, <1>5

\* A step inside an operation moves its task, or counts a restart.
LEMMA TaskStepMoves ==
    ASSUME Typing, ChildInv, NEW a \in Tasks, TaskStep(a), NEW b \in Tasks
    PROVE  TaskMoves(b) \/ (b = a /\ CountRestart(a) /\ Counts(task[b], task'[b]))
  <1>0. task \in [Tasks -> TaskType] /\ task[a] \in TaskType /\ task[a].pc # "idle"
    BY DEF Typing, TypeOK, TaskStep, SpawnStep, StopStep, CheckSkip, MarkStarting,
       Reject, CascadeRejected, SpawnError, LogOpenError, Exec, Install, StopMark,
       StopAnswered, StopTimedOut, StopFinal, CountRestart, At
  <1>1. CASE Install(a)
    <2> DEFINE s == Current(a)
               c == task[a].child
               k == [task EXCEPT ![a] = AfterSpawn(a)]
    <2>1. \/ task' = k
          \/ s \in Monitored /\ task' = [k EXCEPT ![Monitor(s, c)] = MonitorStart(s)]
      BY <1>1 DEF Install, MonitorStart, Monitor
    <2>2. \A x \in Tasks : k[x] = IF x = a THEN AfterSpawn(a) ELSE task[x]
      BY <1>0
    <2>3. s \in Services
      BY <1>0, CurrentTyped DEF At
    <2>4. KeepsTrade(task[a], AfterSpawn(a)) /\ KeepsPending(task[a], AfterSpawn(a))
      BY AfterSpawnKeeps
    <2>5. CASE task'[b] = k[b]
      BY <1>0, <2>2, <2>4, <2>5 DEF TaskMoves
    <2>6. CASE task'[b] # k[b]
      <3>1. s \in Monitored /\ b = Monitor(s, c) /\ task'[b] = MonitorStart(s)
        <4> HIDE DEF k
        <4>1. DOMAIN k = Tasks
          BY <1>0 DEF k
        <4> QED BY <2>1, <2>6, <4>1
      <3>2. c \in Children
        BY <1>1, InstallEffect
      <3> QED BY <3>1, <3>2 DEF TaskMoves
    <2> QED BY <2>5, <2>6
  <1>2. CASE CountRestart(a)
    <2> DEFINE t == [task[a] EXCEPT !.pc = "mark"]
    <2>1. Counts(task[a], t)
      BY <1>0, <1>2 DEF CountRestart, Counts, At, TaskType
    <2>2. task' = [task EXCEPT ![a] = t]
      BY <1>2 DEF CountRestart, Goto, Become
    <2> HIDE DEF t
    <2> QED BY <1>0, <1>2, <2>1, <2>2 DEF TaskMoves
  <1>3. CASE ~Install(a) /\ ~CountRestart(a)
    <2>1. PICK t : /\ Become(a, t)
                   /\ KeepsTrade(task[a], t)
                   /\ KeepsPending(task[a], t)
      BY <1>3, OwnTask
    <2>2. task' = [task EXCEPT ![a] = t]
      BY <2>1 DEF Become
    <2> QED BY <1>0, <2>1, <2>2 DEF TaskMoves
  <1> QED BY <1>1, <1>2, <1>3

\* Watchers start timers; timers and monitors move within their trade.
LEMMA BackgroundMoves ==
    ASSUME Typing, NEW s \in Services, NEW c \in Children, Background(s, c),
           NEW b \in Tasks
    PROVE  \/ TaskMoves(b)
           \/ /\ b = Timer(s, c) /\ task'[b] = TimerStart(s)
              /\ \E code \in {"ok", "err"} : ExitRestart(s, c, code)
  <1>0. /\ task \in [Tasks -> TaskType]
        /\ Timer(s, c) \in Tasks /\ Monitor(s, c) \in Tasks
        /\ task[Timer(s, c)] \in TaskType /\ task[Monitor(s, c)] \in TaskType
    BY DEF Typing, TypeOK, Tasks, Timers, Monitors, Timer, Monitor
  <1>1. ASSUME NEW a \in Tasks, task[a] \in TaskType,
               NEW q \in {"sleep", "watch", "sampled"}, At(a, q),
               NEW p \in {"mark", "sampled", "watch", "stop"}, p = "mark" => q = "sleep",
               Goto(a, p) \/ Become(a, Idle)
        PROVE  TaskMoves(b)
    <2>1. CASE Goto(a, p)
      <3> DEFINE t == [task[a] EXCEPT !.pc = p]
      <3>1. t.pc = p /\ t.op = task[a].op /\ t.todo = task[a].todo
        BY <1>1 DEF TaskType
      <3>2. task' = [task EXCEPT ![a] = t]
        BY <2>1 DEF Goto, Become
      <3> HIDE DEF t
      <3>3. KeepsTrade(task[a], t) /\ KeepsPending(task[a], t)
        BY <1>1, <3>1 DEF KeepsTrade, KeepsPending, At
      <3> QED BY <1>0, <1>1, <3>2, <3>3 DEF TaskMoves, At
    <2>2. CASE Become(a, Idle)
      <3>1. task' = [task EXCEPT ![a] = Idle]
        BY <2>2 DEF Become
      <3>2. KeepsTrade(task[a], Idle) /\ KeepsPending(task[a], Idle)
        BY DEF KeepsTrade, KeepsPending, Idle
      <3> QED BY <1>0, <1>1, <3>1, <3>2 DEF TaskMoves, At
    <2> QED BY <1>1, <2>1, <2>2
  <1>2. CASE TimerFires(s, c)
    BY <1>0, <1>1, <1>2 DEF TimerFires, Timer
  <1>3. CASE MonitorTick(s, c)
    BY <1>0, <1>1, <1>3 DEF MonitorTick, Monitor
  <1>4. CASE MonitorSample(s, c)
    BY <1>0, <1>1, <1>4 DEF MonitorSample, Monitor
  <1>5. CASE \E code \in {"ok", "err"} : ExitRestart(s, c, code)
    <2>1. task' = [task EXCEPT ![Timer(s, c)] = TimerStart(s)]
      BY <1>5 DEF ExitRestart, Become, Timer, TimerStart
    <2> QED BY <1>0, <1>5, <2>1 DEF TaskMoves
  <1>6. CASE UNCHANGED task
    BY <1>6 DEF TaskMoves
  <1> QED
    BY <1>2, <1>3, <1>4, <1>5, <1>6 DEF Background, WatcherStep, ChildDies,
       StopRequested, GracefullyStopped, ExitSuperseded, ExitWhileStopping,
       ExitFinal, CascadeExit
-----------------------------------------------------------------------------
(* Tasks keep their trade.                                                 *)

TradeInv == TasksKeepTheirTrade /\ MonitorsKeepTheirService

\* Callers, timers and monitors are three kinds of tasks.
LEMMA KindsDiffer ==
    /\ Timers \subseteq Tasks /\ Monitors \subseteq Tasks /\ Callers \subseteq Tasks
    /\ Timers \cap Monitors = {}
    /\ Callers \cap (Timers \cup Monitors) = {}
  <1>1. Timers \cup Monitors \subseteq {"respawn", "single"} \X Services \X (1..MaxSpawns)
    BY DEF Timers, Monitors, Children
  <1>2. Timers \cap Monitors = {}
    BY DEF Timers, Monitors
  <1> QED BY <1>1, <1>2, SupervisorAssumption DEF Tasks

\* The timers and the monitors by name.
LEMMA Names ==
    /\ \A b \in Timers : \E s \in Services, c \in Children : b = Timer(s, c)
    /\ \A b \in Monitors : \E s \in Services, c \in Children : b = Monitor(s, c)
    /\ \A s \in Services, c \in Children :
          Timer(s, c) \in Timers /\ Monitor(s, c) \in Monitors
    /\ \A s, t, c, d : Monitor(s, c) = Monitor(t, d) => s = t /\ c = d
    /\ \A s, t, c, d : Timer(s, c) = Timer(t, d) => s = t /\ c = d
    /\ \A s, t, c, d : Timer(s, c) # Monitor(t, d)
  BY DEF Timers, Monitors, Timer, Monitor

\* A task that moves by one of the ways above keeps its trade.
LEMMA MoveKeepsTrade ==
    ASSUME TradeInv, TimersKeepTheirService, NEW b \in Tasks,
           TaskMoves(b) \/ (b \in Monitors /\ Counts(task[b], task'[b])),
           task'[b].pc # "idle"
    PROVE  /\ task'[b].op = "respawn" <=> b \in Timers
           /\ task'[b].op = "single" <=> b \in Monitors
           /\ task'[b].pc = "bump" => b \in Monitors
           /\ task'[b].pc = "sleep" => b \in Timers
  <1> DEFINE u == task[b]
             t == task'[b]
  <1>1. u.pc # "idle" => /\ u.op = "respawn" <=> b \in Timers
                         /\ u.op = "single" <=> b \in Monitors
                         /\ u.pc = "bump" => b \in Monitors
                         /\ u.pc = "sleep" => b \in Timers
    BY DEF TradeInv, TasksKeepTheirTrade, At
  <1>2. b \in Timers => u.pc \notin {"stop", "final"}
    <2> SUFFICES ASSUME b \in Timers PROVE u.pc \notin {"stop", "final"}
      OBVIOUS
    <2>1. PICK s \in Services, c \in Children : b = <<"respawn", s, c>>
      BY Names DEF Timer
    <2> QED BY <2>1 DEF TimersKeepTheirService
  <1> HIDE DEF u, t
  <1>3. CASE t = u
    BY <1>1, <1>3 DEF u, t
  <1>4. CASE KeepsTrade(u, t) /\ u.pc # "idle"
    <2>1. CASE t.op = u.op /\ t.pc \notin {"sleep", "bump"}
      BY <1>1, <1>4, <2>1 DEF u, t
    <2>2. CASE t.op = u.op /\ u.op = "single" /\ t.pc = "bump"
      BY <1>1, <1>4, <2>2 DEF u, t
    <2>3. CASE u.op # "single" /\ u.pc \in {"stop", "final"}
               /\ t.op = "start" /\ t.pc = "check"
      BY <1>1, <1>2, <1>4, <2>3 DEF u, t
    <2> QED BY <1>4, <2>1, <2>2, <2>3 DEF KeepsTrade, t
  <1>5. CASE b \in Callers /\ Begins(u, t)
    <2>1. b \notin Timers /\ b \notin Monitors
      BY <1>5, KindsDiffer
    <2> QED BY <1>5, <2>1 DEF Begins, u, t
  <1>6. CASE \E s \in Monitored, c \in Children : b = Monitor(s, c) /\ t = MonitorStart(s)
    <2>1. b \in Monitors /\ b \notin Timers
      BY <1>6, KindsDiffer, Names, SupervisorAssumption
    <2>2. t.op = "single" /\ t.pc = "watch"
      BY <1>6 DEF MonitorStart
    <2> QED BY <2>1, <2>2 DEF t
  <1>7. CASE b \in Monitors /\ Counts(u, t)
    <2>1. t.op = "single" /\ b \notin Timers
      BY <1>1, <1>7, KindsDiffer DEF Counts
    <2> QED BY <1>7, <2>1 DEF Counts, t
  <1> QED BY <1>3, <1>4, <1>5, <1>6, <1>7 DEF TaskMoves, u, t

\* A monitor that moves by one of the ways above works for its service.
LEMMA MoveKeepsMonitor ==
    ASSUME TradeInv, NEW s \in Services, NEW c \in Children,
           \/ TaskMoves(Monitor(s, c))
           \/ Counts(task[Monitor(s, c)], task'[Monitor(s, c)]),
           task'[Monitor(s, c)].pc # "idle"
    PROVE  /\ s \in Monitored
           /\ task'[Monitor(s, c)].todo = <<s>>
           /\ task'[Monitor(s, c)].pc \notin {"sleep", "check"}
  <1> DEFINE b == Monitor(s, c)
             u == task[b]
             t == task'[b]
  <1>0. b \in Monitors /\ b \in Tasks /\ b \notin Callers
    BY Names, KindsDiffer
  <1>1. u.pc # "idle" => /\ s \in Monitored
                         /\ u.todo = <<s>>
                         /\ u.pc \notin {"sleep", "check"}
                         /\ u.op = "single"
    BY <1>0 DEF TradeInv, TasksKeepTheirTrade, MonitorsKeepTheirService, At, Monitor
  <1>2. u.todo = <<s>> => Tail(u.todo) = <<>>
    OBVIOUS
  <1> HIDE DEF b, u, t
  <1>3. CASE t = u
    BY <1>1, <1>3 DEF b, u, t
  <1>4. CASE KeepsTrade(u, t) /\ u.pc # "idle"
    BY <1>1, <1>2, <1>4 DEF KeepsTrade, b, u, t
  <1>5. CASE \E x \in Monitored, d \in Children : b = Monitor(x, d) /\ t = MonitorStart(x)
    BY <1>5, Names DEF MonitorStart, b, t
  <1>6. CASE Counts(u, t)
    BY <1>1, <1>6 DEF Counts, b, u, t
  <1> QED BY <1>0, <1>3, <1>4, <1>5, <1>6 DEF TaskMoves, b, u, t

\* Only a monitor counts a restart.
LEMMA OnlyMonitorsCount ==
    ASSUME TradeInv, NEW a \in Tasks, CountRestart(a)
    PROVE  a \in Monitors
  BY DEF TradeInv, TasksKeepTheirTrade, CountRestart, At

\* How one step moves the tasks, all kinds of steps together.
LEMMA StepMoves ==
    ASSUME Typing, ChildInv, TradeInv, [Next]_vars, NEW b \in Tasks
    PROVE  \/ TaskMoves(b)
           \/ b \in Monitors /\ CountRestart(b) /\ Counts(task[b], task'[b])
           \/ \E s \in Services, c \in Children :
                 /\ b = Timer(s, c) /\ task'[b] = TimerStart(s)
                 /\ \E code \in {"ok", "err"} : ExitRestart(s, c, code)
  <1>1. CASE UNCHANGED vars
    BY <1>1 DEF vars, TaskMoves
  <1>2. CASE \E a \in Callers : Call(a)
    BY <1>2, CallMoves
  <1>3. CASE \E a \in Tasks : TaskStep(a)
    BY <1>3, TaskStepMoves, OnlyMonitorsCount
  <1>4. CASE \E s \in Services, c \in Children : Background(s, c)
    BY <1>4, BackgroundMoves
  <1> QED BY <1>1, <1>2, <1>3, <1>4 DEF Next, Background

\* The trades are inductive.
LEMMA TradeStep ==
    Typing /\ SupervisorInv /\ TradeInv /\ [Next]_vars => TradeInv'
  <1> SUFFICES ASSUME Typing, SupervisorInv, TradeInv, [Next]_vars PROVE TradeInv'
    OBVIOUS
  <1>0. ChildInv /\ TimersKeepTheirService
    BY DEF SupervisorInv, ChildInv
  <1>1. TasksKeepTheirTrade'
    <2> SUFFICES ASSUME NEW b \in Tasks, task'[b].pc # "idle"
                 PROVE  /\ task'[b].op = "respawn" <=> b \in Timers
                        /\ task'[b].op = "single" <=> b \in Monitors
                        /\ task'[b].pc = "bump" => b \in Monitors
                        /\ task'[b].pc = "sleep" => b \in Timers
      BY DEF TasksKeepTheirTrade, At
    <2>1. CASE TaskMoves(b) \/ (b \in Monitors /\ Counts(task[b], task'[b]))
      BY <1>0, <2>1, MoveKeepsTrade
    <2>2. CASE \E s \in Services, c \in Children :
                 b = Timer(s, c) /\ task'[b] = TimerStart(s)
      <3>1. b \in Timers /\ b \notin Monitors
        BY <2>2, Names, KindsDiffer
      <3>2. task'[b].op = "respawn" /\ task'[b].pc = "sleep"
        BY <2>2 DEF TimerStart
      <3> QED BY <3>1, <3>2
    <2> QED BY <1>0, <2>1, <2>2, StepMoves
  <1>2. MonitorsKeepTheirService'
    <2> SUFFICES ASSUME NEW s \in Services, NEW c \in Children,
                        task'[Monitor(s, c)].pc # "idle"
                 PROVE  /\ s \in Monitored
                        /\ task'[Monitor(s, c)].todo = <<s>>
                        /\ task'[Monitor(s, c)].pc \notin {"sleep", "check"}
      BY DEF MonitorsKeepTheirService, Monitor
    <2>1. \/ TaskMoves(Monitor(s, c))
          \/ Counts(task[Monitor(s, c)], task'[Monitor(s, c)])
      BY <1>0, Names, KindsDiffer, StepMoves
    <2> QED BY <2>1, MoveKeepsMonitor
  <1> QED BY <1>1, <1>2 DEF TradeInv
-----------------------------------------------------------------------------
(* Every automatic spawn is paid for.                                      *)

Spawns(a) == Exec(a) \/ LogOpenError(a)

\* Only the creation of a process sets who asked for it.
OriginsKept == \A s \in Services, c \in Children : child'[s][c].by = child[s][c].by

\* Only an automatic exit and a monitor count.
CountsKept(s) == rt'[s].restarts = rt[s].restarts

\* Task steps: origins and counts.
LEMMA TaskStepCounts ==
    ASSUME Typing, ChildInv, NEW a \in Tasks, TaskStep(a)
    PROVE  /\ Spawns(a) \/ OriginsKept
           /\ \A s \in Services : \/ CountsKept(s)
                                  \/ /\ CountRestart(a) /\ s = Current(a)
                                     /\ rt'[s].restarts = rt[s].restarts + 1
  <1>0. /\ rt \in [Services -> RuntimeType]
        /\ child \in [Services -> [Children -> ChildType]]
        /\ ~At(a, "idle")
    BY DEF Typing, TypeOK, TaskStep, SpawnStep, StopStep, CheckSkip, MarkStarting,
       Reject, CascadeRejected, SpawnError, LogOpenError, Exec, Install, StopMark,
       StopAnswered, StopTimedOut, StopFinal, CountRestart, At
  <1>1. Current(a) \in Services /\ rt[Current(a)] \in RuntimeType
    BY <1>0, CurrentTyped
  <1> DEFINE s == Current(a)
             r == rt[s]
  <1>2. /\ BeingStopped(r).restarts = r.restarts
        /\ Cleared(r).restarts = r.restarts
        /\ \A c \in Children : Installed(r, c).restarts = r.restarts
    BY <1>1 DEF BeingStopped, Cleared, Installed, RuntimeType
  <1>3. CASE CheckSkip(a) \/ SpawnError(a) \/ StopAnswered(a) \/ StopTimedOut(a)
    BY <1>3 DEF CheckSkip, SpawnError, StopAnswered, StopTimedOut, OriginsKept, CountsKept
  <1>4. CASE MarkStarting(a)
    BY <1>0, <1>1, <1>4 DEF MarkStarting, OriginsKept, CountsKept, RuntimeType
  <1>5. CASE Reject(a)
    BY <1>0, <1>1, <1>5 DEF Reject, OriginsKept, CountsKept, RuntimeType
  <1>6. CASE CascadeRejected(a)
    BY <1>0, <1>6 DEF CascadeRejected, Cascade, OriginsKept, CountsKept, RuntimeType
  <1>7. CASE Spawns(a)
    BY <1>7 DEF Spawns, Exec, LogOpenError, CountsKept
  <1>8. CASE Install(a)
    <2> DEFINE c == task[a].child
               g == rt[s].generation + 1
    <2>1. c \in Children /\ child[s][c] \in ChildType
      BY <1>0, <1>1, <1>8, InstallEffect
    <2>2. rt' = [rt EXCEPT ![s] = Installed(r, c)]
      BY <1>8 DEF Install
    <2>3. \A t \in Services : CountsKept(t)
      <3> HIDE DEF c, s
      <3> QED BY <1>0, <1>1, <1>2, <2>1, <2>2 DEF CountsKept
    <2>4. OriginsKept
      <3>1. child' = [child EXCEPT ![s][c].phase = "select", ![s][c].gen = g]
        BY <1>8 DEF Install
      <3> HIDE DEF g, c, s
      <3> QED BY <1>0, <1>1, <2>1, <3>1 DEF OriginsKept, ChildType
    <2> QED BY <2>3, <2>4
  <1>9. CASE StopMark(a)
    <2>1. rt' = [rt EXCEPT ![s] = BeingStopped(r)] \/ rt' = rt
      BY <1>9 DEF StopMark
    <2>2. OriginsKept
      BY <1>9 DEF StopMark, OriginsKept
    <2> HIDE DEF s
    <2> QED BY <1>0, <1>1, <1>2, <2>1, <2>2 DEF CountsKept
  <1>10. CASE StopFinal(a)
    <2>1. rt' = [rt EXCEPT ![s] = Cleared(r)] /\ OriginsKept
      BY <1>10 DEF StopFinal, OriginsKept
    <2> HIDE DEF s
    <2> QED BY <1>0, <1>1, <1>2, <2>1 DEF CountsKept
  <1>11. CASE CountRestart(a)
    <2>1. OriginsKept
      BY <1>11 DEF CountRestart, OriginsKept
    <2>2. rt' = [rt EXCEPT ![s].restarts = r.restarts + 1]
      BY <1>11 DEF CountRestart
    <2>3. r.restarts \in Nat
      BY <1>1 DEF RuntimeType
    <2> HIDE DEF s
    <2>4. rt'[s].restarts = r.restarts + 1
          /\ \A t \in Services \ {s} : rt'[t] = rt[t]
      <3> DEFINE n == r.restarts + 1
                 q == [rt[s] EXCEPT !.restarts = n]
      <3>1. rt' = [rt EXCEPT ![s] = q]
        BY <1>0, <1>1, <2>2
      <3> HIDE DEF n
      <3>2. q.restarts = n
        BY <1>1 DEF RuntimeType, s
      <3> HIDE DEF q
      <3>3. rt'[s].restarts = n /\ \A t \in Services \ {s} : rt'[t] = rt[t]
        BY <1>0, <1>1, <3>1, <3>2 DEF s
      <3> QED BY <3>3 DEF n
    <2> QED BY <1>11, <2>1, <2>4 DEF CountsKept, s
  <1> QED
    BY <1>3, <1>4, <1>5, <1>6, <1>7, <1>8, <1>9, <1>10, <1>11
       DEF TaskStep, SpawnStep, StopStep, Spawns

\* Watchers, timers and monitors: origins and counts.
LEMMA BackgroundCounts ==
    ASSUME Typing, NEW s \in Services, NEW c \in Children, Background(s, c)
    PROVE  /\ OriginsKept
           /\ \A t \in Services :
                 \/ CountsKept(t)
                 \/ /\ t = s /\ rt'[t].restarts = rt[t].restarts + 1
                    /\ \E code \in {"ok", "err"} : ExitRestart(s, c, code)
  <1>0. /\ rt \in [Services -> RuntimeType]
        /\ child \in [Services -> [Children -> ChildType]]
        /\ rt[s] \in RuntimeType
        /\ child[s][c] \in ChildType
    BY DEF Typing, TypeOK
  <1>1. /\ Cleared(rt[s]).restarts = rt[s].restarts
        /\ \A st \in {"Stopped", "Failed"} :
              [Cleared(rt[s]) EXCEPT !.state = st].restarts = rt[s].restarts
    BY <1>0 DEF Cleared, RuntimeType
  <1>2. BackedOff(rt[s]).restarts = rt[s].restarts + 1
    <2>1. Cleared(rt[s]).restarts = rt[s].restarts /\ Cleared(rt[s]) \in RuntimeType
      <3>1. c \in 0..MaxSpawns
        BY DEF Children
      <3> QED BY <1>0, <1>1, <3>1, RuntimeTyped
    <2> DEFINE n == Cleared(rt[s]).restarts + 1
    <2>2. n = rt[s].restarts + 1
      BY <2>1
    <2> HIDE DEF n
    <2>3. [Cleared(rt[s]) EXCEPT !.state = "Backoff", !.restarts = n].restarts = n
      BY <2>1 DEF RuntimeType
    <2> QED BY <2>2, <2>3 DEF BackedOff, n
  <1>3. ASSUME NEW p, WatcherTo(s, c, p)
        PROVE  OriginsKept
    BY <1>0, <1>3 DEF WatcherTo, OriginsKept, ChildType
  <1>4. CASE ChildDies(s, c)
    BY <1>0, <1>4 DEF ChildDies, OriginsKept, CountsKept, ChildType
  <1>5. CASE StopRequested(s, c) \/ ExitSuperseded(s, c)
    BY <1>3, <1>5 DEF StopRequested, ExitSuperseded, CountsKept
  <1>6. CASE GracefullyStopped(s, c) \/ ExitWhileStopping(s, c)
    <2>1. rt' = rt \/ rt' = [rt EXCEPT ![s] = Cleared(rt[s])]
      BY <1>0, <1>6 DEF GracefullyStopped, ExitWhileStopping
    <2>2. OriginsKept
      BY <1>3, <1>6 DEF GracefullyStopped, ExitWhileStopping
    <2> QED BY <1>0, <1>1, <2>1, <2>2 DEF CountsKept
  <1>7. ASSUME NEW code \in {"ok", "err"}, ExitFinal(s, c, code)
        PROVE  OriginsKept /\ \A t \in Services : CountsKept(t)
    <2>1. \E st \in {"Stopped", "Failed"} :
             rt' = [rt EXCEPT ![s] = [Cleared(rt[s]) EXCEPT !.state = st]]
      BY <1>7 DEF ExitFinal
    <2>2. OriginsKept
      BY <1>3, <1>7 DEF ExitFinal
    <2> QED BY <1>0, <1>1, <2>1, <2>2 DEF CountsKept
  <1>8. ASSUME NEW code \in {"ok", "err"}, ExitRestart(s, c, code)
        PROVE  /\ OriginsKept
               /\ rt'[s].restarts = rt[s].restarts + 1
               /\ \A t \in Services \ {s} : CountsKept(t)
    <2>1. rt' = [rt EXCEPT ![s] = BackedOff(rt[s])]
      BY <1>8 DEF ExitRestart
    <2>2. OriginsKept
      BY <1>3, <1>8 DEF ExitRestart
    <2> QED BY <1>0, <1>2, <2>1, <2>2 DEF CountsKept
  <1>9. CASE CascadeExit(s, c)
    <2>1. OriginsKept
      BY <1>3, <1>9 DEF CascadeExit
    <2> QED BY <1>0, <1>9, <2>1 DEF CascadeExit, Cascade, CountsKept, RuntimeType
  <1>10. CASE TimerFires(s, c) \/ MonitorTick(s, c) \/ MonitorSample(s, c)
    BY <1>10 DEF TimerFires, MonitorTick, MonitorSample, OriginsKept, CountsKept
  <1> QED
    BY <1>4, <1>5, <1>6, <1>7, <1>8, <1>9, <1>10 DEF Background, WatcherStep

\* Who may still owe a spawn: a spawn that is ahead after the step was ahead
\* before, or is the one just counted.
LEMMA PendingKept ==
    ASSUME Typing, SupervisorInv, TradeInv, [Next]_vars,
           NEW s \in Services, NEW c \in Children
    PROVE  /\ task'[Timer(s, c)].pc \in {"sleep", "mark", "exec"} =>
                \/ task[Timer(s, c)].pc \in {"sleep", "mark", "exec"}
                \/ \E code \in {"ok", "err"} : ExitRestart(s, c, code)
           /\ task'[Monitor(s, c)].pc \in {"mark", "exec"} =>
                \/ task[Monitor(s, c)].pc \in {"mark", "exec"}
                \/ CountRestart(Monitor(s, c))
  <1>0. ChildInv /\ TimersKeepTheirService
    BY DEF SupervisorInv, ChildInv
  <1>1. /\ Timer(s, c) \in Tasks /\ Timer(s, c) \notin Callers
        /\ Timer(s, c) \notin Monitors
        /\ Monitor(s, c) \in Tasks /\ Monitor(s, c) \notin Callers
        /\ \A x, y : Timer(s, c) # Monitor(x, y)
        /\ \A x, y : Monitor(s, c) # Timer(x, y)
    BY Names, KindsDiffer
  <1>2. task[Timer(s, c)].pc \notin {"check", "bump"}
    BY <1>0 DEF TimersKeepTheirService, Timer
  <1>3. task[Monitor(s, c)].pc \notin {"check", "sleep"}
    BY DEF TradeInv, MonitorsKeepTheirService, Monitor
  <1>4. ASSUME task'[Timer(s, c)].pc \in {"sleep", "mark", "exec"}
        PROVE  \/ task[Timer(s, c)].pc \in {"sleep", "mark", "exec"}
               \/ \E code \in {"ok", "err"} : ExitRestart(s, c, code)
    <2>1. CASE TaskMoves(Timer(s, c))
      BY <1>1, <1>2, <1>4, <2>1 DEF TaskMoves, KeepsPending
    <2>2. CASE \E x \in Services, y \in Children :
                 /\ Timer(s, c) = Timer(x, y)
                 /\ \E code \in {"ok", "err"} : ExitRestart(x, y, code)
      BY <2>2, Names
    <2> QED BY <1>0, <1>1, <2>1, <2>2, StepMoves
  <1>5. ASSUME task'[Monitor(s, c)].pc \in {"mark", "exec"}
        PROVE  \/ task[Monitor(s, c)].pc \in {"mark", "exec"}
               \/ CountRestart(Monitor(s, c))
    <2>1. CASE TaskMoves(Monitor(s, c))
      <3>1. \A x : MonitorStart(x).pc = "watch"
        BY DEF MonitorStart
      <3>2. CASE KeepsPending(task[Monitor(s, c)], task'[Monitor(s, c)])
        BY <1>3, <1>5, <3>2 DEF KeepsPending
      <3> QED BY <1>1, <1>5, <2>1, <3>1, <3>2 DEF TaskMoves
    <2> QED BY <1>0, <1>1, <2>1, StepMoves
  <1> QED BY <1>4, <1>5

\* A step that neither spawns nor counts pays for nothing new.
LEMMA QuietPaid ==
    ASSUME Typing, SupervisorInv, TradeInv, [Next]_vars, OriginsKept,
           NEW s \in Services, SpawnsArePaid, CountsKept(s),
           ~\E c \in Children : \/ CountRestart(Monitor(s, c))
                               \/ \E code \in {"ok", "err"} : ExitRestart(s, c, code)
    PROVE  Cardinality(Paid(s)') <= rt'[s].restarts
  <1>1. Paid(s)' \subseteq Paid(s)
    BY PendingKept DEF Paid, OriginsKept, Timer, Monitor
  <1>2. /\ Cardinality(Paid(s)) \in Nat /\ Cardinality(Paid(s)') \in Nat
        /\ Cardinality(Paid(s)') <= Cardinality(Paid(s))
    BY <1>1, PaidFinite, PartCounts
  <1>3. rt[s].restarts \in Nat /\ rt'[s].restarts = rt[s].restarts
    BY DEF Typing, TypeOK, RuntimeType, CountsKept
  <1>4. Cardinality(Paid(s)) <= rt[s].restarts
    BY DEF SpawnsArePaid
  <1> QED BY <1>2, <1>3, <1>4

\* A count pays for the spawn it decides.
LEMMA CountPays ==
    ASSUME Typing, NEW s \in Services, SpawnsArePaid, NEW x,
           Paid(s)' \subseteq Paid(s) \cup {x},
           rt'[s].restarts = rt[s].restarts + 1
    PROVE  Cardinality(Paid(s)') <= rt'[s].restarts
  <1>1. Cardinality(Paid(s)') <= Cardinality(Paid(s)) + 1
    BY PaidFinite, GrowsByOne
  <1>2. /\ Cardinality(Paid(s)) \in Nat /\ Cardinality(Paid(s)') \in Nat
        /\ rt[s].restarts \in Nat
    <2>1. IsFiniteSet(Paid(s) \cup {x})
      BY PaidFinite, FS_AddElement
    <2> QED BY <2>1, PaidFinite, PartCounts DEF Typing, TypeOK, RuntimeType
  <1>3. Cardinality(Paid(s)) <= rt[s].restarts
    BY DEF SpawnsArePaid
  <1> QED BY <1>1, <1>2, <1>3

\* A spawn uses up what paid for it.
LEMMA SpawnUses ==
    ASSUME Typing, NEW s \in Services, SpawnsArePaid, NEW x \in Paid(s), NEW y,
           Paid(s)' \subseteq (Paid(s) \ {x}) \cup {y},
           rt'[s].restarts = rt[s].restarts
    PROVE  Cardinality(Paid(s)') <= rt'[s].restarts
  <1>1. Cardinality(Paid(s)') <= Cardinality(Paid(s))
    BY PaidFinite, Exchange
  <1>2. /\ Cardinality(Paid(s)) \in Nat /\ Cardinality(Paid(s)') \in Nat
        /\ rt[s].restarts \in Nat
    <2>1. IsFiniteSet((Paid(s) \ {x}) \cup {y})
      BY PaidFinite, FS_AddElement, FS_RemoveElement
    <2> QED BY <2>1, PaidFinite, PartCounts DEF Typing, TypeOK, RuntimeType
  <1>3. Cardinality(Paid(s)) <= rt[s].restarts
    BY DEF SpawnsArePaid
  <1> QED BY <1>1, <1>2, <1>3

\* The creation of a process keeps every service within what was counted.
LEMMA SpawnPaid ==
    ASSUME Typing, SupervisorInv, TradeInv, SpawnsArePaid, [Next]_vars,
           NEW a \in Tasks, Spawns(a), TaskStep(a), NEW s \in Services
    PROVE  Cardinality(Paid(s)') <= rt'[s].restarts
  <1> DEFINE n == NextChild(Current(a))
  <1>0. /\ ~At(a, "idle") /\ task[a].pc = "exec" /\ UNCHANGED rt
        /\ ChildInv /\ TimersKeepTheirService
    BY DEF Spawns, Exec, LogOpenError, At, SupervisorInv, ChildInv
  <1>1. PICK p \in {"held", "leaked"} : NewChild(Current(a), task[a].op, p)
    BY DEF Spawns, Exec, LogOpenError
  <1>2. Current(a) \in Services /\ task[a].op \in Ops
    BY <1>0, CurrentTyped DEF TaskType
  <1>3. /\ n \in Children
        /\ \A t \in Services, c \in Children :
              (t # Current(a) \/ c # n) => child'[t][c] = child[t][c]
    BY <1>0, <1>1, <1>2, NewChildEffect DEF ChildInv
  <1>4. child'[Current(a)][n].by = task[a].op
    BY <1>1, <1>2, <1>3 DEF NewChild, Typing, TypeOK
  <1>5. /\ task'[a].pc \in {"install", "idle"}
        /\ \A b \in Tasks \ {a} : task'[b] = task[b]
    <2>1. CASE Exec(a)
      BY <2>1 DEF Exec, Become, Typing, TypeOK, TaskType
    <2>2. CASE LogOpenError(a)
      BY <2>2 DEF LogOpenError, Become, Typing, TypeOK, Idle
    <2> QED BY <2>1, <2>2 DEF Spawns
  <1>6. /\ task[a].op = "respawn" <=> a \in Timers
        /\ task[a].op = "single" <=> a \in Monitors
    BY <1>0 DEF TradeInv, TasksKeepTheirTrade
  <1>7. \A t \in Services, c \in Children :
           a \in {Timer(t, c), Monitor(t, c)} => Current(a) = t
    BY <1>0 DEF TradeInv, MonitorsKeepTheirService, TimersKeepTheirService,
       Current, Timer, Monitor
  <1> HIDE DEF n
  <1>8. \A c \in Children :
           /\ Timer(s, c) \in Tasks /\ Monitor(s, c) \in Tasks
           /\ task'[Timer(s, c)].pc \in {"sleep", "mark", "exec"} =>
                 Timer(s, c) # a /\ task[Timer(s, c)].pc \in {"sleep", "mark", "exec"}
           /\ task'[Monitor(s, c)].pc \in {"mark", "exec"} =>
                 Monitor(s, c) # a /\ task[Monitor(s, c)].pc \in {"mark", "exec"}
    BY <1>5, Names, KindsDiffer
  <1>9. \A c \in Children : child'[s][c].by \in {"respawn", "single"} =>
           \/ child[s][c].by \in {"respawn", "single"}
           \/ s = Current(a) /\ c = n /\ a \in Timers \cup Monitors
    BY <1>3, <1>4, <1>6
  <1>10. CASE s = Current(a) /\ a \in Timers \cup Monitors
    <2>1. PICK x : /\ x \in Paid(s)
                   /\ \A c \in Children : Timer(s, c) # a => x # <<"respawn", c>>
                   /\ \A c \in Children : Monitor(s, c) # a => x # <<"single", c>>
                   /\ \A c \in Children : x # <<"spawned", c>>
      <3>1. CASE a \in Timers
        <4>1. PICK t \in Services, c \in Children : a = Timer(t, c)
          BY <3>1, Names
        <4>2. t = s
          BY <1>7, <1>10, <4>1
        <4>3. <<"respawn", c>> \in Paid(s)
          BY <1>0, <4>1, <4>2 DEF Paid, Timer
        <4> QED BY <4>1, <4>2, <4>3
      <3>2. CASE a \in Monitors
        <4>1. PICK t \in Services, c \in Children : a = Monitor(t, c)
          BY <3>2, Names
        <4>2. t = s
          BY <1>7, <1>10, <4>1
        <4>3. <<"single", c>> \in Paid(s)
          BY <1>0, <4>1, <4>2 DEF Paid, Monitor
        <4> QED BY <4>1, <4>2, <4>3
      <3> QED BY <1>10, <3>1, <3>2
    <2>2. Paid(s)' \subseteq (Paid(s) \ {x}) \cup {<<"spawned", n>>}
      BY <1>8, <1>9, <2>1 DEF Paid, Timer, Monitor
    <2> QED BY <1>0, <2>1, <2>2, SpawnUses
  <1>11. CASE ~(s = Current(a) /\ a \in Timers \cup Monitors)
    <2>1. Paid(s)' \subseteq Paid(s)
      BY <1>8, <1>9, <1>11 DEF Paid, Timer, Monitor
    <2>2. /\ Cardinality(Paid(s)) \in Nat /\ Cardinality(Paid(s)') \in Nat
          /\ Cardinality(Paid(s)') <= Cardinality(Paid(s))
      BY <2>1, PaidFinite, PartCounts
    <2>3. Cardinality(Paid(s)) <= rt[s].restarts /\ rt[s].restarts \in Nat
      BY DEF SpawnsArePaid, Typing, TypeOK, RuntimeType
    <2> QED BY <1>0, <2>2, <2>3
  <1> QED BY <1>10, <1>11

\* An automatic exit pays for the timer it starts.
LEMMA ExitPaid ==
    ASSUME Typing, SupervisorInv, TradeInv, SpawnsArePaid, [Next]_vars,
           NEW x \in Services, NEW d \in Children,
           \E code \in {"ok", "err"} : ExitRestart(x, d, code),
           NEW s \in Services
    PROVE  Cardinality(Paid(s)') <= rt'[s].restarts
  <1>1. Background(x, d)
    BY DEF Background, WatcherStep
  <1>2. /\ OriginsKept
        /\ \A t \in Services \ {x} : CountsKept(t)
    BY <1>1, BackgroundCounts
  <1>3. /\ rt'[x].restarts = rt[x].restarts + 1
        /\ task' = [task EXCEPT ![Timer(x, d)] = TimerStart(x)]
    <2>1. rt' = [rt EXCEPT ![x] = BackedOff(rt[x])]
          /\ task' = [task EXCEPT ![Timer(x, d)] = TimerStart(x)]
      BY DEF ExitRestart, Become, Timer, TimerStart
    <2>2. rt[x] \in RuntimeType /\ rt \in [Services -> RuntimeType]
      BY DEF Typing, TypeOK
    <2>3. d \in 0..MaxSpawns
      BY DEF Children
    <2>4. Cleared(rt[x]).restarts = rt[x].restarts /\ Cleared(rt[x]) \in RuntimeType
      BY <2>2, <2>3, RuntimeTyped DEF Cleared, RuntimeType
    <2> DEFINE n == Cleared(rt[x]).restarts + 1
    <2>5. n = rt[x].restarts + 1
      BY <2>4
    <2> HIDE DEF n
    <2>6. [Cleared(rt[x]) EXCEPT !.state = "Backoff", !.restarts = n].restarts = n
      BY <2>4 DEF RuntimeType
    <2>7. BackedOff(rt[x]).restarts = rt[x].restarts + 1
      BY <2>5, <2>6 DEF BackedOff, n
    <2> QED BY <2>1, <2>2, <2>7
  <1>4. \A t \in Services, c \in Children :
           /\ Timer(t, c) \in Tasks /\ Monitor(t, c) \in Tasks
           /\ task'[Monitor(t, c)] = task[Monitor(t, c)]
           /\ (t # x \/ c # d) => task'[Timer(t, c)] = task[Timer(t, c)]
    BY <1>3, Names, KindsDiffer DEF Typing, TypeOK
  <1>5. CASE s = x
    <2>1. Paid(s)' \subseteq Paid(s) \cup {<<"respawn", d>>}
      BY <1>2, <1>4, <1>5 DEF Paid, OriginsKept, Timer, Monitor
    <2> QED BY <1>3, <1>5, <2>1, CountPays
  <1>6. CASE s # x
    <2>1. Paid(s)' \subseteq Paid(s)
      BY <1>2, <1>4, <1>6 DEF Paid, OriginsKept, Timer, Monitor
    <2>2. /\ Cardinality(Paid(s)) \in Nat /\ Cardinality(Paid(s)') \in Nat
          /\ Cardinality(Paid(s)') <= Cardinality(Paid(s))
      BY <2>1, PaidFinite, PartCounts
    <2>3. Cardinality(Paid(s)) <= rt[s].restarts /\ rt[s].restarts \in Nat
          /\ rt'[s].restarts = rt[s].restarts
      BY <1>2, <1>6 DEF SpawnsArePaid, Typing, TypeOK, RuntimeType, CountsKept
    <2> QED BY <2>2, <2>3
  <1> QED BY <1>5, <1>6

\* A monitor pays for the spawn it goes on to.
LEMMA MonitorPaid ==
    ASSUME Typing, SupervisorInv, TradeInv, SpawnsArePaid, [Next]_vars,
           NEW x \in Services, NEW d \in Children, CountRestart(Monitor(x, d)),
           NEW s \in Services
    PROVE  Cardinality(Paid(s)') <= rt'[s].restarts
  <1> DEFINE a == Monitor(x, d)
  <1>0. /\ a \in Tasks /\ TaskStep(a) /\ ~Spawns(a) /\ task[a].pc = "bump" /\ ChildInv
    BY Names, KindsDiffer
       DEF TaskStep, Spawns, Exec, LogOpenError, CountRestart, At, SupervisorInv, ChildInv
  <1>1. Current(a) = x
    BY <1>0 DEF TradeInv, MonitorsKeepTheirService, Monitor, Current
  <1>2. OriginsKept /\ \A t \in Services \ {x} : CountsKept(t)
    BY <1>0, <1>1, TaskStepCounts
  <1>3. rt'[x].restarts = rt[x].restarts + 1
    <2>1. rt' = [rt EXCEPT ![x].restarts = rt[x].restarts + 1]
      BY <1>1 DEF CountRestart
    <2>2. rt[x] \in RuntimeType /\ rt \in [Services -> RuntimeType]
      BY DEF Typing, TypeOK
    <2> DEFINE n == rt[x].restarts + 1
               q == [rt[x] EXCEPT !.restarts = n]
    <2>3. rt' = [rt EXCEPT ![x] = q]
      BY <2>1, <2>2
    <2> HIDE DEF n
    <2>4. q.restarts = n
      BY <2>2 DEF RuntimeType
    <2> HIDE DEF q
    <2> QED BY <2>2, <2>3, <2>4 DEF n
  <1>4. \A b \in Tasks : b # a => task'[b] = task[b]
    BY DEF CountRestart, Goto, Become, Typing, TypeOK
  <1>5. \A t \in Services, c \in Children :
           /\ task'[Timer(t, c)] = task[Timer(t, c)]
           /\ (t # x \/ c # d) => task'[Monitor(t, c)] = task[Monitor(t, c)]
    <2> HIDE DEF a
    <2>1. \A t \in Services, c \in Children :
             /\ Timer(t, c) \in Tasks /\ Monitor(t, c) \in Tasks
             /\ Timer(t, c) # a
             /\ (t # x \/ c # d) => Monitor(t, c) # a
      BY Names, KindsDiffer DEF a
    <2> QED BY <1>4, <2>1
  <1>6. CASE s = x
    <2>1. Paid(s)' \subseteq Paid(s) \cup {<<"single", d>>}
      BY <1>2, <1>5, <1>6 DEF Paid, OriginsKept, Timer, Monitor
    <2> QED BY <1>3, <1>6, <2>1, CountPays
  <1>7. CASE s # x
    <2>1. Paid(s)' \subseteq Paid(s)
      BY <1>2, <1>5, <1>7 DEF Paid, OriginsKept, Timer, Monitor
    <2>2. /\ Cardinality(Paid(s)) \in Nat /\ Cardinality(Paid(s)') \in Nat
          /\ Cardinality(Paid(s)') <= Cardinality(Paid(s))
      BY <2>1, PaidFinite, PartCounts
    <2>3. Cardinality(Paid(s)) <= rt[s].restarts /\ rt[s].restarts \in Nat
          /\ rt'[s].restarts = rt[s].restarts
      BY <1>2, <1>7 DEF SpawnsArePaid, Typing, TypeOK, RuntimeType, CountsKept
    <2> QED BY <2>2, <2>3
  <1> QED BY <1>6, <1>7

\* Every step keeps the spawns within what was counted.
LEMMA PaidStep ==
    Typing /\ SupervisorInv /\ TradeInv /\ SpawnsArePaid /\ [Next]_vars => SpawnsArePaid'
  <1> SUFFICES ASSUME Typing, SupervisorInv, TradeInv, SpawnsArePaid, [Next]_vars,
                      NEW s \in Services
               PROVE  Cardinality(Paid(s)') <= rt'[s].restarts
    BY DEF SpawnsArePaid
  <1>0. ChildInv
    BY DEF SupervisorInv, ChildInv
  <1>1. CASE \E x \in Services, d \in Children, code \in {"ok", "err"} :
               ExitRestart(x, d, code)
    BY <1>1, ExitPaid
  <1>2. CASE \E x \in Services, d \in Children : CountRestart(Monitor(x, d))
    BY <1>2, MonitorPaid
  <1>3. CASE \E a \in Tasks : Spawns(a)
    <2>1. PICK a \in Tasks : Spawns(a)
      BY <1>3
    <2>2. TaskStep(a)
      BY <2>1 DEF Spawns, TaskStep, SpawnStep, Exec, LogOpenError, At
    <2> QED BY <2>1, <2>2, SpawnPaid
  <1>4. CASE /\ ~\E x \in Services, d \in Children, code \in {"ok", "err"} :
                   ExitRestart(x, d, code)
             /\ ~\E x \in Services, d \in Children : CountRestart(Monitor(x, d))
             /\ ~\E a \in Tasks : Spawns(a)
    <2>1. OriginsKept /\ CountsKept(s)
      <3>1. CASE UNCHANGED vars
        BY <3>1 DEF vars, OriginsKept, CountsKept
      <3>2. CASE \E a \in Callers : Call(a)
        BY <3>2 DEF Call, Start, Stop, Restart, ShutdownAll, OriginsKept, CountsKept
      <3>3. ASSUME NEW a \in Tasks, TaskStep(a)
            PROVE  OriginsKept /\ CountsKept(s)
        <4>1. CASE CountRestart(a)
          BY <1>4, <4>1, OnlyMonitorsCount, Names
        <4>2. CASE ~CountRestart(a)
          BY <1>0, <1>4, <3>3, <4>2, TaskStepCounts
        <4> QED BY <4>1, <4>2
      <3>4. ASSUME NEW x \in Services, NEW d \in Children, Background(x, d)
            PROVE  OriginsKept /\ CountsKept(s)
        BY <1>4, <3>4, BackgroundCounts
      <3> QED BY <3>1, <3>2, <3>3, <3>4 DEF Next, Background
    <2> QED BY <1>4, <2>1, QuietPaid
  <1> QED BY <1>1, <1>2, <1>3, <1>4
-----------------------------------------------------------------------------
(* The budget.                                                             *)

\* decide_restart stops counting at the policy's maximum.
LEMMA PolicyStep ==
    Typing /\ SupervisorInv /\ TradeInv /\ RestartsWithinPolicy /\ [Next]_vars
        => RestartsWithinPolicy'
  <1> SUFFICES ASSUME Typing, SupervisorInv, TradeInv, RestartsWithinPolicy, [Next]_vars,
                      NEW s \in Services \ Monitored, Policy[s].kind = "on_failure"
               PROVE  rt'[s].restarts <= Policy[s].max
    BY DEF RestartsWithinPolicy
  <1>0. ChildInv
    BY DEF SupervisorInv, ChildInv
  <1>1. rt[s].restarts <= Policy[s].max
    BY DEF RestartsWithinPolicy
  <1>2. rt[s].restarts \in Nat /\ Policy[s].max \in Nat
    BY SupervisorAssumption DEF Typing, TypeOK, RuntimeType, PolicyType
  <1>3. CASE CountsKept(s)
    BY <1>1, <1>3 DEF CountsKept
  <1>4. CASE UNCHANGED vars \/ \E a \in Callers : Call(a)
    BY <1>1, <1>4 DEF vars, Call, Start, Stop, Restart, ShutdownAll
  <1>5. ASSUME NEW a \in Tasks, TaskStep(a)
        PROVE  CountsKept(s)
    <2>1. CASE CountRestart(a) /\ s = Current(a)
      <3>1. PICK t \in Services, c \in Children : a = Monitor(t, c)
        BY <2>1, OnlyMonitorsCount, Names
      <3>2. t \in Monitored /\ task[a].todo = <<t>>
        BY <2>1, <3>1 DEF TradeInv, MonitorsKeepTheirService, CountRestart, At, Monitor
      <3> QED BY <2>1, <3>2 DEF Current
    <2> QED BY <1>0, <1>5, <2>1, TaskStepCounts
  <1>6. ASSUME NEW x \in Services, NEW d \in Children, Background(x, d), ~CountsKept(s)
        PROVE  rt'[s].restarts <= Policy[s].max
    <2>1. /\ x = s /\ rt'[s].restarts = rt[s].restarts + 1
          /\ \E code \in {"ok", "err"} : ExitRestart(x, d, code)
      BY <1>6, BackgroundCounts
    <2>2. rt[s].restarts < Policy[s].max
      BY <2>1 DEF ExitRestart, WillRestart
    <2> QED BY <1>2, <2>1, <2>2
  <1> QED BY <1>3, <1>4, <1>5, <1>6 DEF Next, Background

\* Nothing is owed or counted before the first call.
LEMMA InitBudget == Init => BudgetInv
  <1> SUFFICES ASSUME Init PROVE BudgetInv
    OBVIOUS
  <1>1. /\ \A s \in Services : rt[s].restarts = 0
        /\ \A s \in Services, c \in Children : child[s][c].by = "none"
        /\ \A b \in Tasks : task[b].pc = "idle"
    BY DEF Init, FreshRuntime, FreshChild, Idle
  <1>2. \A s \in Services, c \in Children :
           Timer(s, c) \in Tasks /\ Monitor(s, c) \in Tasks
    BY Names, KindsDiffer
  <1>3. TasksKeepTheirTrade /\ MonitorsKeepTheirService
    BY <1>1, <1>2 DEF TasksKeepTheirTrade, MonitorsKeepTheirService, At, Monitor
  <1>4. SpawnsArePaid
    <2>1. \A s \in Services : Paid(s) = {}
      BY <1>1, <1>2 DEF Paid, Timer, Monitor
    <2> QED BY <1>1, <2>1, FS_EmptySet DEF SpawnsArePaid
  <1>5. RestartsWithinPolicy
    <2>1. \A s \in Services : Policy[s].max \in Nat
      BY SupervisorAssumption DEF PolicyType
    <2> QED BY <1>1, <2>1 DEF RestartsWithinPolicy
  <1> QED BY <1>3, <1>4, <1>5 DEF BudgetInv

\* restarts pays for every spawn of a timer or a monitor, made or still ahead,
\* and stays within the policy of a service without a monitor.
THEOREM BudgetSafe == Spec => []BudgetInv
  <1>1. Init => Typing /\ SupervisorInv /\ BudgetInv
    BY InitTyped, InitSafe, InitBudget
  <1>2. Typing /\ SupervisorInv /\ [Next]_vars => Typing' /\ SupervisorInv'
    BY NextTyped, ChildInvStep, SupervisedStep, BackoffStep
       DEF SupervisorInv, ChildInv, SupervisedInv, BackoffInv
  <1>3. Typing /\ SupervisorInv /\ BudgetInv /\ [Next]_vars => BudgetInv'
    BY TradeStep, PaidStep, PolicyStep DEF BudgetInv, TradeInv
  <1> QED BY <1>1, <1>2, <1>3, PTL DEF Spec

\* Every process the supervisor created on its own account was counted in
\* restarts, however timers, monitors, stops and starts interleave.
THEOREM AutomaticSpawnsAreCounted == Spec => []AutomaticSpawnsCounted
  <1>1. Typing /\ BudgetInv => AutomaticSpawnsCounted
    <2> SUFFICES ASSUME Typing, BudgetInv, NEW s \in Services
                 PROVE  Cardinality({c \in Children : child[s][c].by \in {"respawn", "single"}})
                            <= rt[s].restarts
      BY DEF AutomaticSpawnsCounted
    <2> DEFINE made == {c \in Children : child[s][c].by \in {"respawn", "single"}}
               tickets == {"spawned"} \X made
    <2>1. IsFiniteSet(made)
      BY PaidFinite, FS_Subset
    <2>2. Cardinality(tickets) = Cardinality(made)
      <3> HIDE DEF made
      <3>1. /\ IsFiniteSet({"spawned"}) /\ Cardinality({"spawned"}) = 1
        BY FS_Singleton
      <3>2. Cardinality(tickets) = 1 * Cardinality(made)
        BY <2>1, <3>1, FS_Product
      <3>3. Cardinality(made) \in Nat
        BY <2>1, FS_CardinalityType
      <3> QED BY <3>2, <3>3
    <2>3. tickets \subseteq Paid(s)
      BY DEF Paid
    <2> HIDE DEF made, tickets
    <2>4. /\ Cardinality(Paid(s)) \in Nat /\ Cardinality(tickets) \in Nat
          /\ Cardinality(tickets) <= Cardinality(Paid(s))
      BY <2>3, PaidFinite, PartCounts
    <2>5. Cardinality(Paid(s)) <= rt[s].restarts /\ rt[s].restarts \in Nat
      BY DEF BudgetInv, SpawnsArePaid, Typing, TypeOK, RuntimeType
    <2>6. Cardinality(made) <= rt[s].restarts
      BY <2>2, <2>4, <2>5
    <2> QED BY <2>6 DEF made
  <1>2. Init => Typing
    BY InitTyped
  <1>3. Typing /\ [Next]_vars => Typing'
    BY NextTyped
  <1> QED BY <1>1, <1>2, <1>3, BudgetSafe, PTL DEF Spec

\* max_attempts bounds the processes created without being asked for, over the
\* whole life of the supervisor.
THEOREM BudgetHolds == Spec => []RestartBudget
  <1>1. AutomaticSpawnsCounted /\ BudgetInv /\ TypeOK => RestartBudget
    <2> SUFFICES ASSUME AutomaticSpawnsCounted, BudgetInv, TypeOK,
                        NEW s \in Services \ Monitored, Policy[s].kind = "on_failure"
                 PROVE  Cardinality({c \in Children : child[s][c].by = "respawn"})
                            <= Policy[s].max
      BY DEF RestartBudget
    <2> DEFINE made == {c \in Children : child[s][c].by \in {"respawn", "single"}}
               respawned == {c \in Children : child[s][c].by = "respawn"}
    <2>1. IsFiniteSet(made) /\ respawned \subseteq made
      BY PaidFinite, FS_Subset
    <2>2. Cardinality(made) <= rt[s].restarts
      BY DEF AutomaticSpawnsCounted
    <2> HIDE DEF made, respawned
    <2>3. /\ Cardinality(made) \in Nat /\ Cardinality(respawned) \in Nat
          /\ Cardinality(respawned) <= Cardinality(made)
      BY <2>1, PartCounts
    <2>4. rt[s].restarts <= Policy[s].max /\ rt[s].restarts \in Nat /\ Policy[s].max \in Nat
      BY SupervisorAssumption
         DEF BudgetInv, RestartsWithinPolicy, TypeOK, RuntimeType, PolicyType
    <2>5. Cardinality(respawned) <= Policy[s].max
      BY <2>2, <2>3, <2>4
    <2> QED BY <2>5 DEF respawned
  <1> QED BY <1>1, AutomaticSpawnsAreCounted, BudgetSafe, TypeCorrect, PTL
-----------------------------------------------------------------------------
(* A superseded watcher is silent.                                         *)

\* Only the watcher of an installed child moves it between phases.
LEMMA PhaseMoves ==
    ASSUME Typing, SupervisorInv, Next, NEW s \in Services, NEW c \in Children,
           child[s][c].gen # 0, child'[s][c].phase # child[s][c].phase
    PROVE  WatcherStep(s, c)
  <1>0. ChildInv /\ SlotsInOrder
    BY DEF SupervisorInv, ChildInv
  <1>1. ASSUME NEW a \in Callers, Call(a) PROVE FALSE
    BY <1>1 DEF Call, Start, Stop, Restart, ShutdownAll
  <1>2. ASSUME NEW a \in Tasks, TaskStep(a) PROVE FALSE
    <2>0. ~At(a, "idle")
      BY <1>2 DEF TaskStep, SpawnStep, StopStep, CheckSkip, MarkStarting, Reject,
         CascadeRejected, SpawnError, LogOpenError, Exec, Install, StopMark,
         StopAnswered, StopTimedOut, StopFinal, CountRestart, At
    <2>1. CASE Spawns(a)
      <3>1. PICK p \in {"held", "leaked"} : NewChild(Current(a), task[a].op, p)
        BY <2>1 DEF Spawns, Exec, LogOpenError
      <3>2. Current(a) \in Services /\ task[a].op \in Ops
        BY <2>0, CurrentTyped DEF TaskType
      <3> QED BY <1>0, <3>1, <3>2, NewChildEffect
    <2>2. CASE Install(a)
      <3>1. /\ Current(a) \in Services /\ task[a].child \in Children
            /\ child[Current(a)][task[a].child].phase = "held"
            /\ \A t \in Services, d \in Children :
                  (t # Current(a) \/ d # task[a].child) => child'[t][d] = child[t][d]
        BY <1>0, <2>2, InstallEffect
      <3>2. child[Current(a)][task[a].child].gen = 0
        BY <1>0, <3>1 DEF SlotsInOrder
      <3> QED BY <3>1, <3>2
    <2>3. CASE ~Spawns(a) /\ ~Install(a)
      BY <1>2, <2>0, <2>3, TaskStepLowers DEF TaskStep, SpawnStep, Spawns
    <2> QED BY <2>1, <2>2, <2>3
  <1>3. ASSUME NEW x \in Services, NEW d \in Children, Background(x, d)
        PROVE  WatcherStep(s, c)
    <2>1. x = s /\ d = c
      BY <1>3, BackgroundEffect
    <2>2. ~ChildDies(x, d)
      <3>1. /\ child \in [Services -> [Children -> ChildType]]
            /\ child[s][c] \in ChildType
        BY DEF Typing, TypeOK
      <3> QED BY <2>1, <3>1 DEF ChildDies, ChildType
    <2> QED BY <1>3, <2>1, <2>2 DEF Background, TimerFires, MonitorTick, MonitorSample
  <1> QED BY <1>1, <1>2, <1>3 DEF Next, Background

\* Once a start has installed a successor, what the watcher of the old child
\* does, its exit, its stop or its cascade, leaves the service's record alone.
THEOREM SupersededStaysSilent == Spec => SupersededWatcherSilent
  <1> DEFINE Silent == \A s \in Services, c \in Children :
                 (/\ child[s][c].gen # 0
                  /\ child[s][c].gen # rt[s].generation
                  /\ child'[s][c].phase # child[s][c].phase) => rt'[s] = rt[s]
  <1>1. Typing /\ SupervisorInv /\ [Next]_vars => [Silent]_vars
    <2> SUFFICES ASSUME Typing, SupervisorInv, Next,
                        NEW s \in Services, NEW c \in Children,
                        child[s][c].gen # 0, child[s][c].gen # rt[s].generation,
                        child'[s][c].phase # child[s][c].phase
                 PROVE  rt'[s] = rt[s]
      OBVIOUS
    <2>1. WatcherStep(s, c) /\ ~Owns(s, c)
      BY PhaseMoves DEF Owns
    <2>2. s \notin Downstream(s)
      BY DEF Downstream
    <2>3. rt \in [Services -> RuntimeType]
      BY DEF Typing, TypeOK
    <2>4. CASE StopRequested(s, c) \/ ExitSuperseded(s, c)
      BY <2>4 DEF StopRequested, ExitSuperseded
    <2>5. CASE GracefullyStopped(s, c)
      BY <2>1, <2>3, <2>5 DEF GracefullyStopped
    <2>6. CASE CascadeExit(s, c)
      BY <2>2, <2>3, <2>6 DEF CascadeExit, Cascade
    <2>7. CASE \/ ExitWhileStopping(s, c)
               \/ \E code \in {"ok", "err"} : ExitFinal(s, c, code) \/ ExitRestart(s, c, code)
      BY <2>1, <2>7 DEF ExitWhileStopping, ExitFinal, ExitRestart
    <2> QED BY <2>1, <2>4, <2>5, <2>6, <2>7 DEF WatcherStep
  <1>2. Init => Typing
    BY InitTyped
  <1>3. Typing /\ [Next]_vars => Typing'
    BY NextTyped
  <1> QED BY <1>1, <1>2, <1>3, SupervisorSafe, PTL DEF Spec, SupersededWatcherSilent
=============================================================================
