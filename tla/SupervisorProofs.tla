-------------------------- MODULE SupervisorProofs --------------------------
(***************************************************************************)
(* Proofs about Supervisor, for every set of services and callers, every   *)
(* policy and every number of processes.                                   *)
(***************************************************************************)
EXTENDS Supervisor, TLAPS

\* A task inside an operation has a current service.
BusyHasService == \A a \in Tasks : ~At(a, "idle") => task[a].todo # <<>>

Typing == TypeOK /\ BusyHasService

TaskOK(t) == t \in TaskType /\ (t.pc # "idle" => t.todo # <<>>)

\* Every record Walk builds is a well-formed task.
LEMMA WalkTyped ==
    ASSUME NEW op \in Ops,
           NEW p \in {"check", "stop"},
           NEW order \in Seq(Services), NEW then \in Seq(Services)
    PROVE  TaskOK(Walk(op, p, order, then))
  <1>1. CASE order = <<>>
    BY <1>1, SupervisorAssumption DEF Walk, Idle, TaskOK, TaskType, NoChild, Ops, Points
  <1>2. CASE order # <<>>
    BY <1>2, SupervisorAssumption DEF Walk, TaskOK, TaskType, NoChild, Points
  <1> QED BY <1>1, <1>2

\* The stop order of a service is a sequence of services too.
LEMMA ReverseTyped ==
    ASSUME NEW q \in Seq(Services)
    PROVE  Reverse(q) \in Seq(Services)
  BY DEF Reverse

\* The current service of a busy task is a service, and what follows a walk.
LEMMA CurrentTyped ==
    ASSUME Typing, NEW a \in Tasks, ~At(a, "idle")
    PROVE  /\ task[a] \in TaskType
           /\ task[a].todo # <<>>
           /\ Current(a) \in Services
           /\ Tail(task[a].todo) \in Seq(Services)
  BY DEF Typing, TypeOK, BusyHasService, TaskType, Current, At

\* Where a task goes after a spawn or a stop is a well-formed task.
LEMMA AfterTyped ==
    ASSUME Typing, NEW a \in Tasks, ~At(a, "idle")
    PROVE  TaskOK(AfterSpawn(a)) /\ TaskOK(AfterStop(a))
  <1>1. /\ task[a] \in TaskType
        /\ task[a].todo # <<>>
        /\ Tail(task[a].todo) \in Seq(Services)
    BY CurrentTyped
  <1>2. /\ task[a].op \in Ops
        /\ task[a].then \in Seq(Services)
    BY <1>1 DEF TaskType
  <1>0. <<>> \in Seq(Services)
    OBVIOUS
  <1>3. TaskOK(AfterSpawn(a))
    <2> DEFINE op == task[a].op  rest == Tail(task[a].todo)
    <2> HIDE DEF op, rest
    <2>1. TaskOK(Walk(op, "check", rest, <<>>))
      BY <1>0, <1>1, <1>2, WalkTyped DEF op, rest
    <2> QED BY <2>1 DEF AfterSpawn, op, rest
  <1>4. CASE task[a].op = "single"
    <2>1. NoChild \in 0..MaxSpawns
      BY SupervisorAssumption DEF NoChild
    <2>2. AfterStop(a) = [task[a] EXCEPT !.pc = "bump", !.child = NoChild]
      BY <1>4 DEF AfterStop
    <2>3. TaskOK(AfterStop(a))
      BY <1>1, <2>1, <2>2 DEF TaskOK, TaskType, Points
    <2> QED BY <1>3, <2>3
  <1>5. CASE task[a].op # "single" /\ Tail(task[a].todo) # <<>>
    BY <1>1, <1>2, <1>3, <1>5, WalkTyped DEF AfterStop
  <1>6. CASE task[a].op # "single" /\ Tail(task[a].todo) = <<>>
    BY <1>1, <1>2, <1>3, <1>6, WalkTyped DEF AfterStop, Ops
  <1> QED BY <1>4, <1>5, <1>6

\* Replacing one task by a well-formed one keeps the tasks well-typed.
LEMMA BecomeTyped ==
    ASSUME Typing, NEW a \in Tasks, NEW t, TaskOK(t), Become(a, t)
    PROVE  task' \in [Tasks -> TaskType] /\ BusyHasService'
  BY DEF Typing, TypeOK, BusyHasService, TaskOK, Become, At

\* Moving a busy task to another point keeps the tasks well-typed.
LEMMA GotoTyped ==
    ASSUME Typing, NEW a \in Tasks, ~At(a, "idle"),
           NEW p \in Points,
           Goto(a, p)
    PROVE  task' \in [Tasks -> TaskType] /\ BusyHasService'
  <1>1. task[a] \in TaskType /\ task[a].todo # <<>>
    BY CurrentTyped
  <1>2. TaskOK([task[a] EXCEPT !.pc = p])
    BY <1>1 DEF TaskOK, TaskType
  <1> QED BY <1>2, BecomeTyped DEF Goto

-----------------------------------------------------------------------------
(* Type correctness.                                                       *)

\* The initial state is well-typed.
LEMMA InitTyped == Init => Typing
  <1> SUFFICES ASSUME Init PROVE Typing
    OBVIOUS
  <1>1. FreshRuntime \in RuntimeType
    BY SupervisorAssumption DEF FreshRuntime, RuntimeType, NoChild, States
  <1>2. FreshChild \in ChildType
    BY DEF FreshChild, ChildType, Phases, Ops
  <1>3. Idle \in TaskType
    BY SupervisorAssumption DEF Idle, TaskType, NoChild, Ops, Points
  <1>4. rt \in [Services -> RuntimeType]
    BY <1>1 DEF Init
  <1>5. child \in [Services -> [Children -> ChildType]]
    BY <1>2 DEF Init
  <1>6. spawned \in [Services -> 0..MaxSpawns]
    BY SupervisorAssumption DEF Init
  <1>7. task \in [Tasks -> TaskType]
    BY <1>3 DEF Init
  <1>8. BusyHasService
    BY DEF Init, BusyHasService, At, Idle
  <1> QED BY <1>4, <1>5, <1>6, <1>7, <1>8 DEF Typing, TypeOK

\* A call begins a well-formed walk.
LEMMA CallTyped ==
    ASSUME Typing, NEW a \in Callers, Call(a)
    PROVE  Typing'
  <1>0. a \in Tasks /\ <<>> \in Seq(Services)
    BY DEF Tasks
  <1>1. UNCHANGED <<rt, child, spawned>>
    BY DEF Call, Start, Stop, Restart, ShutdownAll
  <1>2. PICK t : Become(a, t) /\ TaskOK(t)
    <2>1. ASSUME NEW s \in Services
          PROVE  StartupOrder[s] \in Seq(Services)
                 /\ Reverse(StartupOrder[s]) \in Seq(Services)
      BY SupervisorAssumption, ReverseTyped
    <2>2. CASE \E s \in Services : Start(a, s)
      BY <1>0, <2>1, <2>2, WalkTyped DEF Start, Ops
    <2>3. CASE \E s \in Services : Stop(a, s)
      BY <1>0, <2>1, <2>3, WalkTyped DEF Stop, Ops
    <2>4. CASE \E s \in Services : Restart(a, s)
      BY <1>0, <2>1, <2>4, WalkTyped DEF Restart, Ops
    <2>5. CASE ShutdownAll(a)
      <3>1. \A order \in ShutdownOrders : order \in Seq(Services)
        BY SupervisorAssumption
      <3> QED BY <1>0, <2>5, <3>1, WalkTyped DEF ShutdownAll, Ops
    <2> QED BY <2>2, <2>3, <2>4, <2>5 DEF Call
  <1>3. task' \in [Tasks -> TaskType] /\ BusyHasService'
    BY <1>0, <1>2, BecomeTyped
  <1> QED BY <1>1, <1>3 DEF Typing, TypeOK

\* What clearing or replacing the runtime record of a service yields.
LEMMA RuntimeTyped ==
    ASSUME NEW r \in RuntimeType, NEW c \in 0..MaxSpawns
    PROVE  /\ Cleared(r) \in RuntimeType
           /\ Installed(r, c) \in RuntimeType
           /\ BeingStopped(r) \in RuntimeType
           /\ BackedOff(r) \in RuntimeType
           /\ \A st \in States : [Cleared(r) EXCEPT !.state = st] \in RuntimeType
           /\ [r EXCEPT !.state = "Failed", !.stopping = TRUE] \in RuntimeType
  <1>1. NoChild \in 0..MaxSpawns
    BY SupervisorAssumption DEF NoChild
  <1>2. Cleared(r) \in RuntimeType
    BY <1>1 DEF RuntimeType, Cleared, States
  <1>3. Installed(r, c) \in RuntimeType
    <2> DEFINE g == r.generation + 1
    <2>1. g \in Nat
      BY DEF RuntimeType
    <2> HIDE DEF g
    <2>2. [r EXCEPT !.generation = g, !.state = "Running", !.pid = c,
                    !.client = c, !.stopTx = c] \in RuntimeType
      BY <1>1, <2>1 DEF RuntimeType, States
    <2> QED BY <2>2 DEF Installed, g
  <1>4. BeingStopped(r) \in RuntimeType
    BY <1>1 DEF RuntimeType, BeingStopped, States
  <1>5. BackedOff(r) \in RuntimeType
    <2> DEFINE n == Cleared(r).restarts + 1
    <2>1. n \in Nat
      BY <1>2 DEF RuntimeType
    <2> HIDE DEF n
    <2>2. [Cleared(r) EXCEPT !.state = "Backoff", !.restarts = n] \in RuntimeType
      BY <1>2, <2>1 DEF RuntimeType, States
    <2> QED BY <2>2 DEF BackedOff, n
  <1>6. \A st \in States : [Cleared(r) EXCEPT !.state = st] \in RuntimeType
    BY <1>2 DEF RuntimeType, States
  <1>7. [r EXCEPT !.state = "Failed", !.stopping = TRUE] \in RuntimeType
    BY DEF RuntimeType, States
  <1> QED BY <1>2, <1>3, <1>4, <1>5, <1>6, <1>7

\* cascade_failure keeps the runtime well-typed.
LEMMA CascadeTyped ==
    ASSUME Typing, NEW s \in Services, Cascade(s)
    PROVE  rt' \in [Services -> RuntimeType]
  <1>1. ASSUME NEW t \in Services
        PROVE  [rt[t] EXCEPT !.state = "Failed", !.stopping = TRUE] \in RuntimeType
    BY DEF Typing, TypeOK, RuntimeType, States
  <1> QED BY <1>1 DEF Cascade, Typing, TypeOK

\* Creating a process keeps the children well-typed.
LEMMA NewChildTyped ==
    ASSUME Typing, NEW s \in Services, NEW by \in Ops, NEW p \in Phases,
           NewChild(s, by, p)
    PROVE  /\ child' \in [Services -> [Children -> ChildType]]
           /\ spawned' \in [Services -> 0..MaxSpawns]
  <1>1. [phase |-> p, alive |-> TRUE, gen |-> 0, by |-> by] \in ChildType
    BY DEF ChildType
  <1>2. child' \in [Services -> [Children -> ChildType]]
    BY <1>1 DEF NewChild, Typing, TypeOK
  <1>3. spawned' \in [Services -> 0..MaxSpawns]
    BY SupervisorAssumption DEF NewChild, Typing, TypeOK
  <1> QED BY <1>2, <1>3
-----------------------------------------------------------------------------
\* Every step of a task inside an operation preserves the typing.
LEMMA TaskStepTyped ==
    ASSUME Typing, NEW a \in Tasks, TaskStep(a)
    PROVE  Typing'
  <1>0. /\ rt \in [Services -> RuntimeType]
        /\ child \in [Services -> [Children -> ChildType]]
        /\ spawned \in [Services -> 0..MaxSpawns]
    BY DEF Typing, TypeOK
  <1>1. ~At(a, "idle")
    BY DEF TaskStep, SpawnStep, StopStep, CheckSkip, MarkStarting, Reject,
           CascadeRejected, SpawnError, LogOpenError, Exec, Install, StopMark,
           StopAnswered, StopTimedOut, StopFinal, CountRestart, At
  <1> DEFINE s == Current(a)
  <1>2. s \in Services /\ task[a] \in TaskType /\ task[a].todo # <<>>
    BY <1>1, CurrentTyped
  <1>3. TaskOK(AfterSpawn(a)) /\ TaskOK(AfterStop(a))
    BY <1>1, AfterTyped
  <1>4. TaskOK(Idle)
    BY SupervisorAssumption DEF TaskOK, Idle, TaskType, NoChild, Ops, Points
  <1>5. CASE CheckSkip(a)
    <2>1. task' \in [Tasks -> TaskType] /\ BusyHasService'
      BY <1>1, <1>3, <1>5, BecomeTyped, GotoTyped DEF CheckSkip, Points
    <2> QED BY <1>0, <1>5, <2>1 DEF CheckSkip, Typing, TypeOK
  <1>6. CASE MarkStarting(a)
    <2>1. task' \in [Tasks -> TaskType] /\ BusyHasService'
      BY <1>1, <1>6, GotoTyped DEF MarkStarting, Points
    <2>2. rt' \in [Services -> RuntimeType]
      BY <1>0, <1>2, <1>6, ZenonT(60) DEF MarkStarting, RuntimeType, States
    <2> QED BY <1>0, <1>6, <2>1, <2>2 DEF MarkStarting, Typing, TypeOK
  <1>7. CASE Reject(a)
    <2>1. task' \in [Tasks -> TaskType] /\ BusyHasService'
      BY <1>1, <1>7, GotoTyped DEF Reject, Points
    <2>2. NoChild \in 0..MaxSpawns
      BY SupervisorAssumption DEF NoChild
    <2>3. rt' \in [Services -> RuntimeType]
      BY <1>0, <1>2, <1>7, <2>2, ZenonT(60) DEF Reject, RuntimeType, States
    <2> QED BY <1>0, <1>7, <2>1, <2>3 DEF Reject, Typing, TypeOK
  <1>8. CASE CascadeRejected(a)
    <2>1. task' \in [Tasks -> TaskType] /\ BusyHasService'
      BY <1>4, <1>8, BecomeTyped DEF CascadeRejected
    <2>2. rt' \in [Services -> RuntimeType]
      BY <1>2, <1>8, CascadeTyped DEF CascadeRejected
    <2> QED BY <1>0, <1>8, <2>1, <2>2 DEF CascadeRejected, Typing, TypeOK
  <1>9. CASE SpawnError(a)
    <2>1. task' \in [Tasks -> TaskType] /\ BusyHasService'
      BY <1>4, <1>9, BecomeTyped DEF SpawnError
    <2> QED BY <1>0, <1>9, <2>1 DEF SpawnError, Typing, TypeOK
  <1>10. CASE LogOpenError(a)
    <2>1. task' \in [Tasks -> TaskType] /\ BusyHasService'
      BY <1>4, <1>10, BecomeTyped DEF LogOpenError
    <2>2. NewChild(s, task[a].op, "leaked") /\ UNCHANGED rt
      BY <1>10 DEF LogOpenError
    <2>3. task[a].op \in Ops /\ "leaked" \in Phases
      BY <1>2 DEF TaskType, Phases
    <2> QED BY <1>0, <1>2, <2>1, <2>2, <2>3, NewChildTyped DEF Typing, TypeOK
  <1>11. CASE Exec(a)
    <2>1. NewChild(s, task[a].op, "held") /\ UNCHANGED rt
      BY <1>11 DEF Exec
    <2>2. task[a].op \in Ops /\ "held" \in Phases
      BY <1>2 DEF TaskType, Phases
    <2>3. NextChild(s) \in 0..MaxSpawns
      BY <1>0, <1>2, <2>1, SupervisorAssumption DEF NewChild, NextChild
    <2>4. TaskOK([task[a] EXCEPT !.pc = "install", !.child = NextChild(s)])
      BY <1>2, <2>3 DEF TaskOK, TaskType, Points
    <2>5. task' \in [Tasks -> TaskType] /\ BusyHasService'
      BY <1>11, <2>4, BecomeTyped DEF Exec
    <2> QED BY <1>0, <1>2, <2>1, <2>2, <2>5, NewChildTyped DEF Typing, TypeOK
  <1>12. CASE Install(a)
    <2> DEFINE c == task[a].child
               t == [task EXCEPT ![a] = AfterSpawn(a)]
               m == [op |-> "single", pc |-> "watch", todo |-> <<s>>,
                     then |-> <<>>, child |-> NoChild]
    <2>1. c \in 0..MaxSpawns /\ rt[s] \in RuntimeType
      BY <1>0, <1>2 DEF TaskType
    <2>2. rt' \in [Services -> RuntimeType]
      BY <1>0, <1>2, <1>12, <2>1, RuntimeTyped DEF Install
    <2>3. rt[s].generation + 1 \in Nat
      BY <2>1 DEF RuntimeType
    <2>4. child' \in [Services -> [Children -> ChildType]]
      <3> DEFINE g == rt[s].generation + 1
      <3> HIDE DEF g
      <3>1. child' = [child EXCEPT ![s][c].phase = "select", ![s][c].gen = g]
        BY <1>12 DEF Install, g
      <3>2. g \in Nat
        BY <2>3 DEF g
      <3>3. child[s] \in [Children -> ChildType]
        BY <1>0, <1>2
      <3>4. CASE c \in Children
        <4> DEFINE k == [child[s][c] EXCEPT !.phase = "select", !.gen = g]
        <4>1. k \in ChildType
          BY <3>2, <3>3, <3>4 DEF ChildType, Phases
        <4>2. child' = [child EXCEPT ![s] = [child[s] EXCEPT ![c] = k]]
          BY <1>0, <1>2, <3>1, <3>3, <3>4
        <4> HIDE DEF k
        <4> QED BY <1>0, <3>3, <4>1, <4>2
      <3>5. CASE c \notin Children
        <4>1. child' = child
          BY <1>0, <1>2, <3>1, <3>3, <3>5
        <4> QED BY <1>0, <4>1
      <3> QED BY <3>4, <3>5
    <2>5. t \in [Tasks -> TaskType] /\ \A b \in Tasks : TaskOK(t[b])
      BY <1>3 DEF Typing, TypeOK, BusyHasService, At, TaskOK
    <2>6. TaskOK(m)
      BY <1>2, SupervisorAssumption DEF TaskOK, TaskType, Ops, Points, NoChild
    <2>7. task' = t \/ task' = [t EXCEPT ![<<"single", s, c>>] = m]
      BY <1>12 DEF Install
    <2> HIDE DEF t, m
    <2>8. task' \in [Tasks -> TaskType] /\ \A b \in Tasks : TaskOK(task'[b])
      BY <2>5, <2>6, <2>7 DEF TaskOK
    <2>9. BusyHasService'
      BY <2>8 DEF BusyHasService, At, TaskOK
    <2> QED BY <1>0, <1>12, <2>2, <2>4, <2>8, <2>9 DEF Install, Typing, TypeOK
  <1>13. CASE StopMark(a)
    <2>1. rt[s].stopTx \in 0..MaxSpawns /\ rt[s] \in RuntimeType
      BY <1>0, <1>2 DEF RuntimeType
    <2>2. \A p \in {"final", "wait"} :
             TaskOK([task[a] EXCEPT !.pc = p, !.child = rt[s].stopTx])
      BY <1>2, <2>1 DEF TaskOK, TaskType, Points
    <2>3. task' \in [Tasks -> TaskType] /\ BusyHasService'
      BY <1>3, <1>13, <2>2, BecomeTyped DEF StopMark
    <2>4. rt' \in [Services -> RuntimeType]
      BY <1>0, <1>2, <1>13, <2>1, RuntimeTyped DEF StopMark
    <2> QED BY <1>0, <1>13, <2>3, <2>4 DEF StopMark, Typing, TypeOK
  <1>14. CASE StopAnswered(a) \/ StopTimedOut(a)
    <2>1. task' \in [Tasks -> TaskType] /\ BusyHasService'
      BY <1>1, <1>14, GotoTyped DEF StopAnswered, StopTimedOut, Points
    <2> QED BY <1>0, <1>14, <2>1 DEF StopAnswered, StopTimedOut, Typing, TypeOK
  <1>15. CASE StopFinal(a)
    <2>1. task' \in [Tasks -> TaskType] /\ BusyHasService'
      BY <1>3, <1>15, BecomeTyped DEF StopFinal
    <2>2. NoChild \in 0..MaxSpawns /\ rt[s] \in RuntimeType
      BY <1>0, <1>2, SupervisorAssumption DEF NoChild
    <2>3. rt' \in [Services -> RuntimeType]
      BY <1>0, <1>2, <1>15, <2>2, RuntimeTyped DEF StopFinal
    <2> QED BY <1>0, <1>15, <2>1, <2>3 DEF StopFinal, Typing, TypeOK
  <1>16. CASE CountRestart(a)
    <2>1. task' \in [Tasks -> TaskType] /\ BusyHasService'
      BY <1>1, <1>16, GotoTyped DEF CountRestart, Points
    <2>2. rt[s].restarts + 1 \in Nat
      BY <1>0, <1>2 DEF RuntimeType
    <2>3. rt' \in [Services -> RuntimeType]
      <3> DEFINE n == rt[s].restarts + 1
      <3> HIDE DEF n
      <3>1. rt' = [rt EXCEPT ![s].restarts = n]
        BY <1>16 DEF CountRestart, n
      <3>2. n \in Nat
        BY <2>2 DEF n
      <3> QED BY <1>0, <1>2, <3>1, <3>2 DEF RuntimeType
    <2> QED BY <1>0, <1>16, <2>1, <2>3 DEF CountRestart, Typing, TypeOK
  <1> QED
    BY <1>5, <1>6, <1>7, <1>8, <1>9, <1>10, <1>11, <1>12, <1>13, <1>14, <1>15,
       <1>16 DEF TaskStep, SpawnStep, StopStep

\* Moving one watcher to another phase keeps the children well-typed.
LEMMA WatcherToTyped ==
    ASSUME Typing, NEW s \in Services, NEW c \in Children, NEW p \in Phases,
           WatcherTo(s, c, p)
    PROVE  child' \in [Services -> [Children -> ChildType]]
  <1>1. child \in [Services -> [Children -> ChildType]]
    BY DEF Typing, TypeOK
  <1>2. child[s][c] \in ChildType
    BY <1>1
  <1>3. [child[s][c] EXCEPT !.phase = p] \in ChildType
    BY <1>2 DEF ChildType
  <1> QED BY <1>1, <1>3 DEF WatcherTo

\* The watcher, the timer and the monitor of a child preserve the typing.
LEMMA BackgroundTyped ==
    ASSUME Typing, NEW s \in Services, NEW c \in Children,
           \/ ChildDies(s, c) \/ WatcherStep(s, c) \/ TimerFires(s, c)
           \/ MonitorTick(s, c) \/ MonitorSample(s, c)
    PROVE  Typing'
  <1>0. /\ rt \in [Services -> RuntimeType]
        /\ child \in [Services -> [Children -> ChildType]]
        /\ spawned \in [Services -> 0..MaxSpawns]
        /\ task \in [Tasks -> TaskType]
        /\ BusyHasService
    BY DEF Typing, TypeOK
  <1>a. /\ <<"respawn", s, c>> \in Tasks
        /\ <<"single", s, c>> \in Tasks
    BY DEF Tasks, Timers, Monitors
  <1>b. {"graceful", "cascade", "done"} \subseteq Phases
    BY DEF Phases
  <1>c. rt[s] \in RuntimeType
    BY <1>0
  <1>d. TaskOK(Idle)
    BY SupervisorAssumption DEF TaskOK, Idle, TaskType, NoChild, Ops, Points
  <1>e. UNCHANGED task => BusyHasService'
    BY <1>0 DEF BusyHasService, At
  <1>f. c \in 0..MaxSpawns
    BY DEF Children
  <1>1. CASE ChildDies(s, c)
    <2>0. child[s][c] \in ChildType
      BY <1>0
    <2>1. [child[s][c] EXCEPT !.alive = FALSE] \in ChildType
      BY <2>0 DEF ChildType
    <2>2. child' \in [Services -> [Children -> ChildType]]
      BY <1>0, <1>1, <2>1 DEF ChildDies
    <2> QED BY <1>0, <1>e, <1>1, <2>2 DEF ChildDies, Typing, TypeOK
  <1>2. CASE StopRequested(s, c) \/ ExitSuperseded(s, c)
    <2>1. child' \in [Services -> [Children -> ChildType]]
      BY <1>b, <1>2, WatcherToTyped DEF StopRequested, ExitSuperseded
    <2> QED BY <1>0, <1>e, <1>2, <2>1
         DEF StopRequested, ExitSuperseded, Typing, TypeOK
  <1>3. CASE GracefullyStopped(s, c) \/ ExitWhileStopping(s, c)
    <2>1. child' \in [Services -> [Children -> ChildType]]
      BY <1>b, <1>3, WatcherToTyped DEF GracefullyStopped, ExitWhileStopping
    <2>2. Cleared(rt[s]) \in RuntimeType
      BY <1>c, <1>f, RuntimeTyped
    <2>3. rt' \in [Services -> RuntimeType]
      BY <1>0, <1>3, <2>2 DEF GracefullyStopped, ExitWhileStopping
    <2> QED BY <1>0, <1>e, <1>3, <2>1, <2>3
         DEF GracefullyStopped, ExitWhileStopping, Typing, TypeOK
  <1>4. ASSUME NEW code \in {"ok", "err"}, ExitFinal(s, c, code)
        PROVE  Typing'
    <2>1. child' \in [Services -> [Children -> ChildType]]
      BY <1>b, <1>4, WatcherToTyped DEF ExitFinal
    <2>2. \A st \in {"Stopped", "Failed"} :
             [Cleared(rt[s]) EXCEPT !.state = st] \in RuntimeType
      BY <1>c, <1>f, RuntimeTyped DEF States
    <2>3. rt' \in [Services -> RuntimeType]
      BY <1>0, <1>4, <2>2 DEF ExitFinal
    <2> QED BY <1>0, <1>e, <1>4, <2>1, <2>3 DEF ExitFinal, Typing, TypeOK
  <1>5. ASSUME NEW code \in {"ok", "err"}, ExitRestart(s, c, code)
        PROVE  Typing'
    <2> DEFINE w == [op |-> "respawn", pc |-> "sleep", todo |-> <<s>>,
                     then |-> <<>>, child |-> NoChild]
    <2>1. child' \in [Services -> [Children -> ChildType]]
      BY <1>b, <1>5, WatcherToTyped DEF ExitRestart
    <2>2. BackedOff(rt[s]) \in RuntimeType
      BY <1>c, <1>f, RuntimeTyped
    <2>3. rt' \in [Services -> RuntimeType]
      BY <1>0, <1>5, <2>2 DEF ExitRestart
    <2>4. TaskOK(w)
      BY SupervisorAssumption DEF TaskOK, TaskType, Ops, Points, NoChild
    <2>5. Become(<<"respawn", s, c>>, w)
      BY <1>5 DEF ExitRestart
    <2> HIDE DEF w
    <2>6. task' \in [Tasks -> TaskType] /\ BusyHasService'
      BY <1>a, <2>4, <2>5, BecomeTyped
    <2> QED BY <1>0, <1>5, <2>1, <2>3, <2>6 DEF ExitRestart, Typing, TypeOK
  <1>6. CASE CascadeExit(s, c)
    <2>1. child' \in [Services -> [Children -> ChildType]]
      BY <1>b, <1>6, WatcherToTyped DEF CascadeExit
    <2>2. rt' \in [Services -> RuntimeType]
      BY <1>6, CascadeTyped DEF CascadeExit
    <2> QED BY <1>0, <1>e, <1>6, <2>1, <2>2 DEF CascadeExit, Typing, TypeOK
  <1>7. CASE TimerFires(s, c)
    <2>1. task' \in [Tasks -> TaskType] /\ BusyHasService'
      BY <1>a, <1>d, <1>7, BecomeTyped, GotoTyped DEF TimerFires, Points, At
    <2> QED BY <1>0, <1>7, <2>1 DEF TimerFires, Typing, TypeOK
  <1>8. CASE MonitorTick(s, c)
    <2>1. task' \in [Tasks -> TaskType] /\ BusyHasService'
      BY <1>a, <1>d, <1>8, BecomeTyped, GotoTyped DEF MonitorTick, Points, At
    <2> QED BY <1>0, <1>8, <2>1 DEF MonitorTick, Typing, TypeOK
  <1>9. CASE MonitorSample(s, c)
    <2>1. task' \in [Tasks -> TaskType] /\ BusyHasService'
      BY <1>a, <1>d, <1>9, BecomeTyped, GotoTyped DEF MonitorSample, Points, At
    <2> QED BY <1>0, <1>9, <2>1 DEF MonitorSample, Typing, TypeOK
  <1> QED
    BY <1>1, <1>2, <1>3, <1>4, <1>5, <1>6, <1>7, <1>8, <1>9 DEF WatcherStep

\* A stuttering step changes nothing.
LEMMA StutterTyped ==
    ASSUME Typing, UNCHANGED vars
    PROVE  Typing'
  BY DEF Typing, TypeOK, BusyHasService, At, vars

\* Every step, stuttering included, preserves the typing.
LEMMA NextTyped == Typing /\ [Next]_vars => Typing'
  <1> SUFFICES ASSUME Typing, [Next]_vars PROVE Typing'
    OBVIOUS
  <1> QED BY CallTyped, TaskStepTyped, BackgroundTyped, StutterTyped DEF Next

\* Every reachable runtime record, child and task is well-formed, for every set
\* of services and callers (the state the code keeps in ServiceRuntime).
THEOREM TypeCorrect == Spec => []TypeOK
  <1>1. Init => Typing
    BY InitTyped
  <1>2. Typing /\ [Next]_vars => Typing'
    BY NextTyped
  <1>3. Typing => TypeOK
    BY DEF Typing
  <1> QED BY <1>1, <1>2, <1>3, PTL DEF Spec

-----------------------------------------------------------------------------
(* SupervisorInv is inductive: whoever writes a runtime record, a service  *)
(* reported Running is supervised, generations name one child, and a       *)
(* service in back-off still has its timer.                                *)

\* What the steps of tasks may do to the tasks about to install a child.
InstallersKept == \A b \in Tasks : At(b, "install")' => task'[b] = task[b]

GenerationsKept ==
    /\ UNCHANGED <<child, spawned>>
    /\ \A s \in Services : rt'[s].generation = rt[s].generation

ChildInv == SlotsInOrder /\ HeldByOne /\ GenerationsDiffer

\* A step that keeps the numbering, the generations and the tasks about to
\* install preserves what is known of the children.
LEMMA ChildFrame ==
    ASSUME Typing, ChildInv, InstallersKept, GenerationsKept
    PROVE  ChildInv'
  <1>1. SlotsInOrder'
    BY DEF ChildInv, SlotsInOrder, GenerationsKept
  <1>2. HeldByOne'
    BY DEF ChildInv, HeldByOne, InstallersKept, GenerationsKept, At, Current
  <1>3. GenerationsDiffer'
    BY DEF ChildInv, GenerationsDiffer, GenerationsKept
  <1> QED BY <1>1, <1>2, <1>3 DEF ChildInv

\* A task that moves anywhere but to its installation adds no installer.
LEMMA BecomeKeepsInstallers ==
    ASSUME Typing, NEW a \in Tasks, NEW t, Become(a, t), t.pc # "install"
    PROVE  InstallersKept
  BY DEF Typing, TypeOK, Become, InstallersKept, At

\* The same for a task that only changes its point.
LEMMA GotoKeepsInstallers ==
    ASSUME Typing, NEW a \in Tasks, NEW p \in Points \ {"install"}, Goto(a, p)
    PROVE  InstallersKept
  <1>1. task[a] \in TaskType
    BY DEF Typing, TypeOK
  <1>2. [task[a] EXCEPT !.pc = p].pc # "install"
    BY <1>1 DEF TaskType
  <1> QED BY <1>2, BecomeKeepsInstallers DEF Goto

\* A walk begins with the skip test, with a stop, or is already over.
LEMMA WalkPoint ==
    ASSUME NEW op, NEW p \in {"check", "stop"}, NEW order, NEW then
    PROVE  Walk(op, p, order, then).pc \in {"idle", "check", "stop"}
  BY DEF Walk, Idle

\* Neither a spawn nor a stop leads straight to an installation.
LEMMA AfterPoint ==
    ASSUME Typing, NEW a \in Tasks
    PROVE  /\ AfterSpawn(a).pc \in {"idle", "check", "stop"}
           /\ AfterStop(a).pc \in {"idle", "check", "stop", "bump"}
  <1>1. task[a] \in TaskType
    BY DEF Typing, TypeOK
  <1>2. AfterSpawn(a).pc \in {"idle", "check", "stop"}
    BY WalkPoint DEF AfterSpawn
  <1>3. CASE task[a].op = "single"
    <2>1. AfterStop(a) = [task[a] EXCEPT !.pc = "bump", !.child = NoChild]
      BY <1>3 DEF AfterStop
    <2> QED BY <1>1, <1>2, <2>1 DEF TaskType
  <1>4. CASE task[a].op # "single" /\ Tail(task[a].todo) # <<>>
    BY <1>2, <1>4, WalkPoint DEF AfterStop
  <1>5. CASE task[a].op # "single" /\ Tail(task[a].todo) = <<>>
    BY <1>2, <1>5, WalkPoint DEF AfterStop
  <1> QED BY <1>3, <1>4, <1>5

\* No step but Install and the creation of a process touches the children's
\* order, and no step but Install the generation.
LEMMA QuietTaskStep ==
    ASSUME Typing, NEW a \in Tasks, ~At(a, "idle"),
           \/ CheckSkip(a) \/ MarkStarting(a) \/ Reject(a) \/ CascadeRejected(a)
           \/ SpawnError(a) \/ StopStep(a) \/ CountRestart(a)
    PROVE  InstallersKept /\ GenerationsKept
  <1>0. rt \in [Services -> RuntimeType] /\ Current(a) \in Services
    BY CurrentTyped DEF Typing, TypeOK
  <1>1. Idle.pc # "install" /\ AfterSpawn(a).pc # "install"
        /\ AfterStop(a).pc # "install"
    BY AfterPoint DEF Idle
  <1>2. CASE CheckSkip(a)
    BY <1>1, <1>2, BecomeKeepsInstallers, GotoKeepsInstallers
       DEF CheckSkip, GenerationsKept, Points
  <1>3. CASE MarkStarting(a)
    BY <1>0, <1>3, GotoKeepsInstallers DEF MarkStarting, GenerationsKept, Points, RuntimeType
  <1>4. CASE Reject(a)
    BY <1>0, <1>4, GotoKeepsInstallers DEF Reject, GenerationsKept, Points, RuntimeType
  <1>5. CASE CascadeRejected(a)
    BY <1>0, <1>1, <1>5, BecomeKeepsInstallers
       DEF CascadeRejected, Cascade, GenerationsKept, RuntimeType
  <1>6. CASE SpawnError(a)
    BY <1>1, <1>6, BecomeKeepsInstallers DEF SpawnError, GenerationsKept
  <1>7. CASE StopMark(a)
    <2>1. GenerationsKept
      <3>1. rt' = [rt EXCEPT ![Current(a)] = BeingStopped(@)] \/ rt' = rt
        BY <1>7 DEF StopMark
      <3>2. UNCHANGED <<child, spawned>>
        BY <1>7 DEF StopMark
      <3>3. BeingStopped(rt[Current(a)]).generation = rt[Current(a)].generation
        BY <1>0 DEF BeingStopped, RuntimeType
      <3> QED BY <1>0, <3>1, <3>2, <3>3 DEF GenerationsKept
    <2>2. InstallersKept
      <3>0. task[a] \in TaskType
        BY DEF Typing, TypeOK
      <3>1. PICK t : Become(a, t) /\ t.pc # "install"
        <4>1. CASE rt[Current(a)].state \in {"Stopped", "Failed"}
          BY <1>1, <1>7, <4>1 DEF StopMark
        <4>2. CASE rt[Current(a)].state \notin {"Stopped", "Failed"}
          <5>1. \A p \in {"wait", "final"}, c \in 0..MaxSpawns :
                  [task[a] EXCEPT !.pc = p, !.child = c].pc # "install"
            BY <3>0 DEF TaskType
          <5>2. rt[Current(a)].stopTx \in 0..MaxSpawns
            BY <1>0 DEF RuntimeType
          <5> DEFINE p == IF rt[Current(a)].stopTx = NoChild THEN "final" ELSE "wait"
          <5>3. p \in {"wait", "final"}
            OBVIOUS
          <5>4. Become(a, [task[a] EXCEPT !.pc = p,
                                          !.child = rt[Current(a)].stopTx])
            BY <1>7, <4>2 DEF StopMark
          <5> HIDE DEF p
          <5> QED BY <5>1, <5>2, <5>3, <5>4
        <4> QED BY <4>1, <4>2
      <3> QED BY <3>1, BecomeKeepsInstallers
    <2> QED BY <2>1, <2>2
  <1>8. CASE StopAnswered(a) \/ StopTimedOut(a)
    BY <1>8, GotoKeepsInstallers
       DEF StopAnswered, StopTimedOut, GenerationsKept, Points
  <1>9. CASE StopFinal(a)
    BY <1>0, <1>1, <1>9, BecomeKeepsInstallers
       DEF StopFinal, GenerationsKept, Cleared, RuntimeType
  <1>10. CASE CountRestart(a)
    BY <1>0, <1>10, GotoKeepsInstallers
       DEF CountRestart, GenerationsKept, Points, RuntimeType
  <1> QED BY <1>2, <1>3, <1>4, <1>5, <1>6, <1>7, <1>8, <1>9, <1>10 DEF StopStep
-----------------------------------------------------------------------------
\* Creating a process uses a free number.
LEMMA NewChildEffect ==
    ASSUME Typing, SlotsInOrder, NEW s \in Services, NEW by \in Ops,
           NEW p \in {"held", "leaked"}, NewChild(s, by, p)
    PROVE  /\ NextChild(s) \in Children
           /\ child[s][NextChild(s)].phase = "none"
           /\ child[s][NextChild(s)].gen = 0
           /\ child'[s][NextChild(s)].phase = p
           /\ child'[s][NextChild(s)].gen = 0
           /\ \A t \in Services, c \in Children :
                 (t # s \/ c # NextChild(s)) => child'[t][c] = child[t][c]
           /\ spawned'[s] = NextChild(s)
           /\ \A t \in Services \ {s} : spawned'[t] = spawned[t]
  <1>0. /\ child \in [Services -> [Children -> ChildType]]
        /\ spawned \in [Services -> 0..MaxSpawns]
    BY DEF Typing, TypeOK
  <1>1. /\ NextChild(s) \in Children
        /\ NextChild(s) > spawned[s]
    BY <1>0, SupervisorAssumption, SMTT(30) DEF NewChild, NextChild, Children
  <1>2. child[s][NextChild(s)].phase = "none" /\ child[s][NextChild(s)].gen = 0
    BY <1>1 DEF SlotsInOrder
  <1>3. spawned'[s] = NextChild(s) /\ \A t \in Services \ {s} : spawned'[t] = spawned[t]
    BY <1>0 DEF NewChild, NextChild
  <1>4. child'[s][NextChild(s)] = [phase |-> p, alive |-> TRUE, gen |-> 0, by |-> by]
    BY <1>0, <1>1 DEF NewChild
  <1>5. \A t \in Services, c \in Children :
           (t # s \/ c # NextChild(s)) => child'[t][c] = child[t][c]
    BY <1>0, <1>1 DEF NewChild
  <1> QED BY <1>1, <1>2, <1>3, <1>4, <1>5

\* Creating a process leaves the older children and their installers alone.
LEMMA NewChildKeeps ==
    ASSUME Typing, ChildInv, NEW s \in Services, NEW by \in Ops,
           NEW p \in {"held", "leaked"}, NewChild(s, by, p), UNCHANGED rt
    PROVE  SlotsInOrder' /\ GenerationsDiffer'
  <1> DEFINE n == NextChild(s)
  <1>0. /\ spawned \in [Services -> 0..MaxSpawns]
        /\ \A t \in Services, c \in Children : child[t][c].gen \in Nat
        /\ \A t \in Services : rt[t].generation \in Nat
    BY DEF Typing, TypeOK, ChildType, RuntimeType
  <1>1. /\ n \in Children
        /\ child[s][n].phase = "none"
        /\ child'[s][n].phase = p
        /\ child'[s][n].gen = 0
        /\ \A t \in Services, c \in Children :
                 (t # s \/ c # n) => child'[t][c] = child[t][c]
        /\ spawned'[s] = n
        /\ \A t \in Services \ {s} : spawned'[t] = spawned[t]
    BY NewChildEffect DEF ChildInv
  <1>2. n = spawned[s] + 1
    BY DEF NextChild
  <1> HIDE DEF n
  <1>3. SlotsInOrder'
    <2> SUFFICES ASSUME NEW t \in Services, NEW c \in Children
                 PROVE  /\ child'[t][c].phase = "none" <=> c > spawned'[t]
                        /\ child'[t][c].phase \in {"none", "held", "leaked"}
                              <=> child'[t][c].gen = 0
      BY DEF SlotsInOrder
    <2>1. CASE t = s /\ c = n
      BY <1>1, <2>1 DEF Children
    <2>2. CASE t = s /\ c # n
      <3>1. child'[t][c] = child[t][c]
        BY <1>1, <2>2
      <3>2. c > spawned[t] <=> c > spawned'[t]
        <4>1. c \in Nat /\ spawned[t] \in Nat /\ c # spawned[t] + 1
          BY <1>0, <1>2, <2>2 DEF Children
        <4>2. spawned'[t] = spawned[t] + 1
          BY <1>1, <1>2, <2>2
        <4> QED BY <4>1, <4>2
      <3> QED BY <3>1, <3>2 DEF ChildInv, SlotsInOrder
    <2>3. CASE t # s
      BY <1>1, <2>3 DEF ChildInv, SlotsInOrder
    <2> QED BY <2>1, <2>2, <2>3
  <1>4. GenerationsDiffer'
    <2> SUFFICES ASSUME NEW t \in Services, NEW c \in Children, NEW d \in Children
                 PROVE  /\ child'[t][c].gen <= rt[t].generation
                        /\ (child'[t][c].gen = child'[t][d].gen
                              /\ child'[t][c].gen # 0) => c = d
      BY DEF GenerationsDiffer
    <2>1. \A e \in Children : child'[t][e].gen = child[t][e].gen
                              \/ (e = n /\ t = s /\ child'[t][e].gen = 0)
      BY <1>1
    <2> QED BY <1>0, <2>1 DEF ChildInv, GenerationsDiffer
  <1> QED BY <1>3, <1>4

\* A process whose log cannot be opened never gets an installer.
LEMMA LogOpenErrorKeeps ==
    ASSUME Typing, ChildInv, NEW a \in Tasks, LogOpenError(a)
    PROVE  ChildInv'
  <1>1. Current(a) \in Services /\ task[a].op \in Ops
    BY CurrentTyped DEF LogOpenError, At, TaskType
  <1>2. NewChild(Current(a), task[a].op, "leaked") /\ UNCHANGED rt
    BY DEF LogOpenError
  <1>3. SlotsInOrder' /\ GenerationsDiffer'
    BY <1>1, <1>2, NewChildKeeps
  <1>4. InstallersKept
    BY BecomeKeepsInstallers DEF LogOpenError, Idle
  <1>5. \A t \in Services, c \in Children :
           child[t][c].phase = "held" => child'[t][c] = child[t][c]
    BY <1>1, <1>2, NewChildEffect DEF ChildInv
  <1>6. HeldByOne'
    <2>1. \A b \in Tasks : At(b, "install") => Current(b) \in Services
      BY CurrentTyped DEF At
    <2> QED BY <1>4, <1>5, <2>1, SMTT(30) DEF ChildInv, HeldByOne, InstallersKept, At, Current
  <1> QED BY <1>3, <1>6 DEF ChildInv

\* The task that created a process is the only one to hold it.
LEMMA ExecKeeps ==
    ASSUME Typing, ChildInv, NEW a \in Tasks, Exec(a)
    PROVE  ChildInv'
  <1> DEFINE s == Current(a)
             n == NextChild(s)
  <1>1. s \in Services /\ task[a].op \in Ops /\ task[a] \in TaskType
    BY CurrentTyped DEF Exec, At, TaskType
  <1>2. NewChild(s, task[a].op, "held") /\ UNCHANGED rt
    BY DEF Exec
  <1>3. SlotsInOrder' /\ GenerationsDiffer'
    BY <1>1, <1>2, NewChildKeeps
  <1>4. /\ n \in Children
        /\ child[s][n].phase = "none"
        /\ child'[s][n].phase = "held"
        /\ \A t \in Services, c \in Children :
                 (t # s \/ c # n) => child'[t][c] = child[t][c]
    BY <1>1, <1>2, NewChildEffect DEF ChildInv
  <1>5. /\ \A b \in Tasks \ {a} : task'[b] = task[b]
        /\ task'[a].todo = task[a].todo
        /\ task'[a].child = n
        /\ task'[a].pc = "install"
    BY <1>1 DEF Exec, Become, Typing, TypeOK, TaskType
  <1>6. \A b \in Tasks : At(b, "install") => Current(b) \in Services
    BY CurrentTyped DEF At
  <1>7. \A b \in Tasks \ {a} : At(b, "install") =>
           ~(Current(b) = s /\ task[b].child = n)
    BY <1>4 DEF ChildInv, HeldByOne
  <1>8. HeldByOne'
    <2> HIDE DEF n
    <2> SUFFICES ASSUME NEW b \in Tasks, At(b, "install")'
                 PROVE  /\ task'[b].child \in Children
                        /\ child'[Current(b)'][task'[b].child].phase = "held"
                        /\ \A d \in Tasks :
                             (At(d, "install")' /\ Current(d)' = Current(b)'
                               /\ task'[d].child = task'[b].child) => b = d
      BY DEF HeldByOne
    <2>1. CASE b = a
      BY <1>4, <1>5, <1>7, <2>1 DEF At, Current
    <2>2. CASE b # a
      <3>1. At(b, "install") /\ task'[b] = task[b] /\ Current(b)' = Current(b)
        BY <1>5, <2>2 DEF At, Current
      <3>2. child'[Current(b)][task[b].child].phase = "held"
        BY <1>4, <1>6, <1>7, <2>2, <3>1 DEF ChildInv, HeldByOne
      <3>3. ASSUME NEW d \in Tasks, At(d, "install")', Current(d)' = Current(b)',
                   task'[d].child = task'[b].child
            PROVE  b = d
        <4>1. CASE d = a
          BY <1>5, <1>7, <2>2, <3>1, <3>3, <4>1 DEF Current
        <4>2. CASE d # a
          BY <1>5, <2>2, <3>1, <3>3, <4>2 DEF ChildInv, HeldByOne, At, Current
        <4> QED BY <4>1, <4>2
      <3> QED BY <3>1, <3>2, <3>3 DEF ChildInv, HeldByOne
    <2> QED BY <2>1, <2>2
  <1> QED BY <1>3, <1>8 DEF ChildInv
-----------------------------------------------------------------------------
\* What Install does to the child it installs and to everything else.
LEMMA InstallEffect ==
    ASSUME Typing, ChildInv, NEW a \in Tasks, Install(a),
           NEW s, s = Current(a), NEW c, c = task[a].child
    PROVE  /\ s \in Services
           /\ c \in Children
           /\ child[s][c].phase = "held"
           /\ child'[s][c].phase = "select"
           /\ child'[s][c].gen = rt[s].generation + 1
           /\ \A t \in Services, d \in Children :
                 (t # s \/ d # c) => child'[t][d] = child[t][d]
           /\ rt'[s].generation = rt[s].generation + 1
           /\ rt'[s].state = "Running"
           /\ rt'[s].pid = c /\ rt'[s].client = c /\ rt'[s].stopTx = c
           /\ \A t \in Services \ {s} : rt'[t] = rt[t]
           /\ UNCHANGED spawned
           /\ InstallersKept
           /\ \A b \in Tasks : \/ task'[b] = task[b]
                               \/ b = a /\ task'[b].pc \in {"idle", "check", "stop"}
                               \/ b = <<"single", s, c>>
  <1>0. /\ rt \in [Services -> RuntimeType]
        /\ child \in [Services -> [Children -> ChildType]]
        /\ task \in [Tasks -> TaskType]
    BY DEF Typing, TypeOK
  <1>1. s \in Services /\ At(a, "install")
    BY CurrentTyped DEF Install, At
  <1>2. c \in Children /\ child[s][c].phase = "held"
    BY <1>1 DEF ChildInv, HeldByOne
  <1>3. child' = [child EXCEPT ![s][c].phase = "select",
                               ![s][c].gen = rt[s].generation + 1]
    BY DEF Install
  <1>4. /\ child'[s][c].phase = "select"
        /\ child'[s][c].gen = rt[s].generation + 1
        /\ \A t \in Services, d \in Children :
                 (t # s \/ d # c) => child'[t][d] = child[t][d]
    <2> DEFINE g == rt[s].generation + 1
    <2> HIDE DEF g
    <2>1. child' = [child EXCEPT ![s][c].phase = "select", ![s][c].gen = g]
      BY <1>3 DEF g
    <2>2. child[s][c] \in ChildType
      BY <1>0, <1>1, <1>2
    <2>3. child'[s][c].phase = "select" /\ child'[s][c].gen = g
      BY <1>0, <1>1, <1>2, <2>1, <2>2 DEF ChildType
    <2>4. \A t \in Services, d \in Children :
                 (t # s \/ d # c) => child'[t][d] = child[t][d]
      BY <1>0, <1>1, <1>2, <2>1
    <2> QED BY <2>3, <2>4 DEF g
  <1>5. rt' = [rt EXCEPT ![s] = Installed(rt[s], c)]
    BY DEF Install
  <1>6. /\ rt'[s].generation = rt[s].generation + 1
        /\ rt'[s].state = "Running"
        /\ rt'[s].pid = c /\ rt'[s].client = c /\ rt'[s].stopTx = c
        /\ \A t \in Services \ {s} : rt'[t] = rt[t]
    <2>1. rt[s] \in RuntimeType
      BY <1>0, <1>1
    <2>2. rt'[s] = Installed(rt[s], c)
      BY <1>0, <1>1, <1>5
    <2> QED BY <1>0, <1>1, <1>5, <2>1, <2>2 DEF Installed, RuntimeType
  <1>7. AfterSpawn(a).pc \in {"idle", "check", "stop"}
    BY AfterPoint
  <1> DEFINE m == [op |-> "single", pc |-> "watch", todo |-> <<s>>,
                   then |-> <<>>, child |-> NoChild]
             k == [task EXCEPT ![a] = AfterSpawn(a)]
  <1>8. task' = k \/ task' = [k EXCEPT ![<<"single", s, c>>] = m]
    BY DEF Install
  <1>9. m.pc # "install"
    OBVIOUS
  <1> HIDE DEF m
  <1>10. \A b \in Tasks : \/ task'[b] = task[b]
                          \/ b = a /\ task'[b].pc \in {"idle", "check", "stop"}
                          \/ b = <<"single", s, c>> /\ task'[b].pc # "install"
    BY <1>0, <1>7, <1>8, <1>9
  <1>11. InstallersKept
    BY <1>10 DEF InstallersKept, At
  <1> QED BY <1>1, <1>2, <1>4, <1>6, <1>10, <1>11 DEF Install

\* An installation gives its child a generation no other child has.
LEMMA InstallKeeps ==
    ASSUME Typing, ChildInv, NEW a \in Tasks, Install(a)
    PROVE  ChildInv'
  <1> DEFINE s == Current(a)
             c == task[a].child
             g == rt[s].generation + 1
  <1>0. /\ \A t \in Services : rt[t].generation \in Nat
        /\ \A t \in Services, d \in Children : child[t][d].gen \in Nat
    BY DEF Typing, TypeOK, RuntimeType, ChildType
  <1>1. /\ s \in Services
        /\ c \in Children
        /\ child[s][c].phase = "held"
        /\ child'[s][c].phase = "select"
        /\ child'[s][c].gen = g
        /\ \A t \in Services, d \in Children :
              (t # s \/ d # c) => child'[t][d] = child[t][d]
        /\ rt'[s].generation = g
        /\ \A t \in Services \ {s} : rt'[t] = rt[t]
        /\ UNCHANGED spawned
        /\ InstallersKept
    BY InstallEffect
  <1>2. At(a, "install") /\ ~At(a, "install")'
    <2>1. task'[a].pc # "install"
      <3>1. /\ task \in [Tasks -> TaskType]
            /\ AfterSpawn(a).pc # "install"
        BY AfterPoint DEF Typing, TypeOK
      <3> DEFINE m == [op |-> "single", pc |-> "watch", todo |-> <<s>>,
                       then |-> <<>>, child |-> NoChild]
                 k == [task EXCEPT ![a] = AfterSpawn(a)]
      <3>2. task' = k \/ task' = [k EXCEPT ![<<"single", s, c>>] = m]
        BY DEF Install
      <3>3. m.pc # "install"
        OBVIOUS
      <3> HIDE DEF m
      <3> QED BY <3>1, <3>2, <3>3
    <2> QED BY <2>1 DEF At, Install
  <1>3. g \in Nat /\ g # 0 /\ g > rt[s].generation
    BY <1>0, <1>1
  <1> HIDE DEF g, c, s
  <1>4. SlotsInOrder'
    <2> SUFFICES ASSUME NEW t \in Services, NEW d \in Children
                 PROVE  /\ child'[t][d].phase = "none" <=> d > spawned'[t]
                        /\ child'[t][d].phase \in {"none", "held", "leaked"}
                              <=> child'[t][d].gen = 0
      BY DEF SlotsInOrder
    <2>1. CASE t = s /\ d = c
      BY <1>1, <1>3, <2>1 DEF ChildInv, SlotsInOrder
    <2>2. CASE ~(t = s /\ d = c)
      BY <1>1, <2>2 DEF ChildInv, SlotsInOrder
    <2> QED BY <2>1, <2>2
  <1>5. GenerationsDiffer'
    <2> SUFFICES ASSUME NEW t \in Services, NEW d \in Children, NEW e \in Children
                 PROVE  /\ child'[t][d].gen <= rt'[t].generation
                        /\ (child'[t][d].gen = child'[t][e].gen
                              /\ child'[t][d].gen # 0) => d = e
      BY DEF GenerationsDiffer
    <2>1. CASE t = s
      <3>1. \A x \in Children : x # c => child'[s][x].gen = child[s][x].gen
                                         /\ child[s][x].gen <= rt[s].generation
        BY <1>1 DEF ChildInv, GenerationsDiffer
      <3>2. \A x \in Children : x # c => child'[s][x].gen < g
        BY <1>0, <1>1, <1>3, <3>1
      <3>3. child'[s][d].gen <= g
        BY <1>0, <1>1, <1>3, <3>1, <3>2
      <3>4. CASE d = c \/ e = c
        BY <1>1, <1>3, <2>1, <3>2, <3>3, <3>4
      <3>5. CASE d # c /\ e # c
        BY <1>1, <2>1, <3>1, <3>3, <3>5 DEF ChildInv, GenerationsDiffer
      <3> QED BY <3>4, <3>5
    <2>2. CASE t # s
      BY <1>1, <2>2 DEF ChildInv, GenerationsDiffer
    <2> QED BY <2>1, <2>2
  <1>6. HeldByOne'
    <2> SUFFICES ASSUME NEW b \in Tasks, At(b, "install")'
                 PROVE  /\ task'[b].child \in Children
                        /\ child'[Current(b)'][task'[b].child].phase = "held"
                        /\ \A d \in Tasks :
                             (At(d, "install")' /\ Current(d)' = Current(b)'
                               /\ task'[d].child = task'[b].child) => b = d
      BY DEF HeldByOne
    <2>1. b # a /\ task'[b] = task[b] /\ At(b, "install") /\ Current(b)' = Current(b)
      BY <1>1, <1>2 DEF InstallersKept, At, Current
    <2>2. ~(Current(b) = s /\ task[b].child = c)
      BY <1>2, <2>1 DEF ChildInv, HeldByOne, s, c
    <2>3. Current(b) \in Services
      BY <2>1, CurrentTyped DEF At
    <2>4. \A d \in Tasks : At(d, "install")' =>
              task'[d] = task[d] /\ At(d, "install") /\ Current(d)' = Current(d)
      BY <1>1 DEF InstallersKept, At, Current
    <2> QED BY <1>1, <2>1, <2>2, <2>3, <2>4 DEF ChildInv, HeldByOne
  <1> QED BY <1>4, <1>5, <1>6 DEF ChildInv
-----------------------------------------------------------------------------
\* A background step moves one watcher between phases of an installed child,
\* keeps every generation and starts no installation.
Background(s, c) ==
    \/ ChildDies(s, c) \/ WatcherStep(s, c) \/ TimerFires(s, c)
    \/ MonitorTick(s, c) \/ MonitorSample(s, c)

Installed0 == {"select", "graceful", "cascade", "done"}

\* What watchers, timers and monitors may do to children and tasks: they move
\* installed children forward and install nothing.
LEMMA BackgroundEffect ==
    ASSUME Typing, NEW s \in Services, NEW c \in Children, Background(s, c)
    PROVE  /\ UNCHANGED spawned
           /\ \A t \in Services, d \in Children :
                 /\ child'[t][d].gen = child[t][d].gen
                 /\ \/ child'[t][d].phase = child[t][d].phase
                    \/ t = s /\ d = c /\ child[t][d].phase \in Installed0
                       /\ child'[t][d].phase \in Installed0
           /\ \A t \in Services : rt'[t].generation = rt[t].generation
           /\ InstallersKept
  <1>0. /\ rt \in [Services -> RuntimeType]
        /\ child \in [Services -> [Children -> ChildType]]
        /\ task \in [Tasks -> TaskType]
        /\ child[s][c] \in ChildType
        /\ rt[s] \in RuntimeType
        /\ <<"respawn", s, c>> \in Tasks
        /\ <<"single", s, c>> \in Tasks
    BY DEF Typing, TypeOK, Tasks, Timers, Monitors
  <1>1. ASSUME NEW p \in Installed0, WatcherTo(s, c, p), child[s][c].phase \in Installed0
        PROVE  \A t \in Services, d \in Children :
                 /\ child'[t][d].gen = child[t][d].gen
                 /\ \/ child'[t][d].phase = child[t][d].phase
                    \/ t = s /\ d = c /\ child[t][d].phase \in Installed0
                       /\ child'[t][d].phase \in Installed0
    BY <1>0, <1>1 DEF WatcherTo, ChildType
  <1>2. UNCHANGED task => InstallersKept
    BY DEF InstallersKept
  <1>3. UNCHANGED rt => \A t \in Services : rt'[t].generation = rt[t].generation
    OBVIOUS
  <1>4. /\ Cleared(rt[s]).generation = rt[s].generation
        /\ BackedOff(rt[s]).generation = rt[s].generation
        /\ \A st \in {"Stopped", "Failed"} :
              [Cleared(rt[s]) EXCEPT !.state = st].generation = rt[s].generation
    BY <1>0 DEF Cleared, BackedOff, RuntimeType
  <1>5. CASE ChildDies(s, c)
    <2>1. \A t \in Services, d \in Children :
             child'[t][d].gen = child[t][d].gen /\ child'[t][d].phase = child[t][d].phase
      BY <1>0, <1>5 DEF ChildDies, ChildType
    <2> QED BY <1>2, <1>3, <1>5, <2>1 DEF ChildDies
  <1>6. CASE StopRequested(s, c) \/ ExitSuperseded(s, c)
    <2>1. \E p \in Installed0 : WatcherTo(s, c, p)
      BY <1>6 DEF StopRequested, ExitSuperseded, Installed0
    <2>2. child[s][c].phase \in Installed0
      BY <1>6 DEF StopRequested, ExitSuperseded, ExitSeen, Installed0
    <2> QED BY <1>1, <1>2, <1>3, <1>6, <2>1, <2>2 DEF StopRequested, ExitSuperseded
  <1>7. CASE GracefullyStopped(s, c) \/ ExitWhileStopping(s, c)
    <2>1. \E p \in Installed0 : WatcherTo(s, c, p)
      BY <1>7 DEF GracefullyStopped, ExitWhileStopping, Installed0
    <2>2. child[s][c].phase \in Installed0
      BY <1>7 DEF GracefullyStopped, ExitWhileStopping, ExitSeen, Installed0
    <2>3. rt' = rt \/ rt' = [rt EXCEPT ![s] = Cleared(rt[s])]
      BY <1>0, <1>7 DEF GracefullyStopped, ExitWhileStopping
    <2>4. \A t \in Services : rt'[t].generation = rt[t].generation
      BY <1>0, <1>4, <2>3
    <2> QED BY <1>1, <1>2, <1>7, <2>1, <2>2, <2>4 DEF GracefullyStopped, ExitWhileStopping
  <1>8. ASSUME NEW code \in {"ok", "err"}, ExitFinal(s, c, code)
        PROVE  /\ UNCHANGED <<spawned, task>>
               /\ \E p \in Installed0 : WatcherTo(s, c, p)
               /\ child[s][c].phase \in Installed0
               /\ \A t \in Services : rt'[t].generation = rt[t].generation
    <2>1. \E st \in {"Stopped", "Failed"} :
             rt' = [rt EXCEPT ![s] = [Cleared(rt[s]) EXCEPT !.state = st]]
      BY <1>0, <1>8 DEF ExitFinal
    <2>2. \A t \in Services : rt'[t].generation = rt[t].generation
      BY <1>0, <1>4, <2>1
    <2> QED BY <1>8, <2>2 DEF ExitFinal, ExitSeen, Installed0
  <1>9. ASSUME NEW code \in {"ok", "err"}, ExitRestart(s, c, code)
        PROVE  /\ UNCHANGED spawned
               /\ \E p \in Installed0 : WatcherTo(s, c, p)
               /\ child[s][c].phase \in Installed0
               /\ \A t \in Services : rt'[t].generation = rt[t].generation
               /\ InstallersKept
    <2>1. rt' = [rt EXCEPT ![s] = BackedOff(rt[s])]
      BY <1>9 DEF ExitRestart
    <2>2. \A t \in Services : rt'[t].generation = rt[t].generation
      BY <1>0, <1>4, <2>1
    <2>3. InstallersKept
      BY <1>0, <1>9, BecomeKeepsInstallers DEF ExitRestart
    <2> QED BY <1>9, <2>2, <2>3 DEF ExitRestart, ExitSeen, Installed0
  <1>10. CASE CascadeExit(s, c)
    <2>1. \E p \in Installed0 : WatcherTo(s, c, p)
      BY <1>10 DEF CascadeExit, Installed0
    <2>2. child[s][c].phase \in Installed0
      BY <1>10 DEF CascadeExit, Installed0
    <2>3. \A t \in Services : rt'[t].generation = rt[t].generation
      BY <1>0, <1>10 DEF CascadeExit, Cascade, RuntimeType
    <2> QED BY <1>1, <1>2, <1>10, <2>1, <2>2, <2>3 DEF CascadeExit
  <1>11. CASE TimerFires(s, c) \/ MonitorTick(s, c) \/ MonitorSample(s, c)
    <2>1. InstallersKept
      BY <1>0, <1>11, BecomeKeepsInstallers, GotoKeepsInstallers
         DEF TimerFires, MonitorTick, MonitorSample, Points, Idle
    <2> QED BY <1>3, <1>11, <2>1 DEF TimerFires, MonitorTick, MonitorSample
  <1> QED
    BY <1>1, <1>2, <1>5, <1>6, <1>7, <1>8, <1>9, <1>10, <1>11
       DEF Background, WatcherStep

\* Hence they preserve what is known of the children.
LEMMA BackgroundKeeps ==
    ASSUME Typing, ChildInv, NEW s \in Services, NEW c \in Children, Background(s, c)
    PROVE  ChildInv'
  <1>1. /\ UNCHANGED spawned
        /\ \A t \in Services, d \in Children :
                 /\ child'[t][d].gen = child[t][d].gen
                 /\ \/ child'[t][d].phase = child[t][d].phase
                    \/ t = s /\ d = c /\ child[t][d].phase \in Installed0
                       /\ child'[t][d].phase \in Installed0
        /\ \A t \in Services : rt'[t].generation = rt[t].generation
        /\ InstallersKept
    BY BackgroundEffect
  <1>2. SlotsInOrder'
    BY <1>1 DEF ChildInv, SlotsInOrder, Installed0
  <1>3. GenerationsDiffer'
    BY <1>1 DEF ChildInv, GenerationsDiffer
  <1>4. HeldByOne'
    <2>1. \A b \in Tasks : At(b, "install") => Current(b) \in Services
      BY CurrentTyped DEF At
    <2>2. \A b \in Tasks : At(b, "install")' =>
              task'[b] = task[b] /\ At(b, "install") /\ Current(b)' = Current(b)
      BY <1>1 DEF InstallersKept, At, Current
    <2> QED BY <1>1, <2>1, <2>2 DEF ChildInv, HeldByOne, Installed0
  <1> QED BY <1>2, <1>3, <1>4 DEF ChildInv

\* The part of the invariant about children is inductive.
LEMMA ChildInvStep == Typing /\ ChildInv /\ [Next]_vars => ChildInv'
  <1> SUFFICES ASSUME Typing, ChildInv, [Next]_vars PROVE ChildInv'
    OBVIOUS
  <1>1. ASSUME NEW a \in Callers, Call(a)
        PROVE  ChildInv'
    <2>0. a \in Tasks
      BY DEF Tasks
    <2>1. GenerationsKept
      BY <1>1 DEF Call, Start, Stop, Restart, ShutdownAll, GenerationsKept
    <2>2. InstallersKept
      <3>1. PICK t : Become(a, t) /\ t.pc # "install"
        BY <1>1, WalkPoint DEF Call, Start, Stop, Restart, ShutdownAll
      <3> QED BY <2>0, <3>1, BecomeKeepsInstallers
    <2> QED BY <2>1, <2>2, ChildFrame
  <1>2. ASSUME NEW a \in Tasks, TaskStep(a)
        PROVE  ChildInv'
    <2>1. ~At(a, "idle")
      BY <1>2 DEF TaskStep, SpawnStep, StopStep, CheckSkip, MarkStarting, Reject,
           CascadeRejected, SpawnError, LogOpenError, Exec, Install, StopMark,
           StopAnswered, StopTimedOut, StopFinal, CountRestart, At
    <2> QED
      BY <1>2, <2>1, QuietTaskStep, ChildFrame, LogOpenErrorKeeps, ExecKeeps,
         InstallKeeps DEF TaskStep, SpawnStep
  <1>3. ASSUME NEW s \in Services, NEW c \in Children, Background(s, c)
        PROVE  ChildInv'
    BY <1>3, BackgroundKeeps
  <1>4. CASE UNCHANGED vars
    BY <1>4, ChildFrame DEF vars, InstallersKept, GenerationsKept
  <1> QED BY <1>1, <1>2, <1>3, <1>4 DEF Next, Background
-----------------------------------------------------------------------------
(* A Running service is supervised.                                        *)

SupervisedInv == StopChannelLive /\ RunningIsSupervised

\* What every writer but Install does to a runtime record: it may drop the stop
\* channel, and it never turns a service to Running.
RuntimeLowered ==
    \A t \in Services :
        /\ rt'[t].generation = rt[t].generation
        /\ rt'[t].stopTx \in {rt[t].stopTx, NoChild}
        /\ rt'[t].state = "Running" =>
             /\ rt[t].state = "Running"
             /\ rt'[t].pid = rt[t].pid
             /\ rt'[t].client = rt[t].client
             /\ rt'[t].stopTx = rt[t].stopTx

\* A child whose stop channel stays in the runtime keeps generation and phase.
ReachableKept ==
    \A t \in Services : rt'[t].stopTx # NoChild =>
        /\ child'[t][rt'[t].stopTx].gen = child[t][rt'[t].stopTx].gen
        /\ child'[t][rt'[t].stopTx].phase = child[t][rt'[t].stopTx].phase

\* A step that only takes the state of a service down, or its stop channel
\* away, preserves the supervision of the others.
LEMMA SupervisedFrame ==
    ASSUME SupervisedInv, RuntimeLowered, ReachableKept
    PROVE  SupervisedInv'
  <1>1. StopChannelLive'
    BY DEF SupervisedInv, StopChannelLive, RuntimeLowered, ReachableKept
  <1>2. RunningIsSupervised'
    BY DEF SupervisedInv, RunningIsSupervised, RuntimeLowered, ReachableKept
  <1> QED BY <1>1, <1>2 DEF SupervisedInv

\* Every task step that neither creates nor installs a process only takes runtime
\* records down.
LEMMA TaskStepLowers ==
    ASSUME Typing, NEW a \in Tasks, ~At(a, "idle"),
           \/ CheckSkip(a) \/ MarkStarting(a) \/ Reject(a) \/ CascadeRejected(a)
           \/ SpawnError(a) \/ StopStep(a) \/ CountRestart(a)
    PROVE  RuntimeLowered /\ UNCHANGED child
  <1>0. rt \in [Services -> RuntimeType] /\ Current(a) \in Services
        /\ rt[Current(a)] \in RuntimeType
    BY CurrentTyped DEF Typing, TypeOK
  <1>1. CASE CheckSkip(a) \/ SpawnError(a) \/ StopAnswered(a) \/ StopTimedOut(a)
    BY <1>1 DEF CheckSkip, SpawnError, StopAnswered, StopTimedOut, RuntimeLowered
  <1>2. CASE MarkStarting(a)
    BY <1>0, <1>2 DEF MarkStarting, RuntimeLowered, RuntimeType
  <1>3. CASE Reject(a)
    BY <1>0, <1>3 DEF Reject, RuntimeLowered, RuntimeType
  <1>4. CASE CascadeRejected(a)
    BY <1>0, <1>4 DEF CascadeRejected, Cascade, RuntimeLowered, RuntimeType
  <1>5. CASE StopMark(a)
    <2>1. rt' = [rt EXCEPT ![Current(a)] = BeingStopped(@)] \/ rt' = rt
      BY <1>5 DEF StopMark
    <2>2. /\ BeingStopped(rt[Current(a)]).generation = rt[Current(a)].generation
          /\ BeingStopped(rt[Current(a)]).stopTx = NoChild
          /\ BeingStopped(rt[Current(a)]).state = "Stopping"
      BY <1>0 DEF BeingStopped, RuntimeType
    <2>3. RuntimeLowered
      BY <1>0, <2>1, <2>2 DEF RuntimeLowered
    <2> QED BY <1>5, <2>3 DEF StopMark
  <1>6. CASE StopFinal(a)
    BY <1>0, <1>6 DEF StopFinal, Cleared, RuntimeLowered, RuntimeType
  <1>7. CASE CountRestart(a)
    BY <1>0, <1>7 DEF CountRestart, RuntimeLowered, RuntimeType
  <1> QED BY <1>1, <1>2, <1>3, <1>4, <1>5, <1>6, <1>7 DEF StopStep

\* So does every step of a watcher, a timer or a monitor.
LEMMA BackgroundLowers ==
    ASSUME Typing, StopChannelLive, NEW s \in Services, NEW c \in Children,
           Background(s, c)
    PROVE  RuntimeLowered /\ ReachableKept
  <1>0. /\ rt \in [Services -> RuntimeType]
        /\ rt[s] \in RuntimeType
        /\ \A t \in Services : rt[t].stopTx \in 0..MaxSpawns
    BY DEF Typing, TypeOK, RuntimeType
  <1>1. \A t \in Services, d \in Children :
           /\ child'[t][d].gen = child[t][d].gen
           /\ \/ child'[t][d].phase = child[t][d].phase
              \/ t = s /\ d = c /\ child[t][d].phase \in Installed0
    BY BackgroundEffect
  <1>2. \A t \in Services : rt[t].stopTx # NoChild => rt[t].stopTx \in Children
    BY <1>0, SupervisorAssumption, SMTT(30) DEF Children, NoChild
  <1>3. RuntimeLowered /\ child[s][c].phase = child'[s][c].phase => ReachableKept
    BY <1>1, <1>2 DEF RuntimeLowered, ReachableKept
  <1>4. RuntimeLowered /\ rt'[s].stopTx # c => ReachableKept
    BY <1>1, <1>2 DEF RuntimeLowered, ReachableKept
  <1>5. /\ Cleared(rt[s]).generation = rt[s].generation
        /\ Cleared(rt[s]).stopTx = NoChild
        /\ Cleared(rt[s]).state = "Stopped"
        /\ BackedOff(rt[s]).generation = rt[s].generation
        /\ BackedOff(rt[s]).stopTx = NoChild
        /\ BackedOff(rt[s]).state = "Backoff"
        /\ \A st \in {"Stopped", "Failed"} :
              LET r == [Cleared(rt[s]) EXCEPT !.state = st]
              IN  r.generation = rt[s].generation /\ r.stopTx = NoChild /\ r.state = st
    BY <1>0 DEF Cleared, BackedOff, RuntimeType
  <1>6. NoChild # c
    BY DEF NoChild, Children
  <1>7. CASE UNCHANGED rt
    <2>1. RuntimeLowered
      BY <1>7 DEF RuntimeLowered
    <2>2. child'[s][c].phase = child[s][c].phase \/ rt[s].stopTx # c
      <3>1. CASE ChildDies(s, c)
        BY <3>1 DEF ChildDies, Typing, TypeOK, ChildType
      <3>2. CASE StopRequested(s, c)
        BY <3>2 DEF StopRequested, SenderGone
      <3>3. CASE child[s][c].phase # "select"
        BY <1>2, <1>6, <3>3 DEF StopChannelLive
      <3>4. CASE child[s][c].gen # rt[s].generation
        BY <1>2, <1>6, <3>4 DEF StopChannelLive
      <3>5. CASE Owns(s, c) /\ child[s][c].phase = "select" /\ WatcherStep(s, c)
                 /\ ~StopRequested(s, c)
        <4>1. rt'[s].stopTx = NoChild
          BY <1>0, <1>5, <3>5 DEF WatcherStep, GracefullyStopped, ExitSuperseded,
             ExitWhileStopping, ExitFinal, ExitRestart, CascadeExit
        <4> QED BY <1>6, <1>7, <4>1
      <3>6. CASE TimerFires(s, c) \/ MonitorTick(s, c) \/ MonitorSample(s, c)
        BY <3>6 DEF TimerFires, MonitorTick, MonitorSample
      <3> QED BY <3>1, <3>2, <3>3, <3>4, <3>5, <3>6 DEF Background, Owns
    <2> QED BY <1>3, <1>4, <1>7, <2>1, <2>2
  <1>8. CASE rt' # rt /\ ~CascadeExit(s, c)
    <2>1. \E r \in {Cleared(rt[s]), BackedOff(rt[s]),
                    [Cleared(rt[s]) EXCEPT !.state = "Stopped"],
                    [Cleared(rt[s]) EXCEPT !.state = "Failed"]} :
             rt' = [rt EXCEPT ![s] = r]
      <3>1. CASE GracefullyStopped(s, c) \/ ExitWhileStopping(s, c)
        BY <1>0, <1>8, <3>1 DEF GracefullyStopped, ExitWhileStopping
      <3>2. CASE \E code \in {"ok", "err"} : ExitFinal(s, c, code)
        BY <3>2 DEF ExitFinal
      <3>3. CASE \E code \in {"ok", "err"} : ExitRestart(s, c, code)
        BY <3>3 DEF ExitRestart
      <3> QED
        BY <1>8, <3>1, <3>2, <3>3 DEF Background, WatcherStep, ChildDies,
           StopRequested, ExitSuperseded, TimerFires, MonitorTick, MonitorSample
    <2>2. RuntimeLowered /\ rt'[s].stopTx = NoChild
      BY <1>0, <1>5, <2>1, ZenonT(60) DEF RuntimeLowered
    <2> QED BY <1>4, <1>6, <2>2
  <1>9. CASE CascadeExit(s, c)
    <2>1. RuntimeLowered
      BY <1>0, <1>9 DEF CascadeExit, Cascade, RuntimeLowered, RuntimeType
    <2>2. rt[s].stopTx # c
      BY <1>6, <1>9 DEF CascadeExit, StopChannelLive
    <2>3. rt'[s].stopTx # c
      BY <1>6, <2>1, <2>2 DEF RuntimeLowered
    <2> QED BY <1>4, <2>1, <2>3
  <1> QED BY <1>7, <1>8, <1>9

\* A service reported Running stays supervised across every step.
LEMMA SupervisedStep == Typing /\ ChildInv /\ SupervisedInv /\ [Next]_vars => SupervisedInv'
  <1> SUFFICES ASSUME Typing, ChildInv, SupervisedInv, [Next]_vars
               PROVE  SupervisedInv'
    OBVIOUS
  <1>0. /\ \A t \in Services : rt[t].stopTx \in 0..MaxSpawns
        /\ \A t \in Services : rt[t].stopTx # NoChild => rt[t].stopTx \in Children
    <2>1. \A t \in Services : rt[t].stopTx \in 0..MaxSpawns
      BY DEF Typing, TypeOK, RuntimeType
    <2> QED BY <2>1, SupervisorAssumption DEF Children, NoChild
  <1>1. UNCHANGED rt => RuntimeLowered
    BY DEF RuntimeLowered
  <1>2. RuntimeLowered /\ UNCHANGED child => SupervisedInv'
    BY SupervisedFrame DEF ReachableKept
  <1>3. ASSUME NEW a \in Callers, Call(a)
        PROVE  SupervisedInv'
    BY <1>1, <1>2, <1>3 DEF Call, Start, Stop, Restart, ShutdownAll
  <1>4. ASSUME NEW a \in Tasks, TaskStep(a)
        PROVE  SupervisedInv'
    <2>1. ~At(a, "idle")
      BY <1>4 DEF TaskStep, SpawnStep, StopStep, CheckSkip, MarkStarting, Reject,
           CascadeRejected, SpawnError, LogOpenError, Exec, Install, StopMark,
           StopAnswered, StopTimedOut, StopFinal, CountRestart, At
    <2>2. CASE LogOpenError(a) \/ Exec(a)
      <3>1. PICK p \in {"held", "leaked"} : NewChild(Current(a), task[a].op, p)
        BY <2>2 DEF LogOpenError, Exec
      <3>2. Current(a) \in Services /\ task[a].op \in Ops /\ UNCHANGED rt
        BY <2>1, <2>2, CurrentTyped DEF LogOpenError, Exec, TaskType
      <3> DEFINE n == NextChild(Current(a))
      <3>3. /\ child[Current(a)][n].phase = "none"
            /\ \A t \in Services, d \in Children :
                 (t # Current(a) \/ d # n) => child'[t][d] = child[t][d]
        BY <3>1, <3>2, NewChildEffect DEF ChildInv
      <3>4. rt[Current(a)].stopTx # NoChild => rt[Current(a)].stopTx # n
        BY <3>2, <3>3 DEF SupervisedInv, StopChannelLive
      <3>5. ReachableKept
        BY <1>0, <3>2, <3>3, <3>4 DEF ReachableKept
      <3> QED BY <1>1, <3>2, <3>5, SupervisedFrame
    <2>3. CASE Install(a)
      <3> DEFINE s == Current(a)
                 c == task[a].child
      <3>1. /\ s \in Services
            /\ c \in Children
            /\ child'[s][c].phase = "select"
            /\ child'[s][c].gen = rt[s].generation + 1
            /\ \A t \in Services, d \in Children :
                 (t # s \/ d # c) => child'[t][d] = child[t][d]
            /\ rt'[s].generation = rt[s].generation + 1
            /\ rt'[s].pid = c /\ rt'[s].client = c /\ rt'[s].stopTx = c
            /\ \A t \in Services \ {s} : rt'[t] = rt[t]
        BY <2>3, InstallEffect
      <3>2. c # NoChild
        BY <3>1 DEF NoChild, Children
      <3> HIDE DEF s, c
      <3>3. StopChannelLive'
        BY <1>0, <3>1 DEF SupervisedInv, StopChannelLive
      <3>4. RunningIsSupervised'
        <4> SUFFICES ASSUME NEW t \in Services, rt'[t].state = "Running"
                     PROVE  /\ rt'[t].pid # NoChild
                            /\ rt'[t].stopTx = rt'[t].pid
                            /\ rt'[t].client = rt'[t].pid
                            /\ child'[t][rt'[t].pid].gen = rt'[t].generation
                            /\ child'[t][rt'[t].pid].phase = "select"
          BY DEF RunningIsSupervised
        <4>1. CASE t = s
          BY <3>1, <3>2, <4>1
        <4>2. CASE t # s
          BY <1>0, <3>1, <4>2 DEF SupervisedInv, RunningIsSupervised
        <4> QED BY <4>1, <4>2
      <3> QED BY <3>3, <3>4 DEF SupervisedInv
    <2>4. CASE ~(LogOpenError(a) \/ Exec(a) \/ Install(a))
      BY <1>2, <1>4, <2>1, <2>4, TaskStepLowers DEF TaskStep, SpawnStep
    <2> QED BY <2>2, <2>3, <2>4
  <1>5. ASSUME NEW s \in Services, NEW c \in Children, Background(s, c)
        PROVE  SupervisedInv'
    BY <1>5, BackgroundLowers, SupervisedFrame DEF SupervisedInv
  <1>6. CASE UNCHANGED vars
    BY <1>1, <1>2, <1>6 DEF vars
  <1> QED BY <1>3, <1>4, <1>5, <1>6 DEF Next, Background
-----------------------------------------------------------------------------
(* A service in back-off has its timer.                                    *)

BackoffInv == TimersKeepTheirService /\ BackoffHasTimer

Timer(s, c) == <<"respawn", s, c>>

\* What every step but ExitRestart does: it puts no service in back-off.
NoNewBackoff ==
    \A t \in Services :
        rt'[t].state = "Backoff" => /\ rt[t].state = "Backoff"
                                    /\ rt'[t].stopping = rt[t].stopping
                                    /\ rt'[t].generation = rt[t].generation

GensKept ==
    \A t \in Services, d \in Children :
        child[t][d].gen # 0 => child'[t][d].gen = child[t][d].gen

\* A timer that decides a service's back-off stays, unless the back-off ends.
TimersHeld ==
    \A t \in Services, d \in Children :
        (task[Timer(t, d)].pc \in {"sleep", "mark"} /\ rt'[t].state = "Backoff"
           /\ child[t][d].gen = rt[t].generation)
        => task'[Timer(t, d)].pc \in {"sleep", "mark"}

\* A step that enters no back-off and stops no timer of the installed
\* generation keeps every back-off with its timer.
LEMMA BackoffFrame ==
    ASSUME BackoffHasTimer, NoNewBackoff, GensKept, TimersHeld
    PROVE  BackoffHasTimer'
  <1> SUFFICES ASSUME NEW t \in Services, rt'[t].state = "Backoff"
               PROVE  /\ ~rt'[t].stopping
                      /\ \E d \in Children :
                            /\ child'[t][d].gen # 0
                            /\ child'[t][d].gen = rt'[t].generation
                            /\ task'[Timer(t, d)].pc \in {"sleep", "mark"}
    BY DEF BackoffHasTimer, Timer
  <1>1. rt[t].state = "Backoff" /\ rt'[t].stopping = rt[t].stopping
        /\ rt'[t].generation = rt[t].generation
    BY DEF NoNewBackoff
  <1>2. PICK d \in Children : /\ child[t][d].gen # 0
                              /\ child[t][d].gen = rt[t].generation
                              /\ task[Timer(t, d)].pc \in {"sleep", "mark"}
    BY <1>1 DEF BackoffHasTimer, Timer
  <1>3. ~rt[t].stopping
    BY <1>1 DEF BackoffHasTimer
  <1> QED BY <1>1, <1>2, <1>3 DEF GensKept, TimersHeld

\* A task step leaves every timer but itself alone.
LEMMA OtherTimersKept ==
    ASSUME Typing, ChildInv, NEW a \in Tasks, TaskStep(a),
           NEW s \in Services, NEW c \in Children, Timer(s, c) # a
    PROVE  task'[Timer(s, c)] = task[Timer(s, c)]
  <1>0. task \in [Tasks -> TaskType] /\ Timer(s, c) \in Tasks
    BY DEF Typing, TypeOK, Tasks, Timers, Timer
  <1>1. CASE Install(a)
    <2>1. \A x, y : Timer(s, c) # <<"single", x, y>>
      BY DEF Timer
    <2> QED BY <1>0, <1>1, <2>1, InstallEffect
  <1>2. CASE ~Install(a)
    <2>1. \E t : Become(a, t)
      BY <1>2 DEF TaskStep, SpawnStep, StopStep, CheckSkip, MarkStarting, Reject,
         CascadeRejected, SpawnError, LogOpenError, Exec, StopMark,
         StopAnswered, StopTimedOut, StopFinal, CountRestart, Goto
    <2> QED BY <1>0, <2>1 DEF Become
  <1> QED BY <1>1, <1>2

\* A timer goes from its mark to its spawn and ends there.
LEMMA OwnTimerStep ==
    ASSUME Typing, ChildInv, TimersKeepTheirService,
           NEW s \in Services, NEW c \in Children, TaskStep(Timer(s, c))
    PROVE  LET t == task'[Timer(s, c)]
           IN  t.pc # "idle" =>
                 /\ t.todo = <<s>>
                 /\ t.pc \in {"sleep", "mark", "exec", "install", "cascade"}
  <1> DEFINE a == Timer(s, c)
  <1>0. /\ task \in [Tasks -> TaskType] /\ a \in Tasks /\ task[a] \in TaskType
    BY DEF Typing, TypeOK, Tasks, Timers, Timer
  <1>1. task[a].pc # "idle" => /\ task[a].todo = <<s>>
                               /\ task[a].pc \in {"sleep", "mark", "exec", "install", "cascade"}
    BY DEF TimersKeepTheirService, Timer
  <1> HIDE DEF a
  <1>2. CASE MarkStarting(a)
    BY <1>0, <1>1, <1>2 DEF MarkStarting, Goto, Become, At, TaskType, a
  <1>3. CASE Reject(a)
    BY <1>0, <1>1, <1>3 DEF Reject, Goto, Become, At, TaskType, a
  <1>4. CASE Exec(a)
    BY <1>0, <1>1, <1>4 DEF Exec, Become, At, TaskType, a
  <1>5. CASE CascadeRejected(a) \/ SpawnError(a) \/ LogOpenError(a)
    BY <1>0, <1>5 DEF CascadeRejected, SpawnError, LogOpenError, Become, Idle, a
  <1>6. CASE Install(a)
    <2>1. task[a].todo = <<s>>
      BY <1>1, <1>6 DEF Install, At
    <2>2. AfterSpawn(a) = Idle
      BY <2>1 DEF AfterSpawn, Walk
    <2>3. task' = [task EXCEPT ![a] = Idle]
          \/ \E x, y, m : task' = [[task EXCEPT ![a] = Idle] EXCEPT ![<<"single", x, y>>] = m]
      BY <1>6, <2>2 DEF Install
    <2>4. \A x, y : a # <<"single", x, y>>
      BY DEF a, Timer
    <2>5. task'[a] = Idle
      BY <1>0, <2>3, <2>4
    <2> QED BY <2>5 DEF Idle, a
  <1>7. CASE CheckSkip(a) \/ StopStep(a) \/ CountRestart(a)
    BY <1>1, <1>7 DEF CheckSkip, StopStep, StopMark, StopAnswered, StopTimedOut,
       StopFinal, CountRestart, At
  <1> QED
    BY <1>2, <1>3, <1>4, <1>5, <1>6, <1>7 DEF TaskStep, SpawnStep, a

\* Task steps keep every back-off with its timer.
LEMMA TaskBackoffStep ==
    ASSUME Typing, ChildInv, BackoffInv, NEW a \in Tasks, TaskStep(a)
    PROVE  BackoffInv'
  <1>0. /\ rt \in [Services -> RuntimeType]
        /\ child \in [Services -> [Children -> ChildType]]
        /\ ~At(a, "idle")
    BY DEF Typing, TypeOK, TaskStep, SpawnStep, StopStep, CheckSkip, MarkStarting,
       Reject, CascadeRejected, SpawnError, LogOpenError, Exec, Install, StopMark,
       StopAnswered, StopTimedOut, StopFinal, CountRestart, At
  <1>1. Current(a) \in Services /\ task[a].op \in Ops /\ rt[Current(a)] \in RuntimeType
    BY <1>0, CurrentTyped DEF TaskType
  <1>2. TimersKeepTheirService'
    <2> SUFFICES ASSUME NEW s \in Services, NEW c \in Children
                 PROVE  LET t == task'[Timer(s, c)]
                        IN  t.pc # "idle" =>
                              /\ t.todo = <<s>>
                              /\ t.pc \in {"sleep", "mark", "exec", "install", "cascade"}
      BY DEF TimersKeepTheirService, Timer
    <2>1. CASE Timer(s, c) = a
      BY <2>1, OwnTimerStep DEF BackoffInv
    <2>2. CASE Timer(s, c) # a
      <3>1. task'[Timer(s, c)] = task[Timer(s, c)]
        BY <2>2, OtherTimersKept
      <3> QED BY <3>1 DEF BackoffInv, TimersKeepTheirService, Timer
    <2> QED BY <2>1, <2>2
  <1>3. NoNewBackoff
    <2>1. CASE CheckSkip(a) \/ SpawnError(a) \/ StopAnswered(a) \/ StopTimedOut(a)
               \/ LogOpenError(a) \/ Exec(a)
      BY <2>1 DEF CheckSkip, SpawnError, StopAnswered, StopTimedOut, LogOpenError,
         Exec, NoNewBackoff
    <2>2. CASE MarkStarting(a) \/ Reject(a) \/ CountRestart(a)
      <3>1. CASE MarkStarting(a)
        BY <1>0, <1>1, <3>1 DEF MarkStarting, NoNewBackoff, RuntimeType
      <3>2. CASE Reject(a)
        BY <1>0, <1>1, <3>2 DEF Reject, NoNewBackoff, RuntimeType
      <3>3. CASE CountRestart(a)
        BY <1>0, <1>1, <3>3 DEF CountRestart, NoNewBackoff, RuntimeType
      <3> QED BY <2>2, <3>1, <3>2, <3>3
    <2>3. CASE CascadeRejected(a)
      BY <1>0, <2>3 DEF CascadeRejected, Cascade, NoNewBackoff, RuntimeType
    <2>4. CASE StopMark(a)
      <3>1. rt' = [rt EXCEPT ![Current(a)] = BeingStopped(rt[Current(a)])] \/ rt' = rt
        BY <1>0, <1>1, <2>4 DEF StopMark
      <3>2. BeingStopped(rt[Current(a)]).state = "Stopping"
        BY <1>1 DEF BeingStopped, RuntimeType
      <3> QED BY <1>0, <1>1, <3>1, <3>2 DEF NoNewBackoff
    <2>5. CASE StopFinal(a)
      BY <1>0, <1>1, <2>5 DEF StopFinal, Cleared, NoNewBackoff, RuntimeType
    <2>6. CASE Install(a)
      <3>1. rt'[Current(a)].state = "Running"
            /\ \A t \in Services \ {Current(a)} : rt'[t] = rt[t]
        BY <2>6, InstallEffect
      <3> QED BY <3>1 DEF NoNewBackoff
    <2> QED BY <2>1, <2>2, <2>3, <2>4, <2>5, <2>6 DEF TaskStep, SpawnStep, StopStep
  <1>4. GensKept
    <2>1. CASE LogOpenError(a) \/ Exec(a)
      <3>1. PICK p \in {"held", "leaked"} : NewChild(Current(a), task[a].op, p)
        BY <2>1 DEF LogOpenError, Exec
      <3>2. /\ child[Current(a)][NextChild(Current(a))].gen = 0
            /\ \A t \in Services, d \in Children :
                 (t # Current(a) \/ d # NextChild(Current(a))) =>
                    child'[t][d] = child[t][d]
        BY <1>1, <3>1, NewChildEffect DEF ChildInv
      <3> QED BY <3>2 DEF GensKept
    <2>2. CASE Install(a)
      <3>1. /\ Current(a) \in Services
            /\ task[a].child \in Children
            /\ child[Current(a)][task[a].child].phase = "held"
            /\ \A t \in Services, d \in Children :
                 (t # Current(a) \/ d # task[a].child) => child'[t][d] = child[t][d]
        BY <2>2, InstallEffect
      <3>2. child[Current(a)][task[a].child].gen = 0
        BY <3>1 DEF ChildInv, SlotsInOrder
      <3> QED BY <3>1, <3>2 DEF GensKept
    <2>3. CASE ~(LogOpenError(a) \/ Exec(a) \/ Install(a))
      BY <1>0, <2>3, TaskStepLowers DEF TaskStep, SpawnStep, GensKept
    <2> QED BY <2>1, <2>2, <2>3
  <1>5. TimersHeld
    <2> SUFFICES ASSUME NEW t \in Services, NEW d \in Children,
                        task[Timer(t, d)].pc \in {"sleep", "mark"},
                        rt'[t].state = "Backoff"
                 PROVE  task'[Timer(t, d)].pc \in {"sleep", "mark"}
      BY DEF TimersHeld
    <2>1. CASE Timer(t, d) = a
      <3>1. task[a].todo = <<t>>
        BY <2>1 DEF BackoffInv, TimersKeepTheirService, Timer
      <3>2. MarkStarting(a)
        BY <2>1 DEF TaskStep, SpawnStep, StopStep, CheckSkip, Reject,
           CascadeRejected, SpawnError, LogOpenError, Exec, Install, StopMark,
           StopAnswered, StopTimedOut, StopFinal, CountRestart, At
      <3>3. rt'[t].state = "Starting"
        BY <1>0, <1>1, <3>1, <3>2 DEF MarkStarting, Current, RuntimeType
      <3> QED BY <3>3
    <2>2. CASE Timer(t, d) # a
      BY <2>2, OtherTimersKept
    <2> QED BY <2>1, <2>2
  <1> QED BY <1>2, <1>3, <1>4, <1>5, BackoffFrame DEF BackoffInv

\* Watchers, timers and monitors do: the watcher that enters the back-off starts
\* the timer, and a timer gives up only where there is no back-off.
LEMMA BackgroundBackoffStep ==
    ASSUME Typing, ChildInv, BackoffInv, NEW s \in Services, NEW c \in Children,
           Background(s, c)
    PROVE  BackoffInv'
  <1>0. /\ rt \in [Services -> RuntimeType]
        /\ task \in [Tasks -> TaskType]
        /\ rt[s] \in RuntimeType
        /\ \A x \in Services, y \in Children :
              Timer(x, y) \in Tasks /\ <<"single", x, y>> \in Tasks
        /\ \A x, y : Timer(x, y) # <<"single", s, c>>
        /\ \A x, y : Timer(x, y) = Timer(s, c) => x = s /\ y = c
    BY DEF Typing, TypeOK, Tasks, Timers, Monitors, Timer
  <1>1. GensKept
    BY BackgroundEffect DEF GensKept
  <1>2. CASE \E code \in {"ok", "err"} : ExitRestart(s, c, code)
    <2> DEFINE w == [op |-> "respawn", pc |-> "sleep", todo |-> <<s>>,
                     then |-> <<>>, child |-> NoChild]
    <2>1. /\ Become(Timer(s, c), w)
          /\ rt' = [rt EXCEPT ![s] = BackedOff(rt[s])]
          /\ Owns(s, c)
          /\ child[s][c].phase = "select"
      BY <1>2 DEF ExitRestart, ExitSeen, Timer
    <2>2. w.pc = "sleep" /\ w.todo = <<s>>
      OBVIOUS
    <2> HIDE DEF w
    <2>3. /\ task'[Timer(s, c)] = w
          /\ \A t \in Services, d \in Children :
                (t # s \/ d # c) => task'[Timer(t, d)] = task[Timer(t, d)]
      BY <1>0, <2>1 DEF Become
    <2>4. TimersKeepTheirService'
      BY <2>2, <2>3 DEF BackoffInv, TimersKeepTheirService, Timer
    <2>5. child[s][c].gen # 0 /\ child[s][c].gen = rt[s].generation
      BY <2>1 DEF ChildInv, SlotsInOrder, Owns
    <2>6. /\ rt'[s].stopping = FALSE
          /\ rt'[s].generation = rt[s].generation
          /\ \A t \in Services \ {s} : rt'[t] = rt[t]
      BY <1>0, <2>1 DEF BackedOff, Cleared, RuntimeType
    <2>7. BackoffHasTimer'
      <3> SUFFICES ASSUME NEW t \in Services, rt'[t].state = "Backoff"
                   PROVE  /\ ~rt'[t].stopping
                          /\ \E d \in Children :
                                /\ child'[t][d].gen # 0
                                /\ child'[t][d].gen = rt'[t].generation
                                /\ task'[Timer(t, d)].pc \in {"sleep", "mark"}
        BY DEF BackoffHasTimer, Timer
      <3>1. CASE t = s
        BY <1>1, <2>2, <2>3, <2>5, <2>6, <3>1 DEF GensKept
      <3>2. CASE t # s
        BY <1>1, <2>3, <2>6, <3>2 DEF BackoffInv, BackoffHasTimer, GensKept, Timer
      <3> QED BY <3>1, <3>2
    <2> QED BY <2>4, <2>7 DEF BackoffInv
  <1>3. CASE TimerFires(s, c)
    <2>1. Goto(Timer(s, c), "mark") \/ Become(Timer(s, c), Idle)
      BY <1>3 DEF TimerFires, Timer
    <2>2. /\ At(Timer(s, c), "sleep")
          /\ UNCHANGED rt
          /\ MayRespawn(s, c) => Goto(Timer(s, c), "mark")
      BY <1>3 DEF TimerFires, Timer
    <2>3. /\ \A t \in Services, d \in Children :
                (t # s \/ d # c) => task'[Timer(t, d)] = task[Timer(t, d)]
          /\ \/ task'[Timer(s, c)].pc = "idle"
             \/ /\ task'[Timer(s, c)].pc = "mark"
                /\ task'[Timer(s, c)].todo = task[Timer(s, c)].todo
          /\ MayRespawn(s, c) => task'[Timer(s, c)].pc = "mark"
      <3>0. task[Timer(s, c)] \in TaskType /\ Timer(s, c) \in Tasks
        BY <1>0
      <3>1. CASE Goto(Timer(s, c), "mark")
        <4> DEFINE w == [task[Timer(s, c)] EXCEPT !.pc = "mark"]
        <4>1. w.pc = "mark" /\ w.todo = task[Timer(s, c)].todo
          BY <3>0 DEF TaskType
        <4>2. task' = [task EXCEPT ![Timer(s, c)] = w]
          BY <3>1 DEF Goto, Become
        <4> HIDE DEF w
        <4>3. task'[Timer(s, c)] = w
          BY <1>0, <3>0, <4>2
        <4>4. \A t \in Services, d \in Children :
                 (t # s \/ d # c) => task'[Timer(t, d)] = task[Timer(t, d)]
          BY <1>0, <4>2
        <4> QED BY <4>1, <4>3, <4>4
      <3>2. CASE ~Goto(Timer(s, c), "mark")
        <4>1. task' = [task EXCEPT ![Timer(s, c)] = Idle] /\ ~MayRespawn(s, c)
          BY <2>1, <2>2, <3>2 DEF Become
        <4>2. task'[Timer(s, c)] = Idle /\ Idle.pc = "idle"
          BY <1>0, <3>0, <4>1 DEF Idle
        <4>3. \A t \in Services, d \in Children :
                 (t # s \/ d # c) => task'[Timer(t, d)] = task[Timer(t, d)]
          BY <1>0, <4>1
        <4> QED BY <4>1, <4>2, <4>3
      <3> QED BY <3>1, <3>2
    <2>4. TimersKeepTheirService'
      BY <2>2, <2>3, ZenonT(60) DEF BackoffInv, TimersKeepTheirService, Timer, At
    <2>5. TimersHeld
      BY <2>2, <2>3 DEF TimersHeld, BackoffInv, BackoffHasTimer, MayRespawn, Owns
    <2>6. NoNewBackoff
      BY <2>2 DEF NoNewBackoff
    <2> QED BY <1>1, <2>4, <2>5, <2>6, BackoffFrame DEF BackoffInv
  <1>4. CASE MonitorTick(s, c) \/ MonitorSample(s, c)
    <2>1. /\ \E t : Become(<<"single", s, c>>, t)
          /\ UNCHANGED rt
      BY <1>4 DEF MonitorTick, MonitorSample, Goto
    <2>2. \A t \in Services, d \in Children : task'[Timer(t, d)] = task[Timer(t, d)]
      BY <1>0, <2>1 DEF Become
    <2>3. TimersKeepTheirService' /\ TimersHeld /\ NoNewBackoff
      BY <2>1, <2>2 DEF BackoffInv, TimersKeepTheirService, TimersHeld, NoNewBackoff, Timer
    <2> QED BY <1>1, <2>3, BackoffFrame DEF BackoffInv
  <1>5. CASE /\ ~\E code \in {"ok", "err"} : ExitRestart(s, c, code)
             /\ ~(TimerFires(s, c) \/ MonitorTick(s, c) \/ MonitorSample(s, c))
    <2>1. UNCHANGED task
      BY <1>5 DEF Background, WatcherStep, ChildDies, StopRequested,
         GracefullyStopped, ExitSuperseded, ExitWhileStopping, ExitFinal, CascadeExit
    <2>2. NoNewBackoff
      <3>1. CASE ChildDies(s, c) \/ StopRequested(s, c) \/ ExitSuperseded(s, c)
        BY <3>1 DEF ChildDies, StopRequested, ExitSuperseded, NoNewBackoff
      <3>2. CASE GracefullyStopped(s, c) \/ ExitWhileStopping(s, c)
        <4>1. rt' = rt \/ rt' = [rt EXCEPT ![s] = Cleared(rt[s])]
          BY <1>0, <3>2 DEF GracefullyStopped, ExitWhileStopping
        <4>2. Cleared(rt[s]).state = "Stopped"
          BY <1>0 DEF Cleared, RuntimeType
        <4> QED BY <1>0, <4>1, <4>2 DEF NoNewBackoff
      <3>3. CASE \E code \in {"ok", "err"} : ExitFinal(s, c, code)
        <4>1. \E st \in {"Stopped", "Failed"} :
                 rt' = [rt EXCEPT ![s] = [Cleared(rt[s]) EXCEPT !.state = st]]
          BY <3>3 DEF ExitFinal
        <4>2. \A st \in {"Stopped", "Failed"} :
                 [Cleared(rt[s]) EXCEPT !.state = st].state = st
          BY <1>0 DEF Cleared, RuntimeType
        <4> QED BY <1>0, <4>1, <4>2 DEF NoNewBackoff
      <3>4. CASE CascadeExit(s, c)
        BY <1>0, <3>4 DEF CascadeExit, Cascade, NoNewBackoff, RuntimeType
      <3> QED BY <1>5, <3>1, <3>2, <3>3, <3>4 DEF Background, WatcherStep
    <2>3. TimersKeepTheirService' /\ TimersHeld
      BY <2>1 DEF BackoffInv, TimersKeepTheirService, TimersHeld
    <2> QED BY <1>1, <2>2, <2>3, BackoffFrame DEF BackoffInv
  <1> QED BY <1>2, <1>3, <1>4, <1>5

\* The back-off part of the invariant is inductive.
LEMMA BackoffStep == Typing /\ ChildInv /\ BackoffInv /\ [Next]_vars => BackoffInv'
  <1> SUFFICES ASSUME Typing, ChildInv, BackoffInv, [Next]_vars PROVE BackoffInv'
    OBVIOUS
  <1>1. ASSUME NEW a \in Callers, Call(a)
        PROVE  BackoffInv'
    <2>1. (\E t : Become(a, t)) /\ UNCHANGED <<rt, child>>
      BY <1>1 DEF Call, Start, Stop, Restart, ShutdownAll
    <2>2. \A t \in Services, d \in Children : Timer(t, d) # a
      <3>1. \A t \in Services, d \in Children :
               Timer(t, d) \in {"respawn", "single"} \X Services \X (1..MaxSpawns)
        BY DEF Timer, Children
      <3> QED BY <3>1, SupervisorAssumption
    <2>3. \A t \in Services, d \in Children : task'[Timer(t, d)] = task[Timer(t, d)]
      BY <2>1, <2>2 DEF Become, Typing, TypeOK, Tasks, Timers, Timer
    <2>4. TimersKeepTheirService' /\ TimersHeld /\ NoNewBackoff /\ GensKept
      BY <2>1, <2>3 DEF BackoffInv, TimersKeepTheirService, TimersHeld,
         NoNewBackoff, GensKept, Timer
    <2> QED BY <2>4, BackoffFrame DEF BackoffInv
  <1>2. CASE UNCHANGED vars
    <2>1. TimersKeepTheirService' /\ TimersHeld /\ NoNewBackoff /\ GensKept
      BY <1>2 DEF vars, BackoffInv, TimersKeepTheirService, TimersHeld,
         NoNewBackoff, GensKept
    <2> QED BY <2>1, BackoffFrame DEF BackoffInv
  <1> QED BY <1>1, <1>2, TaskBackoffStep, BackgroundBackoffStep DEF Next, Background
-----------------------------------------------------------------------------
\* The invariant holds initially: nothing has been created.
LEMMA InitSafe == Init => SupervisorInv
  <1> SUFFICES ASSUME Init PROVE SupervisorInv
    OBVIOUS
  <1>1. /\ \A s \in Services : rt[s] = FreshRuntime /\ spawned[s] = 0
        /\ \A s \in Services, c \in Children : child[s][c] = FreshChild
        /\ \A a \in Tasks : task[a] = Idle
        /\ \A s \in Services, c \in Children : <<"respawn", s, c>> \in Tasks
    BY DEF Init, Tasks, Timers
  <1>2. SlotsInOrder
    BY <1>1 DEF SlotsInOrder, FreshChild, Children
  <1>3. HeldByOne
    BY <1>1 DEF HeldByOne, At, Idle
  <1>4. GenerationsDiffer
    BY <1>1 DEF GenerationsDiffer, FreshChild, FreshRuntime
  <1>5. StopChannelLive /\ RunningIsSupervised /\ BackoffHasTimer
    BY <1>1 DEF StopChannelLive, RunningIsSupervised, BackoffHasTimer, FreshRuntime
  <1>6. TimersKeepTheirService
    BY <1>1 DEF TimersKeepTheirService, Idle
  <1> QED BY <1>2, <1>3, <1>4, <1>5, <1>6 DEF SupervisorInv

\* The invariant holds in every reachable state, for every set of services and
\* callers, every policy and every number of processes.
THEOREM SupervisorSafe == Spec => []SupervisorInv
  <1>1. Init => Typing /\ SupervisorInv
    BY InitTyped, InitSafe
  <1>2. Typing /\ SupervisorInv /\ [Next]_vars => Typing' /\ SupervisorInv'
    BY NextTyped, ChildInvStep, SupervisedStep, BackoffStep
       DEF SupervisorInv, ChildInv, SupervisedInv, BackoffInv
  <1> QED BY <1>1, <1>2, PTL DEF Spec

\* The supervisor never reports Running a service whose process nobody watches
\* or nobody can stop, however starts, stops, exits and time-outs interleave.
THEOREM RunningStaysSupervised == Spec => []RunningIsSupervised
  <1>1. SupervisorInv => RunningIsSupervised
    BY DEF SupervisorInv
  <1> QED BY <1>1, SupervisorSafe, PTL

\* A back-off is never forgotten: its timer is there until the back-off ends.
THEOREM BackoffKeepsTimer == Spec => []BackoffHasTimer
  <1>1. SupervisorInv => BackoffHasTimer
    BY DEF SupervisorInv
  <1> QED BY <1>1, SupervisorSafe, PTL

\* The generation of spawn_and_watch names at most one process of a service.
THEOREM GenerationsNameOneChild == Spec => []GenerationsDiffer
  <1>1. SupervisorInv => GenerationsDiffer
    BY DEF SupervisorInv
  <1> QED BY <1>1, SupervisorSafe, PTL
=============================================================================
