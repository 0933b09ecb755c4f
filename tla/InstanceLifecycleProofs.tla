------------------------ MODULE InstanceLifecycleProofs ------------------------
(***************************************************************************)
(* Proofs about InstanceLifecycle, for every set of callers and timers and *)
(* every budget of calls, exits, faults and deaths of init.                *)
(***************************************************************************)
EXTENDS InstanceLifecycle, FiniteSetTheorems, TLAPS

\* The records every operation starts from are well-typed.
LEMMA FreshTyped ==
    /\ Idle \in TaskType
    /\ FreshHandle \in HandleType
    /\ NoEntry \in EntryType
    /\ NoProc \in ProcType
    /\ None \in 0..MaxHandles /\ None \in 0..MaxProcs
    /\ Handles \subseteq 0..MaxHandles /\ Procs \subseteq 0..MaxProcs
  <1>1. None \in 0..MaxHandles /\ None \in 0..MaxProcs
    BY LifecycleAssumption DEF None
  <1>2. Handles \subseteq 0..MaxHandles /\ Procs \subseteq 0..MaxProcs
    BY LifecycleAssumption DEF Handles, Procs
  <1>3. Idle \in TaskType
    BY <1>1 DEF Idle, TaskType, Points
  <1>4. FreshHandle \in HandleType
    BY <1>1 DEF FreshHandle, HandleType
  <1>5. NoEntry \in EntryType /\ NoProc \in ProcType
    BY <1>1 DEF NoEntry, EntryType, NoProc, ProcType
  <1> QED BY <1>1, <1>2, <1>3, <1>4, <1>5

\* Whatever is published, the bus stays within its capacity.
LEMMA PublishTyped ==
    ASSUME NEW b \in BusType, Len(b.queue) <= BusCap, NEW status \in Statuses
    PROVE  Publish(b, status) \in BusType /\ Len(Publish(b, status).queue) <= BusCap
  <1>0. BusCap \in Nat \ {0} /\ b.queue \in Seq(Statuses)
    BY LifecycleAssumption DEF BusType
  <1>1. CASE Len(b.queue) < BusCap
    <2>1. Append(b.queue, status) \in Seq(Statuses)
          /\ Len(Append(b.queue, status)) <= BusCap
      BY <1>0, <1>1
    <2> QED BY <1>1, <2>1 DEF Publish, BusType
  <1>2. CASE ~(Len(b.queue) < BusCap)
    <2>1. Tail(b.queue) \in Seq(Statuses) /\ Len(Tail(b.queue)) = Len(b.queue) - 1
      BY <1>0, <1>2
    <2>2. Append(Tail(b.queue), status) \in Seq(Statuses)
          /\ Len(Append(Tail(b.queue), status)) <= BusCap
      BY <1>0, <2>1
    <2> QED BY <1>2, <2>2 DEF Publish, BusType
  <1> QED BY <1>1, <1>2

\* Dropping handles keeps the others.
LEMMA DroppedTyped ==
    ASSUME TypeOK, NEW hs
    PROVE  Dropped(hs) \in [Handles -> HandleType]
  BY FreshTyped DEF TypeOK, Dropped

\* A push adds a status to queues.
LEMMA PushedTyped ==
    ASSUME TypeOK, NEW p, NEW status \in Statuses
    PROVE  Pushed(p, status) \in [Handles -> HandleType]
  <1> SUFFICES ASSUME NEW h \in Handles
               PROVE  [hdl[h] EXCEPT !.queue = Append(@, status)] \in HandleType
    BY DEF TypeOK, Pushed
  <1>1. hdl[h] \in HandleType
    BY DEF TypeOK
  <1>2. Append(hdl[h].queue, status) \in Seq(Statuses)
    BY <1>1 DEF HandleType
  <1> QED BY <1>1, <1>2 DEF HandleType

\* A task that becomes a well-formed record keeps the tasks well-typed.
LEMMA BecomeTyped ==
    ASSUME TypeOK, NEW a \in Tasks, NEW t \in TaskType, Become(a, t)
    PROVE  task' \in [Tasks -> TaskType]
  BY DEF TypeOK, Become

\* So does a task that only changes its point.
LEMMA GotoTyped ==
    ASSUME TypeOK, NEW a \in Tasks, NEW p \in Points, Goto(a, p)
    PROVE  task' \in [Tasks -> TaskType]
  <1>1. [task[a] EXCEPT !.pc = p] \in TaskType
    BY DEF TypeOK, TaskType
  <1> QED BY <1>1, BecomeTyped DEF Goto

\* A task that begins anew at a point is well-formed.
LEMMA AnewTyped ==
    ASSUME NEW p \in Points
    PROVE  [Idle EXCEPT !.pc = p] \in TaskType
  BY FreshTyped DEF TaskType

\* A bounded event uses up its budget.
LEMMA SpendTyped ==
    ASSUME TypeOK, NEW kind \in Kinds, Spend(kind)
    PROVE  left' \in [Kinds -> Nat]
  <1>1. left \in [Kinds -> Nat] /\ left[kind] > 0
    BY DEF TypeOK, Spend
  <1>2. left[kind] - 1 \in Nat
    BY <1>1
  <1> QED BY <1>1, <1>2 DEF Spend

\* A record of control keeps its type under each of the changes made to it.
LEMMA RecordTyped ==
    ASSUME TypeOK, NEW status \in Statuses, NEW wish \in BOOLEAN
    PROVE  /\ [inst EXCEPT !.desired = wish] \in InstanceType
           /\ [inst EXCEPT !.desired = wish, !.status = status] \in InstanceType
           /\ [inst EXCEPT !.status = status, !.desired = wish] \in InstanceType
           /\ Stopping(inst) \in InstanceType
           /\ [Stopping(inst) EXCEPT !.handle = None] \in InstanceType
           /\ [Cleared(inst) EXCEPT !.status = status] \in InstanceType
           /\ [Cleared(Stopping(inst)) EXCEPT !.status = status] \in InstanceType
           /\ Applied(inst, status) \in InstanceType
  <1>1. inst \in InstanceType
    BY DEF TypeOK
  <1>2. "Stopping" \in Statuses
    BY DEF Statuses
  <1> QED BY <1>1, <1>2, FreshTyped DEF InstanceType, Stopping, Cleared, Applied

\* The initial state is well-typed.
LEMMA InitTyped == Init => TypeOK
  <1> SUFFICES ASSUME Init PROVE TypeOK
    OBVIOUS
  <1>1. inst \in InstanceType
    BY FreshTyped DEF Init, InstanceType, Statuses
  <1>2. hdl \in [Handles -> HandleType] /\ task \in [Tasks -> TaskType]
        /\ entry \in EntryType /\ proc \in [Procs -> ProcType]
    BY FreshTyped DEF Init
  <1>3. <<>> \in Seq(Statuses) /\ Len(<<>>) <= BusCap
    BY LifecycleAssumption
  <1>4. bus \in BusType /\ Len(bus.queue) <= BusCap
    BY <1>3 DEF Init, BusType
  <1>5. left \in [Kinds -> Nat]
    BY LifecycleAssumption DEF Init
  <1> QED BY <1>1, <1>2, <1>4, <1>5 DEF TypeOK

\* A new process is a well-typed one, with an entry.
LEMMA NewProcTyped ==
    ASSUME TypeOK, NEW p \in Procs, NewProc(p)
    PROVE  entry' \in EntryType /\ proc' \in [Procs -> ProcType]
  <1>1. entry' = [pid |-> p, taken |-> FALSE]
    BY DEF NewProc
  <1>2. entry' \in EntryType
    BY <1>1, FreshTyped DEF EntryType
  <1>3. [NoProc EXCEPT !.state = "new", !.watched = TRUE] \in ProcType
    BY FreshTyped DEF ProcType
  <1>4. proc' \in [Procs -> ProcType]
    BY <1>3 DEF NewProc, TypeOK
  <1> QED BY <1>2, <1>4

\* A handle for a process is a well-typed one.
LEMMA HandleOfTyped ==
    ASSUME NEW p \in 0..MaxProcs
    PROVE  HandleOf(p) \in HandleType
  BY DEF HandleOf, HandleType
-----------------------------------------------------------------------------
(* Type correctness, one lemma per group of actions.                       *)

\* A step of start_instance keeps the types.
LEMMA StartTyped ==
    ASSUME TypeOK, NEW a \in Tasks, StartStep(a)
    PROVE  TypeOK'
  <1>0. KnownPid \in 0..MaxProcs
    BY FreshTyped DEF KnownPid, TypeOK, InstanceType, HandleType, Handles, None
  <1>1. /\ [Idle EXCEPT !.pc = "probe", !.pid = KnownPid] \in TaskType
        /\ [Idle EXCEPT !.pc = "mark"] \in TaskType
    BY <1>0, FreshTyped DEF TaskType, Points
  <1>2. ASSUME Snapshot(a) PROVE task' \in [Tasks -> TaskType]
    BY <1>1, <1>2, BecomeTyped DEF Snapshot
  <1>3. CASE StartAgain(a)
    BY <1>2, <1>3 DEF StartAgain, NoRecord, NoInit, TypeOK
  <1>4. CASE StartProbe(a)
    <2>1. task' \in [Tasks -> TaskType]
      BY <1>1, <1>4, FreshTyped, BecomeTyped DEF StartProbe
    <2> QED BY <1>4, <2>1 DEF StartProbe, NoRecord, NoInit, TypeOK
  <1>5. CASE AlreadyUp(a)
    <2>1. task' \in [Tasks -> TaskType]
      BY <1>5, FreshTyped, BecomeTyped DEF AlreadyUp
    <2>2. inst' \in InstanceType
      BY <1>5, RecordTyped DEF AlreadyUp, Statuses
    <2> QED BY <1>5, <2>1, <2>2 DEF AlreadyUp, NoInit, TypeOK
  <1>6. CASE MarkStarting(a)
    <2>1. task' \in [Tasks -> TaskType]
      BY <1>6, GotoTyped DEF MarkStarting, Points
    <2>2. inst' \in InstanceType
      BY <1>6, RecordTyped DEF MarkStarting, Statuses
    <2>3. bus' \in BusType /\ Len(bus'.queue) <= BusCap
      BY <1>6, PublishTyped DEF MarkStarting, Statuses, TypeOK
    <2> QED BY <1>6, <2>1, <2>2, <2>3 DEF MarkStarting, NoInit, TypeOK
  <1>7. CASE NothingToRun(a)
    <2>1. task' \in [Tasks -> TaskType] /\ left' \in [Kinds -> Nat]
      BY <1>7, FreshTyped, BecomeTyped, SpendTyped DEF NothingToRun, Kinds
    <2>2. inst' \in InstanceType
      BY <1>7, RecordTyped DEF NothingToRun, Statuses
    <2> QED BY <1>7, <2>1, <2>2 DEF NothingToRun, NoInit, TypeOK
  <1>8. CASE JavaMissing(a)
    <2>1. task' \in [Tasks -> TaskType] /\ left' \in [Kinds -> Nat]
      BY <1>8, FreshTyped, BecomeTyped, SpendTyped DEF JavaMissing, Kinds
    <2>2. inst' \in InstanceType
      BY <1>8, RecordTyped DEF JavaMissing, Statuses
    <2> QED BY <1>8, <2>1, <2>2 DEF JavaMissing, NoInit, TypeOK
  <1>9. CASE Launch(a)
    <2>1. task' \in [Tasks -> TaskType]
      BY <1>9, FreshTyped, BecomeTyped DEF Launch
    <2>2. PICK p \in Procs, h \in Handles :
            /\ NewProc(p)
            /\ inst' = [inst EXCEPT !.handle = h, !.pid = p]
            /\ hdl' = [Dropped({inst.handle}) EXCEPT ![h] = HandleOf(p)]
      BY <1>9 DEF Launch
    <2>3. inst' \in InstanceType
      BY <2>2, FreshTyped DEF TypeOK, InstanceType
    <2>4. hdl' \in [Handles -> HandleType]
      BY <2>2, FreshTyped, HandleOfTyped, DroppedTyped
    <2> QED BY <1>9, <2>1, <2>2, <2>3, <2>4, NewProcTyped DEF Launch, TypeOK
  <1>10. CASE LaunchRefused(a)
    <2>1. task' \in [Tasks -> TaskType]
      BY <1>10, FreshTyped, BecomeTyped DEF LaunchRefused
    <2> QED BY <1>10, <2>1 DEF LaunchRefused, NoRecord, NoInit, TypeOK
  <1>11. CASE LaunchFails(a)
    <2>1. task' \in [Tasks -> TaskType] /\ left' \in [Kinds -> Nat]
      BY <1>11, FreshTyped, BecomeTyped, SpendTyped DEF LaunchFails, Kinds
    <2>2. entry' \in EntryType /\ proc' \in [Procs -> ProcType]
      BY <1>11, NewProcTyped DEF LaunchFails, NoInit, TypeOK
    <2> QED BY <1>11, <2>1, <2>2 DEF LaunchFails, NoRecord, TypeOK
  <1> QED BY <1>3, <1>4, <1>5, <1>6, <1>7, <1>8, <1>9, <1>10, <1>11 DEF StartStep

\* A step of stop_instance keeps the types.
LEMMA StopTyped ==
    ASSUME TypeOK, NEW a \in Tasks, StopStep(a)
    PROVE  TypeOK'
  <1>0. AfterStop(a) \in TaskType /\ Idle \in TaskType
    BY FreshTyped, AnewTyped DEF AfterStop, Points
  <1>1. CASE StopMarkedDown(a)
    <2>1. task' \in [Tasks -> TaskType]
      BY <1>0, <1>1, BecomeTyped DEF StopMarkedDown
    <2>2. inst' \in InstanceType
      BY <1>1, RecordTyped DEF StopMarkedDown, Statuses
    <2> QED BY <1>1, <2>1, <2>2 DEF StopMarkedDown, NoInit, TypeOK
  <1>2. CASE StopTakesHandle(a)
    <2>1. [task[a] EXCEPT !.pc = "rpc", !.handle = inst.handle] \in TaskType
      BY ZenonT(60) DEF TypeOK, TaskType, InstanceType, Points
    <2>2. task' \in [Tasks -> TaskType]
      BY <1>2, <2>1, BecomeTyped DEF StopTakesHandle
    <2>3. inst' \in InstanceType
      BY <1>2, RecordTyped DEF StopTakesHandle, Statuses
    <2>4. bus' \in BusType /\ Len(bus'.queue) <= BusCap
      BY <1>2, PublishTyped DEF StopTakesHandle, Statuses, TypeOK
    <2> QED BY <1>2, <2>2, <2>3, <2>4 DEF StopTakesHandle, NoInit, TypeOK
  <1>3. CASE StopNoHandle(a)
    <2>1. task' \in [Tasks -> TaskType]
      BY <1>0, <1>3, BecomeTyped DEF StopNoHandle
    <2>2. inst' \in InstanceType
      BY <1>3, RecordTyped DEF StopNoHandle, Statuses
    <2>3. "Stopping" \in Statuses /\ "Stopped" \in Statuses
      BY DEF Statuses
    <2>4. Publish(bus, "Stopping") \in BusType
          /\ Len(Publish(bus, "Stopping").queue) <= BusCap
      BY <2>3, PublishTyped DEF TypeOK
    <2>5. bus' \in BusType /\ Len(bus'.queue) <= BusCap
      BY <1>3, <2>3, <2>4, PublishTyped DEF StopNoHandle
    <2>6. left' \in [Kinds -> Nat]
      BY <1>3, SpendTyped DEF StopNoHandle, Kinds, TypeOK
    <2> QED BY <1>3, <2>1, <2>2, <2>5, <2>6 DEF StopNoHandle, NoInit, TypeOK
  <1>4. CASE \/ StopExpired(a) \/ StopDone(a) \/ StopUnconfirmed(a)
    <2>1. task' \in [Tasks -> TaskType]
      BY <1>4, GotoTyped DEF StopExpired, StopDone, StopUnconfirmed, Points
    <2>2. left' \in [Kinds -> Nat]
      BY <1>4, SpendTyped DEF StopExpired, StopDone, StopUnconfirmed, Kinds, TypeOK
    <2> QED BY <1>4, <2>1, <2>2
          DEF StopExpired, StopDone, StopUnconfirmed, NoRecord, NoInit, TypeOK
  <1>5. CASE StopSent(a)
    <2>1. task' \in [Tasks -> TaskType]
      BY <1>5, GotoTyped DEF StopSent, Points
    <2>2. entry' \in EntryType
      BY <1>5 DEF StopSent, TypeOK, EntryType
    <2> QED BY <1>5, <2>1, <2>2 DEF StopSent, NoRecord, TypeOK
  <1>6. CASE PutBack(a)
    <2>1. task' \in [Tasks -> TaskType]
      BY <1>0, <1>6, BecomeTyped DEF PutBack
    <2>2. inst' \in InstanceType
      BY <1>6 DEF PutBack, TypeOK, InstanceType, TaskType
    <2>3. hdl' \in [Handles -> HandleType]
      BY <1>6, DroppedTyped DEF PutBack
    <2> QED BY <1>6, <2>1, <2>2, <2>3 DEF PutBack, NoInit, TypeOK
  <1>7. CASE StopFinal(a)
    <2>1. task' \in [Tasks -> TaskType]
      BY <1>0, <1>7, BecomeTyped DEF StopFinal
    <2>2. inst' \in InstanceType
      BY <1>7, RecordTyped DEF StopFinal, Statuses, TypeOK
    <2>3. hdl' \in [Handles -> HandleType]
      BY <1>7, DroppedTyped DEF StopFinal
    <2>4. bus' \in BusType /\ Len(bus'.queue) <= BusCap
      BY <1>7, PublishTyped DEF StopFinal, Statuses, TypeOK
    <2> QED BY <1>7, <2>1, <2>2, <2>3, <2>4 DEF StopFinal, NoInit, TypeOK
  <1> QED BY <1>1, <1>2, <1>3, <1>4, <1>5, <1>6, <1>7 DEF StopStep

\* A step of recover_stuck_stopping and a failed call keep the types.
LEMMA RecoverTyped ==
    ASSUME TypeOK, NEW a \in Tasks, RecoverStep(a) \/ CallFails(a)
    PROVE  TypeOK'
  <1>0. KnownPid \in 0..MaxProcs /\ Idle \in TaskType
    BY FreshTyped DEF KnownPid, TypeOK, InstanceType, HandleType, Handles, None
  <1>1. CASE RecoverRead(a)
    <2>1. [Idle EXCEPT !.pc = "reprobe", !.pid = KnownPid] \in TaskType
      BY <1>0 DEF TaskType, Points
    <2>2. task' \in [Tasks -> TaskType]
      BY <1>0, <1>1, <2>1, BecomeTyped DEF RecoverRead
    <2> QED BY <1>1, <2>2 DEF RecoverRead, NoRecord, NoInit, TypeOK
  <1>2. CASE RecoverProbe(a)
    <2>1. task' \in [Tasks -> TaskType]
      BY <1>0, <1>2, AnewTyped, BecomeTyped DEF RecoverProbe, Points
    <2> QED BY <1>2, <2>1 DEF RecoverProbe, NoRecord, NoInit, TypeOK
  <1>3. CASE RecoverClear(a)
    <2>1. task' \in [Tasks -> TaskType]
      BY <1>0, <1>3, BecomeTyped, GotoTyped DEF RecoverClear, Points
    <2>2. inst' \in InstanceType
      BY <1>3, RecordTyped DEF RecoverClear, Statuses, TypeOK
    <2>3. hdl' \in [Handles -> HandleType]
      BY <1>3, DroppedTyped DEF RecoverClear, TypeOK
    <2> QED BY <1>3, <2>1, <2>2, <2>3 DEF RecoverClear, NoInit, TypeOK
  <1>4. CASE RecoverPublish(a)
    <2>1. task' \in [Tasks -> TaskType]
      BY <1>0, <1>4, BecomeTyped DEF RecoverPublish
    <2>2. bus' \in BusType /\ Len(bus'.queue) <= BusCap
      BY <1>4, PublishTyped DEF RecoverPublish, Statuses, TypeOK
    <2> QED BY <1>4, <2>1, <2>2 DEF RecoverPublish, NoInit, TypeOK
  <1>5. CASE CallFails(a)
    <2>1. OnError[task[a].pc] \in Points
      BY <1>5 DEF CallFails, OnError, Points
    <2>2. [task[a] EXCEPT !.pc = OnError[task[a].pc]] \in TaskType
      BY <2>1 DEF TypeOK, TaskType
    <2>3. [Idle EXCEPT !.pc = "decide"] \in TaskType
      BY AnewTyped DEF Points
    <2>4. task' \in [Tasks -> TaskType]
      BY <1>0, <1>5, <2>2, <2>3, BecomeTyped DEF CallFails
    <2>5. left' \in [Kinds -> Nat]
      BY <1>5, SpendTyped DEF CallFails, Kinds
    <2> QED BY <1>5, <2>4, <2>5 DEF CallFails, NoRecord, NoInit, TypeOK
  <1> QED BY <1>1, <1>2, <1>3, <1>4, <1>5 DEF RecoverStep

\* A new call keeps the types.
LEMMA CallTyped ==
    ASSUME TypeOK, NEW a \in Callers, Start(a) \/ Stop(a) \/ Restart(a)
    PROVE  TypeOK'
  <1>0. a \in Tasks
    BY DEF Tasks
  <1>1. KnownPid \in 0..MaxProcs
    BY FreshTyped DEF KnownPid, TypeOK, InstanceType, HandleType, Handles, None
  <1>2. /\ [Idle EXCEPT !.pc = "probe", !.pid = KnownPid] \in TaskType
        /\ [Idle EXCEPT !.pc = "mark"] \in TaskType
        /\ [Idle EXCEPT !.pc = "stop", !.again = TRUE] \in TaskType
    BY <1>1, FreshTyped DEF TaskType, Points
  <1>3. task' \in [Tasks -> TaskType]
    BY <1>0, <1>2, BecomeTyped, GotoTyped DEF Start, Snapshot, Stop, Restart, Points
  <1>4. left' \in [Kinds -> Nat]
    BY SpendTyped DEF Start, Stop, Restart, Kinds
  <1> QED BY <1>3, <1>4 DEF Start, Stop, Restart, NoRecord, NoInit, TypeOK

\* A step of the reconciler keeps the types.
LEMMA ReconcilerTyped ==
    ASSUME TypeOK, ReconcilerStep
    PROVE  TypeOK'
  <1> DEFINE t == task[Reconciler]
  <1>0. Reconciler \in Tasks /\ t \in TaskType /\ Idle \in TaskType
    BY FreshTyped DEF Tasks, TypeOK
  <1>1. CASE Tick
    <2>1. [Idle EXCEPT !.pc = "lookup", !.pid = inst.pid] \in TaskType
          /\ [Idle EXCEPT !.pc = "decide"] \in TaskType
      BY <1>0 DEF TaskType, Points, TypeOK, InstanceType
    <2>2. task' \in [Tasks -> TaskType]
      BY <1>0, <1>1, <2>1, BecomeTyped DEF Tick
    <2>3. left' \in [Kinds -> Nat]
      BY <1>1, SpendTyped DEF Tick, Kinds, TypeOK
    <2> QED BY <1>1, <2>2, <2>3 DEF Tick, NoRecord, NoInit, TypeOK
  <1>2. CASE Lookup
    <2>1. [t EXCEPT !.pc = "alive", !.owned = entry.pid # None,
             !.pid = IF entry.pid # None THEN entry.pid ELSE @] \in TaskType
      BY <1>0 DEF TaskType, Points, TypeOK, EntryType
    <2>2. task' \in [Tasks -> TaskType]
      BY <1>0, <1>2, <2>1, BecomeTyped DEF Lookup
    <2> QED BY <1>2, <2>2 DEF Lookup, NoRecord, NoInit, TypeOK
  <1>3. CASE CheckAlive
    <2>1. [t EXCEPT !.pc = "adopt", !.alive = Alive(t.pid)] \in TaskType
      BY <1>0 DEF TaskType, Points, Alive
    <2>2. task' \in [Tasks -> TaskType]
      BY <1>0, <1>3, <2>1, BecomeTyped DEF CheckAlive
    <2> QED BY <1>3, <2>2 DEF CheckAlive, NoRecord, NoInit, TypeOK
  <1>4. CASE Adopt
    <2>1. PICK h \in Handles :
            /\ hdl' = [hdl EXCEPT ![h] = HandleOf(t.pid)]
            /\ Become(Reconciler, [t EXCEPT !.pc = "settle", !.handle = h])
      BY <1>4 DEF Adopt
    <2>2. t.pid \in 0..MaxProcs
      BY <1>0 DEF TaskType
    <2>3. hdl' \in [Handles -> HandleType]
      BY <2>1, <2>2, HandleOfTyped DEF TypeOK
    <2>4. [t EXCEPT !.pc = "settle", !.handle = h] \in TaskType
      BY <1>0, FreshTyped DEF TaskType, Points
    <2>5. task' \in [Tasks -> TaskType]
      BY <1>0, <2>1, <2>4, BecomeTyped
    <2>6. [NoProc EXCEPT !.state = "new", !.watched = TRUE, !.adopted = TRUE]
            \in ProcType
      BY FreshTyped DEF ProcType
    <2>7. \/ UNCHANGED <<entry, proc>>
          \/ /\ entry' = [pid |-> t.pid, taken |-> FALSE]
             /\ proc' = [proc EXCEPT ![t.pid] = [NoProc EXCEPT !.state = "new",
                             !.watched = TRUE, !.adopted = TRUE]]
      BY <1>4 DEF Adopt, NoInit
    <2>8. entry' \in EntryType
      <3>1. [pid |-> t.pid, taken |-> FALSE] \in EntryType
        BY <2>2 DEF EntryType
      <3> QED BY <2>7, <3>1 DEF TypeOK
    <2>9. proc' \in [Procs -> ProcType]
      BY <2>6, <2>7 DEF TypeOK
    <2> QED BY <1>4, <2>3, <2>5, <2>8, <2>9 DEF Adopt, TypeOK
  <1>5. CASE NotAdopted
    <2>1. task' \in [Tasks -> TaskType]
      BY <1>0, <1>5, GotoTyped DEF NotAdopted, Points
    <2> QED BY <1>5, <2>1 DEF NotAdopted, NoRecord, NoInit, TypeOK
  <1>6. CASE Settle
    <2>1. task' \in [Tasks -> TaskType]
      BY <1>0, <1>6, AnewTyped, BecomeTyped DEF Settle, Points
    <2>2. CASE t.handle # None
      <3>1. t.handle \in Handles /\ hdl[t.handle] \in HandleType
        BY <1>0, <2>2 DEF TaskType, TypeOK, Handles, None
      <3>2. inst' \in InstanceType
        BY <1>0, <1>6, <2>2, <3>1
           DEF Settle, TypeOK, InstanceType, TaskType, HandleType, Statuses
      <3> QED BY <1>6, <2>1, <2>2, <3>2, DroppedTyped DEF Settle, NoInit, TypeOK
    <2>3. CASE t.handle = None
      <3>1. inst' \in InstanceType
        BY <1>6, <2>3, RecordTyped DEF Settle, Statuses, TypeOK
      <3> QED BY <1>6, <2>1, <2>3, <3>1, DroppedTyped DEF Settle, NoInit, TypeOK
    <2> QED BY <2>2, <2>3
  <1>7. CASE Decide
    <2>1. task' \in [Tasks -> TaskType]
      BY <1>0, <1>7, AnewTyped, BecomeTyped DEF Decide, Points
    <2> QED BY <1>7, <2>1 DEF Decide, NoRecord, NoInit, TypeOK
  <1> QED BY <1>1, <1>2, <1>3, <1>4, <1>5, <1>6, <1>7 DEF ReconcilerStep

\* A step of the event applier, of a timer or of a relay keeps the types.
LEMMA EventTyped ==
    ASSUME TypeOK,
           \/ ApplierStep
           \/ \E t \in Timers : TimerFires(t)
           \/ \E h \in Handles : RelayForwards(h)
    PROVE  TypeOK'
  <1>0. Applier \in Tasks /\ Timers \subseteq Tasks
    BY DEF Tasks
  <1>1. CASE ApplyEvent
    <2>1. Head(bus.queue) \in Statuses /\ Tail(bus.queue) \in Seq(Statuses)
          /\ Len(Tail(bus.queue)) <= BusCap
      BY <1>1, LifecycleAssumption DEF ApplyEvent, TypeOK, BusType
    <2>2. bus' \in BusType /\ Len(bus'.queue) <= BusCap
      BY <1>1, <2>1 DEF ApplyEvent, TypeOK, BusType
    <2>3. inst' \in InstanceType
      BY <1>1, <2>1, RecordTyped DEF ApplyEvent, TypeOK
    <2>4. hdl' \in [Handles -> HandleType]
      BY <1>1, DroppedTyped DEF ApplyEvent, TypeOK
    <2>5. task' \in [Tasks -> TaskType]
      BY <1>0, <1>1, GotoTyped DEF ApplyEvent, TypeOK, Points
    <2> QED BY <1>1, <2>2, <2>3, <2>4, <2>5 DEF ApplyEvent, NoInit, TypeOK
  <1>2. CASE ApplierLagged
    <2>1. task' \in [Tasks -> TaskType]
      BY <1>0, <1>2, GotoTyped DEF ApplierLagged, Points
    <2>2. bus' \in BusType /\ Len(bus'.queue) <= BusCap
      BY <1>2 DEF ApplierLagged, TypeOK, BusType
    <2> QED BY <1>2, <2>1, <2>2 DEF ApplierLagged, NoInit, TypeOK
  <1>3. ASSUME NEW t \in Timers, TimerFires(t) PROVE TypeOK'
    <2>1. task' \in [Tasks -> TaskType]
      BY <1>0, <1>3, GotoTyped DEF TimerFires, Points
    <2> QED BY <1>3, <2>1 DEF TimerFires, NoRecord, NoInit, TypeOK
  <1>4. ASSUME NEW h \in Handles, RelayForwards(h) PROVE TypeOK'
    <2>1. hdl[h] \in HandleType /\ hdl[h].queue # <<>>
      BY <1>4 DEF TypeOK, RelayForwards
    <2>2. Head(hdl[h].queue) \in Statuses /\ Tail(hdl[h].queue) \in Seq(Statuses)
      BY <2>1 DEF HandleType
    <2>3. bus' \in BusType /\ Len(bus'.queue) <= BusCap
      BY <1>4, <2>2, PublishTyped DEF RelayForwards, TypeOK
    <2>4. hdl' \in [Handles -> HandleType]
      BY <1>4, <2>1, <2>2 DEF RelayForwards, TypeOK, HandleType
    <2> QED BY <1>4, <2>3, <2>4 DEF RelayForwards, NoInit, TypeOK
  <1> QED BY <1>1, <1>2, <1>3, <1>4 DEF ApplierStep

\* A step of a process, or the death of init, keeps the types.
LEMMA InitSideTyped ==
    ASSUME TypeOK, InitRestarts \/ \E p \in Procs : ProcStep(p)
    PROVE  TypeOK'
  <1>1. CASE InitRestarts
    <2>1. left' \in [Kinds -> Nat]
      BY <1>1, SpendTyped DEF InitRestarts, Kinds
    <2>2. /\ NoProc \in ProcType
          /\ [NoProc EXCEPT !.state = "stopping"] \in ProcType
          /\ [NoProc EXCEPT !.state = "up"] \in ProcType
      BY DEF NoProc, ProcType
    <2>5. proc' \in [Procs -> ProcType]
      BY <1>1, <2>2 DEF InitRestarts
    <2>3. \A h \in Handles :
            [hdl[h] EXCEPT !.queue = <<>>, !.live = FALSE, !.bound = FALSE]
              \in HandleType
      <3>1. <<>> \in Seq(Statuses)
        OBVIOUS
      <3> QED BY <3>1 DEF TypeOK, HandleType
    <2>4. hdl' \in [Handles -> HandleType]
      BY <1>1, <2>3, FreshTyped DEF InitRestarts
    <2> QED BY <1>1, <2>1, <2>4, <2>5, FreshTyped DEF InitRestarts, TypeOK
  <1>2. ASSUME NEW p \in Procs, ProcStep(p) PROVE TypeOK'
    <2>0. proc[p] \in ProcType
      BY DEF TypeOK
    <2>1. CASE Announces(p)
      <3>1. proc' \in [Procs -> ProcType]
        BY <2>0, <2>1 DEF Announces, TypeOK, ProcType
      <3>2. hdl' \in [Handles -> HandleType]
        BY <2>1, PushedTyped DEF Announces, Statuses
      <3> QED BY <2>1, <3>1, <3>2 DEF Announces, TypeOK
    <2>2. CASE StopReceived(p)
      <3>1. proc' \in [Procs -> ProcType]
        BY <2>0, <2>2 DEF StopReceived, TypeOK, ProcType
      <3> QED BY <2>2, <3>1 DEF StopReceived, NoRecord, TypeOK
    <2>3. ASSUME NEW code \in {"ok", "err"}, Exits(p, code) PROVE TypeOK'
      <3>1. proc' \in [Procs -> ProcType]
        BY <2>0, <2>3, FreshTyped DEF Exits, TypeOK, ProcType
      <3>2. left' \in [Kinds -> Nat]
        BY <2>3, SpendTyped DEF Exits, Kinds, TypeOK
      <3> QED BY <2>3, <3>1, <3>2 DEF Exits, NoRecord, TypeOK
    <2>4. CASE Reported(p)
      <3>1. proc' \in [Procs -> ProcType] /\ entry' \in EntryType
        BY <2>4, FreshTyped DEF Reported, TypeOK
      <3>2. hdl' \in [Handles -> HandleType]
        BY <2>4, PushedTyped DEF Reported, Statuses
      <3> QED BY <2>4, <3>1, <3>2 DEF Reported, TypeOK
    <2> QED BY <1>2, <2>1, <2>2, <2>3, <2>4 DEF ProcStep
  <1> QED BY <1>1, <1>2

\* Every step keeps the types.
LEMMA TypeStep == TypeOK /\ [Next]_vars => TypeOK'
  <1> SUFFICES ASSUME TypeOK, [Next]_vars PROVE TypeOK'
    OBVIOUS
  <1>1. CASE \E a \in Callers : Start(a) \/ Stop(a) \/ Restart(a)
    BY <1>1, CallTyped
  <1>2. CASE \E a \in Tasks : TaskStep(a)
    BY <1>2, StartTyped, StopTyped, RecoverTyped DEF TaskStep
  <1>3. CASE ReconcilerStep
    BY <1>3, ReconcilerTyped
  <1>4. CASE \/ ApplierStep
             \/ \E t \in Timers : TimerFires(t)
             \/ \E h \in Handles : RelayForwards(h)
    BY <1>4, EventTyped
  <1>5. CASE InitRestarts \/ \E p \in Procs : ProcStep(p)
    BY <1>5, InitSideTyped
  <1>6. CASE UNCHANGED vars
    BY <1>6 DEF vars, TypeOK
  <1> QED BY <1>1, <1>2, <1>3, <1>4, <1>5, <1>6 DEF Next

\* TypeOK holds in every reachable state: no operation of control or init, in
\* whatever order, takes a record, a handle or the bus out of its type.
THEOREM LifecycleTyped == Spec => []TypeOK
  <1> QED BY InitTyped, TypeStep, PTL DEF Spec

-----------------------------------------------------------------------------
(* LifecycleInv is inductive, and gives the three safety properties of an   *)
(* instance: what init watches has its entry, there is at most one server    *)
(* process while init lives, and a stop through its handle sees the end.     *)

\* Steps that leave init alone: its entry, its processes and its life.
InitKept == NoInit /\ left'["inits"] = left["inits"]

\* The steps of control that call no launch and no stop of init.
QuietTaskStep(a) ==
    \/ StartAgain(a) \/ StartProbe(a) \/ AlreadyUp(a) \/ MarkStarting(a)
    \/ NothingToRun(a) \/ JavaMissing(a) \/ LaunchRefused(a)
    \/ StopMarkedDown(a) \/ StopTakesHandle(a) \/ StopNoHandle(a)
    \/ StopExpired(a) \/ StopDone(a) \/ StopUnconfirmed(a)
    \/ PutBack(a) \/ StopFinal(a)
    \/ RecoverStep(a) \/ CallFails(a)

QuietStep ==
    \/ \E a \in Callers : Start(a) \/ Stop(a) \/ Restart(a)
    \/ \E a \in Tasks : QuietTaskStep(a)
    \/ Tick \/ Lookup \/ CheckAlive \/ NotAdopted \/ Settle \/ Decide
    \/ ApplierStep
    \/ \E t \in Timers : TimerFires(t)
    \/ \E h \in Handles : RelayForwards(h)

\* Every step is a quiet one or one of those that reach into init.
LEMMA StepSplit ==
    ASSUME [Next]_vars
    PROVE  \/ QuietStep
           \/ \E a \in Tasks : Launch(a) \/ LaunchFails(a) \/ StopSent(a)
           \/ Adopt
           \/ \E p \in Procs : ProcStep(p)
           \/ InitRestarts
           \/ UNCHANGED vars
  BY DEF Next, TaskStep, StartStep, StopStep, ReconcilerStep, QuietStep,
         QuietTaskStep

\* Only the death of init counts as one.
LEMMA SpendOther ==
    ASSUME TypeOK, NEW kind \in Kinds, kind # "inits", Spend(kind)
    PROVE  left'["inits"] = left["inits"]
  <1>1. left \in [Kinds -> Nat] /\ "inits" \in Kinds
    BY DEF TypeOK, Kinds
  <1> QED BY <1>1 DEF Spend

\* A quiet step leaves init alone.
LEMMA QuietKeepsInit ==
    ASSUME TypeOK, QuietStep
    PROVE  InitKept
  <1>1. CASE \E a \in Callers : Start(a) \/ Stop(a) \/ Restart(a)
    BY <1>1, SpendOther DEF Start, Stop, Restart, Kinds, InitKept
  <1>2. ASSUME NEW a \in Tasks, QuietTaskStep(a) PROVE InitKept
    <2>1. CASE \/ StartAgain(a) \/ StartProbe(a) \/ AlreadyUp(a) \/ MarkStarting(a)
               \/ NothingToRun(a) \/ JavaMissing(a) \/ LaunchRefused(a)
      BY <2>1, SpendOther
         DEF StartAgain, StartProbe, AlreadyUp, MarkStarting, NothingToRun,
             JavaMissing, LaunchRefused, Kinds, InitKept
    <2>2. CASE \/ StopMarkedDown(a) \/ StopTakesHandle(a) \/ StopNoHandle(a)
               \/ StopExpired(a) \/ StopDone(a) \/ StopUnconfirmed(a)
               \/ PutBack(a) \/ StopFinal(a)
      BY <2>2, SpendOther
         DEF StopMarkedDown, StopTakesHandle, StopNoHandle, StopExpired, StopDone,
             StopUnconfirmed, PutBack, StopFinal, Kinds, InitKept
    <2>3. CASE RecoverStep(a) \/ CallFails(a)
      BY <2>3, SpendOther
         DEF RecoverStep, RecoverRead, RecoverProbe, RecoverClear, RecoverPublish,
             CallFails, Kinds, InitKept
    <2> QED BY <1>2, <2>1, <2>2, <2>3 DEF QuietTaskStep
  <1>3. CASE Tick \/ Lookup \/ CheckAlive \/ NotAdopted \/ Settle \/ Decide
    BY <1>3, SpendOther
       DEF Tick, Lookup, CheckAlive, NotAdopted, Settle, Decide, Kinds, InitKept
  <1>4. CASE \/ ApplierStep
             \/ \E t \in Timers : TimerFires(t)
             \/ \E h \in Handles : RelayForwards(h)
    BY <1>4 DEF ApplierStep, ApplyEvent, ApplierLagged, TimerFires, RelayForwards,
                InitKept
  <1> QED BY <1>1, <1>2, <1>3, <1>4 DEF QuietStep
-----------------------------------------------------------------------------
(* The entry of init and the processes it supervises.                      *)

EntryInv == WatchedHasEntry /\ OnlyWatched

\* A new process takes the entry; it did not have one to lose.
LEMMA NewProcKeepsEntry ==
    ASSUME TypeOK, EntryInv, NEW p \in Procs, NewProc(p), entry.pid = None,
           left'["inits"] = left["inits"]
    PROVE  EntryInv'
  <1>1. proc' = [proc EXCEPT ![p] = [NoProc EXCEPT !.state = "new", !.watched = TRUE]]
        /\ entry' = [pid |-> p, taken |-> FALSE]
    BY DEF NewProc
  <1>2. [NoProc EXCEPT !.state = "new", !.watched = TRUE].watched
    BY DEF NoProc
  <1>3. \A q \in Procs : q # None
    BY DEF Procs, None
  <1>4. WatchedHasEntry'
    BY <1>1, <1>3 DEF EntryInv, WatchedHasEntry, TypeOK
  <1>5. OnlyWatched'
    BY <1>1, <1>2 DEF EntryInv, OnlyWatched, TypeOK
  <1> QED BY <1>4, <1>5 DEF EntryInv

\* Every step keeps a watched process in its entry, and as long as init has not
\* died every process is watched.
LEMMA EntryStep ==
    ASSUME TypeOK, EntryInv, [Next]_vars
    PROVE  EntryInv'
  <1>0. \A q \in Procs : q # None
    BY DEF Procs, None
  <1>1. CASE QuietStep
    BY <1>1, QuietKeepsInit
       DEF InitKept, NoInit, EntryInv, WatchedHasEntry, OnlyWatched
  <1>2. ASSUME NEW a \in Tasks, Launch(a) PROVE EntryInv'
    BY <1>2, NewProcKeepsEntry DEF Launch, LaunchAdmitted
  <1>3. ASSUME NEW a \in Tasks, LaunchFails(a) PROVE EntryInv'
    <2>1. left'["inits"] = left["inits"] /\ entry.pid = None
      BY <1>3, SpendOther DEF LaunchFails, LaunchAdmitted, Kinds
    <2>2. CASE NoInit
      BY <2>1, <2>2 DEF NoInit, EntryInv, WatchedHasEntry, OnlyWatched
    <2>3. CASE \E p \in Procs : NewProc(p)
      BY <2>1, <2>3, NewProcKeepsEntry
    <2> QED BY <1>3, <2>2, <2>3 DEF LaunchFails
  <1>4. ASSUME NEW a \in Tasks, StopSent(a) PROVE EntryInv'
    <2>1. entry'.pid = entry.pid /\ UNCHANGED <<proc, left>>
      BY <1>4 DEF StopSent, TypeOK, EntryType
    <2> QED BY <2>1 DEF EntryInv, WatchedHasEntry, OnlyWatched
  <1>5. CASE Adopt
    <2> DEFINE p == task[Reconciler].pid
    <2>1. UNCHANGED left
      BY <1>5 DEF Adopt
    <2>2. CASE entry.pid = p
      <3>1. UNCHANGED <<entry, proc>>
        BY <1>5, <2>2 DEF Adopt, NoInit
      <3> QED BY <2>1, <3>1 DEF EntryInv, WatchedHasEntry, OnlyWatched
    <2>3. CASE entry.pid # p
      <3> DEFINE anew == [NoProc EXCEPT !.state = "new", !.watched = TRUE,
                                        !.adopted = TRUE]
      <3>1. entry' = [pid |-> p, taken |-> FALSE] /\ proc' = [proc EXCEPT ![p] = anew]
        BY <1>5, <2>3 DEF Adopt
      <3>2. entry.pid = None
        BY <1>5, <2>3 DEF Adopt, Adoptable
      <3>3. anew.watched
        BY DEF NoProc
      <3> HIDE DEF anew
      <3>4. WatchedHasEntry'
        BY <1>0, <3>1, <3>2 DEF EntryInv, WatchedHasEntry, TypeOK
      <3>5. OnlyWatched'
        BY <2>1, <3>1, <3>3 DEF EntryInv, OnlyWatched, TypeOK
      <3> QED BY <3>4, <3>5 DEF EntryInv
    <2> QED BY <2>2, <2>3
  <1>6. ASSUME NEW p \in Procs, ProcStep(p) PROVE EntryInv'
    <2>0. proc \in [Procs -> ProcType]
      BY DEF TypeOK
    <2>1. left'["inits"] = left["inits"]
      BY <1>6, SpendOther
         DEF ProcStep, Announces, StopReceived, Reported, Exits, Kinds
    <2>2. /\ \A q \in Procs : proc'[q].watched => proc[q].watched
          /\ \A q \in Procs : proc'[q].state # "none" =>
                proc[q].state # "none" /\ proc'[q].watched = proc[q].watched
      <3>1. CASE Announces(p)
        BY <2>0, <3>1 DEF Announces, ProcType
      <3>2. CASE StopReceived(p)
        BY <2>0, <3>2 DEF StopReceived, ProcType
      <3>3. CASE Reported(p)
        BY <2>0, <3>3 DEF Reported, NoProc
      <3>4. ASSUME NEW code \in {"ok", "err"}, Exits(p, code) PROVE <2>2!1 /\ <2>2!2
        <4>1. proc[p].state # "none"
          BY <3>4 DEF Exits
        <4>2. \/ proc' = [proc EXCEPT ![p].state = "exited", ![p].code = code]
              \/ proc' = [proc EXCEPT ![p] = NoProc]
          BY <3>4 DEF Exits
        <4> QED BY <2>0, <4>1, <4>2 DEF NoProc, ProcType
      <3> QED BY <1>6, <3>1, <3>2, <3>3, <3>4 DEF ProcStep
    <2>3. entry' = entry \/ (entry.pid = p /\ ~proc'[p].watched)
      <3>1. CASE Reported(p)
        <4>1. ~proc'[p].watched
          BY <2>0, <3>1 DEF Reported, NoProc
        <4> QED BY <3>1, <4>1 DEF Reported
      <3>2. CASE ~Reported(p)
        BY <1>6, <3>2 DEF ProcStep, Announces, StopReceived, Exits
      <3> QED BY <3>1, <3>2
    <2>4. WatchedHasEntry'
      BY <2>2, <2>3 DEF EntryInv, WatchedHasEntry
    <2>5. OnlyWatched'
      BY <2>1, <2>2 DEF EntryInv, OnlyWatched
    <2> QED BY <2>4, <2>5 DEF EntryInv
  <1>7. CASE InitRestarts
    <2>1. \A q \in Procs : ~proc'[q].watched
      BY <1>7 DEF InitRestarts, NoProc
    <2>2. left'["inits"] < Budget["inits"]
      <3>1. left \in [Kinds -> Nat] /\ "inits" \in Kinds /\ Budget["inits"] \in Nat
        BY LifecycleAssumption DEF TypeOK, Kinds
      <3>2. left["inits"] > 0 /\ left'["inits"] = left["inits"] - 1
        BY <1>7, <3>1 DEF InitRestarts, Spend
      <3> QED BY <3>1, <3>2 DEF EntryInv, OnlyWatched
    <2>3. left'["inits"] \in Nat /\ Budget["inits"] \in Nat
      BY LifecycleAssumption, TypeStep DEF TypeOK, Kinds
    <2> QED BY <2>1, <2>2, <2>3 DEF EntryInv, WatchedHasEntry, OnlyWatched
  <1>8. CASE UNCHANGED vars
    BY <1>8 DEF vars, EntryInv, WatchedHasEntry, OnlyWatched
  <1> QED BY <1>1, <1>2, <1>3, <1>4, <1>5, <1>6, <1>7, <1>8, StepSplit
-----------------------------------------------------------------------------
(* The terminal events of a handle.                                        *)

\* No handle learns of an end, and none that has changes its process.
NoNewEnd ==
    \A h \in Handles :
        Ended(h)' => hdl'[h].pid = None \/ (Ended(h) /\ hdl'[h].pid = hdl[h].pid)

\* No process that has ended, and that a handle still names, comes to life.
EndsStay ==
    \A h \in Handles :
        hdl[h].pid # None /\ proc[hdl[h].pid].state = "none" =>
            proc'[hdl[h].pid].state = "none"

\* Such a step keeps the terminal events true.
LEMMA EndFrame ==
    ASSUME EndIsReal, NoNewEnd, EndsStay
    PROVE  EndIsReal'
  BY DEF EndIsReal, NoNewEnd, EndsStay

\* Dropping handles teaches none of them an end.
LEMMA DroppedNoEnd ==
    ASSUME TypeOK, hdl' = hdl \/ \E hs : hdl' = Dropped(hs)
    PROVE  NoNewEnd
  <1>1. CASE hdl' = hdl
    BY <1>1 DEF NoNewEnd, Ended
  <1>2. ASSUME NEW hs, hdl' = Dropped(hs) PROVE NoNewEnd
    <2> SUFFICES ASSUME NEW h \in Handles
                 PROVE  hdl'[h] = FreshHandle \/ hdl'[h] = hdl[h]
      BY DEF NoNewEnd, Ended, FreshHandle
    <2> QED BY <1>2 DEF Dropped
  <1> QED BY <1>1, <1>2

\* A quiet step other than a relay's drops handles or leaves them alone.
LEMMA QuietHandles ==
    ASSUME QuietStep, ~ \E h \in Handles : RelayForwards(h)
    PROVE  hdl' = hdl \/ \E hs : hdl' = Dropped(hs)
  <1>1. CASE \E a \in Callers : Start(a) \/ Stop(a) \/ Restart(a)
    BY <1>1 DEF Start, Stop, Restart, NoRecord
  <1>2. ASSUME NEW a \in Tasks, QuietTaskStep(a)
        PROVE  hdl' = hdl \/ \E hs : hdl' = Dropped(hs)
    <2>1. CASE \/ StartAgain(a) \/ StartProbe(a) \/ AlreadyUp(a) \/ MarkStarting(a)
               \/ NothingToRun(a) \/ JavaMissing(a) \/ LaunchRefused(a)
      BY <2>1 DEF StartAgain, StartProbe, AlreadyUp, MarkStarting, NothingToRun,
                  JavaMissing, LaunchRefused, NoRecord
    <2>2. CASE \/ StopMarkedDown(a) \/ StopTakesHandle(a) \/ StopNoHandle(a)
               \/ StopExpired(a) \/ StopDone(a) \/ StopUnconfirmed(a)
      BY <2>2 DEF StopMarkedDown, StopTakesHandle, StopNoHandle, StopExpired,
                  StopDone, StopUnconfirmed, NoRecord
    <2>3. CASE PutBack(a) \/ StopFinal(a)
      BY <2>3 DEF PutBack, StopFinal
    <2>4. CASE RecoverStep(a) \/ CallFails(a)
      BY <2>4 DEF RecoverStep, RecoverRead, RecoverProbe, RecoverClear,
                  RecoverPublish, CallFails, NoRecord
    <2> QED BY <1>2, <2>1, <2>2, <2>3, <2>4 DEF QuietTaskStep
  <1>3. CASE Tick \/ Lookup \/ CheckAlive \/ NotAdopted \/ Settle \/ Decide
    BY <1>3 DEF Tick, Lookup, CheckAlive, NotAdopted, Settle, Decide, NoRecord
  <1>4. CASE ApplierStep \/ \E t \in Timers : TimerFires(t)
    BY <1>4 DEF ApplierStep, ApplyEvent, ApplierLagged, TimerFires, NoRecord
  <1> QED BY <1>1, <1>2, <1>3, <1>4 DEF QuietStep

\* A relay only moves on what its handle had received.
LEMMA RelayNoEnd ==
    ASSUME TypeOK, NEW h \in Handles, RelayForwards(h)
    PROVE  NoNewEnd
  <1> SUFFICES ASSUME NEW k \in Handles, Ended(k)'
               PROVE  Ended(k) /\ hdl'[k].pid = hdl[k].pid
    BY DEF NoNewEnd
  <1>1. hdl[h] \in HandleType /\ hdl[h].queue # <<>> /\ hdl[k] \in HandleType
    BY DEF TypeOK, RelayForwards
  <1>2. CASE k # h
    <2>1. hdl'[k] = hdl[k]
      BY <1>2 DEF RelayForwards, TypeOK
    <2> QED BY <2>1 DEF Ended
  <1>3. CASE k = h
    <2> DEFINE q == hdl[h].queue
    <2>1. q \in Seq(Statuses) /\ q # <<>>
      BY <1>1 DEF HandleType
    <2>2. /\ hdl'[h].pid = hdl[h].pid
          /\ hdl'[h].queue = Tail(q)
          /\ hdl'[h].terminal = (hdl[h].terminal \/ Head(q) \in Terminal)
      BY <1>1 DEF RelayForwards, TypeOK, HandleType
    <2> HIDE DEF q
    <2>3. /\ Head(q) = q[1] /\ 1 \in 1..Len(q)
          /\ \A i \in 1..Len(Tail(q)) : i + 1 \in 1..Len(q) /\ Tail(q)[i] = q[i + 1]
      BY <2>1
    <2>4. hdl[h].terminal \/ \E i \in 1..Len(q) : q[i] \in Terminal
      BY <1>3, <2>2, <2>3 DEF Ended
    <2> QED BY <1>3, <2>2, <2>4 DEF Ended, q
  <1> QED BY <1>2, <1>3

\* What is pushed about p is only received by handles of p.
LEMMA PushedEnds ==
    ASSUME TypeOK, NEW p, NEW status \in Statuses, hdl' = Pushed(p, status)
    PROVE  \A h \in Handles :
              /\ hdl'[h].pid = hdl[h].pid
              /\ Ended(h)' => Ended(h) \/ (hdl[h].pid = p /\ status \in Terminal)
  <1> SUFFICES ASSUME NEW h \in Handles
               PROVE  /\ hdl'[h].pid = hdl[h].pid
                      /\ Ended(h)' => Ended(h) \/ (hdl[h].pid = p /\ status \in Terminal)
    OBVIOUS
  <1>0. hdl[h] \in HandleType
    BY DEF TypeOK
  <1>1. CASE hdl[h].pid = p /\ hdl[h].live /\ hdl[h].bound
    <2> DEFINE q == hdl[h].queue
    <2>1. q \in Seq(Statuses)
      BY <1>0 DEF HandleType
    <2>2. hdl'[h] = [hdl[h] EXCEPT !.queue = Append(q, status)]
      BY <1>1 DEF Pushed
    <2>3. /\ hdl'[h].pid = hdl[h].pid
          /\ hdl'[h].queue = Append(q, status)
          /\ hdl'[h].terminal = hdl[h].terminal
      BY <1>0, <2>2 DEF HandleType
    <2> HIDE DEF q
    <2>4. \A i \in 1..Len(Append(q, status)) :
             \/ i \in 1..Len(q) /\ Append(q, status)[i] = q[i]
             \/ Append(q, status)[i] = status
      BY <2>1
    <2>5. Ended(h)' => \/ hdl[h].terminal
                       \/ \E i \in 1..Len(q) : q[i] \in Terminal
                       \/ status \in Terminal
      BY <2>3, <2>4 DEF Ended
    <2> QED BY <1>1, <2>3, <2>5 DEF Ended, q
  <1>2. CASE ~(hdl[h].pid = p /\ hdl[h].live /\ hdl[h].bound)
    BY <1>2 DEF Pushed, Ended
  <1> QED BY <1>1, <1>2

\* A handle made for p has no event yet.
LEMMA MadeNoEnd ==
    ASSUME TypeOK, NEW p, NEW h \in Handles, NEW hs,
           hdl' = [Dropped(hs) EXCEPT ![h] = HandleOf(p)]
    PROVE  NoNewEnd
  <1> SUFFICES ASSUME NEW k \in Handles
               PROVE  hdl'[k] \in {FreshHandle, HandleOf(p), hdl[k]}
    BY DEF NoNewEnd, Ended, FreshHandle, HandleOf
  <1> QED BY DEF Dropped

\* A new process has a number no handle names.
LEMMA NewProcEnds ==
    ASSUME TypeOK, NEW p \in Procs, NewProc(p)
    PROVE  EndsStay
  <1>1. \A h \in Handles : hdl[h].pid # p
    BY DEF NewProc, First, FreeProcs
  <1>2. \A h \in Handles : proc'[hdl[h].pid] = proc[hdl[h].pid]
    BY <1>1 DEF NewProc, TypeOK, HandleType, Procs, None
  <1> QED BY <1>2 DEF EndsStay

\* Every step keeps the terminal events true.
LEMMA EndStep ==
    ASSUME TypeOK, EndIsReal, [Next]_vars
    PROVE  EndIsReal'
  <1>1. CASE QuietStep
    <2>1. EndsStay
      BY <1>1, QuietKeepsInit DEF InitKept, NoInit, EndsStay
    <2>2. NoNewEnd
      BY <1>1, RelayNoEnd, QuietHandles, DroppedNoEnd
    <2> QED BY <2>1, <2>2, EndFrame
  <1>2. ASSUME NEW a \in Tasks, Launch(a) PROVE EndIsReal'
    <2>1. PICK p \in Procs, h \in Handles :
            /\ NewProc(p)
            /\ hdl' = [Dropped({inst.handle}) EXCEPT ![h] = HandleOf(p)]
      BY <1>2 DEF Launch
    <2> QED BY <2>1, MadeNoEnd, NewProcEnds, EndFrame
  <1>3. ASSUME NEW a \in Tasks, LaunchFails(a) PROVE EndIsReal'
    <2>1. NoNewEnd
      BY <1>3, DroppedNoEnd DEF LaunchFails, NoRecord
    <2>2. CASE NoInit
      BY <2>1, <2>2, EndFrame DEF NoInit, EndsStay
    <2>3. CASE \E p \in Procs : NewProc(p)
      BY <2>1, <2>3, NewProcEnds, EndFrame
    <2> QED BY <1>3, <2>2, <2>3 DEF LaunchFails
  <1>4. ASSUME NEW a \in Tasks, StopSent(a) PROVE EndIsReal'
    BY <1>4 DEF StopSent, NoRecord, EndIsReal, Ended
  <1>5. CASE Adopt
    <2> DEFINE p == task[Reconciler].pid
    <2>1. PICK h \in Handles : hdl' = [hdl EXCEPT ![h] = HandleOf(p)]
      BY <1>5 DEF Adopt
    <2>2. NoNewEnd
      <3> SUFFICES ASSUME NEW k \in Handles
                   PROVE  hdl'[k] \in {HandleOf(p), hdl[k]}
        BY DEF NoNewEnd, Ended, HandleOf
      <3> QED BY <2>1
    <2>3. CASE UNCHANGED proc
      BY <2>2, <2>3, EndFrame DEF EndsStay
    <2>4. CASE ~UNCHANGED proc
      <3>1. proc[p].state # "none"
        BY <1>5, <2>4 DEF Adopt, Adoptable, NoInit, Alive, None
      <3>2. \A q \in 1..MaxProcs : q # p => proc'[q] = proc[q]
        BY <1>5, <2>4 DEF Adopt, NoInit, TypeOK, Procs
      <3>3. EndsStay
        <4> SUFFICES ASSUME NEW k \in Handles, hdl[k].pid # None,
                            proc[hdl[k].pid].state = "none"
                     PROVE  proc'[hdl[k].pid].state = "none"
          BY DEF EndsStay
        <4>1. hdl[k].pid \in 1..MaxProcs
          BY LifecycleAssumption DEF TypeOK, HandleType, None
        <4> QED BY <3>1, <3>2, <4>1
      <3> QED BY <2>2, <3>3, EndFrame
    <2> QED BY <2>3, <2>4
  <1>6. ASSUME NEW p \in Procs, ProcStep(p) PROVE EndIsReal'
    <2>0. proc \in [Procs -> ProcType]
      BY DEF TypeOK
    <2>1. EndsStay
      <3> SUFFICES ASSUME NEW q \in Procs, proc[q].state = "none"
                   PROVE  proc'[q].state = "none"
        BY LifecycleAssumption DEF EndsStay, TypeOK, HandleType, Procs, None
      <3> QED BY <1>6, <2>0
              DEF ProcStep, Announces, StopReceived, Reported, Exits, NoProc
    <2>2. CASE Reported(p)
      <3> DEFINE status == IF proc[p].code = "ok" THEN "Stopped" ELSE "Crashed"
      <3>1. hdl' = Pushed(p, status) /\ status \in Statuses
        BY <2>2 DEF Reported, Statuses
      <3>2. proc'[p].state = "none"
        BY <2>0, <2>2 DEF Reported, NoProc
      <3> HIDE DEF status
      <3>3. \A h \in Handles : /\ hdl'[h].pid = hdl[h].pid
                               /\ Ended(h)' => Ended(h) \/ hdl[h].pid = p
        BY <3>1, PushedEnds
      <3> QED BY <2>1, <3>2, <3>3 DEF EndIsReal, EndsStay
    <2>3. CASE Announces(p)
      <3>1. hdl' = Pushed(p, "Running") /\ "Running" \in Statuses \ Terminal
        BY <2>3 DEF Announces, Statuses, Terminal
      <3>2. NoNewEnd
        BY <3>1, PushedEnds DEF NoNewEnd
      <3> QED BY <2>1, <3>2, EndFrame
    <2>4. CASE StopReceived(p) \/ \E code \in {"ok", "err"} : Exits(p, code)
      <3>1. hdl' = hdl
        BY <2>4 DEF StopReceived, Exits, NoRecord
      <3> QED BY <2>1, <3>1, DroppedNoEnd, EndFrame
    <2> QED BY <1>6, <2>2, <2>3, <2>4 DEF ProcStep
  <1>7. CASE InitRestarts
    <2>1. EndsStay
      <3> SUFFICES ASSUME NEW q \in Procs, proc[q].state = "none"
                   PROVE  proc'[q].state = "none"
        BY LifecycleAssumption DEF EndsStay, TypeOK, HandleType, Procs, None
      <3> QED BY <1>7 DEF InitRestarts, Alive, NoProc
    <2>2. NoNewEnd
      <3> SUFFICES ASSUME NEW h \in Handles, Ended(h)'
                   PROVE  Ended(h) /\ hdl'[h].pid = hdl[h].pid
        BY DEF NoNewEnd
      <3>1. hdl[h] \in HandleType
        BY DEF TypeOK
      <3>2. hdl'[h] = IF hdl[h] = FreshHandle THEN FreshHandle
                      ELSE [hdl[h] EXCEPT !.queue = <<>>, !.live = FALSE,
                                          !.bound = FALSE]
        BY <1>7 DEF InitRestarts
      <3>3. CASE hdl[h] = FreshHandle
        BY <3>2, <3>3 DEF Ended
      <3>4. CASE hdl[h] # FreshHandle
        BY <3>1, <3>2, <3>4 DEF Ended, HandleType
      <3> QED BY <3>3, <3>4
    <2> QED BY <2>1, <2>2, EndFrame
  <1>8. CASE UNCHANGED vars
    BY <1>8 DEF vars, EndIsReal, Ended
  <1> QED BY <1>1, <1>2, <1>3, <1>4, <1>5, <1>6, <1>7, <1>8, StepSplit
-----------------------------------------------------------------------------
(* The handle a stop has taken.                                            *)

Holding == {"rpc", "confirm", "terminal", "putback"}

\* A task that becomes t holds what it should if t does.
LEMMA BecomeHolds ==
    ASSUME TypeOK, StopHolds, NEW a \in Tasks, NEW t, Become(a, t),
           t.pc \in Holding => t.handle # None
    PROVE  StopHolds'
  BY DEF TypeOK, StopHolds, Become, Holding

\* So does a task that only changes its point, to one without a handle or from
\* one with it.
LEMMA GotoHolds ==
    ASSUME TypeOK, StopHolds, NEW a \in Tasks, NEW p, Goto(a, p),
           p \in Holding => task[a].pc \in Holding
    PROVE  StopHolds'
  <1>1. task[a] \in TaskType
    BY DEF TypeOK
  <1>2. [task[a] EXCEPT !.pc = p].pc = p
        /\ [task[a] EXCEPT !.pc = p].handle = task[a].handle
    BY <1>1 DEF TaskType
  <1>3. task[a].pc \in Holding => task[a].handle # None
    BY DEF StopHolds, Holding
  <1> QED BY <1>2, <1>3, BecomeHolds DEF Goto

\* Task a moves to one of the points P, and no other task moves.
Moves(a, P) ==
    /\ task'[a].pc \in P
    /\ \A b \in Tasks \ {a} : task'[b] = task[b]

\* A task that moves to a point without a handle holds nothing it needs.
LEMMA MovesHolds ==
    ASSUME StopHolds, NEW a \in Tasks, NEW P, Moves(a, P), P \cap Holding = {}
    PROVE  StopHolds'
  BY DEF StopHolds, Moves, Holding

\* What a task becomes it is.
LEMMA BecomeMoves ==
    ASSUME TypeOK, NEW a \in Tasks, NEW t, Become(a, t), NEW P, t.pc \in P
    PROVE  Moves(a, P)
  BY DEF TypeOK, Become, Moves

\* A task at rest, and one that goes on after a stop, needs no handle.
LEMMA AnewHolds ==
    /\ Idle.pc \notin Holding
    /\ \A a : AfterStop(a).pc \notin Holding
  BY DEF Idle, AfterStop, Holding

\* Every step of a task keeps the handle of a stop.
LEMMA TaskHolds ==
    ASSUME TypeOK, StopHolds, NEW a \in Tasks, TaskStep(a)
    PROVE  StopHolds'
  <1>0. task[a] \in TaskType /\ inst \in InstanceType
    BY DEF TypeOK
  <1>1. CASE StartStep(a)
    <2>1. CASE MarkStarting(a)
      BY <2>1, GotoHolds DEF MarkStarting, Holding
    <2>2. ASSUME ~MarkStarting(a) PROVE Moves(a, {"idle", "probe", "mark"})
      <3>1. CASE StartAgain(a)
        BY <3>1 DEF StartAgain, Snapshot, Idle, Become, Moves, TypeOK
      <3>2. CASE StartProbe(a)
        BY <3>2 DEF StartProbe, Idle, Become, Moves, TypeOK
      <3>3. CASE \/ AlreadyUp(a) \/ NothingToRun(a) \/ JavaMissing(a)
                 \/ Launch(a) \/ LaunchRefused(a) \/ LaunchFails(a)
        <4>1. Become(a, Idle)
          BY <3>3 DEF AlreadyUp, NothingToRun, JavaMissing, Launch, LaunchRefused,
                      LaunchFails
        <4> QED BY <4>1, BecomeMoves DEF Idle
      <3> QED BY <1>1, <2>2, <3>1, <3>2, <3>3 DEF StartStep
    <2> QED BY <2>1, <2>2, MovesHolds DEF Holding
  <1>2. CASE StopStep(a)
    <2>1. CASE StopExpired(a) \/ StopSent(a) \/ StopDone(a) \/ StopUnconfirmed(a)
      BY <2>1, GotoHolds
         DEF StopExpired, StopSent, StopDone, StopUnconfirmed, At, Holding
    <2>2. CASE StopTakesHandle(a)
      <3> DEFINE t == [task[a] EXCEPT !.pc = "rpc", !.handle = inst.handle]
      <3>1. Become(a, t) /\ inst.handle # None
        BY <2>2 DEF StopTakesHandle
      <3>2. t.handle = inst.handle
        BY <1>0 DEF TaskType
      <3> HIDE DEF t
      <3> QED BY <3>1, <3>2, BecomeHolds
    <2>3. CASE StopMarkedDown(a) \/ StopNoHandle(a) \/ PutBack(a) \/ StopFinal(a)
      <3>1. Become(a, Idle) \/ Become(a, AfterStop(a))
        BY <2>3 DEF StopMarkedDown, StopNoHandle, PutBack, StopFinal
      <3> QED BY <3>1, AnewHolds, BecomeHolds
    <2> QED BY <1>2, <2>1, <2>2, <2>3 DEF StopStep
  <1>3. CASE RecoverStep(a)
    <2>1. CASE RecoverClear(a)
      <3>1. Become(a, Idle) \/ Goto(a, "publish")
        BY <2>1 DEF RecoverClear
      <3> QED BY <3>1, AnewHolds, BecomeHolds, GotoHolds DEF Holding
    <2>2. CASE RecoverRead(a) \/ RecoverProbe(a) \/ RecoverPublish(a)
      <3>1. Moves(a, {"idle", "reprobe", "clear"})
        <4>1. CASE RecoverRead(a)
          <5>1. \/ Become(a, Idle)
                \/ Become(a, [Idle EXCEPT !.pc = "reprobe", !.pid = KnownPid])
            BY <4>1 DEF RecoverRead
          <5>2. CASE Become(a, Idle)
            BY <5>2, BecomeMoves DEF Idle
          <5>3. CASE Become(a, [Idle EXCEPT !.pc = "reprobe", !.pid = KnownPid])
            <6>1. [Idle EXCEPT !.pc = "reprobe", !.pid = KnownPid].pc = "reprobe"
              BY DEF Idle
            <6> QED BY <5>3, <6>1, BecomeMoves
          <5> QED BY <5>1, <5>2, <5>3
        <4>2. CASE RecoverProbe(a)
          BY <4>2 DEF RecoverProbe, Idle, Become, Moves, TypeOK
        <4>3. CASE RecoverPublish(a)
          BY <4>3 DEF RecoverPublish, Idle, Become, Moves, TypeOK
        <4> QED BY <2>2, <4>1, <4>2, <4>3
      <3> QED BY <3>1, MovesHolds DEF Holding
    <2> QED BY <1>3, <2>1, <2>2 DEF RecoverStep
  <1>4. CASE CallFails(a)
    <2>1. CASE OnError[task[a].pc] \in {"idle", "decide"}
      <3>1. Become(a, Idle) \/ Become(a, [Idle EXCEPT !.pc = "decide"])
        BY <1>4, <2>1 DEF CallFails
      <3>2. Moves(a, {"idle", "decide"})
        BY <3>1 DEF Idle, Become, Moves, TypeOK
      <3> QED BY <3>2, MovesHolds DEF Holding
    <2>2. CASE OnError[task[a].pc] \notin {"idle", "decide"}
      <3> DEFINE next == OnError[task[a].pc]
      <3>1. Goto(a, next)
        BY <1>4, <2>2 DEF CallFails, Goto
      <3>2. next \in Holding => task[a].pc \in Holding
        BY <1>4, <2>2 DEF CallFails, OnError, Holding
      <3> HIDE DEF next
      <3> QED BY <3>1, <3>2, GotoHolds
    <2> QED BY <2>1, <2>2
  <1> QED BY <1>1, <1>2, <1>3, <1>4 DEF TaskStep

\* Every step keeps the handle of a stop.
LEMMA HoldsStep ==
    ASSUME TypeOK, StopHolds, [Next]_vars
    PROVE  StopHolds'
  <1>0. Callers \cup Timers \cup {Reconciler, Applier} = Tasks
    BY DEF Tasks
  <1>1. ASSUME NEW a \in Callers, Start(a) \/ Stop(a) \/ Restart(a)
        PROVE  StopHolds'
    <2>1. CASE Stop(a)
      BY <1>0, <2>1, GotoHolds DEF Stop, Holding
    <2>2. CASE Start(a) \/ Restart(a)
      <3>1. Moves(a, {"probe", "mark", "stop"})
        BY <1>0, <2>2 DEF Start, Snapshot, Restart, Idle, Become, Moves, TypeOK
      <3> QED BY <1>0, <3>1, MovesHolds DEF Holding
    <2> QED BY <1>1, <2>1, <2>2
  <1>2. CASE \E a \in Tasks : TaskStep(a)
    BY <1>2, TaskHolds
  <1>3. CASE ReconcilerStep
    <2> DEFINE t == task[Reconciler]
    <2>0. t \in TaskType
      BY <1>0 DEF TypeOK
    <2>1. CASE NotAdopted
      BY <1>0, <2>1, GotoHolds DEF NotAdopted, Holding
    <2>2. CASE Lookup \/ CheckAlive \/ Adopt
      <3>1. Moves(Reconciler, {"alive", "adopt", "settle"})
        <4>1. CASE Lookup
          BY <1>0, <2>0, <4>1 DEF Lookup, TaskType, Become, Moves, TypeOK
        <4>2. CASE CheckAlive
          BY <1>0, <2>0, <4>2 DEF CheckAlive, TaskType, Become, Moves, TypeOK
        <4>3. CASE Adopt
          BY <1>0, <2>0, <4>3 DEF Adopt, TaskType, Become, Moves, TypeOK
        <4> QED BY <2>2, <4>1, <4>2, <4>3
      <3> QED BY <1>0, <3>1, MovesHolds DEF Holding
    <2>3. CASE Tick \/ Settle \/ Decide
      <3>1. Moves(Reconciler, {"idle", "lookup", "decide", "start", "stop", "recover"})
        <4>1. CASE Tick
          BY <1>0, <4>1 DEF Tick, Idle, Become, Moves, TypeOK
        <4>2. CASE Settle
          BY <1>0, <4>2 DEF Settle, Idle, Become, Moves, TypeOK
        <4>3. CASE Decide
          BY <1>0, <4>3 DEF Decide, Idle, Become, Moves, TypeOK
        <4> QED BY <2>3, <4>1, <4>2, <4>3
      <3> QED BY <1>0, <3>1, MovesHolds DEF Holding
    <2> QED BY <1>3, <2>1, <2>2, <2>3 DEF ReconcilerStep
  <1>4. CASE \/ ApplierStep
             \/ \E t \in Timers : TimerFires(t)
             \/ \E h \in Handles : RelayForwards(h)
    <2>1. ASSUME NEW t \in Timers, Goto(t, "sleep") \/ Goto(t, "start")
          PROVE  StopHolds'
      BY <1>0, <2>1, GotoHolds DEF Holding
    <2>2. CASE Goto(Applier, "recover")
      BY <1>0, <2>2, GotoHolds DEF Holding
    <2>3. CASE UNCHANGED task
      BY <2>3 DEF StopHolds
    <2> QED BY <1>4, <2>1, <2>2, <2>3
            DEF ApplierStep, ApplyEvent, ApplierLagged, TimerFires, RelayForwards
  <1>5. CASE \/ InitRestarts \/ UNCHANGED vars
             \/ \E p \in Procs : ProcStep(p)
    <2>1. UNCHANGED task
      BY <1>5 DEF InitRestarts, vars, ProcStep, Announces, StopReceived, Reported,
                  Exits
    <2> QED BY <2>1 DEF StopHolds
  <1> QED BY <1>1, <1>2, <1>3, <1>4, <1>5 DEF Next
-----------------------------------------------------------------------------
(* The theorems.                                                           *)

\* The invariant holds at the beginning.
LEMMA InitLifecycle == Init => LifecycleInv
  <1> SUFFICES ASSUME Init PROVE LifecycleInv
    OBVIOUS
  <1>1. WatchedHasEntry
    BY DEF Init, NoProc, WatchedHasEntry
  <1>2. OnlyWatched
    BY LifecycleAssumption DEF Init, NoProc, OnlyWatched, Kinds
  <1>3. EndIsReal
    BY DEF Init, FreshHandle, EndIsReal
  <1>4. StopHolds
    BY DEF Init, Idle, StopHolds
  <1> QED BY <1>1, <1>2, <1>3, <1>4 DEF LifecycleInv

\* LifecycleInv is an invariant of every instance: entries, processes and the
\* terminal events on their way agree whatever control and init do.
THEOREM LifecycleSafe == Spec => [](TypeOK /\ LifecycleInv)
  <1>1. TypeOK /\ LifecycleInv /\ [Next]_vars => TypeOK' /\ LifecycleInv'
    BY TypeStep, EntryStep, EndStep, HoldsStep DEF LifecycleInv, EntryInv
  <1> QED BY <1>1, InitTyped, InitLifecycle, PTL DEF Spec

\* What init watches is what its registry names, so that a launch is refused, an
\* adoption joined and a stop delivered as long as the process is not reported.
THEOREM WatchedInRegistry == Spec => []WatchedHasEntry
  <1>1. TypeOK /\ LifecycleInv => WatchedHasEntry
    BY DEF LifecycleInv
  <1> QED BY <1>1, LifecycleSafe, PTL

\* However many starts, restarts, reconciler ticks and timers race, and whatever
\* calls fail, at most one server process of the instance is alive while init
\* has not lost its entries.
THEOREM NeverTwo == Spec => []OneProcess
  <1>1. TypeOK /\ LifecycleInv => OneProcess
    <2> SUFFICES ASSUME TypeOK, LifecycleInv, left["inits"] = Budget["inits"]
                 PROVE  Cardinality(Live) <= 1
      BY DEF OneProcess
    <2>1. Live \subseteq {entry.pid}
      BY DEF Live, Alive, LifecycleInv, WatchedHasEntry, OnlyWatched
    <2>2. IsFiniteSet({entry.pid}) /\ Cardinality({entry.pid}) = 1
      BY FS_Singleton
    <2> QED BY <2>1, <2>2, FS_Subset
  <1> QED BY <1>1, LifecycleSafe, PTL

\* A stop that returns through its handle has seen the end of the process the
\* handle was made for, never that of a predecessor or a successor.
THEOREM StopIsConfirmed == Spec => StopSeesTheEnd
  <1>1. TypeOK /\ LifecycleInv =>
           \A a \in Tasks : StopFinal(a) => ~Alive(Held(a).pid)
    <2> SUFFICES ASSUME TypeOK, LifecycleInv, NEW a \in Tasks, StopFinal(a)
                 PROVE  ~Alive(Held(a).pid)
      OBVIOUS
    <2>1. task[a].handle \in Handles
      <3>1. task[a].handle # None /\ task[a].handle \in 0..MaxHandles
        BY DEF StopFinal, LifecycleInv, StopHolds, TypeOK, TaskType
      <3> QED BY <3>1, LifecycleAssumption DEF Handles, None
    <2>2. Ended(task[a].handle)
      BY DEF StopFinal, Held, Ended
    <2> QED BY <2>1, <2>2 DEF LifecycleInv, EndIsReal, Held, Alive
  <1> QED BY <1>1, LifecycleSafe, PTL DEF StopSeesTheEnd
=============================================================================
