--------------------------- MODULE InstanceLifecycle ---------------------------
(***************************************************************************)
(* One local game-server instance, across the two processes that look      *)
(* after it: the record cocktail-control keeps behind the `instances` lock *)
(* (instance/registry.rs), and the child cocktail-init owns on its behalf  *)
(* (cocktail-init registry.rs, process.rs).                                *)
(*                                                                         *)
(* Control works on the record from many tasks: API callers, the 10 s      *)
(* reconciler, the auto-restart timers and the task that applies the       *)
(* events of the bus.  Each holds the lock for one critical section at a   *)
(* time and calls init in between, so an action below is one critical      *)
(* section or one RPC.  Init's events reach the bus through one relay per  *)
(* ProcessHandle and are applied later, in bus order.                      *)
(*                                                                         *)
(* A process is a number, 0 is none.  The token of a launch is named by    *)
(* its process: when init restarts and adopts the process again under a    *)
(* new token, the handles with the old one are no longer bound.            *)
(***************************************************************************)
EXTENDS Naturals, Sequences, FiniteSets

CONSTANTS
    Callers,      \* tasks that use the public API, one call at a time
    Timers,       \* the auto-restart timers that may be asleep at one time
    Reconciler,   \* the task of spawn_reconciler
    Applier,      \* the task of spawn_event_applier
    AutoRestart,  \* spec.auto_restart
    BusCap,       \* capacity of the event bus (2048 in the code)
    MaxProcs,     \* bound: process identities in use at one time
    MaxHandles,   \* bound: ProcessHandles in use at one time
    Budget        \* bound: how often each kind of outside event happens

Kinds == {"calls", "exits", "faults", "inits"}

ASSUME LifecycleAssumption ==
    /\ Callers \cap Timers = {}
    /\ {Reconciler, Applier} \cap (Callers \cup Timers) = {}
    /\ Reconciler # Applier
    /\ AutoRestart \in BOOLEAN
    /\ BusCap \in Nat \ {0}
    /\ MaxProcs \in Nat
    /\ MaxHandles \in Nat
    /\ Budget \in [Kinds -> Nat]

Tasks == Callers \cup Timers \cup {Reconciler, Applier}
Procs == 1..MaxProcs
Handles == 1..MaxHandles
None == 0

VARIABLES
    inst,   \* the Instance of control's map
    hdl,    \* hdl[h]: a ProcessHandle and its relay
    bus,    \* state.events, as its one applying receiver sees it
    task,   \* task[a]: where task a is in its operation
    entry,  \* init: the entry of the instance in the registry
    proc,   \* proc[p]: process p, and what init does about it
    left    \* left[k]: how often an event of kind k may still happen

vars == <<inst, hdl, bus, task, entry, proc, left>>
-----------------------------------------------------------------------------
Statuses == {"Created", "Starting", "Running", "Stopping", "Stopped", "Crashed"}
Terminal == {"Stopped", "Crashed"}

\* pid is last_pid; handle is process.
InstanceType == [status : Statuses, desired : BOOLEAN,
                 handle : 0..MaxHandles, pid : 0..MaxProcs]

\* pid: the process (the token) it was made for; queue: the events its relay has
\* received and not forwarded; terminal: the watch stop() waits on; live: the
\* relay task runs; bound: its connection to init is still open.
HandleType == [pid : 0..MaxProcs, queue : Seq(Statuses), terminal : BOOLEAN,
               live : BOOLEAN, bound : BOOLEAN]

BusType == [queue : Seq(Statuses), lagged : BOOLEAN]

\* taken: a stop has taken the handle out of the entry.
EntryType == [pid : 0..MaxProcs, taken : BOOLEAN]

\* "new": supervised, Running not announced yet; "exited": the exit is not
\* reported yet.  watched: this init supervises it; adopted: by adopt_running.
ProcType == [state : {"none", "new", "up", "stopping", "exited"},
             code : {"ok", "err"}, watched : BOOLEAN, adopted : BOOLEAN]

Points == {"idle", "sleep", "start", "probe", "mark", "launch", "stop", "rpc",
           "confirm", "terminal", "putback", "lookup", "alive", "adopt",
           "settle", "decide", "recover", "reprobe", "clear", "publish"}

\* handle: a handle the task owns; pid, owned, alive: what it has read; again:
\* restart_instance, which starts once its stop is through.
TaskType == [pc : Points, handle : 0..MaxHandles, pid : 0..MaxProcs,
             owned : BOOLEAN, alive : BOOLEAN, again : BOOLEAN]

Idle == [pc |-> "idle", handle |-> None, pid |-> None, owned |-> FALSE,
         alive |-> FALSE, again |-> FALSE]
FreshHandle == [pid |-> None, queue |-> <<>>, terminal |-> FALSE,
                live |-> FALSE, bound |-> FALSE]
NoEntry == [pid |-> None, taken |-> FALSE]
NoProc == [state |-> "none", code |-> "ok", watched |-> FALSE, adopted |-> FALSE]

Init ==
    /\ inst = [status |-> "Created", desired |-> FALSE,
               handle |-> None, pid |-> None]
    /\ hdl = [h \in Handles |-> FreshHandle]
    /\ bus = [queue |-> <<>>, lagged |-> FALSE]
    /\ task = [a \in Tasks |-> Idle]
    /\ entry = NoEntry
    /\ proc = [p \in Procs |-> NoProc]
    /\ left = Budget
-----------------------------------------------------------------------------
At(a, p) == task[a].pc = p
Become(a, t) == task' = [task EXCEPT ![a] = t]
Goto(a, p) == Become(a, [task[a] EXCEPT !.pc = p])
Spend(kind) == left[kind] > 0 /\ left' = [left EXCEPT ![kind] = @ - 1]

\* The lock and init are left alone.
NoRecord == UNCHANGED <<inst, hdl, bus>>
NoInit == UNCHANGED <<entry, proc>>

Publish_Unbounded(b, status) ==  \* seeded fault: no capacity
    [b EXCEPT !.queue = Append(@, status)]

\* broadcast::Sender::send: never waits; a full channel forgets its oldest event
\* and the receiver is told that it lagged.
Publish(b, status) ==
    IF Len(b.queue) < BusCap
    THEN [b EXCEPT !.queue = Append(@, status)]
    ELSE [queue |-> Append(Tail(b.queue), status), lagged |-> TRUE]

\* ProcessHandle::drop aborts the relay, with whatever it has not forwarded.
Dropped(hs) == [h \in Handles |-> IF h \in hs THEN FreshHandle ELSE hdl[h]]

FreeHandles == {h \in Handles : hdl[h] = FreshHandle /\ h # inst.handle
                                 /\ \A a \in Tasks : task[a].handle # h}
FreeProcs == {p \in Procs :
    /\ proc[p] = NoProc
    /\ p \notin {inst.pid, entry.pid}
    /\ \A h \in Handles : hdl[h].pid # p
    /\ \A a \in Tasks : task[a].pid # p}
First(S, x) == x \in S /\ \A y \in S : x <= y

HandleOf(p) == [pid |-> p, queue |-> <<>>, terminal |-> FALSE,
                live |-> TRUE, bound |-> TRUE]

\* process.alive, and what start, reattach and recovery ask it about.
Alive(p) == p # None /\ proc[p].state \in {"new", "up", "stopping"}
KnownPid == IF inst.handle # None THEN hdl[inst.handle].pid ELSE inst.pid

Cleared(i) == [i EXCEPT !.handle = None, !.pid = None]
-----------------------------------------------------------------------------
(* start_instance.                                                         *)

\* The snapshot under the read lock.
Snapshot(a) ==
    Become(a, IF inst.status = "Stopping"
              THEN [Idle EXCEPT !.pc = "probe", !.pid = KnownPid]
              ELSE [Idle EXCEPT !.pc = "mark"])

Start(a) ==
    /\ At(a, "idle")
    /\ Spend("calls")
    /\ Snapshot(a)
    /\ NoRecord /\ NoInit

\* Called by restart_instance, by the reconciler, by a timer.
StartAgain(a) ==
    /\ At(a, "start")
    /\ Snapshot(a)
    /\ NoRecord /\ NoInit /\ UNCHANGED left

\* "instance is stopping".
StartProbe(a) ==
    /\ At(a, "probe")
    /\ IF Alive(task[a].pid)
       THEN Become(a, Idle)
       ELSE Become(a, [Idle EXCEPT !.pc = "mark"])
    /\ NoRecord /\ NoInit /\ UNCHANGED left

MarkedUp_OrCrashed ==  \* seeded fault: a crashed record passes for a live one
    inst.status \in {"Running", "Starting", "Crashed"}
MarkedUp == inst.status \in {"Running", "Starting"}

AlreadyUp(a) ==
    /\ At(a, "mark")
    /\ MarkedUp
    /\ inst' = [inst EXCEPT !.desired = TRUE]
    /\ Become(a, Idle)
    /\ NoInit /\ UNCHANGED <<hdl, bus, left>>

MarkStarting(a) ==
    /\ At(a, "mark")
    /\ ~MarkedUp
    /\ inst' = [inst EXCEPT !.desired = TRUE, !.status = "Starting"]
    /\ bus' = Publish(bus, "Starting")
    /\ Goto(a, "launch")
    /\ NoInit /\ UNCHANGED <<hdl, left>>

\* No server.jar, or the seed files cannot be written: the record stays Starting.
NothingToRun(a) ==
    /\ At(a, "mark")
    /\ ~MarkedUp
    /\ Spend("faults")
    /\ inst' = [inst EXCEPT !.desired = TRUE, !.status = "Starting"]
    /\ Become(a, Idle)
    /\ NoInit /\ UNCHANGED <<hdl, bus>>

\* The Java runtime is prepared without the lock, which may take minutes.
JavaMissing(a) ==
    /\ At(a, "launch")
    /\ Spend("faults")
    /\ inst' = [inst EXCEPT !.status = "Stopped", !.desired = FALSE]
    /\ Become(a, Idle)
    /\ NoInit /\ UNCHANGED <<hdl, bus>>
-----------------------------------------------------------------------------
(* The launch, under the write lock: process.launch of init's registry.    *)

LaunchAdmitted_Always(e) == TRUE  \* seeded fault: entries are overwritten
LaunchAdmitted(e) == e.pid = None

NewProc(p) ==
    /\ First(FreeProcs, p)
    /\ proc' = [proc EXCEPT ![p] = [NoProc EXCEPT !.state = "new", !.watched = TRUE]]
    /\ entry' = [pid |-> p, taken |-> FALSE]

\* Nothing that happened since MarkStarting is looked at.
Launch(a) ==
    /\ At(a, "launch")
    /\ LaunchAdmitted(entry)
    /\ \E p \in Procs, h \in Handles :
          /\ NewProc(p)
          /\ First(FreeHandles, h)
          /\ inst' = [inst EXCEPT !.handle = h, !.pid = p]
          /\ hdl' = [Dropped({inst.handle}) EXCEPT ![h] = HandleOf(p)]
    /\ Become(a, Idle)
    /\ UNCHANGED <<bus, left>>

\* "instance already managed or stopping": the record stays as it is.
LaunchRefused(a) ==
    /\ At(a, "launch")
    /\ ~LaunchAdmitted(entry)
    /\ Become(a, Idle)
    /\ NoRecord /\ NoInit /\ UNCHANGED left

\* The call fails: init made no process, or made it and the answer was lost.
LaunchFails(a) ==
    /\ At(a, "launch")
    /\ LaunchAdmitted(entry)
    /\ Spend("faults")
    /\ \/ NoInit
       \/ \E p \in Procs : NewProc(p)
    /\ Become(a, Idle)
    /\ NoRecord
-----------------------------------------------------------------------------
(* stop_instance and restart_instance.                                     *)

Stop(a) ==
    /\ At(a, "idle")
    /\ Spend("calls")
    /\ Goto(a, "stop")
    /\ NoRecord /\ NoInit

Restart(a) ==
    /\ At(a, "idle")
    /\ Spend("calls")
    /\ Become(a, [Idle EXCEPT !.pc = "stop", !.again = TRUE])
    /\ NoRecord /\ NoInit

\* A stop came to an end: restart_instance goes on after its pause.
AfterStop(a) == IF task[a].again THEN [Idle EXCEPT !.pc = "start"] ELSE Idle

MarkedDown == inst.status \in {"Stopped", "Created", "Crashed"}

StopMarkedDown(a) ==
    /\ At(a, "stop")
    /\ MarkedDown
    /\ inst' = [inst EXCEPT !.desired = FALSE, !.status = "Stopped"]
    /\ Become(a, AfterStop(a))
    /\ NoInit /\ UNCHANGED <<hdl, bus, left>>

Stopping(i) == [i EXCEPT !.desired = FALSE, !.status = "Stopping"]

\* The handle leaves the record and the lock is released.
StopTakesHandle(a) ==
    /\ At(a, "stop")
    /\ ~MarkedDown
    /\ inst.handle # None
    /\ inst' = [Stopping(inst) EXCEPT !.handle = None]
    /\ bus' = Publish(bus, "Stopping")
    /\ Become(a, [task[a] EXCEPT !.pc = "rpc", !.handle = inst.handle])
    /\ NoInit /\ UNCHANGED <<hdl, left>>

\* No handle: init is asked under the lock.  "instance is still running" (and a
\* failed call) leaves the record Stopping.
StillRunning == entry.pid # None \/ Alive(inst.pid)

StopNoHandle(a) ==
    /\ At(a, "stop")
    /\ ~MarkedDown
    /\ inst.handle = None
    /\ \/ /\ ~StillRunning
          /\ inst' = [Cleared(Stopping(inst)) EXCEPT !.status = "Stopped"]
          /\ bus' = Publish(Publish(bus, "Stopping"), "Stopped")
          /\ Become(a, AfterStop(a))
          /\ UNCHANGED left
       \/ /\ \/ StillRunning /\ UNCHANGED left
             \/ Spend("faults")
          /\ inst' = Stopping(inst)
          /\ bus' = Publish(bus, "Stopping")
          /\ Become(a, Idle)
    /\ NoInit /\ UNCHANGED hdl

Held(a) == hdl[task[a].handle]

\* ProcessHandle::stop and Registry::stop.  A handle whose terminal event has
\* arrived needs no call; a token without entry has expired.
HoldsEntry(a) == Held(a).bound /\ entry.pid = Held(a).pid

StopExpired(a) ==
    /\ At(a, "rpc")
    /\ ~Held(a).terminal
    /\ ~HoldsEntry(a)
    /\ Goto(a, "putback")
    /\ NoRecord /\ NoInit /\ UNCHANGED left

\* The first stop takes the entry's handle, which tells the supervising task.
StopSent(a) ==
    /\ At(a, "rpc")
    /\ ~Held(a).terminal
    /\ HoldsEntry(a)
    /\ entry' = [entry EXCEPT !.taken = TRUE]
    /\ Goto(a, "confirm")
    /\ NoRecord /\ UNCHANGED <<proc, left>>

\* The entry is gone: done was sent.  Then the terminal event is awaited.
StopDone(a) ==
    /\ At(a, "confirm")
    /\ Held(a).bound
    /\ entry.pid # Held(a).pid
    /\ Goto(a, "terminal")
    /\ NoRecord /\ NoInit /\ UNCHANGED left

\* The connection closed, or 50 s (5 s for the event) went by.
StopUnconfirmed(a) ==
    /\ \/ At(a, "confirm") /\ ~Held(a).bound /\ UNCHANGED left
       \/ At(a, "terminal") /\ ~Held(a).live /\ ~Held(a).terminal /\ UNCHANGED left
       \/ task[a].pc \in {"confirm", "terminal"} /\ Spend("faults")
    /\ Goto(a, "putback")
    /\ NoRecord /\ NoInit

\* "An IPC failure is not evidence that the process stopped": the handle goes
\* back into the record, which stays Stopping, and the call fails.
PutBack(a) ==
    /\ At(a, "putback")
    /\ inst' = [inst EXCEPT !.handle = task[a].handle]
    /\ hdl' = Dropped({inst.handle})
    /\ Become(a, Idle)
    /\ NoInit /\ UNCHANGED <<bus, left>>

StopFinal_Unconfirmed(a) ==  \* seeded fault: stop() does not wait
    /\ At(a, "confirm")
    /\ inst' = [Cleared(inst) EXCEPT !.status = "Stopped"]
    /\ hdl' = Dropped({task[a].handle, inst.handle})
    /\ bus' = Publish(bus, "Stopped")
    /\ Become(a, AfterStop(a))
    /\ NoInit /\ UNCHANGED left

\* The terminal event of the handle was seen: the lock again.
StopFinal(a) ==
    /\ task[a].pc \in {"rpc", "terminal"}
    /\ Held(a).terminal
    /\ IF inst.desired
       THEN /\ hdl' = Dropped({task[a].handle})
            /\ UNCHANGED <<inst, bus>>
       ELSE /\ inst' = [Cleared(inst) EXCEPT !.status = "Stopped"]
            /\ hdl' = Dropped({task[a].handle, inst.handle})
            /\ bus' = Publish(bus, "Stopped")
    /\ Become(a, AfterStop(a))
    /\ NoInit /\ UNCHANGED left
-----------------------------------------------------------------------------
(* reconcile_local: reattach_running, then what the record still needs.    *)

\* handle.available(): the token still has an entry.
HandleAvailable ==
    /\ inst.handle # None
    /\ hdl[inst.handle].bound
    /\ entry.pid = hdl[inst.handle].pid

\* The snapshot of the identity, and the first question to init.
Tick ==
    /\ At(Reconciler, "idle")
    /\ \/ /\ Become(Reconciler, IF HandleAvailable
                                 THEN [Idle EXCEPT !.pc = "decide"]
                                 ELSE [Idle EXCEPT !.pc = "lookup", !.pid = inst.pid])
          /\ UNCHANGED left
       \/ /\ Spend("faults")
          /\ Become(Reconciler, [Idle EXCEPT !.pc = "lookup", !.pid = inst.pid])
    /\ NoRecord /\ NoInit

\* process.lookup: the identity init has wins over the recorded one.
Lookup ==
    /\ At(Reconciler, "lookup")
    /\ Become(Reconciler,
              [task[Reconciler] EXCEPT !.pc = "alive",
                   !.owned = entry.pid # None,
                   !.pid = IF entry.pid # None THEN entry.pid ELSE @])
    /\ NoRecord /\ NoInit /\ UNCHANGED left

CheckAlive ==
    /\ At(Reconciler, "alive")
    /\ Become(Reconciler, [task[Reconciler] EXCEPT !.pc = "adopt",
                               !.alive = Alive(task[Reconciler].pid)])
    /\ NoRecord /\ NoInit /\ UNCHANGED left

Adoptable_OrphansOnly(p) ==  \* seeded fault: an entry is never joined
    entry.pid = None /\ Alive(p)

\* process.launch of kind Adopt: the entry's own handle again, or, without an
\* entry, a new supervision of a process that matches.
Adoptable(p) ==
    /\ p # None
    /\ \/ entry = [pid |-> p, taken |-> FALSE]
       \/ entry.pid = None /\ Alive(p)

Adopt ==
    LET p == task[Reconciler].pid
    IN  /\ At(Reconciler, "adopt")
        /\ Adoptable(p)
        /\ \E h \in Handles :
              /\ First(FreeHandles, h)
              /\ hdl' = [hdl EXCEPT ![h] = HandleOf(p)]
              /\ Become(Reconciler,
                        [task[Reconciler] EXCEPT !.pc = "settle", !.handle = h])
        /\ IF entry.pid = p
           THEN NoInit
           ELSE /\ entry' = [pid |-> p, taken |-> FALSE]
                /\ proc' = [proc EXCEPT ![p] = [NoProc EXCEPT !.state = "new",
                                !.watched = TRUE, !.adopted = TRUE]]
        /\ UNCHANGED <<inst, bus, left>>

NotAdopted ==
    /\ At(Reconciler, "adopt")
    /\ ~Adoptable(task[Reconciler].pid)
    /\ Goto(Reconciler, "settle")
    /\ NoRecord /\ NoInit /\ UNCHANGED left

MarkedActive == inst.status \in {"Running", "Starting", "Stopping"}

\* The write lock again; whatever happened since the snapshot is not looked at.
Settle ==
    LET t == task[Reconciler]
    IN  /\ At(Reconciler, "settle")
        /\ \/ /\ t.handle # None
              /\ inst' = [inst EXCEPT !.pid = hdl[t.handle].pid,
                              !.handle = t.handle, !.status = "Running"]
              /\ hdl' = Dropped({inst.handle})
           \/ /\ t.handle = None
              /\ t.alive \/ t.owned \/ ~MarkedActive
              /\ UNCHANGED <<inst, hdl>>
           \/ /\ t.handle = None
              /\ ~t.alive /\ ~t.owned /\ MarkedActive
              /\ inst' = [Cleared(inst) EXCEPT !.status = "Stopped"]
              /\ hdl' = Dropped({inst.handle})
        /\ Become(Reconciler, [Idle EXCEPT !.pc = "decide"])
        /\ NoInit /\ UNCHANGED <<bus, left>>

\* What the record asks for, read under the lock and acted on after it.
Decide ==
    /\ At(Reconciler, "decide")
    /\ Become(Reconciler, [Idle EXCEPT !.pc =
          CASE inst.desired /\ MarkedDown -> "start"
            [] ~inst.desired /\ MarkedUp -> "stop"
            [] ~inst.desired /\ inst.status = "Stopping" -> "recover"
            [] OTHER -> "idle"])
    /\ NoRecord /\ NoInit /\ UNCHANGED left
-----------------------------------------------------------------------------
(* recover_stuck_stopping, for the reconciler and for a lagged applier.    *)

RecoverRead(a) ==
    /\ At(a, "recover")
    /\ IF inst.status = "Stopping"
       THEN Become(a, [Idle EXCEPT !.pc = "reprobe", !.pid = KnownPid])
       ELSE Become(a, Idle)
    /\ NoRecord /\ NoInit /\ UNCHANGED left

RecoverProbe(a) ==
    /\ At(a, "reprobe")
    /\ Become(a, IF Alive(task[a].pid) THEN Idle ELSE [Idle EXCEPT !.pc = "clear"])
    /\ NoRecord /\ NoInit /\ UNCHANGED left

RecoverClear(a) ==
    /\ At(a, "clear")
    /\ IF inst.status # "Stopping" \/ inst.desired
       THEN /\ Become(a, Idle)
            /\ UNCHANGED <<inst, hdl>>
       ELSE /\ inst' = [Cleared(inst) EXCEPT !.status = "Stopped"]
            /\ hdl' = Dropped({inst.handle})
            /\ Goto(a, "publish")
    /\ NoInit /\ UNCHANGED <<bus, left>>

\* Published once the lock is released.
RecoverPublish(a) ==
    /\ At(a, "publish")
    /\ bus' = Publish(bus, "Stopped")
    /\ Become(a, Idle)
    /\ NoInit /\ UNCHANGED <<inst, hdl, left>>

\* A call to init fails: the operation gives up, or goes on without the answer.
OnError == [probe |-> "idle", rpc |-> "putback", lookup |-> "decide",
            alive |-> "decide", adopt |-> "settle", reprobe |-> "idle"]

CallFails(a) ==
    /\ task[a].pc \in DOMAIN OnError
    /\ Spend("faults")
    /\ LET next == OnError[task[a].pc]
       IN  Become(a, CASE next = "idle" -> Idle
                       [] next = "decide" -> [Idle EXCEPT !.pc = "decide"]
                       [] OTHER -> [task[a] EXCEPT !.pc = next])
    /\ NoRecord /\ NoInit
-----------------------------------------------------------------------------
(* spawn_event_applier and apply_event.                                    *)

CanApplyOver(new, current) ==
    \/ new = current
    \/ /\ ~(current \in {"Stopped", "Crashed", "Created"} /\ new = "Stopping")
       /\ ~(current = "Running" /\ new = "Starting")
       /\ ~(current = "Stopping" /\ new \in {"Running", "Starting"})

Applied(i, status) ==
    [(IF status \in Terminal THEN Cleared(i) ELSE i) EXCEPT !.status = status]

\* The event names the instance only: it is not known which launch it is about.
ApplyEvent ==
    LET status == Head(bus.queue)
    IN  /\ At(Applier, "idle")
        /\ ~bus.lagged
        /\ bus.queue # <<>>
        /\ bus' = [bus EXCEPT !.queue = Tail(@)]
        /\ \/ /\ ~CanApplyOver(status, inst.status)
              /\ UNCHANGED <<inst, hdl, task>>
           \/ /\ CanApplyOver(status, inst.status)
              /\ inst' = Applied(inst, status)
              /\ hdl' = IF status \in Terminal THEN Dropped({inst.handle}) ELSE hdl
              /\ \/ ~(status = "Crashed" /\ AutoRestart) /\ UNCHANGED task
                 \/ /\ status = "Crashed" /\ AutoRestart
                    /\ \E t \in Timers : /\ At(t, "idle")
                                         /\ Goto(t, "sleep")
        /\ NoInit /\ UNCHANGED left

\* RecvError::Lagged: recover_stale_statuses.
ApplierLagged ==
    /\ At(Applier, "idle")
    /\ bus.lagged
    /\ bus' = [bus EXCEPT !.lagged = FALSE]
    /\ Goto(Applier, "recover")
    /\ NoInit /\ UNCHANGED <<inst, hdl, left>>

\* The 2 s of an auto-restart are over; nobody can have cancelled it.
TimerFires(t) ==
    /\ At(t, "sleep")
    /\ Goto(t, "start")
    /\ NoRecord /\ NoInit /\ UNCHANGED left
-----------------------------------------------------------------------------
(* The relay of a handle (process.rs launch): init's events to the bus.    *)

RelayForwards_TerminalUnset(h) ==  \* seeded fault: stop() is not told
    /\ hdl[h].live
    /\ hdl[h].queue # <<>>
    /\ bus' = Publish(bus, Head(hdl[h].queue))
    /\ hdl' = [hdl EXCEPT ![h].queue = Tail(@)]
    /\ NoInit /\ UNCHANGED <<inst, task, left>>
RelayForwards(h) ==
    LET status == Head(hdl[h].queue)
    IN  /\ hdl[h].live
        /\ hdl[h].queue # <<>>
        /\ bus' = Publish(bus, status)
        /\ hdl' = [hdl EXCEPT ![h].queue = Tail(@),
                              ![h].terminal = @ \/ status \in Terminal,
                              ![h].live = status \notin Terminal]
        /\ NoInit /\ UNCHANGED <<inst, task, left>>

\* What init pushes about process p reaches every live relay of its token.
Pushed(p, status) ==
    [h \in Handles |->
        IF hdl[h].pid = p /\ hdl[h].live /\ hdl[h].bound
        THEN [hdl[h] EXCEPT !.queue = Append(@, status)]
        ELSE hdl[h]]
-----------------------------------------------------------------------------
(* init: supervise / adopt_running of a process, and the registry's relay. *)

Announces(p) ==
    /\ proc[p].state = "new"
    /\ proc' = [proc EXCEPT ![p].state = "up"]
    /\ hdl' = Pushed(p, "Running")
    /\ UNCHANGED <<inst, bus, task, entry, left>>

\* The supervising task receives the stop: asks, waits 30 s, kills.
StopReceived(p) ==
    /\ proc[p].state = "up"
    /\ entry = [pid |-> p, taken |-> TRUE]
    /\ proc' = [proc EXCEPT ![p].state = "stopping"]
    /\ NoRecord /\ UNCHANGED <<task, entry, left>>

\* It is reported Stopped when it was stopped, left with status 0, or was adopted
\* (its exit status is out of reach).
Exits(p, code) ==
    /\ \/ proc[p].state = "up" /\ Spend("exits")
       \/ proc[p].state = "stopping" /\ code = "ok" /\ UNCHANGED left
    /\ proc[p].adopted => code = "ok"
    /\ proc' = IF proc[p].watched
               THEN [proc EXCEPT ![p].state = "exited", ![p].code = code]
               ELSE [proc EXCEPT ![p] = NoProc]
    /\ NoRecord /\ UNCHANGED <<task, entry>>

Reported_EntryKept(p) ==  \* seeded fault: the entry outlives its process
    /\ proc[p].state = "exited"
    /\ proc' = [proc EXCEPT ![p] = NoProc]
    /\ hdl' = Pushed(p, IF proc[p].code = "ok" THEN "Stopped" ELSE "Crashed")
    /\ UNCHANGED <<inst, bus, task, entry, left>>

\* The registry's relay: the entry goes (done is sent), then the event is pushed.
Reported(p) ==
    /\ proc[p].state = "exited"
    /\ proc' = [proc EXCEPT ![p] = NoProc]
    /\ entry' = IF entry.pid = p THEN NoEntry ELSE entry
    /\ hdl' = Pushed(p, IF proc[p].code = "ok" THEN "Stopped" ELSE "Crashed")
    /\ UNCHANGED <<inst, bus, task, left>>

\* init dies and its supervisor brings a new one up: the entries are lost, every
\* connection closes, the server processes live on without anyone watching.
InitRestarts ==
    /\ Spend("inits")
    /\ entry' = NoEntry
    /\ proc' = [p \in Procs |->
                  CASE ~Alive(p) -> NoProc
                    [] proc[p].state = "stopping" -> [NoProc EXCEPT !.state = "stopping"]
                    [] OTHER -> [NoProc EXCEPT !.state = "up"]]
    /\ hdl' = [h \in Handles |->
                  IF hdl[h] = FreshHandle THEN FreshHandle
                  ELSE [hdl[h] EXCEPT !.queue = <<>>, !.live = FALSE, !.bound = FALSE]]
    /\ UNCHANGED <<inst, bus, task>>
-----------------------------------------------------------------------------
StartStep(a) ==
    \/ StartAgain(a) \/ StartProbe(a) \/ AlreadyUp(a) \/ MarkStarting(a)
    \/ NothingToRun(a) \/ JavaMissing(a)
    \/ Launch(a) \/ LaunchRefused(a) \/ LaunchFails(a)

StopStep(a) ==
    \/ StopMarkedDown(a) \/ StopTakesHandle(a) \/ StopNoHandle(a)
    \/ StopExpired(a) \/ StopSent(a) \/ StopDone(a) \/ StopUnconfirmed(a)
    \/ PutBack(a) \/ StopFinal(a)

RecoverStep(a) ==
    RecoverRead(a) \/ RecoverProbe(a) \/ RecoverClear(a) \/ RecoverPublish(a)

TaskStep(a) == StartStep(a) \/ StopStep(a) \/ RecoverStep(a) \/ CallFails(a)

ReconcilerStep ==
    \/ Tick \/ Lookup \/ CheckAlive \/ Adopt \/ NotAdopted
    \/ Settle \/ Decide

ApplierStep == ApplyEvent \/ ApplierLagged

ProcStep(p) ==
    \/ Announces(p) \/ StopReceived(p) \/ Reported(p)
    \/ \E code \in {"ok", "err"} : Exits(p, code)

Next ==
    \/ \E a \in Callers : Start(a) \/ Stop(a) \/ Restart(a)
    \/ \E a \in Tasks : TaskStep(a)
    \/ ReconcilerStep
    \/ ApplierStep
    \/ \E t \in Timers : TimerFires(t)
    \/ \E h \in Handles : RelayForwards(h)
    \/ \E p \in Procs : ProcStep(p)
    \/ InitRestarts

Spec == Init /\ [][Next]_vars

\* Tokio polls every ready task, intervals and sleeps end, and a server that was
\* told to stop leaves or is killed.  Nothing obliges a caller to call, a server
\* to exit by itself, or the environment to fail.
Fairness ==
    /\ \A a \in Tasks : WF_vars(TaskStep(a))
    /\ WF_vars(ReconcilerStep)
    /\ WF_vars(ApplierStep)
    /\ \A t \in Timers : WF_vars(TimerFires(t))
    /\ \A h \in Handles : WF_vars(RelayForwards(h))
    /\ \A p \in Procs :
          /\ WF_vars(Announces(p))
          /\ WF_vars(StopReceived(p))
          /\ WF_vars(Reported(p))
          /\ WF_vars(proc[p].state = "stopping" /\ Exits(p, "ok"))

FairSpec == Spec /\ Fairness
-----------------------------------------------------------------------------
(* Properties.                                                             *)

TypeOK ==
    /\ inst \in InstanceType
    /\ hdl \in [Handles -> HandleType]
    /\ bus \in BusType /\ Len(bus.queue) <= BusCap
    /\ task \in [Tasks -> TaskType]
    /\ entry \in EntryType
    /\ proc \in [Procs -> ProcType]
    /\ left \in [Kinds -> Nat]

Live == {p \in Procs : Alive(p)}

\* However starts, restarts, reconciler ticks and auto-restarts interleave, and
\* whatever answers are lost, no two server processes of the instance are alive,
\* as long as init keeps its entries.
OneProcess ==
    left["inits"] = Budget["inits"] => Cardinality(Live) <= 1

\* init knows every server it watches: a watched process is the one its entry
\* names, until its exit has been reported.
WatchedHasEntry ==
    \A p \in Procs : proc[p].watched => entry.pid = p

\* A stop that returns through its handle has seen the server end: no interleaving
\* with another stop, a restart or a re-adoption lets it return on the exit of
\* some other process.
StopSeesTheEnd ==
    [][\A a \in Tasks : StopFinal(a) => ~Alive(Held(a).pid)]_vars

\* While init has not died it supervises every process there is.
OnlyWatched ==
    /\ left["inits"] <= Budget["inits"]
    /\ left["inits"] = Budget["inits"] =>
          \A p \in Procs : proc[p].state # "none" => proc[p].watched

\* A terminal event a handle has received, or is about to forward, is true: the
\* process the handle was made for has ended.
Ended(h) ==
    \/ hdl[h].terminal
    \/ \E i \in 1..Len(hdl[h].queue) : hdl[h].queue[i] \in Terminal
EndIsReal ==
    \A h \in Handles :
        Ended(h) => hdl[h].pid = None \/ proc[hdl[h].pid].state = "none"

\* A stop that has taken a handle still has it.
StopHolds ==
    \A a \in Tasks :
        task[a].pc \in {"rpc", "confirm", "terminal", "putback"} =>
            task[a].handle # None

\* What makes the three safety properties inductive.
LifecycleInv == WatchedHasEntry /\ OnlyWatched /\ EndIsReal /\ StopHolds

\* The record, the wish and the server agree.
Agrees ==
    IF inst.desired
    THEN inst.status = "Running" /\ HandleAvailable /\ Alive(entry.pid)
    ELSE MarkedDown /\ Live = {}

\* The one way out that is left: the server is up and known, but the record
\* says Starting or Stopping, because the event that would have moved it on came
\* before the last change of the record, or was overtaken by it.  Nothing but
\* another call changes that.
StatusLags == inst.status \in {"Starting", "Stopping"} /\ HandleAvailable

\* What the reconciler is for: once callers, exits and faults are over, record,
\* wish and server agree for good, or the status lags.  A server nobody wants is
\* never forgotten as Stopped, a record never stays up without its server.
SettlesOrLags == <>[](Agrees \/ StatusLags)

\* A server that crashed while it was wanted is brought back, by the auto-restart
\* timer or by the reconciler, whichever comes first.
CrashedComesBack ==
    (inst.status = "Crashed" /\ inst.desired) ~> (HandleAvailable \/ ~inst.desired)

\* Every call returns.
CallsReturn == \A a \in Callers : ~At(a, "idle") ~> At(a, "idle")
-----------------------------------------------------------------------------
(* What docs and comments say and the interleavings do not keep.           *)

\* "stop waits for the end to be confirmed": a stop that returns without error
\* leaves no server process alive.
StopLeavesNothing ==
    [][\A a \in Callers :
          (StopMarkedDown(a) \/ StopFinal(a)) => Live = {}]_vars

=============================================================================
