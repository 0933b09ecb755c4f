----------------------------- MODULE PluginHost -----------------------------
(***************************************************************************)
(* The WASM plugin host (plugin_bridge.rs), for one plugin: a table of      *)
(* slots behind one lock, the plugin of a slot behind a lock of its own,    *)
(* and threads that call exports, switch the plugin on and off, or load     *)
(* the whole table again.  An export may call the API of the plane.         *)
(***************************************************************************)
EXTENDS Naturals

CONSTANTS
    Threads,        \* blocking threads at work for a request, a tick or an event
    Permissions,    \* what the manifest of the plugin lists
    MaxTables,      \* bound: tables of slots
    MaxCalls        \* bound: calls, switches and reloads

VARIABLES
    table,      \* the table in use
    slot,       \* the plugin's slot in each table
    slotsLock,  \* who holds the lock of the slots
    plugin,     \* behind the lock of each slot: is a plugin loaded
    pluginLock, \* who holds the lock of each slot's plugin
    disk,       \* data/plugin-state.json
    thread,     \* where each thread stands
    calls

vars == <<table, slot, slotsLock, plugin, pluginLock, disk, thread, calls>>

Nobody == "nobody"
Tables == 1..MaxTables
Idle == [at |-> "idle", table |-> 1, on |-> FALSE, ask |-> "none"]
Exporting == {"exec", "stopping", "starting", "loading"}

TypeOK ==
    /\ table \in Tables
    /\ \A n \in Tables :
          /\ slot[n].enabled \in BOOLEAN /\ slot[n].running \in BOOLEAN
          /\ plugin[n] \in BOOLEAN /\ pluginLock[n] \in Threads \cup {Nobody}
    /\ slotsLock \in Threads \cup {Nobody}
    /\ \A t \in Threads :
          thread[t].at \in {"idle", "picked", "enter", "exec", "mark", "switch", "stop",
                            "stopping", "start", "starting", "load", "loading", "swap"}

Init ==
    /\ table = 1
    /\ slot = [n \in Tables |-> [enabled |-> TRUE, running |-> FALSE, error |-> FALSE]]
    /\ slotsLock = Nobody
    /\ plugin = [n \in Tables |-> FALSE]
    /\ pluginLock = [n \in Tables |-> Nobody]
    /\ disk = TRUE
    /\ thread = [t \in Threads |-> Idle]
    /\ calls = 0

At(t, at) == thread[t].at = at
Move(t, at) == thread' = [thread EXCEPT ![t].at = at]
Done(t) == thread' = [thread EXCEPT ![t] = Idle]

Begins(t, how) ==
    /\ At(t, "idle") /\ calls < MaxCalls
    /\ calls' = calls + 1
    /\ thread' = [thread EXCEPT ![t] = how]
    /\ UNCHANGED <<table, slot, slotsLock, plugin, pluginLock, disk>>

-----------------------------------------------------------------------------
(* What a plugin may ask of the plane while an export runs: the area its    *)
(* path names and the method.  A path of the extensions may hold "/files".  *)
Extensions == {"extensions", "extension files"}
Asks == (Extensions \cup {"instances", "files", "nodes", "other"}) \X {"GET", "POST"}

Needs(ask) ==
    LET about == ask[1]  get == ask[2] = "GET"  files == {"files", "extension files"} IN
    CASE about = "instances" /\ get  -> {"instances.read"}
      [] about = "nodes" /\ get      -> {"nodes.read"}
      [] about \in files /\ get      -> {"files.read", "files.write"}
      [] about \in files /\ ~get     -> {"files.write"}
      [] about = "instances" /\ ~get -> {"instances.write"}
      [] OTHER -> {}

DenyControl_Forgotten(ask) ==  \* seeded fault: the extension routes are not refused first
    Needs(ask) \cap Permissions = {}

DenyControl(ask) == ask[1] \in Extensions \/ Needs(ask) \cap Permissions = {}

(* cocktail_control: the request is answered by another task, or given up  *)
(* after 60 seconds; the thread waits with the locks it has.               *)
Ask(t) ==
    /\ thread[t].at \in Exporting /\ thread[t].ask = "none"
    /\ \E ask \in Asks : ~DenyControl(ask) /\ thread' = [thread EXCEPT ![t].ask = ask[1]]
    /\ UNCHANGED <<table, slot, slotsLock, plugin, pluginLock, disk, calls>>

(* The routes of the extensions take the lock of the slots, no others do.  *)
Answered(t) ==
    /\ thread[t].ask # "none"
    /\ thread[t].ask \in Extensions => slotsLock = Nobody
    /\ thread' = [thread EXCEPT ![t].ask = "none"]
    /\ UNCHANGED <<table, slot, slotsLock, plugin, pluginLock, disk, calls>>

Busy(t) == thread[t].ask # "none"

-----------------------------------------------------------------------------
(* call_export: for the proxy at once; a tick or an event first lists who  *)
(* runs, and looks again.                                                  *)
Call(t) == Begins(t, [Idle EXCEPT !.at = "picked"])

Listed(t) ==
    /\ slotsLock = Nobody /\ slot[table].running
    /\ Begins(t, [Idle EXCEPT !.at = "picked"])

Look(t) ==
    /\ At(t, "picked") /\ slotsLock = Nobody
    /\ IF slot[table].running
       THEN thread' = [thread EXCEPT ![t].at = "enter", ![t].table = table]
       ELSE Done(t)
    /\ UNCHANGED <<table, slot, slotsLock, plugin, pluginLock, disk, calls>>

Enter(t) ==
    LET n == thread[t].table IN
    /\ At(t, "enter") /\ pluginLock[n] = Nobody
    /\ IF plugin[n]
       THEN Move(t, "exec") /\ pluginLock' = [pluginLock EXCEPT ![n] = t]
       ELSE Done(t) /\ UNCHANGED pluginLock
    /\ UNCHANGED <<table, slot, slotsLock, plugin, disk, calls>>

CallReturns(t) ==
    /\ At(t, "exec") /\ ~Busy(t)
    /\ pluginLock' = [pluginLock EXCEPT ![thread[t].table] = Nobody]
    /\ Done(t)
    /\ UNCHANGED <<table, slot, slotsLock, plugin, disk, calls>>

CallPanics(t) ==
    /\ At(t, "exec") /\ ~Busy(t)
    /\ plugin' = [plugin EXCEPT ![thread[t].table] = FALSE]
    /\ pluginLock' = [pluginLock EXCEPT ![thread[t].table] = Nobody]
    /\ Move(t, "mark")
    /\ UNCHANGED <<table, slot, slotsLock, disk, calls>>

(* The slot of that name is marked, in whatever table is there now.        *)
MarkPanic(t) ==
    /\ At(t, "mark") /\ slotsLock = Nobody
    /\ slot' = [slot EXCEPT ![table].running = FALSE, ![table].error = TRUE]
    /\ Done(t)
    /\ UNCHANGED <<table, slotsLock, plugin, pluginLock, disk, calls>>

-----------------------------------------------------------------------------
(* set_enabled: the file first, then everything under the lock of the slots. *)
SetEnabled(t) ==
    \E on \in BOOLEAN :
        /\ At(t, "idle") /\ calls < MaxCalls
        /\ calls' = calls + 1
        /\ disk' = on
        /\ thread' = [thread EXCEPT ![t] = [Idle EXCEPT !.at = "switch", !.on = on]]
        /\ UNCHANGED <<table, slot, slotsLock, plugin, pluginLock>>

TakeSlots(t) ==
    /\ At(t, "switch") /\ slotsLock = Nobody
    /\ slotsLock' = t
    /\ slot' = [slot EXCEPT ![table].enabled = thread[t].on]
    /\ thread' = [thread EXCEPT ![t].at = "stop", ![t].table = table]
    /\ UNCHANGED <<table, plugin, pluginLock, disk, calls>>

(* stop_slot: it waits for a call that is under way, and calls "stop".     *)
StopSlot_NoWait(t) ==  \* seeded fault: the plugin is taken out beside a call
    LET n == thread[t].table IN
    /\ At(t, "stop")
    /\ pluginLock' = [pluginLock EXCEPT ![n] = t]
    /\ plugin' = [plugin EXCEPT ![n] = FALSE]
    /\ Move(t, IF plugin[n] THEN "stopping" ELSE "start")
    /\ UNCHANGED <<table, slot, slotsLock, disk, calls>>

StopSlot(t) ==
    LET n == thread[t].table IN
    /\ At(t, "stop") /\ pluginLock[n] = Nobody
    /\ pluginLock' = [pluginLock EXCEPT ![n] = t]
    /\ plugin' = [plugin EXCEPT ![n] = FALSE]
    /\ Move(t, IF plugin[n] THEN "stopping" ELSE "start")
    /\ UNCHANGED <<table, slot, slotsLock, disk, calls>>

StopReturns(t) ==
    /\ At(t, "stopping") /\ ~Busy(t)
    /\ Move(t, "start")
    /\ UNCHANGED <<table, slot, slotsLock, plugin, pluginLock, disk, calls>>

(* Stopped: that is all, or the plugin is built and its "start" called.    *)
Stopped(t) ==
    LET n == thread[t].table IN
    /\ At(t, "start")
    /\ pluginLock' = [pluginLock EXCEPT ![n] = Nobody]
    /\ slot' = [slot EXCEPT ![n].running = FALSE]
    /\ IF thread[t].on
       THEN Move(t, "starting") /\ UNCHANGED slotsLock
       ELSE Done(t) /\ slotsLock' = Nobody
    /\ UNCHANGED <<table, plugin, disk, calls>>

(* A failed start of set_enabled is told to the caller only.               *)
StartReturns(t) ==
    LET n == thread[t].table IN
    /\ At(t, "starting") /\ ~Busy(t)
    /\ \/ /\ pluginLock[n] = Nobody
          /\ plugin' = [plugin EXCEPT ![n] = TRUE]
          /\ slot' = [slot EXCEPT ![n].running = TRUE, ![n].error = FALSE]
       \/ UNCHANGED <<plugin, slot>>
    /\ slotsLock' = Nobody
    /\ Done(t)
    /\ UNCHANGED <<table, pluginLock, disk, calls>>

-----------------------------------------------------------------------------
(* reload_inner: the new slots are started without a lock, and put in the  *)
(* place of the old ones.                                                  *)
Reload(t) ==
    /\ \A u \in Threads : thread[u].at \notin {"load", "loading", "swap"}
    /\ table < MaxTables
    /\ Begins(t, [Idle EXCEPT !.at = "load", !.on = disk, !.table = table + 1])

StartNew(t) ==
    LET n == thread[t].table IN
    /\ At(t, "load")
    /\ Move(t, IF thread[t].on THEN "loading" ELSE "swap")
    /\ slot' = [slot EXCEPT ![n].enabled = thread[t].on]
    /\ UNCHANGED <<table, slotsLock, plugin, pluginLock, disk, calls>>

NewStarted(t) ==
    LET n == thread[t].table IN
    /\ At(t, "loading") /\ ~Busy(t)
    /\ \E ok \in BOOLEAN :
          /\ plugin' = [plugin EXCEPT ![n] = ok]
          /\ slot' = [slot EXCEPT ![n].running = ok, ![n].error = ~ok]
    /\ Move(t, "swap")
    /\ UNCHANGED <<table, slotsLock, pluginLock, disk, calls>>

Swap(t) ==
    /\ At(t, "swap") /\ slotsLock = Nobody
    /\ table' = thread[t].table
    /\ Done(t)
    /\ UNCHANGED <<slot, slotsLock, plugin, pluginLock, disk, calls>>

-----------------------------------------------------------------------------
Next ==
    \E t \in Threads :
        \/ Call(t) \/ Listed(t) \/ Look(t) \/ Enter(t) \/ CallReturns(t)
        \/ CallPanics(t) \/ MarkPanic(t) \/ Ask(t) \/ Answered(t)
        \/ SetEnabled(t) \/ TakeSlots(t) \/ StopSlot(t) \/ StopReturns(t)
        \/ Stopped(t) \/ StartReturns(t)
        \/ Reload(t) \/ StartNew(t) \/ NewStarted(t) \/ Swap(t)

Spec == Init /\ [][Next]_vars

-----------------------------------------------------------------------------
(* Whom a thread waits for: the holder of the lock it needs.               *)
WaitsFor(t) ==
    LET slots == thread[t].at \in {"picked", "mark", "switch", "swap"}
                 \/ thread[t].ask \in Extensions
        inner == thread[t].at \in {"enter", "stop"}
    IN  ((IF slots THEN {slotsLock} ELSE {})
         \cup (IF inner THEN {pluginLock[thread[t].table]} ELSE {})) \ {Nobody}

(* No thread waits for itself, and no two wait for one another: an export  *)
(* that runs under a lock never needs a thread that waits for the lock     *)
(* (plugin_bridge.rs:302, :442, :964).  With two locks there is no longer  *)
(* circle.                                                                 *)
NoLockCycle ==
    \A t \in Threads : t \notin WaitsFor(t) /\ \A u \in WaitsFor(t) : t \notin WaitsFor(u)

(* The plugin of a slot runs one export at a time, its "start" and "stop"  *)
(* included, and a slot that counts as running has its plugin loaded,       *)
(* unless the panic that took it is about to be marked (plugin_bridge.rs:422). *)
PluginRunsAlone ==
    /\ \A t, u \in Threads :
          /\ thread[t].at \in Exporting /\ thread[u].at \in Exporting
          /\ thread[t].table = thread[u].table
          => t = u
    /\ slot[table].running =>
          \/ plugin[table]
          \/ \E t \in Threads : thread[t].at \in {"mark", "stopping", "start"}
                                /\ thread[t].table = table

(* Why they hold.  The locks are held by those who are at work under them,  *)
(* the switch on the table in use; who builds a table is alone with it.     *)
Locking == {"stop", "stopping", "start", "starting"}
Loading == {"load", "loading", "swap"}
LocksAreHeld ==
    /\ \A t \in Threads : slotsLock = t <=> thread[t].at \in Locking
    /\ \A n \in Tables : \A t \in Threads :
          pluginLock[n] = t
              <=> thread[t].table = n /\ thread[t].at \in {"exec", "stopping", "start"}
    /\ \A t \in Threads : thread[t].at \in Locking => thread[t].table = table
TablesAreBuiltApart ==
    /\ \A t \in Threads :
          IF thread[t].at \in Loading THEN thread[t].table = table + 1
          ELSE thread[t].table <= table
    /\ \A t, u \in Threads : thread[t].at \in Loading /\ thread[u].at \in Loading => t = u

(* An export of a call runs on a plugin that is loaded, the switch works on *)
(* one that is taken out; a slot runs with a plugin, or is about to be       *)
(* marked.                                                                  *)
PluginsAreLoaded ==
    \A t \in Threads :
        /\ thread[t].at = "exec" => plugin[thread[t].table]
        /\ thread[t].at \in {"stopping", "start", "starting"} => ~plugin[thread[t].table]
        /\ thread[t].ask \notin Extensions
SlotsAreTrue ==
    \A n \in Tables :
        n >= table /\ slot[n].running =>
            \/ plugin[n]
            \/ \E t \in Threads :
                  thread[t].at \in {"mark", "stopping", "start"} /\ thread[t].table = n

(* What every step keeps. *)
Standing ==
    [at : {"idle", "picked", "enter", "exec", "mark", "switch"} \cup Locking \cup Loading,
     table : Tables, on : BOOLEAN,
     ask : {"none", "instances", "files", "nodes", "other"} \cup Extensions]
HostInv ==
    /\ table \in Tables /\ disk \in BOOLEAN
    /\ slot \in [Tables -> [enabled : BOOLEAN, running : BOOLEAN, error : BOOLEAN]]
    /\ plugin \in [Tables -> BOOLEAN]
    /\ slotsLock \in Threads \cup {Nobody}
    /\ pluginLock \in [Tables -> Threads \cup {Nobody}]
    /\ thread \in [Threads -> Standing]
    /\ LocksAreHeld /\ TablesAreBuiltApart /\ PluginsAreLoaded /\ SlotsAreTrue
=============================================================================
