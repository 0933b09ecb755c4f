----------------------------- MODULE PlaneStore -----------------------------
(***************************************************************************)
(* What control keeps over a restart (state.rs, db.rs): the instances in   *)
(* a table of SQLite, instances and schedules in data/state.json.  Every   *)
(* operation changes memory under a lock and persists after it, so that    *)
(* several persists may be under way.  Control may die at any step.        *)
(***************************************************************************)
EXTENDS Naturals, FiniteSets

CONSTANTS
    Ids,            \* identities of instances
    Persisters,     \* operations that change something and persist it
    MaxChanges,     \* bound: changes of the lists
    MaxTroubles     \* bound: deaths of control and failed writes

VARIABLES
    instances,  \* AppState::instances: records [id, rev]
    schedules,  \* AppState::schedules: identities of the instances they are for
    table,      \* the rows of the table "instances"
    file,       \* data/state.json: [instances, schedules], or Torn, or Absent
    op,         \* where each operation stands, and what it took
    up,         \* control runs
    changes, troubles,      \* what has been used of the bounds
    given,      \* history: every list of instances that memory ever held
    settled     \* history: the last persist began alone, stayed alone and did not fail

vars == <<instances, schedules, table, file, op, up, changes, troubles, given, settled>>

Record == [id : Ids, rev : 0..MaxChanges]
Absent == [kind |-> "absent", instances |-> {}, schedules |-> {}]
Torn == [Absent EXCEPT !.kind = "torn"]
Written(i, s) == [kind |-> "written", instances |-> i, schedules |-> s]
NoOp == [at |-> "idle", instances |-> {}, schedules |-> {}]

TypeOK ==
    /\ instances \subseteq Record /\ table \subseteq Record
    /\ schedules \subseteq Ids
    /\ file.kind \in {"absent", "torn", "written"}
    /\ \A p \in Persisters :
          op[p].at \in {"idle", "persist", "schedules", "table", "truncate", "write"}
    /\ up \in BOOLEAN /\ settled \in BOOLEAN
    /\ changes <= MaxChanges /\ troubles <= MaxTroubles

Init ==
    /\ instances = {} /\ schedules = {} /\ table = {} /\ file = Absent
    /\ op = [p \in Persisters |-> NoOp]
    /\ up = TRUE /\ changes = 0 /\ troubles = 0
    /\ given = {{}} /\ settled = TRUE

Busy == {p \in Persisters : op[p].at # "idle"}

-----------------------------------------------------------------------------
(* The changes: one critical section each, then the persist. *)

Changed(p, i, s) ==
    /\ up /\ op[p].at = "idle" /\ changes < MaxChanges
    /\ instances' = i /\ schedules' = s
    /\ changes' = changes + 1
    /\ given' = given \cup {i}
    /\ op' = [op EXCEPT ![p].at = "persist"]
    /\ settled' = (settled /\ Busy = {})
    /\ UNCHANGED <<table, file, up, troubles>>

Create(p) == \E id \in Ids :
    /\ \A r \in instances : r.id # id
    /\ Changed(p, instances \cup {[id |-> id, rev |-> changes]}, schedules)

Update(p) == \E r \in instances :
    Changed(p, (instances \ {r}) \cup {[r EXCEPT !.rev = changes]}, schedules)

(* delete_instance leaves the schedules of the instance. *)
Delete(p) == \E r \in instances : Changed(p, instances \ {r}, schedules)

CreateSchedule(p) == \E r \in instances : Changed(p, instances, schedules \cup {r.id})

DeleteSchedule_NotSaved(p) == \E id \in schedules :  \* seeded fault: no persist
    /\ up /\ op[p].at = "idle" /\ changes < MaxChanges
    /\ schedules' = schedules \ {id} /\ changes' = changes + 1
    /\ UNCHANGED <<instances, table, file, op, up, troubles, given, settled>>

DeleteSchedule(p) == \E id \in schedules : Changed(p, instances, schedules \ {id})

-----------------------------------------------------------------------------
(* AppState::persist. *)

Stage(p, from, to) == up /\ op[p].at = from /\ op' = [op EXCEPT ![p].at = to]

SnapInstances(p) ==
    /\ up /\ op[p].at = "persist"
    /\ op' = [op EXCEPT ![p].at = "schedules", ![p].instances = instances]
    /\ settled' = (Busy = {p})
    /\ UNCHANGED <<instances, schedules, table, file, up, changes, troubles, given>>

SnapSchedules(p) ==
    /\ up /\ op[p].at = "schedules"
    /\ op' = [op EXCEPT ![p].at = "table", ![p].schedules = schedules]
    /\ UNCHANGED <<instances, schedules, table, file, up, changes, troubles, given, settled>>

(* replace_instances is one transaction. *)
WriteTable_Merge(p) ==  \* seeded fault: rows are added, the old ones not deleted
    /\ Stage(p, "table", "truncate")
    /\ table' = table \cup op[p].instances
    /\ UNCHANGED <<instances, schedules, file, up, changes, troubles, given, settled>>

WriteTable(p) ==
    /\ Stage(p, "table", "truncate")
    /\ table' = op[p].instances
    /\ UNCHANGED <<instances, schedules, file, up, changes, troubles, given, settled>>

(* fs::write opens with truncation and then writes. *)
Truncate(p) ==
    /\ Stage(p, "truncate", "write")
    /\ file' = Torn
    /\ UNCHANGED <<instances, schedules, table, up, changes, troubles, given, settled>>

WriteFile(p) ==
    /\ up /\ op[p].at = "write"
    /\ file' = Written(op[p].instances, op[p].schedules)
    /\ op' = [op EXCEPT ![p] = NoOp]
    /\ UNCHANGED <<instances, schedules, table, up, changes, troubles, given, settled>>

(* An error ends the persist; every caller ignores it. *)
PersistFails(p) ==
    /\ up /\ op[p].at \in {"table", "truncate", "write"} /\ troubles < MaxTroubles
    /\ op' = [op EXCEPT ![p] = NoOp]
    /\ troubles' = troubles + 1
    /\ settled' = FALSE
    /\ UNCHANGED <<instances, schedules, table, file, up, changes, given>>

-----------------------------------------------------------------------------
Die ==
    /\ up /\ troubles < MaxTroubles
    /\ troubles' = troubles + 1
    /\ up' = FALSE
    /\ instances' = {} /\ schedules' = {}
    /\ op' = [p \in Persisters |-> NoOp]
    /\ UNCHANGED <<table, file, changes, given, settled>>

(* hydrate_state: the table, or the file when the table has no row or      *)
(* cannot be read; the schedules come from the file.  An empty table is     *)
(* taken for one that was never filled, and filled from the file.           *)
RecoveredInstances(readable) ==
    IF readable /\ table # {} THEN table ELSE file.instances

Hydrate(readable) ==
    /\ ~up
    /\ up' = TRUE
    /\ instances' = RecoveredInstances(readable)
    /\ schedules' = file.schedules
    /\ table' = IF readable THEN instances' ELSE table
    /\ settled' = readable
    /\ UNCHANGED <<file, op, changes, troubles, given>>

Restart == Hydrate(TRUE)

(* A row that cannot be read makes load_instances fail as a whole. *)
RestartUnreadable ==
    /\ troubles < MaxTroubles
    /\ Hydrate(FALSE)

-----------------------------------------------------------------------------
Next ==
    \/ \E p \in Persisters :
          \/ Create(p) \/ Update(p) \/ Delete(p)
          \/ CreateSchedule(p) \/ DeleteSchedule(p)
          \/ SnapInstances(p) \/ SnapSchedules(p) \/ WriteTable(p)
          \/ Truncate(p) \/ WriteFile(p) \/ PersistFails(p)
    \/ Die \/ Restart \/ RestartUnreadable

Spec == Init /\ [][Next]_vars

-----------------------------------------------------------------------------
(* Why the properties hold.  Nothing is ever taken or written but a list    *)
(* that memory held, and an empty one is such a list.                       *)
Stages == {"idle", "persist", "schedules", "table", "truncate", "write"}
HeldLists ==
    /\ {} \in given /\ given \subseteq SUBSET Record
    /\ instances \in given /\ table \in given
    /\ file \in [kind : {"absent", "torn", "written"}, instances : given, schedules : SUBSET Ids]
    /\ op \in [Persisters -> [at : Stages, instances : given, schedules : SUBSET Ids]]

(* A persist that is alone has taken what is in memory as far as it came,   *)
(* and the table has it from then on.                                       *)
TookWhatIs(p) ==
    /\ op[p].at \in {"schedules", "table", "truncate", "write"} => op[p].instances = instances
    /\ op[p].at \in {"table", "truncate", "write"} => op[p].schedules = schedules
    /\ op[p].at \in {"truncate", "write"} => table = instances
PersistsSettle ==
    /\ ~up => Busy = {}
    /\ up /\ settled => \A p \in Busy : Busy = {p} /\ TookWhatIs(p)

-----------------------------------------------------------------------------
(* What a restart would recover is a list of instances that memory held at *)
(* some time: never a mixture of two, whatever the order of the persists   *)
(* and wherever control died (state.rs:309, db.rs:378).                    *)
RecoversOneList == RecoveredInstances(TRUE) \in given

(* At rest, after persists that did not overlap and did not fail, a restart *)
(* recovers what is in memory (state.rs:235).  It holds again after a       *)
(* restart, whatever was lost by it.                                       *)
DurableAtRest ==
    up /\ Busy = {} /\ settled
        => RecoveredInstances(TRUE) = instances /\ file.schedules = schedules

(* What every step keeps. *)
StoreInv ==
    /\ schedules \subseteq Ids
    /\ changes \in 0..MaxChanges /\ troubles \in 0..MaxTroubles
    /\ up \in BOOLEAN /\ settled \in BOOLEAN
    /\ HeldLists /\ PersistsSettle /\ DurableAtRest
=============================================================================
