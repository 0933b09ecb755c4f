----------------------------- MODULE PlaneProofs -----------------------------
(***************************************************************************)
(* What the store, the scheduler, the automations, the services and the     *)
(* plugin host of MCPlane promise, for every value of their constants.      *)
(* Each has an invariant that every step of it keeps; as a behaviour of     *)
(* MCPlane is one of one component, it then holds in all of them.           *)
(***************************************************************************)
EXTENDS PlaneParts, Integers, TLAPS

-----------------------------------------------------------------------------
(* PlaneStore.  x1 is instances, x2 schedules, x3 table, x4 file, x5 op,    *)
(* x6 up, x7 changes, x8 troubles, x9 given and x10 settled.               *)

(* The lists that the store starts with are empty ones. *)
LEMMA StoreStarts == Store!Init => Store!StoreInv
BY StoreBounds
   DEF Store!Init, Store!StoreInv, Store!HeldLists, Store!PersistsSettle, Store!DurableAtRest,
       Store!RecoveredInstances, Store!Absent, Store!NoOp, Store!Stages, Store!Busy

(* A change: memory moves to a list that is remembered from then on, and a  *)
(* persist begins, which may find others under way.                        *)
LEMMA StoreChanges ==
    ASSUME Store!StoreInv, NEW p \in Persisters, NEW i \in SUBSET Store!Record,
           NEW s \in SUBSET Records, Store!Changed(p, i, s)
    PROVE  Store!StoreInv'
<1> USE StoreBounds DEF Store!StoreInv, Store!HeldLists, Store!Changed, Store!Stages
<1>1. (x2 \subseteq Records /\ x7 \in 0..MaxChanges /\ x8 \in 0..StoreTroubles
       /\ x6 \in BOOLEAN /\ x10 \in BOOLEAN)'
  OBVIOUS
<1>2. Store!HeldLists'
  <2>1. x9 \subseteq x9'
    OBVIOUS
  <2>2. x5' = [x5 EXCEPT ![p].at = "persist"]
    OBVIOUS
  <2>3. x5' \in [Persisters -> [at : Store!Stages, instances : x9', schedules : SUBSET Records]]
    BY <2>1, <2>2
  <2> QED
    BY <2>1, <2>3
<1>3. Store!Busy' = Store!Busy \cup {p}
  BY DEF Store!Busy
<1>4. Store!PersistsSettle'
  BY <1>3 DEF Store!PersistsSettle, Store!TookWhatIs, Store!Busy
<1>5. Store!DurableAtRest'
  BY <1>3 DEF Store!DurableAtRest
<1> QED
  BY <1>1, <1>2, <1>4, <1>5

(* One stage of a persist.  It is only left alone when it was alone before. *)
LEMMA StorePersists ==
    ASSUME Store!StoreInv, NEW p \in Persisters,
           \/ Store!SnapInstances(p) \/ Store!SnapSchedules(p) \/ Store!WriteTable(p)
           \/ Store!Truncate(p)
    PROVE  Store!StoreInv'
<1> USE StoreBounds DEF Store!StoreInv, Store!HeldLists, Store!Stages, Store!Stage
<1>1. CASE Store!SnapInstances(p)
  <2>1. x5' = [x5 EXCEPT ![p].at = "schedules", ![p].instances = x1]
    BY <1>1 DEF Store!SnapInstances
  <2>2. Store!HeldLists'
    <3>1. [x5[p] EXCEPT !.at = "schedules", !.instances = x1]
            \in [at : Store!Stages, instances : x9, schedules : SUBSET Records]
      OBVIOUS
    <3>2. x9' = x9 /\ x5' = [x5 EXCEPT ![p] = [x5[p] EXCEPT !.at = "schedules", !.instances = x1]]
      BY <1>1, <2>1 DEF Store!SnapInstances
    <3>3. x5' \in [Persisters -> [at : Store!Stages, instances : x9', schedules : SUBSET Records]]
      BY <3>1, <3>2
    <3> QED
      BY <1>1, <3>3 DEF Store!SnapInstances
  <2>3. Store!Busy' = Store!Busy
    BY <1>1, <2>1 DEF Store!SnapInstances, Store!Busy
  <2>4. Store!PersistsSettle'
    BY <1>1, <2>1, <2>3
       DEF Store!SnapInstances, Store!PersistsSettle, Store!TookWhatIs, Store!Busy
  <2>5. Store!DurableAtRest'
    BY <1>1, <2>3 DEF Store!SnapInstances, Store!DurableAtRest, Store!Busy
  <2> QED
    BY <1>1, <2>2, <2>4, <2>5 DEF Store!SnapInstances
<1>2. CASE Store!SnapSchedules(p)
  <2>1. x5' = [x5 EXCEPT ![p].at = "table", ![p].schedules = x2]
    BY <1>2 DEF Store!SnapSchedules
  <2>2. Store!HeldLists'
    <3>1. [x5[p] EXCEPT !.at = "table", !.schedules = x2]
            \in [at : Store!Stages, instances : x9, schedules : SUBSET Records]
      OBVIOUS
    <3>2. x9' = x9 /\ x5' = [x5 EXCEPT ![p] = [x5[p] EXCEPT !.at = "table", !.schedules = x2]]
      BY <1>2, <2>1 DEF Store!SnapSchedules
    <3>3. x5' \in [Persisters -> [at : Store!Stages, instances : x9', schedules : SUBSET Records]]
      BY <3>1, <3>2
    <3> QED
      BY <1>2, <3>3 DEF Store!SnapSchedules
  <2>3. Store!Busy' = Store!Busy
    BY <1>2, <2>1 DEF Store!SnapSchedules, Store!Busy
  <2>4. Store!PersistsSettle'
    BY <1>2, <2>1, <2>3
       DEF Store!SnapSchedules, Store!PersistsSettle, Store!TookWhatIs, Store!Busy
  <2>5. Store!DurableAtRest'
    BY <1>2, <2>3 DEF Store!SnapSchedules, Store!DurableAtRest, Store!Busy
  <2> QED
    BY <1>2, <2>2, <2>4, <2>5 DEF Store!SnapSchedules
<1>3. CASE Store!WriteTable(p)
  <2>1. x5' = [x5 EXCEPT ![p].at = "truncate"] /\ x5[p].at = "table"
    BY <1>3 DEF Store!WriteTable
  <2>2. Store!HeldLists'
    BY <1>3, <2>1 DEF Store!WriteTable
  <2>3. Store!Busy' = Store!Busy
    BY <1>3, <2>1 DEF Store!WriteTable, Store!Busy
  <2>4. Store!PersistsSettle'
    BY <1>3, <2>1, <2>3
       DEF Store!WriteTable, Store!PersistsSettle, Store!TookWhatIs, Store!Busy
  <2>5. Store!DurableAtRest'
    BY <1>3, <2>1, <2>3 DEF Store!WriteTable, Store!DurableAtRest, Store!Busy
  <2> QED
    BY <1>3, <2>2, <2>4, <2>5 DEF Store!WriteTable
<1>4. CASE Store!Truncate(p)
  <2>1. x5' = [x5 EXCEPT ![p].at = "write"] /\ x5[p].at = "truncate"
    BY <1>4 DEF Store!Truncate
  <2>2. Store!HeldLists'
    <3>1. x4' = [kind |-> "torn", instances |-> {}, schedules |-> {}]
      BY <1>4 DEF Store!Truncate, Store!Torn, Store!Absent
    <3>2. x4' \in [kind : {"absent", "torn", "written"}, instances : x9, schedules : SUBSET Records]
      BY <3>1
    <3> QED
      BY <1>4, <2>1, <3>2 DEF Store!Truncate
  <2>3. Store!Busy' = Store!Busy
    BY <1>4, <2>1 DEF Store!Truncate, Store!Busy
  <2>4. Store!PersistsSettle'
    BY <1>4, <2>1, <2>3
       DEF Store!Truncate, Store!PersistsSettle, Store!TookWhatIs, Store!Busy
  <2>5. Store!DurableAtRest'
    BY <1>4, <2>1, <2>3 DEF Store!Truncate, Store!DurableAtRest, Store!Busy
  <2> QED
    BY <1>4, <2>2, <2>4, <2>5 DEF Store!Truncate
<1> QED
  BY <1>1, <1>2, <1>3, <1>4

(* A persist ends: with the file written, or with an error that nobody sees. *)
LEMMA StoreEndsPersist ==
    ASSUME Store!StoreInv, NEW p \in Persisters,
           Store!WriteFile(p) \/ Store!PersistFails(p)
    PROVE  Store!StoreInv'
<1> USE StoreBounds DEF Store!StoreInv, Store!HeldLists, Store!Stages
<1>1. /\ x5' = [x5 EXCEPT ![p] = Store!NoOp] /\ x6 /\ x6' /\ x5[p].at # "idle"
      /\ UNCHANGED <<x1, x2, x3, x7, x9>>
  BY DEF Store!WriteFile, Store!PersistFails
<1>2. x4' \in [kind : {"absent", "torn", "written"}, instances : x9, schedules : SUBSET Records]
  BY DEF Store!WriteFile, Store!PersistFails, Store!Written
<1>3. Store!HeldLists'
  BY <1>1, <1>2 DEF Store!NoOp
<1>4. Store!Busy' = Store!Busy \ {p}
  BY <1>1 DEF Store!Busy, Store!NoOp
<1>5. CASE Store!WriteFile(p)
  <2>1. x10' => x10
    BY <1>5 DEF Store!WriteFile
  <2>2. Store!PersistsSettle'
    BY <1>1, <1>4, <2>1 DEF Store!PersistsSettle, Store!TookWhatIs, Store!Busy
  <2>3. x10 => x5[p].instances = x1 /\ x5[p].schedules = x2 /\ x3 = x1
    BY <1>5, <1>1 DEF Store!WriteFile, Store!PersistsSettle, Store!TookWhatIs, Store!Busy
  <2>4. x4'.instances = x5[p].instances /\ x4'.schedules = x5[p].schedules
    BY <1>5 DEF Store!WriteFile, Store!Written
  <2>5. Store!DurableAtRest'
    BY <1>1, <2>1, <2>3, <2>4 DEF Store!DurableAtRest, Store!RecoveredInstances
  <2> QED
    BY <1>5, <1>1, <1>3, <2>2, <2>5 DEF Store!WriteFile
<1>6. CASE Store!PersistFails(p)
  <2>1. x8' \in 0..StoreTroubles /\ x10' = FALSE
    BY <1>6 DEF Store!PersistFails
  <2> QED
    BY <1>1, <1>3, <2>1 DEF Store!PersistsSettle, Store!DurableAtRest
<1> QED
  BY <1>5, <1>6

(* Control dies: what was under way is gone, the table and the file stay.   *)
LEMMA StoreDies == Store!StoreInv /\ Store!Die => Store!StoreInv'
<1> SUFFICES ASSUME Store!StoreInv, Store!Die
             PROVE  Store!StoreInv'
  OBVIOUS
<1> USE StoreBounds DEF Store!StoreInv, Store!HeldLists, Store!Die, Store!NoOp
<1>1. x8' \in 0..StoreTroubles /\ x6' = FALSE
  OBVIOUS
<1>2. Store!HeldLists'
  BY DEF Store!Stages
<1>3. Store!Busy' = {}
  BY DEF Store!Busy
<1> QED
  BY <1>1, <1>2, <1>3 DEF Store!PersistsSettle, Store!DurableAtRest

(* Control starts again: what it takes from the disk is a list that it had, *)
(* and the table has it, unless it could not be read.                       *)
LEMMA StoreRestarts ==
    Store!StoreInv /\ (Store!Restart \/ Store!RestartUnreadable) => Store!StoreInv'
<1> SUFFICES ASSUME Store!StoreInv, NEW readable \in BOOLEAN, Store!Hydrate(readable)
             PROVE  Store!StoreInv'
  BY DEF Store!Restart, Store!RestartUnreadable
<1> USE StoreBounds DEF Store!StoreInv, Store!HeldLists, Store!Stages, Store!Hydrate
<1>1. x1' \in x9 /\ x3' \in x9
  BY DEF Store!RecoveredInstances
<1>2. Store!HeldLists'
  BY <1>1
<1>3. Store!Busy' = {} /\ x6'
  BY DEF Store!PersistsSettle, Store!Busy
<1>4. Store!PersistsSettle'
  BY <1>3 DEF Store!PersistsSettle
<1>5. Store!DurableAtRest'
  BY DEF Store!DurableAtRest, Store!RecoveredInstances
<1> QED
  BY <1>2, <1>4, <1>5

(* Every step of the store keeps its invariant. *)
LEMMA StoreSteps == Store!StoreInv /\ [Store!Next]_(Store!vars) => Store!StoreInv'
<1> SUFFICES ASSUME Store!StoreInv, [Store!Next]_(Store!vars)
             PROVE  Store!StoreInv'
  OBVIOUS
<1>1. CASE UNCHANGED Store!vars
  BY <1>1 DEF Store!vars, Store!StoreInv, Store!HeldLists, Store!PersistsSettle, Store!TookWhatIs,
              Store!DurableAtRest, Store!RecoveredInstances, Store!Busy
<1>2. ASSUME NEW p \in Persisters,
             \/ Store!Create(p) \/ Store!Update(p) \/ Store!Delete(p)
             \/ Store!CreateSchedule(p) \/ Store!DeleteSchedule(p)
      PROVE  Store!StoreInv'
  <2>1. x1 \subseteq Store!Record /\ x2 \subseteq Records /\ x7 \in 0..MaxChanges
    BY DEF Store!StoreInv, Store!HeldLists
  <2>2. SUFFICES \E i, s : /\ Store!Changed(p, i, s)
                           /\ i \subseteq Store!Record /\ s \subseteq Records
    BY StoreChanges
  <2>3. CASE Store!Create(p)
    <3>1. PICK id \in Records :
             Store!Changed(p, x1 \cup {[id |-> id, rev |-> x7]}, x2)
      BY <2>3 DEF Store!Create
    <3>2. x1 \cup {[id |-> id, rev |-> x7]} \subseteq Store!Record
      BY <2>1 DEF Store!Record
    <3> QED
      BY <2>1, <3>1, <3>2
  <2>4. CASE Store!Update(p)
    <3>1. PICK r \in x1 : Store!Changed(p, (x1 \ {r}) \cup {[r EXCEPT !.rev = x7]}, x2)
      BY <2>4 DEF Store!Update
    <3>2. (x1 \ {r}) \cup {[r EXCEPT !.rev = x7]} \subseteq Store!Record
      BY <2>1 DEF Store!Record
    <3> QED
      BY <2>1, <3>1, <3>2
  <2>5. CASE Store!Delete(p)
    BY <2>1, <2>5 DEF Store!Delete
  <2>6. CASE Store!CreateSchedule(p)
    <3>1. PICK r \in x1 : Store!Changed(p, x1, x2 \cup {r.id})
      BY <2>6 DEF Store!CreateSchedule
    <3>2. x2 \cup {r.id} \subseteq Records
      BY <2>1 DEF Store!Record
    <3> QED
      BY <2>1, <3>1, <3>2
  <2>7. CASE Store!DeleteSchedule(p)
    BY <2>1, <2>7 DEF Store!DeleteSchedule
  <2> QED
    BY <1>2, <2>3, <2>4, <2>5, <2>6, <2>7
<1>3. ASSUME NEW p \in Persisters,
             \/ Store!SnapInstances(p) \/ Store!SnapSchedules(p) \/ Store!WriteTable(p)
             \/ Store!Truncate(p)
      PROVE  Store!StoreInv'
  BY <1>3, StorePersists
<1>4. ASSUME NEW p \in Persisters, Store!WriteFile(p) \/ Store!PersistFails(p)
      PROVE  Store!StoreInv'
  BY <1>4, StoreEndsPersist
<1> QED
  BY <1>1, <1>2, <1>3, <1>4, StoreDies, StoreRestarts DEF Store!Next

-----------------------------------------------------------------------------
(* Scheduler.  x1 is now, x2 sched, x3 saved, x4 loop, x5 restarts,         *)
(* x6 ended and x7 late.                                                    *)

(* There is no schedule at first. *)
LEMMA SchedulerStarts == Timed!Init => Timed!SchedulerInv
BY ScheduleBounds
   DEF Timed!Init, Timed!SchedulerInv, Timed!Listing, Timed!Spaced, Timed!CopiesAreDue,
       Timed!DeletedStay, Timed!Never

(* Time passes, a schedule is made or deleted: memory and disk agree after  *)
(* it on that schedule, and what is made is an interval away.               *)
LEMMA SchedulesChange ==
    ASSUME Timed!SchedulerInv,
           \/ Timed!Tick
           \/ \E s \in Schedules : Timed!CreateSchedule(s) \/ Timed!DeleteSchedule(s)
    PROVE  Timed!SchedulerInv'
<1> USE ScheduleBounds
    DEF Timed!SchedulerInv, Timed!Listing, Timed!Spaced, Timed!CopiesAreDue, Timed!DeletedStay,
        Timed!Never
<1>1. CASE Timed!Tick
  BY <1>1 DEF Timed!Tick
<1>2. ASSUME NEW s \in Schedules, Timed!CreateSchedule(s)
      PROVE  Timed!SchedulerInv'
  <2>1. /\ x2[s].state = "unborn" /\ x2' = [x2 EXCEPT ![s] = [state |-> "listed", next |-> x1 + Every]]
        /\ x3' = x2' /\ UNCHANGED <<x1, x4, x6, x7>>
    BY <1>2 DEF Timed!CreateSchedule
  <2>2. x2' \in Timed!Listing
    BY <2>1
  <2>3. Timed!Spaced(x2)' /\ Timed!Spaced(x3)'
    BY <2>1
  <2>4. Timed!CopiesAreDue'
    BY <2>1
  <2>5. Timed!DeletedStay'
    BY <2>1
  <2> QED
    BY <2>1, <2>2, <2>3, <2>4, <2>5
<1>3. ASSUME NEW s \in Schedules, Timed!DeleteSchedule(s)
      PROVE  Timed!SchedulerInv'
  <2>1. /\ x2' = [x2 EXCEPT ![s].state = "deleted"] /\ x2[s].state = "listed"
        /\ x3' = x2' /\ UNCHANGED <<x1, x4, x6, x7>>
    BY <1>3 DEF Timed!DeleteSchedule
  <2>2. x2' \in Timed!Listing
    BY <2>1
  <2>3. Timed!Spaced(x2)' /\ Timed!Spaced(x3)'
    BY <2>1
  <2>4. Timed!CopiesAreDue'
    BY <2>1
  <2>5. Timed!DeletedStay'
    BY <2>1
  <2> QED
    BY <2>1, <2>2, <2>3, <2>4, <2>5
<1> QED
  BY <1>1, <1>2, <1>3

(* The loop copies what is due, and takes one of the copies.  A copy of a   *)
(* schedule that was deleted meanwhile is the last there is of it.          *)
LEMMA LoopTakes ==
    ASSUME Timed!SchedulerInv, Timed!CollectDue \/ Timed!RunDue
    PROVE  Timed!SchedulerInv'
<1> USE ScheduleBounds
    DEF Timed!SchedulerInv, Timed!Listing, Timed!Spaced, Timed!CopiesAreDue, Timed!DeletedStay,
        Timed!Never
<1>1. CASE Timed!CollectDue
  <2>1. /\ x4' = [x4 EXCEPT !.at = "pick", !.due = {s \in Schedules : Timed!Due(s)}]
        /\ UNCHANGED <<x1, x2, x3, x6, x7>>
    BY <1>1 DEF Timed!CollectDue
  <2>2. x4.at = "idle" /\ x4.cur = {} /\ x4'.cur = {}
    BY <1>1, <2>1 DEF Timed!CollectDue
  <2>3. \A s \in x4'.due : s \in Schedules /\ x2[s].state = "listed" /\ x2[s].next <= x1
    BY <2>1 DEF Timed!Due
  <2>4. Timed!CopiesAreDue'
    BY <2>1, <2>2, <2>3
  <2>5. Timed!DeletedStay'
    BY <2>1, <2>3
  <2>6. x4' \in [at : {"idle", "pick", "run", "save"},
                 due : SUBSET Schedules, cur : SUBSET Schedules, end : Int] /\ x4'.end = x4.end
    BY <2>1
  <2> QED
    BY <2>1, <2>4, <2>5, <2>6
<1>2. CASE Timed!RunDue
  <2>1. CASE x4' = [x4 EXCEPT !.at = "idle"] /\ x4.due = {} /\ x7' = x7
    BY <1>2, <2>1 DEF Timed!RunDue
  <2>2. ASSUME NEW s \in x4.due,
               x4' = [x4 EXCEPT !.at = "run", !.due = @ \ {s}, !.cur = {s}],
               x7' = [x7 EXCEPT ![s] = IF x2[s].state = "deleted" THEN @ + 1 ELSE @]
        PROVE  Timed!SchedulerInv'
    <3>1. UNCHANGED <<x1, x2, x3, x6>>
      BY <1>2 DEF Timed!RunDue
    <3>2. Timed!CopiesAreDue'
      BY <3>1, <2>2
    <3>3. Timed!DeletedStay'
      BY <3>1, <2>2
    <3>4. x7' \in [Schedules -> Nat]
      BY <2>2
    <3>5. /\ x4' \in [at : {"idle", "pick", "run", "save"},
                     due : SUBSET Schedules, cur : SUBSET Schedules, end : Int]
          /\ x4'.end = x4.end
      BY <2>2
    <3> QED
      BY <3>1, <3>2, <3>3, <3>4, <3>5
  <2> QED
    BY <1>2, <2>1, <2>2 DEF Timed!RunDue
<1> QED
  BY <1>1, <1>2

(* A run ends and its end is saved: the next time of its schedule is an     *)
(* interval after it, first in memory and then on disk.                     *)
LEMMA RunIsSaved ==
    ASSUME Timed!SchedulerInv, Timed!RunEnds \/ Timed!SaveRun
    PROVE  Timed!SchedulerInv'
<1> USE ScheduleBounds
    DEF Timed!SchedulerInv, Timed!Listing, Timed!Spaced, Timed!CopiesAreDue, Timed!DeletedStay,
        Timed!Never
<1>1. CASE Timed!RunEnds
  <2>1. /\ x2' = [s \in Schedules |->
                    IF s \in x4.cur /\ x2[s].state = "listed"
                    THEN [x2[s] EXCEPT !.next = x1 + Every] ELSE x2[s]]
        /\ x4' = [x4 EXCEPT !.at = "save", !.end = x1] /\ x4.at = "run"
        /\ UNCHANGED <<x1, x3, x6, x7>>
    BY <1>1 DEF Timed!RunEnds
  <2>2. x2' \in Timed!Listing
    BY <2>1
  <2>3. \A s \in Schedules : x2'[s].state = x2[s].state
    BY <2>1
  <2>4. Timed!Spaced(x2)' /\ Timed!Spaced(x3)'
    BY <2>1
  <2>5. Timed!CopiesAreDue'
    BY <2>1
  <2>6. Timed!DeletedStay'
    BY <2>1, <2>3
  <2>7. /\ x4' \in [at : {"idle", "pick", "run", "save"},
                   due : SUBSET Schedules, cur : SUBSET Schedules, end : Int]
        /\ x4'.end = x1
    <3>1. /\ x4.due \in SUBSET Schedules /\ x4.cur \in SUBSET Schedules /\ x1 \in Int
          /\ x4 = [at |-> x4.at, due |-> x4.due, cur |-> x4.cur, end |-> x4.end]
      OBVIOUS
    <3>2. x4' = [at |-> "save", due |-> x4.due, cur |-> x4.cur, end |-> x1]
      BY <2>1, <3>1
    <3> QED
      BY <3>1, <3>2
  <2> QED
    BY <2>1, <2>2, <2>4, <2>5, <2>6, <2>7
<1>2. CASE Timed!SaveRun
  <2>1. /\ x4' = [x4 EXCEPT !.at = "pick", !.cur = {}] /\ x4.at = "save"
        /\ x6' = [s \in Schedules |-> IF s \in x4.cur THEN x4.end ELSE x6[s]]
        /\ x3' = x2 /\ UNCHANGED <<x1, x2, x7>>
    BY <1>2 DEF Timed!SaveRun
  <2>2. Timed!Spaced(x2)' /\ Timed!Spaced(x3)'
    BY <2>1
  <2>3. Timed!CopiesAreDue'
    BY <2>1
  <2>4. Timed!DeletedStay'
    BY <2>1
  <2> QED
    BY <2>1, <2>2, <2>3, <2>4
<1> QED
  BY <1>1, <1>2

(* Every step of the scheduler keeps its invariant; a restart finds what    *)
(* was saved, and no copy.                                                  *)
LEMMA SchedulerSteps == Timed!SchedulerInv /\ [Timed!Next]_(Timed!vars) => Timed!SchedulerInv'
<1> SUFFICES ASSUME Timed!SchedulerInv, [Timed!Next]_(Timed!vars)
             PROVE  Timed!SchedulerInv'
  OBVIOUS
<1>1. CASE UNCHANGED Timed!vars
  BY <1>1 DEF Timed!vars, Timed!SchedulerInv, Timed!Spaced, Timed!CopiesAreDue, Timed!DeletedStay
<1>2. CASE Timed!Restart
  BY <1>2, ScheduleBounds
     DEF Timed!Restart, Timed!SchedulerInv, Timed!Listing, Timed!Spaced, Timed!CopiesAreDue,
         Timed!DeletedStay, Timed!Never
<1> QED
  BY <1>1, <1>2, SchedulesChange, LoopTakes, RunIsSaved DEF Timed!Next

(* The invariant says what the property does, in sums. *)
LEMMA SchedulerKeepsDistance == Timed!SchedulerInv => Timed!RunsKeepTheirDistance
BY ScheduleBounds
   DEF Timed!SchedulerInv, Timed!CopiesAreDue, Timed!DeletedStay, Timed!RunsKeepTheirDistance,
       Timed!Never

-----------------------------------------------------------------------------
(* Automations.  x1 is now, x2 rows, x3 hold, x4 stamps, x5 ops, x6 crash,  *)
(* x7 restarts, x8 fired, x9 matched and x10 backups.                       *)

(* A later time is not on an earlier day. *)
LEMMA DaysPass ==
    ASSUME NEW a \in Nat, NEW b \in Nat, a <= b
    PROVE  a \div Day \in Nat /\ a \div Day <= b \div Day
<1> DEFINE q == a \div Day
           s == b \div Day
<1>1. Day \in Nat \ {0} /\ q \in Int /\ s \in Int
  BY RuleBounds
<1>2. a = Day * q + (a % Day) /\ a % Day \in 0..(Day - 1)
  BY <1>1
<1>3. b = Day * s + (b % Day) /\ b % Day \in 0..(Day - 1)
  BY <1>1
<1>4. \A x, y \in Int : x < y => Day * x + Day <= Day * y
  <2> SUFFICES ASSUME NEW x \in Int, NEW y \in Int, x < y
               PROVE  Day * x + Day <= Day * y
    OBVIOUS
  <2>1. PICK k \in Nat : y = x + 1 + k
    <3>1. y - x - 1 \in Nat /\ y = x + 1 + (y - x - 1)
      OBVIOUS
    <3> QED
      BY <3>1
  <2>2. Day * y = Day * x + Day + Day * k
    BY <1>1, <2>1
  <2>3. Day * k \in Nat
    BY <1>1
  <2> QED
    BY <1>1, <2>2, <2>3
<1> QED
  BY <1>1, <1>2, <1>3, <1>4

(* Every day of the clock is one of the days that are counted. *)
LEMMA TodayIsCounted == x1 \in 0..RuleTime => Automated!Today \in Automated!Days
<1> SUFFICES ASSUME x1 \in 0..RuleTime
             PROVE  x1 \div Day \in 0..(RuleTime \div Day)
  BY DEF Automated!Today, Automated!Days
<1>1. RuleTime \in Nat /\ x1 \in Nat /\ x1 <= RuleTime
  BY RuleBounds
<1>2. x1 \div Day \in Nat /\ x1 \div Day <= RuleTime \div Day /\ RuleTime \div Day \in Nat
  BY <1>1, DaysPass
<1> QED
  BY <1>2

LEMMA FirstDayIsCounted == 0 \in Automated!Days
<1>1. RuleTime \in Nat /\ RuleTime <= RuleTime
  BY RuleBounds
<1>2. RuleTime \div Day \in Nat
  BY <1>1, DaysPass
<1> QED
  BY <1>2 DEF Automated!Days

(* Nothing has fired, and no backup was made. *)
LEMMA AutomationsStart == Automated!Init => Automated!AutomationsInv
<1> SUFFICES ASSUME Automated!Init
             PROVE  Automated!AutomationsInv
  OBVIOUS
<1> USE RuleBounds DEF Automated!Init, Automated!Never
<1>1. Automated!Today \in Automated!Days /\ 0 \in Automated!Days
  <2>1. x1 \in 0..RuleTime /\ x1 = 0
    OBVIOUS
  <2> QED
    BY <2>1, FirstDayIsCounted, TodayIsCounted
<1>2. Automated!Today \in Nat /\ \A d \in Automated!Days : d \in Nat
  BY <1>1 DEF Automated!Days
<1>3. x5 \in Automated!OpsRecord /\ x5.day <= Automated!Today
  BY <1>1, <1>2 DEF Automated!OpsRecord
<1>4. Automated!CopiesAreFresh /\ Automated!HeldAsMatched
  BY DEF Automated!CopiesAreFresh, Automated!HeldAsMatched, Automated!Rules
<1>5. Automated!BackupsAreStamped /\ Automated!DailyBackupOnce
  BY <1>2 DEF Automated!BackupsAreStamped, Automated!DailyBackupOnce, Automated!Hits,
              Automated!Stamped
<1> QED
  BY <1>3, <1>4, <1>5 DEF Automated!AutomationsInv

(* The steps that touch the backups leave the rules, and these the backups. *)
LEMMA RulesUntouched ==
    ASSUME Automated!AutomationsInv, UNCHANGED <<x1, x2, x3, x6, x8, x9>>,
           x5'.rules = x5.rules
    PROVE  Automated!CopiesAreFresh' /\ Automated!HeldAsMatched'
BY DEF Automated!AutomationsInv, Automated!CopiesAreFresh, Automated!HeldAsMatched,
       Automated!Never

LEMMA BackupsUntouched ==
    ASSUME Automated!AutomationsInv, UNCHANGED <<x1, x4, x7, x10>>,
           x5'.day = x5.day, Automated!AtBackups' => Automated!AtBackups
    PROVE  Automated!BackupsAreStamped' /\ Automated!DailyBackupOnce'
BY DEF Automated!AutomationsInv, Automated!BackupsAreStamped, Automated!DailyBackupOnce,
       Automated!Hits, Automated!Stamped, Automated!Today

(* The copies are taken from the rows, and a rule that does not match is    *)
(* held no more.                                                            *)
LEMMA RulesAreCopied ==
    ASSUME Automated!AutomationsInv, Automated!OpsTick
    PROVE  Automated!AutomationsInv'
<1> USE DEF Automated!AutomationsInv, Automated!OpsTick, Automated!RuleVars
<1>1. /\ x5' = [x5 EXCEPT !.at = "rules", !.rules = Automated!Copies(MetricRules)]
      /\ UNCHANGED <<x1, x2, x3, x4, x6, x7, x8, x9, x10>>
  OBVIOUS
<1>2. Automated!Copies(MetricRules) \subseteq [rule : Automated!Rules, last : Int]
  BY DEF Automated!Copies, Automated!Rules
<1>3. x5' \in Automated!OpsRecord /\ x5'.day = x5.day
  <2>1. x5' = [at |-> "rules", rules |-> Automated!Copies(MetricRules), cur |-> x5.cur,
               left |-> x5.left, day |-> x5.day]
    BY <1>1 DEF Automated!OpsRecord
  <2> QED
    BY <1>2, <2>1 DEF Automated!OpsRecord
<1>4. \A copy \in x5'.rules : copy.rule \in MetricRules /\ copy.last = x2[copy.rule]
  BY <1>1 DEF Automated!OpsRecord, Automated!Copies
<1>5. Automated!CopiesAreFresh' /\ Automated!HeldAsMatched'
  BY <1>1, <1>4 DEF Automated!CopiesAreFresh, Automated!HeldAsMatched, Automated!Never
<1>6. ~Automated!AtBackups'
  BY <1>1 DEF Automated!AtBackups, Automated!OpsRecord
<1>7. Automated!BackupsAreStamped' /\ Automated!DailyBackupOnce'
  BY <1>1, <1>3, <1>6, BackupsUntouched
<1> QED
  BY <1>1, <1>3, <1>5, <1>7 DEF Automated!Today

LEMMA RuleMatchesNot ==
    ASSUME Automated!AutomationsInv, NEW copy \in x5.rules, Automated!NoMatch(copy)
    PROVE  Automated!AutomationsInv'
<1> USE DEF Automated!AutomationsInv, Automated!NoMatch, Automated!RuleVars
<1>1. /\ x5' = [x5 EXCEPT !.rules = @ \ {copy}] /\ x5.at = "rules"
      /\ x3' = [x3 EXCEPT ![copy.rule] = Automated!Never]
      /\ x9' = [x9 EXCEPT ![copy.rule] = Automated!Never]
      /\ UNCHANGED <<x1, x2, x4, x6, x7, x8, x10>>
  OBVIOUS
<1>2. x5' \in Automated!OpsRecord /\ x5'.day = x5.day /\ x5'.rules = x5.rules \ {copy}
      /\ x5'.at = "rules"
  BY <1>1, SMTT(30) DEF Automated!OpsRecord
<1>3. Automated!Never = -1
  BY DEF Automated!Never
<1>4. x3' \in [Automated!Rules -> Int] /\ x9' \in [Automated!Rules -> Int]
  <2>1. x3' = [x3 EXCEPT ![copy.rule] = -1] /\ x9' = [x9 EXCEPT ![copy.rule] = -1] /\ -1 \in Int
    BY <1>1, <1>3
  <2>2. x3' \in [Automated!Rules -> Int]
    BY <2>1
  <2>3. x9' \in [Automated!Rules -> Int]
    BY <2>1
  <2> QED
    BY <2>2, <2>3
<1>5. Automated!CopiesAreFresh'
  BY <1>1, <1>2 DEF Automated!CopiesAreFresh
<1>6. Automated!HeldAsMatched'
  <2>1. \A q \in MetricRules : q \in Automated!Rules
    BY DEF Automated!Rules
  <2>2. \A q \in MetricRules : IF q = copy.rule THEN x3'[q] = -1 /\ x9'[q] = -1
                               ELSE x3'[q] = x3[q] /\ x9'[q] = x9[q]
    BY <1>1, <1>3, <2>1
  <2>3. x1 \in Nat
    OBVIOUS
  <2> QED
    BY <1>1, <1>3, <2>2, <2>3 DEF Automated!HeldAsMatched
<1>7. Automated!BackupsAreStamped' /\ Automated!DailyBackupOnce'
  BY <1>1, <1>2, BackupsUntouched DEF Automated!AtBackups
<1> QED
  BY <1>1, <1>2, <1>4, <1>5, <1>6, <1>7 DEF Automated!Today

(* A rule that matches: it is held on, rests, or fires and its row with it. *)
LEMMA RuleMatches ==
    ASSUME Automated!AutomationsInv, NEW copy \in x5.rules, Automated!Match(copy)
    PROVE  Automated!AutomationsInv'
<1> USE DEF Automated!AutomationsInv
<1> DEFINE r == copy.rule
           since == IF x3[r] = Automated!Never THEN x1 ELSE x3[r]
<1>1. /\ r \in MetricRules /\ r \in Automated!Rules /\ copy.last = x2[r]
      /\ x3[r] \in Int /\ x9[r] \in Int /\ x1 \in Nat
  BY DEF Automated!CopiesAreFresh, Automated!Rules
<1>2. Automated!Never = -1
  BY DEF Automated!Never
<1>3. /\ x9' = [x9 EXCEPT ![r] = IF @ = Automated!Never THEN x1 ELSE @]
      /\ x5.at = "rules" /\ UNCHANGED <<x1, x4, x6, x7, x10>>
  BY DEF Automated!Match, Automated!RuleVars
<1>4. /\ x3' = [x3 EXCEPT ![r] = since] \/ x3' = [x3 EXCEPT ![r] = Automated!Never]
      /\ \/ UNCHANGED <<x2, x8>> 
         \/ x2' = [x2 EXCEPT ![r] = x1] /\ x8' = [x8 EXCEPT ![r] = x1]
      /\ \/ x5' = [x5 EXCEPT !.rules = @ \ {copy}]
         \/ x5' = [x5 EXCEPT !.at = "acting", !.rules = @ \ {copy}, !.cur = {r}]
  BY DEF Automated!Match, Automated!Fire
<1>5. x5' \in Automated!OpsRecord /\ x5'.day = x5.day /\ x5'.rules = x5.rules \ {copy}
      /\ x5'.at \in {"rules", "acting"}
  <2>1. CASE x5' = [x5 EXCEPT !.rules = @ \ {copy}]
    BY <1>1, <1>3, <2>1 DEF Automated!OpsRecord
  <2>2. CASE x5' = [x5 EXCEPT !.at = "acting", !.rules = @ \ {copy}, !.cur = {r}]
    <3>1. x5' = [at |-> "acting", rules |-> x5.rules \ {copy}, cur |-> {r}, left |-> x5.left,
                 day |-> x5.day]
      BY <2>2 DEF Automated!OpsRecord
    <3>2. x5.rules \ {copy} \subseteq [rule : Automated!Rules, last : Int] /\ {r} \subseteq Automated!Rules
      BY <1>1 DEF Automated!OpsRecord
    <3> QED
      BY <3>1, <3>2 DEF Automated!OpsRecord
  <2> QED
    BY <1>4, <2>1, <2>2
<1>6. /\ x3' \in [Automated!Rules -> Int] /\ x9' \in [Automated!Rules -> Int]
      /\ x2' \in [Automated!Rules -> Int] /\ x8' \in [Automated!Rules -> Int]
  BY <1>1, <1>2, <1>3, <1>4
<1>7. Automated!CopiesAreFresh'
  <2>1. \A c \in x5'.rules : c.rule \in MetricRules /\ c.rule # r
    BY <1>1, <1>5 DEF Automated!CopiesAreFresh, Automated!OpsRecord
  <2>2. \A c \in x5'.rules : c.rule \in Automated!Rules /\ c.last = x2'[c.rule]
    BY <1>1, <1>4, <1>5, <2>1 DEF Automated!CopiesAreFresh, Automated!Rules
  <2>3. \A q \in Automated!Rules : x2'[q] = x8'[q] /\ x8'[q] <= x1
    BY <1>1, <1>4 DEF Automated!CopiesAreFresh
  <2> QED
    BY <1>3, <2>1, <2>2, <2>3 DEF Automated!CopiesAreFresh
<1>8. Automated!HeldAsMatched'
  <2>1. \A q \in MetricRules : q \in Automated!Rules
    BY DEF Automated!Rules
  <2>2. x3'[r] # Automated!Never => x3'[r] = since
    BY <1>1, <1>4
  <2>3. x9'[r] # Automated!Never /\ x9'[r] <= x1 /\ x9'[r] = IF x9[r] = Automated!Never THEN x1 ELSE x9[r]
    BY <1>1, <1>2, <1>3 DEF Automated!HeldAsMatched
  <2>4. x3'[r] # Automated!Never => x9'[r] <= x3'[r] /\ x3'[r] <= x1
    BY <1>1, <1>2, <2>2, <2>3 DEF Automated!HeldAsMatched
  <2>5. \A q \in MetricRules \ {r} : x3'[q] = x3[q] /\ x9'[q] = x9[q]
    BY <1>1, <1>3, <1>4, <2>1
  <2> QED
    BY <1>3, <2>3, <2>4, <2>5 DEF Automated!HeldAsMatched
<1>9. Automated!BackupsAreStamped' /\ Automated!DailyBackupOnce'
  BY <1>3, <1>5, BackupsUntouched DEF Automated!AtBackups
<1> QED
  BY <1>3, <1>5, <1>6, <1>7, <1>8, <1>9 DEF Automated!Today

LEMMA RuleActed ==
    ASSUME Automated!AutomationsInv, Automated!Acted
    PROVE  Automated!AutomationsInv'
<1> USE DEF Automated!AutomationsInv, Automated!Acted, Automated!RuleVars
<1>1. /\ x5' = [x5 EXCEPT !.at = "rules", !.cur = {}]
      /\ x3' = [r \in Automated!Rules |-> IF r \in x5.cur THEN Automated!Never ELSE x3[r]]
      /\ UNCHANGED <<x1, x2, x4, x6, x7, x8, x9, x10>>
  OBVIOUS
<1>2. x5' \in Automated!OpsRecord /\ x5'.day = x5.day /\ x5'.rules = x5.rules
      /\ x5'.at = "rules"
  BY <1>1 DEF Automated!OpsRecord
<1>3. Automated!Never = -1
  BY DEF Automated!Never
<1>4. x3' \in [Automated!Rules -> Int]
  BY <1>1, <1>3
<1>5. Automated!CopiesAreFresh'
  BY <1>1, <1>2 DEF Automated!CopiesAreFresh
<1>6. Automated!HeldAsMatched'
  BY <1>1, <1>3 DEF Automated!HeldAsMatched, Automated!Rules
<1>7. Automated!BackupsAreStamped' /\ Automated!DailyBackupOnce'
  BY <1>1, <1>2, BackupsUntouched DEF Automated!AtBackups
<1> QED
  BY <1>1, <1>2, <1>4, <1>5, <1>6, <1>7 DEF Automated!Today

(* The rules on a crash mark rows of their own. *)
LEMMA CrashRulesApart ==
    ASSUME Automated!AutomationsInv, NEW c \in Crashes,
           Automated!Crash(c) \/ Automated!CrashFires(c)
    PROVE  Automated!AutomationsInv'
<1> USE DEF Automated!AutomationsInv, Automated!RuleVars
<1>1. UNCHANGED <<x1, x3, x4, x5, x7, x9, x10>>
  BY DEF Automated!Crash, Automated!CrashFires
<1>2. Automated!HeldAsMatched'
  BY <1>1 DEF Automated!HeldAsMatched, Automated!Never
<1>3. Automated!BackupsAreStamped' /\ Automated!DailyBackupOnce'
  BY <1>1, BackupsUntouched DEF Automated!AtBackups
<1> DEFINE CrashType ==
               [Crashes -> [at : {"none", "rules"},
                            rules : SUBSET [rule : Automated!Rules, last : Int]]]
<1>4. CASE Automated!Crash(c)
  <2>1. /\ x6' = [x6 EXCEPT ![c] = [at |-> "rules", rules |-> Automated!Copies(CrashRules)]]
        /\ UNCHANGED <<x2, x8>>
    BY <1>4 DEF Automated!Crash
  <2>2. /\ Automated!Copies(CrashRules) \subseteq [rule : Automated!Rules, last : Int]
        /\ \A copy \in Automated!Copies(CrashRules) : copy.rule \in CrashRules
    BY DEF Automated!Copies, Automated!Rules
  <2>3. x6' \in CrashType
    BY <2>1, <2>2
  <2>4. Automated!CopiesAreFresh'
    BY <1>1, <2>1, <2>2 DEF Automated!CopiesAreFresh
  <2> QED
    BY <1>1, <1>2, <1>3, <2>1, <2>3, <2>4 DEF Automated!Today
<1>5. CASE Automated!CrashFires(c)
  <2>1. PICK copy \in x6[c].rules :
           /\ x6' = [x6 EXCEPT ![c].rules = @ \ {copy}]
           /\ \/ UNCHANGED <<x2, x8>>
              \/ x2' = [x2 EXCEPT ![copy.rule] = x1] /\ x8' = [x8 EXCEPT ![copy.rule] = x1]
    BY <1>5 DEF Automated!CrashFires, Automated!Fire
  <2>2. copy.rule \in CrashRules /\ copy.rule \in Automated!Rules /\ x1 \in Nat
    BY DEF Automated!CopiesAreFresh, Automated!Rules
  <2>3. x2' \in [Automated!Rules -> Int] /\ x8' \in [Automated!Rules -> Int]
    BY <2>1, <2>2
  <2>4. x6' \in CrashType /\ \A d \in Crashes : x6'[d].rules \subseteq x6[d].rules
    BY <2>1
  <2>5. \A q \in Automated!Rules : x2'[q] = x8'[q] /\ x8'[q] <= x1
    BY <2>1, <2>2 DEF Automated!CopiesAreFresh
  <2>6. \A q \in MetricRules : x2'[q] = x2[q]
    BY <2>1, <2>2, RuleBounds DEF Automated!Rules
  <2>7. Automated!CopiesAreFresh'
    BY <1>1, <2>4, <2>5, <2>6 DEF Automated!CopiesAreFresh
  <2> QED
    BY <1>1, <1>2, <1>3, <2>3, <2>4, <2>7 DEF Automated!Today
<1> QED
  BY <1>4, <1>5

(* The loop goes on to the backups of the day that it is, and leaves them.  *)
LEMMA BackupsAreListed ==
    ASSUME Automated!AutomationsInv,
           Automated!RulesDone \/ Automated!BackupDone \/ Automated!OpsDone
    PROVE  Automated!AutomationsInv'
<1> USE DEF Automated!AutomationsInv, Automated!BackupVars
<1>1. UNCHANGED <<x1, x2, x3, x4, x6, x7, x8, x9, x10>> /\ x5'.rules = x5.rules
  BY DEF Automated!RulesDone, Automated!BackupDone, Automated!OpsDone, Automated!OpsRecord
<1>2. Automated!CopiesAreFresh' /\ Automated!HeldAsMatched'
  BY <1>1, RulesUntouched
<1>3. Automated!Today \in Automated!Days /\ Automated!Today' = Automated!Today
  BY <1>1, TodayIsCounted DEF Automated!Today
<1>4. CASE Automated!RulesDone
  <2>1. /\ x5'.day = Automated!Today
        /\ x5' = [at |-> "backups", rules |-> x5.rules, cur |-> x5.cur,
                  left |-> IF x1 % Day < Hour THEN Covered ELSE {}, day |-> Automated!Today]
    BY <1>4 DEF Automated!RulesDone, Automated!OpsRecord
  <2>2. x5' \in Automated!OpsRecord /\ x5'.day <= Automated!Today
    BY <1>3, <2>1 DEF Automated!OpsRecord, Automated!Days
  <2>3. \A d \in Automated!Days : d = Automated!Today => d >= Automated!Today
    BY <1>3 DEF Automated!Days
  <2>4. Automated!BackupsAreStamped' /\ Automated!DailyBackupOnce'
    BY <1>1, <1>3, <2>1, <2>3
       DEF Automated!BackupsAreStamped, Automated!DailyBackupOnce, Automated!Hits,
           Automated!Stamped
  <2> QED
    BY <1>1, <1>2, <1>3, <2>2, <2>4
<1>5. CASE Automated!BackupDone \/ Automated!OpsDone
  <2>1. /\ x5' \in Automated!OpsRecord /\ x5'.day = x5.day
        /\ Automated!AtBackups' => Automated!AtBackups
    BY <1>5 DEF Automated!BackupDone, Automated!OpsDone, Automated!OpsRecord, Automated!AtBackups
  <2>2. Automated!BackupsAreStamped' /\ Automated!DailyBackupOnce'
    BY <1>1, <2>1, BackupsUntouched
  <2> QED
    BY <1>1, <1>2, <1>3, <2>1, <2>2
<1> QED
  BY <1>4, <1>5

(* The loop comes to an instance: its backup is stamped, or is stamped now  *)
(* and begins.                                                              *)
LEMMA BackupBegins ==
    ASSUME Automated!AutomationsInv, NEW i \in Covered, Automated!BeginBackup(i)
    PROVE  Automated!AutomationsInv'
<1> USE DEF Automated!AutomationsInv, Automated!BackupVars
<1> DEFINE day == x5.day
           made == x10.made
<1>1. UNCHANGED <<x1, x2, x3, x6, x7, x8, x9>> /\ x5'.rules = x5.rules /\ x5'.day = day
      /\ x5' \in Automated!OpsRecord /\ Automated!AtBackups /\ day \in Automated!Days
  <2>1. /\ UNCHANGED <<x1, x2, x3, x6, x7, x8, x9>> /\ x5.at = "backups"
        /\ \/ x5' = [x5 EXCEPT !.left = @ \ {i}]
           \/ x5' = [x5 EXCEPT !.at = "backup", !.left = @ \ {i}]
    BY DEF Automated!BeginBackup
  <2>2. PICK at \in {"backups", "backup"} :
           x5' = [at |-> at, rules |-> x5.rules, cur |-> x5.cur, left |-> x5.left \ {i},
                  day |-> day]
    BY <2>1 DEF Automated!OpsRecord
  <2>3. x5' \in Automated!OpsRecord
    BY <2>2 DEF Automated!OpsRecord
  <2> QED
    BY <2>1, <2>2, <2>3 DEF Automated!OpsRecord, Automated!AtBackups
<1>2. Automated!CopiesAreFresh' /\ Automated!HeldAsMatched'
  BY <1>1, RulesUntouched
<1>3. Automated!Today \in Automated!Days /\ Automated!Today' = Automated!Today
  BY <1>1, TodayIsCounted DEF Automated!Today
<1>4. CASE UNCHANGED <<x4, x10>>
  BY <1>1, <1>2, <1>3, <1>4, BackupsUntouched
<1>5. CASE /\ <<i, day>> \notin x4 /\ x4' = x4 \cup {<<i, day>>}
           /\ x10' = [x10 EXCEPT !.made[i][day] = @ + 1]
  <2>1. x10' = [made |-> [made EXCEPT ![i][day] = @ + 1], hit |-> x10.hit]
    BY <1>5
  <2>2. /\ x10' \in [made : [Covered -> [Automated!Days -> Nat]], hit : SUBSET Automated!Days]
        /\ x10'.hit = x10.hit
    BY <1>1, <2>1
  <2>3. \A j \in Covered : \A d \in Automated!Days :
           x10'.made[j][d] = IF j = i /\ d = day THEN made[j][d] + 1 ELSE made[j][d]
    BY <1>1, <2>1
  <2>4. \A j \in Covered : \A d \in Automated!Days :
           /\ Automated!Stamped(j, d)' = IF j = i /\ d = day THEN 1 ELSE Automated!Stamped(j, d)
           /\ Automated!Stamped(j, d) \in {0, 1}
    BY <1>5 DEF Automated!Stamped
  <2>5. \A d \in Automated!Days : Automated!Hits(d)' = Automated!Hits(d) /\ Automated!Hits(d) \in Nat
    BY <1>1, <2>2 DEF Automated!Hits
  <2>6. made[i][day] <= Automated!Hits(day) /\ made[i][day] \in Nat
    <3>1. Automated!Stamped(i, day) = 0
      BY <1>5 DEF Automated!Stamped
    <3>2. made[i][day] <= Automated!Hits(day) + Automated!Stamped(i, day)
      BY <1>1 DEF Automated!BackupsAreStamped
    <3>3. Automated!Hits(day) \in Nat /\ made[i][day] \in Nat
      BY <1>1, <2>5
    <3> QED
      BY <3>1, <3>2, <3>3
  <2>7. day <= Automated!Today /\ day \in Nat /\ Automated!Today \in Nat
    BY <1>1, <1>3 DEF Automated!Days
  <2> HIDE DEF made, day
  <2>8. Automated!DailyBackupOnce'
    <3>1. \A j \in Covered : \A d \in Automated!Days :
             made[j][d] <= 1 + Automated!Hits(d) /\ made[j][d] \in Nat
      BY DEF Automated!DailyBackupOnce, Automated!Hits, made
    <3>2. \A j \in Covered : \A d \in Automated!Days :
             x10'.made[j][d] <= 1 + Automated!Hits(d)
      BY <1>1, <2>3, <2>5, <2>6, <3>1
    <3> QED
      BY <1>1, <2>2, <3>2 DEF Automated!DailyBackupOnce, Automated!Hits
  <2>9. Automated!BackupsAreStamped'
    <3> SUFFICES ASSUME NEW j \in Covered, NEW d \in Automated!Days
                 PROVE  /\ d > Automated!Today => x10'.made[j][d] = 0
                        /\ d >= Automated!Today \/ (Automated!AtBackups' /\ d = x5'.day)
                              => x10'.made[j][d] <= Automated!Hits(d)' + Automated!Stamped(j, d)'
      BY <1>3 DEF Automated!BackupsAreStamped
    <3>1. CASE j = i /\ d = day
      BY <3>1, <2>3, <2>4, <2>5, <2>6, <2>7
    <3>2. CASE ~(j = i /\ d = day)
      <4>1. /\ x10'.made[j][d] = made[j][d] /\ Automated!Stamped(j, d)' = Automated!Stamped(j, d)
            /\ Automated!Hits(d)' = Automated!Hits(d)
        BY <3>2, <2>3, <2>4, <2>5
      <4>2. /\ d > Automated!Today => made[j][d] = 0
            /\ d >= Automated!Today \/ (Automated!AtBackups /\ d = day)
                  => made[j][d] <= Automated!Hits(d) + Automated!Stamped(j, d)
        BY DEF Automated!BackupsAreStamped, made, day
      <4> QED
        BY <1>1, <4>1, <4>2
    <3> QED
      BY <3>1, <3>2
  <2> QED
    BY <1>1, <1>2, <1>3, <2>2, <2>8, <2>9 DEF day
<1> QED
  BY <1>4, <1>5 DEF Automated!BeginBackup

(* Time passes, perhaps into the next day, of which no backup was made. *)
LEMMA AutomationsTick ==
    ASSUME Automated!AutomationsInv, Automated!Tick
    PROVE  Automated!AutomationsInv'
<1> USE DEF Automated!AutomationsInv
<1>1. /\ x1' = x1 + 1 /\ x1 \in Nat /\ x1' \in 0..RuleTime
      /\ UNCHANGED <<x2, x3, x4, x5, x6, x7, x8, x9, x10>>
  BY RuleBounds DEF Automated!Tick
<1>2. Automated!Today \in Nat /\ Automated!Today' \in Nat /\ Automated!Today <= Automated!Today'
  <2>1. x1 \div Day \in Nat /\ x1 \div Day <= (x1 + 1) \div Day /\ (x1 + 1) \div Day \in Nat
    <3>1. x1 + 1 \in Nat /\ x1 <= x1 + 1 /\ x1 + 1 <= x1 + 1
      BY <1>1
    <3> QED
      BY <1>1, <3>1, DaysPass
  <2> QED
    BY <1>1, <2>1 DEF Automated!Today
<1>3. \A d \in Automated!Days : d \in Nat
  BY DEF Automated!Days
<1>4. x5.day \in Nat /\ x5.day <= Automated!Today'
  BY <1>2, <1>3 DEF Automated!OpsRecord
<1>5. Automated!CopiesAreFresh' /\ Automated!HeldAsMatched'
  <2>1. /\ \A r \in Automated!Rules : x8[r] \in Int /\ x9[r] \in Int /\ x3[r] \in Int
        /\ \A r \in MetricRules : r \in Automated!Rules
    BY DEF Automated!Rules
  <2> QED
    BY <1>1, <2>1 DEF Automated!CopiesAreFresh, Automated!HeldAsMatched, Automated!Never
<1>6. Automated!BackupsAreStamped' /\ Automated!DailyBackupOnce'
  BY <1>1, <1>2, <1>3
     DEF Automated!BackupsAreStamped, Automated!DailyBackupOnce, Automated!Hits,
         Automated!Stamped, Automated!AtBackups
<1> QED
  BY <1>1, <1>4, <1>5, <1>6

(* Control starts again: the stamps and the holds are gone, and the day is  *)
(* one that was hit.                                                        *)
LEMMA AutomationsRestart ==
    ASSUME Automated!AutomationsInv, Automated!Restart
    PROVE  Automated!AutomationsInv'
<1> USE DEF Automated!AutomationsInv
<1>1. /\ x7' = x7 + 1 /\ x4' = {}
      /\ x3' = [r \in Automated!Rules |-> Automated!Never]
      /\ x9' = [r \in Automated!Rules |-> Automated!Never]
      /\ x5' = [at |-> "idle", rules |-> {}, cur |-> {}, left |-> {}, day |-> 0]
      /\ x6' = [c \in Crashes |-> [x6[c] EXCEPT !.rules = {}]]
      /\ x10' = [x10 EXCEPT !.hit = @ \cup {Automated!Today}]
      /\ UNCHANGED <<x1, x2, x8>>
  BY DEF Automated!Restart
<1>2. /\ Automated!Today \in Automated!Days /\ Automated!Today' = Automated!Today
      /\ \A d \in Automated!Days : d \in Nat /\ 0 \in Automated!Days
  <2>1. Automated!Today \in Automated!Days
    BY TodayIsCounted
  <2>2. 0 \in Automated!Days
    BY FirstDayIsCounted
  <2> QED
    BY <1>1, <2>1, <2>2 DEF Automated!Today, Automated!Days
<1>3. x5' \in Automated!OpsRecord /\ x5'.day = 0
  BY <1>1, <1>2 DEF Automated!OpsRecord
<1>4. Automated!Never = -1 /\ -1 \in Int
  BY DEF Automated!Never
<1>5. x3' \in [Automated!Rules -> Int] /\ x9' \in [Automated!Rules -> Int]
  BY <1>1, <1>4
<1>6. x6' \in [Crashes -> [at : {"none", "rules"},
                           rules : SUBSET [rule : Automated!Rules, last : Int]]]
  BY <1>1
<1>7. Automated!CopiesAreFresh' /\ Automated!HeldAsMatched'
  BY <1>1, <1>4 DEF Automated!CopiesAreFresh, Automated!HeldAsMatched, Automated!Rules
<1>8. /\ x10'.made = x10.made /\ x10'.hit = x10.hit \cup {Automated!Today}
      /\ x10' \in [made : [Covered -> [Automated!Days -> Nat]], hit : SUBSET Automated!Days]
  BY <1>1, <1>2
<1>9. \A i \in Covered : \A d \in Automated!Days :
         /\ x10.made[i][d] \in Nat /\ Automated!Hits(d) \in Nat /\ Automated!Stamped(i, d) \in {0, 1}
         /\ Automated!Hits(d) <= x7
  BY DEF Automated!Hits, Automated!Stamped
<1>10. \A d \in Automated!Days :
          /\ Automated!Hits(d)' \in Nat /\ Automated!Hits(d) <= Automated!Hits(d)'
          /\ d = Automated!Today => Automated!Hits(d)' = x7 + 1
  BY <1>1, <1>8 DEF Automated!Hits
<1>11. Automated!DailyBackupOnce'
  <2>1. \A i \in Covered : \A d \in Automated!Days : x10.made[i][d] <= 1 + Automated!Hits(d)
    BY DEF Automated!DailyBackupOnce, Automated!Hits
  <2>2. \A i \in Covered : \A d \in Automated!Days : x10'.made[i][d] <= 1 + Automated!Hits(d)'
    BY <1>8, <1>9, <1>10, <2>1
  <2> QED
    BY <2>2 DEF Automated!DailyBackupOnce, Automated!Hits
<1>12. Automated!BackupsAreStamped'
  <2> SUFFICES ASSUME NEW i \in Covered, NEW d \in Automated!Days
               PROVE  /\ d > Automated!Today => x10'.made[i][d] = 0
                      /\ d >= Automated!Today
                            => x10'.made[i][d] <= Automated!Hits(d)' + Automated!Stamped(i, d)'
    BY <1>1, <1>2 DEF Automated!BackupsAreStamped, Automated!AtBackups
  <2>1. /\ d > Automated!Today => x10.made[i][d] = 0
        /\ d >= Automated!Today
              => x10.made[i][d] <= Automated!Hits(d) + Automated!Stamped(i, d)
    BY DEF Automated!BackupsAreStamped
  <2>2. Automated!Stamped(i, d)' = 0
    BY <1>1 DEF Automated!Stamped
  <2>3. d \in Nat /\ Automated!Today \in Nat
    BY <1>2
  <2>4. CASE d = Automated!Today
    <3>1. x10.made[i][d] <= Automated!Hits(d) + Automated!Stamped(i, d)
      BY <2>1, <2>3, <2>4
    <3>2. x10.made[i][d] <= x7 + 1
      BY <1>9, <3>1
    <3> QED
      BY <1>8, <1>10, <2>2, <2>3, <2>4, <3>2
  <2>5. CASE d # Automated!Today
    <3>1. d >= Automated!Today => x10'.made[i][d] = 0
      BY <1>8, <2>1, <2>3, <2>5
    <3> QED
      BY <1>8, <1>10, <2>1, <2>2, <3>1
  <2> QED
    BY <2>4, <2>5
<1>13. x7' \in Nat /\ x1' \in 0..RuleTime /\ x5'.day <= Automated!Today'
  BY <1>1, <1>2, <1>3
<1> QED
  BY <1>1, <1>3, <1>5, <1>6, <1>7, <1>8, <1>11, <1>12, <1>13

(* Every step of the automations keeps their invariant. *)
LEMMA AutomationsSteps ==
    Automated!AutomationsInv /\ [Automated!Next]_(Automated!vars) => Automated!AutomationsInv'
<1> SUFFICES ASSUME Automated!AutomationsInv, [Automated!Next]_(Automated!vars)
             PROVE  Automated!AutomationsInv'
  OBVIOUS
<1>1. CASE UNCHANGED Automated!vars
  <2>1. UNCHANGED <<x1, x2, x3, x4, x5, x6, x7, x8, x9, x10>>
    BY <1>1 DEF Automated!vars
  <2>2. Automated!CopiesAreFresh' /\ Automated!HeldAsMatched'
    BY <2>1, RulesUntouched
  <2>3. Automated!BackupsAreStamped' /\ Automated!DailyBackupOnce'
    BY <2>1, BackupsUntouched DEF Automated!AtBackups
  <2> QED
    BY <2>1, <2>2, <2>3 DEF Automated!AutomationsInv, Automated!Today
<1>2. CASE \E copy \in x5.rules : Automated!NoMatch(copy) \/ Automated!Match(copy)
  BY <1>2, RuleMatchesNot, RuleMatches
<1>3. CASE \E c \in Crashes : Automated!Crash(c) \/ Automated!CrashFires(c)
  BY <1>3, CrashRulesApart
<1>4. CASE \E i \in Covered : Automated!BeginBackup(i)
  BY <1>4, BackupBegins
<1> QED
  BY <1>1, <1>2, <1>3, <1>4, AutomationsTick, AutomationsRestart, RulesAreCopied, RuleActed,
     BackupsAreListed DEF Automated!Next

(* Only a match makes a rule on a metric fire, and then it was held and had *)
(* rested by its row, which its copy shows.                                 *)
LEMMA MetricRulesFireSeldom ==
    Automated!AutomationsInv /\ [Automated!Next]_(Automated!vars) => Automated!MetricRuleStep
<1> SUFFICES ASSUME Automated!AutomationsInv, [Automated!Next]_(Automated!vars),
                    NEW q \in MetricRules, x8'[q] # x8[q]
             PROVE  /\ x8[q] = Automated!Never \/ x8'[q] - x8[q] >= Pause
                    /\ x9'[q] # Automated!Never /\ x8'[q] - x9'[q] >= Hold
  BY DEF Automated!MetricRuleStep
<1> USE DEF Automated!AutomationsInv
<1>1. /\ q \in Automated!Rules /\ x8[q] \in Int /\ x9[q] \in Int /\ x3[q] \in Int /\ x1 \in Nat
      /\ Automated!Never = -1 /\ Pause \in Nat /\ Hold \in Nat
  BY RuleBounds DEF Automated!Rules, Automated!Never
<1>2. ASSUME NEW copy \in x5.rules, Automated!Match(copy)
      PROVE  /\ x8[q] = Automated!Never \/ x8'[q] - x8[q] >= Pause
             /\ x9'[q] # Automated!Never /\ x8'[q] - x9'[q] >= Hold
  <2> DEFINE r == copy.rule
             since == IF x3[r] = Automated!Never THEN x1 ELSE x3[r]
  <2>1. /\ x1 - since >= Hold /\ ~Automated!Resting(copy)
        /\ x8' = [x8 EXCEPT ![r] = x1]
        /\ x9' = [x9 EXCEPT ![r] = IF @ = Automated!Never THEN x1 ELSE @]
    BY <1>2 DEF Automated!Match, Automated!Fire
  <2>2. r = q
    BY <2>1
  <2>3. copy.last = x2[q] /\ x2[q] = x8[q] /\ r \in Automated!Rules
    BY <1>1, <2>2 DEF Automated!CopiesAreFresh
  <2>4. x8'[q] = x1 /\ x9'[q] = IF x9[q] = Automated!Never THEN x1 ELSE x9[q]
    BY <1>1, <2>1, <2>2
  <2>5. x8[q] = Automated!Never \/ x1 - x8[q] >= Pause
    BY <1>1, <2>1, <2>3 DEF Automated!Resting
  <2>6. x9'[q] # Automated!Never /\ x9'[q] <= since
    BY <1>1, <2>2, <2>4 DEF Automated!HeldAsMatched
  <2>7. since \in Int /\ x9'[q] \in Int
    BY <1>1, <2>2, <2>4
  <2> HIDE DEF since
  <2> QED
    BY <1>1, <2>1, <2>4, <2>5, <2>6, <2>7
<1>3. CASE \E c \in Crashes : Automated!CrashFires(c)
  <2>1. PICK c \in Crashes : Automated!CrashFires(c)
    BY <1>3
  <2>2. PICK copy \in x6[c].rules :
           UNCHANGED x8 \/ x8' = [x8 EXCEPT ![copy.rule] = x1]
    BY <2>1 DEF Automated!CrashFires, Automated!Fire
  <2>3. copy.rule \in CrashRules
    BY DEF Automated!CopiesAreFresh
  <2>4. copy.rule # q
    BY <2>3, RuleBounds
  <2> QED
    BY <1>1, <2>2, <2>4
<1>4. CASE UNCHANGED x8
  BY <1>4
<1> QED
  BY <1>2, <1>3, <1>4
     DEF Automated!Next, Automated!vars, Automated!Tick, Automated!Restart, Automated!OpsTick,
         Automated!NoMatch, Automated!Acted, Automated!RulesDone, Automated!Crash,
         Automated!BeginBackup, Automated!BackupDone, Automated!OpsDone, Automated!BackupVars

-----------------------------------------------------------------------------
(* Supervisor.  MCPlane runs it on constants of its own, for which the       *)
(* theorems of SupervisorProofs hold as well.                               *)

ServicesInv == Supervised!Typing /\ Supervised!SupervisorInv

(* No service runs at first, so nothing has to be supervised. *)
LEMMA ServicesStart == Supervised!Init => ServicesInv
BY ServiceBounds, Supervised!InitTyped, Supervised!InitSafe
   DEF Supervised!InitTyped, Supervised!InitSafe, Supervised!PolicyType, ServicesInv

(* Every step of a caller, a watcher, a timer or a monitor keeps the three   *)
(* parts of the invariant.                                                  *)
LEMMA ServicesSteps ==
    ASSUME ServicesInv, [Supervised!Next]_(Supervised!vars)
    PROVE  ServicesInv'
BY ServiceBounds, Supervised!NextTyped, Supervised!ChildInvStep, Supervised!SupervisedStep,
   Supervised!BackoffStep
   DEF Supervised!NextTyped, Supervised!ChildInvStep, Supervised!SupervisedStep,
       Supervised!BackoffStep, Supervised!PolicyType, ServicesInv, Supervised!SupervisorInv,
       Supervised!ChildInv, Supervised!SupervisedInv, Supervised!BackoffInv

-----------------------------------------------------------------------------
(* PluginHost: how a thread moves.  x1 is table, x2 slot, x3 slotsLock, x4   *)
(* plugin, x5 pluginLock, x6 disk, x7 thread and x8 calls.                 *)

(* A record with one of its fields changed is that record written out. *)
LEMMA StandingChanged ==
    ASSUME NEW r \in Plugins!Standing, NEW v, NEW w
    PROVE  /\ [r EXCEPT !.at = v]
                 = [at |-> v, table |-> r.table, on |-> r.on, ask |-> r.ask]
           /\ [r EXCEPT !.ask = v]
                 = [at |-> r.at, table |-> r.table, on |-> r.on, ask |-> v]
           /\ [r EXCEPT !.at = v, !.table = w]
                 = [at |-> v, table |-> w, on |-> r.on, ask |-> r.ask]
<1>1. r = [at |-> r.at, table |-> r.table, on |-> r.on, ask |-> r.ask]
  BY DEF Plugins!Standing
<1>2. [r EXCEPT !.at = v] = [at |-> v, table |-> r.table, on |-> r.on, ask |-> r.ask]
  BY <1>1
<1>3. [r EXCEPT !.ask = v] = [at |-> r.at, table |-> r.table, on |-> r.on, ask |-> v]
  BY <1>1
<1>4. [r EXCEPT !.at = v, !.table = w] = [at |-> v, table |-> w, on |-> r.on, ask |-> r.ask]
  <2> DEFINE s == [r EXCEPT !.at = v, !.table = w]
  <2>1. s = [f \in {"at", "table", "on", "ask"} |->
               IF f = "table" THEN w ELSE IF f = "at" THEN v ELSE r[f]]
    BY <1>1
  <2> QED
    BY <2>1
<1> QED
  BY <1>2, <1>3, <1>4

(* A thread that moves takes what it has along, and the others stay. *)
LEMMA ThreadMoves ==
    ASSUME Plugins!HostInv, NEW t \in Threads, NEW at,
           at \in {"idle", "picked", "enter", "exec", "mark", "switch"}
                     \cup Plugins!Locking \cup Plugins!Loading,
           Plugins!Move(t, at)
    PROVE  /\ x7' \in [Threads -> Plugins!Standing]
           /\ x7'[t].at = at /\ x7'[t].table = x7[t].table /\ x7'[t].ask = x7[t].ask
           /\ \A u \in Threads \ {t} : x7'[u] = x7[u]
<1>1. x7 \in [Threads -> Plugins!Standing] /\ x7' = [x7 EXCEPT ![t].at = at]
  BY DEF Plugins!HostInv, Plugins!Move
<1> DEFINE r == [at |-> at, table |-> x7[t].table, on |-> x7[t].on, ask |-> x7[t].ask]
<1>3. r \in Plugins!Standing
  BY <1>1 DEF Plugins!Standing
<1>4. x7' = [x7 EXCEPT ![t] = r]
  <2>1. x7' = [x7 EXCEPT ![t] = [x7[t] EXCEPT !.at = at]] /\ x7[t] \in Plugins!Standing
    BY <1>1
  <2>2. [x7[t] EXCEPT !.at = at] = r
    BY <2>1, StandingChanged
  <2> QED
    BY <2>1, <2>2
<1> QED
  BY <1>1, <1>3, <1>4

(* A thread that is done has nothing left. *)
LEMMA ThreadIsDone ==
    ASSUME Plugins!HostInv, NEW t \in Threads, Plugins!Done(t)
    PROVE  /\ x7' \in [Threads -> Plugins!Standing]
           /\ x7'[t].at = "idle" /\ x7'[t].table = 1 /\ x7'[t].ask = "none"
           /\ \A u \in Threads \ {t} : x7'[u] = x7[u]
<1>1. x7 \in [Threads -> Plugins!Standing] /\ x7' = [x7 EXCEPT ![t] = Plugins!Idle]
  BY DEF Plugins!HostInv, Plugins!Done
<1>2. Plugins!Idle \in Plugins!Standing
  BY HostBounds DEF Plugins!Idle, Plugins!Standing, Plugins!Tables
<1> QED
  BY <1>1, <1>2 DEF Plugins!Idle

(* Each thread stands somewhere; a lock is held by a thread or by nobody.   *)
LEMMA HostShape ==
    ASSUME Plugins!HostInv
    PROVE  /\ \A t \in Threads : x7[t] \in Plugins!Standing
           /\ \A t \in Threads : x7[t].table \in Plugins!Tables /\ x7[t].table \in Nat
           /\ \A n \in Plugins!Tables : n \in Nat
           /\ x1 \in Plugins!Tables /\ x1 \in Nat
           /\ Plugins!Nobody \notin Threads
BY HostBounds DEF Plugins!HostInv, Plugins!Standing, Plugins!Tables, Plugins!Nobody

-----------------------------------------------------------------------------
(* The steps that leave the locks, the plugins and who runs as they are:    *)
(* a thread that is at nothing yet, or one that asks or is answered.        *)
Plain == {"idle", "picked", "enter", "switch"}

LEMMA QuietStep ==
    ASSUME Plugins!HostInv, NEW t \in Threads,
           x7' \in [Threads -> Plugins!Standing],
           \A u \in Threads \ {t} : x7'[u] = x7[u],
           \/ x7[t].at \in Plain /\ x7'[t].at \in Plain /\ x7'[t].table <= x1
           \/ x7'[t].at = x7[t].at /\ x7'[t].table = x7[t].table,
           x7'[t].ask \notin Plugins!Extensions,
           UNCHANGED <<x1, x2, x3, x4, x5>>, x6' \in BOOLEAN
    PROVE  Plugins!HostInv'
<1> USE DEF Plugins!HostInv
<1>1. Plugins!LocksAreHeld'
  BY DEF Plugins!LocksAreHeld, Plugins!Locking, Plain
<1>2. Plugins!TablesAreBuiltApart'
  BY DEF Plugins!TablesAreBuiltApart, Plugins!Loading, Plain
<1>3. Plugins!PluginsAreLoaded'
  BY DEF Plugins!PluginsAreLoaded, Plain
<1>4. Plugins!SlotsAreTrue'
  <2> SUFFICES ASSUME NEW n \in Plugins!Tables, n >= x1, x2[n].running, ~x4[n]
               PROVE  \E u \in Threads :
                         x7'[u].at \in {"mark", "stopping", "start"} /\ x7'[u].table = n
    BY DEF Plugins!SlotsAreTrue
  <2>1. PICK u \in Threads : x7[u].at \in {"mark", "stopping", "start"} /\ x7[u].table = n
    BY DEF Plugins!SlotsAreTrue
  <2> QED
    BY <2>1 DEF Plain
<1> QED
  BY <1>1, <1>2, <1>3, <1>4

(* Calls, switches and reloads begin, look and give up; exports ask.        *)
LEMMA QuietSteps ==
    ASSUME Plugins!HostInv, NEW t \in Threads,
           \/ Plugins!Call(t) \/ Plugins!Listed(t) \/ Plugins!Look(t)
           \/ Plugins!SetEnabled(t) \/ Plugins!Ask(t) \/ Plugins!Answered(t)
    PROVE  Plugins!HostInv'
<1> USE HostShape
<1>1. 1 \in Plugins!Tables /\ 1 <= x1
  BY HostBounds DEF Plugins!Tables
<1>2. x7 \in [Threads -> Plugins!Standing] /\ x6 \in BOOLEAN /\ x7[t].ask \notin Plugins!Extensions
  BY DEF Plugins!HostInv, Plugins!PluginsAreLoaded
<1>3. "none" \notin Plugins!Extensions
  BY DEF Plugins!Extensions
<1>4. CASE \/ Plugins!Call(t) \/ Plugins!Listed(t)
           \/ \E on \in BOOLEAN :
                 /\ x7[t].at = "idle" /\ x6' = on /\ UNCHANGED <<x1, x2, x3, x4, x5>>
                 /\ x7' = [x7 EXCEPT ![t] = [Plugins!Idle EXCEPT !.at = "switch", !.on = on]]
  <2>1. PICK r \in [at : {"picked", "switch"}, table : {1}, on : BOOLEAN, ask : {"none"}] :
           x7' = [x7 EXCEPT ![t] = r]
    BY <1>4 DEF Plugins!Call, Plugins!Listed, Plugins!Begins, Plugins!Idle
  <2>2. r \in Plugins!Standing
    BY <1>1 DEF Plugins!Standing
  <2>3. /\ x7' \in [Threads -> Plugins!Standing] /\ x7'[t] = r
        /\ \A u \in Threads \ {t} : x7'[u] = x7[u]
    BY <1>2, <2>1, <2>2
  <2>4. x7[t].at = "idle" /\ UNCHANGED <<x1, x2, x3, x4, x5>> /\ x6' \in BOOLEAN
    BY <1>2, <1>4 DEF Plugins!Call, Plugins!Listed, Plugins!Begins, Plugins!At
  <2> QED
    BY <1>1, <1>3, <2>3, <2>4, QuietStep DEF Plain
<1>5. CASE Plugins!Look(t)
  <2>1. x7[t].at = "picked" /\ UNCHANGED <<x1, x2, x3, x4, x5, x6>>
    BY <1>5 DEF Plugins!Look, Plugins!At
  <2>2. CASE Plugins!Done(t)
    BY <1>1, <1>2, <1>3, <2>1, <2>2, ThreadIsDone, QuietStep DEF Plain
  <2>3. CASE x7' = [x7 EXCEPT ![t].at = "enter", ![t].table = x1]
    <3> DEFINE r == [at |-> "enter", table |-> x1, on |-> x7[t].on, ask |-> x7[t].ask]
    <3>1. r \in Plugins!Standing
      BY <1>2 DEF Plugins!Standing
    <3>2. x7' = [x7 EXCEPT ![t] = r]
      <4>1. /\ x7' = [x7 EXCEPT ![t] = [x7[t] EXCEPT !.at = "enter", !.table = x1]]
            /\ x7[t] \in Plugins!Standing
        BY <1>2, <2>3
      <4>2. [x7[t] EXCEPT !.at = "enter", !.table = x1] = r
        BY <4>1, StandingChanged
      <4> QED
        BY <4>1, <4>2
    <3>3. /\ x7' \in [Threads -> Plugins!Standing] /\ x7'[t] = r
          /\ \A u \in Threads \ {t} : x7'[u] = x7[u]
      BY <1>2, <3>1, <3>2
    <3> QED
      BY <1>2, <2>1, <3>3, QuietStep DEF Plain
  <2> QED
    BY <1>5, <2>2, <2>3 DEF Plugins!Look
<1>6. CASE Plugins!Ask(t) \/ Plugins!Answered(t)
  <2>1. PICK ask \in {"none", "instances", "files", "nodes", "other"} :
           x7' = [x7 EXCEPT ![t].ask = ask]
    BY <1>6 DEF Plugins!Ask, Plugins!Answered, Plugins!DenyControl, Plugins!Asks
  <2> DEFINE r == [at |-> x7[t].at, table |-> x7[t].table, on |-> x7[t].on, ask |-> ask]
  <2>2. r \in Plugins!Standing
    BY <1>2 DEF Plugins!Standing
  <2>3. x7' = [x7 EXCEPT ![t] = r]
    <3>1. x7' = [x7 EXCEPT ![t] = [x7[t] EXCEPT !.ask = ask]] /\ x7[t] \in Plugins!Standing
      BY <1>2, <2>1
    <3>2. [x7[t] EXCEPT !.ask = ask] = r
      BY <3>1, StandingChanged
    <3> QED
      BY <3>1, <3>2
  <2>4. /\ x7' \in [Threads -> Plugins!Standing] /\ x7'[t] = r
        /\ \A u \in Threads \ {t} : x7'[u] = x7[u]
    BY <1>2, <2>2, <2>3
  <2>5. UNCHANGED <<x1, x2, x3, x4, x5, x6>>
    BY <1>6 DEF Plugins!Ask, Plugins!Answered
  <2>6. ask \notin Plugins!Extensions
    BY <2>1 DEF Plugins!Extensions
  <2> QED
    BY <1>2, <2>4, <2>5, <2>6, QuietStep
<1> QED
  BY <1>4, <1>5, <1>6 DEF Plugins!SetEnabled, Plugins!At

-----------------------------------------------------------------------------
(* A call. *)

(* A call enters: it has the lock of the plugin, and the plugin is there.   *)
LEMMA CallEnters ==
    ASSUME Plugins!HostInv, NEW t \in Threads, Plugins!Enter(t)
    PROVE  Plugins!HostInv'
<1> DEFINE n == x7[t].table
<1>1. /\ x7[t].at = "enter" /\ x5[n] = Plugins!Nobody /\ UNCHANGED <<x1, x2, x3, x4, x6>>
      /\ n \in Plugins!Tables /\ n <= x1 /\ x1 \in Nat /\ x7[t].ask \notin Plugins!Extensions
  BY HostShape
     DEF Plugins!Enter, Plugins!At, Plugins!HostInv, Plugins!TablesAreBuiltApart,
         Plugins!Loading, Plugins!PluginsAreLoaded
<1>2. CASE Plugins!Done(t) /\ UNCHANGED x5
  <2>1. 1 <= x1 /\ "none" \notin Plugins!Extensions
    BY HostShape DEF Plugins!Tables, Plugins!Extensions
  <2>2. x6 \in BOOLEAN
    BY DEF Plugins!HostInv
  <2> QED
    BY <1>1, <1>2, <2>1, <2>2, ThreadIsDone, QuietStep DEF Plain
<1>3. CASE x4[n] /\ Plugins!Move(t, "exec") /\ x5' = [x5 EXCEPT ![n] = t]
  <2>1. /\ x7' \in [Threads -> Plugins!Standing]
        /\ x7'[t].at = "exec" /\ x7'[t].table = n /\ x7'[t].ask = x7[t].ask
        /\ \A u \in Threads \ {t} : x7'[u] = x7[u]
    BY <1>3, ThreadMoves
  <2>2. x5' \in [Plugins!Tables -> Threads \cup {Plugins!Nobody}]
    BY <1>1, <1>3 DEF Plugins!HostInv
  <2>3. Plugins!LocksAreHeld'
    BY <1>1, <1>3, <2>1, HostShape DEF Plugins!HostInv, Plugins!LocksAreHeld, Plugins!Locking
  <2>4. Plugins!TablesAreBuiltApart'
    BY <1>1, <2>1 DEF Plugins!HostInv, Plugins!TablesAreBuiltApart, Plugins!Loading
  <2>5. Plugins!PluginsAreLoaded'
    BY <1>1, <1>3, <2>1 DEF Plugins!HostInv, Plugins!PluginsAreLoaded
  <2>6. Plugins!SlotsAreTrue'
    BY <1>1, <2>1 DEF Plugins!HostInv, Plugins!SlotsAreTrue
  <2> QED
    BY <1>1, <2>1, <2>2, <2>3, <2>4, <2>5, <2>6 DEF Plugins!HostInv
<1> QED
  BY <1>2, <1>3 DEF Plugins!Enter

(* A call returns, and the lock is free. *)
LEMMA CallLeaves ==
    ASSUME Plugins!HostInv, NEW t \in Threads, Plugins!CallReturns(t)
    PROVE  Plugins!HostInv'
<1> DEFINE n == x7[t].table
<1>1. /\ x7[t].at = "exec" /\ UNCHANGED <<x1, x2, x3, x4, x6>> /\ Plugins!Done(t)
      /\ x5' = [x5 EXCEPT ![n] = Plugins!Nobody]
      /\ n \in Plugins!Tables /\ x1 \in Nat /\ 1 <= x1 /\ x5[n] = t
  BY HostShape
     DEF Plugins!CallReturns, Plugins!At, Plugins!HostInv, Plugins!Tables, Plugins!LocksAreHeld
<1>2. /\ x7' \in [Threads -> Plugins!Standing]
      /\ x7'[t].at = "idle" /\ x7'[t].table = 1 /\ x7'[t].ask = "none"
      /\ \A u \in Threads \ {t} : x7'[u] = x7[u]
  BY <1>1, ThreadIsDone
<1>3. x5' \in [Plugins!Tables -> Threads \cup {Plugins!Nobody}]
  BY <1>1 DEF Plugins!HostInv
<1>4. Plugins!LocksAreHeld'
  BY <1>1, <1>2, HostShape DEF Plugins!HostInv, Plugins!LocksAreHeld, Plugins!Locking
<1>5. Plugins!TablesAreBuiltApart'
  BY <1>1, <1>2 DEF Plugins!HostInv, Plugins!TablesAreBuiltApart, Plugins!Loading
<1>6. Plugins!PluginsAreLoaded'
  BY <1>1, <1>2 DEF Plugins!HostInv, Plugins!PluginsAreLoaded, Plugins!Extensions
<1>7. Plugins!SlotsAreTrue'
  BY <1>1, <1>2 DEF Plugins!HostInv, Plugins!SlotsAreTrue
<1> QED
  BY <1>1, <1>2, <1>3, <1>4, <1>5, <1>6, <1>7 DEF Plugins!HostInv

(* A call panics: the plugin is gone, and the slot is to be marked. *)
LEMMA CallPanicsOut ==
    ASSUME Plugins!HostInv, NEW t \in Threads, Plugins!CallPanics(t)
    PROVE  Plugins!HostInv'
<1> DEFINE n == x7[t].table
<1>1. /\ x7[t].at = "exec" /\ UNCHANGED <<x1, x2, x3, x6>> /\ Plugins!Move(t, "mark")
      /\ x5' = [x5 EXCEPT ![n] = Plugins!Nobody] /\ x4' = [x4 EXCEPT ![n] = FALSE]
      /\ n \in Plugins!Tables /\ x1 \in Nat /\ x5[n] = t
      /\ x7[t].ask \notin Plugins!Extensions
  BY HostShape
     DEF Plugins!CallPanics, Plugins!At, Plugins!HostInv, Plugins!LocksAreHeld,
         Plugins!PluginsAreLoaded
<1>2. /\ x7' \in [Threads -> Plugins!Standing]
      /\ x7'[t].at = "mark" /\ x7'[t].table = n /\ x7'[t].ask = x7[t].ask
      /\ \A u \in Threads \ {t} : x7'[u] = x7[u]
  BY <1>1, ThreadMoves
<1>3. /\ x5' \in [Plugins!Tables -> Threads \cup {Plugins!Nobody}]
      /\ x4' \in [Plugins!Tables -> BOOLEAN]
  BY <1>1 DEF Plugins!HostInv
<1>4. Plugins!LocksAreHeld'
  BY <1>1, <1>2, HostShape DEF Plugins!HostInv, Plugins!LocksAreHeld, Plugins!Locking
<1>5. Plugins!TablesAreBuiltApart'
  BY <1>1, <1>2 DEF Plugins!HostInv, Plugins!TablesAreBuiltApart, Plugins!Loading
<1>6. Plugins!PluginsAreLoaded'
  <2>1. \A u \in Threads \ {t} : x7[u].at = "exec" => x7[u].table # n
    BY <1>1, HostShape DEF Plugins!HostInv, Plugins!LocksAreHeld
  <2> QED
    BY <1>1, <1>2, <2>1, HostShape DEF Plugins!HostInv, Plugins!PluginsAreLoaded
<1>7. Plugins!SlotsAreTrue'
  BY <1>1, <1>2 DEF Plugins!HostInv, Plugins!SlotsAreTrue
<1> QED
  BY <1>1, <1>2, <1>3, <1>4, <1>5, <1>6, <1>7 DEF Plugins!HostInv

(* The slot in use is marked, whichever table the panic was in. *)
LEMMA PanicIsMarked ==
    ASSUME Plugins!HostInv, NEW t \in Threads, Plugins!MarkPanic(t)
    PROVE  Plugins!HostInv'
<1>1. /\ x7[t].at = "mark" /\ UNCHANGED <<x1, x3, x4, x5, x6>> /\ Plugins!Done(t)
      /\ x2' = [x2 EXCEPT ![x1].running = FALSE, ![x1].error = TRUE]
      /\ x1 \in Plugins!Tables /\ x1 \in Nat /\ 1 <= x1 /\ x7[t].table <= x1
  BY HostShape
     DEF Plugins!MarkPanic, Plugins!At, Plugins!HostInv, Plugins!Tables, Plugins!Loading,
         Plugins!TablesAreBuiltApart
<1>2. /\ x7' \in [Threads -> Plugins!Standing]
      /\ x7'[t].at = "idle" /\ x7'[t].table = 1 /\ x7'[t].ask = "none"
      /\ \A u \in Threads \ {t} : x7'[u] = x7[u]
  BY <1>1, ThreadIsDone
<1>3. /\ x2' \in [Plugins!Tables -> [enabled : BOOLEAN, running : BOOLEAN, error : BOOLEAN]]
      /\ ~x2'[x1].running
      /\ \A m \in Plugins!Tables \ {x1} : x2'[m] = x2[m]
  BY <1>1 DEF Plugins!HostInv
<1>4. Plugins!LocksAreHeld'
  <2>1. Plugins!LocksAreHeld
    BY DEF Plugins!HostInv
  <2> QED
    BY <1>1, <1>2, <2>1 DEF Plugins!LocksAreHeld, Plugins!Locking
<1>5. Plugins!TablesAreBuiltApart'
  BY <1>1, <1>2 DEF Plugins!HostInv, Plugins!TablesAreBuiltApart, Plugins!Loading
<1>6. Plugins!PluginsAreLoaded'
  BY <1>1, <1>2 DEF Plugins!HostInv, Plugins!PluginsAreLoaded, Plugins!Extensions
<1>7. Plugins!SlotsAreTrue'
  <2> SUFFICES ASSUME NEW m \in Plugins!Tables, m >= x1, x2'[m].running, ~x4[m]
               PROVE  \E u \in Threads :
                         x7'[u].at \in {"mark", "stopping", "start"} /\ x7'[u].table = m
    BY <1>1 DEF Plugins!SlotsAreTrue
  <2>1. m # x1 /\ x2[m].running
    BY <1>3
  <2>2. PICK u \in Threads : x7[u].at \in {"mark", "stopping", "start"} /\ x7[u].table = m
    BY <2>1 DEF Plugins!HostInv, Plugins!SlotsAreTrue
  <2>3. m # x7[t].table
    BY <1>1, <2>1, HostShape
  <2>4. x7'[u] = x7[u]
    BY <1>2, <2>2, <2>3
  <2> QED
    BY <2>2, <2>4
<1> QED
  BY <1>1, <1>2, <1>3, <1>4, <1>5, <1>6, <1>7 DEF Plugins!HostInv

-----------------------------------------------------------------------------
(* The switch, under the lock of the slots. *)

(* The switch takes the lock, and the table in use. *)
LEMMA SwitchBegins ==
    ASSUME Plugins!HostInv, NEW t \in Threads, Plugins!TakeSlots(t)
    PROVE  Plugins!HostInv'
<1>1. /\ x7[t].at = "switch" /\ x3 = Plugins!Nobody /\ x3' = t /\ UNCHANGED <<x1, x4, x5, x6>>
      /\ x2' = [x2 EXCEPT ![x1].enabled = x7[t].on]
      /\ x7' = [x7 EXCEPT ![t].at = "stop", ![t].table = x1]
      /\ x1 \in Plugins!Tables /\ x1 \in Nat /\ x7[t] \in Plugins!Standing
      /\ x7[t].on \in BOOLEAN /\ x7[t].ask \notin Plugins!Extensions
  BY HostShape
     DEF Plugins!TakeSlots, Plugins!At, Plugins!HostInv, Plugins!PluginsAreLoaded,
         Plugins!Standing
<1> DEFINE r == [at |-> "stop", table |-> x1, on |-> x7[t].on, ask |-> x7[t].ask]
<1>2. /\ x7' \in [Threads -> Plugins!Standing] /\ x7'[t] = r
      /\ \A u \in Threads \ {t} : x7'[u] = x7[u]
  <2>1. x7 \in [Threads -> Plugins!Standing]
    BY DEF Plugins!HostInv
  <2>2. r \in Plugins!Standing
    BY <1>1 DEF Plugins!Standing, Plugins!Locking
  <2>3. x7' = [x7 EXCEPT ![t] = [x7[t] EXCEPT !.at = "stop", !.table = x1]]
    BY <1>1, <2>1
  <2>4. [x7[t] EXCEPT !.at = "stop", !.table = x1] = r
    BY <1>1, StandingChanged
  <2> QED
    BY <2>1, <2>2, <2>3, <2>4
<1>3. /\ x2' \in [Plugins!Tables -> [enabled : BOOLEAN, running : BOOLEAN, error : BOOLEAN]]
      /\ \A m \in Plugins!Tables : x2'[m].running = x2[m].running
  BY <1>1 DEF Plugins!HostInv
<1>4. Plugins!LocksAreHeld'
  <2>1. Plugins!LocksAreHeld
    BY DEF Plugins!HostInv
  <2> QED
    BY <1>1, <1>2, <2>1, HostShape DEF Plugins!LocksAreHeld, Plugins!Locking
<1>5. Plugins!TablesAreBuiltApart'
  <2>1. Plugins!TablesAreBuiltApart
    BY DEF Plugins!HostInv
  <2> QED
    BY <1>1, <1>2, <2>1 DEF Plugins!TablesAreBuiltApart, Plugins!Loading
<1>6. Plugins!PluginsAreLoaded'
  BY <1>1, <1>2 DEF Plugins!HostInv, Plugins!PluginsAreLoaded
<1>7. Plugins!SlotsAreTrue'
  <2>1. Plugins!SlotsAreTrue
    BY DEF Plugins!HostInv
  <2> QED
    BY <1>1, <1>2, <1>3, <2>1 DEF Plugins!SlotsAreTrue
<1> QED
  BY <1>1, <1>2, <1>3, <1>4, <1>5, <1>6, <1>7 DEF Plugins!HostInv

(* It waits for the lock of the plugin, and takes the plugin out. *)
LEMMA SwitchStops ==
    ASSUME Plugins!HostInv, NEW t \in Threads, Plugins!StopSlot(t)
    PROVE  Plugins!HostInv'
<1> DEFINE n == x7[t].table
<1>1. /\ x7[t].at = "stop" /\ x5[n] = Plugins!Nobody /\ UNCHANGED <<x1, x2, x3, x6>>
      /\ x5' = [x5 EXCEPT ![n] = t] /\ x4' = [x4 EXCEPT ![n] = FALSE]
      /\ Plugins!Move(t, IF x4[n] THEN "stopping" ELSE "start")
      /\ n = x1 /\ n \in Plugins!Tables /\ x3 = t /\ x1 \in Nat
      /\ x7[t].ask \notin Plugins!Extensions
  BY HostShape
     DEF Plugins!StopSlot, Plugins!At, Plugins!HostInv, Plugins!LocksAreHeld, Plugins!Locking,
         Plugins!PluginsAreLoaded
<1>2. /\ x7' \in [Threads -> Plugins!Standing]
      /\ x7'[t].at \in {"stopping", "start"} /\ x7'[t].table = n /\ x7'[t].ask = x7[t].ask
      /\ \A u \in Threads \ {t} : x7'[u] = x7[u]
  BY <1>1, ThreadMoves DEF Plugins!Locking
<1>3. /\ x5' \in [Plugins!Tables -> Threads \cup {Plugins!Nobody}]
      /\ x4' \in [Plugins!Tables -> BOOLEAN]
  BY <1>1 DEF Plugins!HostInv
<1>4. Plugins!LocksAreHeld'
  BY <1>1, <1>2, HostShape DEF Plugins!HostInv, Plugins!LocksAreHeld, Plugins!Locking
<1>5. Plugins!TablesAreBuiltApart'
  BY <1>1, <1>2 DEF Plugins!HostInv, Plugins!TablesAreBuiltApart, Plugins!Loading
<1>6. Plugins!PluginsAreLoaded'
  <2>1. \A u \in Threads \ {t} : x7[u].at = "exec" => x7[u].table # n
    BY <1>1, HostShape DEF Plugins!HostInv, Plugins!LocksAreHeld
  <2> QED
    BY <1>1, <1>2, <2>1, HostShape DEF Plugins!HostInv, Plugins!PluginsAreLoaded
<1>7. Plugins!SlotsAreTrue'
  <2>1. Plugins!SlotsAreTrue
    BY DEF Plugins!HostInv
  <2> QED
    BY <1>1, <1>2, <1>3, <2>1, HostShape DEF Plugins!SlotsAreTrue
<1> QED
  BY <1>1, <1>2, <1>3, <1>4, <1>5, <1>6, <1>7 DEF Plugins!HostInv

LEMMA SwitchHasStopped ==
    ASSUME Plugins!HostInv, NEW t \in Threads, Plugins!StopReturns(t)
    PROVE  Plugins!HostInv'
<1>1. /\ x7[t].at = "stopping" /\ UNCHANGED <<x1, x2, x3, x4, x5, x6>>
      /\ Plugins!Move(t, "start") /\ x7[t].ask \notin Plugins!Extensions
  BY DEF Plugins!StopReturns, Plugins!At, Plugins!HostInv, Plugins!PluginsAreLoaded
<1>2. /\ x7' \in [Threads -> Plugins!Standing]
      /\ x7'[t].at = "start" /\ x7'[t].table = x7[t].table /\ x7'[t].ask = x7[t].ask
      /\ \A u \in Threads \ {t} : x7'[u] = x7[u]
  BY <1>1, ThreadMoves DEF Plugins!Locking
<1>3. Plugins!LocksAreHeld'
  BY <1>1, <1>2, SMTT(30) DEF Plugins!HostInv, Plugins!LocksAreHeld, Plugins!Locking
<1>4. Plugins!TablesAreBuiltApart'
  BY <1>1, <1>2 DEF Plugins!HostInv, Plugins!TablesAreBuiltApart, Plugins!Loading
<1>5. Plugins!PluginsAreLoaded'
  BY <1>1, <1>2 DEF Plugins!HostInv, Plugins!PluginsAreLoaded
<1>6. Plugins!SlotsAreTrue'
  BY <1>1, <1>2 DEF Plugins!HostInv, Plugins!SlotsAreTrue
<1> QED
  BY <1>1, <1>2, <1>3, <1>4, <1>5, <1>6 DEF Plugins!HostInv

(* The plugin is out, its lock free and its slot not running: that is all,  *)
(* or a new one is built, and no call finds one before.                     *)
LEMMA SwitchGoesOn ==
    ASSUME Plugins!HostInv, NEW t \in Threads, Plugins!Stopped(t)
    PROVE  Plugins!HostInv'
<1> DEFINE n == x7[t].table
<1>1. /\ x7[t].at = "start" /\ UNCHANGED <<x1, x4, x6>>
      /\ x5' = [x5 EXCEPT ![n] = Plugins!Nobody] /\ x2' = [x2 EXCEPT ![n].running = FALSE]
      /\ \/ Plugins!Move(t, "starting") /\ x3' = x3
         \/ Plugins!Done(t) /\ x3' = Plugins!Nobody
      /\ n = x1 /\ n \in Plugins!Tables /\ x3 = t /\ x5[n] = t /\ x1 \in Nat /\ 1 <= x1
      /\ x7[t].ask \notin Plugins!Extensions
  BY HostShape
     DEF Plugins!Stopped, Plugins!At, Plugins!HostInv, Plugins!LocksAreHeld, Plugins!Locking,
         Plugins!PluginsAreLoaded, Plugins!Tables
<1>2. ~x4[n]
  BY <1>1 DEF Plugins!HostInv, Plugins!PluginsAreLoaded
<1>3. /\ x7' \in [Threads -> Plugins!Standing]
      /\ \/ x7'[t].at = "starting" /\ x7'[t].table = n /\ x3' = t
         \/ x7'[t].at = "idle" /\ x7'[t].table = 1 /\ x3' = Plugins!Nobody
      /\ x7'[t].ask \notin Plugins!Extensions
      /\ \A u \in Threads \ {t} : x7'[u] = x7[u]
  BY <1>1, ThreadMoves, ThreadIsDone DEF Plugins!Locking, Plugins!Extensions
<1>4. /\ x5' \in [Plugins!Tables -> Threads \cup {Plugins!Nobody}]
      /\ x2' \in [Plugins!Tables -> [enabled : BOOLEAN, running : BOOLEAN, error : BOOLEAN]]
      /\ ~x2'[n].running /\ \A m \in Plugins!Tables \ {n} : x2'[m] = x2[m]
  BY <1>1 DEF Plugins!HostInv
<1>5. Plugins!LocksAreHeld'
  <2>1. Plugins!LocksAreHeld /\ x5 \in [Plugins!Tables -> Threads \cup {Plugins!Nobody}]
    BY DEF Plugins!HostInv
  <2> QED
    BY <1>1, <1>3, <2>1, HostShape DEF Plugins!LocksAreHeld, Plugins!Locking
<1>6. Plugins!TablesAreBuiltApart'
  <2>1. Plugins!TablesAreBuiltApart
    BY DEF Plugins!HostInv
  <2> QED
    BY <1>1, <1>3, <2>1 DEF Plugins!TablesAreBuiltApart, Plugins!Loading
<1>7. Plugins!PluginsAreLoaded'
  BY <1>1, <1>2, <1>3 DEF Plugins!HostInv, Plugins!PluginsAreLoaded
<1>8. Plugins!SlotsAreTrue'
  <2>1. Plugins!SlotsAreTrue
    BY DEF Plugins!HostInv
  <2> QED
    BY <1>1, <1>3, <1>4, <2>1, HostShape DEF Plugins!SlotsAreTrue
<1> QED
  BY <1>1, <1>3, <1>4, <1>5, <1>6, <1>7, <1>8 DEF Plugins!HostInv

(* The new plugin has started, or has not; nobody else was at it. *)
LEMMA SwitchEnds ==
    ASSUME Plugins!HostInv, NEW t \in Threads, Plugins!StartReturns(t)
    PROVE  Plugins!HostInv'
<1> DEFINE n == x7[t].table
<1>1. /\ x7[t].at = "starting" /\ UNCHANGED <<x1, x5, x6>> /\ x3' = Plugins!Nobody
      /\ \/ /\ x4' = [x4 EXCEPT ![n] = TRUE]
            /\ x2' = [x2 EXCEPT ![n].running = TRUE, ![n].error = FALSE]
         \/ UNCHANGED <<x4, x2>>
      /\ Plugins!Done(t)
      /\ n = x1 /\ n \in Plugins!Tables /\ x3 = t /\ x1 \in Nat /\ 1 <= x1
  BY HostShape
     DEF Plugins!StartReturns, Plugins!At, Plugins!HostInv, Plugins!LocksAreHeld,
         Plugins!Locking, Plugins!Tables
<1>2. /\ x7' \in [Threads -> Plugins!Standing]
      /\ x7'[t].at = "idle" /\ x7'[t].table = 1 /\ x7'[t].ask = "none"
      /\ \A u \in Threads \ {t} : x7'[u] = x7[u]
  BY <1>1, ThreadIsDone
<1>3. /\ x4' \in [Plugins!Tables -> BOOLEAN]
      /\ x4' = x4 \/ x4'[n]
      /\ \A m \in Plugins!Tables \ {n} : x4'[m] = x4[m]
  BY <1>1 DEF Plugins!HostInv
<1>4. /\ x2' \in [Plugins!Tables -> [enabled : BOOLEAN, running : BOOLEAN, error : BOOLEAN]]
      /\ (x4' = x4 /\ x2' = x2) \/ x4'[n]
      /\ \A m \in Plugins!Tables \ {n} : x2'[m] = x2[m]
  <2>1. CASE UNCHANGED <<x4, x2>>
    BY <2>1 DEF Plugins!HostInv
  <2>2. CASE /\ x4' = [x4 EXCEPT ![n] = TRUE]
             /\ x2' = [x2 EXCEPT ![n].running = TRUE, ![n].error = FALSE]
    <3>1. x4'[n]
      BY <1>1, <2>2 DEF Plugins!HostInv
    <3> QED
      BY <1>1, <2>2, <3>1, ZenonT(60) DEF Plugins!HostInv
  <2> QED
    BY <1>1, <2>1, <2>2
<1>5. \A u \in Threads \ {t} : x7[u].at \notin Plugins!Locking
  BY <1>1 DEF Plugins!HostInv, Plugins!LocksAreHeld
<1>6. Plugins!LocksAreHeld'
  <2>1. Plugins!LocksAreHeld
    BY DEF Plugins!HostInv
  <2> QED
    BY <1>1, <1>2, <1>5, <2>1, HostShape DEF Plugins!LocksAreHeld, Plugins!Locking
<1>7. Plugins!TablesAreBuiltApart'
  <2>1. Plugins!TablesAreBuiltApart
    BY DEF Plugins!HostInv
  <2> QED
    BY <1>1, <1>2, <2>1 DEF Plugins!TablesAreBuiltApart, Plugins!Loading
<1>8. Plugins!PluginsAreLoaded'
  <2>1. Plugins!PluginsAreLoaded
    BY DEF Plugins!HostInv
  <2> QED
    BY <1>2, <1>3, <1>5, <2>1, HostShape, ZenonT(60)
       DEF Plugins!PluginsAreLoaded, Plugins!Extensions, Plugins!Locking
<1>9. Plugins!SlotsAreTrue'
  <2>1. Plugins!SlotsAreTrue
    BY DEF Plugins!HostInv
  <2>2. \A u \in Threads :
           x7[u].at \in {"mark", "stopping", "start"} => x7'[u] = x7[u]
    BY <1>1, <1>2
  <2>3. \A m \in Plugins!Tables : x4'[m] \/ (x4'[m] = x4[m] /\ x2'[m] = x2[m])
    BY <1>3, <1>4
  <2> QED
    BY <1>1, <2>1, <2>2, <2>3 DEF Plugins!SlotsAreTrue
<1> QED
  BY <1>1, <1>2, <1>3, <1>4, <1>6, <1>7, <1>8, <1>9 DEF Plugins!HostInv

-----------------------------------------------------------------------------
(* The loading of a new table, beside the one in use. *)

(* Who loads is alone in that, and its table is the next. *)
LEMMA LoadBegins ==
    ASSUME Plugins!HostInv, NEW t \in Threads, Plugins!Reload(t)
    PROVE  Plugins!HostInv'
<1> DEFINE r == [at |-> "load", table |-> x1 + 1, on |-> x6, ask |-> "none"]
<1>1. /\ x7[t].at = "idle" /\ x1 < MaxTables /\ UNCHANGED <<x1, x2, x3, x4, x5, x6>>
      /\ \A u \in Threads : x7[u].at \notin Plugins!Loading
      /\ x7' = [x7 EXCEPT ![t] = r]
  <2>1. [Plugins!Idle EXCEPT !.at = "load", !.on = x6, !.table = x1 + 1] = r
    <3> DEFINE s == [Plugins!Idle EXCEPT !.at = "load", !.on = x6, !.table = x1 + 1]
    <3>1. s = [f \in {"at", "table", "on", "ask"} |->
                 IF f = "table" THEN x1 + 1 ELSE IF f = "on" THEN x6
                 ELSE IF f = "at" THEN "load" ELSE Plugins!Idle[f]]
      BY DEF Plugins!Idle
    <3>2. Plugins!Idle.ask = "none"
      BY DEF Plugins!Idle
    <3> HIDE DEF s
    <3>3. s = r
      BY <3>1, <3>2
    <3> QED
      BY <3>3 DEF s
  <2>2. /\ x7[t].at = "idle" /\ x1 < MaxTables /\ UNCHANGED <<x1, x2, x3, x4, x5, x6>>
        /\ \A u \in Threads : x7[u].at \notin Plugins!Loading
        /\ x7' = [x7 EXCEPT ![t] =
                    [Plugins!Idle EXCEPT !.at = "load", !.on = x6, !.table = x1 + 1]]
    BY DEF Plugins!Reload, Plugins!Begins, Plugins!At, Plugins!Loading
  <2> HIDE DEF r
  <2> QED
    BY <2>1, <2>2
<1>2. r \in Plugins!Standing
  BY <1>1, HostBounds, HostShape
     DEF Plugins!HostInv, Plugins!Standing, Plugins!Tables, Plugins!Loading
<1>3. /\ x7' \in [Threads -> Plugins!Standing] /\ x7'[t] = r
      /\ \A u \in Threads \ {t} : x7'[u] = x7[u]
  BY <1>1, <1>2 DEF Plugins!HostInv
<1>4. Plugins!LocksAreHeld'
  BY <1>1, <1>3 DEF Plugins!HostInv, Plugins!LocksAreHeld, Plugins!Locking
<1>5. Plugins!TablesAreBuiltApart'
  BY <1>1, <1>3 DEF Plugins!HostInv, Plugins!TablesAreBuiltApart, Plugins!Loading
<1>6. Plugins!PluginsAreLoaded'
  BY <1>1, <1>3 DEF Plugins!HostInv, Plugins!PluginsAreLoaded, Plugins!Extensions
<1>7. Plugins!SlotsAreTrue'
  BY <1>1, <1>3 DEF Plugins!HostInv, Plugins!SlotsAreTrue
<1> QED
  BY <1>1, <1>3, <1>4, <1>5, <1>6, <1>7 DEF Plugins!HostInv

(* The slot of the new table is filled while no call can be in it. *)
LEMMA LoadFills ==
    ASSUME Plugins!HostInv, NEW t \in Threads,
           Plugins!StartNew(t) \/ Plugins!NewStarted(t)
    PROVE  Plugins!HostInv'
<1> DEFINE n == x7[t].table
<1>1. PICK at \in {"loading", "swap"} :
         /\ x7[t].at \in {"load", "loading"} /\ Plugins!Move(t, at)
         /\ UNCHANGED <<x1, x3, x5, x6>>
  BY DEF Plugins!StartNew, Plugins!NewStarted, Plugins!At
<1>2. /\ n = x1 + 1 /\ n \in Plugins!Tables /\ x1 \in Nat /\ x7[t].on \in BOOLEAN
      /\ x7[t].ask \notin Plugins!Extensions
      /\ \A u \in Threads \ {t} : x7[u].table # n
  <2>1. /\ n = x1 + 1 /\ n \in Plugins!Tables /\ x1 \in Nat /\ x7[t].on \in BOOLEAN
        /\ x7[t].ask \notin Plugins!Extensions
    BY <1>1, HostShape
       DEF Plugins!HostInv, Plugins!TablesAreBuiltApart, Plugins!Loading,
           Plugins!PluginsAreLoaded, Plugins!Standing
  <2>2. ASSUME NEW u \in Threads \ {t}
        PROVE  x7[u].table # n
    <3>1. x7[u].at \notin Plugins!Loading /\ x7[u].table <= x1 /\ x7[u].table \in Nat
      BY <1>1, HostShape DEF Plugins!HostInv, Plugins!TablesAreBuiltApart, Plugins!Loading
    <3> QED
      BY <2>1, <3>1
  <2> QED
    BY <2>1, <2>2
<1>3. /\ x7' \in [Threads -> Plugins!Standing]
      /\ x7'[t].at = at /\ x7'[t].table = n /\ x7'[t].ask = x7[t].ask
      /\ \A u \in Threads \ {t} : x7'[u] = x7[u]
  BY <1>1, ThreadMoves DEF Plugins!Loading
<1>4. /\ x2' \in [Plugins!Tables -> [enabled : BOOLEAN, running : BOOLEAN, error : BOOLEAN]]
      /\ x4' \in [Plugins!Tables -> BOOLEAN]
      /\ (x4' = x4 /\ x2'[n].running = x2[n].running) \/ x2'[n].running = x4'[n]
      /\ \A m \in Plugins!Tables \ {n} : x2'[m] = x2[m] /\ x4'[m] = x4[m]
  <2>1. CASE Plugins!StartNew(t)
    BY <1>2, <2>1 DEF Plugins!StartNew, Plugins!HostInv
  <2>2. CASE Plugins!NewStarted(t)
    <3>1. PICK ok \in BOOLEAN :
             /\ x4' = [x4 EXCEPT ![n] = ok]
             /\ x2' = [x2 EXCEPT ![n].running = ok, ![n].error = ~ok]
      BY <2>2 DEF Plugins!NewStarted
    <3>2. x4' \in [Plugins!Tables -> BOOLEAN] /\ x4'[n] = ok
      BY <1>2, <3>1 DEF Plugins!HostInv
    <3>3. /\ x2' \in [Plugins!Tables -> [enabled : BOOLEAN, running : BOOLEAN, error : BOOLEAN]]
          /\ x2'[n].running = ok
      BY <1>2, <3>1 DEF Plugins!HostInv
    <3> QED
      BY <1>2, <3>1, <3>2, <3>3 DEF Plugins!HostInv
  <2> QED
    BY <2>1, <2>2
<1>5. Plugins!LocksAreHeld'
  <2>1. Plugins!LocksAreHeld
    BY DEF Plugins!HostInv
  <2> QED
    BY <1>1, <1>3, <2>1 DEF Plugins!LocksAreHeld, Plugins!Locking
<1>6. Plugins!TablesAreBuiltApart'
  <2>1. Plugins!TablesAreBuiltApart
    BY DEF Plugins!HostInv
  <2> QED
    BY <1>1, <1>2, <1>3, <2>1 DEF Plugins!TablesAreBuiltApart, Plugins!Loading
<1>7. Plugins!PluginsAreLoaded'
  <2>1. Plugins!PluginsAreLoaded
    BY DEF Plugins!HostInv
  <2> QED
    BY <1>1, <1>2, <1>3, <1>4, <2>1, HostShape DEF Plugins!PluginsAreLoaded
<1>8. Plugins!SlotsAreTrue'
  <2> SUFFICES ASSUME NEW m \in Plugins!Tables, m >= x1, x2'[m].running, ~x4'[m]
               PROVE  \E u \in Threads :
                         x7'[u].at \in {"mark", "stopping", "start"} /\ x7'[u].table = m
    BY <1>1 DEF Plugins!SlotsAreTrue
  <2>1. x2[m].running /\ ~x4[m]
    BY <1>2, <1>4
  <2>2. PICK u \in Threads : x7[u].at \in {"mark", "stopping", "start"} /\ x7[u].table = m
    BY <2>1 DEF Plugins!HostInv, Plugins!SlotsAreTrue
  <2>3. x7'[u] = x7[u]
    BY <1>1, <1>3, <2>2
  <2> QED
    BY <2>2, <2>3
<1> QED
  BY <1>1, <1>3, <1>4, <1>5, <1>6, <1>7, <1>8 DEF Plugins!HostInv

(* The new table is put in the place of the old one, with no switch at it.  *)
LEMMA LoadEnds ==
    ASSUME Plugins!HostInv, NEW t \in Threads, Plugins!Swap(t)
    PROVE  Plugins!HostInv'
<1>1. /\ x7[t].at = "swap" /\ x3 = Plugins!Nobody /\ x1' = x7[t].table /\ Plugins!Done(t)
      /\ UNCHANGED <<x2, x3, x4, x5, x6>>
      /\ x1' = x1 + 1 /\ x1' \in Plugins!Tables /\ x1 \in Nat
  BY HostShape
     DEF Plugins!Swap, Plugins!At, Plugins!HostInv, Plugins!TablesAreBuiltApart,
         Plugins!Loading
<1>2. /\ x7' \in [Threads -> Plugins!Standing]
      /\ x7'[t].at = "idle" /\ x7'[t].table = 1 /\ x7'[t].ask = "none"
      /\ \A u \in Threads \ {t} : x7'[u] = x7[u]
  BY <1>1, ThreadIsDone
<1>3. \A u \in Threads \ {t} :
         /\ x7[u].at \notin Plugins!Locking /\ x7[u].at \notin Plugins!Loading
         /\ x7[u].table <= x1 /\ x7[u].table \in Nat
  BY <1>1, HostShape
     DEF Plugins!HostInv, Plugins!LocksAreHeld, Plugins!TablesAreBuiltApart, Plugins!Loading
<1>4. Plugins!LocksAreHeld'
  <2>1. Plugins!LocksAreHeld
    BY DEF Plugins!HostInv
  <2> QED
    BY <1>1, <1>2, <1>3, <2>1, HostShape DEF Plugins!LocksAreHeld, Plugins!Locking
<1>5. Plugins!TablesAreBuiltApart'
  BY <1>1, <1>2, <1>3 DEF Plugins!TablesAreBuiltApart, Plugins!Loading
<1>6. Plugins!PluginsAreLoaded'
  <2>1. Plugins!PluginsAreLoaded
    BY DEF Plugins!HostInv
  <2> QED
    BY <1>1, <1>2, <2>1 DEF Plugins!PluginsAreLoaded, Plugins!Extensions
<1>7. Plugins!SlotsAreTrue'
  <2>1. Plugins!SlotsAreTrue /\ \A m \in Plugins!Tables : m >= x1' => m >= x1
    BY <1>1, HostShape DEF Plugins!HostInv
  <2> QED
    BY <1>1, <1>2, <2>1 DEF Plugins!SlotsAreTrue
<1> QED
  BY <1>1, <1>2, <1>4, <1>5, <1>6, <1>7 DEF Plugins!HostInv

-----------------------------------------------------------------------------
(* The plugin host. *)

(* No thread is at work at first, and no plugin is loaded. *)
LEMMA HostStarts == Plugins!Init => Plugins!HostInv
<1> SUFFICES ASSUME Plugins!Init
             PROVE  Plugins!HostInv
  OBVIOUS
<1> USE HostBounds DEF Plugins!Init, Plugins!Nobody
<1>1. 1 \in Plugins!Tables /\ Plugins!Idle \in Plugins!Standing
  BY DEF Plugins!Tables, Plugins!Idle, Plugins!Standing
<1>2. /\ x7 \in [Threads -> Plugins!Standing]
      /\ \A t \in Threads : x7[t].at = "idle" /\ x7[t].table = 1 /\ x7[t].ask = "none"
  BY <1>1 DEF Plugins!Idle
<1>3. Plugins!LocksAreHeld
  BY <1>2 DEF Plugins!LocksAreHeld, Plugins!Locking
<1>4. Plugins!TablesAreBuiltApart
  BY <1>2 DEF Plugins!TablesAreBuiltApart, Plugins!Loading
<1>5. Plugins!PluginsAreLoaded /\ Plugins!SlotsAreTrue
  BY <1>2 DEF Plugins!PluginsAreLoaded, Plugins!SlotsAreTrue, Plugins!Extensions
<1> QED
  BY <1>1, <1>2, <1>3, <1>4, <1>5 DEF Plugins!HostInv

(* Every step of the host keeps its invariant. *)
LEMMA HostSteps == Plugins!HostInv /\ [Plugins!Next]_(Plugins!vars) => Plugins!HostInv'
<1>1. Plugins!HostInv /\ UNCHANGED Plugins!vars => Plugins!HostInv'
  BY DEF Plugins!vars, Plugins!HostInv, Plugins!LocksAreHeld, Plugins!TablesAreBuiltApart,
         Plugins!PluginsAreLoaded, Plugins!SlotsAreTrue
<1>2. ASSUME Plugins!HostInv, NEW t \in Threads,
             \/ Plugins!Enter(t) \/ Plugins!CallReturns(t) \/ Plugins!CallPanics(t)
             \/ Plugins!MarkPanic(t)
      PROVE  Plugins!HostInv'
  BY <1>2, CallEnters, CallLeaves, CallPanicsOut, PanicIsMarked
<1>3. ASSUME Plugins!HostInv, NEW t \in Threads,
             \/ Plugins!TakeSlots(t) \/ Plugins!StopSlot(t) \/ Plugins!StopReturns(t)
             \/ Plugins!Stopped(t) \/ Plugins!StartReturns(t)
      PROVE  Plugins!HostInv'
  BY <1>3, SwitchBegins, SwitchStops, SwitchHasStopped, SwitchGoesOn, SwitchEnds
<1>4. ASSUME Plugins!HostInv, NEW t \in Threads,
             \/ Plugins!Reload(t) \/ Plugins!StartNew(t) \/ Plugins!NewStarted(t)
             \/ Plugins!Swap(t)
      PROVE  Plugins!HostInv'
  BY <1>4, LoadBegins, LoadFills, LoadEnds
<1> QED
  BY <1>1, <1>2, <1>3, <1>4, QuietSteps DEF Plugins!Next

(* Whoever waits for the lock of the slots holds nothing, and its holder     *)
(* waits at most for the lock of a plugin, which a call has that waits for   *)
(* nothing: the routes that take the lock of the slots are refused to it.    *)
LEMMA HostWaitsInNoCircle == Plugins!HostInv => Plugins!NoLockCycle
<1> SUFFICES ASSUME Plugins!HostInv, NEW t \in Threads
             PROVE  /\ t \notin Plugins!WaitsFor(t)
                    /\ \A u \in Plugins!WaitsFor(t) : t \notin Plugins!WaitsFor(u)
  BY DEF Plugins!NoLockCycle
<1>1. \A u \in Threads :
         /\ x3 = u <=> x7[u].at \in {"stop", "stopping", "start", "starting"}
         /\ x7[u].table \in Plugins!Tables
         /\ x7[u].ask \notin Plugins!Extensions
  BY HostShape
     DEF Plugins!HostInv, Plugins!LocksAreHeld, Plugins!Locking, Plugins!PluginsAreLoaded
<1>2. \A u, v \in Threads :
         x5[x7[u].table] = v => x7[v].at \in {"exec", "stopping", "start"}
  BY <1>1 DEF Plugins!HostInv, Plugins!LocksAreHeld
<1>3. ASSUME NEW u \in Threads, NEW v \in Plugins!WaitsFor(u)
      PROVE  /\ v \in Threads
             /\ \/ x7[u].at \in {"picked", "mark", "switch", "swap"}
                   /\ x7[v].at \in {"stop", "stopping", "start", "starting"}
                \/ x7[u].at \in {"enter", "stop"}
                   /\ x7[v].at \in {"exec", "stopping", "start"}
  <2>1. v # Plugins!Nobody
    BY <1>3 DEF Plugins!WaitsFor
  <2>2. CASE x7[u].at \in {"picked", "mark", "switch", "swap"}
    <3>1. v = x3
      BY <1>1, <1>3, <2>2 DEF Plugins!WaitsFor
    <3> QED
      BY <1>1, <2>1, <2>2, <3>1 DEF Plugins!HostInv
  <2>3. CASE x7[u].at \in {"enter", "stop"}
    <3>1. v = x5[x7[u].table]
      BY <1>1, <1>3, <2>3 DEF Plugins!WaitsFor
    <3> QED
      BY <1>1, <1>2, <2>1, <2>3, <3>1 DEF Plugins!HostInv
  <2>4. CASE x7[u].at \notin {"picked", "mark", "switch", "swap", "enter", "stop"}
    BY <1>1, <1>3, <2>4 DEF Plugins!WaitsFor
  <2> QED
    BY <2>2, <2>3, <2>4
<1>4. t \notin Plugins!WaitsFor(t)
  BY <1>3
<1>5. ASSUME NEW u \in Plugins!WaitsFor(t), t \in Plugins!WaitsFor(u)
      PROVE  FALSE
  <2>1. u \in Threads
    BY <1>3, <1>5
  <2>2. CASE x7[t].at \in {"enter", "stop"} /\ x7[u].at \in {"exec", "stopping", "start"}
    BY <1>3, <1>5, <2>1, <2>2
  <2>3. CASE x7[t].at \in {"picked", "mark", "switch", "swap"}
    BY <1>3, <1>5, <2>1, <2>3
  <2> QED
    BY <1>3, <2>2, <2>3
<1> QED
  BY <1>4, <1>5

(* Two threads that export on one table are one. *)
LEMMA ExportsAlone ==
    ASSUME Plugins!HostInv, NEW t \in Threads, NEW u \in Threads,
           x7[t].at \in Plugins!Exporting, x7[u].at \in Plugins!Exporting,
           x7[t].table = x7[u].table
    PROVE  t = u
<1> DEFINE n == x7[t].table
<1> USE HostShape DEF Plugins!Exporting
<1>1. \A v \in Threads :
         /\ x7[v].at \in {"stopping", "starting"} => x3 = v
         /\ x7[v].at \in {"exec", "stopping"} /\ x7[v].table = n => x5[n] = v
  BY DEF Plugins!HostInv, Plugins!LocksAreHeld, Plugins!Locking
<1>2. \A v \in Threads :
         /\ x7[v].at = "exec" /\ x7[v].table = n => x4[n]
         /\ x7[v].at = "starting" /\ x7[v].table = n => ~x4[n]
  BY DEF Plugins!HostInv, Plugins!PluginsAreLoaded
<1>3. \A v, w \in Threads :
         /\ x7[v].at = "loading" /\ x7[w].at = "loading" => v = w
         /\ x7[v].at = "loading" => x7[v].table = x1 + 1
         /\ x7[v].at \in {"exec", "stopping", "starting"} => x7[v].table <= x1
  BY DEF Plugins!HostInv, Plugins!TablesAreBuiltApart, Plugins!Loading
<1>4. CASE x7[t].at = "loading" \/ x7[u].at = "loading"
  BY <1>3, <1>4
<1>5. CASE x7[t].at # "loading" /\ x7[u].at # "loading"
  BY <1>1, <1>2, <1>5
<1> QED
  BY <1>4, <1>5

(* And a slot that runs has its plugin. *)
LEMMA HostRunsAlone == Plugins!HostInv => Plugins!PluginRunsAlone
<1> SUFFICES ASSUME Plugins!HostInv
             PROVE  Plugins!PluginRunsAlone
  OBVIOUS
<1>2. x2[x1].running =>
         \/ x4[x1]
         \/ \E t \in Threads : x7[t].at \in {"mark", "stopping", "start"} /\ x7[t].table = x1
  <2>1. x1 \in Plugins!Tables /\ x1 >= x1
    BY HostShape
  <2> QED
    BY <2>1 DEF Plugins!HostInv, Plugins!SlotsAreTrue
<1> QED
  BY <1>2, ExportsAlone DEF Plugins!PluginRunsAlone
=============================================================================
