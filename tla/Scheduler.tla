------------------------------ MODULE Scheduler ------------------------------
(***************************************************************************)
(* The schedules of control (registry.rs): every 15 seconds the loop copies *)
(* what is due and runs it, one after the other; a run may take any time,   *)
(* and meanwhile schedules are made and deleted.  Control may restart at    *)
(* any step and finds what was saved.                                       *)
(***************************************************************************)
EXTENDS Integers

CONSTANTS
    Schedules,      \* identities of schedules
    Every,          \* every_secs, the same for all
    MaxTime,        \* bound: the clock
    MaxRestarts     \* bound: restarts of control

VARIABLES
    now,
    sched,      \* AppState::schedules, and whether each is listed
    saved,      \* the schedules on disk
    loop,       \* run_due_schedules: its copy of what is due, what it runs, and when that ended
    restarts,
    ended,      \* history: when the last run of a schedule ended whose end was saved
    late        \* history: runs of a schedule that began after it was deleted

vars == <<now, sched, saved, loop, restarts, ended, late>>

Never == -1

TypeOK ==
    /\ now \in 0..MaxTime
    /\ \A s \in Schedules :
          sched[s].state \in {"unborn", "listed", "deleted"} /\ sched[s].next \in Nat
    /\ loop.due \subseteq Schedules /\ loop.cur \subseteq Schedules
    /\ loop.at \in {"idle", "pick", "run", "save"}

Init ==
    /\ now = 0
    /\ sched = [s \in Schedules |-> [state |-> "unborn", next |-> 0]]
    /\ saved = sched
    /\ loop = [at |-> "idle", due |-> {}, cur |-> {}, end |-> Never]
    /\ restarts = 0
    /\ ended = [s \in Schedules |-> Never]
    /\ late = [s \in Schedules |-> 0]

Tick ==
    /\ now < MaxTime
    /\ now' = now + 1
    /\ UNCHANGED <<sched, saved, loop, restarts, ended, late>>

-----------------------------------------------------------------------------
(* create_schedule and delete_schedule persist at once; the saved copy may *)
(* be older only while the loop is between its write and its persist.      *)
CreateSchedule(s) ==
    /\ sched[s].state = "unborn"
    /\ sched' = [sched EXCEPT ![s] = [state |-> "listed", next |-> now + Every]]
    /\ saved' = sched'
    /\ UNCHANGED <<now, restarts, loop, ended, late>>

DeleteSchedule(s) ==
    /\ sched[s].state = "listed"
    /\ sched' = [sched EXCEPT ![s].state = "deleted"]
    /\ saved' = sched'
    /\ UNCHANGED <<now, restarts, loop, ended, late>>

Due(s) == sched[s].state = "listed" /\ sched[s].next <= now

CollectDue ==
    /\ loop.at = "idle"
    /\ loop' = [loop EXCEPT !.at = "pick", !.due = {s \in Schedules : Due(s)}]
    /\ UNCHANGED <<now, restarts, sched, saved, ended, late>>

(* The run begins on the copy, whatever the schedule has become.           *)
RunDue ==
    /\ loop.at = "pick"
    /\ \/ /\ loop.due = {}
          /\ loop' = [loop EXCEPT !.at = "idle"]
          /\ UNCHANGED late
       \/ \E s \in loop.due :
             /\ loop' = [loop EXCEPT !.at = "run", !.due = @ \ {s}, !.cur = {s}]
             /\ late' = [late EXCEPT ![s] = IF sched[s].state = "deleted" THEN @ + 1 ELSE @]
    /\ UNCHANGED <<now, restarts, sched, saved, ended>>

(* The backup, restart or command is done, or failed: the next time is     *)
(* counted from the end.                                                   *)
RunEnds_FromDue ==  \* seeded fault: the next time is counted from the time it was due
    /\ loop.at = "run"
    /\ sched' = [s \in Schedules |->
                    IF s \in loop.cur /\ sched[s].state = "listed"
                    THEN [sched[s] EXCEPT !.next = @ + Every] ELSE sched[s]]
    /\ loop' = [loop EXCEPT !.at = "save", !.end = now]
    /\ UNCHANGED <<now, restarts, saved, ended, late>>

RunEnds ==
    /\ loop.at = "run"
    /\ sched' = [s \in Schedules |->
                    IF s \in loop.cur /\ sched[s].state = "listed"
                    THEN [sched[s] EXCEPT !.next = now + Every] ELSE sched[s]]
    /\ loop' = [loop EXCEPT !.at = "save", !.end = now]
    /\ UNCHANGED <<now, restarts, saved, ended, late>>

SaveRun ==
    /\ loop.at = "save"
    /\ saved' = sched
    /\ ended' = [s \in Schedules |-> IF s \in loop.cur THEN loop.end ELSE ended[s]]
    /\ loop' = [loop EXCEPT !.at = "pick", !.cur = {}]
    /\ UNCHANGED <<now, restarts, sched, late>>

-----------------------------------------------------------------------------
Restart ==
    /\ restarts < MaxRestarts
    /\ restarts' = restarts + 1
    /\ sched' = saved
    /\ loop' = [at |-> "idle", due |-> {}, cur |-> {}, end |-> Never]
    /\ UNCHANGED <<now, saved, ended, late>>

Next ==
    \/ Tick \/ Restart
    \/ \E s \in Schedules : CreateSchedule(s) \/ DeleteSchedule(s)
    \/ CollectDue \/ RunDue \/ RunEnds \/ SaveRun

Spec == Init /\ [][Next]_vars

-----------------------------------------------------------------------------
(* A schedule does not run again before its interval has passed since the  *)
(* end of the run before, and at most once after it was deleted            *)
(* (registry.rs:1868).                                                     *)
RunsKeepTheirDistance ==
    /\ \A s \in Schedules : late[s] <= 1
    /\ loop.at = "run" => \A s \in loop.cur : ended[s] = Never \/ now - ended[s] >= Every

(* Why it holds.  In memory and on disk the next time of a schedule is an   *)
(* interval after the end that was saved, and when a run is about to be      *)
(* saved, after the end of that one.                                         *)
Listing == [Schedules -> [state : {"unborn", "listed", "deleted"}, next : Nat]]
Spaced(list) ==
    \A s \in Schedules :
        list[s].state = "listed" => ended[s] = Never \/ list[s].next >= ended[s] + Every
CopiesAreDue ==
    /\ \A s \in loop.due : ended[s] = Never \/ now >= ended[s] + Every
    /\ loop.at = "run" => \A s \in loop.cur : ended[s] = Never \/ now >= ended[s] + Every
    /\ loop.at = "save" =>
          \A s \in loop.cur : sched[s].state = "listed" => sched[s].next >= loop.end + Every
    /\ loop.due \cap loop.cur = {}
    /\ loop.at \in {"idle", "pick"} => loop.cur = {}

(* A deleted schedule is deleted on disk too, and is copied no more.        *)
DeletedStay ==
    \A s \in Schedules :
        /\ sched[s].state = "deleted" => saved[s].state = "deleted"
        /\ late[s] = 0 \/ (late[s] = 1 /\ sched[s].state = "deleted" /\ s \notin loop.due)

(* What every step keeps. *)
SchedulerInv ==
    /\ now \in Nat /\ sched \in Listing /\ saved \in Listing
    /\ loop \in [at : {"idle", "pick", "run", "save"},
                 due : SUBSET Schedules, cur : SUBSET Schedules, end : Int]
    /\ ended \in [Schedules -> Int] /\ late \in [Schedules -> Nat]
    /\ loop.end <= now /\ \A s \in Schedules : ended[s] <= now
    /\ Spaced(sched) /\ Spaced(saved) /\ CopiesAreDue /\ DeletedStay
=============================================================================
