-------------------------------- MODULE Cron --------------------------------
(***************************************************************************)
(* Cron triggers of the workflow library (workflow.rs): what a field means,  *)
(* and when a trigger that is looked at from time to time runs.  One field  *)
(* stands for the five; the clock counts seconds, a minute has "Minute" of  *)
(* them.                                                                    *)
(***************************************************************************)
EXTENDS Integers, FiniteSets, FiniteSetsExt, Sequences, SequencesExt

CONSTANTS
    Items,      \* parts of a field: [kind, from, to, step], kind "all", "value" or "range"
    Lowest, Highest,    \* of the field
    Minute,     \* seconds
    Gap,        \* bound: seconds between two looks
    Horizon     \* bound: seconds, and the minutes next_after looks ahead

VARIABLES
    items,      \* the field
    now,        \* second
    last,       \* second of the last run, Never before the first
    ran,        \* history: minutes in which it ran
    missed      \* history: minutes that matched and passed without a run

vars == <<items, now, last, ran, missed>>

Never == -1
Bad == {}       \* what parse_field answers to a field it refuses

-----------------------------------------------------------------------------
Within(vs) == {v \in vs : Lowest <= v /\ v <= Highest}

ItemValues_Open(it) ==  \* seeded fault: the end of a stepped range is left out
    CASE it.kind = "all" /\ it.step = 0 -> Within(Lowest..Highest)
      [] it.kind = "value" /\ it.step = 0 -> Within({it.from})
      [] it.kind = "range" /\ it.step = 0 -> Within(it.from..it.to)
      [] it.kind = "all" -> {v \in Lowest..Highest : (v - Lowest) % it.step = 0}
      [] it.kind = "value" -> Within({v \in it.from..Highest : (v - it.from) % it.step = 0})
      [] it.kind = "range" -> Within({v \in it.from..(it.to - 1) : (v - it.from) % it.step = 0})

(* Step 0 stands for an item without "/".  A value with a step goes on to the *)
(* end of the field.                                                         *)
ItemValues(it) ==
    CASE it.kind = "all" /\ it.step = 0 -> Within(Lowest..Highest)
      [] it.kind = "value" /\ it.step = 0 -> Within({it.from})
      [] it.kind = "range" /\ it.step = 0 -> Within(it.from..it.to)
      [] it.kind = "all" -> {v \in Lowest..Highest : (v - Lowest) % it.step = 0}
      [] it.kind = "value" -> Within({v \in it.from..Highest : (v - it.from) % it.step = 0})
      [] it.kind = "range" -> Within({v \in it.from..it.to : (v - it.from) % it.step = 0})

(* A value outside of the field or a range that is turned round spoils the   *)
(* field, but not so within a step.                                          *)
Refused(it) == it.step = 0 /\
    \/ it.kind = "value" /\ it.from \notin Lowest..Highest
    \/ it.kind = "range" /\ it.from > it.to

ParseField(field) ==
    IF \E i \in DOMAIN field : Refused(field[i]) THEN Bad
    ELSE UNION {ItemValues(field[i]) : i \in DOMAIN field}

Values == ParseField(items)

(* The field repeats itself like the minutes of an hour.                     *)
Period == Highest - Lowest + 1
Matches(minute) == Lowest + (minute % Period) \in Values

(* The first whole minute after "from" that matches, Never when there is     *)
(* none among those that are tried.                                          *)
NextAfter(from) ==
    LET found == {m \in 1..Horizon : Matches((from \div Minute) + m)}
    IN  IF found = {} THEN Never ELSE ((from \div Minute) + Min(found)) * Minute

ShouldRun == Matches(now \div Minute) /\ (last = Never \/ now - last >= Minute)

-----------------------------------------------------------------------------
TypeOK ==
    /\ now \in 0..(Horizon + Gap) /\ last \in {Never} \cup (0..Horizon)
    /\ \A m \in ran \cup missed : m \in Nat

Init ==
    /\ items \in UNION {[1..n -> Items] : n \in 1..2}
    /\ now = 0 /\ last = Never /\ ran = {} /\ missed = {}

(* The trigger is looked at, and the next time up to Gap seconds later.      *)
Look ==
    /\ now <= Horizon
    /\ last' = IF ShouldRun THEN now ELSE last
    /\ ran' = IF ShouldRun THEN ran \cup {now \div Minute} ELSE ran
    /\ \E pause \in 1..Gap :
        /\ now' = now + pause
        /\ missed' = missed \cup {m \in (now \div Minute)..(((now + pause) \div Minute) - 1) :
               Matches(m) /\ m \notin ran'}
    /\ UNCHANGED items

Next == Look
Spec == Init /\ [][Next]_vars

-----------------------------------------------------------------------------
(* A field that is accepted means what its items say: v belongs to it when   *)
(* some item reaches it by its steps.                                        *)
FieldMeansItems == Values # Bad =>
    \A v \in Lowest..Highest : v \in Values <=>
        \E i \in DOMAIN items : LET it == items[i] IN
            CASE it.kind = "all" -> it.step = 0 \/ \E k \in 0..Highest : v = Lowest + k * it.step
              [] it.kind = "value" -> \E k \in 0..Highest : v = it.from + k * it.step
              [] it.kind = "range" ->
                  v <= it.to /\ \E k \in 0..Highest : v = it.from + k * (IF it.step = 0 THEN 1 ELSE it.step)

(* next_after names a minute that matches, and none before it does.          *)
NextIsFirst == LET n == NextAfter(now) IN
    /\ n = Never => \A m \in 0..Highest : ~Matches(m)
    /\ n # Never =>
        /\ n > now /\ Matches(n \div Minute)
        /\ \A m \in ((now \div Minute) + 1)..((n \div Minute) - 1) : ~Matches(m)

(* A trigger that is looked at at least once a minute runs in each minute    *)
(* that matches, and once; it skips one only right after it ran in the       *)
(* minute before.                                                            *)
RunsInItsMinutes ==
    /\ \A m \in ran : Matches(m)
    /\ \A m \in missed : m - 1 \in ran

CronSound == FieldMeansItems /\ NextIsFirst /\ RunsInItsMinutes
=============================================================================
