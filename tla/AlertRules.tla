----------------------------- MODULE AlertRules -----------------------------
(***************************************************************************)
(* The alert engine of the metrics library (metrics.rs): rules on metrics,   *)
(* how long each must hold, silences, and rules that inhibit others.         *)
(***************************************************************************)
EXTENDS Integers, FiniteSets

CONSTANTS
    Rules,      \* rule -> [cmp, threshold, hold], on the metric of its name
    Inhibitions, \* the sets of pairs <<r, s>> to choose from: r inhibits s
    MaxTime,    \* bound
    MaxOps      \* bound: silences and changes of the rules

VARIABLES
    now,
    inhibits,   \* of the rules, as they are configured
    enabled,    \* rules that are enabled
    since,      \* pending_since, Never when the rule does not hold
    until,      \* silenced_until
    report,     \* what the last evaluation returned
    ops,
    due,        \* history: the rules of the last evaluation that held long enough
    below       \* history: when an evaluation last saw that the rule does not hold

vars == <<now, inhibits, enabled, since, until, report, ops, due, below>>

Ids == DOMAIN Rules
Never == MaxTime + 1
Values == {0, 1}

TypeOK ==
    /\ now \in 0..MaxTime /\ enabled \subseteq Ids /\ inhibits \subseteq Ids \X Ids
    /\ since \in [Ids -> 0..Never] /\ until \in [Ids -> 0..(MaxTime + 2)] /\ report \subseteq Ids

Init ==
    /\ now = 0 /\ inhibits \in Inhibitions /\ enabled = Ids
    /\ since = [r \in Ids |-> Never] /\ until = [r \in Ids |-> 0] /\ report = {} /\ ops = 0
    /\ due = {} /\ below = [r \in Ids |-> -1]

-----------------------------------------------------------------------------
Holds(cmp, value, threshold) ==
    CASE cmp = "gt" -> value > threshold
      [] cmp = "gte" -> value >= threshold
      [] cmp = "lt" -> value < threshold
      [] cmp = "lte" -> value <= threshold
      [] cmp = "eq" -> value = threshold
      [] cmp = "ne" -> value # threshold

Inhibited(fires) == {s \in Ids : \E r \in fires : <<r, s>> \in inhibits}

Since_Kept(seen, r) ==  \* seeded fault: a rule that no longer holds stays pending
    IF r \notin seen \/ since[r] # Never THEN since[r] ELSE now

(* pending_since after an evaluation in which the rules of "seen" hold.      *)
Since(seen, r) == IF r \notin seen THEN Never ELSE IF since[r] = Never THEN now ELSE since[r]

(* evaluate: a rule that is disabled is left as it is (so is one whose metric *)
(* has no value); one that is inhibited itself still inhibits.               *)
Evaluate(value) ==
    LET seen == {r \in enabled : Holds(Rules[r].cmp, value[r], Rules[r].threshold)}
        after == [r \in Ids |-> IF r \in enabled THEN Since(seen, r) ELSE since[r]]
        fires == {r \in seen : now - after[r] >= Rules[r].hold /\ until[r] <= now}
    IN  /\ since' = after
        /\ report' = fires \ Inhibited(fires)
        /\ below' = [r \in Ids |-> IF r \in enabled \ seen THEN now ELSE below[r]]
        /\ due' = fires
        /\ UNCHANGED <<now, inhibits, enabled, until, ops>>

Operate == ops < MaxOps /\ ops' = ops + 1 /\ report' = {} /\ due' = {}

Silence(r, secs) ==
    /\ Operate /\ until' = [until EXCEPT ![r] = now + secs]
    /\ UNCHANGED <<now, inhibits, enabled, since, below>>

Unsilence(r) ==
    /\ Operate /\ until' = [until EXCEPT ![r] = 0]
    /\ UNCHANGED <<now, inhibits, enabled, since, below>>

(* set_rules: the states of the rules stay.                                  *)
SetRules(rules) ==
    /\ Operate /\ enabled' = rules
    /\ UNCHANGED <<now, inhibits, since, until, below>>

Tick ==
    /\ now < MaxTime /\ now' = now + 1 /\ report' = {} /\ due' = {}
    /\ UNCHANGED <<inhibits, enabled, since, until, ops, below>>

Next ==
    \/ Tick
    \/ \E value \in [Ids -> Values] : Evaluate(value)
    \/ \E r \in Ids : Silence(r, 2) \/ Unsilence(r)
    \/ \E r \in Ids : SetRules(enabled \ {r}) \/ SetRules(enabled \cup {r})

Spec == Init /\ [][Next]_vars

-----------------------------------------------------------------------------
(* What is reported has held for as long as its rule asks at every           *)
(* evaluation, and is neither disabled nor silenced.                         *)
ReportHasHeld == \A r \in report : r \in enabled /\ until[r] <= now /\ now - below[r] >= Rules[r].hold

Acyclic == \A group \in SUBSET Ids \ {{}} : \E r \in group : \A s \in group : <<s, r>> \notin inhibits

(* A rule that is due is kept back only by another that is due, and as long  *)
(* as rules do not inhibit one another in a circle something is reported.    *)
TroubleIsReported ==
    /\ \A r \in due \ report : \E s \in due : <<s, r>> \in inhibits
    /\ due # {} /\ report = {} => ~Acyclic

RulesSound == ReportHasHeld /\ TroubleIsReported
=============================================================================
