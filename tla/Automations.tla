----------------------------- MODULE Automations -----------------------------
(***************************************************************************)
(* The ops loop of control (automations.rs, every 5 s) over the rules on    *)
(* metrics and the daily backups, and the rules on crashes, each in a task  *)
(* of the crash.  Actions and backups may take any time.  Control may        *)
(* restart at any step: the table of rules is left.                         *)
(***************************************************************************)
EXTENDS Integers

CONSTANTS
    MetricRules,    \* rules on a metric
    CrashRules,     \* rules on a crash of any instance
    Crashes,        \* tasks of crashes
    Pause,          \* 180 s between two firings
    Hold,           \* duration_secs of the metric rules
    Instances,      \* instances with a backup_hour
    Day, Hour,      \* lengths of a day and of the hour of the backup, at its start
    MaxTime,        \* bound: the clock
    MaxRestarts     \* bound: restarts of control

VARIABLES
    now,
    rows,       \* the table "automations": last_fired of each rule
    hold,       \* OpsRuntime::auto_hold for the rules: since when, or Never
    stamps,     \* OpsRuntime::auto_hold for the daily backups
    ops,        \* the ops loop: the rules left of its copy, the backups left
    crash,      \* on_crash: the rules left of each copy
    restarts,
    fired,      \* history: when each rule fired last
    matched,    \* history: since when every sample of a rule matched
    backups     \* history: daily backups begun, and days with a restart

vars == <<now, rows, hold, stamps, ops, crash, restarts, fired, matched, backups>>

Never == -1
Rules == MetricRules \cup CrashRules
Today == now \div Day
Days == 0..(MaxTime \div Day)
RowCopy == [rule : Rules, last : Never..MaxTime]

TypeOK ==
    /\ now \in 0..MaxTime
    /\ \A r \in Rules : rows[r] \in Never..MaxTime /\ hold[r] \in Never..MaxTime
    /\ stamps \subseteq Instances \X Days
    /\ ops.rules \subseteq RowCopy /\ ops.left \subseteq Instances
    /\ ops.at \in {"idle", "rules", "acting", "backups", "backup"}
    /\ \A c \in Crashes : crash[c].rules \subseteq RowCopy

Init ==
    /\ now = 0
    /\ rows = [r \in Rules |-> Never]
    /\ hold = [r \in Rules |-> Never]
    /\ stamps = {}
    /\ ops = [at |-> "idle", rules |-> {}, cur |-> {}, left |-> {}, day |-> 0]
    /\ crash = [c \in Crashes |-> [at |-> "none", rules |-> {}]]
    /\ restarts = 0
    /\ fired = [r \in Rules |-> Never]
    /\ matched = [r \in Rules |-> Never]
    /\ backups = [made |-> [i \in Instances |-> [d \in Days |-> 0]], hit |-> {}]

Tick ==
    /\ now < MaxTime
    /\ now' = now + 1
    /\ UNCHANGED <<rows, hold, stamps, ops, crash, restarts, fired, matched, backups>>

-----------------------------------------------------------------------------
(* Rules. *)

Copies(rs) == {[rule |-> r, last |-> rows[r]] : r \in rs}

(* fire: the pause is judged on the copy; the row is marked, and then the  *)
(* actions run, in their order.                                            *)
Resting(copy) == copy.last # Never /\ now - copy.last < Pause
Fire(r) == rows' = [rows EXCEPT ![r] = now] /\ fired' = [fired EXCEPT ![r] = now]

RuleVars == <<now, stamps, restarts, backups>>

OpsTick ==
    /\ ops.at = "idle"
    /\ ops' = [ops EXCEPT !.at = "rules", !.rules = Copies(MetricRules)]
    /\ UNCHANGED <<RuleVars, rows, hold, crash, fired, matched>>

(* tick: a sample that does not match forgets the hold.                    *)
NoMatch_Holds(copy) ==  \* seeded fault: a sample that does not match forgets nothing
    /\ ops.at = "rules" /\ copy \in ops.rules
    /\ matched' = [matched EXCEPT ![copy.rule] = Never]
    /\ ops' = [ops EXCEPT !.rules = @ \ {copy}]
    /\ UNCHANGED <<RuleVars, hold, rows, crash, fired>>

NoMatch(copy) ==
    /\ ops.at = "rules" /\ copy \in ops.rules
    /\ hold' = [hold EXCEPT ![copy.rule] = Never]
    /\ matched' = [matched EXCEPT ![copy.rule] = Never]
    /\ ops' = [ops EXCEPT !.rules = @ \ {copy}]
    /\ UNCHANGED <<RuleVars, rows, crash, fired>>

(* A sample that matches begins the hold, or finds it old enough; a fired  *)
(* or resting rule has to be held again.                                   *)
Match(copy) ==
    /\ ops.at = "rules" /\ copy \in ops.rules
    /\ LET r == copy.rule
           since == IF hold[r] = Never THEN now ELSE hold[r]
           ready == now - since >= Hold
       IN /\ matched' = [matched EXCEPT ![r] = IF @ = Never THEN now ELSE @]
          /\ \/ ~ready
                /\ hold' = [hold EXCEPT ![r] = since]
                /\ ops' = [ops EXCEPT !.rules = @ \ {copy}]
                /\ UNCHANGED <<rows, fired>>
             \/ ready /\ Resting(copy)
                /\ hold' = [hold EXCEPT ![r] = Never]
                /\ ops' = [ops EXCEPT !.rules = @ \ {copy}]
                /\ UNCHANGED <<rows, fired>>
             \/ ready /\ ~Resting(copy) /\ Fire(r)
                /\ hold' = [hold EXCEPT ![r] = since]
                /\ ops' = [ops EXCEPT !.at = "acting", !.rules = @ \ {copy}, !.cur = {r}]
    /\ UNCHANGED <<RuleVars, crash>>

Acted ==
    /\ ops.at = "acting"
    /\ hold' = [r \in Rules |-> IF r \in ops.cur THEN Never ELSE hold[r]]
    /\ ops' = [ops EXCEPT !.at = "rules", !.cur = {}]
    /\ UNCHANGED <<RuleVars, rows, crash, fired, matched>>

(* on_crash. *)
Crash(c) ==
    /\ crash[c].at = "none"
    /\ crash' = [crash EXCEPT ![c] = [at |-> "rules", rules |-> Copies(CrashRules)]]
    /\ UNCHANGED <<RuleVars, rows, hold, ops, fired, matched>>

CrashFires(c) ==
    /\ crash[c].at = "rules"
    /\ \E copy \in crash[c].rules :
          /\ crash' = [crash EXCEPT ![c].rules = @ \ {copy}]
          /\ IF Resting(copy) THEN UNCHANGED <<rows, fired>> ELSE Fire(copy.rule)
    /\ UNCHANGED <<RuleVars, hold, ops, matched>>

-----------------------------------------------------------------------------
(* run_backup_hours: the hour and the day are read once, before the list.  *)
BackupVars == <<now, rows, hold, crash, restarts, fired, matched>>

RulesDone ==
    /\ ops.at = "rules" /\ ops.rules = {}
    /\ ops' = [ops EXCEPT !.at = "backups", !.day = Today,
                          !.left = IF now % Day < Hour THEN Instances ELSE {}]
    /\ UNCHANGED <<BackupVars, stamps, backups>>

BeginBackup_NoStamp(i) ==  \* seeded fault: the day is not remembered
    /\ ops.at = "backups" /\ i \in ops.left
    /\ ops' = [ops EXCEPT !.at = "backup", !.left = @ \ {i}]
    /\ backups' = [backups EXCEPT !.made[i][ops.day] = @ + 1]
    /\ UNCHANGED <<BackupVars, stamps>>

(* The stamp is tested and set under the lock, before the backup.          *)
BeginBackup(i) ==
    /\ ops.at = "backups" /\ i \in ops.left
    /\ \/ /\ <<i, ops.day>> \in stamps
          /\ ops' = [ops EXCEPT !.left = @ \ {i}]
          /\ UNCHANGED <<stamps, backups>>
       \/ /\ <<i, ops.day>> \notin stamps
          /\ stamps' = stamps \cup {<<i, ops.day>>}
          /\ ops' = [ops EXCEPT !.at = "backup", !.left = @ \ {i}]
          /\ backups' = [backups EXCEPT !.made[i][ops.day] = @ + 1]
    /\ UNCHANGED BackupVars

BackupDone ==
    /\ ops.at = "backup"
    /\ ops' = [ops EXCEPT !.at = "backups"]
    /\ UNCHANGED <<BackupVars, stamps, backups>>

OpsDone ==
    /\ ops.at = "backups" /\ ops.left = {}
    /\ ops' = [ops EXCEPT !.at = "idle"]
    /\ UNCHANGED <<BackupVars, stamps, backups>>

-----------------------------------------------------------------------------
Restart ==
    /\ restarts < MaxRestarts
    /\ restarts' = restarts + 1
    /\ hold' = [r \in Rules |-> Never]
    /\ stamps' = {}
    /\ ops' = [at |-> "idle", rules |-> {}, cur |-> {}, left |-> {}, day |-> 0]
    /\ crash' = [c \in Crashes |-> [crash[c] EXCEPT !.rules = {}]]
    /\ matched' = [r \in Rules |-> Never]
    /\ backups' = [backups EXCEPT !.hit = @ \cup {Today}]
    /\ UNCHANGED <<now, rows, fired>>

Next ==
    \/ Tick \/ Restart
    \/ OpsTick
    \/ \E copy \in ops.rules : NoMatch(copy) \/ Match(copy)
    \/ Acted \/ RulesDone
    \/ \E c \in Crashes : Crash(c) \/ CrashFires(c)
    \/ \E i \in Instances : BeginBackup(i)
    \/ BackupDone \/ OpsDone

Spec == Init /\ [][Next]_vars

-----------------------------------------------------------------------------
MetricRuleStep ==
    \A r \in MetricRules :
        fired'[r] # fired[r] =>
            /\ fired[r] = Never \/ fired'[r] - fired[r] >= Pause
            /\ matched'[r] # Never /\ fired'[r] - matched'[r] >= Hold

(* A rule on a metric fires at most once in a pause, over restarts too, and *)
(* only when every sample matched for as long as it has to be held          *)
(* (automations.rs:96, :172).                                              *)
MetricRulesRest == [][MetricRuleStep]_vars

(* A daily backup is made once a day, and again only when control was      *)
(* restarted that day (automations.rs:256).                                *)
DailyBackupOnce ==
    \A i \in Instances : \A d \in Days :
        backups.made[i][d] <= 1 + (IF d \in backups.hit THEN restarts ELSE 0)

(* Why they hold.  The copies of the metric rules are not stale: no other    *)
(* task marks the rows of these rules.  A rule is held no longer than it     *)
(* matched.                                                                  *)
CopiesAreFresh ==
    /\ \A copy \in ops.rules : copy.rule \in MetricRules /\ copy.last = rows[copy.rule]
    /\ \A c \in Crashes : \A copy \in crash[c].rules : copy.rule \in CrashRules
    /\ \A r \in Rules : rows[r] = fired[r] /\ fired[r] <= now
HeldAsMatched ==
    \A r \in MetricRules :
        /\ matched[r] <= now
        /\ hold[r] # Never => matched[r] # Never /\ matched[r] <= hold[r] /\ hold[r] <= now

(* A backup of a day was stamped after the last restart, or there was a      *)
(* restart that day for it.  The days that the loop may still stamp are the  *)
(* one it is at and those to come.                                           *)
Stamped(i, d) == IF <<i, d>> \in stamps THEN 1 ELSE 0
Hits(d) == IF d \in backups.hit THEN restarts ELSE 0
AtBackups == ops.at \in {"backups", "backup"}
BackupsAreStamped ==
    \A i \in Instances : \A d \in Days :
        /\ d > Today => backups.made[i][d] = 0
        /\ d >= Today \/ (AtBackups /\ d = ops.day)
              => backups.made[i][d] <= Hits(d) + Stamped(i, d)

(* What every step keeps. *)
OpsRecord ==
    [at : {"idle", "rules", "acting", "backups", "backup"}, rules : SUBSET [rule : Rules, last : Int],
     cur : SUBSET Rules, left : SUBSET Instances, day : Days]
AutomationsInv ==
    /\ now \in 0..MaxTime /\ restarts \in Nat
    /\ rows \in [Rules -> Int] /\ hold \in [Rules -> Int]
    /\ fired \in [Rules -> Int] /\ matched \in [Rules -> Int]
    /\ ops \in OpsRecord /\ ops.day <= Today
    /\ crash \in [Crashes -> [at : {"none", "rules"}, rules : SUBSET [rule : Rules, last : Int]]]
    /\ backups \in [made : [Instances -> [Days -> Nat]], hit : SUBSET Days]
    /\ CopiesAreFresh /\ HeldAsMatched /\ BackupsAreStamped /\ DailyBackupOnce
=============================================================================
