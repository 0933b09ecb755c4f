------------------------------- MODULE NetRules -------------------------------
(***************************************************************************)
(* Blocked addresses (netops.rs): rows in the database, the rules of the    *)
(* kernel made from them, and the ban lists of the game servers.  The list  *)
(* of rules, the ports of the instances, the kernel and the marks "applied" *)
(* are read and written one after the other, under no lock, by requests and *)
(* by the tick of ops.                                                      *)
(***************************************************************************)
EXTENDS Naturals, FiniteSetsExt, Functions

CONSTANTS
    Callers,     \* requests under way
    Timer,       \* the tick of ops.rs, that expires rules
    Ids,         \* ids of rules, numbers in the order they are drawn
    Instances,   \* instances
    Ports,       \* ports an instance may have
    MaxCalls     \* bound: calls, changes of an instance and mishaps

VARIABLES
    backend,     \* what the host has: "nft" or "iptables"
    rows,        \* the table: per id, a rule or NoRule
    port,        \* the port of each instance, 0 when it is not there
    kernel,      \* the rules in force: pairs of an id and a port
    banned,      \* the running servers that have the address on their list
    task,        \* where each caller stands
    used,
    trouble,     \* history: something happened that no later apply has repaired
    lapsed       \* history: a ban of the game was left behind by its rule

vars == <<backend, rows, port, kernel, banned, task, used, trouble, lapsed>>

All == Callers \cup {Timer}
NoRule == [at |-> 0, port |-> 0, ends |-> FALSE, due |-> FALSE, ban |-> FALSE, applied |-> FALSE]
Idle == [step |-> "idle", id |-> 0, rule |-> NoRule, firewall |-> FALSE,
         todo |-> {}, beside |-> "nothing"]

-----------------------------------------------------------------------------
Present == {i \in Ids : rows[i].at # 0}
GamePorts == {port[i] : i \in Instances} \ {0}
(* A rule without a port stands for the ports of all instances, if any. *)
Listed == {<<i, rows[i].port>> : i \in Present}
Expanded(rules, ports) ==
    {pair \in Ids \X Ports :
        pair \in rules \/ (<<pair[1], 0>> \in rules /\ pair[2] \in ports)}
Wanted == Expanded(Listed, GamePorts)

Free == Ids \ (Present \cup {task[t].id : t \in All})

Applying(t) == task[t].step \in {"ports", "apply", "add", "mark"}
Quiet == \A t \in All : task[t].step = "idle"
Step(t, step) == task' = [task EXCEPT ![t].step = step]
Done(t) == task' = [task EXCEPT ![t] = Idle]
Go(step) == [Idle EXCEPT !.step = step]
Spend == used < MaxCalls /\ used' = used + 1
(* The rules or the ports change: what is being applied is not the last word. *)
Changed(t, next) ==
    task' = [u \in All |-> IF u = t THEN next
                           ELSE IF task[u].beside = "nothing" THEN [task[u] EXCEPT !.beside = "a change"]
                           ELSE task[u]]

TypeOK ==
    /\ backend \in {"nft", "iptables"} /\ kernel \subseteq Ids \X Ports
    /\ port \in [Instances -> Ports \cup {0}] /\ banned \subseteq Instances
    /\ \A t \in All : task[t].todo \subseteq Ids \X (Ports \cup {0})

Init ==
    /\ backend \in {"nft", "iptables"}
    /\ rows = [i \in Ids |-> NoRule] /\ kernel = {} /\ banned = {}
    /\ port \in [Instances -> Ports]
    /\ task = [t \in All |-> Idle] /\ used = 0
    /\ trouble = FALSE /\ lapsed = FALSE

-----------------------------------------------------------------------------
(* POST /netops: the checks.  The port is that of the instance named, a      *)
(* given one or none; "ban" is a ban in the game of an address: game_command *)
(* ignores a range.                                                          *)
Create(c, i) ==
    /\ task[c].step = "idle" /\ Spend
    /\ i \in Free /\ i = Min(Free)
    /\ \E given \in {0} \cup Range(port), ends \in BOOLEAN, ban \in BOOLEAN,
          firewall \in BOOLEAN :
          /\ ban \/ firewall
          /\ task' = [task EXCEPT ![c] = [Idle EXCEPT
                !.step = IF ban THEN "ban" ELSE "insert", !.id = i, !.firewall = firewall,
                !.rule = [NoRule EXCEPT !.at = 1, !.ends = ends, !.ban = ban, !.port = given]]]
    /\ UNCHANGED <<backend, rows, port, kernel, banned, trouble, lapsed>>

(* game_command: to every running server.                                    *)
GameCommand(t) ==
    /\ task[t].step \in {"ban", "pardon"}
    /\ LET running == {i \in Instances : port[i] # 0} IN
       banned' = IF task[t].step = "ban" THEN banned \cup running ELSE banned \ running
    /\ task' = [task EXCEPT ![t] = IF @.step = "ban" THEN [@ EXCEPT !.step = "insert"] ELSE Go("list")]
    /\ UNCHANGED <<backend, rows, port, kernel, used, trouble, lapsed>>

(* insert_netops; a rule for the game only is not applied here, yet it is in *)
(* the list that the next apply_all makes rules of.                          *)
Insert(c) ==
    /\ task[c].step = "insert"
    /\ rows' = [rows EXCEPT ![task[c].id] = task[c].rule]
    /\ Changed(c, Go(IF task[c].firewall THEN "list" ELSE "idle"))
    /\ trouble' = (trouble \/ ~task[c].firewall)
    /\ UNCHANGED <<backend, port, kernel, banned, used, lapsed>>

(* DELETE /netops/{id}: the row goes first; then the pardon, then apply_all. *)
Delete(c, i) ==
    /\ task[c].step = "idle" /\ Spend /\ i \in Present
    /\ rows' = [rows EXCEPT ![i] = NoRule]
    /\ Changed(c, IF rows[i].ban THEN [Go("pardon") EXCEPT !.rule = rows[i]] ELSE Go("list"))
    /\ UNCHANGED <<backend, port, kernel, banned, trouble, lapsed>>

(* Time passes: a rule with an end reaches it. *)
FallDue(i) ==
    /\ i \in Present /\ rows[i].ends /\ ~rows[i].due
    /\ rows' = [rows EXCEPT ![i].due = TRUE]
    /\ UNCHANGED <<backend, port, kernel, banned, task, used, trouble, lapsed>>

Expire_Unapplied(t) ==  \* seeded fault: what expired stays in the kernel
    /\ task[t].step = "idle"
    /\ t \in Callers => Spend
    /\ t = Timer => (\E i \in Present : rows[i].due) /\ UNCHANGED used
    /\ rows' = [i \in Ids |-> IF rows[i].due THEN NoRule ELSE rows[i]]
    /\ Changed(t, Go(IF t = Timer THEN "idle" ELSE "list"))
    /\ lapsed' = (lapsed \/ \E i \in Present : rows[i].due /\ rows[i].ban)
    /\ UNCHANGED <<backend, port, kernel, banned, trouble>>

(* expire_now: the tick applies only when a row went, a resync always.  No   *)
(* ban of the game is lifted here.                                           *)
Expire(t) ==
    /\ task[t].step = "idle"
    /\ t \in Callers => Spend
    /\ t = Timer => (\E i \in Present : rows[i].due) /\ UNCHANGED used
    /\ rows' = [i \in Ids |-> IF rows[i].due THEN NoRule ELSE rows[i]]
    /\ Changed(t, Go("list"))
    /\ lapsed' = (lapsed \/ \E i \in Present : rows[i].due /\ rows[i].ban)
    /\ UNCHANGED <<backend, port, kernel, banned, trouble>>

(* An instance is created, moved to another port or cloned: then rules are   *)
(* applied anew.  It is deleted, or gets a port by its properties: they are  *)
(* not.                                                                      *)
ChangeInstance(c, i, p, applies) ==
    /\ task[c].step = "idle" /\ Spend /\ port[i] # p
    /\ port' = [port EXCEPT ![i] = p]
    /\ p = 0 => ~applies
    /\ banned' = IF p = 0 THEN banned \ {i} ELSE banned
    /\ trouble' = (trouble \/ ~applies)
    /\ Changed(c, Go(IF applies THEN "list" ELSE "idle"))
    /\ UNCHANGED <<backend, rows, kernel, lapsed>>

-----------------------------------------------------------------------------
(* apply_all: the list of the rules ... *)
ListRules(t) ==
    /\ task[t].step = "list"
    /\ task' = [u \in All |->
          IF u = t THEN [task[t] EXCEPT !.step = "ports", !.todo = Listed,
                !.beside = IF \E w \in All : Applying(w) THEN "another" ELSE "nothing"]
          ELSE IF Applying(u) THEN [task[u] EXCEPT !.beside = "another"] ELSE task[u]]
    /\ UNCHANGED <<backend, rows, port, kernel, banned, used, trouble, lapsed>>

(* ... the ports of the instances, for those without one ... *)
ReadPorts(t) ==
    /\ task[t].step = "ports"
    /\ task' = [task EXCEPT ![t].step = "apply", ![t].todo = Expanded(@, GamePorts)]
    /\ UNCHANGED <<backend, rows, port, kernel, banned, used, trouble, lapsed>>

(* ... the kernel.  nft takes the flush and the rules as one transaction. *)
ApplyNft(t) ==
    /\ task[t].step = "apply" /\ backend = "nft"
    /\ kernel' = task[t].todo
    /\ Step(t, "mark")
    /\ UNCHANGED <<backend, rows, port, banned, used, trouble, lapsed>>

(* iptables flushes the chain, then adds rule after rule. *)
ApplyIptables(t) ==
    /\ task[t].step = "apply" /\ backend = "iptables"
    /\ kernel' = {}
    /\ Step(t, "add")
    /\ UNCHANGED <<backend, rows, port, banned, used, trouble, lapsed>>

AddRule(t) ==
    /\ task[t].step = "add" /\ task[t].todo # {}
    /\ \E r \in task[t].todo :
          kernel' = kernel \cup {r} /\ task' = [task EXCEPT ![t].todo = @ \ {r}]
    /\ UNCHANGED <<backend, rows, port, banned, used, trouble, lapsed>>

AddEnds(t) ==
    /\ task[t].step = "add" /\ task[t].todo = {}
    /\ Step(t, "mark")
    /\ UNCHANGED <<backend, rows, port, kernel, banned, used, trouble, lapsed>>

(* The tool fails: every row is marked as not applied, and apply_all ends. *)
ApplyFails(t) ==
    /\ task[t].step \in {"apply", "add"} /\ Spend
    /\ rows' = [i \in Ids |-> [rows[i] EXCEPT !.applied = FALSE]]
    /\ Done(t) /\ trouble' = TRUE
    /\ UNCHANGED <<backend, port, kernel, banned, lapsed>>

(* mark_netops_applied: every row there is now, also one inserted since.    *)
(* What ran beside nothing has repaired everything; what ran beside another  *)
(* may have been overtaken.                                                 *)
MarkApplied(t) ==
    /\ task[t].step = "mark"
    /\ rows' = [i \in Ids |-> [rows[i] EXCEPT !.applied = i \in Present]]
    /\ Done(t)
    /\ trouble' = CASE task[t].beside = "nothing" -> FALSE
                    [] task[t].beside = "a change" -> trouble
                    [] task[t].beside = "another" -> TRUE
    /\ UNCHANGED <<backend, port, kernel, banned, used, lapsed>>

(* The host starts anew: the kernel forgets; control does not apply at start. *)
Reboot ==
    /\ Spend
    /\ kernel' = {} /\ task' = [t \in All |-> Idle]
    /\ trouble' = TRUE /\ lapsed' = TRUE
    /\ UNCHANGED <<backend, rows, port, banned>>

-----------------------------------------------------------------------------
Next ==
    \/ \E c \in Callers, i \in Ids : task[c].step = "idle" /\ (Create(c, i) \/ Delete(c, i))
    \/ \E c \in Callers, i \in Instances, p \in Ports \cup {0}, applies \in BOOLEAN :
          ChangeInstance(c, i, p, applies)
    \/ \E i \in Ids : FallDue(i)
    \/ \E c \in Callers : Insert(c)
    \/ \E t \in All :
          \/ Expire(t) \/ GameCommand(t) \/ ListRules(t) \/ ReadPorts(t)
          \/ ApplyNft(t) \/ ApplyIptables(t) \/ AddRule(t) \/ AddEnds(t) \/ ApplyFails(t)
          \/ MarkApplied(t)
    \/ Reboot

Spec == Init /\ [][Next]_vars

-----------------------------------------------------------------------------
(* When nothing is under way, what blocks is what the rules say, and every   *)
(* rule is shown as applied: an apply that ran beside no other left it so    *)
(* (netops.rs:306), unless a step that does not apply came after it.        *)
SettledIsInForce ==
    Quiet /\ ~trouble => kernel = Wanted /\ \A i \in Present : rows[i].applied

(* With nft, a rule shown as applied blocks, also while the rules are made   *)
(* anew (netops.rs:522); or an apply is on its way to the kernel.           *)
AppliedIsInForce ==
    backend = "nft" /\ ~trouble =>
        \A i \in Present : rows[i].applied =>
            \/ \A p \in Ports : <<i, p>> \in Wanted => <<i, p>> \in kernel
            \/ \E t \in All : task[t].step \in {"ban", "insert", "pardon", "list", "ports", "apply"}
            \/ \E t \in All : task[t].beside = "another"

(* A server bans an address only while a rule does, or is about to: deleting *)
(* the rule pardons it (netops.rs:249); only an expiry leaves the ban.      *)
BansHaveARule ==
    banned # {} /\ ~lapsed =>
        \/ \E i \in Present : rows[i].ban
        \/ \E t \in All : task[t].step \in {"pardon", "insert"}

BlocksAreHonest == SettledIsInForce /\ AppliedIsInForce /\ BansHaveARule
=============================================================================
