------------------------------ MODULE Placement ------------------------------
(***************************************************************************)
(* Where a new instance goes, what leaves a node that is drained and which   *)
(* port is free, as the library of storage.rs answers.  A state is one      *)
(* question; shares are in percent, a score in parts of ten thousand.       *)
(***************************************************************************)
EXTENDS Integers, FiniteSets, FiniteSetsExt, Sequences, SequencesExt

CONSTANTS
    Facts,      \* what may be known of a node: [state, labels, cpu, used, total, disk, count, max]
    Requests,   \* [pinned, required, avoid, mem, disk]
    Ports,      \* the last port of the range that starts at 1
    MaxOn       \* bound: instances on the node that is drained

VARIABLES
    facts,      \* two nodes
    req,
    taken,      \* ports in use
    on, room    \* the drained node's instances, and the places elsewhere

vars == <<facts, req, taken, on, room>>

Anywhere == 0
TypeOK ==
    /\ facts \in [1..2 -> Facts] /\ req \in Requests /\ taken \subseteq 1..(Ports + 1)
    /\ Len(on) <= MaxOn /\ room \in 0..(MaxOn + 1)

Init ==
    /\ facts \in [1..2 -> Facts] /\ req \in Requests
    /\ taken = {} /\ on = <<>> /\ room = 0

(* The other questions have nothing to do with the first, so they are put     *)
(* for a few nodes only.                                                     *)
Ask ==
    /\ facts[1] = facts[2] /\ facts[1].state # "active"
    /\ taken = {} /\ on = <<>>
    /\ taken' \in SUBSET (1..(Ports + 1))
    /\ \E n \in 0..MaxOn : on' = [i \in 1..n |-> i]
    /\ room' \in 0..(MaxOn + 1)
    /\ UNCHANGED <<facts, req>>

Next == Ask
Spec == Init /\ [][Next]_vars

-----------------------------------------------------------------------------
Clamp(x, top) == Max({0, Min({x, top})})
MemShare(n) == IF n.total <= 0 THEN 0 ELSE Clamp((n.used * 100) \div n.total, 100)
(* A node without a limit counts as full here, but not in Eligible.          *)
Capacity(n) == IF n.max = 0 THEN 100 ELSE Clamp((n.count * 100) \div n.max, 100)

Score(n) ==
    Clamp(n.cpu, 100) * 35 + MemShare(n) * 35 + Capacity(n) * 25 + (IF n.disk <= 0 THEN 100 ELSE 0) * 5

Eligible_NoLabels(ns, r) ==  \* seeded fault: labels to avoid are not looked at
    {i \in DOMAIN ns : LET n == ns[i] IN
        /\ n.state = "active" /\ r.pinned \in {Anywhere, i}
        /\ r.required \subseteq n.labels
        /\ n.max = 0 \/ n.count < n.max
        /\ r.mem <= 0 \/ n.total - n.used >= r.mem
        /\ r.disk <= 0 \/ n.disk >= r.disk}

Eligible(ns, r) ==
    {i \in DOMAIN ns : LET n == ns[i] IN
        /\ n.state = "active" /\ r.pinned \in {Anywhere, i}
        /\ r.required \subseteq n.labels /\ r.avoid \cap n.labels = {}
        /\ n.max = 0 \/ n.count < n.max
        /\ r.mem <= 0 \/ n.total - n.used >= r.mem
        /\ r.disk <= 0 \/ n.disk >= r.disk}

(* The least score, then the fewest instances, then the order of the list.   *)
Rank(n) == Score(n) * 100 + n.count
BestPlacement(ns, r) ==
    LET pool == Eligible(ns, r)
    IN  IF pool = {} THEN 0
        ELSE Min({i \in pool : \A j \in pool : Rank(ns[i]) <= Rank(ns[j])})

PlanDrain(list, places) ==
    LET n == Min({Len(list), places})
    IN  [moved |-> SubSeq(list, 1, n), remaining |-> SubSeq(list, n + 1, Len(list)), offline |-> n = Len(list)]

NextFreePort(used) == LET free == (1..Ports) \ used IN IF free = {} THEN 0 ELSE Min(free)

-----------------------------------------------------------------------------
(* A place that is named can take the instance, with all it asks for, and    *)
(* one is named whenever some node could; no node that could take it is less *)
(* busy in every respect.                                                    *)
PlacementFits == LET best == BestPlacement(facts, req) IN
    /\ best # 0 => LET n == facts[best] IN
        /\ n.state = "active" /\ n.total - n.used >= req.mem /\ n.disk >= req.disk
        /\ \A l \in n.labels : l \notin req.avoid
        /\ n.max > 0 => n.count + 1 <= n.max
        /\ \A j \in Eligible(facts, req) \ {best} : LET m == facts[j] IN
            ~(m.cpu < n.cpu /\ MemShare(m) < MemShare(n) /\ Capacity(m) <= Capacity(n) /\ m.disk > 0)
    /\ best = 0 => \A i \in 1..2 : req.pinned \in {Anywhere, i} =>
        LET n == facts[i] IN
            \/ n.state # "active" \/ ~(req.required \subseteq n.labels) \/ req.avoid \cap n.labels # {}
            \/ n.max > 0 /\ n.count >= n.max
            \/ n.total - n.used < req.mem \/ n.disk < req.disk

(* A drain leaves no instance out and moves none twice, and says that the    *)
(* node may go only when nothing is left on it.                              *)
DrainIsComplete == LET p == PlanDrain(on, room) IN
    /\ p.moved \o p.remaining = on /\ Len(p.moved) <= room
    /\ p.offline => ToSet(on) \subseteq ToSet(p.moved)

(* The port that is offered is free, and there is one as long as one is.     *)
PortIsFree == LET p == NextFreePort(taken) IN
    IF p = 0 THEN 1..Ports \subseteq taken ELSE p <= Ports /\ p \notin taken

PlacementSound == PlacementFits /\ DrainIsComplete /\ PortIsFree
=============================================================================
