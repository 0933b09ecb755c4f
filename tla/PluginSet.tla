------------------------------ MODULE PluginSet ------------------------------
(***************************************************************************)
(* The library that resolves a set of server plugins (plugins.rs): which of *)
(* them do not go together, in which order to install them, and which       *)
(* updates are safe.                                                         *)
(***************************************************************************)
EXTENDS Integers, FiniteSets, FiniteSetsExt, Sequences, SequencesExt

CONSTANTS
    Sets,       \* of sequences of manifests: what may be installed
    Latest      \* of functions: the newest version of each plugin

VARIABLES
    installed,  \* manifests: [id, version, provides, depends, fits]
    latest,     \* available versions
    indegree,   \* per id: dependencies that are not installed yet
    queue,      \* ids that may be installed
    order       \* ids in the order of installation

vars == <<installed, latest, indegree, queue, order>>

Ids(ms) == {ms[i].id : i \in DOMAIN ms}

-----------------------------------------------------------------------------
(* Versions are <<major, minor, patch>>.                                     *)
Older(v, w) == \E i \in 1..3 : v[i] < w[i] /\ \A j \in 1..(i - 1) : v[j] = w[j]

Meets(v, op, w) ==
    CASE op = ">=" -> ~Older(v, w)
      [] op = "<=" -> ~Older(w, v)
      [] op = ">" -> Older(w, v)
      [] op = "<" -> Older(v, w)
      [] op = "^" -> v[1] = w[1] /\ ~Older(v, w)
      [] op = "~" -> v[1] = w[1] /\ v[2] = w[2] /\ ~Older(v, w)
      [] op = "=" -> v = w

Satisfies(v, clauses) == \A c \in clauses : Meets(v, c[1], c[2])

Declares(m, id) == m.id = id \/ id \in m.provides
(* The place of the first one that declares it; 0 when none does.            *)
Provider(ms, id) == LET s == {i \in DOMAIN ms : Declares(ms[i], id)} IN IF s = {} THEN 0 ELSE Min(s)

(* How often plugin id waits for plugin on.                                  *)
Needed(m) == {d \in m.depends : d.kind # "conflict"}
Edges(ms, on, id) ==
    MapThenSumSet(LAMBDA i : IF ms[i].id # id \/ on = id THEN 0 ELSE
        Cardinality({d \in Needed(ms[i]) : Provider(ms, d.id) # 0 /\ ms[Provider(ms, d.id)].id = on}),
        DOMAIN ms)

Sorted(s) == SetToSortSeq(s, LAMBDA a, b : a < b)

Init ==
    /\ installed \in Sets /\ latest \in Latest
    /\ indegree = [id \in Ids(installed) |-> MapThenSumSet(LAMBDA on : Edges(installed, on, id), Ids(installed))]
    /\ queue = Sorted({id \in Ids(installed) : indegree[id] = 0})
    /\ order = <<>>

Ready_AnyDone(node) ==  \* seeded fault: the first dependency releases a plugin
    {id \in Ids(installed) : indegree[id] > 0 /\ Edges(installed, node, id) > 0}

(* The plugins that waited for this one only.                                *)
Ready(node) ==
    {id \in Ids(installed) : indegree[id] > 0 /\ indegree[id] = Edges(installed, node, id)}

(* One turn of the loop of install_order.                                    *)
Place ==
    /\ queue # <<>>
    /\ LET node == Head(queue) IN
        /\ order' = Append(order, node)
        /\ queue' = Tail(queue) \o Sorted(Ready(node))
        /\ indegree' = [id \in DOMAIN indegree |->
               indegree[id] - Min({indegree[id], Edges(installed, node, id)})]
    /\ UNCHANGED <<installed, latest>>

Next == Place
Spec == Init /\ [][Next]_vars

TypeOK ==
    /\ indegree \in [Ids(installed) -> Nat]
    /\ Range(queue) \subseteq Ids(installed) /\ Range(order) \subseteq Ids(installed)

-----------------------------------------------------------------------------
(* resolve: no issue that is an error.  One plugin only for the client is a  *)
(* warning; loader, game version and Java are "fits".                        *)
Ok(ms, placed) ==
    /\ Cardinality(Ids(ms)) = Len(ms)
    /\ \A i \in DOMAIN ms :
        /\ ms[i].fits
        /\ \A d \in ms[i].depends :
            LET p == Provider(ms, d.id) IN
            IF d.kind = "conflict" THEN p = 0
            ELSE IF p = 0 THEN d.kind = "optional"
            ELSE Satisfies(ms[p].version, d.clauses)
    /\ Ids(ms) \subseteq placed

(* plan_updates: the newer versions that do not change the major number.     *)
Kind(cur, new) ==
    IF new[1] > cur[1] THEN "major" ELSE IF new[2] > cur[2] THEN "minor" ELSE "patch"
Safe(m) == m.id \in DOMAIN latest /\ Older(m.version, latest[m.id]) /\ Kind(m.version, latest[m.id]) # "major"
Updated == [i \in DOMAIN installed |->
    IF Safe(installed[i]) THEN [installed[i] EXCEPT !.version = latest[installed[i].id]] ELSE installed[i]]

-----------------------------------------------------------------------------
Done == queue = <<>>
At(id) == Min({i \in DOMAIN order : order[i] = id})

(* What resolves can be installed in the order given: every plugin once, and *)
(* after all it needs.                                                       *)
OrderInstalls == Done =>
    /\ Cardinality(Range(order)) = Len(order)
    /\ \A i \in DOMAIN installed : installed[i].id \in Range(order) =>
        \A d \in Needed(installed[i]) :
            LET p == Provider(installed, d.id) IN
            (p # 0 /\ installed[p].id # installed[i].id) =>
                installed[p].id \in Range(order) /\ At(installed[p].id) < At(installed[i].id)

(* Plugins are left out only when some of them wait for one another.         *)
CycleIsReal == Done =>
    (Ids(installed) # Range(order) <=>
        \E wait \in SUBSET Ids(installed) \ {{}} :
            \A id \in wait : \E on \in wait : Edges(installed, on, id) > 0)

(* Updates that are called safe leave a set in order when its constraints    *)
(* are lower bounds or compatible versions.                                  *)
Bounds == UNION {UNION {d.clauses : d \in installed[i].depends} : i \in DOMAIN installed}
SafeUpdatesKeep ==
    (Done /\ Ok(installed, Range(order)) /\ \A c \in Bounds : c[1] \in {">=", "^"})
        => Ok(Updated, Range(order))

SetsSound == OrderInstalls /\ CycleIsReal /\ SafeUpdatesKeep
=============================================================================
