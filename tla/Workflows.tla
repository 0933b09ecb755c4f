------------------------------ MODULE Workflows ------------------------------
(***************************************************************************)
(* The workflow engine's library (workflow.rs): the checks of a workflow and *)
(* the layers in which its steps run, one layer after the other.             *)
(***************************************************************************)
EXTENDS Integers, FiniteSets, FiniteSetsExt, Sequences, SequencesExt

CONSTANTS
    StepIds,    \* of steps, those that do not exist included
    Lists       \* the ids of the steps of the workflows that are looked at

VARIABLES
    steps,      \* of the workflow: sequence of [id, deps]
    fallback,   \* on_failure of one of them
    indegree,   \* per step: dependencies that did not run yet
    current,    \* the layer that is next
    layers      \* those that were laid out

vars == <<steps, fallback, indegree, current, layers>>

None == "none"
Ids(w) == {w[i].id : i \in DOMAIN w}

-----------------------------------------------------------------------------
(* A dependency counts as often as it is named; steps of one id count as one. *)
Named(w, dep, id) == FoldSeq(LAMBDA s, n : n + IF s.id = id /\ dep \in s.deps THEN 1 ELSE 0, 0, w)
Indegree(w) == [id \in Ids(w) |-> MapThenSumSet(LAMBDA d : Named(w, d, id), StepIds)]

TypeOK ==
    /\ fallback \in StepIds \cup {None}
    /\ indegree \in [Ids(steps) -> Nat] /\ current \subseteq Ids(steps)
    /\ \A i \in DOMAIN layers : layers[i] \subseteq Ids(steps)

Init ==
    /\ \E ids \in Lists : \E deps \in [DOMAIN ids -> {d \in SUBSET StepIds : Cardinality(d) <= 2}] :
        steps = [i \in DOMAIN ids |-> [id |-> ids[i], deps |-> deps[i]]]
    /\ fallback \in {None} \cup StepIds
    /\ indegree = Indegree(steps)
    /\ current = {id \in Ids(steps) : indegree[id] = 0}
    /\ layers = <<>>

Released_Any(ran, d) ==  \* seeded fault: one dependency that ran is enough
    {id \in DOMAIN d : d[id] > 0 /\ \E r \in ran : Named(steps, r, id) > 0}

(* The steps whose last dependency is in the layer that ran.                 *)
Released(ran, d) ==
    {id \in DOMAIN d : d[id] > 0 /\ d[id] = MapThenSumSet(LAMBDA r : Named(steps, r, id), ran)}

(* One round of execution_order, and of has_cycle.                           *)
Layer ==
    /\ current # {}
    /\ layers' = Append(layers, current)
    /\ current' = Released(current, indegree)
    /\ indegree' = [id \in DOMAIN indegree |->
           indegree[id] - Min({indegree[id], MapThenSumSet(LAMBDA r : Named(steps, r, id), current)})]
    /\ UNCHANGED <<steps, fallback>>

Next == Layer
Spec == Init /\ [][Next]_vars

-----------------------------------------------------------------------------
Done == current = {}
Placed == FoldSeq(LAMBDA l, n : n + Cardinality(l), 0, layers)

HasCycle == Placed # Len(steps)

(* validate: no issue is found. *)
Valid ==
    /\ steps # <<>>
    /\ Cardinality(Ids(steps)) = Len(steps)
    /\ \A i \in DOMAIN steps :
        steps[i].deps \subseteq Ids(steps) /\ steps[i].id \notin steps[i].deps
    /\ fallback \in Ids(steps) \cup {None}
    /\ ~HasCycle

Deps(id) == UNION {steps[i].deps : i \in {j \in DOMAIN steps : steps[j].id = id}}
LayerOf(id) == {i \in DOMAIN layers : id \in layers[i]}

(* No step is laid out twice, or before all it depends on, or later than it  *)
(* must be; those of a workflow without issues are all laid out.             *)
LayersFit == Done =>
    /\ \A id \in Ids(steps) : Cardinality(LayerOf(id)) <= 1
    /\ \A i \in DOMAIN layers : \A id \in layers[i] :
        /\ \A d \in Deps(id) : \E j \in LayerOf(d) : j < i
        /\ i > 1 => Deps(id) \cap layers[i - 1] # {}
    /\ Valid => \A id \in Ids(steps) : LayerOf(id) # {}

(* A cycle is reported just when an id occurs twice or some steps wait for   *)
(* one another, or for a step that does not exist.                           *)
CycleIsReal == Done =>
    (HasCycle <=>
        \/ Cardinality(Ids(steps)) < Len(steps)
        \/ \E wait \in SUBSET Ids(steps) \ {{}} :
            \A id \in wait : Deps(id) \cap wait # {} \/ ~(Deps(id) \subseteq Ids(steps)))

WorkflowsSound == LayersFit /\ CycleIsReal
=============================================================================
