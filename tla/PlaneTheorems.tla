---------------------------- MODULE PlaneTheorems ----------------------------
(***************************************************************************)
(* What MCPlane promises of its components, for every value of their        *)
(* constants.  Each has an invariant that every step of it keeps            *)
(* (PlaneProofs, PlaneClusterProofs, PlaneSignProofs); a behaviour of the    *)
(* plane is one of one component, so it holds in all of them.               *)
(***************************************************************************)
EXTENDS MCPlane, PlaneProofs, PlaneClusterProofs, PlaneSignProofs

(* Every step leaves it to the component whose behaviour it is. *)
LEMMA OnePartMoves ==
    ASSUME [Next]_vars
    PROVE  /\ part' = part
           /\ part = "cluster" => [Cluster!Next]_(Cluster!vars)
           /\ part = "store" => [Store!Next]_(Store!vars)
           /\ part = "schedules" => [Timed!Next]_(Timed!vars)
           /\ part = "rules" => [Automated!Next]_(Automated!vars)
           /\ part = "plugins" => [Plugins!Next]_(Plugins!vars)
           /\ part = "services" => [Supervised!Next]_(Supervised!vars)
           /\ part = "accounts" => [Sign!Next]_(Sign!vars)
           /\ part = "guard" => [Guard!Next]_(Guard!vars)
           /\ part = "gate" => [Gate!Next]_(Gate!vars)
<1>1. CASE UNCHANGED vars
  BY <1>1 DEF vars, Cluster!vars, Store!vars, Timed!vars, Automated!vars, Plugins!vars,
              Supervised!vars, Sign!vars, Guard!vars, Gate!vars
<1>2. CASE Next
  BY <1>2 DEF Next
<1> QED
  BY <1>1, <1>2

PlaneInv ==
    /\ part = "cluster" => Cluster!NodeInv
    /\ part = "store" => Store!StoreInv
    /\ part = "schedules" => Timed!SchedulerInv
    /\ part = "rules" => Automated!AutomationsInv
    /\ part = "plugins" => Plugins!HostInv
    /\ part = "services" => ServicesInv
    /\ part = "accounts" => Sign!AccountsInv
    /\ part = "guard" => Guard!GuardInv
    /\ part = "gate" => Gate!GateInv

(* The invariants of the nine components hold in every reachable state.       *)
THEOREM PlaneSafe == Spec => []PlaneInv
<1>1. Init => PlaneInv
  BY ClusterStarts, StoreStarts, SchedulerStarts, AutomationsStart, HostStarts, ServicesStart,
     AccountsStart, GuardStarts, GateStarts DEF Init, PlaneInv
<1>2. PlaneInv /\ [Next]_vars => PlaneInv'
  BY OnePartMoves, ClusterSteps, StoreSteps, SchedulerSteps, AutomationsSteps, HostSteps,
     ServicesSteps, AccountsSteps, GuardSteps, GateSteps DEF PlaneInv
<1> QED
  BY <1>1, <1>2, PTL DEF Spec

(* No order of an operator is lost on its way to an agent that stays, a      *)
(* record that says "running" when nothing is on its way has its server, and *)
(* the sender kept of a node is of a session that is served (RemoteNode,     *)
(* cluster.rs and agent_runtime.rs).                                        *)
THEOREM NodesStayKnown == Spec => []NodesAreKnown
<1>1. PlaneInv => NodesAreKnown
  BY NodeKeepsWishes, NodeRunsTruly DEF PlaneInv, NodesAreKnown, Cluster!NodeInv
<1> QED
  BY <1>1, PlaneSafe, PTL

(* A restart of control finds one list of instances that it had, and at     *)
(* rest what is on disk is what is in memory: any number of operations,     *)
(* deaths and failed writes (PlaneStore, state.rs).                         *)
THEOREM StoreIsKept == Spec => []StoreKeeps
<1>1. PlaneInv => StoreKeeps
  <2>1. Store!StoreInv => Store!RecoversOneList
    BY DEF Store!StoreInv, Store!HeldLists, Store!RecoversOneList, Store!RecoveredInstances
  <2> QED
    BY <2>1 DEF PlaneInv, StoreKeeps, Store!StoreInv
<1> QED
  BY <1>1, PlaneSafe, PTL

(* A schedule does not run again before its interval has passed, and a      *)
(* daily backup is made once a day and once more for each restart of that    *)
(* day (Scheduler, registry.rs; Automations, automations.rs).               *)
THEOREM RunsAreApart == Spec => []RunsKeepTheirDistance
<1>1. PlaneInv => RunsKeepTheirDistance
  BY SchedulerKeepsDistance DEF PlaneInv, RunsKeepTheirDistance, Automated!AutomationsInv
<1> QED
  BY <1>1, PlaneSafe, PTL

(* A rule on a metric fires at most once in a pause and only after it was    *)
(* held, whatever the crashes and restarts between (automations.rs).        *)
THEOREM RulesRest == Spec => MetricRulesRest
<1>1. PlaneInv /\ [Next]_vars => (part = "rules" => Automated!MetricRuleStep)
  BY OnePartMoves, MetricRulesFireSeldom DEF PlaneInv
<1> QED
  BY <1>1, PlaneSafe, PTL DEF Spec, MetricRulesRest

(* However many threads call, switch and reload: none waits for itself or   *)
(* for one that waits for it, and a plugin runs one export at a time         *)
(* (PluginHost, plugin_bridge.rs).                                          *)
THEOREM PluginsDoTakeTurns == Spec => []PluginsTakeTurns
<1>1. PlaneInv => PluginsTakeTurns
  BY HostWaitsInNoCircle, HostRunsAlone DEF PlaneInv, PluginsTakeTurns
<1> QED
  BY <1>1, PlaneSafe, PTL

(* A service that is said to run is supervised, and one that waits for a     *)
(* restart has its timer: any services, however they depend on each other    *)
(* (Supervisor, supervisor.rs).                                             *)
THEOREM ServicesStaySupervised == Spec => []ServicesAreSupervised
<1>1. PlaneInv => ServicesAreSupervised
  BY DEF PlaneInv, ServicesInv, Supervised!SupervisorInv, ServicesAreSupervised
<1> QED
  BY <1>1, PlaneSafe, PTL

(* Who may sign in: an owner is left and a session is of the password of     *)
(* now, unless two changes ran across each other; 2FA is on only for a secret *)
(* of which a code was shown; wrong passwords are counted up to their limit  *)
(* and lock the user; and a role may do what a lesser may (Accounts,         *)
(* LoginGuard and Permissions: handlers/auth.rs, db.rs, rbac.rs).            *)
THEOREM SignInStaysSound == Spec => []SignInSound
<1>1. PlaneInv => SignInSound
  BY AccountsAreSound, GuardBounds, GateNestsRoles DEF PlaneInv, SignInSound
<1> QED
  BY <1>1, PlaneSafe, PTL
=============================================================================
