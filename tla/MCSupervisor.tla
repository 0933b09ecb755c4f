---------------------------- MODULE MCSupervisor ----------------------------
(***************************************************************************)
(* Small instances of Supervisor: one service under two callers, and a     *)
(* service that depends on another under one caller.                       *)
(***************************************************************************)
EXTENDS Supervisor, TLC

CONSTANTS a1, a2, web, db

OneService == {web}
TwoServices == {web, db}

\* web depends on db.
Chain == [s \in TwoServices |-> IF s = web THEN <<db, web>> ELSE <<db>>]
Single == [s \in OneService |-> <<web>>]

ChainShutdown == {<<web, db>>}
SingleShutdown == {<<web>>}

OnFailureOnce == [s \in Services |-> [kind |-> "on_failure", max |-> 1]]
Always == [s \in Services |-> [kind |-> "always", max |-> 0]]
Never == [s \in Services |-> [kind |-> "never", max |-> 0]]

NoService == {}

\* Bound: a rejected spawn is followed through when it is the first or second.
EarlyRejection == \A t \in Tasks : At(t, "cascade") => spawned[Current(t)] <= 1

CallerSymmetry == Permutations(Callers)
=============================================================================
