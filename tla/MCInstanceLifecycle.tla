-------------------------- MODULE MCInstanceLifecycle --------------------------
(***************************************************************************)
(* Small instances of InstanceLifecycle for TLC.                           *)
(***************************************************************************)
EXTENDS InstanceLifecycle, TLC

Bounded(calls, exits, faults, inits) ==
    [calls |-> calls, exits |-> exits, faults |-> faults, inits |-> inits]

CallsOnly == Bounded(2, 0, 0, 0)
OneCallOneExit == Bounded(1, 1, 0, 0)
CallsFaultInit == Bounded(2, 0, 1, 1)

\* Bound: one call fails or init dies, not both.
OneMishap == left["faults"] + left["inits"] >= 1

Symmetric == Permutations(Callers) \cup Permutations(Timers)
=============================================================================
