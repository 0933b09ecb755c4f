------------------------------ MODULE NetMonitor ------------------------------
(***************************************************************************)
(* Traffic: of the host, from the counters of its interfaces (hostnet.rs),   *)
(* or of a server, from the connections on its port (netmon.rs).  A counter  *)
(* only grows, but what is summed changes: interfaces and connections come   *)
(* and go.  Bytes received stand for each of the totals.                     *)
(***************************************************************************)
EXTENDS Integers, FiniteSets, FiniteSetsExt

CONSTANTS
    Sources,     \* interfaces, or connections of players
    Kept,        \* read_nics: how many interfaces are summed (12)
    MaxBytes,    \* bound: bytes of a counter, and those carried between samples
    MaxSamples   \* bound: samples

VARIABLES
    kind,     \* "host" or "port"
    count,    \* the counter of each source, -1 when there is none
    prev,     \* HostNetPrev, NetCounters: [rx, primed, peak, base]
    shown,    \* the last sample: [rate, session]
    moved,    \* history: bytes carried [since the last sample, before it, since the first]
    samples

vars == <<kind, count, prev, shown, moved, samples>>

There == {s \in Sources : count[s] >= 0}
SumOf(set) == MapThenSumSet(LAMBDA s : count[s], set)
Larger(a, b) == IF a > b THEN a ELSE b

TypeOK ==
    /\ kind \in {"host", "port"} /\ count \in [Sources -> -1..MaxBytes]
    /\ prev.primed \in BOOLEAN /\ samples \in 0..MaxSamples

Init ==
    /\ kind \in {"host", "port"} /\ count \in [Sources -> {-1, 0, 1}]
    /\ prev = [rx |-> 0, primed |-> FALSE, peak |-> 0, base |-> 0]
    /\ shown = [rate |-> 0, session |-> 0] /\ moved = [now |-> 0, sample |-> 0, session |-> 0]
    /\ samples = 0

-----------------------------------------------------------------------------
(* Outside: traffic, and sources that come, with a counter of 0, and go.    *)
Carry(s) ==
    /\ count[s] \in 0..(MaxBytes - 1) /\ moved.now < MaxBytes
    /\ count' = [count EXCEPT ![s] = @ + 1]
    /\ moved' = [moved EXCEPT !.now = @ + 1, !.session = @ + 1]
    /\ UNCHANGED <<kind, prev, shown, samples>>

ComeOrGo(s) ==
    /\ count' = [count EXCEPT ![s] = IF @ = -1 THEN 0 ELSE -1]
    /\ UNCHANGED <<kind, prev, shown, moved, samples>>

(* read_nics: the interfaces that received most; ss_bytes: the connections   *)
(* established, none at all counting as 0.                                  *)
Read ==
    IF kind = "port" \/ Cardinality(There) <= Kept THEN SumOf(There)
    ELSE SumOf(CHOOSE set \in kSubset(Kept, There) :
                  \A s \in set, other \in There \ set : count[s] >= count[other])

DeltaRate_Wraps(now, before) ==  \* seeded fault: a sum that went down counts as one that began anew
    IF now >= before THEN now - before ELSE now

DeltaRate(now, before) == IF now >= before THEN now - before ELSE 0

(* hostnet::sample, netmon::sample: the first sets the base of the session;  *)
(* one that comes too quickly has no rate, and yet becomes the previous one. *)
Sample(quick) ==
    /\ samples < MaxSamples /\ samples' = samples + 1
    /\ LET rx == Read
           rate == IF prev.primed /\ ~quick THEN DeltaRate(rx, prev.rx) ELSE 0
           base == IF prev.primed THEN prev.base ELSE rx IN
       /\ prev' = [rx |-> rx, primed |-> TRUE, peak |-> Larger(prev.peak, rate), base |-> base]
       /\ shown' = [rate |-> rate, session |-> Larger(0, rx - base)]
    /\ moved' = [now |-> 0, sample |-> moved.now, session |-> IF prev.primed THEN moved.session ELSE 0]
    /\ UNCHANGED <<kind, count>>

Next ==
    \/ \E s \in Sources : Carry(s) \/ ComeOrGo(s)
    \/ \E quick \in BOOLEAN : Sample(quick)

Spec == Init /\ [][Next]_vars

-----------------------------------------------------------------------------
(* No rate and no session total is more than what was carried: what is       *)
(* summed may shrink or change, but makes no traffic up (hostnet.rs:188,     *)
(* netmon.rs:124).                                                          *)
NothingMadeUp == shown.rate <= moved.sample /\ shown.session <= moved.session
=============================================================================
