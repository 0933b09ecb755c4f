---------------------------- MODULE MetricSeries ----------------------------
(***************************************************************************)
(* The series of the metrics library (metrics.rs): threads look a series up  *)
(* by name, which makes it when it is new, and add to its cell; a histogram *)
(* counts what is observed while others ask for its quantiles.              *)
(*                                                                          *)
(* All atomics are Relaxed: the additions of one observation may become     *)
(* visible in any order, and a reader may see the buckets in any order.     *)
(***************************************************************************)
EXTENDS Integers, FiniteSets, FiniteSetsExt, Functions

CONSTANTS
    Threads,
    Bounds,     \* of the buckets
    MaxAdds     \* bound: additions, observations and questions of a thread

VARIABLES
    kind,       \* "counter" or "histogram"
    reg,        \* the cell that is registered, 0 when there is none
    cells,      \* value of each cell that was made
    task,       \* per thread: [pc, cell, cur, todo, got]
    hist,       \* [bucket, count, sum] of the histogram
    used,       \* per thread: calls so far
    counted,    \* history: what the threads added
    observed    \* history: how often each value was observed

vars == <<kind, reg, cells, task, hist, used, counted, observed>>

Top == Max(Bounds) + 1
Buckets == Bounds \cup {Top}
Idle == [pc |-> "idle", cell |-> 0, cur |-> 0, todo |-> {}, got |-> [b \in Buckets |-> 0]]

TypeOK ==
    /\ kind \in {"counter", "histogram"} /\ reg \in 0..Cardinality(Threads)
    /\ DOMAIN cells \subseteq 1..Cardinality(Threads) /\ used \in [Threads -> 0..MaxAdds]
    /\ \A t \in Threads : task[t].pc \in {"idle", "make", "load", "cas", "observe", "count", "read"}
    /\ hist.bucket \in [Buckets -> Nat]

Init ==
    /\ kind \in {"counter", "histogram"} /\ reg = 0 /\ cells = <<>>
    /\ task = [t \in Threads |-> Idle]
    /\ hist = [bucket |-> [b \in Buckets |-> 0], count |-> 0, sum |-> 0]
    /\ used = [t \in Threads |-> 0] /\ counted = 0 /\ observed = [v \in Buckets |-> 0]

Set(t, new) == task' = [task EXCEPT ![t] = new]
Begin(t) ==
    /\ task[t].pc = "idle" /\ used[t] < MaxAdds
    /\ used' = [used EXCEPT ![t] = @ + 1]

-----------------------------------------------------------------------------
(* The name is looked up under the read lock.  One that is new is made after *)
(* it, and two threads may both find it new.                                 *)
Lookup(t) ==
    /\ kind = "counter" /\ Begin(t)
    /\ Set(t, [Idle EXCEPT !.pc = IF reg = 0 THEN "make" ELSE "load", !.cell = reg])
    /\ UNCHANGED <<kind, reg, cells, hist, counted, observed>>

(* insert replaces what another thread registered meanwhile; its cell lives  *)
(* on with those who hold it.                                                *)
Make(t) ==
    LET c == Cardinality(DOMAIN cells) + 1 IN
    /\ task[t].pc = "make"
    /\ reg' = c /\ cells' = [i \in 1..c |-> IF i = c THEN 0 ELSE cells[i]]
    /\ Set(t, [Idle EXCEPT !.pc = "load", !.cell = c])
    /\ UNCHANGED <<kind, hist, used, counted, observed>>

Load(t) ==
    /\ task[t].pc = "load"
    /\ Set(t, [task[t] EXCEPT !.pc = "cas", !.cur = cells[task[t].cell]])
    /\ UNCHANGED <<kind, reg, cells, hist, used, counted, observed>>

Cas_Stores(t) ==  \* seeded fault: the sum is stored whatever the cell holds by now
    LET c == task[t].cell IN
    /\ task[t].pc = "cas"
    /\ cells' = [cells EXCEPT ![c] = task[t].cur + 1]
    /\ counted' = counted + 1 /\ Set(t, Idle)
    /\ UNCHANGED <<kind, reg, hist, used, observed>>

(* compare_exchange: stored when the cell still holds what was read, else    *)
(* tried again with what it holds.                                           *)
Cas(t) ==
    LET c == task[t].cell IN
    /\ task[t].pc = "cas"
    /\ IF cells[c] = task[t].cur
       THEN /\ cells' = [cells EXCEPT ![c] = @ + 1]
            /\ counted' = counted + 1 /\ Set(t, Idle)
       ELSE /\ Set(t, [task[t] EXCEPT !.cur = cells[c]])
            /\ UNCHANGED <<cells, counted>>
    /\ UNCHANGED <<kind, reg, hist, used, observed>>

-----------------------------------------------------------------------------
(* The first bucket whose bound the value does not exceed.                   *)
BucketOf(v) == Min({b \in Buckets : v <= b})

Observe(t) ==
    /\ kind = "histogram" /\ Begin(t)
    /\ \E v \in Buckets :
        /\ Set(t, [Idle EXCEPT !.pc = "observe", !.cur = v, !.todo = {"bucket", "count", "sum"}])
        /\ observed' = [observed EXCEPT ![v] = @ + 1]
    /\ UNCHANGED <<kind, reg, cells, hist, counted>>

AddPart(t) ==
    LET v == task[t].cur IN
    /\ task[t].pc = "observe"
    /\ \E p \in task[t].todo :
        /\ hist' = CASE p = "bucket" -> [hist EXCEPT !.bucket[BucketOf(v)] = @ + 1]
                     [] p = "count" -> [hist EXCEPT !.count = @ + 1]
                     [] p = "sum" -> [hist EXCEPT !.sum = @ + v]
        /\ Set(t, IF task[t].todo = {p} THEN Idle ELSE [task[t] EXCEPT !.todo = @ \ {p}])
    /\ UNCHANGED <<kind, reg, cells, used, counted, observed>>

(* quantile: the count is read, then every bucket.                           *)
Ask(t) ==
    /\ kind = "histogram" /\ Begin(t)
    /\ Set(t, [Idle EXCEPT !.pc = "read", !.cur = hist.count, !.todo = Buckets])
    /\ UNCHANGED <<kind, reg, cells, hist, counted, observed>>

ReadBucket(t) ==
    /\ task[t].pc = "read"
    /\ \E b \in task[t].todo :
        Set(t, [task[t] EXCEPT !.todo = @ \ {b}, !.got[b] = hist.bucket[b]])
    /\ UNCHANGED <<kind, reg, cells, hist, used, counted, observed>>

(* The half that was asked for: the first bound that so many do not exceed,  *)
(* and the last one when there is none.                                      *)
Below(got, b) == SumFunctionOnSet(got, {c \in Buckets : c <= b})
Median(total, got) ==
    LET half == (total + 1) \div 2
        enough == {b \in Bounds : Below(got, b) >= half}
    IN  IF total = 0 THEN 0 ELSE IF enough = {} THEN Max(Bounds) ELSE Min(enough)

Done(t) == task[t].pc = "read" /\ task[t].todo = {}

Answer(t) ==
    /\ Done(t) /\ Set(t, Idle)
    /\ UNCHANGED <<kind, reg, cells, hist, used, counted, observed>>

Next == \E t \in Threads :
    \/ Lookup(t) \/ Make(t) \/ Load(t) \/ Cas(t)
    \/ Observe(t) \/ AddPart(t) \/ Ask(t) \/ ReadBucket(t) \/ Answer(t)

Spec == Init /\ [][Next]_vars
-----------------------------------------------------------------------------
AtRest == \A t \in Threads : task[t].pc = "idle"
Total == SumFunctionOnSet(cells, DOMAIN cells)

(* No addition is lost however the threads meet: together the cells hold     *)
(* what was added.  The registered one holds it all unless two threads found *)
(* the name new at once.                                                     *)
AddsAreKept ==
    /\ Total = counted
    /\ DOMAIN cells = {1} => cells[reg] = counted

(* A histogram that nobody is writing tells of every observation once, in    *)
(* its bucket, in the count and in the sum.                                  *)
HistogramAgrees == AtRest =>
    /\ hist.bucket = observed
    /\ hist.count = SumFunction(observed)
    /\ hist.sum = SumFunction([v \in Buckets |-> v * observed[v]])

(* A reader alone with a histogram at rest is told the least bound that half *)
(* of the observed values do not exceed.                                     *)
MedianIsRight == \A t \in Threads :
    Done(t) /\ (\A o \in Threads : task[o].pc # "observe") /\ task[t].got = observed
      /\ task[t].cur = SumFunction(observed) =>
        LET m == Median(task[t].cur, task[t].got)
            upTo(b) == SumFunctionOnSet(observed, {v \in Buckets : v <= b})
        IN  /\ m = 0 <=> observed = [v \in Buckets |-> 0]
            /\ m \in Bounds /\ m < Max(Bounds) => 2 * upTo(m) >= SumFunction(observed)
            /\ \A b \in Bounds : b < m => 2 * upTo(b) < SumFunction(observed)

SeriesSound == AddsAreKept /\ HistogramAgrees /\ MedianIsRight
=============================================================================
