-------------------------- MODULE PlaneClusterProofs --------------------------
(***************************************************************************)
(* What the plane and an agent of MCPlane promise of an instance, for any   *)
(* number of callers, sessions, operations and mishaps: x1 is rec, x2       *)
(* sender, x3 sess, x4 wire, x5 agent, x6 events, x7 server, x8 bus, x9      *)
(* task, x10 ops, x11 mishaps and x12 missed.                               *)
(***************************************************************************)
EXTENDS PlaneParts, TLAPS

-----------------------------------------------------------------------------
(* Records and sequences. *)

(* What is left of a queue ends as the queue did. *)
LEMMA TailHasTheEnd ==
    ASSUME NEW S, NEW q \in Seq(S), q # <<>>
    PROVE  /\ Head(q) \in S /\ Tail(q) \in Seq(S)
           /\ Tail(q) # <<>> => Cluster!Final(Tail(q)) = Cluster!Final(q)
           /\ Tail(q) = <<>> => Cluster!Final(q) = Head(q)
<1>1. /\ Head(q) = q[1] /\ Head(q) \in S /\ Tail(q) \in Seq(S)
      /\ Len(q) \in Nat \ {0} /\ Len(Tail(q)) = Len(q) - 1
      /\ \A k \in 1..Len(Tail(q)) : Tail(q)[k] = q[k + 1]
  OBVIOUS
<1>2. Tail(q) = <<>> <=> Len(Tail(q)) = 0
  BY <1>1
<1>3. Tail(q) # <<>> => Tail(q)[Len(Tail(q))] = q[Len(q)]
  BY <1>1, <1>2
<1>4. Tail(q) = <<>> => q[Len(q)] = q[1]
  BY <1>1, <1>2
<1> QED
  BY <1>1, <1>3, <1>4 DEF Cluster!Final

(* One session moves on, and is well-formed where it was. *)
LEMMA SessionMoves ==
    ASSUME Cluster!Formed, NEW s \in Cluster!Sessions, NEW r \in Cluster!Session,
           x3' = [x3 EXCEPT ![s] = r]
    PROVE  /\ x3' \in [Cluster!Sessions -> Cluster!Session]
           /\ x3'[s] = r
           /\ \A t \in Cluster!Sessions \ {s} : x3'[t] = x3[t]
<1>1. x3 \in [Cluster!Sessions -> Cluster!Session]
  BY DEF Cluster!Formed
<1> QED
  BY <1>1

(* So does one web socket. *)
LEMMA WireMoves ==
    ASSUME Cluster!Formed, NEW s \in Cluster!Sessions, NEW r \in Cluster!Wire,
           x4' = [x4 EXCEPT ![s] = r]
    PROVE  /\ x4' \in [Cluster!Sessions -> Cluster!Wire]
           /\ x4'[s] = r
           /\ \A t \in Cluster!Sessions \ {s} : x4'[t] = x4[t]
<1>1. x4 \in [Cluster!Sessions -> Cluster!Wire]
  BY DEF Cluster!Formed
<1> QED
  BY <1>1

(* And so does one caller. *)
LEMMA TaskMoves ==
    ASSUME Cluster!Formed, NEW a \in Cluster!Actors, NEW r \in Cluster!Task,
           x9' = [x9 EXCEPT ![a] = r]
    PROVE  /\ x9' \in [Cluster!Actors -> Cluster!Task]
           /\ x9'[a] = r
           /\ \A b \in Cluster!Actors \ {a} : x9'[b] = x9[b]
<1>1. x9 \in [Cluster!Actors -> Cluster!Task]
  BY DEF Cluster!Formed
<1> QED
  BY <1>1

(* A record of a session with some fields changed is that record written    *)
(* out, and so for a web socket.                                            *)
LEMMA SessionPhase ==
    ASSUME NEW r \in Cluster!Session, NEW p
    PROVE  [r EXCEPT !.phase = p]
             = [phase |-> p, queue |-> r.queue, snap |-> r.snap, top |-> r.top, mixed |-> r.mixed]
<1>1. r = [phase |-> r.phase, queue |-> r.queue, snap |-> r.snap, top |-> r.top, mixed |-> r.mixed]
  BY DEF Cluster!Session
<1> QED
  BY <1>1

LEMMA SessionQueue ==
    ASSUME NEW r \in Cluster!Session, NEW q
    PROVE  [r EXCEPT !.queue = q]
             = [phase |-> r.phase, queue |-> q, snap |-> r.snap, top |-> r.top, mixed |-> r.mixed]
<1>1. r = [phase |-> r.phase, queue |-> r.queue, snap |-> r.snap, top |-> r.top, mixed |-> r.mixed]
  BY DEF Cluster!Session
<1> QED
  BY <1>1

LEMMA WireChanged ==
    ASSUME NEW r \in Cluster!Wire, NEW d, NEW u, NEW o
    PROVE  /\ [r EXCEPT !.down = d] = [down |-> d, up |-> r.up, open |-> r.open]
           /\ [r EXCEPT !.up = u] = [down |-> r.down, up |-> u, open |-> r.open]
           /\ [r EXCEPT !.open = o] = [down |-> r.down, up |-> r.up, open |-> o]
<1>1. r = [down |-> r.down, up |-> r.up, open |-> r.open]
  BY DEF Cluster!Wire
<1> QED
  BY <1>1

(* What the agent says of its instance, with a field or two changed.         *)
AgentIs(r, c, w, k, h, b, e) ==
    r = [cur |-> c, want |-> w, known |-> k, handle |-> h, busy |-> b, welcomed |-> e]

LEMMA AgentWritten ==
    ASSUME NEW r \in Cluster!Agent
    PROVE  /\ AgentIs(r, r.cur, r.want, r.known, r.handle, r.busy, r.welcomed)
           /\ r.cur \in 0..MaxSessions /\ r.want \in BOOLEAN /\ r.known \in BOOLEAN
           /\ r.handle \in BOOLEAN /\ r.busy \in BOOLEAN /\ r.welcomed \in BOOLEAN
BY DEF AgentIs, Cluster!Agent

LEMMA AgentChanged ==
    ASSUME NEW r, NEW c, NEW w, NEW k, NEW h, NEW b, NEW e, AgentIs(r, c, w, k, h, b, e)
    PROVE  /\ \A v : AgentIs([r EXCEPT !.cur = v], v, w, k, h, b, e)
           /\ \A v : AgentIs([r EXCEPT !.handle = v], c, w, k, v, b, e)
           /\ \A v : AgentIs([r EXCEPT !.busy = v], c, w, k, h, v, e)
           /\ \A v : AgentIs([r EXCEPT !.welcomed = v], c, w, k, h, b, v)
           /\ \A u, v : AgentIs([r EXCEPT !.cur = u, !.welcomed = v], u, w, k, h, b, v)
           /\ \A u, v : AgentIs([r EXCEPT !.want = u, !.known = v], c, u, v, h, b, e)
           /\ \A u, v : AgentIs([r EXCEPT !.handle = u, !.busy = v], c, w, k, u, v, e)
<1>1. r = [cur |-> c, want |-> w, known |-> k, handle |-> h, busy |-> b, welcomed |-> e]
  BY DEF AgentIs
<1>2. /\ \A v : AgentIs([r EXCEPT !.cur = v], v, w, k, h, b, e)
      /\ \A v : AgentIs([r EXCEPT !.handle = v], c, w, k, v, b, e)
      /\ \A v : AgentIs([r EXCEPT !.busy = v], c, w, k, h, v, e)
      /\ \A v : AgentIs([r EXCEPT !.welcomed = v], c, w, k, h, b, v)
  BY <1>1 DEF AgentIs
<1> DEFINE F == {"cur", "want", "known", "handle", "busy", "welcomed"}
<1>3. ASSUME NEW u, NEW v
      PROVE  /\ AgentIs([r EXCEPT !.cur = u, !.welcomed = v], u, w, k, h, b, v)
             /\ AgentIs([r EXCEPT !.want = u, !.known = v], c, u, v, h, b, e)
             /\ AgentIs([r EXCEPT !.handle = u, !.busy = v], c, w, k, u, v, e)
  <2>1. AgentIs([r EXCEPT !.cur = u, !.welcomed = v], u, w, k, h, b, v)
    <3>1. [r EXCEPT !.cur = u, !.welcomed = v]
            = [f \in F |-> IF f = "welcomed" THEN v ELSE IF f = "cur" THEN u ELSE r[f]]
      BY <1>1
    <3> QED
      BY <1>1, <3>1 DEF AgentIs
  <2>2. AgentIs([r EXCEPT !.want = u, !.known = v], c, u, v, h, b, e)
    <3>1. [r EXCEPT !.want = u, !.known = v]
            = [f \in F |-> IF f = "known" THEN v ELSE IF f = "want" THEN u ELSE r[f]]
      BY <1>1
    <3> QED
      BY <1>1, <3>1 DEF AgentIs
  <2>3. AgentIs([r EXCEPT !.handle = u, !.busy = v], c, w, k, u, v, e)
    <3>1. [r EXCEPT !.handle = u, !.busy = v]
            = [f \in F |-> IF f = "busy" THEN v ELSE IF f = "handle" THEN u ELSE r[f]]
      BY <1>1
    <3> QED
      BY <1>1, <3>1 DEF AgentIs
  <2> QED
    BY <2>1, <2>2, <2>3
<1> QED
  BY <1>2, <1>3

-----------------------------------------------------------------------------
(* What the steps of the plane do. *)

Recording(a) ==
    Cluster!StartRecord(a) \/ Cluster!StopRecord(a) \/ Cluster!ApplyRecord(a) \/ Cluster!UpdateRecord(a)

(* An operation makes the record newer and never says "running".            *)
LEMMA RecordingDoes ==
    ASSUME Cluster!Formed, NEW a \in Cluster!Actors, Recording(a)
    PROVE  /\ x1' \in [want : BOOLEAN, status : Cluster!Statuses, last : 0..MaxOps]
           /\ x10' = x1'.last /\ x1'.last = x1.last + 1
           /\ x1'.status = "running" => x1.status = "running"
           /\ x9' \in [Cluster!Actors -> Cluster!Task]
           /\ \A b \in Cluster!Actors \ {a} : x9'[b] = x9[b]
           /\ x9'[a].at = "send" => /\ x9'[a].msg \in Cluster!Orders
                                    /\ x9'[a].op = x1'.last
                                    /\ x9'[a].msg.want = x1'.want
           /\ UNCHANGED <<x2, x3, x4, x5, x6, x7, x8, x12>>
<1>1. /\ x10 < MaxOps /\ x10 = x1.last
      /\ x1 \in [want : BOOLEAN, status : Cluster!Statuses, last : 0..MaxOps]
      /\ UNCHANGED <<x2, x3, x4, x5, x6, x7, x8, x12>>
  BY DEF Recording, Cluster!StartRecord, Cluster!StopRecord, Cluster!ApplyRecord,
         Cluster!UpdateRecord, Cluster!Begin, Cluster!Recorded, Cluster!Quietly, Cluster!Formed
<1>2. PICK w \in BOOLEAN, st \in Cluster!Statuses, at \in {"idle", "reread", "send"},
           m \in Cluster!Orders \cup {Cluster!Idle.msg} :
         /\ x1' = [want |-> w, status |-> st, last |-> x10 + 1]
         /\ st = "running" => x1.status = "running"
         /\ x10' = x10 + 1
         /\ x9' = [x9 EXCEPT ![a] = [at |-> at, msg |-> m, op |-> x10 + 1]]
         /\ at = "send" => m \in Cluster!Orders /\ m.want = w
  <2>1. \A w \in BOOLEAN, st \in Cluster!Statuses :
           /\ [[x1 EXCEPT !.want = w] EXCEPT !.last = x10 + 1]
                = [want |-> w, status |-> x1.status, last |-> x10 + 1]
           /\ [[x1 EXCEPT !.want = w, !.status = st] EXCEPT !.last = x10 + 1]
                = [want |-> w, status |-> st, last |-> x10 + 1]
    <3>1. SUFFICES ASSUME NEW w \in BOOLEAN, NEW st \in Cluster!Statuses
                   PROVE  /\ [[x1 EXCEPT !.want = w] EXCEPT !.last = x10 + 1]
                               = [want |-> w, status |-> x1.status, last |-> x10 + 1]
                          /\ [[x1 EXCEPT !.want = w, !.status = st] EXCEPT !.last = x10 + 1]
                               = [want |-> w, status |-> st, last |-> x10 + 1]
      OBVIOUS
    <3>2. x1 = [want |-> x1.want, status |-> x1.status, last |-> x1.last]
      BY <1>1
    <3>3. [x1 EXCEPT !.want = w] = [want |-> w, status |-> x1.status, last |-> x1.last]
      BY <3>2
    <3>4. [x1 EXCEPT !.want = w, !.status = st] = [want |-> w, status |-> st, last |-> x1.last]
      <4>1. [x1 EXCEPT !.want = w, !.status = st]
              = [f \in {"want", "status", "last"} |->
                   IF f = "status" THEN st ELSE IF f = "want" THEN w ELSE x1[f]]
        BY <3>2
      <4> QED
        BY <4>1
    <3>5. \A v \in Cluster!Statuses :
             [[want |-> w, status |-> v, last |-> x1.last] EXCEPT !.last = x10 + 1]
               = [want |-> w, status |-> v, last |-> x10 + 1]
      OBVIOUS
    <3> QED
      BY <1>1, <3>3, <3>4, <3>5
  <2> DEFINE Goes(w, st, at, m) ==
               /\ x1' = [want |-> w, status |-> st, last |-> x10 + 1]
               /\ x10' = x10 + 1
               /\ x9' = [x9 EXCEPT ![a] = [at |-> at, msg |-> m, op |-> x10 + 1]]
  <2>2. CASE Cluster!StartRecord(a) /\ x1.status \in {"running", "starting"}
    <3>1. Cluster!Recorded(a, [x1 EXCEPT !.want = TRUE], "reread", Cluster!Msg("apply", TRUE))
      BY <2>2 DEF Cluster!StartRecord
    <3>2. Goes(TRUE, x1.status, "reread", Cluster!Msg("apply", TRUE))
      BY <2>1, <3>1, <1>1 DEF Cluster!Recorded
    <3> QED
      BY <3>2, <1>1 DEF Cluster!Orders
  <2>3. CASE Cluster!StartRecord(a) /\ x1.status \notin {"running", "starting"}
    <3>1. Cluster!Recorded(a, [x1 EXCEPT !.want = TRUE, !.status = "starting"], "send",
                           Cluster!Msg("apply", TRUE))
      BY <2>3 DEF Cluster!StartRecord
    <3>2. "starting" \in Cluster!Statuses
      BY DEF Cluster!Statuses
    <3>3. Goes(TRUE, "starting", "send", Cluster!Msg("apply", TRUE))
      BY <2>1, <3>1, <3>2, <1>1 DEF Cluster!Recorded
    <3>4. Cluster!Msg("apply", TRUE) \in Cluster!Orders /\ Cluster!Msg("apply", TRUE).want = TRUE
      BY DEF Cluster!Orders, Cluster!Msg
    <3> QED
      BY <3>2, <3>3, <3>4, <1>1
  <2>4. CASE Cluster!StopRecord(a)
    <3>1. Cluster!Recorded(a, [x1 EXCEPT !.want = FALSE, !.status = "stopping"], "send",
                           Cluster!Msg("stop", FALSE))
      BY <2>4 DEF Cluster!StopRecord
    <3>2. "stopping" \in Cluster!Statuses
      BY DEF Cluster!Statuses
    <3>3. Goes(FALSE, "stopping", "send", Cluster!Msg("stop", FALSE))
      BY <2>1, <3>1, <3>2, <1>1 DEF Cluster!Recorded
    <3>4. Cluster!Msg("stop", FALSE) \in Cluster!Orders /\ Cluster!Msg("stop", FALSE).want = FALSE
      BY DEF Cluster!Orders, Cluster!Msg
    <3> QED
      BY <3>2, <3>3, <3>4, <1>1
  <2>5. CASE Cluster!ApplyRecord(a)
    <3>1. PICK w \in BOOLEAN :
             Cluster!Recorded(a, [x1 EXCEPT !.want = w], "send", Cluster!Msg("apply", w))
      BY <2>5 DEF Cluster!ApplyRecord
    <3>2. Goes(w, x1.status, "send", Cluster!Msg("apply", w))
      BY <2>1, <3>1, <1>1 DEF Cluster!Recorded
    <3>3. Cluster!Msg("apply", w) \in Cluster!Orders /\ Cluster!Msg("apply", w).want = w
      BY DEF Cluster!Orders, Cluster!Msg
    <3> QED
      BY <3>2, <3>3, <1>1
  <2>6. CASE Cluster!UpdateRecord(a)
    <3>1. PICK w \in BOOLEAN :
             Cluster!Recorded(a, [x1 EXCEPT !.want = w], "idle", Cluster!Idle.msg)
      BY <2>6 DEF Cluster!UpdateRecord
    <3>2. Goes(w, x1.status, "idle", Cluster!Idle.msg)
      BY <2>1, <3>1, <1>1 DEF Cluster!Recorded
    <3> QED
      BY <3>2, <1>1
  <2> QED
    BY <2>2, <2>3, <2>4, <2>5, <2>6 DEF Recording
<1> DEFINE r == [at |-> at, msg |-> m, op |-> x10 + 1]
<1>3. r \in Cluster!Task
  BY <1>1, ClusterBounds DEF Cluster!Task
<1>4. /\ x9' \in [Cluster!Actors -> Cluster!Task] /\ x9'[a] = r
      /\ \A b \in Cluster!Actors \ {a} : x9'[b] = x9[b]
  <2>1. x9' = [x9 EXCEPT ![a] = r]
    BY <1>2
  <2> HIDE DEF r
  <2> QED
    BY <1>3, <2>1, TaskMoves
<1>5. x1' \in [want : BOOLEAN, status : Cluster!Statuses, last : 0..MaxOps]
  BY <1>1, <1>2, ClusterBounds
<1> QED
  BY <1>1, <1>2, <1>4, <1>5

(* A start of what is up reads the record again for its message.            *)
LEMMA RereadDoes ==
    ASSUME Cluster!Formed, NEW a \in Cluster!Actors, Cluster!Reread(a)
    PROVE  /\ x9' \in [Cluster!Actors -> Cluster!Task]
           /\ \A b \in Cluster!Actors \ {a} : x9'[b] = x9[b]
           /\ x9'[a].msg \in Cluster!Orders /\ x9'[a].op = x1.last /\ x9'[a].msg.want = x1.want
           /\ UNCHANGED <<x1, x2, x3, x4, x5, x6, x7, x8, x10, x12>>
<1> DEFINE r == [at |-> "send", msg |-> Cluster!Msg("apply", x1.want), op |-> x1.last]
<1>1. r \in Cluster!Task /\ r.msg \in Cluster!Orders /\ r.msg.want = x1.want
  BY DEF Cluster!Formed, Cluster!Task, Cluster!Orders, Cluster!Msg
<1>2. x9' = [x9 EXCEPT ![a] = r] /\ UNCHANGED <<x1, x2, x3, x4, x5, x6, x7, x8, x10, x12>>
  BY DEF Cluster!Reread, Cluster!Quietly
<1>3. r.op = x1.last
  OBVIOUS
<1> HIDE DEF r
<1> QED
  BY <1>1, <1>2, <1>3, TaskMoves

(* send_down: the message goes to the session in the map, if there is one.   *)
LEMMA SendDownDoes ==
    ASSUME Cluster!Formed, NEW a \in Cluster!Actors, Cluster!SendDown(a), x9[a].msg \in Cluster!Orders
    PROVE  /\ x9' \in [Cluster!Actors -> Cluster!Task]
           /\ x9'[a].at = "idle" /\ \A b \in Cluster!Actors \ {a} : x9'[b] = x9[b]
           /\ x3' \in [Cluster!Sessions -> Cluster!Session]
           /\ \A t \in Cluster!Sessions \ {x2} : x3'[t] = x3[t]
           /\ x2 \in Cluster!Sessions =>
                /\ x3'[x2].phase = x3[x2].phase /\ x3'[x2].snap = x3[x2].snap
                /\ x3'[x2].queue = Append(x3[x2].queue, x9[a].msg)
                /\ x3'[x2].mixed = (x3[x2].mixed \/ x9[a].op < x3[x2].top)
                /\ x3'[x2].top = IF x9[a].op > x3[x2].top THEN x9[a].op ELSE x3[x2].top
           /\ UNCHANGED <<x1, x2, x4, x5, x6, x7, x8, x10, x12>>
<1>1. /\ x9' = [x9 EXCEPT ![a] = Cluster!Idle]
      /\ UNCHANGED <<x1, x2, x4, x5, x6, x7, x8, x10, x12>>
  BY DEF Cluster!SendDown
<1>2. Cluster!Idle \in Cluster!Task /\ Cluster!Idle.at = "idle"
  BY ClusterBounds DEF Cluster!Idle, Cluster!Task
<1>3. CASE x2 \notin Cluster!Sessions
  <2>1. x2 = 0
    BY <1>3 DEF Cluster!Formed, Cluster!Sessions
  <2>2. x3' = x3
    BY <2>1 DEF Cluster!SendDown, Cluster!NoSession
  <2> QED
    BY <1>1, <1>2, <1>3, <2>2, TaskMoves DEF Cluster!Formed
<1>4. CASE x2 \in Cluster!Sessions
  <2> DEFINE q == Append(x3[x2].queue, x9[a].msg)
             m == x3[x2].mixed \/ x9[a].op < x3[x2].top
             n == IF x9[a].op > x3[x2].top THEN x9[a].op ELSE x3[x2].top
  <2>1. x3[x2] \in Cluster!Session /\ x9[a] \in Cluster!Task
    BY <1>4 DEF Cluster!Formed
  <2>2. q \in Seq(Cluster!Orders)
    BY <2>1 DEF Cluster!Session
  <2>3. n \in 0..MaxOps /\ m \in BOOLEAN
    BY <2>1 DEF Cluster!Session, Cluster!Task
  <2>5. x3' = [x3 EXCEPT ![x2] = [x3[x2] EXCEPT !.queue = q, !.mixed = m, !.top = n]]
    BY <1>4 DEF Cluster!SendDown, Cluster!NoSession, Cluster!Sessions
  <2>6. PICK qq \in Seq(Cluster!Orders), mm \in BOOLEAN, nn \in 0..MaxOps :
           /\ qq = q /\ mm = m /\ nn = n
           /\ x3' = [x3 EXCEPT ![x2] = [x3[x2] EXCEPT !.queue = qq, !.mixed = mm, !.top = nn]]
    BY <2>2, <2>3, <2>5
  <2> HIDE DEF q, m, n
  <2>8. /\ x3' \in [Cluster!Sessions -> Cluster!Session]
        /\ x3'[x2].phase = x3[x2].phase /\ x3'[x2].snap = x3[x2].snap
        /\ x3'[x2].queue = q /\ x3'[x2].mixed = m /\ x3'[x2].top = n
        /\ \A t \in Cluster!Sessions \ {x2} : x3'[t] = x3[t]
    <3> DEFINE r == [phase |-> x3[x2].phase, queue |-> qq, snap |-> x3[x2].snap,
                     top |-> nn, mixed |-> mm]
    <3>1. r \in Cluster!Session
      BY <2>1 DEF Cluster!Session
    <3>2. r.phase = x3[x2].phase /\ r.snap = x3[x2].snap /\ r.queue = qq /\ r.mixed = mm /\ r.top = nn
      OBVIOUS
    <3>3. [x3[x2] EXCEPT !.queue = qq, !.mixed = mm, !.top = nn] = r
      <4>1. x3[x2] = [phase |-> x3[x2].phase, queue |-> x3[x2].queue, snap |-> x3[x2].snap,
                      top |-> x3[x2].top, mixed |-> x3[x2].mixed]
        BY <2>1 DEF Cluster!Session
      <4>2. [x3[x2] EXCEPT !.queue = qq, !.mixed = mm, !.top = nn]
              = [f \in {"phase", "queue", "snap", "top", "mixed"} |->
                   IF f = "top" THEN nn ELSE IF f = "mixed" THEN mm
                   ELSE IF f = "queue" THEN qq ELSE x3[x2][f]]
        BY <4>1
      <4> QED
        BY <4>2
    <3> HIDE DEF r
    <3> QED
      BY <1>4, <2>6, <3>1, <3>2, <3>3, SessionMoves
  <2> QED
    BY <1>1, <1>2, <2>8, TaskMoves DEF q, m, n
<1> QED
  BY <1>3, <1>4

(* The applier takes an event; the end of a server is always applied.        *)
LEMMA ApplyEventDoes ==
    ASSUME Cluster!Formed, Cluster!ApplyEvent
    PROVE  /\ x1' \in [want : BOOLEAN, status : Cluster!Statuses, last : 0..MaxOps]
           /\ x1'.want = x1.want /\ x1'.last = x1.last
           /\ x1'.status \in {x1.status, Head(x8)}
           /\ Head(x8) \in Cluster!Terminal => x1'.status = Head(x8)
           /\ x8 # <<>> /\ x8' = Tail(x8)
           /\ x9' \in [Cluster!Actors -> Cluster!Task]
           /\ \A b \in Cluster!Actors : x9'[b].at = "send" => x9'[b] = x9[b]
           /\ UNCHANGED <<x2, x3, x4, x5, x6, x7, x10, x12>>
<1>1. /\ x1 \in [want : BOOLEAN, status : Cluster!Statuses, last : 0..MaxOps]
      /\ x8 # <<>> /\ x8' = Tail(x8) /\ Head(x8) \in Cluster!Statuses
      /\ UNCHANGED <<x2, x3, x4, x5, x6, x7, x10, x12>>
  BY DEF Cluster!ApplyEvent, Cluster!Formed
<1>2. x1' = x1 \/ x1' = [x1 EXCEPT !.status = Head(x8)]
  BY DEF Cluster!ApplyEvent
<1>3. Head(x8) \in Cluster!Terminal => x1' = [x1 EXCEPT !.status = Head(x8)]
  BY <1>1 DEF Cluster!ApplyEvent, Cluster!CanApplyOver, Cluster!Terminal
<1>4. /\ x9' \in [Cluster!Actors -> Cluster!Task]
      /\ \A b \in Cluster!Actors : x9'[b].at = "send" => x9'[b] = x9[b]
  <2>1. CASE x9' = x9
    BY <2>1 DEF Cluster!Formed
  <2>2. CASE x9' = [x9 EXCEPT ![Restarter].at = "due"]
    <3>1. Restarter \in Cluster!Actors /\ x9[Restarter] \in Cluster!Task
      BY DEF Cluster!Actors, Cluster!Formed
    <3> DEFINE r == [at |-> "due", msg |-> x9[Restarter].msg, op |-> x9[Restarter].op]
    <3>2. r \in Cluster!Task /\ r.at # "send"
      BY <3>1 DEF Cluster!Task
    <3>3. x9' = [x9 EXCEPT ![Restarter] = r]
      <4>1. x9' = [x9 EXCEPT ![Restarter] = [x9[Restarter] EXCEPT !.at = "due"]]
        BY <2>2
      <4>2. x9[Restarter] = [at |-> x9[Restarter].at, msg |-> x9[Restarter].msg, op |-> x9[Restarter].op]
        BY <3>1 DEF Cluster!Task
      <4>3. [x9[Restarter] EXCEPT !.at = "due"] = r
        BY <4>2
      <4> QED
        BY <4>1, <4>3
    <3> HIDE DEF r
    <3> QED
      BY <3>1, <3>2, <3>3, TaskMoves
  <2> QED
    BY <2>1, <2>2 DEF Cluster!ApplyEvent
<1> QED
  BY <1>1, <1>2, <1>3, <1>4
-----------------------------------------------------------------------------
(* Statuses on their way.  A queue settles when the end of a server is in it *)
(* and no "running" after that, and is quiet without a "running".            *)

LEMMA NothingIsQuiet == Cluster!Quiet(<<>>) /\ ~Cluster!Settles(<<>>)
BY DEF Cluster!Quiet, Cluster!Settles

(* What remains of a queue when its head is taken. *)
LEMMA HeadIsTaken ==
    ASSUME NEW q \in Seq(Cluster!Statuses), q # <<>>
    PROVE  /\ Head(q) \in Cluster!Statuses /\ Tail(q) \in Seq(Cluster!Statuses)
           /\ Cluster!Settles(q) =>
                Cluster!Settles(Tail(q)) \/ (Head(q) \in Cluster!Terminal /\ Cluster!Quiet(Tail(q)))
           /\ Cluster!Quiet(q) => Head(q) # "running" /\ Cluster!Quiet(Tail(q))
<1>1. /\ Head(q) = q[1] /\ Head(q) \in Cluster!Statuses /\ Tail(q) \in Seq(Cluster!Statuses)
      /\ Len(q) \in Nat \ {0} /\ Len(Tail(q)) = Len(q) - 1
      /\ \A k \in 1..Len(Tail(q)) : Tail(q)[k] = q[k + 1]
  OBVIOUS
<1>2. ASSUME Cluster!Settles(q)
      PROVE  Cluster!Settles(Tail(q)) \/ (Head(q) \in Cluster!Terminal /\ Cluster!Quiet(Tail(q)))
  <2>1. PICK k \in 1..Len(q) :
           q[k] \in Cluster!Terminal /\ \A j \in (k + 1)..Len(q) : q[j] # "running"
    BY <1>2 DEF Cluster!Settles
  <2>2. CASE k = 1
    <3>1. \A j \in 1..Len(Tail(q)) : Tail(q)[j] # "running"
      BY <1>1, <2>1, <2>2
    <3> QED
      BY <1>1, <2>1, <2>2, <3>1 DEF Cluster!Quiet
  <2>3. CASE k # 1
    <3>1. k - 1 \in 1..Len(Tail(q)) /\ Tail(q)[k - 1] \in Cluster!Terminal
      BY <1>1, <2>1, <2>3
    <3>2. \A j \in ((k - 1) + 1)..Len(Tail(q)) : Tail(q)[j] # "running"
      BY <1>1, <2>1, <2>3
    <3> QED
      BY <3>1, <3>2 DEF Cluster!Settles
  <2> QED
    BY <2>2, <2>3
<1>3. ASSUME Cluster!Quiet(q) PROVE Head(q) # "running" /\ Cluster!Quiet(Tail(q))
  BY <1>1, <1>3 DEF Cluster!Quiet
<1>4. Head(q) \in Cluster!Statuses /\ Tail(q) \in Seq(Cluster!Statuses)
  BY <1>1
<1> QED
  BY <1>2, <1>3, <1>4, Zenon

(* What a queue is when something follows. *)
LEMMA EndIsAppended ==
    ASSUME NEW q \in Seq(Cluster!Statuses), NEW e \in Cluster!Statuses
    PROVE  /\ Append(q, e) \in Seq(Cluster!Statuses)
           /\ e \in Cluster!Terminal => Cluster!Settles(Append(q, e))
           /\ Cluster!Settles(q) /\ e # "running" => Cluster!Settles(Append(q, e))
           /\ Cluster!Quiet(q) /\ e # "running" => Cluster!Quiet(Append(q, e))
<1> DEFINE r == Append(q, e)
<1>1. /\ r \in Seq(Cluster!Statuses) /\ Len(q) \in Nat /\ Len(r) = Len(q) + 1
      /\ r[Len(r)] = e /\ \A k \in 1..Len(q) : r[k] = q[k]
  OBVIOUS
<1> HIDE DEF r
<1>2. e \in Cluster!Terminal => Cluster!Settles(r)
  BY <1>1 DEF Cluster!Settles
<1>3. ASSUME Cluster!Settles(q), e # "running" PROVE Cluster!Settles(r)
  <2>1. PICK k \in 1..Len(q) :
           q[k] \in Cluster!Terminal /\ \A j \in (k + 1)..Len(q) : q[j] # "running"
    BY <1>3 DEF Cluster!Settles
  <2>2. k \in 1..Len(r) /\ r[k] \in Cluster!Terminal
    BY <1>1, <2>1
  <2>3. \A j \in (k + 1)..Len(r) : r[j] # "running"
    BY <1>1, <2>1, <1>3
  <2> QED
    BY <2>2, <2>3 DEF Cluster!Settles
<1>4. Cluster!Quiet(q) /\ e # "running" => Cluster!Quiet(r)
  BY <1>1 DEF Cluster!Quiet
<1> QED
  BY <1>1, <1>2, <1>3, <1>4 DEF r

(* Terminal last settles; terminal last but one does before anything that is *)
(* not "running".                                                            *)
LEMMA LastOnesSettle ==
    ASSUME NEW q \in Seq(Cluster!Statuses), NEW n \in {0, 1}, Len(q) > n,
           q[Len(q) - n] \in Cluster!Terminal, n = 1 => q[Len(q)] # "running"
    PROVE  Cluster!Settles(q)
<1>1. Len(q) - n \in 1..Len(q)
  OBVIOUS
<1>2. \A j \in ((Len(q) - n) + 1)..Len(q) : q[j] # "running"
  OBVIOUS
<1> QED
  BY <1>1, <1>2 DEF Cluster!Settles

(* What the agent's receiver has not read yet after an event: at most so     *)
(* much as it may hold, and the newest two are among it.                     *)
LEMMA EmitDoes ==
    ASSUME Cluster!Formed, NEW sts \in Seq(Cluster!Statuses), sts # <<>>, Cluster!Emit(sts)
    PROVE  /\ x6' \in Seq(Cluster!Statuses) /\ Len(x6') <= EventCap /\ x12' \in BOOLEAN
           /\ x5.cur = 0 => x6' = <<>> /\ x12'
           /\ x5.cur # 0 =>
                /\ ~x12' /\ x6' # <<>> /\ Cluster!Final(x6') = Cluster!Final(sts)
                /\ Cluster!Final(sts) \in Cluster!Terminal => Cluster!Settles(x6')
                /\ (x6 # <<>> /\ Cluster!Final(x6) \in Cluster!Terminal /\ Len(sts) = 1 /\ sts[1] # "running")
                     => Cluster!Settles(x6')
<1>1. x6 \in Seq(Cluster!Statuses) /\ Len(x6) \in Nat /\ Len(sts) \in Nat \ {0}
  BY DEF Cluster!Formed
<1>2. CASE x5.cur = 0
  <2>1. x6' = <<>> /\ x12' = TRUE
    BY <1>2 DEF Cluster!Emit, Cluster!NoSession
  <2> QED
    BY <1>2, <2>1, ClusterBounds
<1>3. CASE x5.cur # 0
  <2> DEFINE all == x6 \o sts
             drop == IF Len(all) > EventCap THEN Len(all) - EventCap ELSE 0
  <2>1. x6' = SubSeq(all, drop + 1, Len(all)) /\ ~x12' /\ x12' \in BOOLEAN
    BY <1>3 DEF Cluster!Emit, Cluster!NoSession
  <2>2. /\ all \in Seq(Cluster!Statuses) /\ Len(all) = Len(x6) + Len(sts)
        /\ \A k \in 1..Len(sts) : all[Len(x6) + k] = sts[k]
        /\ \A k \in 1..Len(x6) : all[k] = x6[k]
    BY <1>1
  <2> HIDE DEF all
  <2>3. /\ drop \in Nat /\ drop < Len(all) /\ Len(all) - drop <= EventCap
        /\ Len(all) > 1 => Len(all) - drop > 1
    <3>1. Len(all) \in Nat /\ Len(all) > 0 /\ EventCap \in Nat /\ EventCap >= 2
      BY <2>2, <1>1, ClusterBounds
    <3> QED
      BY <3>1
  <2> HIDE DEF drop
  <2>4. /\ x6' \in Seq(Cluster!Statuses) /\ Len(x6') = Len(all) - drop
        /\ \A k \in 1..(Len(all) - drop) : x6'[k] = all[drop + k]
    <3>1. /\ Len(SubSeq(all, drop + 1, Len(all))) = Len(all) - drop
          /\ \A k \in 1..(Len(all) - drop) : SubSeq(all, drop + 1, Len(all))[k] = all[drop + k]
      BY <2>2, <2>3
    <3>2. SubSeq(all, drop + 1, Len(all)) \in Seq(Cluster!Statuses)
      BY <2>2, <2>3
    <3> QED
      BY <2>1, <3>1, <3>2
  <2>5. x6'[Len(x6')] = sts[Len(sts)] /\ x6' # <<>> /\ Len(x6') <= EventCap
    BY <2>2, <2>3, <2>4, <1>1
  <2>6. x6 # <<>> /\ Len(sts) = 1 => Len(x6') > 1 /\ x6'[Len(x6') - 1] = x6[Len(x6)]
    BY <2>2, <2>3, <2>4, <1>1, SMTT(30)
  <2>7. Cluster!Final(sts) \in Cluster!Terminal => Cluster!Settles(x6')
    BY <2>4, <2>5, <2>2, <2>3, LastOnesSettle DEF Cluster!Final
  <2>8. (x6 # <<>> /\ Cluster!Final(x6) \in Cluster!Terminal /\ Len(sts) = 1 /\ sts[1] # "running")
          => Cluster!Settles(x6')
    <3>1. SUFFICES ASSUME x6 # <<>>, x6[Len(x6)] \in Cluster!Terminal, Len(sts) = 1, sts[1] # "running"
                   PROVE  Cluster!Settles(x6')
      BY DEF Cluster!Final
    <3>2. Len(x6') > 1 /\ x6'[Len(x6') - 1] \in Cluster!Terminal /\ x6'[Len(x6')] # "running"
      BY <2>5, <2>6, <3>1
    <3> QED
      BY <2>4, <3>2, LastOnesSettle
  <2> QED
    BY <1>3, <2>1, <2>4, <2>5, <2>7, <2>8 DEF Cluster!Final
<1> QED
  BY <1>2, <1>3

-----------------------------------------------------------------------------
(* Steps that leave a part of the invariant alone. *)

LEMMA SessionInvKept ==
    ASSUME NEW t \in Cluster!Sessions, Cluster!FirstHeard(t), Cluster!LastWord(t),
           x3'[t] = x3[t], x4'[t] = x4[t], x1'.want = x1.want, x1'.last = x1.last,
           x5.cur = t \/ x5'.cur = t => x5' = x5
    PROVE  Cluster!FirstHeard(t)' /\ Cluster!LastWord(t)'
BY DEF Cluster!FirstHeard, Cluster!LastWord, Cluster!Final

(* When one session moves, and the agent with at most that one, the others   *)
(* are as they were.                                                         *)
LEMMA OthersStay ==
    ASSUME Cluster!WelcomeComesFirst, Cluster!LastWordIsTheWish, NEW s \in Cluster!Sessions,
           Cluster!FirstHeard(s)', Cluster!LastWord(s)',
           \A t \in Cluster!Sessions \ {s} : x3'[t] = x3[t] /\ x4'[t] = x4[t],
           x1'.want = x1.want, x1'.last = x1.last,
           x5'.welcomed => x5'.known,
           x5' = x5 \/ (x5.cur \in {0, s} /\ x5'.cur \in {0, s})
    PROVE  Cluster!WelcomeComesFirst' /\ Cluster!LastWordIsTheWish'
<1>1. SUFFICES ASSUME NEW t \in Cluster!Sessions PROVE Cluster!FirstHeard(t)' /\ Cluster!LastWord(t)'
  BY DEF Cluster!WelcomeComesFirst, Cluster!LastWordIsTheWish
<1>2. CASE t = s
  BY <1>2
<1>3. CASE t # s
  <2>1. Cluster!FirstHeard(t) /\ Cluster!LastWord(t) /\ t # 0
    BY DEF Cluster!WelcomeComesFirst, Cluster!LastWordIsTheWish, Cluster!Sessions
  <2>2. x5.cur = t \/ x5'.cur = t => x5' = x5
    BY <1>3, <2>1
  <2> QED
    BY <1>3, <2>1, <2>2, SessionInvKept
<1> QED
  BY <1>2, <1>3

(* Who sends what to whom is of no moment to the end of the server, while    *)
(* the statuses on their way stay.                                           *)
LEMMA EndStaysOnItsWay ==
    ASSUME Cluster!Formed, Cluster!EndIsOnItsWay, UNCHANGED <<x5, x6, x7, x8>>,
           x1'.status = "running" => x1.status = "running",
           ~x12' => ~x12 /\ \A t \in Cluster!Sessions : x4'[t].up = x4[t].up
    PROVE  Cluster!EndIsOnItsWay'
<1>1. x5.cur # 0 => x5.cur \in Cluster!Sessions
  BY DEF Cluster!Formed, Cluster!Agent, Cluster!Sessions
<1>2. /\ x5.cur = 0 => x6 = <<>> /\ ~x5.busy
      /\ x5.busy /\ x7 = "off" => x6 # <<>> /\ Cluster!Final(x6) \in Cluster!Terminal
  BY DEF Cluster!EndIsOnItsWay, Cluster!NoSession
<1>3. ASSUME x7 = "off", ~x12', \A t \in Cluster!Sessions \ {x5.cur} : x4'[t].up = <<>>
      PROVE  Cluster!Then(Cluster!OnTheWay, x6)'
  <2>1. Cluster!Then(Cluster!OnTheWay, x6)
    BY <1>3 DEF Cluster!EndIsOnItsWay
  <2>2. Cluster!OnThePlane => Cluster!OnThePlane'
    BY DEF Cluster!OnThePlane, Cluster!Then, Cluster!Settles, Cluster!Quiet
  <2>3. Cluster!OnTheWay => Cluster!OnTheWay'
    BY <1>1, <1>3, <2>2 DEF Cluster!OnTheWay, Cluster!Then, Cluster!Settles, Cluster!Quiet, Cluster!NoSession
  <2> QED
    BY <2>1, <2>3 DEF Cluster!Then, Cluster!Settles, Cluster!Quiet
<1> QED
  BY <1>2, <1>3 DEF Cluster!EndIsOnItsWay, Cluster!Final, Cluster!NoSession

-----------------------------------------------------------------------------
(* The operations on the record keep the invariant. *)

LEMMA RecordingKeeps ==
    ASSUME Cluster!NodeInv, NEW a \in Cluster!Actors, Recording(a)
    PROVE  Cluster!NodeInv'
<1>1. /\ Cluster!Formed /\ Cluster!SenderIsHeard /\ Cluster!TellsTheRecord
      /\ Cluster!WelcomeComesFirst /\ Cluster!LastWordIsTheWish /\ Cluster!EndIsOnItsWay
  BY DEF Cluster!NodeInv
<1>2. /\ x1' \in [want : BOOLEAN, status : Cluster!Statuses, last : 0..MaxOps]
      /\ x10' = x1'.last /\ x1'.last = x1.last + 1
      /\ x1'.status = "running" => x1.status = "running"
      /\ x9' \in [Cluster!Actors -> Cluster!Task]
      /\ \A b \in Cluster!Actors \ {a} : x9'[b] = x9[b]
      /\ x9'[a].at = "send" => /\ x9'[a].msg \in Cluster!Orders
                               /\ x9'[a].op = x1'.last
                               /\ x9'[a].msg.want = x1'.want
      /\ UNCHANGED <<x2, x3, x4, x5, x6, x7, x8, x12>>
  BY <1>1, RecordingDoes
<1>3. x1.last \in Nat
  BY <1>1 DEF Cluster!Formed
<1>4. Cluster!Formed'
  BY <1>1, <1>2 DEF Cluster!Formed
<1>5. Cluster!SenderIsHeard'
  BY <1>1, <1>2 DEF Cluster!SenderIsHeard
<1>6. Cluster!TellsTheRecord'
  <2>1. \A b \in Cluster!Actors : x9'[b].op \in Nat
    BY <1>2 DEF Cluster!Task
  <2>2. SUFFICES ASSUME NEW b \in Cluster!Actors, x9'[b].at = "send"
                 PROVE  /\ x9'[b].msg \in Cluster!Orders /\ x9'[b].op <= x1'.last
                        /\ x9'[b].op = x1'.last => x9'[b].msg.want = x1'.want
    BY DEF Cluster!TellsTheRecord
  <2>3. CASE b = a
    BY <1>2, <1>3, <2>2, <2>3
  <2>4. CASE b # a
    <3>1. x9[b].msg \in Cluster!Orders /\ x9[b].op <= x1.last /\ x9'[b] = x9[b]
      BY <1>1, <1>2, <2>2, <2>4 DEF Cluster!TellsTheRecord
    <3> QED
      BY <1>2, <1>3, <2>1, <3>1
  <2> QED
    BY <2>3, <2>4
<1>7. Cluster!WelcomeComesFirst'
  BY <1>1, <1>2 DEF Cluster!WelcomeComesFirst, Cluster!FirstHeard
<1>8. Cluster!LastWordIsTheWish'
  <2>1. SUFFICES ASSUME NEW s \in Cluster!Sessions PROVE Cluster!LastWord(s)'
    BY DEF Cluster!LastWordIsTheWish
  <2>2. x3[s].top <= x1.last /\ x3[s].top \in Nat
    BY <1>1 DEF Cluster!LastWordIsTheWish, Cluster!LastWord, Cluster!Formed, Cluster!Session
  <2>3. x3'[s].top <= x1'.last /\ x3'[s].top # x1'.last
    BY <1>2, <1>3, <2>2
  <2> QED
    BY <2>3 DEF Cluster!LastWord
<1>9. Cluster!EndIsOnItsWay'
  BY <1>1, <1>2, EndStaysOnItsWay
<1> QED
  BY <1>4, <1>5, <1>6, <1>7, <1>8, <1>9 DEF Cluster!NodeInv

LEMMA RereadKeeps ==
    ASSUME Cluster!NodeInv, NEW a \in Cluster!Actors, Cluster!Reread(a)
    PROVE  Cluster!NodeInv'
<1>1. /\ Cluster!Formed /\ Cluster!SenderIsHeard /\ Cluster!TellsTheRecord
      /\ Cluster!WelcomeComesFirst /\ Cluster!LastWordIsTheWish /\ Cluster!EndIsOnItsWay
  BY DEF Cluster!NodeInv
<1>2. /\ x9' \in [Cluster!Actors -> Cluster!Task]
      /\ \A b \in Cluster!Actors \ {a} : x9'[b] = x9[b]
      /\ x9'[a].msg \in Cluster!Orders /\ x9'[a].op = x1.last /\ x9'[a].msg.want = x1.want
      /\ UNCHANGED <<x1, x2, x3, x4, x5, x6, x7, x8, x10, x12>>
  BY <1>1, RereadDoes
<1>3. Cluster!Formed' /\ Cluster!SenderIsHeard'
  BY <1>1, <1>2 DEF Cluster!Formed, Cluster!SenderIsHeard
<1>4. Cluster!TellsTheRecord'
  <2>1. x1.last \in Nat
    BY <1>1 DEF Cluster!Formed
  <2>2. SUFFICES ASSUME NEW b \in Cluster!Actors, x9'[b].at = "send"
                 PROVE  /\ x9'[b].msg \in Cluster!Orders /\ x9'[b].op <= x1'.last
                        /\ x9'[b].op = x1'.last => x9'[b].msg.want = x1'.want
    BY DEF Cluster!TellsTheRecord
  <2>3. CASE b = a
    BY <1>2, <2>1, <2>3
  <2>4. CASE b # a
    BY <1>1, <1>2, <2>2, <2>4 DEF Cluster!TellsTheRecord
  <2> QED
    BY <2>3, <2>4
<1>5. Cluster!WelcomeComesFirst' /\ Cluster!LastWordIsTheWish'
  BY <1>1, <1>2, SessionInvKept DEF Cluster!WelcomeComesFirst, Cluster!LastWordIsTheWish
<1>6. Cluster!EndIsOnItsWay'
  BY <1>1, <1>2, EndStaysOnItsWay
<1> QED
  BY <1>3, <1>4, <1>5, <1>6 DEF Cluster!NodeInv

LEMMA SendDownKeeps ==
    ASSUME Cluster!NodeInv, NEW a \in Cluster!Actors, Cluster!SendDown(a)
    PROVE  Cluster!NodeInv'
<1>1. /\ Cluster!Formed /\ Cluster!SenderIsHeard /\ Cluster!TellsTheRecord
      /\ Cluster!WelcomeComesFirst /\ Cluster!LastWordIsTheWish /\ Cluster!EndIsOnItsWay
  BY DEF Cluster!NodeInv
<1>2. /\ x9[a].msg \in Cluster!Orders /\ x9[a].op <= x1.last
      /\ x9[a].op = x1.last => x9[a].msg.want = x1.want
  BY <1>1 DEF Cluster!SendDown, Cluster!TellsTheRecord
<1>3. /\ x9' \in [Cluster!Actors -> Cluster!Task]
      /\ x9'[a].at = "idle" /\ \A b \in Cluster!Actors \ {a} : x9'[b] = x9[b]
      /\ x3' \in [Cluster!Sessions -> Cluster!Session]
      /\ \A t \in Cluster!Sessions \ {x2} : x3'[t] = x3[t]
      /\ x2 \in Cluster!Sessions =>
           /\ x3'[x2].phase = x3[x2].phase /\ x3'[x2].snap = x3[x2].snap
           /\ x3'[x2].queue = Append(x3[x2].queue, x9[a].msg)
           /\ x3'[x2].mixed = (x3[x2].mixed \/ x9[a].op < x3[x2].top)
           /\ x3'[x2].top = IF x9[a].op > x3[x2].top THEN x9[a].op ELSE x3[x2].top
      /\ UNCHANGED <<x1, x2, x4, x5, x6, x7, x8, x10, x12>>
  BY <1>1, <1>2, SendDownDoes
<1>4. x2 \in Cluster!Sessions \/ x2 = 0
  BY <1>1 DEF Cluster!Formed, Cluster!Sessions
<1>5. Cluster!Formed'
  BY <1>1, <1>3 DEF Cluster!Formed
<1>6. Cluster!SenderIsHeard'
  BY <1>1, <1>3, <1>4 DEF Cluster!SenderIsHeard, Cluster!NoSession
<1>7. Cluster!TellsTheRecord'
  <2>1. SUFFICES ASSUME NEW b \in Cluster!Actors, x9'[b].at = "send"
                 PROVE  /\ x9'[b].msg \in Cluster!Orders /\ x9'[b].op <= x1'.last
                        /\ x9'[b].op = x1'.last => x9'[b].msg.want = x1'.want
    BY DEF Cluster!TellsTheRecord
  <2>2. b # a
    BY <1>3, <2>1
  <2> QED
    BY <1>1, <1>3, <2>1, <2>2 DEF Cluster!TellsTheRecord
<1>8. Cluster!WelcomeComesFirst' /\ Cluster!LastWordIsTheWish'
  <2>1. CASE x2 = 0
    <3>1. \A t \in Cluster!Sessions : t # x2
      BY <2>1 DEF Cluster!Sessions
    <3> QED
      BY <1>1, <1>3, <3>1, SessionInvKept DEF Cluster!WelcomeComesFirst, Cluster!LastWordIsTheWish
  <2>2. CASE x2 \in Cluster!Sessions
    <3>1. /\ Cluster!FirstHeard(x2) /\ Cluster!LastWord(x2) /\ x2 # 0
          /\ x3[x2].phase \in {"inserted", "snapped", "loop"}
      BY <1>1, <2>2 DEF Cluster!WelcomeComesFirst, Cluster!LastWordIsTheWish, Cluster!SenderIsHeard,
                        Cluster!Sessions, Cluster!NoSession
    <3>2. /\ x3[x2] \in Cluster!Session /\ x9[a] \in Cluster!Task /\ x1.last \in Nat
          /\ x3[x2].top \in Nat /\ x9[a].op \in Nat /\ x3[x2].queue \in Seq(Cluster!Orders)
      BY <1>1, <2>2 DEF Cluster!Formed, Cluster!Session, Cluster!Task
    <3>3. x3'[x2].queue # <<>> /\ Cluster!Final(x3'[x2].queue) = x9[a].msg
      <4>1. /\ Append(x3[x2].queue, x9[a].msg) # <<>>
            /\ Append(x3[x2].queue, x9[a].msg)[Len(Append(x3[x2].queue, x9[a].msg))] = x9[a].msg
        BY <1>2, <3>2, SMTT(30)
      <4> QED
        BY <1>3, <2>2, <4>1 DEF Cluster!Final
    <3>4. Cluster!FirstHeard(x2)'
      BY <1>3, <2>2, <3>1 DEF Cluster!FirstHeard
    <3>5. x3[x2].top <= x1.last
      BY <3>1 DEF Cluster!LastWord
    <3>6. x3'[x2].top <= x1.last
      BY <1>2, <1>3, <2>2, <3>2, <3>5
    <3>7. ASSUME x3'[x2].top = x1.last, ~x3'[x2].mixed PROVE x9[a].op = x1.last
      <4>1. x3'[x2].mixed = (x3[x2].mixed \/ x9[a].op < x3[x2].top)
        BY <1>3, <2>2
      <4>2. ~(x9[a].op < x3[x2].top)
        BY <3>7, <4>1, Zenon
      <4>3. x3'[x2].top = IF x9[a].op > x3[x2].top THEN x9[a].op ELSE x3[x2].top
        BY <1>3, <2>2
      <4> QED
        BY <3>2, <3>7, <4>2, <4>3
    <3>8. Cluster!LastWord(x2)'
      BY <1>2, <1>3, <2>2, <3>3, <3>6, <3>7 DEF Cluster!LastWord
    <3>9. PICK s \in Cluster!Sessions : s = x2
      BY <2>2
    <3>10. Cluster!FirstHeard(s)' /\ Cluster!LastWord(s)'
      BY <1>3, <3>4, <3>8, <3>9 DEF Cluster!FirstHeard, Cluster!LastWord, Cluster!Final
    <3> QED
      BY <1>1, <1>3, <3>9, <3>10, OthersStay DEF Cluster!WelcomeComesFirst
  <2> QED
    BY <1>4, <2>1, <2>2
<1>9. Cluster!EndIsOnItsWay'
  BY <1>1, <1>3, EndStaysOnItsWay
<1> QED
  BY <1>5, <1>6, <1>7, <1>8, <1>9 DEF Cluster!NodeInv

LEMMA ApplyEventKeeps ==
    ASSUME Cluster!NodeInv, Cluster!ApplyEvent
    PROVE  Cluster!NodeInv'
<1>1. /\ Cluster!Formed /\ Cluster!SenderIsHeard /\ Cluster!TellsTheRecord
      /\ Cluster!WelcomeComesFirst /\ Cluster!LastWordIsTheWish /\ Cluster!EndIsOnItsWay
  BY DEF Cluster!NodeInv
<1>2. /\ x1' \in [want : BOOLEAN, status : Cluster!Statuses, last : 0..MaxOps]
      /\ x1'.want = x1.want /\ x1'.last = x1.last
      /\ x1'.status \in {x1.status, Head(x8)}
      /\ Head(x8) \in Cluster!Terminal => x1'.status = Head(x8)
      /\ x8 # <<>> /\ x8' = Tail(x8)
      /\ x9' \in [Cluster!Actors -> Cluster!Task]
      /\ \A b \in Cluster!Actors : x9'[b].at = "send" => x9'[b] = x9[b]
      /\ UNCHANGED <<x2, x3, x4, x5, x6, x7, x10, x12>>
  BY <1>1, ApplyEventDoes
<1>3. x8 \in Seq(Cluster!Statuses) /\ x8' \in Seq(Cluster!Statuses)
  BY <1>1, <1>2 DEF Cluster!Formed
<1>4. Cluster!Formed' /\ Cluster!SenderIsHeard'
  BY <1>1, <1>2, <1>3 DEF Cluster!Formed, Cluster!SenderIsHeard
<1>5. Cluster!TellsTheRecord'
  BY <1>1, <1>2 DEF Cluster!TellsTheRecord
<1>6. Cluster!WelcomeComesFirst' /\ Cluster!LastWordIsTheWish'
  BY <1>1, <1>2, SessionInvKept DEF Cluster!WelcomeComesFirst, Cluster!LastWordIsTheWish
<1>7. Cluster!OnThePlane => Cluster!OnThePlane'
  <2>1. /\ Cluster!Settles(x8) =>
              Cluster!Settles(Tail(x8)) \/ (Head(x8) \in Cluster!Terminal /\ Cluster!Quiet(Tail(x8)))
        /\ Cluster!Quiet(x8) => Head(x8) # "running" /\ Cluster!Quiet(Tail(x8))
    BY <1>2, <1>3, HeadIsTaken
  <2>2. Head(x8) \in Cluster!Terminal => Head(x8) # "running"
    BY DEF Cluster!Terminal
  <2>3. SUFFICES ASSUME Cluster!Settles(x8) \/ (Cluster!Quiet(x8) /\ x1.status # "running")
                 PROVE  Cluster!Settles(Tail(x8)) \/ (Cluster!Quiet(Tail(x8)) /\ x1'.status # "running")
    BY <1>2 DEF Cluster!OnThePlane, Cluster!Then, Cluster!Settles, Cluster!Quiet
  <2> QED
    BY <1>2, <2>1, <2>2, <2>3
<1>8. Cluster!EndIsOnItsWay'
  <2>1. Cluster!OnTheWay => Cluster!OnTheWay'
    BY <1>2, <1>7 DEF Cluster!OnTheWay, Cluster!Then, Cluster!Settles, Cluster!Quiet
  <2>2. Cluster!Then(Cluster!OnTheWay, x6) => Cluster!Then(Cluster!OnTheWay, x6)'
    BY <1>2, <2>1 DEF Cluster!Then, Cluster!Settles, Cluster!Quiet
  <2> QED
    BY <1>1, <1>2, <2>2 DEF Cluster!EndIsOnItsWay, Cluster!Final
<1> QED
  BY <1>4, <1>5, <1>6, <1>8 DEF Cluster!NodeInv

-----------------------------------------------------------------------------
(* The steps of a session on the plane keep the invariant. *)

(* It is enough to look at the session that moves. *)
LEMMA SessionStepKeeps ==
    ASSUME Cluster!NodeInv, NEW s \in Cluster!Sessions,
           x3' \in [Cluster!Sessions -> Cluster!Session],
           x4' \in [Cluster!Sessions -> Cluster!Wire],
           \A t \in Cluster!Sessions \ {s} : x3'[t] = x3[t] /\ x4'[t] = x4[t],
           UNCHANGED <<x1, x5, x6, x7, x8, x9, x10>>,
           x2' \in 0..MaxSessions, Cluster!SenderIsHeard',
           x12' \in BOOLEAN, ~x12' => ~x12 /\ x4'[s].up = x4[s].up,
           Cluster!FirstHeard(s)', Cluster!LastWord(s)'
    PROVE  Cluster!NodeInv'
<1>1. /\ Cluster!Formed /\ Cluster!SenderIsHeard /\ Cluster!TellsTheRecord
      /\ Cluster!WelcomeComesFirst /\ Cluster!LastWordIsTheWish /\ Cluster!EndIsOnItsWay
  BY DEF Cluster!NodeInv
<1>2. Cluster!Formed'
  BY <1>1 DEF Cluster!Formed
<1>3. Cluster!TellsTheRecord'
  BY <1>1 DEF Cluster!TellsTheRecord
<1>4. Cluster!WelcomeComesFirst' /\ Cluster!LastWordIsTheWish'
  BY <1>1, OthersStay DEF Cluster!WelcomeComesFirst
<1>5. Cluster!EndIsOnItsWay'
  <2>1. ~x12' => ~x12 /\ \A t \in Cluster!Sessions : x4'[t].up = x4[t].up
    OBVIOUS
  <2> QED
    BY <1>1, <2>1, EndStaysOnItsWay
<1> QED
  BY <1>2, <1>3, <1>4, <1>5 DEF Cluster!NodeInv

LEMMA InsertSenderKeeps ==
    ASSUME Cluster!NodeInv, NEW s \in Cluster!Sessions, Cluster!InsertSender(s)
    PROVE  Cluster!NodeInv'
<1>1. /\ Cluster!Formed /\ Cluster!FirstHeard(s) /\ Cluster!LastWord(s)
      /\ x3[s] \in Cluster!Session /\ s # 0 /\ s \in 0..MaxSessions
  BY DEF Cluster!NodeInv, Cluster!WelcomeComesFirst, Cluster!LastWordIsTheWish, Cluster!Formed,
         Cluster!Sessions
<1>2. /\ x3[s].phase = "upgraded" /\ x2' = s /\ x3' = [x3 EXCEPT ![s].phase = "inserted"]
      /\ UNCHANGED <<x1, x4, x5, x6, x7, x8, x9, x10, x12>>
  BY DEF Cluster!InsertSender, Cluster!SessionVars
<1> DEFINE r == [phase |-> "inserted", queue |-> x3[s].queue, snap |-> x3[s].snap,
                 top |-> x3[s].top, mixed |-> x3[s].mixed]
<1>3. r \in Cluster!Session
  BY <1>1 DEF Cluster!Session
<1>4. r.phase = "inserted" /\ r.queue = x3[s].queue /\ r.top = x3[s].top
  OBVIOUS
<1>5. x3' = [x3 EXCEPT ![s] = r]
  BY <1>1, <1>2, SessionPhase
<1> HIDE DEF r
<1>6. /\ x3' \in [Cluster!Sessions -> Cluster!Session] /\ x3'[s] = r
      /\ \A t \in Cluster!Sessions \ {s} : x3'[t] = x3[t]
  BY <1>1, <1>3, <1>5, SessionMoves
<1>7. Cluster!FirstHeard(s)' /\ Cluster!LastWord(s)'
  BY <1>1, <1>2, <1>4, <1>6 DEF Cluster!FirstHeard, Cluster!LastWord
<1>8. Cluster!SenderIsHeard'
  BY <1>2, <1>4, <1>6 DEF Cluster!SenderIsHeard
<1> QED
  BY <1>1, <1>2, <1>6, <1>7, <1>8, SessionStepKeeps DEF Cluster!Formed

LEMMA SnapshotKeeps ==
    ASSUME Cluster!NodeInv, NEW s \in Cluster!Sessions, Cluster!Snapshot(s)
    PROVE  Cluster!NodeInv'
<1>1. /\ Cluster!Formed /\ Cluster!FirstHeard(s) /\ Cluster!LastWord(s) /\ Cluster!SenderIsHeard
      /\ x3[s] \in Cluster!Session
  BY DEF Cluster!NodeInv, Cluster!WelcomeComesFirst, Cluster!LastWordIsTheWish, Cluster!Formed
<1> DEFINE n == IF x3[s].queue = <<>> THEN x1.last ELSE x3[s].top
           r == [phase |-> "snapped", queue |-> x3[s].queue, snap |-> x1.want,
                 top |-> n, mixed |-> x3[s].mixed]
<1>2. /\ x3[s].phase = "inserted"
      /\ x3' = [x3 EXCEPT ![s] = [x3[s] EXCEPT !.phase = "snapped", !.snap = x1.want, !.top = n]]
      /\ UNCHANGED <<x1, x2, x4, x5, x6, x7, x8, x9, x10, x12>>
  BY DEF Cluster!Snapshot, Cluster!SessionVars
<1>3. n \in 0..MaxOps /\ x1.want \in BOOLEAN /\ x1.last \in Nat
  BY <1>1 DEF Cluster!Formed, Cluster!Session
<1>4. r \in Cluster!Session
  BY <1>1, <1>3 DEF Cluster!Session
<1>5. /\ r.phase = "snapped" /\ r.queue = x3[s].queue /\ r.snap = x1.want
      /\ r.top = n /\ r.mixed = x3[s].mixed
  OBVIOUS
<1>6. x3' = [x3 EXCEPT ![s] = r]
  <2>1. x3[s] = [phase |-> x3[s].phase, queue |-> x3[s].queue, snap |-> x3[s].snap,
                 top |-> x3[s].top, mixed |-> x3[s].mixed]
    BY <1>1 DEF Cluster!Session
  <2> HIDE DEF n
  <2>2. [x3[s] EXCEPT !.phase = "snapped", !.snap = x1.want, !.top = n] = r
    <3>1. [x3[s] EXCEPT !.phase = "snapped", !.snap = x1.want, !.top = n]
            = [f \in {"phase", "queue", "snap", "top", "mixed"} |->
                 IF f = "top" THEN n ELSE IF f = "snap" THEN x1.want
                 ELSE IF f = "phase" THEN "snapped" ELSE x3[s][f]]
      BY <2>1
    <3> QED
      BY <3>1
  <2> QED
    BY <1>2, <2>2
<1> HIDE DEF r
<1>7. /\ x3' \in [Cluster!Sessions -> Cluster!Session] /\ x3'[s] = r
      /\ \A t \in Cluster!Sessions \ {s} : x3'[t] = x3[t]
  BY <1>1, <1>4, <1>6, SessionMoves
<1>8. Cluster!FirstHeard(s)' /\ Cluster!LastWord(s)'
  BY <1>1, <1>2, <1>3, <1>5, <1>7 DEF Cluster!FirstHeard, Cluster!LastWord, Cluster!Final
<1>9. Cluster!SenderIsHeard'
  BY <1>1, <1>2, <1>5, <1>7 DEF Cluster!SenderIsHeard, Cluster!NoSession, Cluster!Formed, Cluster!Sessions
<1> QED
  BY <1>1, <1>2, <1>7, <1>8, <1>9, SessionStepKeeps DEF Cluster!Formed

LEMMA BreakKeeps ==
    ASSUME Cluster!NodeInv, NEW s \in Cluster!Sessions, Cluster!Break(s)
    PROVE  Cluster!NodeInv'
<1>1. /\ Cluster!Formed /\ Cluster!FirstHeard(s) /\ Cluster!LastWord(s) /\ Cluster!SenderIsHeard
      /\ x4[s] \in Cluster!Wire
  BY DEF Cluster!NodeInv, Cluster!WelcomeComesFirst, Cluster!LastWordIsTheWish, Cluster!Formed
<1> DEFINE r == [down |-> x4[s].down, up |-> x4[s].up, open |-> FALSE]
<1>2. /\ x4' = [x4 EXCEPT ![s].open = FALSE]
      /\ UNCHANGED <<x1, x2, x3, x5, x6, x7, x8, x9, x10, x12>>
  BY DEF Cluster!Break, Cluster!SessionVars
<1>3. r \in Cluster!Wire /\ r.down = x4[s].down /\ r.up = x4[s].up /\ ~r.open
  BY <1>1 DEF Cluster!Wire
<1>4. x4' = [x4 EXCEPT ![s] = r]
  BY <1>1, <1>2, WireChanged
<1> HIDE DEF r
<1>5. /\ x4' \in [Cluster!Sessions -> Cluster!Wire] /\ x4'[s] = r
      /\ \A t \in Cluster!Sessions \ {s} : x4'[t] = x4[t]
  BY <1>1, <1>3, <1>4, WireMoves
<1>6. Cluster!FirstHeard(s)' /\ Cluster!LastWord(s)'
  BY <1>1, <1>2, <1>3, <1>5 DEF Cluster!FirstHeard, Cluster!LastWord, Cluster!Final
<1>7. Cluster!SenderIsHeard'
  BY <1>1, <1>2 DEF Cluster!SenderIsHeard
<1> QED
  BY <1>1, <1>2, <1>3, <1>5, <1>6, <1>7, SessionStepKeeps DEF Cluster!Formed

(* The end of a session takes the sender and what came from the agent.        *)
LEMMA ClosedKeeps ==
    ASSUME Cluster!NodeInv, NEW s \in Cluster!Sessions, Cluster!Closed(s), ~x4[s].open,
           UNCHANGED <<x1, x5, x6, x7, x8, x9, x10>>, x3[s].phase # "none"
    PROVE  Cluster!NodeInv'
<1>1. /\ Cluster!Formed /\ Cluster!FirstHeard(s) /\ Cluster!LastWord(s)
      /\ x3[s] \in Cluster!Session /\ x4[s] \in Cluster!Wire /\ x12 \in BOOLEAN
      /\ 0 \in 0..MaxSessions
  BY ClusterBounds DEF Cluster!NodeInv, Cluster!WelcomeComesFirst, Cluster!LastWordIsTheWish, Cluster!Formed
<1> DEFINE r == [phase |-> "over", queue |-> <<>>, snap |-> x3[s].snap,
                 top |-> x3[s].top, mixed |-> x3[s].mixed]
           w == [down |-> x4[s].down, up |-> <<>>, open |-> FALSE]
<1>2. /\ x3' = [x3 EXCEPT ![s] = [x3[s] EXCEPT !.phase = "over", !.queue = <<>>]]
      /\ x4' = [x4 EXCEPT ![s] = [x4[s] EXCEPT !.open = FALSE, !.up = <<>>]]
      /\ x2' = 0
  BY DEF Cluster!Closed, Cluster!NoSession
<1>3. r \in Cluster!Session /\ r.phase = "over" /\ r.queue = <<>> /\ r.top = x3[s].top
  BY <1>1 DEF Cluster!Session
<1>4. w \in Cluster!Wire /\ w.down = x4[s].down /\ w.up = <<>> /\ ~w.open
  BY <1>1 DEF Cluster!Wire
<1>5. x3' = [x3 EXCEPT ![s] = r] /\ x4' = [x4 EXCEPT ![s] = w]
  <2>1. /\ x3[s] = [phase |-> x3[s].phase, queue |-> x3[s].queue, snap |-> x3[s].snap,
                    top |-> x3[s].top, mixed |-> x3[s].mixed]
        /\ x4[s] = [down |-> x4[s].down, up |-> x4[s].up, open |-> x4[s].open]
    BY <1>1 DEF Cluster!Session, Cluster!Wire
  <2>2. [x3[s] EXCEPT !.phase = "over", !.queue = <<>>] = r
    <3>1. [x3[s] EXCEPT !.phase = "over", !.queue = <<>>]
            = [f \in {"phase", "queue", "snap", "top", "mixed"} |->
                 IF f = "queue" THEN <<>> ELSE IF f = "phase" THEN "over" ELSE x3[s][f]]
      BY <2>1
    <3> QED
      BY <3>1
  <2>3. \A o : [x4[s] EXCEPT !.open = o, !.up = <<>>]
                 = [down |-> x4[s].down, up |-> <<>>, open |-> o]
    <3> SUFFICES ASSUME NEW o
                 PROVE  [x4[s] EXCEPT !.open = o, !.up = <<>>]
                          = [down |-> x4[s].down, up |-> <<>>, open |-> o]
      OBVIOUS
    <3>1. [x4[s] EXCEPT !.open = o, !.up = <<>>]
            = [f \in {"down", "up", "open"} |->
                 IF f = "up" THEN <<>> ELSE IF f = "open" THEN o ELSE x4[s][f]]
      BY <2>1
    <3> QED
      BY <3>1
  <2>4. [x4[s] EXCEPT !.open = FALSE, !.up = <<>>] = w
    BY <2>3, Zenon
  <2> QED
    BY <1>2, <2>2, <2>4
<1> HIDE DEF r, w
<1>6. /\ x3' \in [Cluster!Sessions -> Cluster!Session] /\ x3'[s] = r
      /\ \A t \in Cluster!Sessions \ {s} : x3'[t] = x3[t]
  BY <1>1, <1>3, <1>5, SessionMoves
<1>7. /\ x4' \in [Cluster!Sessions -> Cluster!Wire] /\ x4'[s] = w
      /\ \A t \in Cluster!Sessions \ {s} : x4'[t] = x4[t]
  BY <1>1, <1>4, <1>5, WireMoves
<1>8. x12' \in BOOLEAN /\ (~x12' => ~x12 /\ x4'[s].up = x4[s].up)
  <2>1. x12' = (x12 \/ x4[s].up # <<>>)
    BY DEF Cluster!Closed
  <2>2. ~x12' => ~x12 /\ x4[s].up = <<>>
    BY <2>1, Zenon
  <2>3. x12' \in BOOLEAN
    BY <2>1, Zenon
  <2> QED
    BY <1>4, <1>7, <2>2, <2>3
<1>9. Cluster!FirstHeard(s)' /\ Cluster!LastWord(s)'
  BY <1>1, <1>3, <1>4, <1>6, <1>7 DEF Cluster!FirstHeard, Cluster!LastWord
<1>10. Cluster!SenderIsHeard'
  BY <1>2 DEF Cluster!SenderIsHeard, Cluster!NoSession
<1> QED
  BY <1>1, <1>2, <1>6, <1>7, <1>8, <1>9, <1>10, SessionStepKeeps

(* What is sent goes to the end of what is on its way, or nowhere.           *)
LEMMA SentDoes ==
    ASSUME Cluster!Formed, NEW s \in Cluster!Sessions,
           NEW msg \in Cluster!Orders \cup Cluster!Welcomes, Cluster!Sent(s, msg)
    PROVE  /\ x4' \in [Cluster!Sessions -> Cluster!Wire]
           /\ \A t \in Cluster!Sessions \ {s} : x4'[t] = x4[t]
           /\ x4'[s].up = x4[s].up /\ x4'[s].open = x4[s].open
           /\ x4[s].open => x4'[s].down = Append(x4[s].down, msg)
           /\ ~x4[s].open => x4'[s].down = x4[s].down
<1>1. x4[s] \in Cluster!Wire
  BY DEF Cluster!Formed
<1>2. PICK d : /\ x4' = [x4 EXCEPT ![s].down = d]
               /\ d = IF x4[s].open THEN Append(x4[s].down, msg) ELSE x4[s].down
  BY DEF Cluster!Sent
<1> DEFINE r == [down |-> d, up |-> x4[s].up, open |-> x4[s].open]
<1>3. r \in Cluster!Wire /\ r.down = d /\ r.up = x4[s].up /\ r.open = x4[s].open
  <2>1. d \in Seq(Cluster!Orders \cup Cluster!Welcomes)
    BY <1>1, <1>2 DEF Cluster!Wire
  <2> QED
    BY <1>1, <2>1 DEF Cluster!Wire
<1>4. x4' = [x4 EXCEPT ![s] = r]
  BY <1>1, <1>2, WireChanged
<1> HIDE DEF r
<1>5. /\ x4' \in [Cluster!Sessions -> Cluster!Wire] /\ x4'[s] = r
      /\ \A t \in Cluster!Sessions \ {s} : x4'[t] = x4[t]
  BY <1>3, <1>4, WireMoves
<1> QED
  BY <1>2, <1>3, <1>5

LEMMA EndSessionKeeps ==
    ASSUME Cluster!NodeInv, NEW s \in Cluster!Sessions, Cluster!EndSession(s)
    PROVE  Cluster!NodeInv'
BY ClosedKeeps DEF Cluster!EndSession, Cluster!SessionVars

LEMMA WelcomeKeeps ==
    ASSUME Cluster!NodeInv, NEW s \in Cluster!Sessions, Cluster!Welcome(s)
    PROVE  Cluster!NodeInv'
<1>1. /\ Cluster!Formed /\ Cluster!FirstHeard(s) /\ Cluster!LastWord(s) /\ Cluster!SenderIsHeard
      /\ x3[s] \in Cluster!Session /\ x3[s].phase = "snapped"
  BY DEF Cluster!NodeInv, Cluster!WelcomeComesFirst, Cluster!LastWordIsTheWish, Cluster!Formed,
         Cluster!Welcome
<1>2. CASE ~x4[s].open /\ Cluster!Closed(s)
  BY <1>1, <1>2, ClosedKeeps DEF Cluster!Welcome, Cluster!SessionVars
<1>3. CASE /\ Cluster!Sent(s, [kind |-> "welcome", want |-> x3[s].snap])
           /\ x3' = [x3 EXCEPT ![s].phase = "loop"]
           /\ UNCHANGED <<x2, x12>>
  <2>1. PICK m \in Cluster!Welcomes : /\ m.kind = "welcome" /\ m.want = x3[s].snap
                                      /\ Cluster!Sent(s, m)
    BY <1>1, <1>3 DEF Cluster!Welcomes, Cluster!Msg, Cluster!Session
  <2>2. UNCHANGED <<x1, x2, x5, x6, x7, x8, x9, x10, x12>>
    BY <1>3 DEF Cluster!Welcome, Cluster!SessionVars
  <2>3. /\ x4' \in [Cluster!Sessions -> Cluster!Wire]
        /\ \A t \in Cluster!Sessions \ {s} : x4'[t] = x4[t]
        /\ x4'[s].up = x4[s].up /\ x4'[s].open = x4[s].open
        /\ x4[s].open => x4'[s].down = Append(x4[s].down, m)
        /\ ~x4[s].open => x4'[s].down = x4[s].down
    BY <1>1, <2>1, SentDoes
  <2> DEFINE r == [phase |-> "loop", queue |-> x3[s].queue, snap |-> x3[s].snap,
                   top |-> x3[s].top, mixed |-> x3[s].mixed]
  <2>4. /\ r \in Cluster!Session /\ r.phase = "loop" /\ r.queue = x3[s].queue
        /\ r.top = x3[s].top /\ r.mixed = x3[s].mixed
    BY <1>1 DEF Cluster!Session
  <2>5. x3' = [x3 EXCEPT ![s] = r]
    BY <1>1, <1>3, SessionPhase
  <2> HIDE DEF r
  <2>6. /\ x3' \in [Cluster!Sessions -> Cluster!Session] /\ x3'[s] = r
        /\ \A t \in Cluster!Sessions \ {s} : x3'[t] = x3[t]
    BY <1>1, <2>4, <2>5, SessionMoves
  <2>7. /\ x4[s].open => /\ x4'[s].down # <<>> /\ Head(x4'[s].down) = m
                         /\ x4'[s].down[Len(x4'[s].down)] = m
        /\ ~x4[s].open => x4'[s].down = <<>>
    <3>1. x4[s].down = <<>>
      BY <1>1 DEF Cluster!FirstHeard
    <3>2. /\ Append(<<>>, m) # <<>> /\ Head(Append(<<>>, m)) = m
          /\ Append(<<>>, m)[Len(Append(<<>>, m))] = m
      OBVIOUS
    <3> QED
      BY <2>3, <3>1, <3>2
  <2>8. Cluster!FirstHeard(s)'
    BY <1>1, <2>1, <2>2, <2>3, <2>4, <2>6, <2>7 DEF Cluster!FirstHeard
  <2>9. Cluster!LastWord(s)'
    BY <1>1, <2>1, <2>2, <2>3, <2>4, <2>6, <2>7 DEF Cluster!LastWord, Cluster!Final
  <2>10. Cluster!SenderIsHeard'
    BY <1>1, <2>2, <2>4, <2>6 DEF Cluster!SenderIsHeard, Cluster!NoSession, Cluster!Formed, Cluster!Sessions
  <2> QED
    BY <1>1, <2>2, <2>3, <2>6, <2>8, <2>9, <2>10, SessionStepKeeps DEF Cluster!Formed
<1> QED
  BY <1>2, <1>3 DEF Cluster!Welcome

LEMMA ForwardKeeps ==
    ASSUME Cluster!NodeInv, NEW s \in Cluster!Sessions, Cluster!Forward(s)
    PROVE  Cluster!NodeInv'
<1>1. /\ Cluster!Formed /\ Cluster!FirstHeard(s) /\ Cluster!LastWord(s) /\ Cluster!SenderIsHeard
      /\ x3[s] \in Cluster!Session /\ x4[s] \in Cluster!Wire
      /\ x3[s].phase = "loop" /\ x3[s].queue # <<>>
  BY DEF Cluster!NodeInv, Cluster!WelcomeComesFirst, Cluster!LastWordIsTheWish, Cluster!Formed,
         Cluster!Forward
<1>2. CASE ~x4[s].open /\ Cluster!Closed(s)
  BY <1>1, <1>2, ClosedKeeps DEF Cluster!Forward, Cluster!SessionVars
<1>3. CASE /\ Cluster!Sent(s, Head(x3[s].queue))
           /\ x3' = [x3 EXCEPT ![s].queue = Tail(@)]
           /\ UNCHANGED <<x2, x12>>
  <2>1. /\ x3[s].queue \in Seq(Cluster!Orders) /\ x4[s].down \in Seq(Cluster!Orders \cup Cluster!Welcomes)
    BY <1>1 DEF Cluster!Session, Cluster!Wire
  <2>2. PICK m \in Cluster!Orders, q \in Seq(Cluster!Orders) :
           m = Head(x3[s].queue) /\ q = Tail(x3[s].queue)
    <3>1. Head(x3[s].queue) \in Cluster!Orders /\ Tail(x3[s].queue) \in Seq(Cluster!Orders)
      BY <1>1, <2>1, TailHasTheEnd
    <3> QED
      BY <3>1
  <2>3. /\ q # <<>> => Cluster!Final(q) = Cluster!Final(x3[s].queue)
        /\ q = <<>> => Cluster!Final(x3[s].queue) = m
    BY <1>1, <2>1, <2>2, TailHasTheEnd
  <2>4. UNCHANGED <<x1, x2, x5, x6, x7, x8, x9, x10, x12>>
    BY <1>3 DEF Cluster!Forward, Cluster!SessionVars
  <2>5. /\ x4' \in [Cluster!Sessions -> Cluster!Wire]
        /\ \A t \in Cluster!Sessions \ {s} : x4'[t] = x4[t]
        /\ x4'[s].up = x4[s].up /\ x4'[s].open = x4[s].open
        /\ x4[s].open => x4'[s].down = Append(x4[s].down, m)
        /\ ~x4[s].open => x4'[s].down = x4[s].down
    BY <1>1, <1>3, <2>2, SentDoes
  <2> DEFINE r == [phase |-> x3[s].phase, queue |-> q, snap |-> x3[s].snap,
                   top |-> x3[s].top, mixed |-> x3[s].mixed]
  <2>6. /\ r \in Cluster!Session /\ r.phase = "loop" /\ r.queue = q
        /\ r.top = x3[s].top /\ r.mixed = x3[s].mixed
    BY <1>1, <2>2 DEF Cluster!Session
  <2>7. x3' = [x3 EXCEPT ![s] = r]
    BY <1>1, <1>3, <2>2, SessionQueue
  <2> HIDE DEF r
  <2>8. /\ x3' \in [Cluster!Sessions -> Cluster!Session] /\ x3'[s] = r
        /\ \A t \in Cluster!Sessions \ {s} : x3'[t] = x3[t]
    BY <1>1, <2>6, <2>7, SessionMoves
  <2>9. /\ Append(x4[s].down, m) # <<>> /\ Cluster!Final(Append(x4[s].down, m)) = m
        /\ x4[s].down # <<>> => Head(Append(x4[s].down, m)) = Head(x4[s].down)
    BY <2>1 DEF Cluster!Final
  <2>10. Cluster!FirstHeard(s)'
    BY <1>1, <2>4, <2>5, <2>6, <2>8, <2>9 DEF Cluster!FirstHeard
  <2>11. Cluster!LastWord(s)'
    BY <1>1, <2>3, <2>4, <2>5, <2>6, <2>8, <2>9 DEF Cluster!LastWord, Cluster!Final
  <2>12. Cluster!SenderIsHeard'
    BY <1>1, <2>4, <2>6, <2>8, SMTT(30) DEF Cluster!SenderIsHeard, Cluster!NoSession, Cluster!Formed, Cluster!Sessions
  <2> QED
    BY <1>1, <2>4, <2>5, <2>8, <2>10, <2>11, <2>12, SessionStepKeeps DEF Cluster!Formed
<1> QED
  BY <1>2, <1>3 DEF Cluster!Forward

(* The agent connects: the session is new at both ends, and nothing of the    *)
(* server is on its way.                                                     *)
LEMMA ConnectKeeps ==
    ASSUME Cluster!NodeInv, NEW s \in Cluster!Sessions, Cluster!Connect(s)
    PROVE  Cluster!NodeInv'
<1>1. /\ Cluster!Formed /\ Cluster!FirstHeard(s) /\ Cluster!LastWord(s) /\ Cluster!SenderIsHeard
      /\ Cluster!WelcomeComesFirst /\ Cluster!LastWordIsTheWish /\ Cluster!EndIsOnItsWay
      /\ Cluster!TellsTheRecord
      /\ x3[s] \in Cluster!Session /\ x4[s] \in Cluster!Wire /\ x5 \in Cluster!Agent
      /\ s # 0 /\ s \in 0..MaxSessions
  BY DEF Cluster!NodeInv, Cluster!WelcomeComesFirst, Cluster!LastWordIsTheWish, Cluster!Formed,
         Cluster!Sessions
<1>2. /\ x5.cur = 0 /\ ~x5.busy /\ x3[s].phase = "none"
      /\ x3' = [x3 EXCEPT ![s].phase = "upgraded"] /\ x4' = [x4 EXCEPT ![s].open = TRUE]
      /\ x5' = [x5 EXCEPT !.cur = s, !.welcomed = FALSE] /\ x6' = <<>>
      /\ UNCHANGED <<x1, x2, x7, x8, x9, x10, x12>>
  BY DEF Cluster!Connect, Cluster!NoSession
<1>3. x3[s].queue = <<>> /\ x4[s].down = <<>> /\ x4[s].up = <<>>
  BY <1>1, <1>2 DEF Cluster!FirstHeard
<1> DEFINE r == [phase |-> "upgraded", queue |-> x3[s].queue, snap |-> x3[s].snap,
                 top |-> x3[s].top, mixed |-> x3[s].mixed]
           w == [down |-> x4[s].down, up |-> x4[s].up, open |-> TRUE]
<1>4. r \in Cluster!Session /\ r.phase = "upgraded" /\ r.queue = x3[s].queue /\ r.top = x3[s].top
  BY <1>1 DEF Cluster!Session
<1>5. w \in Cluster!Wire /\ w.down = x4[s].down /\ w.up = x4[s].up
  BY <1>1 DEF Cluster!Wire
<1>6. x3' = [x3 EXCEPT ![s] = r] /\ x4' = [x4 EXCEPT ![s] = w]
  BY <1>1, <1>2, SessionPhase, WireChanged
<1> HIDE DEF r, w
<1>7. /\ x3' \in [Cluster!Sessions -> Cluster!Session] /\ x3'[s] = r
      /\ \A t \in Cluster!Sessions \ {s} : x3'[t] = x3[t]
  BY <1>1, <1>4, <1>6, SessionMoves
<1>8. /\ x4' \in [Cluster!Sessions -> Cluster!Wire] /\ x4'[s] = w
      /\ \A t \in Cluster!Sessions \ {s} : x4'[t] = x4[t]
  BY <1>1, <1>5, <1>6, WireMoves
<1>9. /\ x5' \in Cluster!Agent /\ x5'.cur = s /\ x5'.welcomed = FALSE /\ x5'.busy = x5.busy
  <2>1. AgentIs(x5, x5.cur, x5.want, x5.known, x5.handle, x5.busy, x5.welcomed)
    BY <1>1, AgentWritten
  <2>2. AgentIs(x5', s, x5.want, x5.known, x5.handle, x5.busy, FALSE)
    BY <1>2, <2>1, AgentChanged, Zenon
  <2>3. /\ x5.want \in BOOLEAN /\ x5.known \in BOOLEAN /\ x5.handle \in BOOLEAN
        /\ x5.busy \in BOOLEAN /\ FALSE \in BOOLEAN
    BY <1>1, AgentWritten
  <2>4. x5'.cur = s /\ x5'.welcomed = FALSE /\ x5'.busy = x5.busy
    BY <2>2 DEF AgentIs
  <2>5. x5' \in Cluster!Agent
    BY <1>1, <2>2, <2>3 DEF AgentIs, Cluster!Agent
  <2> QED
    BY <2>4, <2>5
<1>10. Cluster!Formed'
  BY <1>1, <1>2, <1>7, <1>8, <1>9, ClusterBounds DEF Cluster!Formed
<1>11. Cluster!SenderIsHeard'
  BY <1>1, <1>2, <1>7 DEF Cluster!SenderIsHeard, Cluster!NoSession, Cluster!Formed, Cluster!Sessions
<1>12. Cluster!TellsTheRecord'
  BY <1>1, <1>2 DEF Cluster!TellsTheRecord
<1>13. Cluster!FirstHeard(s)' /\ Cluster!LastWord(s)'
  BY <1>1, <1>2, <1>3, <1>4, <1>5, <1>7, <1>8, <1>9 DEF Cluster!FirstHeard, Cluster!LastWord
<1>14. Cluster!WelcomeComesFirst' /\ Cluster!LastWordIsTheWish'
  BY <1>1, <1>2, <1>7, <1>8, <1>9, <1>13, OthersStay
<1>15. Cluster!EndIsOnItsWay'
  <2>1. x6 = <<>>
    BY <1>1, <1>2 DEF Cluster!EndIsOnItsWay, Cluster!NoSession
  <2>2. ASSUME x7' = "off", ~x12', \A t \in Cluster!Sessions \ {x5'.cur} : x4'[t].up = <<>>
        PROVE  Cluster!Then(Cluster!OnTheWay, x6)'
    <3>1. \A t \in Cluster!Sessions : x4[t].up = <<>>
      BY <1>3, <1>8, <1>9, <2>2
    <3>2. Cluster!Then(Cluster!OnTheWay, x6)
      BY <1>1, <1>2, <2>2, <3>1 DEF Cluster!EndIsOnItsWay
    <3>3. Cluster!OnThePlane
      BY <1>2, <2>1, <3>2, NothingIsQuiet DEF Cluster!Then, Cluster!OnTheWay, Cluster!NoSession
    <3>4. Cluster!OnThePlane'
      BY <1>2, <3>3 DEF Cluster!OnThePlane, Cluster!Then, Cluster!Settles, Cluster!Quiet
    <3>5. x4'[x5'.cur].up = <<>> /\ x5'.cur # 0
      BY <1>1, <1>3, <1>5, <1>8, <1>9
    <3>6. Cluster!OnTheWay'
      BY <3>4, <3>5 DEF Cluster!OnTheWay, Cluster!Then, Cluster!Settles, Cluster!Quiet, Cluster!NoSession
    <3> QED
      BY <1>2, <3>6 DEF Cluster!Then, Cluster!Settles, Cluster!Quiet
  <2>3. ~x5'.busy
    BY <1>2, <1>9
  <2> QED
    BY <1>1, <1>9, <2>2, <2>3 DEF Cluster!EndIsOnItsWay, Cluster!NoSession
<1> QED
  BY <1>10, <1>11, <1>12, <1>14, <1>15 DEF Cluster!NodeInv

(* handle_up: the status comes from the wire into the record and on the bus.  *)
LEMMA HandleUpKeeps ==
    ASSUME Cluster!NodeInv, NEW s \in Cluster!Sessions, Cluster!HandleUp(s)
    PROVE  Cluster!NodeInv'
<1>1. /\ Cluster!Formed /\ Cluster!FirstHeard(s) /\ Cluster!LastWord(s) /\ Cluster!SenderIsHeard
      /\ Cluster!WelcomeComesFirst /\ Cluster!LastWordIsTheWish /\ Cluster!EndIsOnItsWay
      /\ Cluster!TellsTheRecord
      /\ x1 \in [want : BOOLEAN, status : Cluster!Statuses, last : 0..MaxOps]
      /\ x4[s] \in Cluster!Wire /\ x8 \in Seq(Cluster!Statuses)
      /\ s # 0 /\ s \in 0..MaxSessions /\ x4[s].up \in Seq(Cluster!Statuses)
  BY DEF Cluster!NodeInv, Cluster!WelcomeComesFirst, Cluster!LastWordIsTheWish, Cluster!Formed,
         Cluster!Sessions, Cluster!Wire
<1>2. /\ x3[s].phase = "loop" /\ x4[s].up # <<>>
      /\ x4' = [x4 EXCEPT ![s].up = Tail(x4[s].up)]
      /\ x1' = [x1 EXCEPT !.status = Head(x4[s].up)]
      /\ x8' = Append(x8, Head(x4[s].up))
      /\ x12' = (x12 \/ s # x5.cur)
      /\ UNCHANGED <<x2, x3, x5, x6, x7, x9, x10>>
  BY DEF Cluster!HandleUp, Cluster!SessionVars
<1>3. PICK e, q : e = Head(x4[s].up) /\ q = Tail(x4[s].up)
  OBVIOUS
<1>4. /\ e \in Cluster!Statuses /\ q \in Seq(Cluster!Statuses)
      /\ Cluster!Settles(x4[s].up) =>
            Cluster!Settles(q) \/ (e \in Cluster!Terminal /\ Cluster!Quiet(q))
      /\ Cluster!Quiet(x4[s].up) => e # "running" /\ Cluster!Quiet(q)
  BY <1>1, <1>2, <1>3, HeadIsTaken
<1> DEFINE w == [down |-> x4[s].down, up |-> q, open |-> x4[s].open]
<1>5. w \in Cluster!Wire /\ w.down = x4[s].down /\ w.up = q /\ w.open = x4[s].open
  BY <1>1, <1>4 DEF Cluster!Wire
<1>6. x4' = [x4 EXCEPT ![s] = w]
  BY <1>1, <1>2, <1>3, WireChanged
<1> HIDE DEF w
<1>7. /\ x4' \in [Cluster!Sessions -> Cluster!Wire] /\ x4'[s] = w
      /\ \A t \in Cluster!Sessions \ {s} : x4'[t] = x4[t]
  BY <1>1, <1>5, <1>6, WireMoves
<1>8. /\ x1' \in [want : BOOLEAN, status : Cluster!Statuses, last : 0..MaxOps]
      /\ x1'.want = x1.want /\ x1'.last = x1.last /\ x1'.status = e
  BY <1>1, <1>2, <1>3, <1>4
<1>9. x12' \in BOOLEAN /\ (~x12' => ~x12 /\ s = x5.cur)
  BY <1>2, Zenon
<1>10. x8' \in Seq(Cluster!Statuses)
  BY <1>1, <1>2, <1>3, <1>4
<1>11. Cluster!Formed'
  BY <1>1, <1>2, <1>7, <1>8, <1>9, <1>10 DEF Cluster!Formed
<1>12. Cluster!SenderIsHeard' /\ Cluster!TellsTheRecord'
  BY <1>1, <1>2, <1>8 DEF Cluster!SenderIsHeard, Cluster!TellsTheRecord
<1>13. Cluster!FirstHeard(s)' /\ Cluster!LastWord(s)'
  BY <1>1, <1>2, <1>5, <1>7, <1>8 DEF Cluster!FirstHeard, Cluster!LastWord, Cluster!Final
<1>14. Cluster!WelcomeComesFirst' /\ Cluster!LastWordIsTheWish'
  BY <1>1, <1>2, <1>7, <1>8, <1>13, OthersStay DEF Cluster!WelcomeComesFirst
<1>15. Cluster!EndIsOnItsWay'
  <2>1. ASSUME x7' = "off", ~x12', \A t \in Cluster!Sessions \ {x5'.cur} : x4'[t].up = <<>>
        PROVE  Cluster!Then(Cluster!OnTheWay, x6)'
    <3>1. \A t \in Cluster!Sessions \ {x5.cur} : x4[t].up = <<>>
      BY <1>2, <1>7, <1>9, <2>1
    <3>2. Cluster!Then(Cluster!OnTheWay, x6)
      BY <1>1, <1>2, <1>9, <2>1, <3>1 DEF Cluster!EndIsOnItsWay
    <3>3. Cluster!OnTheWay => Cluster!OnTheWay'
      <4>1. /\ Cluster!OnTheWay =>
                 Cluster!Settles(x4[s].up) \/ (Cluster!Quiet(x4[s].up) /\ Cluster!OnThePlane)
            /\ Cluster!Settles(q) \/ (Cluster!Quiet(q) /\ Cluster!OnThePlane') => Cluster!OnTheWay'
        <5>1. s = x5.cur /\ x5'.cur = s /\ x4'[s].up = q
          BY <1>2, <1>5, <1>7, <1>9, <2>1
        <5>2. Cluster!OnTheWay => Cluster!Then(Cluster!OnThePlane, x4[s].up)
          BY <1>1, <5>1 DEF Cluster!OnTheWay, Cluster!NoSession
        <5>3. Cluster!OnTheWay' <=> Cluster!Then(Cluster!OnThePlane, x4[s].up)'
          BY <1>1, <5>1 DEF Cluster!OnTheWay, Cluster!NoSession, Cluster!Then, Cluster!Settles, Cluster!Quiet
        <5> QED
          BY <5>1, <5>2, <5>3 DEF Cluster!Then, Cluster!Settles, Cluster!Quiet
      <4>2. /\ e \in Cluster!Terminal => Cluster!Settles(Append(x8, e))
            /\ Cluster!Settles(x8) /\ e # "running" => Cluster!Settles(Append(x8, e))
            /\ Cluster!Quiet(x8) /\ e # "running" => Cluster!Quiet(Append(x8, e))
        BY <1>1, <1>4, EndIsAppended
      <4>3. Cluster!OnThePlane'
              <=> Cluster!Settles(Append(x8, e)) \/ (Cluster!Quiet(Append(x8, e)) /\ e # "running")
        BY <1>2, <1>3, <1>8, SMTT(30) DEF Cluster!OnThePlane, Cluster!Then, Cluster!Settles, Cluster!Quiet
      <4>4. Cluster!OnThePlane => Cluster!Settles(x8) \/ Cluster!Quiet(x8)
        BY DEF Cluster!OnThePlane, Cluster!Then
      <4> QED
        BY <1>4, <4>1, <4>2, <4>3, <4>4 DEF Cluster!Then
    <3> QED
      BY <1>2, <3>2, <3>3 DEF Cluster!Then, Cluster!Settles, Cluster!Quiet
  <2> QED
    BY <1>1, <1>2, <2>1 DEF Cluster!EndIsOnItsWay, Cluster!Final, Cluster!NoSession
<1> QED
  BY <1>11, <1>12, <1>14, <1>15 DEF Cluster!NodeInv

-----------------------------------------------------------------------------
(* The steps of the agent keep the invariant. *)

(* The plane, but for what the web socket holds, is left alone.              *)
LEMMA AgentStepKeeps ==
    ASSUME Cluster!NodeInv, NEW s \in Cluster!Sessions,
           UNCHANGED <<x1, x2, x3, x8, x9, x10>>,
           x4' \in [Cluster!Sessions -> Cluster!Wire],
           \A t \in Cluster!Sessions \ {s} : x4'[t] = x4[t],
           x5.cur = s, x5' \in Cluster!Agent, x5'.cur \in {0, s}, x5'.welcomed => x5'.known,
           x6' \in Seq(Cluster!Statuses), Len(x6') <= EventCap,
           x7' \in {"off", "starting", "running"}, x12' \in BOOLEAN,
           Cluster!FirstHeard(s)', Cluster!LastWord(s)', Cluster!EndIsOnItsWay'
    PROVE  Cluster!NodeInv'
<1>1. /\ Cluster!Formed /\ Cluster!SenderIsHeard /\ Cluster!TellsTheRecord
      /\ Cluster!WelcomeComesFirst /\ Cluster!LastWordIsTheWish
  BY DEF Cluster!NodeInv
<1>2. Cluster!Formed' /\ Cluster!SenderIsHeard' /\ Cluster!TellsTheRecord'
  BY <1>1 DEF Cluster!Formed, Cluster!SenderIsHeard, Cluster!TellsTheRecord
<1>3. Cluster!WelcomeComesFirst' /\ Cluster!LastWordIsTheWish'
  BY <1>1, OthersStay
<1> QED
  BY <1>2, <1>3 DEF Cluster!NodeInv

(* What init says of the server reaches the receiver of a connected agent, or  *)
(* is missed; of a server that is up nothing has to be on its way.            *)
LEMMA ServerStepKeeps ==
    ASSUME Cluster!NodeInv, UNCHANGED <<x1, x2, x3, x4, x5, x8, x9, x10>>,
           NEW sts \in Seq(Cluster!Statuses), sts # <<>>, Cluster!Emit(sts),
           x7' \in {"off", "starting", "running"},
           x7' = "off" => Cluster!Final(sts) \in Cluster!Terminal
    PROVE  Cluster!NodeInv'
<1>1. /\ Cluster!Formed /\ Cluster!SenderIsHeard /\ Cluster!TellsTheRecord
      /\ Cluster!WelcomeComesFirst /\ Cluster!LastWordIsTheWish /\ Cluster!EndIsOnItsWay
  BY DEF Cluster!NodeInv
<1>2. /\ x6' \in Seq(Cluster!Statuses) /\ Len(x6') <= EventCap /\ x12' \in BOOLEAN
      /\ x5.cur = 0 => x6' = <<>> /\ x12'
      /\ x5.cur # 0 =>
           /\ ~x12' /\ x6' # <<>> /\ Cluster!Final(x6') = Cluster!Final(sts)
           /\ Cluster!Final(sts) \in Cluster!Terminal => Cluster!Settles(x6')
  BY <1>1, EmitDoes
<1>3. Cluster!Formed' /\ Cluster!SenderIsHeard' /\ Cluster!TellsTheRecord'
  BY <1>1, <1>2 DEF Cluster!Formed, Cluster!SenderIsHeard, Cluster!TellsTheRecord
<1>4. Cluster!WelcomeComesFirst' /\ Cluster!LastWordIsTheWish'
  BY <1>1, SessionInvKept DEF Cluster!WelcomeComesFirst, Cluster!LastWordIsTheWish
<1>5. Cluster!EndIsOnItsWay'
  <2>1. x5.cur = 0 => ~x5.busy
    BY <1>1 DEF Cluster!EndIsOnItsWay, Cluster!NoSession
  <2>2. x7' = "off" /\ ~x12' => Cluster!Settles(x6)'
    BY <1>2 DEF Cluster!Settles
  <2>3. x7' = "off" /\ ~x12' => Cluster!Then(Cluster!OnTheWay, x6)'
    BY <2>2 DEF Cluster!Then
  <2>4. x5.busy /\ x7' = "off" => x6' # <<>> /\ Cluster!Final(x6') \in Cluster!Terminal
    BY <1>2, <2>1
  <2> QED
    BY <1>2, <2>1, <2>3, <2>4 DEF Cluster!EndIsOnItsWay, Cluster!NoSession, Cluster!Final
<1> QED
  BY <1>3, <1>4, <1>5 DEF Cluster!NodeInv

LEMMA ServerReadyKeeps == Cluster!NodeInv /\ Cluster!ServerReady => Cluster!NodeInv'
<1> SUFFICES ASSUME Cluster!NodeInv, Cluster!ServerReady PROVE Cluster!NodeInv'
  OBVIOUS
<1>1. /\ UNCHANGED <<x1, x2, x3, x4, x5, x8, x9, x10>> /\ x7' = "running"
      /\ Cluster!Emit(<<"running">>)
  BY DEF Cluster!ServerReady, Cluster!AgentVars
<1>2. <<"running">> \in Seq(Cluster!Statuses) /\ <<"running">> # <<>>
  BY DEF Cluster!Statuses
<1> QED
  BY <1>1, <1>2, ServerStepKeeps

LEMMA ServerExitsKeeps == Cluster!NodeInv /\ Cluster!ServerExits => Cluster!NodeInv'
<1> SUFFICES ASSUME Cluster!NodeInv, Cluster!ServerExits PROVE Cluster!NodeInv'
  OBVIOUS
<1>1. PICK end \in {"stopped", "crashed"} :
         /\ UNCHANGED <<x1, x2, x3, x4, x5, x8, x9, x10>> /\ x7' = "off"
         /\ Cluster!Emit(<<end>>)
  BY DEF Cluster!ServerExits, Cluster!AgentVars
<1>2. /\ <<end>> \in Seq(Cluster!Statuses) /\ <<end>> # <<>>
      /\ Cluster!Final(<<end>>) \in Cluster!Terminal
  BY DEF Cluster!Statuses, Cluster!Final, Cluster!Terminal
<1> QED
  BY <1>1, <1>2, ServerStepKeeps

(* The launch has returned: a server that ended meanwhile had its end told,   *)
(* and "starting" comes after it.                                            *)
LEMMA AfterLaunchKeeps == Cluster!NodeInv /\ Cluster!AfterLaunch => Cluster!NodeInv'
<1> SUFFICES ASSUME Cluster!NodeInv, Cluster!AfterLaunch PROVE Cluster!NodeInv'
  OBVIOUS
<1>1. /\ Cluster!Formed /\ Cluster!WelcomeComesFirst /\ Cluster!LastWordIsTheWish
      /\ Cluster!EndIsOnItsWay /\ x5 \in Cluster!Agent
      /\ x4 \in [Cluster!Sessions -> Cluster!Wire] /\ x7 \in {"off", "starting", "running"}
  BY DEF Cluster!NodeInv, Cluster!Formed
<1>2. /\ x5.busy /\ x5' = [x5 EXCEPT !.busy = FALSE] /\ Cluster!Emit(<<"starting">>)
      /\ UNCHANGED <<x1, x2, x3, x4, x7, x8, x9, x10>>
  BY DEF Cluster!AfterLaunch, Cluster!AgentVars
<1>3. /\ x5.cur # 0
      /\ x7 = "off" => x6 # <<>> /\ Cluster!Final(x6) \in Cluster!Terminal
  BY <1>1, <1>2 DEF Cluster!EndIsOnItsWay, Cluster!NoSession
<1>4. PICK s \in Cluster!Sessions : s = x5.cur
  BY <1>1, <1>3 DEF Cluster!Agent, Cluster!Sessions
<1>5. Cluster!FirstHeard(s) /\ Cluster!LastWord(s)
  BY <1>1 DEF Cluster!WelcomeComesFirst, Cluster!LastWordIsTheWish
<1>6. /\ x5' \in Cluster!Agent /\ x5'.cur = x5.cur /\ x5'.welcomed = x5.welcomed
      /\ x5'.known = x5.known /\ x5'.want = x5.want /\ ~x5'.busy
  <2>1. AgentIs(x5, x5.cur, x5.want, x5.known, x5.handle, x5.busy, x5.welcomed)
    BY <1>1, AgentWritten
  <2>2. AgentIs(x5', x5.cur, x5.want, x5.known, x5.handle, FALSE, x5.welcomed)
    BY <1>2, <2>1, AgentChanged, Zenon
  <2> QED
    BY <1>1, <2>2, AgentWritten DEF AgentIs, Cluster!Agent
<1>7. <<"starting">> \in Seq(Cluster!Statuses) /\ <<"starting">> # <<>> /\ Len(<<"starting">>) = 1
  BY DEF Cluster!Statuses
<1>8. /\ x6' \in Seq(Cluster!Statuses) /\ Len(x6') <= EventCap /\ x12' \in BOOLEAN
      /\ x6 # <<>> /\ Cluster!Final(x6) \in Cluster!Terminal => Cluster!Settles(x6')
  BY <1>1, <1>2, <1>3, <1>7, EmitDoes
<1>9. Cluster!FirstHeard(s)' /\ Cluster!LastWord(s)'
  BY <1>2, <1>5, <1>6 DEF Cluster!FirstHeard, Cluster!LastWord, Cluster!Final
<1>10. Cluster!EndIsOnItsWay'
  <2>1. x7' = "off" => Cluster!Settles(x6)'
    BY <1>2, <1>3, <1>8 DEF Cluster!Settles
  <2>2. x7' = "off" => Cluster!Then(Cluster!OnTheWay, x6)'
    BY <2>1 DEF Cluster!Then
  <2> QED
    BY <1>3, <1>6, <2>2 DEF Cluster!EndIsOnItsWay, Cluster!NoSession
<1>11. x5'.welcomed => x5'.known
  BY <1>1, <1>6 DEF Cluster!WelcomeComesFirst
<1> QED
  BY <1>1, <1>2, <1>4, <1>6, <1>8, <1>9, <1>10, <1>11, AgentStepKeeps

(* The agent leaves a broken connection: what it had not read is missed.      *)
LEMMA AgentLeavesKeeps ==
    ASSUME Cluster!NodeInv, NEW s \in Cluster!Sessions, Cluster!AgentLeaves(s)
    PROVE  Cluster!NodeInv'
<1>1. /\ Cluster!Formed /\ Cluster!FirstHeard(s) /\ Cluster!LastWord(s)
      /\ Cluster!WelcomeComesFirst /\ Cluster!EndIsOnItsWay
      /\ x4[s] \in Cluster!Wire /\ x5 \in Cluster!Agent /\ x7 \in {"off", "starting", "running"}
      /\ s # 0 /\ s \in 0..MaxSessions
  BY DEF Cluster!NodeInv, Cluster!WelcomeComesFirst, Cluster!LastWordIsTheWish, Cluster!Formed,
         Cluster!Sessions
<1>2. /\ x5.cur = s /\ ~x5.busy /\ ~x4[s].open
      /\ x5' = [x5 EXCEPT !.cur = 0] /\ x6' = <<>>
      /\ x4' = [x4 EXCEPT ![s].down = <<>>] /\ x12' = (x12 \/ x6 # <<>>)
      /\ UNCHANGED <<x1, x2, x3, x7, x8, x9, x10>>
  BY DEF Cluster!AgentLeaves, Cluster!AgentVars, Cluster!Here, Cluster!NoSession
<1> DEFINE w == [down |-> <<>>, up |-> x4[s].up, open |-> x4[s].open]
<1>3. w \in Cluster!Wire /\ w.down = <<>> /\ w.up = x4[s].up /\ w.open = x4[s].open
  BY <1>1 DEF Cluster!Wire
<1>4. x4' = [x4 EXCEPT ![s] = w]
  BY <1>1, <1>2, WireChanged
<1> HIDE DEF w
<1>5. /\ x4' \in [Cluster!Sessions -> Cluster!Wire] /\ x4'[s] = w
      /\ \A t \in Cluster!Sessions \ {s} : x4'[t] = x4[t]
  BY <1>1, <1>3, <1>4, WireMoves
<1>6. /\ x5' \in Cluster!Agent /\ x5'.cur = 0 /\ x5'.welcomed = x5.welcomed
      /\ x5'.known = x5.known /\ x5'.busy = x5.busy
  <2>1. AgentIs(x5, x5.cur, x5.want, x5.known, x5.handle, x5.busy, x5.welcomed)
    BY <1>1, AgentWritten
  <2>2. AgentIs(x5', 0, x5.want, x5.known, x5.handle, x5.busy, x5.welcomed)
    BY <1>2, <2>1, AgentChanged, Zenon
  <2> QED
    BY <1>1, <2>2, AgentWritten, ClusterBounds DEF AgentIs, Cluster!Agent
<1>7. x12' \in BOOLEAN /\ (~x12' => ~x12 /\ x6 = <<>>)
  BY <1>2, Zenon
<1>8. Cluster!FirstHeard(s)' /\ Cluster!LastWord(s)'
  BY <1>1, <1>2, <1>3, <1>5, <1>6 DEF Cluster!FirstHeard, Cluster!LastWord
<1>9. x5'.welcomed => x5'.known
  BY <1>1, <1>6 DEF Cluster!WelcomeComesFirst
<1>10. Cluster!EndIsOnItsWay'
  <2>1. ASSUME x7' = "off", ~x12', \A t \in Cluster!Sessions \ {x5'.cur} : x4'[t].up = <<>>
        PROVE  Cluster!Then(Cluster!OnTheWay, x6)'
    <3>1. \A t \in Cluster!Sessions : x4[t].up = <<>>
      BY <1>3, <1>5, <1>6, <2>1 DEF Cluster!Sessions
    <3>2. Cluster!Then(Cluster!OnTheWay, x6)
      BY <1>1, <1>2, <1>7, <2>1, <3>1 DEF Cluster!EndIsOnItsWay
    <3>3. Cluster!OnTheWay
      BY <1>7, <2>1, <3>2, NothingIsQuiet DEF Cluster!Then
    <3>4. Cluster!Then(Cluster!OnThePlane, x4[s].up) /\ x4[s].up = <<>>
      BY <1>1, <1>2, <3>1, <3>3 DEF Cluster!OnTheWay, Cluster!NoSession
    <3>5. Cluster!OnThePlane
      BY <3>4, NothingIsQuiet DEF Cluster!Then
    <3>6. Cluster!OnThePlane'
      BY <1>2, <3>5 DEF Cluster!OnThePlane, Cluster!Then, Cluster!Settles, Cluster!Quiet
    <3>7. Cluster!OnTheWay'
      BY <1>6, <3>6 DEF Cluster!OnTheWay, Cluster!NoSession
    <3> QED
      BY <1>2, <3>7 DEF Cluster!Then, Cluster!Quiet
  <2>2. ~x5'.busy
    BY <1>2, <1>6
  <2> QED
    BY <1>2, <2>1, <2>2 DEF Cluster!EndIsOnItsWay, Cluster!NoSession
<1> QED
  BY <1>1, <1>2, <1>5, <1>6, <1>7, <1>8, <1>9, <1>10, AgentStepKeeps, ClusterBounds

(* A status goes from the receiver into the web socket, or is missed.          *)
LEMMA ReportEventKeeps ==
    ASSUME Cluster!NodeInv, NEW s \in Cluster!Sessions, Cluster!ReportEvent(s)
    PROVE  Cluster!NodeInv'
<1>1. /\ Cluster!Formed /\ Cluster!FirstHeard(s) /\ Cluster!LastWord(s)
      /\ Cluster!WelcomeComesFirst /\ Cluster!EndIsOnItsWay
      /\ x4[s] \in Cluster!Wire /\ x5 \in Cluster!Agent /\ x7 \in {"off", "starting", "running"}
      /\ x6 \in Seq(Cluster!Statuses) /\ Len(x6) <= EventCap /\ x4[s].up \in Seq(Cluster!Statuses)
      /\ s # 0 /\ s \in 0..MaxSessions
  BY DEF Cluster!NodeInv, Cluster!WelcomeComesFirst, Cluster!LastWordIsTheWish, Cluster!Formed,
         Cluster!Sessions, Cluster!Wire
<1>2. /\ x5.cur = s /\ ~x5.busy /\ x6 # <<>> /\ x6' = Tail(x6)
      /\ x4' = [x4 EXCEPT ![s].up = IF x4[s].open THEN Append(x4[s].up, Head(x6)) ELSE x4[s].up]
      /\ x5' = [x5 EXCEPT !.handle = FALSE] \/ x5' = x5
      /\ x12' = (x12 \/ ~x4[s].open)
      /\ UNCHANGED <<x1, x2, x3, x7, x8, x9, x10>>
  BY DEF Cluster!ReportEvent, Cluster!AgentVars, Cluster!Here, Cluster!Up
<1>3. PICK e, u : /\ e = Head(x6)
                  /\ u = IF x4[s].open THEN Append(x4[s].up, e) ELSE x4[s].up
                  /\ x4' = [x4 EXCEPT ![s].up = u]
  BY <1>2
<1>4. /\ e \in Cluster!Statuses /\ x6' \in Seq(Cluster!Statuses)
      /\ Cluster!Settles(x6) =>
            Cluster!Settles(x6') \/ (e \in Cluster!Terminal /\ Cluster!Quiet(x6'))
      /\ Cluster!Quiet(x6) => e # "running" /\ Cluster!Quiet(x6')
  BY <1>1, <1>2, <1>3, HeadIsTaken
<1>5. u \in Seq(Cluster!Statuses)
  BY <1>1, <1>3, <1>4
<1> DEFINE w == [down |-> x4[s].down, up |-> u, open |-> x4[s].open]
<1>6. w \in Cluster!Wire /\ w.down = x4[s].down /\ w.up = u /\ w.open = x4[s].open
  BY <1>1, <1>5 DEF Cluster!Wire
<1>7. x4' = [x4 EXCEPT ![s] = w]
  BY <1>1, <1>3, WireChanged
<1> HIDE DEF w
<1>8. /\ x4' \in [Cluster!Sessions -> Cluster!Wire] /\ x4'[s] = w
      /\ \A t \in Cluster!Sessions \ {s} : x4'[t] = x4[t]
  BY <1>1, <1>6, <1>7, WireMoves
<1>9. /\ x5' \in Cluster!Agent /\ x5'.cur = x5.cur /\ x5'.welcomed = x5.welcomed
      /\ x5'.known = x5.known /\ x5'.busy = x5.busy /\ x5'.want = x5.want
  <2>1. AgentIs(x5, x5.cur, x5.want, x5.known, x5.handle, x5.busy, x5.welcomed)
    BY <1>1, AgentWritten
  <2>2. CASE x5' = [x5 EXCEPT !.handle = FALSE]
    <3>1. AgentIs(x5', x5.cur, x5.want, x5.known, FALSE, x5.busy, x5.welcomed)
      BY <2>1, <2>2, AgentChanged, Zenon
    <3> QED
      BY <1>1, <3>1, AgentWritten DEF AgentIs, Cluster!Agent
  <2> QED
    BY <1>1, <1>2, <2>2
<1>10. x12' \in BOOLEAN /\ (~x12' => ~x12 /\ x4[s].open)
  BY <1>2, Zenon
<1>11. Cluster!FirstHeard(s)' /\ Cluster!LastWord(s)'
  <2>1. x3[s].phase # "none"
    BY <1>1, <1>2 DEF Cluster!FirstHeard
  <2> QED
    BY <1>1, <1>2, <1>6, <1>8, <1>9, <2>1 DEF Cluster!FirstHeard, Cluster!LastWord, Cluster!Final
<1>12. x5'.welcomed => x5'.known
  BY <1>1, <1>9 DEF Cluster!WelcomeComesFirst
<1>13. Cluster!EndIsOnItsWay'
  <2>1. ASSUME x7' = "off", ~x12', \A t \in Cluster!Sessions \ {x5'.cur} : x4'[t].up = <<>>
        PROVE  Cluster!Then(Cluster!OnTheWay, x6)'
    <3>1. \A t \in Cluster!Sessions \ {x5.cur} : x4[t].up = <<>>
      BY <1>2, <1>8, <1>9, <2>1
    <3>2. Cluster!Then(Cluster!OnTheWay, x6)
      BY <1>1, <1>2, <1>10, <2>1, <3>1 DEF Cluster!EndIsOnItsWay
    <3>3. u = Append(x4[s].up, e)
      BY <1>3, <1>10, <2>1
    <3>4. /\ e \in Cluster!Terminal => Cluster!Settles(u)
          /\ Cluster!Settles(x4[s].up) /\ e # "running" => Cluster!Settles(u)
          /\ Cluster!Quiet(x4[s].up) /\ e # "running" => Cluster!Quiet(u)
      BY <1>1, <1>4, <3>3, EndIsAppended
    <3>5. Cluster!OnThePlane => Cluster!OnThePlane'
      BY <1>2 DEF Cluster!OnThePlane, Cluster!Then, Cluster!Settles, Cluster!Quiet
    <3>6. /\ Cluster!OnTheWay =>
                Cluster!Settles(x4[s].up) \/ (Cluster!Quiet(x4[s].up) /\ Cluster!OnThePlane)
          /\ Cluster!Settles(u) \/ (Cluster!Quiet(u) /\ Cluster!OnThePlane') => Cluster!OnTheWay'
      <4>1. x5.cur = s /\ x5'.cur = s /\ x4'[s].up = u
        BY <1>2, <1>6, <1>8, <1>9
      <4>2. Cluster!OnTheWay => Cluster!Then(Cluster!OnThePlane, x4[s].up)
        BY <1>1, <4>1 DEF Cluster!OnTheWay, Cluster!NoSession
      <4>3. Cluster!OnTheWay' <=> Cluster!Then(Cluster!OnThePlane, x4[s].up)'
        BY <1>1, <4>1 DEF Cluster!OnTheWay, Cluster!NoSession, Cluster!Then, Cluster!Settles, Cluster!Quiet
      <4> QED
        BY <4>1, <4>2, <4>3 DEF Cluster!Then, Cluster!Settles, Cluster!Quiet
    <3>7. Cluster!Settles(x6') \/ (Cluster!Quiet(x6') /\ Cluster!OnTheWay')
      BY <1>4, <3>2, <3>4, <3>5, <3>6 DEF Cluster!Then
    <3> QED
      BY <3>7 DEF Cluster!Then, Cluster!Settles, Cluster!Quiet
  <2>2. ~x5'.busy /\ x5'.cur # 0
    BY <1>1, <1>2, <1>9
  <2> QED
    BY <2>1, <2>2 DEF Cluster!EndIsOnItsWay, Cluster!NoSession
<1>14. Len(x6') <= EventCap
  BY <1>1, <1>2, ClusterBounds
<1> QED
  BY <1>1, <1>2, <1>4, <1>8, <1>9, <1>10, <1>11, <1>12, <1>13, <1>14, AgentStepKeeps

(* What obeying an order leaves of the statuses: they are as they were, or a   *)
(* server is launched, or the newest of them is the end of a server.          *)
Obeyed ==
    /\ x6' \in Seq(Cluster!Statuses) /\ Len(x6') <= EventCap /\ x12' \in BOOLEAN
    /\ x7' \in {"off", "starting", "running"}
    /\ \/ x6' = x6 /\ x12' = x12 /\ x7' = x7 /\ ~x5'.busy
       \/ x6' = x6 /\ x12' = x12 /\ x7' = "starting"
       \/ Cluster!Settles(x6') /\ ~x5'.busy

Hears(want) ==
    /\ x5' \in Cluster!Agent /\ x5'.cur = x5.cur /\ x5'.want = want
    /\ x5'.known /\ x5'.welcomed

(* The end of a server that is told to a connected agent is its newest.        *)
LEMMA EndIsEmitted ==
    ASSUME Cluster!Formed, x5.cur # 0, NEW sts, Cluster!Emit(sts),
           sts \in {<<"crashed">>, <<"stopped">>, <<"stopped", "stopped">>}
    PROVE  /\ x6' \in Seq(Cluster!Statuses) /\ Len(x6') <= EventCap /\ x12' \in BOOLEAN
           /\ Cluster!Settles(x6')
<1>1. /\ sts \in Seq(Cluster!Statuses) /\ sts # <<>>
      /\ sts[Len(sts)] \in {"stopped", "crashed"}
  <2>1. CASE sts = <<"crashed">>
    BY <2>1 DEF Cluster!Statuses
  <2>2. CASE sts = <<"stopped">>
    BY <2>2 DEF Cluster!Statuses
  <2>3. CASE sts = <<"stopped", "stopped">>
    BY <2>3 DEF Cluster!Statuses
  <2> QED
    BY <2>1, <2>2, <2>3
<1> QED
  BY <1>1, EmitDoes DEF Cluster!Final, Cluster!Terminal

LEMMA ObeyDoes ==
    ASSUME Cluster!Formed, x5.cur # 0, ~x5.busy,
           NEW ag, NEW want \in BOOLEAN, Cluster!Obey(ag, want),
           AgentIs(ag, x5.cur, want, TRUE, x5.handle, x5.busy, TRUE)
    PROVE  Obeyed /\ Hears(want)
<1>1. /\ x6 \in Seq(Cluster!Statuses) /\ Len(x6) <= EventCap /\ x12 \in BOOLEAN
      /\ x7 \in {"off", "starting", "running"} /\ x5 \in Cluster!Agent
  BY DEF Cluster!Formed
<1>2. /\ x5.cur \in 0..MaxSessions /\ x5.handle \in BOOLEAN /\ x5.busy \in BOOLEAN
  BY <1>1, AgentWritten
<1>3. ASSUME NEW h \in BOOLEAN, NEW b \in BOOLEAN,
             AgentIs(x5', x5.cur, want, TRUE, h, b, TRUE)
      PROVE  Hears(want) /\ x5'.busy = b
  BY <1>2, <1>3 DEF AgentIs, Hears, Cluster!Agent
<1>4. ASSUME x5' = ag PROVE Hears(want) /\ ~x5'.busy
  <2>1. AgentIs(x5', x5.cur, want, TRUE, x5.handle, x5.busy, TRUE)
    BY <1>4
  <2> QED
    BY <1>2, <1>3, <2>1
<1>5. ASSUME x5' = [ag EXCEPT !.handle = FALSE] PROVE Hears(want) /\ ~x5'.busy
  <2>1. AgentIs(x5', x5.cur, want, TRUE, FALSE, x5.busy, TRUE)
    BY <1>5, AgentChanged, Zenon
  <2> QED
    BY <1>2, <1>3, <2>1
<1>6. ASSUME x5' = [ag EXCEPT !.handle = TRUE, !.busy = TRUE] PROVE Hears(want)
  <2>1. AgentIs(x5', x5.cur, want, TRUE, TRUE, TRUE, TRUE)
    BY <1>6, AgentChanged, Zenon
  <2> QED
    BY <1>2, <1>3, <2>1
<1>7. ASSUME Cluster!LaunchRefused(ag) PROVE Obeyed /\ Hears(want)
  <2>1. x5' = [ag EXCEPT !.handle = FALSE] /\ Cluster!Emit(<<"crashed">>) /\ x7' = x7
    BY <1>7 DEF Cluster!LaunchRefused
  <2> QED
    BY <1>1, <1>5, <2>1, EndIsEmitted DEF Obeyed
<1>8. CASE Cluster!WantRunning(ag)
  BY <1>1, <1>4, <1>6, <1>7, <1>8 DEF Cluster!WantRunning, Obeyed
<1>9. CASE Cluster!WantStopped(ag)
  BY <1>1, <1>4, <1>5, <1>9, EndIsEmitted DEF Cluster!WantStopped, Obeyed
<1> QED
  BY <1>8, <1>9 DEF Cluster!Obey

(* An order or a welcome arrives; as the welcome comes first, no order to     *)
(* stop finds an agent that does not know the instance.                       *)
LEMMA ApplyDownKeeps ==
    ASSUME Cluster!NodeInv, NEW s \in Cluster!Sessions, Cluster!ApplyDown(s)
    PROVE  Cluster!NodeInv'
<1>1. /\ Cluster!Formed /\ Cluster!FirstHeard(s) /\ Cluster!LastWord(s)
      /\ Cluster!WelcomeComesFirst /\ Cluster!EndIsOnItsWay
      /\ x4[s] \in Cluster!Wire /\ x5 \in Cluster!Agent /\ x7 \in {"off", "starting", "running"}
      /\ x4[s].down \in Seq(Cluster!Orders \cup Cluster!Welcomes)
      /\ s # 0 /\ s \in 0..MaxSessions
  BY DEF Cluster!NodeInv, Cluster!WelcomeComesFirst, Cluster!LastWordIsTheWish, Cluster!Formed,
         Cluster!Sessions, Cluster!Wire
<1>2. /\ x5.cur = s /\ ~x5.busy /\ x4[s].down # <<>>
      /\ x4' = [x4 EXCEPT ![s].down = Tail(x4[s].down)]
      /\ UNCHANGED <<x1, x2, x3, x8, x9, x10>>
  BY DEF Cluster!ApplyDown, Cluster!AgentVars, Cluster!Here
<1>3. PICK m, d : m = Head(x4[s].down) /\ d = Tail(x4[s].down)
  OBVIOUS
<1>4. /\ m \in Cluster!Orders \cup Cluster!Welcomes /\ d \in Seq(Cluster!Orders \cup Cluster!Welcomes)
      /\ d # <<>> => Cluster!Final(d) = Cluster!Final(x4[s].down)
      /\ d = <<>> => Cluster!Final(x4[s].down) = m
  BY <1>1, <1>2, <1>3, TailHasTheEnd
<1> DEFINE w == [down |-> d, up |-> x4[s].up, open |-> x4[s].open]
<1>5. w \in Cluster!Wire /\ w.down = d /\ w.up = x4[s].up /\ w.open = x4[s].open
  BY <1>1, <1>4 DEF Cluster!Wire
<1>6. x4' = [x4 EXCEPT ![s] = w]
  BY <1>1, <1>2, <1>3, WireChanged
<1> HIDE DEF w
<1>7. /\ x4' \in [Cluster!Sessions -> Cluster!Wire] /\ x4'[s] = w
      /\ \A t \in Cluster!Sessions \ {s} : x4'[t] = x4[t]
  BY <1>1, <1>5, <1>6, WireMoves
<1>8. /\ m.want \in BOOLEAN
      /\ m.kind = "stop" => m.want = FALSE
      /\ m.kind \in {"apply", "stop", "welcome"}
  <2>1. m \in {Cluster!Msg("apply", TRUE), Cluster!Msg("apply", FALSE), Cluster!Msg("stop", FALSE),
               Cluster!Msg("welcome", TRUE), Cluster!Msg("welcome", FALSE)}
    BY <1>4 DEF Cluster!Orders, Cluster!Welcomes
  <2>2. ASSUME NEW k, NEW v, m = Cluster!Msg(k, v) PROVE m.kind = k /\ m.want = v
    BY <2>2 DEF Cluster!Msg
  <2>3. /\ m = Cluster!Msg("apply", TRUE) => m.kind = "apply" /\ m.want = TRUE
        /\ m = Cluster!Msg("apply", FALSE) => m.kind = "apply" /\ m.want = FALSE
        /\ m = Cluster!Msg("stop", FALSE) => m.kind = "stop" /\ m.want = FALSE
        /\ m = Cluster!Msg("welcome", TRUE) => m.kind = "welcome" /\ m.want = TRUE
        /\ m = Cluster!Msg("welcome", FALSE) => m.kind = "welcome" /\ m.want = FALSE
    BY <2>2, Zenon
  <2> QED
    BY <2>1, <2>3
<1>9. x5.known \in BOOLEAN /\ x5.welcomed \in BOOLEAN
      /\ (x5.welcomed => x5.known) /\ (~x5.welcomed => m.kind = "welcome")
  BY <1>1, <1>2, <1>3, AgentWritten DEF Cluster!FirstHeard, Cluster!WelcomeComesFirst
<1>10. AgentIs(x5, x5.cur, x5.want, x5.known, x5.handle, x5.busy, x5.welcomed)
  BY <1>1, AgentWritten
<1>11. Obeyed /\ Hears(m.want)
  <2>1. CASE m.kind = "welcome"
    <3>1. Cluster!Obey(Cluster!Live([x5 EXCEPT !.welcomed = TRUE], m.want), m.want)
      BY <1>3, <2>1 DEF Cluster!ApplyDown
    <3>2. AgentIs([x5 EXCEPT !.welcomed = TRUE], x5.cur, x5.want, x5.known, x5.handle, x5.busy, TRUE)
      BY <1>10, AgentChanged, Zenon
    <3>3. AgentIs(Cluster!Live([x5 EXCEPT !.welcomed = TRUE], m.want),
                  x5.cur, m.want, TRUE, x5.handle, x5.busy, TRUE)
      BY <3>2, AgentChanged, Zenon DEF Cluster!Live
    <3> QED
      BY <1>1, <1>2, <1>8, <3>1, <3>3, ObeyDoes
  <2>2. CASE m.kind # "welcome"
    <3>1. x5.welcomed = TRUE /\ x5.known = TRUE
      BY <1>9, <2>2
    <3>2. AgentIs(Cluster!Live(x5, m.want), x5.cur, m.want, TRUE, x5.handle, x5.busy, TRUE)
      <4>1. AgentIs(Cluster!Live(x5, m.want), x5.cur, m.want, TRUE, x5.handle, x5.busy, x5.welcomed)
        BY <1>10, AgentChanged, Zenon DEF Cluster!Live
      <4> QED
        BY <3>1, <4>1
    <3>3. Cluster!Obey(Cluster!Live(x5, m.want), m.want)
      BY <1>3, <1>8, <2>2, <3>1 DEF Cluster!ApplyDown, Cluster!Obey
    <3> QED
      BY <1>1, <1>2, <1>8, <3>2, <3>3, ObeyDoes
  <2> QED
    BY <2>1, <2>2
<1>12. Cluster!FirstHeard(s)'
  BY <1>1, <1>2, <1>5, <1>7, <1>11 DEF Cluster!FirstHeard, Hears
<1>13. Cluster!LastWord(s)'
  <2>1. /\ x3'[s] = x3[s] /\ x1' = x1 /\ x5'.want = m.want
        /\ x4'[s].down = d /\ x4'[s].open = x4[s].open /\ x5.cur = s
    BY <1>2, <1>5, <1>7, <1>11 DEF Hears
  <2>2. SUFFICES ASSUME x3[s].phase \in {"inserted", "snapped", "loop"},
                        x3[s].top = x1.last, ~x3[s].mixed
                 PROVE  /\ x3[s].queue # <<>> => Cluster!Final(x3[s].queue).want = x1.want
                        /\ x3[s].queue = <<>> /\ x3[s].phase = "snapped" => x3[s].snap = x1.want
                        /\ x3[s].queue = <<>> /\ x3[s].phase = "loop" /\ x4[s].open =>
                             /\ d # <<>> => Cluster!Final(d).want = x1.want
                             /\ d = <<>> => m.want = x1.want
    BY <1>1, <2>1 DEF Cluster!LastWord, Cluster!Final
  <2>3. /\ x3[s].queue # <<>> => Cluster!Final(x3[s].queue).want = x1.want
        /\ x3[s].queue = <<>> /\ x3[s].phase = "snapped" => x3[s].snap = x1.want
        /\ x3[s].queue = <<>> /\ x3[s].phase = "loop" /\ x4[s].open
             => Cluster!Final(x4[s].down).want = x1.want
    BY <1>1, <1>2, <2>2 DEF Cluster!LastWord
  <2> QED
    BY <1>4, <2>3
<1>14. Cluster!EndIsOnItsWay'
  <2>1. \A t \in Cluster!Sessions : x4'[t].up = x4[t].up
    BY <1>5, <1>7
  <2>2. ASSUME x7' = "off", ~x12', \A t \in Cluster!Sessions \ {x5'.cur} : x4'[t].up = <<>>
        PROVE  Cluster!Then(Cluster!OnTheWay, x6)'
    <3>1. CASE x6' = x6 /\ x12' = x12 /\ x7' = x7
      <4>1. x5'.cur = x5.cur
        BY <1>11 DEF Hears
      <4>2. Cluster!Then(Cluster!OnTheWay, x6)
        BY <1>1, <2>1, <2>2, <3>1, <4>1 DEF Cluster!EndIsOnItsWay
      <4>3. Cluster!OnThePlane => Cluster!OnThePlane'
        BY <1>2 DEF Cluster!OnThePlane, Cluster!Then, Cluster!Settles, Cluster!Quiet
      <4>4. Cluster!OnTheWay => Cluster!OnTheWay'
        BY <1>1, <1>2, <2>1, <4>1, <4>3
           DEF Cluster!OnTheWay, Cluster!Then, Cluster!Settles, Cluster!Quiet, Cluster!NoSession
      <4> QED
        BY <3>1, <4>2, <4>4 DEF Cluster!Then, Cluster!Settles, Cluster!Quiet
    <3>2. CASE Cluster!Settles(x6')
      BY <3>2 DEF Cluster!Then, Cluster!Settles
    <3> QED
      BY <1>11, <2>2, <3>1, <3>2 DEF Obeyed
  <2>3. x5'.cur # 0 /\ (x5'.busy => x7' # "off")
    BY <1>1, <1>2, <1>11 DEF Obeyed, Hears
  <2> QED
    BY <2>2, <2>3 DEF Cluster!EndIsOnItsWay, Cluster!NoSession
<1> QED
  BY <1>1, <1>2, <1>7, <1>11, <1>12, <1>13, <1>14, AgentStepKeeps DEF Obeyed, Hears

-----------------------------------------------------------------------------
(* The invariant of the node, and what it says. *)

LEMMA ClusterStarts == Cluster!Init => Cluster!NodeInv
<1> SUFFICES ASSUME Cluster!Init PROVE Cluster!NodeInv
  OBVIOUS
<1>1. PICK w \in BOOLEAN : x1 = [want |-> w, status |-> "created", last |-> 0]
  BY DEF Cluster!Init
<1>2. /\ x2 = 0 /\ x6 = <<>> /\ x7 = "off" /\ x8 = <<>> /\ x10 = 0 /\ x12 = FALSE
      /\ x3 = [s \in Cluster!Sessions |-> [phase |-> "none", queue |-> <<>>, snap |-> FALSE,
                                           top |-> 0, mixed |-> FALSE]]
      /\ x4 = [s \in Cluster!Sessions |-> [down |-> <<>>, up |-> <<>>, open |-> FALSE]]
      /\ x5 = [cur |-> 0, want |-> FALSE, known |-> FALSE, handle |-> FALSE,
               busy |-> FALSE, welcomed |-> FALSE]
      /\ x9 = [a \in Cluster!Actors |-> Cluster!Idle]
  BY DEF Cluster!Init, Cluster!NoSession
<1>3. 0 \in 0..MaxOps /\ 0 \in 0..MaxSessions
  BY ClusterBounds
<1>4. Cluster!Formed
  <2>1. Cluster!Idle \in Cluster!Task
    BY <1>3 DEF Cluster!Idle, Cluster!Task
  <2>2. x9 \in [Cluster!Actors -> Cluster!Task]
    BY <1>2, <2>1
  <2>3. x3 \in [Cluster!Sessions -> Cluster!Session] /\ x4 \in [Cluster!Sessions -> Cluster!Wire]
    BY <1>2, <1>3 DEF Cluster!Session, Cluster!Wire
  <2>4. x5 \in Cluster!Agent /\ x1 \in [want : BOOLEAN, status : Cluster!Statuses, last : 0..MaxOps]
    BY <1>1, <1>2, <1>3 DEF Cluster!Agent, Cluster!Statuses
  <2>5. x10 = x1.last
    BY <1>1, <1>2
  <2>6. /\ x2 \in 0..MaxSessions /\ x7 \in {"off", "starting", "running"} /\ x12 \in BOOLEAN
        /\ x6 \in Seq(Cluster!Statuses) /\ Len(x6) <= EventCap /\ x8 \in Seq(Cluster!Statuses)
    <3>1. /\ x2 = 0 /\ x6 = <<>> /\ x7 = "off" /\ x8 = <<>> /\ x12 = FALSE
      BY <1>2
    <3>2. x12 \in BOOLEAN
      BY <3>1, Zenon
    <3>3. Len(<<>>) = 0 /\ <<>> \in Seq(Cluster!Statuses) /\ EventCap >= 0
      BY ClusterBounds
    <3> QED
      BY <1>3, <3>1, <3>2, <3>3
  <2> QED
    BY <2>2, <2>3, <2>4, <2>5, <2>6 DEF Cluster!Formed
<1>5. Cluster!SenderIsHeard
  BY <1>2 DEF Cluster!SenderIsHeard, Cluster!NoSession
<1>6. Cluster!TellsTheRecord
  BY <1>2 DEF Cluster!TellsTheRecord, Cluster!Idle
<1>7. Cluster!WelcomeComesFirst
  BY <1>2 DEF Cluster!WelcomeComesFirst, Cluster!FirstHeard, Cluster!Sessions
<1>8. Cluster!LastWordIsTheWish
  BY <1>1, <1>2 DEF Cluster!LastWordIsTheWish, Cluster!LastWord
<1>9. Cluster!EndIsOnItsWay
  <2>1. Cluster!OnThePlane
    BY <1>1, <1>2, NothingIsQuiet DEF Cluster!OnThePlane, Cluster!Then
  <2>2. Cluster!Then(Cluster!OnTheWay, x6)
    BY <1>2, <2>1, NothingIsQuiet DEF Cluster!OnTheWay, Cluster!Then, Cluster!NoSession
  <2> QED
    BY <1>2, <2>2 DEF Cluster!EndIsOnItsWay
<1> QED
  BY <1>4, <1>5, <1>6, <1>7, <1>8, <1>9 DEF Cluster!NodeInv

LEMMA ClusterSteps == Cluster!NodeInv /\ [Cluster!Next]_(Cluster!vars) => Cluster!NodeInv'
<1> SUFFICES ASSUME Cluster!NodeInv, [Cluster!Next]_(Cluster!vars) PROVE Cluster!NodeInv'
  OBVIOUS
<1>1. CASE UNCHANGED Cluster!vars
  BY <1>1, SMTT(30) DEF Cluster!vars, Cluster!NodeInv, Cluster!Formed, Cluster!SenderIsHeard,
              Cluster!TellsTheRecord, Cluster!WelcomeComesFirst, Cluster!FirstHeard,
              Cluster!LastWordIsTheWish, Cluster!LastWord, Cluster!Final,
              Cluster!EndIsOnItsWay, Cluster!OnTheWay, Cluster!OnThePlane, Cluster!Then,
              Cluster!Settles, Cluster!Quiet
<1>2. CASE \E a \in Cluster!Actors :
             Cluster!StartRecord(a) \/ Cluster!Reread(a) \/ Cluster!SendDown(a)
  BY <1>2, RecordingKeeps, RereadKeeps, SendDownKeeps DEF Recording
<1>3. CASE \E a \in Operators :
             Cluster!StopRecord(a) \/ Cluster!ApplyRecord(a) \/ Cluster!UpdateRecord(a)
  BY <1>3, RecordingKeeps DEF Recording, Cluster!Actors
<1>4. CASE Cluster!ApplyEvent
  BY <1>4, ApplyEventKeeps
<1>5. CASE \E s \in Cluster!Sessions :
             \/ Cluster!Connect(s) \/ Cluster!InsertSender(s) \/ Cluster!Snapshot(s)
             \/ Cluster!Welcome(s) \/ Cluster!Forward(s) \/ Cluster!HandleUp(s)
             \/ Cluster!EndSession(s) \/ Cluster!Break(s)
             \/ Cluster!ReportEvent(s) \/ Cluster!ApplyDown(s) \/ Cluster!AgentLeaves(s)
  BY <1>5, ConnectKeeps, InsertSenderKeeps, SnapshotKeeps, WelcomeKeeps, ForwardKeeps,
     HandleUpKeeps, EndSessionKeeps, BreakKeeps, ReportEventKeeps, ApplyDownKeeps, AgentLeavesKeeps
<1>6. CASE Cluster!ServerReady \/ Cluster!ServerExits \/ Cluster!AfterLaunch
  BY <1>6, ServerReadyKeeps, ServerExitsKeeps, AfterLaunchKeeps
<1> QED
  BY <1>1, <1>2, <1>3, <1>4, <1>5, <1>6 DEF Cluster!Next

(* When all that was said has arrived, the last word is the agent's wish.     *)
LEMMA NodeKeepsWishes == Cluster!NodeInv => Cluster!NoWishLost
<1> SUFFICES ASSUME Cluster!NodeInv, NEW s \in Cluster!Sessions, Cluster!Drained(s),
                    x3[s].top = x1.last, ~x3[s].mixed
             PROVE  x5.want = x1.want
  BY DEF Cluster!NoWishLost
<1>1. Cluster!LastWord(s)
  BY DEF Cluster!NodeInv, Cluster!LastWordIsTheWish
<1> QED
  BY <1>1 DEF Cluster!LastWord, Cluster!Drained

(* When nothing is on its way, a record of a server that is off says so.       *)
LEMMA NodeRunsTruly == Cluster!NodeInv => Cluster!RunningIsReal
<1> SUFFICES ASSUME Cluster!NodeInv, x1.status = "running", ~x12, x6 = <<>>, x8 = <<>>,
                    \A s \in Cluster!Sessions : x4[s].up = <<>>, x7 = "off"
             PROVE  FALSE
  BY DEF Cluster!RunningIsReal
<1>1. Cluster!EndIsOnItsWay /\ x5 \in Cluster!Agent
  BY DEF Cluster!NodeInv, Cluster!Formed
<1>2. Cluster!Then(Cluster!OnTheWay, x6)
  BY <1>1 DEF Cluster!EndIsOnItsWay
<1>3. Cluster!OnTheWay
  BY <1>2, NothingIsQuiet DEF Cluster!Then
<1>4. x5.cur # 0 => x4[x5.cur].up = <<>>
  BY <1>1 DEF Cluster!Agent, Cluster!Sessions
<1>5. Cluster!OnThePlane
  BY <1>3, <1>4, NothingIsQuiet DEF Cluster!OnTheWay, Cluster!Then, Cluster!NoSession
<1> QED
  BY <1>5, NothingIsQuiet DEF Cluster!OnThePlane, Cluster!Then
=============================================================================
