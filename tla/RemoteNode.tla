----------------------------- MODULE RemoteNode -----------------------------
(***************************************************************************)
(* One remote node with one instance: the record of the plane, the web     *)
(* socket sessions of the node (cluster.rs), and the agent with its server *)
(* (agent_runtime.rs).  Sessions may overlap on the plane, because a        *)
(* broken connection is noticed at each end in its own time.               *)
(***************************************************************************)
EXTENDS Naturals, Sequences, FiniteSets

CONSTANTS
    Callers,        \* requests of the API that work on the instance
    Timer,          \* the auto-restart two seconds after a crash
    MaxSessions,    \* bound: connections of the agent
    MaxOps,         \* bound: operations on the record
    MaxMishaps,     \* bound: ends of the server by itself, failed stops and launches
    Budget,         \* bound: connections, operations and mishaps together
    EventCap,       \* the agent's broadcast channel (512)
    WireCap         \* bound: messages on their way, each way, and on the plane's bus

VARIABLES
    rec,        \* the plane's record of the instance
    sender,     \* AppState::agents: the session whose channel is in the map, 0 none
    sess,       \* run_session of each connection
    wire,       \* the web socket of each connection
    agent,      \* run_agent: its session and its Live entry
    events,     \* what the agent's receiver has not read yet
    server,     \* the server process on the node
    bus,        \* status events the plane published and has not applied yet
    task,       \* where each caller stands
    ops, mishaps, missed   \* what has been used of the bounds

vars == <<rec, sender, sess, wire, agent, events, server, bus, task,
          ops, mishaps, missed>>

Sessions == 1..MaxSessions
Actors == Callers \cup {Timer}
Statuses == {"created", "starting", "running", "stopping", "stopped", "crashed"}
NoSession == 0

(* can_apply_over: the transitions a published event may not make. *)
CanApplyOver(new, old) ==
    <<old, new>> \notin
        ({"stopped", "crashed", "created"} \X {"stopping"})
        \cup {<<"running", "starting">>}
        \cup ({"stopping"} \X {"running", "starting"})

Spent == ops + mishaps + Cardinality({s \in Sessions : sess[s].phase # "none"})

Msg(kind, want) == [kind |-> kind, want |-> want]
Idle == [at |-> "idle", msg |-> Msg("none", FALSE), op |-> 0]

TypeOK ==
    /\ rec \in [want: BOOLEAN, status: Statuses, last: 0..MaxOps]
    /\ sender \in 0..MaxSessions
    /\ \A s \in Sessions :
          /\ sess[s].phase \in {"none", "upgraded", "inserted", "snapped", "loop", "over"}
          /\ sess[s].top \in 0..MaxOps
          /\ wire[s].open \in BOOLEAN
    /\ agent.cur \in 0..MaxSessions /\ agent.want \in BOOLEAN /\ agent.handle \in BOOLEAN
    /\ Len(events) <= EventCap
    /\ server \in {"off", "starting", "running"}
    /\ \A a \in Actors : task[a].at \in {"idle", "due", "reread", "send"}

(* The record as it was created, or as a start of control read it back:    *)
(* the wish is kept, the status is not (with_id).                        *)
Init ==
    /\ \E w \in BOOLEAN : rec = [want |-> w, status |-> "created", last |-> 0]
    /\ sender = NoSession
    /\ sess = [s \in Sessions |-> [phase |-> "none", queue |-> <<>>,
                                   snap |-> FALSE, top |-> 0, mixed |-> FALSE]]
    /\ wire = [s \in Sessions |-> [down |-> <<>>, up |-> <<>>, open |-> FALSE]]
    /\ agent = [cur |-> NoSession, want |-> FALSE, known |-> FALSE, handle |-> FALSE,
                busy |-> FALSE, welcomed |-> FALSE]
    /\ events = <<>>
    /\ server = "off"
    /\ bus = <<>>
    /\ task = [a \in Actors |-> Idle]
    /\ ops = 0 /\ mishaps = 0 /\ missed = FALSE

-----------------------------------------------------------------------------
(* Operations on the plane: the record changes under the write lock; what  *)
(* has to be told to the agent is sent after it (task at "send").          *)

Begin(a) == /\ task[a].at = (IF a = Timer THEN "due" ELSE "idle")
            /\ ops < MaxOps /\ Spent < Budget

Quietly == UNCHANGED <<sender, sess, wire, agent, events, server, bus,
                       mishaps, missed>>

(* The record is written; "last" (history) numbers what was done to it.   *)
Recorded(a, r, at, msg) ==
    /\ rec' = [r EXCEPT !.last = ops + 1]
    /\ ops' = ops + 1
    /\ task' = [task EXCEPT ![a] = [at |-> at, msg |-> msg, op |-> ops + 1]]
    /\ Quietly

(* start_instance of a record that is up writes the wish alone, and reads *)
(* the record again for the message.                                      *)
StartRecord(a) ==
    /\ Begin(a)
    /\ IF rec.status \in {"running", "starting"}
       THEN Recorded(a, [rec EXCEPT !.want = TRUE], "reread", Msg("apply", TRUE))
       ELSE Recorded(a, [rec EXCEPT !.want = TRUE, !.status = "starting"],
                     "send", Msg("apply", TRUE))

Reread(a) ==
    /\ task[a].at = "reread"
    /\ task' = [task EXCEPT ![a] = [at |-> "send", msg |-> Msg("apply", rec.want),
                                    op |-> rec.last]]
    /\ UNCHANGED <<rec, ops>> /\ Quietly

StopRecord(a) ==
    /\ Begin(a) /\ a # Timer
    /\ Recorded(a, [rec EXCEPT !.want = FALSE, !.status = "stopping"],
                "send", Msg("stop", FALSE))

(* apply_spec_body: a whole specification, of which the wish counts here. *)
ApplyRecord(a) ==
    /\ Begin(a) /\ a # Timer
    /\ \E w \in BOOLEAN :
          Recorded(a, [rec EXCEPT !.want = w], "send", Msg("apply", w))

(* update_instance with a wish: the record changes and nothing is sent.   *)
UpdateRecord(a) ==
    /\ Begin(a) /\ a # Timer
    /\ \E w \in BOOLEAN : Recorded(a, [rec EXCEPT !.want = w], "idle", Idle.msg)

(* send_down: into the channel in the map, or an error.  top and mixed    *)
(* are history: the newest operation told to a session, and whether an    *)
(* older one was told after it.                                           *)
SendDown(a) ==
    /\ task[a].at = "send"
    /\ task' = [task EXCEPT ![a] = Idle]
    /\ LET op == task[a].op
           told == [sess[sender] EXCEPT !.queue = Append(@, task[a].msg),
                                        !.mixed = @ \/ op < sess[sender].top,
                                        !.top = IF op > @ THEN op ELSE @]
       IN sess' = IF sender = NoSession THEN sess ELSE [sess EXCEPT ![sender] = told]
    /\ UNCHANGED <<rec, sender, wire, agent, events, server, bus,
                   ops, mishaps, missed>>

(* The applier of the plane's own bus.  A crash starts the auto-restart. *)
ApplyEvent ==
    /\ bus # <<>>
    /\ bus' = Tail(bus)
    /\ LET ok == CanApplyOver(Head(bus), rec.status)
       IN /\ rec' = IF ok THEN [rec EXCEPT !.status = Head(bus)] ELSE rec
          /\ task' = IF ok /\ Head(bus) = "crashed" /\ task[Timer].at = "idle"
                     THEN [task EXCEPT ![Timer].at = "due"] ELSE task
    /\ UNCHANGED <<sender, sess, wire, agent, events, server, ops, mishaps, missed>>

-----------------------------------------------------------------------------
(* run_session. *)

SessionVars == <<agent, events, server, task, ops, mishaps>>

(* agent_ws and connect_async: the token is found only in a listed node. *)
Connect(s) ==
    /\ agent.cur = NoSession /\ ~agent.busy /\ Spent < Budget
    /\ sess[s].phase = "none" /\ \A t \in 1..(s - 1) : sess[t].phase # "none"
    /\ sess' = [sess EXCEPT ![s].phase = "upgraded"]
    /\ wire' = [wire EXCEPT ![s].open = TRUE]
    /\ agent' = [agent EXCEPT !.cur = s, !.welcomed = FALSE]
    /\ events' = <<>>
    /\ UNCHANGED <<rec, sender, server, bus, task, ops, mishaps, missed>>

InsertSender(s) ==
    /\ sess[s].phase = "upgraded"
    /\ sender' = s
    /\ sess' = [sess EXCEPT ![s].phase = "inserted"]
    /\ UNCHANGED <<rec, wire, bus, missed, SessionVars>>

Snapshot(s) ==
    /\ sess[s].phase = "inserted"
    /\ sess' = [sess EXCEPT ![s].phase = "snapped",
                            ![s].snap = rec.want,
                            ![s].top = IF sess[s].queue = <<>> THEN rec.last ELSE @]
    /\ UNCHANGED <<rec, sender, wire, bus, missed, SessionVars>>

Closed_KeepsSender(s) ==  \* seeded fault: the channel stays in the map
    /\ sess' = [sess EXCEPT ![s].phase = "over", ![s].queue = <<>>]
    /\ wire' = [wire EXCEPT ![s].open = FALSE, ![s].up = <<>>]
    /\ sender' = sender
    /\ missed' = (missed \/ wire[s].up # <<>>)

Closed(s) == /\ sess' = [sess EXCEPT ![s].phase = "over", ![s].queue = <<>>]
             /\ wire' = [wire EXCEPT ![s].open = FALSE, ![s].up = <<>>]
             /\ sender' = NoSession
             /\ missed' = (missed \/ wire[s].up # <<>>)

(* What is sent into a broken connection may be lost without an error.    *)
Sent(s, msg) ==
    /\ Len(wire[s].down) < WireCap
    /\ wire' = [wire EXCEPT ![s].down = IF wire[s].open THEN Append(@, msg) ELSE @]

Welcome(s) ==
    /\ sess[s].phase = "snapped"
    /\ \/ /\ Sent(s, [kind |-> "welcome", want |-> sess[s].snap])
          /\ sess' = [sess EXCEPT ![s].phase = "loop"]
          /\ UNCHANGED <<sender, missed>>
       \/ ~wire[s].open /\ Closed(s)
    /\ UNCHANGED <<rec, bus, SessionVars>>

Forward_Early(s) ==  \* seeded fault: the queue is served before the welcome is out
    /\ sess[s].phase \in {"snapped", "loop"} /\ sess[s].queue # <<>>
    /\ \/ /\ Sent(s, Head(sess[s].queue))
          /\ sess' = [sess EXCEPT ![s].queue = Tail(@)]
          /\ UNCHANGED <<sender, missed>>
       \/ ~wire[s].open /\ Closed(s)
    /\ UNCHANGED <<rec, bus, SessionVars>>

Forward(s) ==
    /\ sess[s].phase = "loop" /\ sess[s].queue # <<>>
    /\ \/ /\ Sent(s, Head(sess[s].queue))
          /\ sess' = [sess EXCEPT ![s].queue = Tail(@)]
          /\ UNCHANGED <<sender, missed>>
       \/ ~wire[s].open /\ Closed(s)
    /\ UNCHANGED <<rec, bus, SessionVars>>

(* handle_up: the status of an agent is written as it comes, and          *)
(* published.  "seen" (history) is the newest event written.              *)
HandleUp(s) ==
    /\ sess[s].phase = "loop" /\ wire[s].up # <<>> /\ Len(bus) < WireCap
    /\ wire' = [wire EXCEPT ![s].up = Tail(@)]
    /\ rec' = [rec EXCEPT !.status = Head(wire[s].up)]
    /\ bus' = Append(bus, Head(wire[s].up))
    /\ missed' = (missed \/ s # agent.cur)
    /\ UNCHANGED <<sess, sender, SessionVars>>

(* The end of a session removes the sender of its node, whichever it is.  *)
EndSession(s) ==
    /\ sess[s].phase = "loop" /\ ~wire[s].open
    /\ Closed(s)
    /\ UNCHANGED <<rec, bus, SessionVars>>

Break(s) ==
    /\ wire[s].open
    /\ wire' = [wire EXCEPT ![s].open = FALSE]
    /\ UNCHANGED <<rec, sender, sess, bus, missed, SessionVars>>

-----------------------------------------------------------------------------
(* The agent: one task reads its receiver of events and the socket.        *)

AgentVars == <<rec, sender, sess, bus, task, ops>>

(* Events reach a receiver only while there is one; the oldest are pushed  *)
(* out when it is full.                                                    *)
Emit_DropsNewest(statuses) ==  \* seeded fault: what does not fit is not kept
    LET all == events \o statuses
        keep == IF Len(all) > EventCap THEN EventCap ELSE Len(all)
    IN /\ events' = IF agent.cur = NoSession THEN <<>> ELSE SubSeq(all, 1, keep)
       /\ missed' = (agent.cur = NoSession)

Emit_Unbounded(statuses) ==  \* seeded fault: nothing is pushed out
    /\ events' = IF agent.cur = NoSession THEN <<>> ELSE events \o statuses
    /\ missed' = (agent.cur = NoSession)

Emit(statuses) ==
    LET all == events \o statuses
        drop == IF Len(all) > EventCap THEN Len(all) - EventCap ELSE 0
    IN /\ events' = IF agent.cur = NoSession THEN <<>> ELSE SubSeq(all, drop + 1, Len(all))
       /\ missed' = (agent.cur = NoSession)

(* What init says of the server: it is up, or it has ended.                *)
ServerReady ==
    /\ server = "starting"
    /\ server' = "running"
    /\ Emit(<<"running">>)
    /\ UNCHANGED <<AgentVars, wire, agent, mishaps>>

ServerExits ==
    /\ server # "off" /\ mishaps < MaxMishaps /\ Spent < Budget
    /\ mishaps' = mishaps + 1
    /\ server' = "off"
    /\ \E end \in {"stopped", "crashed"} : Emit(<<end>>)
    /\ UNCHANGED <<AgentVars, wire, agent>>

Here(s) == agent.cur = s /\ s # NoSession /\ ~agent.busy

Up(s, msg) ==
    /\ Len(wire[s].up) < WireCap
    /\ wire' = [wire EXCEPT ![s].up = IF wire[s].open THEN Append(@, msg) ELSE @]

(* A status event goes up; a terminal one takes the handle.                *)
ReportEvent(s) ==
    /\ Here(s) /\ events # <<>>
    /\ events' = Tail(events)
    /\ Up(s, Head(events))
    /\ agent' = IF Head(events) \in {"stopped", "crashed"}
                THEN [agent EXCEPT !.handle = FALSE] ELSE agent
    /\ missed' = (missed \/ ~wire[s].open)
    /\ UNCHANGED <<AgentVars, server, mishaps>>

Live(ag, want) == [ag EXCEPT !.want = want, !.known = TRUE]

LaunchRefused(ag) == /\ agent' = [ag EXCEPT !.handle = FALSE]
                     /\ Emit(<<"crashed">>)
                     /\ UNCHANGED server

(* apply_one with the wish to run: a handle that answers is left alone;    *)
(* otherwise the server is launched, and "starting" follows the launch.    *)
(* init refuses to launch what it already manages.                         *)
WantRunning(ag) ==
    \/ /\ ag.handle /\ server # "off"
       /\ agent' = ag
       /\ UNCHANGED <<server, events, mishaps, missed>>
    \/ /\ server = "off"
       /\ server' = "starting"
       /\ agent' = [ag EXCEPT !.handle = TRUE, !.busy = TRUE]
       /\ UNCHANGED <<events, mishaps, missed>>
    \/ /\ server = "off" /\ mishaps < MaxMishaps /\ Spent < Budget
       /\ mishaps' = mishaps + 1
       /\ LaunchRefused(ag)
    \/ /\ ~ag.handle /\ server # "off"
       /\ LaunchRefused(ag)
       /\ UNCHANGED mishaps

AfterLaunch ==
    /\ agent.busy
    /\ agent' = [agent EXCEPT !.busy = FALSE]
    /\ Emit(<<"starting">>)
    /\ UNCHANGED <<AgentVars, wire, server, mishaps>>

(* stop_live: init reports the end, then the agent itself.  A stop that is *)
(* not confirmed changes nothing and reports nothing.                      *)
WantStopped(ag) ==
    \/ /\ agent' = [ag EXCEPT !.handle = FALSE]
       /\ server' = IF ag.handle THEN "off" ELSE server
       /\ Emit(IF ag.handle /\ server # "off" THEN <<"stopped", "stopped">> ELSE <<"stopped">>)
       /\ UNCHANGED mishaps
    \/ /\ ag.handle /\ mishaps < MaxMishaps /\ Spent < Budget
       /\ mishaps' = mishaps + 1
       /\ agent' = ag
       /\ UNCHANGED <<server, events, missed>>

Obey(ag, want) == IF want THEN WantRunning(ag) ELSE WantStopped(ag)

(* apply_down. *)
ApplyDown(s) ==
    /\ Here(s) /\ wire[s].down # <<>>
    /\ wire' = [wire EXCEPT ![s].down = Tail(@)]
    /\ LET msg == Head(wire[s].down)
       IN \/ /\ msg.kind = "welcome"
             /\ Obey(Live([agent EXCEPT !.welcomed = TRUE], msg.want), msg.want)
          \/ /\ msg.kind = "apply"
             /\ Obey(Live(agent, msg.want), msg.want)
          \/ /\ msg.kind = "stop" /\ agent.known
             /\ WantStopped(Live(agent, FALSE))
          \/ /\ msg.kind = "stop" /\ ~agent.known
             /\ UNCHANGED <<agent, server, events, mishaps, missed>>
    /\ UNCHANGED AgentVars

(* serve_once ends by an error of the socket; its receiver goes with it.   *)
AgentLeaves(s) ==
    /\ Here(s) /\ ~wire[s].open
    /\ agent' = [agent EXCEPT !.cur = NoSession]
    /\ events' = <<>>
    /\ wire' = [wire EXCEPT ![s].down = <<>>]
    /\ missed' = (missed \/ events # <<>>)
    /\ UNCHANGED <<AgentVars, server, mishaps>>

-----------------------------------------------------------------------------
Next ==
    \/ \E a \in Actors : StartRecord(a) \/ Reread(a) \/ SendDown(a)
    \/ \E a \in Callers : StopRecord(a) \/ ApplyRecord(a) \/ UpdateRecord(a)
    \/ ApplyEvent
    \/ \E s \in Sessions :
          \/ Connect(s) \/ InsertSender(s) \/ Snapshot(s) \/ Welcome(s)
          \/ Forward(s) \/ HandleUp(s) \/ EndSession(s) \/ Break(s)
          \/ ReportEvent(s) \/ ApplyDown(s) \/ AgentLeaves(s)
    \/ ServerReady \/ ServerExits \/ AfterLaunch

Spec == Init /\ [][Next]_vars

-----------------------------------------------------------------------------
(* Everything said to session s has reached the agent.                     *)
Drained(s) == /\ agent.cur = s /\ wire[s].open /\ ~agent.busy
              /\ sess[s].phase = "loop" /\ sess[s].queue = <<>>
              /\ agent.welcomed /\ wire[s].down = <<>>

(* No wish is lost: when the last operation on the record was told to the  *)
(* session, by its welcome or in order by a message, and all has arrived,  *)
(* the agent wishes what the plane wishes.  It rests on inserting the      *)
(* sender before the record is read for the welcome (cluster.rs:63-86).    *)
NoWishLost ==
    \A s \in Sessions :
        Drained(s) /\ sess[s].top = rec.last /\ ~sess[s].mixed
            => agent.want = rec.want

(* A record that says Running after the newest event of the server was     *)
(* written and published has a server (cluster.rs:182, apply_event).       *)
RunningIsReal ==
    /\ rec.status = "running" /\ ~missed
    /\ events = <<>> /\ bus = <<>> /\ \A s \in Sessions : wire[s].up = <<>>
    => server # "off"

(* The sender in the map is of a session that still reads its channel.     *)
SenderIsHeard == sender # NoSession => sess[sender].phase \in {"inserted", "snapped", "loop"}

(* What the three above rest on.  The plane and the agent keep records of    *)
(* these kinds; an order is a message that carries a wish.                  *)
Orders == {Msg("apply", TRUE), Msg("apply", FALSE), Msg("stop", FALSE)}
Welcomes == {Msg("welcome", TRUE), Msg("welcome", FALSE)}
Session == [phase : {"none", "upgraded", "inserted", "snapped", "loop", "over"},
            queue : Seq(Orders), snap : BOOLEAN, top : 0..MaxOps, mixed : BOOLEAN]
Wire == [down : Seq(Orders \cup Welcomes), up : Seq(Statuses), open : BOOLEAN]
Agent == [cur : 0..MaxSessions, want : BOOLEAN, known : BOOLEAN, handle : BOOLEAN,
          busy : BOOLEAN, welcomed : BOOLEAN]
Task == [at : {"idle", "due", "reread", "send"}, msg : Orders \cup {Idle.msg}, op : 0..MaxOps]

Formed ==
    /\ rec \in [want : BOOLEAN, status : Statuses, last : 0..MaxOps]
    /\ ops = rec.last
    /\ sender \in 0..MaxSessions
    /\ sess \in [Sessions -> Session]
    /\ wire \in [Sessions -> Wire]
    /\ agent \in Agent
    /\ events \in Seq(Statuses) /\ Len(events) <= EventCap
    /\ server \in {"off", "starting", "running"}
    /\ bus \in Seq(Statuses)
    /\ task \in [Actors -> Task]
    /\ missed \in BOOLEAN

(* What is about to be told is no newer than the record, and what is as new *)
(* tells its wish.                                                          *)
TellsTheRecord ==
    \A a \in Actors : task[a].at = "send" =>
        /\ task[a].msg \in Orders
        /\ task[a].op <= rec.last
        /\ task[a].op = rec.last => task[a].msg.want = rec.want

(* The welcome is the first that an agent hears of a session.               *)
FirstHeard(s) ==
    /\ sess[s].phase \in {"none", "upgraded"} => sess[s].queue = <<>>
    /\ sess[s].phase \in {"none", "upgraded", "inserted", "snapped"} => wire[s].down = <<>>
    /\ sess[s].phase = "none" => wire[s].up = <<>>
    /\ sess[s].phase \in {"none", "over"} => ~wire[s].open
    /\ agent.cur = s => sess[s].phase # "none"
    /\ agent.cur = s /\ ~agent.welcomed =>
          /\ wire[s].down # <<>> => Head(wire[s].down).kind = "welcome"
          /\ sess[s].phase = "loop" /\ wire[s].open => wire[s].down # <<>>

WelcomeComesFirst ==
    /\ agent.welcomed => agent.known
    /\ \A s \in Sessions : FirstHeard(s)

Final(q) == q[Len(q)]

(* The last word of a session that was told the newest operation, and none  *)
(* older after it, is the wish of the record, wherever that word is by now.  *)
LastWord(s) ==
    /\ sess[s].top <= rec.last
    /\ sess[s].phase \in {"inserted", "snapped", "loop"}
         /\ sess[s].top = rec.last /\ ~sess[s].mixed =>
          /\ sess[s].queue # <<>> => Final(sess[s].queue).want = rec.want
          /\ sess[s].queue = <<>> /\ sess[s].phase = "snapped" => sess[s].snap = rec.want
          /\ sess[s].queue = <<>> /\ sess[s].phase = "loop" /\ wire[s].open /\ agent.cur = s =>
                /\ wire[s].down # <<>> => Final(wire[s].down).want = rec.want
                /\ wire[s].down = <<>> /\ agent.welcomed => agent.want = rec.want

LastWordIsTheWish == \A s \in Sessions : LastWord(s)

Terminal == {"stopped", "crashed"}
Settles(q) == \E k \in 1..Len(q) : q[k] \in Terminal /\ \A j \in (k + 1)..Len(q) : q[j] # "running"
Quiet(q) == \A k \in 1..Len(q) : q[k] # "running"

(* What follows the session of the agent: q after what "rest" is about.      *)
Then(rest, q) == Settles(q) \/ (Quiet(q) /\ rest)

(* While a server is off and nothing of its end was missed, no "running" is  *)
(* the newest of what is written, on its way, or to be read by the agent.    *)
OnThePlane == Then(rec.status # "running", bus)
OnTheWay == IF agent.cur = NoSession THEN OnThePlane ELSE Then(OnThePlane, wire[agent.cur].up)
EndIsOnItsWay ==
    /\ server = "off" /\ ~missed /\ (\A s \in Sessions \ {agent.cur} : wire[s].up = <<>>)
         => Then(OnTheWay, events)
    /\ agent.cur = NoSession => events = <<>> /\ ~agent.busy
    /\ agent.busy /\ server = "off" => events # <<>> /\ Final(events) \in Terminal

NodeInv ==
    Formed /\ SenderIsHeard /\ TellsTheRecord /\ WelcomeComesFirst /\ LastWordIsTheWish /\ EndIsOnItsWay
=============================================================================
