----------------------------- MODULE ServerProcess -----------------------------
(***************************************************************************)
(* A server under init (process.rs, container.rs, runtime.rs): a child, a    *)
(* process adopted after a restart, a container or the demo.  Commands and   *)
(* "stop" go through a pipe file that is opened for reading too, so that it  *)
(* outlives a server as long as one task of init holds it; a container is   *)
(* asked with an exec that its server does not see.                         *)
(***************************************************************************)
EXTENDS Naturals, Sequences, FiniteSets

CONSTANTS
    Kinds,         \* of servers: "child", "adopted", "container", "demo"
    PipeCap,       \* lines the pipe holds (64 KiB)
    MaxLaunches,   \* bound: launches
    MaxCommands    \* bound: commands, and mishaps

VARIABLES
    kind,
    launch,     \* number of the last launch
    server,     \* "none", "up", "hung", "ending" or "gone"
    box,        \* there is a container of this name
    entry,      \* Entry of the registry: "none", "held", or "taken" by a stop
    order,      \* stop_tx: "none", "graceful" or "force"
    sup,        \* the task that supervises: "none", "watch", "ask", "wait", "kill", "close"
    told,       \* the last StatusChanged
    pipe,       \* lines nobody has read: the launch they were written for and the text
    holders,    \* launches whose ticker still has the channel of commands, and so the pipe
    used,
    odd         \* history: "stubborn", "revived", "inherited", "overlap", "unasked", "left", "ended"

vars == <<kind, launch, server, box, entry, order, sup, told, pipe, holders, used, odd>>

Piped == kind \in {"child", "adopted"}
Alive == server \in {"up", "hung", "ending"}
\* the task that writes commands stands in write_all, with the lock of the pipe
Blocked == Len(pipe) > PipeCap
Held == holders # {} \/ Blocked

TypeOK ==
    /\ kind \in Kinds /\ launch \in 0..MaxLaunches /\ box \in BOOLEAN
    /\ entry \in {"none", "held", "taken"} /\ told \in {"none", "running", "stopped", "crashed"}
    /\ Len(pipe) <= PipeCap + 1 /\ holders \subseteq 1..MaxLaunches

Init ==
    /\ kind \in Kinds /\ launch = 0 /\ server = "none" /\ box = FALSE /\ entry = "none"
    /\ order = "none" /\ sup = "none" /\ told = "none" /\ pipe = << >>
    /\ holders = {} /\ used = 0 /\ odd = {}

-----------------------------------------------------------------------------
(* The pipe still has what an earlier server left in it when a task holds it. *)
Begin ==
    /\ entry = "none" /\ sup = "none" /\ launch < MaxLaunches /\ ~Alive
    /\ launch' = launch + 1 /\ server' = "up"
    /\ entry' = "held" /\ order' = "none" /\ sup' = "watch" /\ told' = "running"
    /\ pipe' = IF Held THEN pipe ELSE << >>
    /\ odd' = IF Held THEN odd \cup {"overlap"} ELSE odd
    /\ holders' = holders \cup {launch + 1}
    /\ UNCHANGED <<kind, used>>

(* attach_child, adopt_running, spawn_demo; docker create refuses a name that *)
(* is taken, and then its container is supervised like an adopted process.  *)
LaunchChild == kind = "child" /\ Begin /\ UNCHANGED box
Adopt == kind = "adopted" /\ Begin /\ UNCHANGED box
LaunchDemo == kind = "demo" /\ Begin /\ UNCHANGED box
LaunchContainer == kind = "container" /\ ~box /\ Begin /\ box' = TRUE

(* A container is created and does not start: it stays, under its name.     *)
StartFails ==
    /\ kind = "container" /\ entry = "none" /\ ~box /\ ~Alive /\ used < MaxCommands
    /\ box' = TRUE /\ server' = "gone" /\ used' = used + 1
    /\ odd' = odd \cup {"left"}
    /\ UNCHANGED <<kind, launch, entry, order, sup, told, pipe, holders>>

(* Registry::command and the "tps" of the ticker, written by a task in the    *)
(* order of a queue: what was accepted before a stop may be written after.  *)
Command ==
    /\ entry # "none" /\ Piped /\ used < MaxCommands /\ ~Blocked
    /\ used' = used + 1
    /\ pipe' = Append(pipe, <<launch, "command">>)
    /\ UNCHANGED <<kind, launch, server, box, entry, order, sup, told, holders, odd>>

(* Outside: the server reads a line, hangs, recovers, ends.  Docker starts   *)
(* anew what was not stopped.                                               *)
ReadLine ==
    /\ server = "up" /\ pipe # << >>
    /\ LET line == Head(pipe) IN
       /\ server' = IF line[2] = "stop" THEN "ending" ELSE "up"
       /\ odd' = IF line[2] = "stop" /\ line[1] # launch THEN odd \cup {"inherited"} ELSE odd
    /\ pipe' = Tail(pipe)
    /\ UNCHANGED <<kind, launch, box, entry, order, sup, told, holders, used>>

Hang ==
    /\ server \in {"up", "hung"} /\ used < MaxCommands
    /\ server' = (IF server = "up" THEN "hung" ELSE "up") /\ used' = used + 1
    /\ UNCHANGED <<kind, launch, box, entry, order, sup, told, pipe, holders, odd>>

Exit ==
    /\ Alive /\ server' = "gone"
    /\ UNCHANGED <<kind, launch, box, entry, order, sup, told, pipe, holders, used, odd>>

DockerRestarts ==
    /\ kind = "container" /\ box /\ server = "gone" /\ used < MaxCommands
    /\ sup \in {"none", "watch"} /\ "left" \notin odd
    /\ server' = "up" /\ used' = used + 1 /\ odd' = odd \cup {"revived"}
    /\ UNCHANGED <<kind, launch, box, entry, order, sup, told, pipe, holders>>

-----------------------------------------------------------------------------
(* Registry::stop: takes the handle; a second order only waits.             *)
Stop(mode) ==
    /\ entry = "held"
    /\ entry' = "taken" /\ order' = mode
    /\ UNCHANGED <<kind, launch, server, box, sup, told, pipe, holders, used, odd>>

(* supervise, the loop of adopt_running, the loop of the demo.              *)
TakeOrder ==
    /\ sup = "watch" /\ order # "none"
    /\ sup' = CASE kind = "demo" -> "close" [] order = "graceful" -> "ask" [] OTHER -> "kill"
    /\ server' = IF kind = "demo" THEN "gone" ELSE server
    /\ UNCHANGED <<kind, launch, box, entry, order, told, pipe, holders, used, odd>>

(* request_graceful_stop: through the pipe it needs the lock of the writer   *)
(* and room, and no timeout runs yet.  In a container it runs a command.     *)
Ask ==
    /\ sup = "ask"
    /\ Piped => Len(pipe) < PipeCap
    /\ pipe' = IF Piped THEN Append(pipe, <<launch, "stop">>) ELSE pipe
    /\ sup' = "wait"
    /\ UNCHANGED <<kind, launch, server, box, entry, order, told, holders, used, odd>>

(* It has ended within 30 s; of a container no pid is known (spawn returns   *)
(* 0), and wait_pid_exit takes that for an end.                             *)
WaitDone ==
    /\ sup = "wait" /\ (server = "gone" \/ kind = "container")
    /\ sup' = "close"
    /\ UNCHANGED <<kind, launch, server, box, entry, order, told, pipe, holders, used, odd>>

WaitTimeout ==
    /\ sup = "wait" /\ Piped /\ Alive
    /\ sup' = "kill"
    /\ LET asked == server = "ending" \/ \E k \in DOMAIN pipe : pipe[k] = <<launch, "stop">> IN
       odd' = IF asked THEN odd ELSE odd \cup {"unasked"}
    /\ UNCHANGED <<kind, launch, server, box, entry, order, told, pipe, holders, used>>

(* force_kill: a child is waited for, of an adopted process only 5 s.       *)
Kill_NotWaited(stubborn) ==  \* seeded fault: nobody waits for a server that was killed
    /\ sup = "kill" /\ sup' = "close"
    /\ ~stubborn /\ server' \in {server, "gone"}
    /\ UNCHANGED <<kind, launch, box, entry, order, told, pipe, holders, used, odd>>

Kill(stubborn) ==
    /\ sup = "kill"
    /\ stubborn => kind = "adopted" /\ used < MaxCommands
    /\ server' = IF stubborn THEN server ELSE "gone"
    /\ used' = IF stubborn THEN used + 1 ELSE used
    /\ odd' = IF stubborn THEN odd \cup {"stubborn"} ELSE odd
    /\ sup' = "close"
    /\ UNCHANGED <<kind, launch, box, entry, order, told, pipe, holders>>

(* The end is seen: by wait() of a child, by a poll each second of others.   *)
SeeEnd ==
    /\ sup = "watch" /\ server = "gone"
    /\ sup' = "close"
    /\ UNCHANGED <<kind, launch, server, box, entry, order, told, pipe, holders, used, odd>>

(* The terminal event; the registry drops the entry and, when a stop took    *)
(* the handle, removes the container by force, running or not.               *)
Close ==
    /\ sup = "close" /\ sup' = "none"
    /\ \E status \in {"stopped", "crashed"} :
          /\ status = "crashed" => kind = "child" /\ order = "none"
          /\ told' = status
    /\ entry' = "none"
    /\ IF kind = "container" /\ entry = "taken" THEN box' = FALSE /\ server' = "gone"
       ELSE UNCHANGED <<box, server>>
    /\ odd' = IF entry = "held" THEN odd \cup {"ended"} ELSE odd
    /\ UNCHANGED <<kind, launch, order, pipe, holders, used>>

(* metric_ticker ends at its next turn; then the writer, and its pipe.      *)
TickerEnds(n) ==
    /\ n \in holders /\ (n < launch \/ sup = "none")
    /\ holders' = holders \ {n}
    /\ pipe' = IF holders' = {} /\ ~Blocked /\ sup = "none" THEN << >> ELSE pipe
    /\ UNCHANGED <<kind, launch, server, box, entry, order, sup, told, used, odd>>

Next ==
    \/ LaunchChild \/ Adopt \/ LaunchDemo \/ LaunchContainer \/ StartFails \/ Command \/ ReadLine \/ Hang \/ Exit \/ DockerRestarts
    \/ \E mode \in {"graceful", "force"} : Stop(mode)
    \/ TakeOrder \/ Ask \/ WaitDone \/ WaitTimeout \/ SeeEnd \/ Close
    \/ \E stubborn \in BOOLEAN : Kill(stubborn)
    \/ \E n \in holders : TickerEnds(n)

Spec == Init /\ [][Next]_vars

-----------------------------------------------------------------------------
(* A server that was said to have ended has: unless a kill did not take      *)
(* effect in 5 s, or docker started the container again.                    *)
ToldIsGone ==
    sup = "none" /\ told \in {"stopped", "crashed"} =>
        ~Alive \/ odd \cap {"stubborn", "revived"} # {}

(* A graceful stop kills only a server whose pipe has the "stop", or that    *)
(* has read it (process.rs:487, :649).                                      *)
KilledWasAsked == "unasked" \notin odd

(* A server ends by a "stop" that was for the one before it only if it was   *)
(* launched while a task of that one still held the pipe (process.rs:142).   *)
NoInheritedStop == "inherited" \in odd => "overlap" \in odd

(* After a stop the name of the container is free for the next launch; only  *)
(* one that ended by itself, or never started, still has it (registry.rs:221).*)
NameIsFree == box /\ entry = "none" => odd \cap {"left", "ended"} # {}

ServersEndCleanly == ToldIsGone /\ KilledWasAsked /\ NoInheritedStop /\ NameIsFree
=============================================================================
