----------------------------- MODULE InitSession -----------------------------
(***************************************************************************)
(* One connection between cocktail-control and cocktail-init: the client   *)
(* (init_client.rs) with its callers and its reader task, the two pipes,   *)
(* and the server loop (server.rs) with the requests in work.              *)
(*                                                                         *)
(* A frame carries the id the client gave it; `of` names the call it was   *)
(* made for, so that a wrong delivery can be seen.  Parameters, results    *)
(* and events are left out.  A supervisor that starts init again begins a  *)
(* new session.                                                            *)
(***************************************************************************)
EXTENDS Naturals, Sequences, FiniteSets

CONSTANTS
    Calls,      \* the calls made in this session
    None,
    PipeCap,    \* bound: frames stdin takes before a writer has to wait
    WorkLimit   \* requests the server works on at a time

ASSUME SessionAssumption ==
    /\ None \notin Calls
    /\ PipeCap \in Nat \ {0}
    /\ WorkLimit \in Nat \ {0}

VARIABLES
    call,     \* call[c]: where call() of c is and how it ended
    inbox,    \* inbox[c]: what was sent to the oneshot of c
    pending,  \* the entries of the table: an id and the call whose sender it is
    nextId,
    closed,   \* the watch the client's closed() waits on
    stdin,    \* whether the client still has the writing end
    reader,   \* the reader task, and how its loop ended
    down,     \* frames on their way to init, the unflushed ones last
    inPipe,   \* how many of them were flushed
    init,     \* whether cocktail-init is there
    work,     \* requests it has taken and not begun
    busy,     \* requests whose handler runs
    ran,      \* ran[c]: how often a handler began for c
    up        \* answers on their way to control

table == <<pending, nextId>>
pipeDown == <<stdin, down, inPipe>>
server == <<init, work, busy, ran>>
vars == <<call, inbox, table, closed, reader, pipeDown, server, up>>
-----------------------------------------------------------------------------
Frames == [id : Nat, of : Calls \cup {None}]

\* The rest of a frame whose writer was dropped in the middle.
Torn == [id |-> 0, of |-> None]

Frame(c) == [id |-> call[c].id, of |-> c]

CallType ==
    [pc : {"idle", "numbered", "listed", "writing", "waiting", "over"},
     id : Nat,
     outcome : {"none", "answered", "refused", "unknown", "abandoned"},
     answer : Calls \cup {None}]

TypeOK ==
    /\ call \in [Calls -> CallType]
    /\ inbox \in [Calls -> Calls \cup {None}]
    /\ pending \subseteq [id : Nat, of : Calls]
    /\ nextId \in Nat \ {0}
    /\ closed \in BOOLEAN
    /\ stdin \in {"open", "taken"}
    /\ reader \in [pc : {"reads", "failed", "closed", "cleared", "ended"},
                   how : {"none", "eof", "error"}]
    /\ down \in Seq(Frames)
    /\ inPipe \in 0..Len(down)
    /\ init \in {"serves", "gone"}
    /\ work \subseteq Frames
    /\ busy \subseteq Frames
    /\ IsFiniteSet(work \cup busy)
    /\ Cardinality(work \cup busy) <= WorkLimit
    /\ ran \in [Calls -> Nat]
    /\ up \in Seq(Frames)

Init ==
    /\ call = [c \in Calls |-> [pc |-> "idle", id |-> 0, outcome |-> "none",
                                answer |-> None]]
    /\ inbox = [c \in Calls |-> None]
    /\ pending = {}
    /\ nextId = 1
    /\ closed = FALSE
    /\ stdin = "open"
    /\ reader = [pc |-> "reads", how |-> "none"]
    /\ down = <<>>
    /\ inPipe = 0
    /\ init = "serves"
    /\ work = {}
    /\ busy = {}
    /\ ran = [c \in Calls |-> 0]
    /\ up = <<>>
-----------------------------------------------------------------------------
(***************************************************************************)
(* A call                                                                  *)
(***************************************************************************)
At(c, pc) == call[c].pc = pc

Goto(c, pc) == call' = [call EXCEPT ![c].pc = pc]

Return(c, outcome, answer) ==
    call' = [call EXCEPT ![c].pc = "over", ![c].outcome = outcome,
                         ![c].answer = answer]

\* The table without what it holds for an id (HashMap::remove).
Without(id) == {e \in pending : e.id # id}

\* The sender of c is alive: it is in the table.
Listed(c) == [id |-> call[c].id, of |-> c] \in pending

\* Nobody is in the middle of a write; the lock of stdin can be taken.
Unlocked == \A c \in Calls : ~At(c, "writing")

BeginRefused(c) ==
    /\ At(c, "idle")
    /\ closed
    /\ Return(c, "refused", None)
    /\ UNCHANGED <<inbox, table, closed, reader, pipeDown, server, up>>

Begin_SameId(c) ==  \* seeded fault: the counter stays
    /\ At(c, "idle")
    /\ ~closed
    /\ call' = [call EXCEPT ![c].pc = "numbered", ![c].id = nextId]
    /\ UNCHANGED <<inbox, table, closed, reader, pipeDown, server, up>>

\* The connection was not closed when it was looked at.
Begin(c) ==
    /\ At(c, "idle")
    /\ ~closed
    /\ call' = [call EXCEPT ![c].pc = "numbered", ![c].id = nextId]
    /\ nextId' = nextId + 1
    /\ UNCHANGED <<inbox, pending, closed, reader, pipeDown, server, up>>

Register(c) ==
    /\ At(c, "numbered")
    /\ pending' = Without(call[c].id) \cup {[id |-> call[c].id, of |-> c]}
    /\ Goto(c, "listed")
    /\ UNCHANGED <<inbox, nextId, closed, reader, pipeDown, server, up>>

\* An error of the write ends the call.
Refused(c) ==
    /\ pending' = Without(call[c].id)
    /\ Return(c, "refused", None)
    /\ UNCHANGED <<inbox, nextId, closed, reader, pipeDown, server, up>>

StartWrite(c) ==
    /\ At(c, "listed")
    /\ Unlocked
    /\ stdin = "open"
    /\ Goto(c, "writing")
    /\ UNCHANGED <<inbox, table, closed, reader, pipeDown, server, up>>

StdinTaken(c) ==
    /\ At(c, "listed")
    /\ Unlocked
    /\ stdin = "taken"
    /\ Refused(c)

\* The flush takes along what a cancelled writer left in the buffer.
FinishWrite(c) ==
    /\ At(c, "writing")
    /\ init = "serves"
    /\ inPipe < PipeCap
    /\ down' = Append(down, Frame(c))
    /\ inPipe' = Len(down) + 1
    /\ Goto(c, "waiting")
    /\ UNCHANGED <<inbox, table, closed, reader, stdin, server, up>>

WriteFails_Ignored(c) ==  \* seeded fault: the error is not looked at
    /\ At(c, "writing")
    /\ init = "gone"
    /\ Goto(c, "waiting")
    /\ UNCHANGED <<inbox, table, closed, reader, pipeDown, server, up>>

WriteFails(c) ==
    /\ At(c, "writing")
    /\ init = "gone"
    /\ Refused(c)

Answered(c) ==
    /\ At(c, "waiting")
    /\ inbox[c] # None
    /\ Return(c, "answered", inbox[c])
    /\ UNCHANGED <<inbox, table, closed, reader, pipeDown, server, up>>

\* The sender was dropped: the reader cleared the table.
Dropped(c) ==
    /\ At(c, "waiting")
    /\ inbox[c] = None
    /\ ~Listed(c)
    /\ pending' = Without(call[c].id)
    /\ Return(c, "unknown", None)
    /\ UNCHANGED <<inbox, nextId, closed, reader, pipeDown, server, up>>

TimesOut_EntryKept(c) ==  \* seeded fault
    /\ At(c, "waiting")
    /\ inbox[c] = None
    /\ Return(c, "unknown", None)
    /\ UNCHANGED <<inbox, table, closed, reader, pipeDown, server, up>>

TimesOut(c) ==
    /\ At(c, "waiting")
    /\ inbox[c] = None
    /\ pending' = Without(call[c].id)
    /\ Return(c, "unknown", None)
    /\ UNCHANGED <<inbox, nextId, closed, reader, pipeDown, server, up>>

\* The caller's future is dropped, as when its HTTP request is given up.  The
\* table keeps its entry.
Abandon(c) ==
    /\ call[c].pc \in {"numbered", "listed", "waiting"}
    /\ Return(c, "abandoned", None)
    /\ UNCHANGED <<inbox, table, closed, reader, pipeDown, server, up>>

\* In the middle of a write it leaves nothing, a piece of its frame, or the
\* whole frame in the buffer, unflushed.
AbandonWrite(c) ==
    /\ At(c, "writing")
    /\ \E left \in {<<>>, <<Torn>>, <<Frame(c)>>} : down' = down \o left
    /\ Return(c, "abandoned", None)
    /\ UNCHANGED <<inbox, table, closed, reader, stdin, inPipe, server, up>>
-----------------------------------------------------------------------------
(***************************************************************************)
(* The reader task of the client, and close_stdin                          *)
(***************************************************************************)
\* An answer to an id nobody waits for is dropped.
ReadResponse ==
    /\ reader.pc = "reads"
    /\ up # <<>>
    /\ LET f == Head(up) IN
          /\ pending' = Without(f.id)
          /\ inbox' = [c \in Calls |-> IF [id |-> f.id, of |-> c] \in pending
                                       THEN f.of ELSE inbox[c]]
    /\ up' = Tail(up)
    /\ UNCHANGED <<call, nextId, closed, reader, pipeDown, server>>

ReaderEof_TableKept ==  \* seeded fault
    /\ reader.pc = "reads"
    /\ init = "gone"
    /\ up = <<>>
    /\ reader' = [pc |-> "failed", how |-> "eof"]
    /\ UNCHANGED <<call, inbox, table, closed, pipeDown, server, up>>

\* The end of the stream clears the table inside the loop.
ReaderEof ==
    /\ reader.pc = "reads"
    /\ init = "gone"
    /\ up = <<>>
    /\ pending' = {}
    /\ reader' = [pc |-> "failed", how |-> "eof"]
    /\ UNCHANGED <<call, inbox, nextId, closed, pipeDown, server, up>>

\* A frame over 64 MiB ends the loop, and with it the reading end of stdout.
ReaderFails ==
    /\ reader.pc = "reads"
    /\ up # <<>>
    /\ up' = <<>>
    /\ reader' = [pc |-> "failed", how |-> "error"]
    /\ UNCHANGED <<call, inbox, table, closed, pipeDown, server>>

MarkClosed ==
    /\ reader.pc = "failed"
    /\ closed' = TRUE
    /\ reader' = [reader EXCEPT !.pc = "closed"]
    /\ UNCHANGED <<call, inbox, table, pipeDown, server, up>>

ClearPending_Skipped ==  \* seeded fault
    /\ reader.pc = "closed"
    /\ reader' = [reader EXCEPT !.pc = "cleared"]
    /\ UNCHANGED <<call, inbox, table, closed, pipeDown, server, up>>

ClearPending ==
    /\ reader.pc = "closed"
    /\ pending' = {}
    /\ reader' = [reader EXCEPT !.pc = "cleared"]
    /\ UNCHANGED <<call, inbox, nextId, closed, pipeDown, server, up>>

\* What was not flushed goes with the writing end.
LetGo ==
    /\ Unlocked
    /\ stdin' = "taken"
    /\ down' = SubSeq(down, 1, inPipe)
    /\ UNCHANGED inPipe

TakeStdin ==
    /\ reader.pc = "cleared"
    /\ LetGo
    /\ reader' = [reader EXCEPT !.pc = "ended"]
    /\ UNCHANGED <<call, inbox, table, closed, server, up>>

CloseStdin ==
    /\ stdin = "open"
    /\ LetGo
    /\ UNCHANGED <<call, inbox, table, closed, reader, server, up>>
-----------------------------------------------------------------------------
(***************************************************************************)
(* The server                                                              *)
(***************************************************************************)
HasRoom_OneMore == Cardinality(work \cup busy) <= WorkLimit  \* seeded fault
HasRoom == Cardinality(work \cup busy) < WorkLimit

ServerTakes ==
    /\ init = "serves"
    /\ HasRoom
    /\ inPipe > 0
    /\ Head(down) # Torn
    /\ work' = work \cup {Head(down)}
    /\ down' = Tail(down)
    /\ inPipe' = inPipe - 1
    /\ UNCHANGED <<call, inbox, table, closed, reader, stdin, init, busy, ran, up>>

\* The rest of a torn frame is made up from the next one, which is lost; what
\* then follows is in the middle of a frame again.  The complaint about it is
\* answered to id 0, which is nobody's.
ServerSwallows ==
    /\ init = "serves"
    /\ HasRoom
    /\ inPipe > 1
    /\ Head(down) = Torn
    /\ down' = [Tail(down) EXCEPT ![1] = Torn]
    /\ inPipe' = inPipe - 1
    /\ UNCHANGED <<call, inbox, table, closed, reader, stdin, server, up>>

Run(f) ==
    /\ f \in work
    /\ work' = work \ {f}
    /\ busy' = busy \cup {f}
    /\ ran' = [ran EXCEPT ![f.of] = @ + 1]
    /\ UNCHANGED <<call, inbox, table, closed, reader, pipeDown, init, up>>

\* With nobody at the other end the answer is lost.
Respond(f) ==
    /\ f \in busy
    /\ busy' = busy \ {f}
    /\ up' = IF reader.pc = "reads" THEN Append(up, f) ELSE up
    /\ UNCHANGED <<call, inbox, table, closed, reader, pipeDown, init, work, ran>>

\* The process ends: what it had taken and what is in its stdin is lost.
Gone ==
    /\ init = "serves"
    /\ init' = "gone"
    /\ work' = {}
    /\ busy' = {}
    /\ down' = <<>>
    /\ inPipe' = 0
    /\ UNCHANGED <<call, inbox, table, closed, reader, stdin, ran, up>>

\* EOF, at the end of a frame or within one: requests in work are aborted.
ServerEof ==
    /\ stdin = "taken"
    /\ down \in {<<>>, <<Torn>>}
    /\ HasRoom
    /\ Gone

\* Bytes of a frame taken for a length, a handler that panics, an answer that
\* cannot be written, a kill.
InitDies == Gone
-----------------------------------------------------------------------------
CallStep(c) ==
    \/ BeginRefused(c) \/ Begin(c) \/ Register(c)
    \/ StartWrite(c) \/ StdinTaken(c) \/ FinishWrite(c) \/ WriteFails(c)
    \/ Answered(c) \/ Dropped(c) \/ TimesOut(c)
    \/ Abandon(c) \/ AbandonWrite(c)

ReaderStep ==
    ReadResponse \/ ReaderEof \/ ReaderFails \/ MarkClosed \/ ClearPending \/ TakeStdin

ServerStep ==
    \/ ServerTakes \/ ServerSwallows \/ ServerEof \/ InitDies
    \/ \E f \in work : Run(f)
    \/ \E f \in busy : Respond(f)

Next == (\E c \in Calls : CallStep(c)) \/ ReaderStep \/ CloseStdin \/ ServerStep

Spec == Init /\ [][Next]_vars
-----------------------------------------------------------------------------
(***************************************************************************)
(* Fairness: the reader and every call that has begun go on, as Tokio      *)
(* polls a task that is ready.  Nothing is asked of init, of the time      *)
(* limits or of whoever begins or abandons a call.                         *)
(***************************************************************************)
GoesOn(c) ==
    \/ Register(c) \/ StartWrite(c) \/ StdinTaken(c) \/ WriteFails(c)
    \/ Answered(c) \/ Dropped(c)

FairSpec ==
    /\ Spec
    /\ WF_vars(ReadResponse \/ ReaderEof)
    /\ WF_vars(MarkClosed)
    /\ WF_vars(ClearPending)
    /\ WF_vars(TakeStdin)
    /\ \A c \in Calls : WF_vars(GoesOn(c))
-----------------------------------------------------------------------------
(***************************************************************************)
(* What holds throughout a session                                         *)
(***************************************************************************)
\* A number belongs to one call, and a call that goes on has one.
Numbered ==
    \A c \in Calls :
        /\ call[c].id < nextId
        /\ call[c].pc \notin {"idle", "over"} => call[c].id # 0
        /\ call[c].pc = "idle" => call[c].id = 0
        /\ \A d \in Calls : (call[c].id # 0 /\ call[d].id = call[c].id) => d = c

\* How a call ended is known when it is over, and only then.
Undecided ==
    \A c \in Calls :
        /\ At(c, "over") <=> call[c].outcome # "none"
        /\ ~At(c, "over") => call[c].answer = None

\* A handler began at most once, for a call whose frame was handed over.
HandedOver(c) == call[c].pc \in {"waiting", "over"} /\ call[c].outcome # "refused"

RunsOnce ==
    \A c \in Calls :
        /\ ran[c] \in {0, 1}
        /\ ran[c] = 1 => HandedOver(c) /\ call[c].id # 0
        /\ call[c].outcome = "answered" => ran[c] = 1 /\ call[c].answer = c

\* An entry of the table is that of its call.
EntriesOwned ==
    \A e \in pending : e.id # 0 /\ call[e.of].id = e.id

\* What was sent to a caller is its own answer, and its entry is gone.
InboxOwned ==
    \A c \in Calls : inbox[c] # None =>
        inbox[c] = c /\ ran[c] = 1 /\ \A e \in pending : e.of # c

\* A frame somewhere is the frame of its call, which began as often as n says.
Genuine(f, n) ==
    f.of \in Calls /\ f = Frame(f.of) /\ f.id # 0 /\ HandedOver(f.of) /\ ran[f.of] = n

FramesGenuine ==
    /\ \A i \in DOMAIN down : down[i] = Torn \/ Genuine(down[i], 0)
    /\ \A f \in work : Genuine(f, 0)
    /\ \A f \in busy : Genuine(f, 1)
    /\ \A i \in DOMAIN up : Genuine(up[i], 1)

\* No request is on its way twice, or on its way and taken.
FramesOnce ==
    /\ \A i, j \in DOMAIN down : (down[i] # Torn /\ down[i] = down[j]) => i = j
    /\ \A i \in DOMAIN down : down[i] \notin work

\* A reader that saw the end of the stream is right: init is gone.
EofIsTrue == reader.how = "eof" => init = "gone"

\* A call that returned has left the table, whichever way it took; only one
\* whose caller went away may still be there.
Forgotten ==
    \A c \in Calls : (At(c, "over") /\ call[c].outcome # "abandoned")
        => \A e \in pending : e.of # c

\* After the end of the stream nobody waits who would not be woken, however
\* late a call was registered (the clear inside reader_loop).
EofLeavesNobody ==
    \A c \in Calls :
        (reader.how = "eof" /\ At(c, "waiting")) => (~Listed(c) \/ inbox[c] # None)

SessionInv ==
    /\ Numbered
    /\ Undecided
    /\ RunsOnce
    /\ EntriesOwned
    /\ InboxOwned
    /\ FramesGenuine
    /\ FramesOnce
    /\ EofIsTrue
    /\ Forgotten
    /\ EofLeavesNobody
-----------------------------------------------------------------------------
Verdict(c) ==
    CASE At(c, "idle") -> "idle"
      [] At(c, "over") -> IF call[c].outcome = "abandoned" THEN "unknown"
                          ELSE call[c].outcome
      [] OTHER -> "asked"

Service == INSTANCE InitService WITH
    verdict <- [c \in Calls |-> Verdict(c)],
    answer <- [c \in Calls |-> call[c].answer],
    runs <- ran

\* The session keeps the promise of InitService through interleaved calls, time
\* limits, cancelled callers, torn frames and the death of either end: each
\* answer goes to its own request, no request runs twice, and a refused one
\* never runs.
ImplementsService == Service!Spec

\* After the end of the stream every call that began returns, without the help
\* of its time limit.
EofReachesAll ==
    \A c \in Calls : (reader.how = "eof" /\ ~At(c, "idle")) ~> At(c, "over")

\* When the loop of the reader ends, in whichever way, the calls that wait are
\* told (the clear after reader_loop).
WaitersTold ==
    \A c \in Calls : (reader.pc = "failed" /\ At(c, "waiting")) ~> At(c, "over")
=============================================================================
