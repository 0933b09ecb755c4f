------------------------------ MODULE Transfers ------------------------------
(***************************************************************************)
(* A transfer and its progress (http.rs and progress.rs of init, http.rs of *)
(* control).  Init downloads or unpacks and reports by events, which travel  *)
(* beside the answer of the call, through a queue, the pipe and a bus that  *)
(* forgets its oldest; control downloads into memory itself.  Of the label, *)
(* the counts and the percentage nothing is kept.                            *)
(***************************************************************************)
EXTENDS Integers, Sequences

CONSTANTS
    Size,           \* bound: pieces of the file
    BusCap,         \* bound: events the bus holds
    MaxTroubles     \* bound: deaths of init, calls out of time

VARIABLES
    kind,           \* "fetch" and "extract" by init, "memory" by control
    place,          \* pieces that are where they belong
    out, reply,     \* of init: events and answer not yet written
    pipe,           \* frames not yet read by control
    bus,            \* events not yet consumed
    caller,         \* "waits", or what it was told
    last, shown,    \* the last phase that was shown, and all of them
    up,             \* init lives
    troubles, mishap  \* how many, and whether an event or an answer was lost

vars == <<kind, place, out, reply, pipe, bus, caller, last, shown, up, troubles, mishap>>
control == <<pipe, bus, caller, last, shown>>

Phases == {"download", "done", "failed"}
Phase(event) ==
    CASE event \in {"started", "progress"} -> "download"
      [] event = "completed" -> "done"
      [] event = "failed" -> "failed"

TypeOK ==
    /\ kind \in {"fetch", "extract", "memory"} /\ place \in 0..Size
    /\ reply \in {"none", "ok", "error", "sent"} /\ caller \in {"waits", "ok", "error"}
    /\ Len(bus) <= BusCap /\ shown \subseteq Phases /\ last \in Phases \cup {"none"}

Init ==
    /\ kind \in {"fetch", "extract", "memory"}
    /\ place = 0 /\ out = (IF kind = "memory" THEN <<>> ELSE <<"started">>)
    /\ reply = "none" /\ pipe = <<>> /\ bus = <<>> /\ caller = "waits"
    /\ last = "none" /\ shown = {} /\ up = TRUE /\ troubles = 0 /\ mishap = FALSE

Show(phase) == last' = phase /\ shown' = shown \cup {phase}
Working == kind # "memory" /\ up /\ reply = "none"

-----------------------------------------------------------------------------
(* Progress is reported at most so often.                                    *)
Report == out' \in {out, Append(out, "progress")}

(* A piece arrives and is written.                                           *)
Piece ==
    /\ Working /\ place < Size
    /\ place' = place + 1 /\ Report
    /\ UNCHANGED <<kind, reply, up, troubles, mishap>> /\ UNCHANGED control

End_Throttled(event, answer) ==  \* seeded fault: the last event is one of those that may be left out
    out' \in {out, Append(out, event)} /\ reply' = answer

(* The last event is always sent, before the answer is given.                *)
End(event, answer) == out' = Append(out, event) /\ reply' = answer

Finish ==
    /\ Working /\ place = Size /\ End("completed", "ok")
    /\ UNCHANGED <<kind, place, up, troubles, mishap>> /\ UNCHANGED control

(* The server breaks off, the disk is full, the archive is damaged.          *)
Fail ==
    /\ Working /\ End("failed", "error")
    /\ UNCHANGED <<kind, place, up, troubles, mishap>> /\ UNCHANGED control

(* Two tasks of init write frames: one the events, one the answer.           *)
WriteEvent ==
    /\ up /\ out # <<>> /\ pipe' = Append(pipe, Head(out)) /\ out' = Tail(out)
    /\ UNCHANGED <<kind, place, reply, bus, caller, last, shown, up, troubles, mishap>>
WriteAnswer ==
    /\ up /\ reply \in {"ok", "error"} /\ pipe' = Append(pipe, reply) /\ reply' = "sent"
    /\ UNCHANGED <<kind, place, out, bus, caller, last, shown, up, troubles, mishap>>

-----------------------------------------------------------------------------
(* The bus forgets its oldest event when it is full.                         *)
ReadEvent ==
    /\ pipe # <<>> /\ Head(pipe) \notin {"ok", "error"} /\ pipe' = Tail(pipe)
    /\ bus' = Append(IF Len(bus) = BusCap THEN Tail(bus) ELSE bus, Head(pipe))
    /\ mishap' = (mishap \/ Len(bus) = BusCap)
    /\ UNCHANGED <<kind, place, out, reply, caller, last, shown, up, troubles>>

Consume ==
    /\ bus # <<>> /\ Show(Phase(Head(bus))) /\ bus' = Tail(bus)
    /\ UNCHANGED <<kind, place, out, reply, pipe, caller, up, troubles, mishap>>

(* A download that fails is reported by control as well, whoever failed; an  *)
(* archive is not.                                                           *)
Told(answer) ==
    /\ caller = "waits" /\ caller' = answer
    /\ IF answer = "error" /\ kind # "extract" THEN Show("failed") ELSE UNCHANGED <<last, shown>>

ReadAnswer ==
    /\ pipe # <<>> /\ Head(pipe) \in {"ok", "error"} /\ pipe' = Tail(pipe)
    /\ IF caller = "waits" THEN Told(Head(pipe)) ELSE UNCHANGED <<caller, last, shown>>
    /\ UNCHANGED <<kind, place, out, reply, bus, up, troubles, mishap>>

(* Control downloads into memory.                                            *)
Fetch ==
    /\ kind = "memory" /\ caller = "waits" /\ place < Size
    /\ place' = place + 1 /\ (Show("download") \/ UNCHANGED <<last, shown>>)
    /\ UNCHANGED <<kind, out, reply, pipe, bus, caller, up, troubles, mishap>>
FetchEnds ==
    /\ kind = "memory" /\ caller = "waits"
    /\ \/ place = Size /\ caller' = "ok" /\ Show("done")
       \/ Told("error")
    /\ UNCHANGED <<kind, place, out, reply, pipe, bus, up, troubles, mishap>>

-----------------------------------------------------------------------------
(* Init dies with what it did not write.  Control reads what is in the pipe, *)
(* and then its end.                                                         *)
Die ==
    /\ kind # "memory" /\ up /\ troubles < MaxTroubles
    /\ up' = FALSE /\ out' = <<>> /\ reply' = "sent" /\ troubles' = troubles + 1 /\ mishap' = TRUE
    /\ UNCHANGED <<kind, place>> /\ UNCHANGED control
PipeEnds ==
    /\ ~up /\ pipe = <<>> /\ Told("error")
    /\ UNCHANGED <<kind, place, out, reply, pipe, bus, up, troubles, mishap>>

(* The call runs out of time, and init works on.                             *)
TimeOut ==
    /\ kind # "memory" /\ troubles < MaxTroubles /\ Told("error")
    /\ troubles' = troubles + 1 /\ mishap' = TRUE
    /\ UNCHANGED <<kind, place, out, reply, pipe, bus, up>>

Next ==
    \/ Piece \/ Finish \/ Fail \/ WriteEvent \/ WriteAnswer
    \/ ReadEvent \/ Consume \/ ReadAnswer \/ Fetch \/ FetchEnds
    \/ Die \/ PipeEnds \/ TimeOut

Spec == Init /\ [][Next]_vars

-----------------------------------------------------------------------------
(* What was reported as done is there.                                       *)
WholeWhenTold == caller = "ok" => place = Size

(* A transfer that went well is never shown as failed; a download that did   *)
(* not is, whatever was lost.                                                *)
FailureIsTold ==
    /\ caller = "ok" => "failed" \notin shown
    /\ caller = "error" /\ kind # "extract" => "failed" \in shown

(* When all events have come and none was lost, what is shown last is what   *)
(* the caller was told.                                                      *)
Settled == caller # "waits" /\ out = <<>> /\ pipe = <<>> /\ bus = <<>> /\ reply \in {"none", "sent"}
EndIsShown ==
    (Settled /\ ~mishap) => last = (IF caller = "ok" THEN "done" ELSE "failed")

TransfersSound == WholeWhenTold /\ FailureIsTold /\ EndIsShown
=============================================================================
