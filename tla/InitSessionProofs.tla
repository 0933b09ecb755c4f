--------------------------- MODULE InitSessionProofs ---------------------------
(***************************************************************************)
(* Proofs about InitSession, for every set of calls, every capacity of the *)
(* pipe and every limit on the requests in work: types, the invariant      *)
(* SessionInv, and that the session implements InitService.                *)
(***************************************************************************)
EXTENDS InitSession, FiniteSetTheorems, TLAPS

\* The frames a call writes are frames.
LEMMA FrameTyped ==
    /\ Torn \in Frames
    /\ TypeOK => \A c \in Calls : Frame(c) \in Frames
  BY DEF Torn, Frames, Frame, TypeOK, CallType

\* Ending a call leaves well-typed calls.
LEMMA ReturnTyped ==
    ASSUME TypeOK, NEW c \in Calls,
           NEW outcome \in {"none", "answered", "refused", "unknown", "abandoned"},
           NEW answer \in Calls \cup {None},
           Return(c, outcome, answer)
    PROVE  call' \in [Calls -> CallType]
  <1>1. call \in [Calls -> CallType] /\ call[c] \in CallType
    BY DEF TypeOK
  <1>2. [call[c] EXCEPT !.pc = "over", !.outcome = outcome, !.answer = answer]
          \in CallType
    BY <1>1 DEF CallType
  <1>3. call' = [call EXCEPT ![c] =
          [call[c] EXCEPT !.pc = "over", !.outcome = outcome, !.answer = answer]]
    BY <1>1 DEF Return
  <1> QED BY <1>1, <1>2, <1>3

\* So does moving one to another point.
LEMMA GotoTyped ==
    ASSUME TypeOK, NEW c \in Calls,
           NEW pc \in {"numbered", "listed", "writing", "waiting"},
           Goto(c, pc)
    PROVE  call' \in [Calls -> CallType]
  <1>1. call \in [Calls -> CallType] /\ call[c] \in CallType
    BY DEF TypeOK
  <1>2. [call[c] EXCEPT !.pc = pc] \in CallType
    BY <1>1 DEF CallType
  <1> QED BY <1>1, <1>2 DEF Goto

\* A step of a call keeps every type.
LEMMA CallStepTyped ==
    ASSUME TypeOK, NEW c \in Calls, CallStep(c)
    PROVE  TypeOK'
  <1> USE DEF TypeOK, table, pipeDown, server
  <1>1. CASE BeginRefused(c)
    BY <1>1, ReturnTyped DEF BeginRefused
  <1>2. CASE Begin(c)
    <2>1. call \in [Calls -> CallType] /\ call[c] \in CallType /\ nextId \in Nat
      OBVIOUS
    <2>2. [call[c] EXCEPT !.pc = "numbered", !.id = nextId] \in CallType
      BY <2>1 DEF CallType
    <2>3. call' = [call EXCEPT ![c] =
            [call[c] EXCEPT !.pc = "numbered", !.id = nextId]]
      BY <1>2, <2>1 DEF Begin
    <2>4. call' \in [Calls -> CallType]
      BY <2>1, <2>2, <2>3
    <2> QED BY <1>2, <2>4 DEF Begin
  <1>3. CASE Register(c)
    <2>1. pending' \subseteq [id : Nat, of : Calls]
      BY <1>3 DEF Register, Without, CallType
    <2> QED BY <1>3, <2>1, GotoTyped DEF Register
  <1>4. CASE StartWrite(c)
    BY <1>4, GotoTyped DEF StartWrite
  <1>5. CASE Refused(c)
    BY <1>5, ReturnTyped DEF Refused, Without
  <1>6. CASE FinishWrite(c)
    BY <1>6, GotoTyped, FrameTyped DEF FinishWrite
  <1>7. CASE Answered(c)
    BY <1>7, ReturnTyped DEF Answered
  <1>8. CASE Dropped(c) \/ TimesOut(c)
    BY <1>8, ReturnTyped DEF Dropped, TimesOut, Without
  <1>9. CASE Abandon(c)
    BY <1>9, ReturnTyped DEF Abandon
  <1>10. CASE AbandonWrite(c)
    <2> PICK left \in {<<>>, <<Torn>>, <<Frame(c)>>} : down' = down \o left
      BY <1>10 DEF AbandonWrite
    <2>0. Torn \in Frames /\ Frame(c) \in Frames
      BY FrameTyped
    <2>1. left \in Seq(Frames)
      <3> <<>> \in Seq(Frames) /\ <<Torn>> \in Seq(Frames)
        BY <2>0
      <3> <<Frame(c)>> \in Seq(Frames)
        BY <2>0
      <3> QED OBVIOUS
    <2>2. down' \in Seq(Frames) /\ inPipe \in 0..Len(down')
      BY <2>1
    <2> QED BY <1>10, <2>2, ReturnTyped DEF AbandonWrite
  <1> QED
    BY <1>1, <1>2, <1>3, <1>4, <1>5, <1>6, <1>7, <1>8, <1>9, <1>10
    DEF CallStep, StdinTaken, WriteFails

\* A step of the reader keeps every type.
LEMMA ReaderStepTyped ==
    ASSUME TypeOK, ReaderStep \/ CloseStdin
    PROVE  TypeOK'
  <1> USE DEF TypeOK, table, pipeDown, server
  <1>1. CASE ReadResponse
    <2>1. Head(up) \in Frames /\ Tail(up) \in Seq(Frames)
      BY <1>1 DEF ReadResponse
    <2>2. inbox' \in [Calls -> Calls \cup {None}]
      BY <1>1, <2>1 DEF ReadResponse, Frames
    <2>3. pending' \subseteq [id : Nat, of : Calls]
      BY <1>1 DEF ReadResponse, Without
    <2> QED BY <1>1, <2>1, <2>2, <2>3 DEF ReadResponse
  <1>2. CASE ReaderEof
    BY <1>2 DEF ReaderEof
  <1>3. CASE ReaderFails
    BY <1>3 DEF ReaderFails
  <1>4. CASE MarkClosed \/ ClearPending
    BY <1>4 DEF MarkClosed, ClearPending
  <1>5. CASE TakeStdin \/ CloseStdin
    <2>1. SubSeq(down, 1, inPipe) \in Seq(Frames)
          /\ Len(SubSeq(down, 1, inPipe)) = inPipe
      OBVIOUS
    <2>2. /\ stdin' = "taken"
          /\ down' = SubSeq(down, 1, inPipe)
          /\ inPipe' = inPipe
          /\ reader' = reader \/ reader' = [reader EXCEPT !.pc = "ended"]
          /\ UNCHANGED <<call, inbox, table, closed, server, up>>
      BY <1>5 DEF TakeStdin, CloseStdin, LetGo
    <2>3. reader' \in [pc : {"reads", "failed", "closed", "cleared", "ended"},
                       how : {"none", "eof", "error"}]
      BY <2>2
    <2>4. down' \in Seq(Frames) /\ inPipe' \in 0..Len(down')
      BY <2>1, <2>2
    <2> QED BY <2>2, <2>3, <2>4
  <1> QED BY <1>1, <1>2, <1>3, <1>4, <1>5 DEF ReaderStep

\* A step of the server keeps every type, and the limit on its work.
LEMMA ServerStepTyped ==
    ASSUME TypeOK, ServerStep
    PROVE  TypeOK'
  <1> USE DEF TypeOK, table, pipeDown, server
  <1>0. WorkLimit \in Nat \ {0}
    BY SessionAssumption
  <1>1. CASE ServerTakes
    <2>1. down # <<>> /\ Head(down) \in Frames /\ Tail(down) \in Seq(Frames)
          /\ Len(Tail(down)) = Len(down) - 1
      BY <1>1 DEF ServerTakes
    <2>2. work' \cup busy' = (work \cup busy) \cup {Head(down)}
      BY <1>1 DEF ServerTakes
    <2> DEFINE taken == work \cup busy
           more == taken \cup {Head(down)}
    <2>4. IsFiniteSet(taken) /\ Cardinality(taken) \in Nat
          /\ Cardinality(taken) < WorkLimit
      BY <1>1, FS_CardinalityType DEF ServerTakes, HasRoom
    <2>5. IsFiniteSet(more)
          /\ (Cardinality(more) = Cardinality(taken)
              \/ Cardinality(more) = Cardinality(taken) + 1)
      <3> HIDE DEF taken
      <3> QED BY <2>4, FS_AddElement
    <2>6. Cardinality(more) <= WorkLimit
      <3> HIDE DEF taken, more
      <3> QED BY <1>0, <2>4, <2>5
    <2>7. IsFiniteSet(work' \cup busy') /\ Cardinality(work' \cup busy') <= WorkLimit
      BY <2>2, <2>5, <2>6
    <2> QED BY <1>1, <2>1, <2>7 DEF ServerTakes
  <1>2. CASE ServerSwallows
    <2>1. Tail(down) \in Seq(Frames) /\ Len(Tail(down)) = Len(down) - 1
          /\ Len(Tail(down)) >= 1
      BY <1>2 DEF ServerSwallows
    <2>2. [Tail(down) EXCEPT ![1] = Torn] \in Seq(Frames)
          /\ Len([Tail(down) EXCEPT ![1] = Torn]) = Len(down) - 1
      BY <2>1, FrameTyped
    <2> QED BY <1>2, <2>2 DEF ServerSwallows
  <1>3. CASE Gone
    BY <1>0, <1>3, FS_EmptySet DEF Gone
  <1>4. ASSUME NEW f \in work, Run(f)
        PROVE  TypeOK'
    <2>1. work' \cup busy' = work \cup busy
      BY <1>4 DEF Run
    <2>2. ran' \in [Calls -> Nat]
      <3>1. CASE f.of \in Calls
        BY <1>4, <3>1 DEF Run
      <3>2. CASE f.of \notin Calls
        BY <1>4, <3>2 DEF Run
      <3> QED BY <3>1, <3>2
    <2> QED BY <1>4, <2>1, <2>2 DEF Run
  <1>5. ASSUME NEW f \in busy, Respond(f)
        PROVE  TypeOK'
    <2>1. work' \cup busy' \subseteq work \cup busy
      BY <1>5 DEF Respond
    <2>2. IsFiniteSet(work' \cup busy')
          /\ Cardinality(work' \cup busy') <= Cardinality(work \cup busy)
      BY <2>1, FS_Subset
    <2>3. Cardinality(work' \cup busy') <= WorkLimit
      BY <1>0, <2>2, FS_CardinalityType
    <2>4. up' \in Seq(Frames)
      BY <1>5 DEF Respond
    <2> QED BY <1>5, <2>2, <2>3, <2>4 DEF Respond
  <1> QED
    BY <1>1, <1>2, <1>3, <1>4, <1>5 DEF ServerStep, ServerEof, InitDies

\* Type correctness: the tables, frames and states of a session stay what they
\* are declared to be, and init never works on more requests than its limit.
THEOREM SessionTyped == Spec => []TypeOK
  <1>1. Init => TypeOK
    <2>1. IsFiniteSet({} \cup {}) /\ Cardinality({} \cup {}) <= WorkLimit
      BY FS_EmptySet, SessionAssumption
    <2>2. Init => call \in [Calls -> CallType]
      BY DEF Init, CallType
    <2>3. Init => down \in Seq(Frames) /\ up \in Seq(Frames) /\ inPipe \in 0..Len(down)
      BY DEF Init
    <2>4. Init => ran \in [Calls -> Nat] /\ inbox \in [Calls -> Calls \cup {None}]
      BY DEF Init
    <2>5. Init => IsFiniteSet(work \cup busy)
                  /\ Cardinality(work \cup busy) <= WorkLimit
      BY <2>1 DEF Init
    <2>6. Init => /\ pending = {} /\ work = {} /\ busy = {}
                  /\ nextId \in Nat \ {0}
                  /\ stdin \in {"open", "taken"} /\ init \in {"serves", "gone"}
      BY DEF Init
    <2>7. Init => closed \in BOOLEAN
      BY DEF Init
    <2>8. Init => reader \in
                    [pc : {"reads", "failed", "closed", "cleared", "ended"},
                     how : {"none", "eof", "error"}]
      BY DEF Init
    <2>9. {} \subseteq Frames /\ {} \subseteq [id : Nat, of : Calls]
      OBVIOUS
    <2> QED BY <2>2, <2>3, <2>4, <2>5, <2>6, <2>7, <2>8, <2>9 DEF TypeOK
  <1>2. TypeOK /\ [Next]_vars => TypeOK'
    <2> SUFFICES ASSUME TypeOK, [Next]_vars
                 PROVE  TypeOK'
      OBVIOUS
    <2>1. CASE UNCHANGED vars
      BY <2>1 DEF TypeOK, vars, table, pipeDown, server
    <2> QED
      BY <2>1, CallStepTyped, ReaderStepTyped, ServerStepTyped DEF Next
  <1> QED BY <1>1, <1>2, PTL DEF Spec
-----------------------------------------------------------------------------
(***************************************************************************)
(* SessionInv is inductive: requests are numbered once, a frame is on its  *)
(* way at most once, entries and answers belong to their calls, and the    *)
(* end of the stream leaves nobody waiting.                                *)
(***************************************************************************)
\* The other calls are left alone.
Kept(c) == \A d \in Calls : d # c => call'[d] = call[d]

\* What the end of a call changes, field by field.
LEMMA ReturnSays ==
    ASSUME TypeOK, NEW c \in Calls, NEW outcome, NEW answer,
           Return(c, outcome, answer)
    PROVE  /\ Kept(c)
           /\ call'[c].pc = "over" /\ call'[c].id = call[c].id
           /\ call'[c].outcome = outcome /\ call'[c].answer = answer
  <1>1. call \in [Calls -> CallType] /\ call[c] \in CallType
    BY DEF TypeOK
  <1>2. call' = [call EXCEPT ![c] =
          [call[c] EXCEPT !.pc = "over", !.outcome = outcome, !.answer = answer]]
    BY <1>1 DEF Return
  <1> QED BY <1>1, <1>2 DEF Kept, CallType

\* What moving a call changes, field by field.
LEMMA GotoSays ==
    ASSUME TypeOK, NEW c \in Calls, NEW pc, Goto(c, pc)
    PROVE  /\ Kept(c)
           /\ call'[c].pc = pc /\ call'[c].id = call[c].id
           /\ call'[c].outcome = call[c].outcome /\ call'[c].answer = call[c].answer
  <1>1. call \in [Calls -> CallType] /\ call[c] \in CallType
    BY DEF TypeOK
  <1>2. call' = [call EXCEPT ![c] = [call[c] EXCEPT !.pc = pc]]
    BY <1>1 DEF Goto
  <1> QED BY <1>1, <1>2 DEF Kept, CallType

\* Genuine in the next state, of a frame that is at hand now.
StillGenuine(f, n) ==
    /\ f.of \in Calls /\ f = [id |-> call'[f.of].id, of |-> f.of] /\ f.id # 0
    /\ call'[f.of].pc \in {"waiting", "over"} /\ call'[f.of].outcome # "refused"
    /\ ran'[f.of] = n

\* When every frame of the next state is at hand now, they are genuine then.
LEMMA AllGenuine ==
    ASSUME \A i \in DOMAIN down' : down'[i] = Torn \/ StillGenuine(down'[i], 0),
           \A f \in work' : StillGenuine(f, 0),
           \A f \in busy' : StillGenuine(f, 1),
           \A i \in DOMAIN up' : StillGenuine(up'[i], 1)
    PROVE  FramesGenuine'
  BY DEF FramesGenuine, Genuine, StillGenuine, HandedOver, Frame, Torn

\* Calls keep their number, and what was handed over stays so.
CallsKept ==
    \A d \in Calls : HandedOver(d) => HandedOver(d)' /\ call'[d].id = call[d].id

\* Frames stay genuine while that is so and their handlers do not begin.
LEMMA StaysGenuine ==
    ASSUME CallsKept, NEW f, NEW n, Genuine(f, n), ran'[f.of] = ran[f.of]
    PROVE  StillGenuine(f, n)
  BY DEF CallsKept, Genuine, StillGenuine, HandedOver, Frame

\* Steps of calls that leave every frame where it is.
LEMMA FramesKept ==
    ASSUME FramesGenuine, CallsKept, UNCHANGED <<down, work, busy, ran, up>>
    PROVE  FramesGenuine'
  BY StaysGenuine, AllGenuine DEF FramesGenuine

\* A call that returns keeps the invariant, if it tells the truth and, unless
\* its caller went away, leaves the table.
LEMMA Returning ==
    ASSUME TypeOK, SessionInv, NEW c \in Calls, ~At(c, "over"),
           NEW outcome \in {"answered", "refused", "unknown", "abandoned"},
           NEW answer, Return(c, outcome, answer),
           pending' \subseteq pending,
           UNCHANGED <<inbox, nextId, reader, pipeDown, server, up>>,
           outcome = "answered" => ran[c] = 1 /\ answer = c,
           outcome = "refused" => ran[c] = 0 /\ ~At(c, "waiting"),
           outcome # "abandoned" => \A e \in pending' : e.of # c
    PROVE  SessionInv'
  <1>0. /\ Kept(c)
        /\ call'[c].pc = "over" /\ call'[c].id = call[c].id
        /\ call'[c].outcome = outcome /\ call'[c].answer = answer
    BY ReturnSays
  <1> USE DEF SessionInv, At, pipeDown, server
  <1>1. Numbered'
    BY <1>0 DEF Numbered, Kept
  <1>2. Undecided'
    BY <1>0 DEF Undecided, Kept
  <1>3. CallsKept
    BY <1>0 DEF CallsKept, HandedOver, Kept
  <1>4. RunsOnce'
    <2> SUFFICES ASSUME NEW d \in Calls
                 PROVE  /\ ran[d] \in {0, 1}
                        /\ ran[d] = 1 => HandedOver(d)' /\ call'[d].id # 0
                        /\ call'[d].outcome = "answered" =>
                             ran[d] = 1 /\ call'[d].answer = d
      BY DEF RunsOnce
    <2>1. ran[d] = 1 => HandedOver(d)' /\ call'[d].id # 0
      BY <1>3 DEF RunsOnce, CallsKept
    <2>2. CASE d = c
      BY <1>0, <2>1, <2>2 DEF RunsOnce
    <2>3. CASE d # c
      BY <1>0, <2>1, <2>3 DEF RunsOnce, Kept
    <2> QED BY <2>2, <2>3
  <1>5. EntriesOwned'
    <2> SUFFICES ASSUME NEW e \in pending'
                 PROVE  e.id # 0 /\ call'[e.of].id = e.id
      BY DEF EntriesOwned
    <2>1. e \in pending /\ e.of \in Calls
      BY DEF TypeOK
    <2>2. e.id # 0 /\ call[e.of].id = e.id
      BY <2>1 DEF EntriesOwned
    <2> QED BY <1>0, <2>1, <2>2 DEF Kept
  <1>6. InboxOwned'
    BY DEF InboxOwned
  <1>7. FramesGenuine'
    BY <1>3, FramesKept
  <1>8. FramesOnce' /\ EofIsTrue'
    BY DEF FramesOnce, EofIsTrue
  <1>9. Forgotten'
    BY <1>0 DEF Forgotten, Kept
  <1>10. EofLeavesNobody'
    BY <1>0 DEF EofLeavesNobody, Listed, Kept
  <1> QED BY <1>1, <1>2, <1>4, <1>5, <1>6, <1>7, <1>8, <1>9, <1>10

\* What leaves the table when an entry is removed: all entries of its call.
LEMMA WithoutCall ==
    ASSUME EntriesOwned, NEW c \in Calls
    PROVE  /\ Without(call[c].id) \subseteq pending
           /\ \A e \in Without(call[c].id) : e.of # c
  BY DEF EntriesOwned, Without

\* Every way of returning is such a return.
LEMMA ReturnKeeps ==
    ASSUME TypeOK, SessionInv, NEW c \in Calls,
           \/ BeginRefused(c) \/ StdinTaken(c) \/ WriteFails(c) \/ Answered(c)
           \/ Dropped(c) \/ TimesOut(c) \/ Abandon(c)
    PROVE  SessionInv'
  <1> USE DEF At
  <1>0. RunsOnce /\ EntriesOwned /\ Numbered /\ InboxOwned
    BY DEF SessionInv
  <1>1. ran[c] \in {0, 1} /\ (~At(c, "waiting") /\ ~At(c, "over") => ran[c] = 0)
    BY <1>0 DEF RunsOnce, HandedOver
  <1>2. CASE BeginRefused(c)
    <2>1. \A e \in pending : e.of # c
      BY <1>0, <1>2 DEF BeginRefused, Numbered, EntriesOwned
    <2> QED BY <1>1, <1>2, <2>1, Returning DEF BeginRefused, table
  <1>3. CASE StdinTaken(c) \/ WriteFails(c)
    BY <1>0, <1>1, <1>3, WithoutCall, Returning
    DEF StdinTaken, WriteFails, Refused
  <1>4. CASE Answered(c)
    <2>1. inbox[c] = c /\ ran[c] = 1 /\ \A e \in pending : e.of # c
      BY <1>0, <1>4 DEF Answered, InboxOwned
    <2> QED BY <1>4, <2>1, Returning DEF Answered, table
  <1>5. CASE Dropped(c) \/ TimesOut(c)
    BY <1>0, <1>5, WithoutCall, Returning DEF Dropped, TimesOut
  <1>6. CASE Abandon(c)
    BY <1>6, Returning DEF Abandon, table
  <1> QED BY <1>2, <1>3, <1>4, <1>5, <1>6

\* A call on its way to its write keeps the invariant; it may enter the table.
LEMMA Moving ==
    ASSUME TypeOK, SessionInv, NEW c \in Calls,
           call[c].pc \in {"numbered", "listed"},
           NEW pc \in {"listed", "writing"}, Goto(c, pc),
           pending' \subseteq pending \cup {[id |-> call[c].id, of |-> c]},
           UNCHANGED <<inbox, nextId, reader, pipeDown, server, up>>
    PROVE  SessionInv'
  <1>0. /\ Kept(c)
        /\ call'[c].pc = pc /\ call'[c].id = call[c].id
        /\ call'[c].outcome = call[c].outcome /\ call'[c].answer = call[c].answer
    BY GotoSays
  <1> USE DEF SessionInv, At, pipeDown, server
  <1>1. Numbered'
    BY <1>0 DEF Numbered, Kept
  <1>2. Undecided'
    BY <1>0 DEF Undecided, Kept
  <1>3. CallsKept
    BY <1>0 DEF CallsKept, HandedOver, Kept
  <1>4. RunsOnce'
    BY <1>0 DEF RunsOnce, HandedOver, Undecided, Kept
  <1>5. EntriesOwned'
    <2> SUFFICES ASSUME NEW e \in pending'
                 PROVE  e.id # 0 /\ call'[e.of].id = e.id
      BY DEF EntriesOwned
    <2>1. CASE e = [id |-> call[c].id, of |-> c]
      BY <1>0, <2>1 DEF Numbered
    <2>2. CASE e \in pending
      <3>1. e.of \in Calls /\ e.id # 0 /\ call[e.of].id = e.id
        BY <2>2 DEF TypeOK, EntriesOwned
      <3> QED BY <1>0, <3>1 DEF Kept
    <2> QED BY <2>1, <2>2
  <1>6. InboxOwned'
    <2> SUFFICES ASSUME NEW d \in Calls, inbox[d] # None
                 PROVE  inbox[d] = d /\ ran[d] = 1 /\ \A e \in pending' : e.of # d
      BY DEF InboxOwned
    <2>1. inbox[d] = d /\ ran[d] = 1 /\ \A e \in pending : e.of # d
      BY DEF InboxOwned
    <2>2. d # c
      BY <2>1 DEF RunsOnce, HandedOver
    <2> QED BY <2>1, <2>2
  <1>7. FramesGenuine'
    BY <1>3, FramesKept
  <1>8. FramesOnce' /\ EofIsTrue'
    BY DEF FramesOnce, EofIsTrue
  <1>9. Forgotten'
    BY <1>0 DEF Forgotten, Kept
  <1>10. EofLeavesNobody'
    BY <1>0 DEF EofLeavesNobody, Listed, Kept
  <1> QED BY <1>1, <1>2, <1>4, <1>5, <1>6, <1>7, <1>8, <1>9, <1>10

\* Entering the table and beginning to write are such moves.
LEMMA RegisterKeeps ==
    ASSUME TypeOK, SessionInv, NEW c \in Calls, Register(c) \/ StartWrite(c)
    PROVE  SessionInv'
  <1>1. CASE Register(c)
    BY <1>1, Moving DEF Register, Without, At
  <1>2. CASE StartWrite(c)
    BY <1>2, Moving DEF StartWrite, table, At
  <1> QED BY <1>1, <1>2

\* Taking a number keeps the invariant: the number is new.
LEMMA BeginKeeps ==
    ASSUME TypeOK, SessionInv, NEW c \in Calls, Begin(c)
    PROVE  SessionInv'
  <1>0. /\ Kept(c) /\ At(c, "idle")
        /\ call'[c].pc = "numbered" /\ call'[c].id = nextId
        /\ call'[c].outcome = call[c].outcome /\ call'[c].answer = call[c].answer
    <2>1. call \in [Calls -> CallType] /\ call[c] \in CallType
      BY DEF TypeOK
    <2>2. call' = [call EXCEPT ![c] =
            [call[c] EXCEPT !.pc = "numbered", !.id = nextId]]
      BY <2>1 DEF Begin
    <2> QED BY <2>1, <2>2 DEF Begin, Kept, CallType
  <1>a. /\ nextId \in Nat \ {0} /\ nextId' = nextId + 1
         /\ \A d \in Calls : call[d].id \in Nat
         /\ UNCHANGED <<inbox, pending, reader, pipeDown, server, up>>
    BY DEF Begin, TypeOK, CallType
  <1> USE DEF SessionInv, At, pipeDown, server
  <1>1. Numbered'
    <2>1. \A d \in Calls : d # c => call'[d] = call[d] /\ call[d].id < nextId
      BY <1>0 DEF Kept, Numbered
    <2>2. \A d \in Calls : call'[d].id < nextId'
      BY <1>0, <1>a, <2>1
    <2>3. \A d \in Calls : call'[d].pc = "idle" => d # c
      BY <1>0
    <2>4. \A d, e \in Calls :
            (call'[d].id # 0 /\ call'[e].id = call'[d].id) => e = d
      <3> SUFFICES ASSUME NEW d \in Calls, NEW e \in Calls,
                          call'[d].id # 0, call'[e].id = call'[d].id
                   PROVE  e = d
        OBVIOUS
      <3>1. CASE d # c /\ e # c
        BY <2>1, <3>1 DEF Numbered
      <3>2. CASE d = c \/ e = c
        BY <1>0, <1>a, <2>1, <3>2
      <3> QED BY <3>1, <3>2
    <2>5. \A d \in Calls :
            /\ call'[d].pc \notin {"idle", "over"} => call'[d].id # 0
            /\ call'[d].pc = "idle" => call'[d].id = 0
      BY <1>0, <1>a, <2>1, <2>3 DEF Numbered
    <2> SUFFICES ASSUME NEW d \in Calls
                 PROVE  /\ call'[d].id < nextId'
                        /\ call'[d].pc \notin {"idle", "over"} => call'[d].id # 0
                        /\ call'[d].pc = "idle" => call'[d].id = 0
                        /\ \A e \in Calls :
                             (call'[d].id # 0 /\ call'[e].id = call'[d].id) => e = d
      BY DEF Numbered
    <2> QED BY <2>2, <2>4, <2>5
  <1>2. Undecided'
    BY <1>0 DEF Undecided, Kept
  <1>3. CallsKept
    BY <1>0 DEF CallsKept, HandedOver, Kept
  <1>4. RunsOnce'
    BY <1>0, <1>a DEF RunsOnce, HandedOver, Undecided, Kept
  <1>5. EntriesOwned'
    <2> SUFFICES ASSUME NEW e \in pending
                 PROVE  e.id # 0 /\ call'[e.of].id = e.id
      BY <1>a DEF EntriesOwned
    <2>1. e.of \in Calls /\ e.id # 0 /\ call[e.of].id = e.id
      BY DEF TypeOK, EntriesOwned
    <2>2. e.of # c
      BY <1>0, <2>1 DEF Numbered
    <2> QED BY <1>0, <2>1, <2>2 DEF Kept
  <1>6. InboxOwned'
    BY <1>a DEF InboxOwned
  <1>7. FramesGenuine'
    BY <1>a, <1>3, FramesKept
  <1>8. FramesOnce' /\ EofIsTrue'
    BY <1>a DEF FramesOnce, EofIsTrue
  <1>9. Forgotten'
    BY <1>0, <1>a DEF Forgotten, Kept
  <1>10. EofLeavesNobody'
    BY <1>0, <1>a DEF EofLeavesNobody, Listed, Kept
  <1> QED BY <1>1, <1>2, <1>4, <1>5, <1>6, <1>7, <1>8, <1>9, <1>10

\* Handing a frame over keeps the invariant: it is in no other place.
LEMMA FinishKeeps ==
    ASSUME TypeOK, SessionInv, NEW c \in Calls, FinishWrite(c)
    PROVE  SessionInv'
  <1>0. /\ Kept(c) /\ At(c, "writing")
        /\ call'[c].pc = "waiting" /\ call'[c].id = call[c].id
        /\ call'[c].outcome = call[c].outcome /\ call'[c].answer = call[c].answer
    BY GotoSays DEF FinishWrite
  <1>a. /\ down \in Seq(Frames) /\ down' = Append(down, Frame(c))
         /\ init = "serves"
         /\ UNCHANGED <<inbox, table, reader, init, work, busy, ran, up>>
    BY DEF FinishWrite, TypeOK, server
  <1> USE DEF SessionInv, At, table
  <1>b. ran[c] = 0 /\ call[c].id # 0 /\ call[c].outcome = "none"
    BY <1>0 DEF RunsOnce, HandedOver, Undecided, Numbered
  <1>1. Numbered'
    BY <1>0, <1>a DEF Numbered, Kept
  <1>2. Undecided'
    BY <1>0 DEF Undecided, Kept
  <1>3. CallsKept
    BY <1>0, <1>b DEF CallsKept, HandedOver, Kept
  <1>4. RunsOnce'
    BY <1>0, <1>a, <1>b DEF RunsOnce, HandedOver, Kept
  <1>5. EntriesOwned'
    BY <1>0, <1>a DEF EntriesOwned, Kept, TypeOK
  <1>6. InboxOwned'
    BY <1>a DEF InboxOwned
  <1>7. FramesGenuine'
    <2>1. StillGenuine(Frame(c), 0)
      BY <1>0, <1>a, <1>b DEF StillGenuine, Frame
    <2>2. \A i \in DOMAIN down : down'[i] = down[i] /\ i \in DOMAIN down'
      BY <1>a, FrameTyped
    <2>3. DOMAIN down' = DOMAIN down \cup {Len(down) + 1}
          /\ down'[Len(down) + 1] = Frame(c)
      BY <1>a, FrameTyped
    <2>4. \A i \in DOMAIN down' : down'[i] = Torn \/ StillGenuine(down'[i], 0)
      BY <1>3, <1>a, <2>1, <2>2, <2>3, StaysGenuine DEF FramesGenuine
    <2> QED BY <1>3, <1>a, <2>4, StaysGenuine, AllGenuine DEF FramesGenuine
  <1>8. FramesOnce' /\ EofIsTrue'
    <2>1. Frame(c) \notin work /\ \A i \in DOMAIN down : down[i] # Frame(c)
      BY <1>0, <1>b DEF FramesGenuine, Genuine, HandedOver, Frame, Torn
    <2>2. DOMAIN down' = DOMAIN down \cup {Len(down) + 1}
          /\ down'[Len(down) + 1] = Frame(c)
          /\ \A i \in DOMAIN down : down'[i] = down[i]
      BY <1>a, FrameTyped
    <2> QED BY <1>a, <2>1, <2>2 DEF FramesOnce, EofIsTrue, Torn
  <1>9. Forgotten'
    BY <1>0, <1>a DEF Forgotten, Kept
  <1>10. EofLeavesNobody'
    BY <1>a DEF EofLeavesNobody, EofIsTrue
  <1> QED BY <1>1, <1>2, <1>4, <1>5, <1>6, <1>7, <1>8, <1>9, <1>10

\* A writer that is dropped leaves its frame at most once.
LEMMA AbandonWriteKeeps ==
    ASSUME TypeOK, SessionInv, NEW c \in Calls, AbandonWrite(c)
    PROVE  SessionInv'
  <1>0. /\ Kept(c) /\ At(c, "writing")
        /\ call'[c].pc = "over" /\ call'[c].id = call[c].id
        /\ call'[c].outcome = "abandoned" /\ call'[c].answer = None
    BY ReturnSays DEF AbandonWrite
  <1>a. /\ down \in Seq(Frames)
         /\ UNCHANGED <<inbox, table, reader, init, work, busy, ran, up>>
    BY DEF AbandonWrite, TypeOK, server
  <1>c. down' = down \/ down' = Append(down, Torn) \/ down' = Append(down, Frame(c))
    <2>1. down \o <<>> = down /\ down \o <<Torn>> = Append(down, Torn)
          /\ down \o <<Frame(c)>> = Append(down, Frame(c))
      BY <1>a, FrameTyped
    <2> QED BY <2>1 DEF AbandonWrite
  <1> USE DEF SessionInv, At, table
  <1>b. ran[c] = 0 /\ call[c].id # 0 /\ call[c].outcome = "none"
    BY <1>0 DEF RunsOnce, HandedOver, Undecided, Numbered
  <1>1. Numbered'
    BY <1>0, <1>a DEF Numbered, Kept
  <1>2. Undecided'
    BY <1>0 DEF Undecided, Kept
  <1>3. CallsKept
    BY <1>0, <1>b DEF CallsKept, HandedOver, Kept
  <1>4. RunsOnce'
    BY <1>0, <1>a, <1>b DEF RunsOnce, HandedOver, Kept
  <1>5. EntriesOwned'
    BY <1>0, <1>a DEF EntriesOwned, Kept, TypeOK
  <1>6. InboxOwned'
    BY <1>a DEF InboxOwned
  <1>7. FramesGenuine' /\ FramesOnce'
    <2>1. StillGenuine(Frame(c), 0)
      BY <1>0, <1>a, <1>b DEF StillGenuine, Frame
    <2>2. Frame(c) \notin work /\ \A i \in DOMAIN down : down[i] # Frame(c)
      BY <1>0, <1>b DEF FramesGenuine, Genuine, HandedOver, Frame, Torn
    <2>3. CASE down' = down
      BY <1>3, <1>a, <2>3, FramesKept DEF FramesOnce
    <2>4. ASSUME NEW x \in {Torn, Frame(c)}, down' = Append(down, x)
          PROVE  FramesGenuine' /\ FramesOnce'
      <3>1. DOMAIN down' = DOMAIN down \cup {Len(down) + 1}
            /\ down'[Len(down) + 1] = x
            /\ \A i \in DOMAIN down : down'[i] = down[i]
        BY <1>a, <2>4, FrameTyped
      <3>2. \A i \in DOMAIN down' : down'[i] = Torn \/ StillGenuine(down'[i], 0)
        BY <1>3, <1>a, <2>1, <3>1, StaysGenuine DEF FramesGenuine
      <3>3. FramesGenuine'
        BY <1>3, <1>a, <3>2, StaysGenuine, AllGenuine DEF FramesGenuine
      <3>4. Torn \notin work
        BY DEF FramesGenuine, Genuine, Torn
      <3>5. FramesOnce'
        BY <1>a, <2>2, <3>1, <3>4 DEF FramesOnce, Torn
      <3> QED BY <3>3, <3>5
    <2> QED BY <1>c, <2>3, <2>4
  <1>8. EofIsTrue'
    BY <1>a DEF EofIsTrue
  <1>9. Forgotten'
    BY <1>0, <1>a DEF Forgotten, Kept
  <1>10. EofLeavesNobody'
    BY <1>0, <1>a DEF EofLeavesNobody, Listed, Kept
  <1> QED BY <1>1, <1>2, <1>4, <1>5, <1>6, <1>7, <1>8, <1>9, <1>10

\* What the reader does to the table when its loop ends keeps the invariant.
LEMMA ReaderEndKeeps ==
    ASSUME TypeOK, SessionInv,
           ReaderEof \/ ReaderFails \/ MarkClosed \/ ClearPending
    PROVE  SessionInv'
  <1>0. /\ UNCHANGED <<call, inbox, nextId, down, work, busy, ran, init>>
        /\ pending' \subseteq pending
        /\ up' = up \/ up' = <<>>
        /\ reader'.how = "eof" => init = "gone" /\ (pending' = {} \/ reader.how = "eof")
    BY DEF ReaderEof, ReaderFails, MarkClosed, ClearPending, SessionInv, EofIsTrue,
           table, pipeDown, server, TypeOK
  <1> USE DEF SessionInv
  <1>1. Numbered' /\ Undecided' /\ RunsOnce'
    BY <1>0 DEF Numbered, Undecided, RunsOnce, HandedOver, At
  <1>2. EntriesOwned' /\ InboxOwned' /\ Forgotten'
    BY <1>0 DEF EntriesOwned, InboxOwned, Forgotten, At
  <1>3. FramesGenuine' /\ FramesOnce'
    BY <1>0 DEF FramesGenuine, FramesOnce, Genuine, HandedOver, Frame, Torn
  <1>4. EofIsTrue' /\ EofLeavesNobody'
    BY <1>0 DEF EofIsTrue, EofLeavesNobody, Listed, At
  <1> QED BY <1>1, <1>2, <1>3, <1>4

\* An answer goes to the call it was computed for, since numbers differ.
LEMMA ReadKeeps ==
    ASSUME TypeOK, SessionInv, ReadResponse
    PROVE  SessionInv'
  <1> DEFINE f == Head(up)
  <1>0. /\ UNCHANGED <<call, nextId, reader, down, work, busy, ran, init>>
        /\ pending' = {e \in pending : e.id # f.id}
        /\ inbox' = [c \in Calls |-> IF [id |-> f.id, of |-> c] \in pending
                                    THEN f.of ELSE inbox[c]]
        /\ up # <<>> /\ up' = Tail(up) /\ up \in Seq(Frames)
    BY DEF ReadResponse, Without, TypeOK, pipeDown, server
  <1> USE DEF SessionInv
  <1>1. Genuine(f, 1)
    BY <1>0 DEF FramesGenuine
  <1> HIDE DEF f
  <1>2. Numbered' /\ Undecided' /\ RunsOnce' /\ EofIsTrue'
    BY <1>0 DEF Numbered, Undecided, RunsOnce, HandedOver, At, EofIsTrue
  <1>3. EntriesOwned' /\ Forgotten'
    BY <1>0 DEF EntriesOwned, Forgotten, At
  <1>4. \A c \in Calls : [id |-> f.id, of |-> c] \in pending => c = f.of
    BY <1>1 DEF Genuine, Frame, Numbered, EntriesOwned
  <1>5. InboxOwned'
    <2> SUFFICES ASSUME NEW c \in Calls, inbox'[c] # None
                 PROVE  inbox'[c] = c /\ ran[c] = 1 /\ \A e \in pending' : e.of # c
      BY <1>0 DEF InboxOwned
    <2>1. CASE [id |-> f.id, of |-> c] \in pending
      <3>1. c = f.of /\ inbox'[c] = c /\ ran[c] = 1 /\ call[c].id = f.id
        BY <1>0, <1>1, <1>4, <2>1 DEF Genuine, Frame
      <3>2. \A e \in pending' : e.of # c
        BY <1>0, <3>1 DEF EntriesOwned
      <3> QED BY <3>1, <3>2
    <2>2. CASE [id |-> f.id, of |-> c] \notin pending
      BY <1>0, <2>2 DEF InboxOwned
    <2> QED BY <2>1, <2>2
  <1>6. FramesGenuine' /\ FramesOnce'
    <2>1. \A i \in DOMAIN up' : i + 1 \in DOMAIN up /\ up'[i] = up[i + 1]
      BY <1>0
    <2>2. \A i \in DOMAIN up' : Genuine(up'[i], 1)
      BY <2>1 DEF FramesGenuine
    <2> QED BY <1>0, <2>2 DEF FramesGenuine, FramesOnce, Genuine, HandedOver, Frame, Torn
  <1>7. EofLeavesNobody'
    <2> SUFFICES ASSUME NEW c \in Calls, reader.how = "eof", At(c, "waiting"),
                        inbox'[c] = None
                 PROVE  [id |-> call[c].id, of |-> c] \notin pending'
      BY <1>0 DEF EofLeavesNobody, Listed, At
    <2>1. CASE inbox[c] = None
      BY <1>0, <2>1 DEF EofLeavesNobody, Listed
    <2>2. CASE inbox[c] # None
      BY <1>0, <2>2 DEF InboxOwned
    <2> QED BY <2>1, <2>2
  <1> QED BY <1>2, <1>3, <1>5, <1>6, <1>7

\* Letting go of stdin drops what was not flushed.
LEMMA LetGoKeeps ==
    ASSUME TypeOK, SessionInv, TakeStdin \/ CloseStdin
    PROVE  SessionInv'
  <1>0. /\ UNCHANGED <<call, inbox, pending, nextId, work, busy, ran, init, up>>
        /\ reader'.how = reader.how
        /\ down' = SubSeq(down, 1, inPipe)
        /\ down \in Seq(Frames) /\ inPipe \in 0..Len(down)
    BY DEF TakeStdin, CloseStdin, LetGo, table, server, TypeOK
  <1>1. DOMAIN down' \subseteq DOMAIN down
        /\ \A i \in DOMAIN down' : down'[i] = down[i]
    BY <1>0
  <1> USE DEF SessionInv
  <1>2. Numbered' /\ Undecided' /\ RunsOnce'
    BY <1>0 DEF Numbered, Undecided, RunsOnce, HandedOver, At
  <1>3. EntriesOwned' /\ InboxOwned' /\ Forgotten'
    BY <1>0 DEF EntriesOwned, InboxOwned, Forgotten, At
  <1>4. FramesGenuine' /\ FramesOnce'
    BY <1>0, <1>1 DEF FramesGenuine, FramesOnce, Genuine, HandedOver, Frame, Torn
  <1>5. EofIsTrue' /\ EofLeavesNobody'
    BY <1>0 DEF EofIsTrue, EofLeavesNobody, Listed, At
  <1> QED BY <1>2, <1>3, <1>4, <1>5

\* The parts that speak of the client only survive every step of the server
\* that lets no handler begin.
LEMMA ClientKept ==
    ASSUME SessionInv, UNCHANGED <<call, inbox, pending, nextId, reader, ran>>,
           init' = init \/ init' = "gone"
    PROVE  /\ Numbered' /\ Undecided' /\ RunsOnce' /\ EntriesOwned'
           /\ InboxOwned' /\ Forgotten' /\ EofIsTrue' /\ EofLeavesNobody'
  <1> USE DEF SessionInv
  <1>1. Numbered' /\ Undecided' /\ RunsOnce'
    BY DEF Numbered, Undecided, RunsOnce, HandedOver, At
  <1>2. EntriesOwned' /\ InboxOwned' /\ Forgotten'
    BY DEF EntriesOwned, InboxOwned, Forgotten, At
  <1>3. EofIsTrue' /\ EofLeavesNobody'
    BY DEF EofIsTrue, EofLeavesNobody, Listed, At
  <1> QED BY <1>1, <1>2, <1>3

\* A frame that is taken leaves the pipe, where it was once.
LEMMA TakesKeeps ==
    ASSUME TypeOK, SessionInv, ServerTakes
    PROVE  SessionInv'
  <1> DEFINE f == Head(down)
  <1>0. /\ UNCHANGED <<call, inbox, pending, nextId, reader, busy, ran, init, up>>
        /\ down \in Seq(Frames) /\ down # <<>> /\ f # Torn
        /\ down' = Tail(down) /\ work' = work \cup {f}
    BY DEF ServerTakes, table, TypeOK
  <1>1. /\ \A i \in DOMAIN down' :
              i \in Nat /\ i + 1 \in DOMAIN down /\ i + 1 # 1 /\ down'[i] = down[i + 1]
        /\ 1 \in DOMAIN down /\ f = down[1]
    BY <1>0
  <1> USE DEF SessionInv
  <1>2. Genuine(f, 0)
    BY <1>0, <1>1 DEF FramesGenuine
  <1> HIDE DEF f
  <1>3. FramesGenuine'
    <2>1. CallsKept
      BY <1>0 DEF CallsKept, HandedOver
    <2>2. \A i \in DOMAIN down' : down'[i] = Torn \/ StillGenuine(down'[i], 0)
      BY <1>0, <1>1, <2>1, StaysGenuine DEF FramesGenuine
    <2>3. \A g \in work' : StillGenuine(g, 0)
      BY <1>0, <1>2, <2>1, StaysGenuine DEF FramesGenuine
    <2>4. \A g \in busy' : StillGenuine(g, 1)
      BY <1>0, <2>1, StaysGenuine DEF FramesGenuine
    <2>5. \A i \in DOMAIN up' : StillGenuine(up'[i], 1)
      BY <1>0, <2>1, StaysGenuine DEF FramesGenuine
    <2> QED BY <2>2, <2>3, <2>4, <2>5, AllGenuine
  <1>4. FramesOnce'
    <2>1. \A i, j \in DOMAIN down' : (down'[i] # Torn /\ down'[i] = down'[j]) => i = j
      BY <1>1 DEF FramesOnce
    <2>2. \A i \in DOMAIN down' : down'[i] \notin work'
      BY <1>0, <1>1 DEF FramesOnce
    <2> QED BY <2>1, <2>2 DEF FramesOnce, Torn
  <1> QED BY <1>0, <1>3, <1>4, ClientKept

\* What a torn frame swallows is lost, and nothing else changes place.
LEMMA SwallowsKeeps ==
    ASSUME TypeOK, SessionInv, ServerSwallows
    PROVE  SessionInv'
  <1>0. /\ UNCHANGED <<call, inbox, pending, nextId, reader, work, busy, ran, init, up>>
        /\ down \in Seq(Frames) /\ Len(down) > 1
        /\ down' = [Tail(down) EXCEPT ![1] = Torn]
    BY DEF ServerSwallows, table, server, TypeOK
  <1>1. \A i \in DOMAIN down' :
          /\ i \in Nat /\ i + 1 \in DOMAIN down
          /\ down'[i] = Torn \/ down'[i] = down[i + 1]
    <2> DEFINE rest == Tail(down)
    <2>1. /\ DOMAIN rest = 1..(Len(down) - 1)
          /\ \A i \in DOMAIN rest : rest[i] = down[i + 1]
          /\ DOMAIN down = 1..Len(down) /\ Len(down) \in Nat
      BY <1>0
    <2> HIDE DEF rest
    <2>2. DOMAIN down' = DOMAIN rest
          /\ \A i \in DOMAIN rest : down'[i] = Torn \/ down'[i] = rest[i]
      BY <1>0 DEF rest
    <2> QED BY <2>1, <2>2
  <1>2. Torn \notin work
    BY DEF SessionInv, FramesGenuine, Genuine, Torn
  <1> USE DEF SessionInv
  <1>3. FramesGenuine'
    <2>1. CallsKept
      BY <1>0 DEF CallsKept, HandedOver
    <2>2. \A i \in DOMAIN down' : down'[i] = Torn \/ StillGenuine(down'[i], 0)
      BY <1>0, <1>1, <2>1, StaysGenuine DEF FramesGenuine
    <2> QED BY <1>0, <2>1, <2>2, StaysGenuine, AllGenuine DEF FramesGenuine
  <1>4. FramesOnce'
    <2>1. \A i, j \in DOMAIN down' : (down'[i] # Torn /\ down'[i] = down'[j]) => i = j
      BY <1>1 DEF FramesOnce
    <2>2. \A i \in DOMAIN down' : down'[i] \notin work'
      BY <1>0, <1>1, <1>2 DEF FramesOnce
    <2> QED BY <2>1, <2>2 DEF FramesOnce, Torn
  <1> QED BY <1>0, <1>3, <1>4, ClientKept

\* A handler begins for a request that is in no other place, so it is the first.
LEMMA RunKeeps ==
    ASSUME TypeOK, SessionInv, NEW f \in work, Run(f)
    PROVE  SessionInv'
  <1>0. /\ UNCHANGED <<call, inbox, pending, nextId, reader, down, init, up>>
        /\ work' = work \ {f} /\ busy' = busy \cup {f}
        /\ ran \in [Calls -> Nat] /\ ran' = [ran EXCEPT ![f.of] = @ + 1]
    BY DEF Run, table, pipeDown, TypeOK
  <1> USE DEF SessionInv
  <1>1. Genuine(f, 0)
    BY DEF FramesGenuine
  <1>2. /\ f.of \in Calls /\ f = Frame(f.of) /\ ran[f.of] = 0 /\ ran'[f.of] = 1
        /\ \A c \in Calls : c # f.of => ran'[c] = ran[c]
    BY <1>0, <1>1 DEF Genuine
  <1>3. Numbered' /\ Undecided' /\ EntriesOwned' /\ Forgotten'
    BY <1>0 DEF Numbered, Undecided, EntriesOwned, Forgotten, At
  <1>4. RunsOnce'
    <2>1. HandedOver(f.of) /\ call[f.of].id # 0 /\ call[f.of].outcome # "answered"
      BY <1>1, <1>2 DEF Genuine, Frame, RunsOnce
    <2> QED BY <1>0, <1>2, <2>1 DEF RunsOnce, HandedOver
  <1>5. InboxOwned'
    BY <1>0, <1>2 DEF InboxOwned
  <1>6. EofIsTrue' /\ EofLeavesNobody'
    BY <1>0 DEF EofIsTrue, EofLeavesNobody, Listed, At
  <1>7. CallsKept
    BY <1>0 DEF CallsKept, HandedOver
  <1>8. ASSUME NEW g, NEW n, Genuine(g, n), g # f
        PROVE  StillGenuine(g, n)
    <2>1. g.of # f.of /\ g.of \in Calls
      BY <1>2, <1>8 DEF Genuine
    <2> QED BY <1>2, <1>7, <1>8, <2>1, StaysGenuine
  <1>9. StillGenuine(f, 1)
    BY <1>0, <1>1, <1>2 DEF Genuine, StillGenuine, HandedOver, Frame
  <1>10. FramesGenuine'
    <2>1. \A i \in DOMAIN down' : down'[i] = Torn \/ StillGenuine(down'[i], 0)
      BY <1>0, <1>8 DEF FramesGenuine, FramesOnce
    <2>2. \A g \in work' : StillGenuine(g, 0)
      BY <1>0, <1>8 DEF FramesGenuine
    <2>3. \A g \in busy' : StillGenuine(g, 1)
      BY <1>0, <1>8, <1>9 DEF FramesGenuine
    <2>4. \A i \in DOMAIN up' : StillGenuine(up'[i], 1)
      <3> SUFFICES ASSUME NEW i \in DOMAIN up
                   PROVE  StillGenuine(up[i], 1)
        BY <1>0
      <3>1. Genuine(up[i], 1) /\ up[i] # f
        BY <1>1 DEF FramesGenuine, Genuine
      <3> QED BY <1>8, <3>1
    <2> QED BY <2>1, <2>2, <2>3, <2>4, AllGenuine
  <1>11. FramesOnce'
    BY <1>0 DEF FramesOnce, Torn
  <1> QED BY <1>3, <1>4, <1>5, <1>6, <1>10, <1>11

\* An answer is sent for a request whose handler began.
LEMMA RespondKeeps ==
    ASSUME TypeOK, SessionInv, NEW f \in busy, Respond(f)
    PROVE  SessionInv'
  <1>0. /\ UNCHANGED <<call, inbox, pending, nextId, reader, down, work, ran, init>>
        /\ busy' = busy \ {f} /\ up \in Seq(Frames) /\ f \in Frames
        /\ up' = up \/ up' = Append(up, f)
    BY DEF Respond, table, pipeDown, TypeOK
  <1> USE DEF SessionInv
  <1>1. CallsKept
    BY <1>0 DEF CallsKept, HandedOver
  <1>2. \A i \in DOMAIN up' : up'[i] = f \/ (i \in DOMAIN up /\ up'[i] = up[i])
    BY <1>0
  <1>3. \A i \in DOMAIN up' : StillGenuine(up'[i], 1)
    BY <1>0, <1>1, <1>2, StaysGenuine DEF FramesGenuine
  <1>4. FramesGenuine'
    BY <1>0, <1>1, <1>3, StaysGenuine, AllGenuine DEF FramesGenuine
  <1>5. FramesOnce'
    BY <1>0 DEF FramesOnce, Torn
  <1> QED BY <1>0, <1>4, <1>5, ClientKept

\* The death of init loses frames and duplicates none.
LEMMA GoneKeeps ==
    ASSUME TypeOK, SessionInv, Gone
    PROVE  SessionInv'
  <1>0. /\ UNCHANGED <<call, inbox, pending, nextId, reader, ran, up>>
        /\ init' = "gone" /\ work' = {} /\ busy' = {} /\ down' = <<>>
    BY DEF Gone, table
  <1> USE DEF SessionInv
  <1>1. CallsKept
    BY <1>0 DEF CallsKept, HandedOver
  <1>2. \A i \in DOMAIN up' : StillGenuine(up'[i], 1)
    BY <1>0, <1>1, StaysGenuine DEF FramesGenuine
  <1>3. FramesGenuine'
    BY <1>0, <1>2, AllGenuine
  <1>4. FramesOnce'
    BY <1>0 DEF FramesOnce
  <1> QED BY <1>0, <1>3, <1>4, ClientKept

\* No step leaves the invariant.
LEMMA StepKeeps ==
    ASSUME TypeOK, SessionInv, [Next]_vars
    PROVE  SessionInv'
  <1>1. ASSUME NEW c \in Calls, CallStep(c)
        PROVE  SessionInv'
    BY <1>1, ReturnKeeps, RegisterKeeps, BeginKeeps, FinishKeeps, AbandonWriteKeeps
    DEF CallStep
  <1>2. CASE ReaderStep \/ CloseStdin
    BY <1>2, ReaderEndKeeps, ReadKeeps, LetGoKeeps DEF ReaderStep
  <1>3. CASE ServerStep
    BY <1>3, TakesKeeps, SwallowsKeeps, RunKeeps, RespondKeeps, GoneKeeps
    DEF ServerStep, ServerEof, InitDies
  <1>4. CASE UNCHANGED vars
    <2>1. UNCHANGED <<call, inbox, pending, nextId, reader, down, init, work, busy, ran, up>>
      BY <1>4 DEF vars, table, pipeDown, server
    <2>2. FramesGenuine'
      BY <2>1, FramesKept DEF SessionInv, CallsKept, HandedOver
    <2>3. FramesOnce'
      BY <2>1 DEF SessionInv, FramesOnce, Torn
    <2> QED BY <2>1, <2>2, <2>3, ClientKept DEF SessionInv
  <1> QED BY <1>1, <1>2, <1>3, <1>4 DEF Next

\* The inductive invariant of a session: numbers are unique, a request is in at
\* most one place and was executed as often as that place says, and entries and
\* answers belong to their calls.
THEOREM SessionSafe == Spec => []SessionInv
  <1>1. Init => SessionInv
    <2> SUFFICES ASSUME Init
                 PROVE  SessionInv
      OBVIOUS
    <2> USE DEF Init
    <2>1. Numbered /\ Undecided /\ RunsOnce
      BY DEF Numbered, Undecided, RunsOnce, HandedOver, At
    <2>2. EntriesOwned /\ InboxOwned /\ Forgotten
      BY DEF EntriesOwned, InboxOwned, Forgotten
    <2>3. FramesGenuine /\ FramesOnce
      BY DEF FramesGenuine, FramesOnce
    <2>4. EofIsTrue /\ EofLeavesNobody
      BY DEF EofIsTrue, EofLeavesNobody
    <2> QED BY <2>1, <2>2, <2>3, <2>4 DEF SessionInv
  <1>2. TypeOK /\ SessionInv /\ [Next]_vars => SessionInv'
    BY StepKeeps
  <1> QED BY <1>1, <1>2, SessionTyped, PTL DEF Spec

\* Every way out of call() empties the caller's place in the table, unless the
\* caller went away.
THEOREM ReturnedIsForgotten == Spec => []Forgotten
  <1>1. SessionInv => Forgotten
    BY DEF SessionInv
  <1> QED BY <1>1, SessionSafe, PTL

\* After the end of the stream the table holds nobody who waits for an answer
\* that did not come.
THEOREM EofWakesAll == Spec => []EofLeavesNobody
  <1>1. SessionInv => EofLeavesNobody
    BY DEF SessionInv
  <1> QED BY <1>1, SessionSafe, PTL
-----------------------------------------------------------------------------
(***************************************************************************)
(* The session implements InitService: every step is a step of the service *)
(* for one call, or changes nothing a caller can tell.                     *)
(***************************************************************************)
\* The variables of the service, as the session has them.
Told == [c \in Calls |-> Verdict(c)]
Given == [c \in Calls |-> call[c].answer]

\* One call changes what its caller was told, the others do not.
LEMMA ToldChanges ==
    ASSUME NEW c \in Calls, Kept(c)
    PROVE  /\ Told' = [Told EXCEPT ![c] = Verdict(c)']
           /\ Given' = [Given EXCEPT ![c] = call'[c].answer]
  BY DEF Told, Given, Kept, Verdict, At

\* A step that keeps verdicts, answers and runs is a stutter of the service.
LEMMA Stutters ==
    ASSUME call' = call, ran' = ran
    PROVE  UNCHANGED Service!vars
  BY DEF Service!vars, Verdict, At

\* A step of one call that its caller cannot see.
LEMMA Hidden ==
    ASSUME NEW c \in Calls, Kept(c), ran' = ran,
           Verdict(c)' = Verdict(c), call'[c].answer = call[c].answer
    PROVE  UNCHANGED Service!vars
  BY DEF Service!vars, Kept, Verdict, At

\* The returns of a call are those of the service.
LEMMA ReturnsImplement ==
    ASSUME TypeOK, SessionInv, NEW c \in Calls, ~At(c, "over"),
           NEW outcome \in {"answered", "refused", "unknown", "abandoned"},
           NEW answer, Return(c, outcome, answer), ran' = ran,
           outcome = "answered" => ran[c] = 1 /\ answer = c,
           outcome # "answered" => answer = None,
           outcome = "refused" => ran[c] = 0,
           At(c, "idle") => outcome = "refused"
    PROVE  Service!Next
  <1>0. /\ Kept(c) /\ call'[c].pc = "over"
        /\ call'[c].outcome = outcome /\ call'[c].answer = answer
    BY ReturnSays
  <1>1. Told' = [Told EXCEPT ![c] = Verdict(c)']
        /\ Given' = [Given EXCEPT ![c] = answer]
    BY <1>0, ToldChanges
  <1>2. /\ Told[c] = IF At(c, "idle") THEN "idle" ELSE "asked"
        /\ Verdict(c)' = IF outcome = "abandoned" THEN "unknown" ELSE outcome
        /\ Given[c] = None
    BY <1>0 DEF Told, Given, Verdict, At, SessionInv, Undecided
  <1>3. answer = None => Given' = Given
    BY <1>1, <1>2 DEF Given
  <1>4. CASE outcome = "answered"
    BY <1>1, <1>2, <1>4 DEF Service!Next, Service!Answer, Told, Given
  <1>5. CASE outcome = "refused"
    BY <1>1, <1>2, <1>3, <1>5 DEF Service!Next, Service!Refuse, Told, Given
  <1>6. CASE outcome \in {"unknown", "abandoned"}
    BY <1>1, <1>2, <1>3, <1>6 DEF Service!Next, Service!Lose, Told, Given
  <1> QED BY <1>4, <1>5, <1>6

\* The steps of a call.
LEMMA CallImplements ==
    ASSUME TypeOK, SessionInv, NEW c \in Calls, CallStep(c)
    PROVE  Service!Next \/ UNCHANGED Service!vars
  <1> USE DEF At, server
  <1>0. ran[c] \in {0, 1} /\ (~At(c, "waiting") /\ ~At(c, "over") => ran[c] = 0)
    BY DEF SessionInv, RunsOnce, HandedOver
  <1>1. CASE BeginRefused(c)
    BY <1>0, <1>1, ReturnsImplement DEF BeginRefused
  <1>2. CASE StdinTaken(c) \/ WriteFails(c)
    BY <1>0, <1>2, ReturnsImplement DEF StdinTaken, WriteFails, Refused
  <1>3. CASE Answered(c)
    <2>1. inbox[c] = c /\ ran[c] = 1
      BY <1>3 DEF Answered, SessionInv, InboxOwned
    <2> QED BY <1>3, <2>1, ReturnsImplement DEF Answered
  <1>4. CASE Dropped(c) \/ TimesOut(c)
    BY <1>4, ReturnsImplement DEF Dropped, TimesOut
  <1>5. CASE Abandon(c) \/ AbandonWrite(c)
    BY <1>5, ReturnsImplement DEF Abandon, AbandonWrite
  <1>6. CASE Begin(c)
    <2>1. call \in [Calls -> CallType] /\ call[c] \in CallType
      BY DEF TypeOK
    <2>2. call' = [call EXCEPT ![c] =
            [call[c] EXCEPT !.pc = "numbered", !.id = nextId]]
      BY <1>6, <2>1 DEF Begin
    <2>3. Kept(c) /\ call'[c].pc = "numbered" /\ call'[c].answer = call[c].answer
      BY <2>1, <2>2 DEF Kept, CallType
    <2>4. Told[c] = "idle" /\ Verdict(c)' = "asked" /\ ran' = ran
      BY <1>6, <2>3 DEF Begin, Told, Verdict
    <2>5. Told' = [Told EXCEPT ![c] = "asked"] /\ Given' = Given
      BY <2>3, <2>4, ToldChanges DEF Given
    <2> QED BY <2>4, <2>5 DEF Service!Next, Service!Ask, Told, Given
  <1>7. CASE Register(c) \/ StartWrite(c) \/ FinishWrite(c)
    <2>1. Kept(c) /\ call'[c].pc \in {"listed", "writing", "waiting"}
          /\ call'[c].answer = call[c].answer
          /\ call[c].pc \in {"numbered", "listed", "writing"} /\ ran' = ran
      BY <1>7, GotoSays DEF Register, StartWrite, FinishWrite
    <2> QED BY <2>1, Hidden DEF Verdict
  <1> QED BY <1>1, <1>2, <1>3, <1>4, <1>5, <1>6, <1>7 DEF CallStep

\* A handler begins for a call that was not refused, and for the first time.
LEMMA RunImplements ==
    ASSUME TypeOK, SessionInv, NEW f \in work, Run(f)
    PROVE  Service!Next
  <1>1. Genuine(f, 0)
    BY DEF SessionInv, FramesGenuine
  <1>2. f.of \in Calls /\ ran[f.of] = 0 /\ HandedOver(f.of)
    BY <1>1 DEF Genuine
  <1>3. call[f.of].outcome # "answered" /\ call[f.of] \in CallType
        /\ (call[f.of].pc = "over" => call[f.of].outcome # "none")
    BY <1>2 DEF SessionInv, RunsOnce, Undecided, At, TypeOK
  <1>4. Verdict(f.of) \in {"asked", "unknown"}
    BY <1>2, <1>3 DEF Verdict, HandedOver, At, CallType
  <1>5. ran' = [ran EXCEPT ![f.of] = 1] /\ call' = call
    BY <1>2 DEF Run, TypeOK
  <1>6. Told' = Told /\ Given' = Given /\ Told[f.of] \in {"asked", "unknown"}
    BY <1>2, <1>4, <1>5 DEF Told, Given, Verdict, At
  <1> QED BY <1>2, <1>5, <1>6 DEF Service!Next, Service!Run, Told, Given

\* Every step is a step of the service or a stutter.
LEMMA StepImplements ==
    ASSUME TypeOK, SessionInv, [Next]_vars
    PROVE  Service!Next \/ UNCHANGED Service!vars
  <1>1. CASE \E c \in Calls : CallStep(c)
    BY <1>1, CallImplements
  <1>2. CASE ReaderStep \/ CloseStdin
    <2>1. call' = call /\ ran' = ran
      BY <1>2 DEF ReaderStep, ReadResponse, ReaderEof, ReaderFails, MarkClosed,
                  ClearPending, TakeStdin, CloseStdin, server
    <2> QED BY <2>1, Stutters
  <1>3. CASE \E f \in work : Run(f)
    BY <1>3, RunImplements
  <1>4. CASE ServerStep /\ ~(\E f \in work : Run(f))
    <2>1. call' = call /\ ran' = ran
      BY <1>4 DEF ServerStep, ServerTakes, ServerSwallows, ServerEof, InitDies,
                  Gone, Respond, server
    <2> QED BY <2>1, Stutters
  <1>5. CASE UNCHANGED vars
    <2>1. call' = call /\ ran' = ran
      BY <1>5 DEF vars, server
    <2> QED BY <2>1, Stutters
  <1> QED BY <1>1, <1>2, <1>3, <1>4, <1>5 DEF Next

\* Through any interleaving, time limit, cancelled caller, torn frame or death of
\* init, a session of any number of calls keeps the promise of InitService: an
\* answer is the request's own, no request runs twice, a refused one never runs.
THEOREM SessionImplements == Spec => ImplementsService
  <1>1. Init => Service!Init
    BY DEF Init, Service!Init, Verdict, At
  <1>2. TypeOK /\ SessionInv /\ [Next]_vars => [Service!Next]_(Service!vars)
    BY StepImplements
  <1> QED
    BY <1>1, <1>2, SessionTyped, SessionSafe, PTL
    DEF Spec, ImplementsService, Service!Spec
=============================================================================
