------------------------------- MODULE Alerts -------------------------------
(***************************************************************************)
(* Alerts, events and the digest that control sends through the QQ bot       *)
(* (ops.rs, qqbot.rs): what the ops tick and the event tasks pass on, and    *)
(* the senders that share one cached token.  An alert is its text: the same *)
(* cause with another number in it is another alert.                        *)
(***************************************************************************)
EXTENDS Integers, FiniteSets

CONSTANTS
    Texts,      \* of alerts and events
    Apps,       \* bots that may be configured
    Quiet,      \* a text is not repeated for so long (15 min)
    Every,      \* between two digests
    Life,       \* of a token
    Margin,     \* a token so near its end is not used (90 s)
    MaxTime,    \* bound
    MaxSenders, \* bound: messages under way
    MaxTroubles \* bound: failures, changes of the settings

VARIABLES
    now,
    app,        \* in the settings, "none" when the bot is not ready
    seen,       \* alert_seen: time of the last message of a text, or Never
    last,       \* last_status
    token,      \* of QqClient: its bot and its end
    senders,    \* set of messages under way
    passed,     \* history: when a text, or the digest, was passed on last
    near,       \* history: texts that were passed on again too soon
    changed,    \* history: when the bot was last changed
    mixed,      \* history: tokens that were used for another bot
    late,       \* history: a sender of an earlier bot looked for a token
    troubles

vars == <<now, app, seen, last, token, senders, passed, near, changed, mixed, late, troubles>>

Never == MaxTime + 1
NoToken == [app |-> "none", end |-> 0]

TypeOK ==
    /\ now \in 0..MaxTime /\ app \in Apps \cup {"none"}
    /\ seen \in [Texts -> 0..Never] /\ last \in 0..Never /\ Cardinality(senders) <= MaxSenders
    /\ \A s \in senders : s.app \in Apps /\ s.pc \in {"token", "fetch", "post"}

Init ==
    /\ now = 0 /\ app \in Apps /\ seen = [t \in Texts |-> Never] /\ last = Never
    /\ token = NoToken /\ senders = {}
    /\ passed = [t \in Texts \cup {"digest"} |-> Never] /\ near = {}
    /\ changed = 0 /\ mixed = {} /\ late = FALSE /\ troubles = 0

-----------------------------------------------------------------------------
Trouble == troubles < MaxTroubles /\ troubles' = troubles + 1

(* A task of its own, with the settings of now: send_text.                  *)
PassOn(text, distance) ==
    LET message == [text |-> text, app |-> app, pc |-> "token"] IN
    /\ app # "none" /\ Cardinality(senders) < MaxSenders /\ message \notin senders
    /\ senders' = senders \cup {message}
    /\ passed' = [passed EXCEPT ![text] = now]
    /\ near' = IF passed[text] # Never /\ now - passed[text] < distance THEN near \cup {text} ELSE near

(* should_emit, in one piece under its mutex.                               *)
MayEmit_Unmarked(text) ==  \* seeded fault: a text is marked only the first time
    /\ seen[text] = Never \/ now - seen[text] >= Quiet
    /\ seen' = IF seen[text] = Never THEN [seen EXCEPT ![text] = now] ELSE seen

MayEmit(text) ==
    /\ seen[text] = Never \/ now - seen[text] >= Quiet
    /\ seen' = [seen EXCEPT ![text] = now]

(* tick, for the alerts of a sample; notify_event, of a rule or a status.    *)
Notify(text) ==
    /\ MayEmit(text) /\ PassOn(text, Quiet)
    /\ UNCHANGED <<now, app, last, token, changed, mixed, late, troubles>>

(* The digest: the first look only starts its clock.                        *)
FirstLook ==
    /\ app # "none" /\ last = Never
    /\ last' = now
    /\ UNCHANGED <<now, app, seen, token, senders, passed, near, changed, mixed, late, troubles>>

Digest ==
    /\ last # Never /\ now - last >= Every
    /\ last' = now /\ PassOn("digest", Every)
    /\ UNCHANGED <<now, app, seen, token, changed, mixed, late, troubles>>

-----------------------------------------------------------------------------
Move(s, pc) == senders' = (senders \ {s}) \cup {[s EXCEPT !.pc = pc]}

(* access_token: what is cached is used whatever bot it was made for.        *)
UseToken(s) ==
    /\ s.pc = "token"
    /\ IF now + Margin < token.end
       THEN /\ Move(s, "post")
            /\ mixed' = IF token.app # s.app THEN mixed \cup {token.end} ELSE mixed
       ELSE Move(s, "fetch") /\ UNCHANGED mixed
    /\ late' = (late \/ s.app # app)
    /\ UNCHANGED <<now, app, seen, last, token, passed, near, changed, troubles>>

(* Several senders may fetch one; the last answer stays.                     *)
FetchToken(s) ==
    /\ s.pc = "fetch"
    /\ token' = [app |-> s.app, end |-> now + Life]
    /\ Move(s, "post")
    /\ late' = (late \/ s.app # app)
    /\ UNCHANGED <<now, app, seen, last, passed, near, changed, mixed, troubles>>

Post(s) ==
    /\ s.pc = "post"
    /\ senders' = senders \ {s}
    /\ UNCHANGED <<now, app, seen, last, token, passed, near, changed, mixed, late, troubles>>

(* Neither address answers: the message is lost, its text stays marked.       *)
Lose(s) ==
    /\ Trouble /\ s.pc \in {"fetch", "post"}
    /\ senders' = senders \ {s}
    /\ UNCHANGED <<now, app, seen, last, token, passed, near, changed, mixed, late>>

(* The operator enters another bot, or none.                                *)
Configure(a) ==
    /\ Trouble /\ a # app
    /\ app' = a /\ changed' = now
    /\ UNCHANGED <<now, seen, last, token, senders, passed, near, mixed, late>>

Tick ==
    /\ now < MaxTime /\ now' = now + 1
    /\ UNCHANGED <<app, seen, last, token, senders, passed, near, changed, mixed, late, troubles>>

Next ==
    \/ \E text \in Texts : Notify(text)
    \/ FirstLook \/ Digest \/ Tick
    \/ \E s \in senders : UseToken(s) \/ FetchToken(s) \/ Post(s) \/ Lose(s)
    \/ \E a \in Apps \cup {"none"} : Configure(a)

Spec == Init /\ [][Next]_vars

-----------------------------------------------------------------------------
(* Whoever passes a text on, it rests before it is passed on again; and so    *)
(* do the digests (ops.rs:175, :146).                                       *)
TextsRest == near = {}

(* A message goes out with the token of another bot only for the life of a     *)
(* token after the bot was changed, or when a sender of the earlier bot      *)
(* came to its token after that (qqbot.rs:95).                                   *)
TokenIsOfTheBot == mixed # {} => troubles > 0 /\ (late \/ \A end \in mixed : end <= changed + Life)

AlertsSound == TextsRest /\ TokenIsOfTheBot
=============================================================================
