----------------------------- MODULE InitService -----------------------------
(***************************************************************************)
(* What control may rely on when it calls cocktail-init, whatever happens  *)
(* to the pipes and the processes in between (InitClient::call).           *)
(*                                                                         *)
(* A request is executed at most once.  An answer is the answer to that    *)
(* request, and was computed.  A call that is refused was not and will not *)
(* be executed; one that ends without a verdict may have been, may be      *)
(* later, or never.                                                        *)
(***************************************************************************)
EXTENDS Naturals

CONSTANTS Calls, None

VARIABLES
    verdict,  \* verdict[c]: what the caller of c was told
    answer,   \* answer[c]: the request whose result c was given
    runs      \* runs[c]: how often init began to execute c

Init ==
    /\ verdict = [c \in Calls |-> "idle"]
    /\ answer = [c \in Calls |-> None]
    /\ runs = [c \in Calls |-> 0]

Ask(c) ==
    /\ verdict[c] = "idle"
    /\ verdict' = [verdict EXCEPT ![c] = "asked"]
    /\ UNCHANGED <<answer, runs>>

Run(c) ==
    /\ verdict[c] \in {"asked", "unknown"}
    /\ runs[c] = 0
    /\ runs' = [runs EXCEPT ![c] = 1]
    /\ UNCHANGED <<verdict, answer>>

Answer(c) ==
    /\ verdict[c] = "asked"
    /\ runs[c] = 1
    /\ verdict' = [verdict EXCEPT ![c] = "answered"]
    /\ answer' = [answer EXCEPT ![c] = c]
    /\ UNCHANGED runs

Refuse(c) ==
    /\ verdict[c] \in {"idle", "asked"}
    /\ runs[c] = 0
    /\ verdict' = [verdict EXCEPT ![c] = "refused"]
    /\ UNCHANGED <<answer, runs>>

Lose(c) ==
    /\ verdict[c] = "asked"
    /\ verdict' = [verdict EXCEPT ![c] = "unknown"]
    /\ UNCHANGED <<answer, runs>>

Next == \E c \in Calls : Ask(c) \/ Run(c) \/ Answer(c) \/ Refuse(c) \/ Lose(c)

vars == <<verdict, answer, runs>>

Spec == Init /\ [][Next]_vars
=============================================================================
