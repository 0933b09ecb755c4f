------------------------------ MODULE LoginGuard ------------------------------
(***************************************************************************)
(* What keeps wrong passwords from being tried without end (auth.rs,        *)
(* db.rs): a table in memory by peer and user, behind a lock, and a row in  *)
(* the database by user, read and written in two statements.  Several       *)
(* requests for one user are under way; between the check and the record    *)
(* each hashes a password.                                                 *)
(***************************************************************************)
EXTENDS Naturals, FiniteSets

CONSTANTS
    Tries,          \* login requests under way
    Keys,           \* the peers of the user
    MaxFails,       \* LOGIN_MAX_FAILS
    Window, Lock,   \* LOGIN_WINDOW, LOGIN_LOCK
    MaxKeys,        \* LOGIN_MAX_KEYS
    MaxTime,        \* bound: the clock
    MaxWrong        \* bound: wrong passwords in all

VARIABLES
    now,
    fails,      \* fail_table: [count, first, until] by key; count 0: no entry
    row,        \* login_attempts of the user, likewise
    try,        \* where each request stands, and the row it read
    wrong       \* wrong passwords recorded

vars == <<now, fails, row, try, wrong>>

None == [count |-> 0, first |-> 0, until |-> 0]
Idle == [at |-> "idle", key |-> CHOOSE k \in Keys : TRUE, row |-> None]

TypeOK ==
    /\ now \in 0..MaxTime
    /\ \A k \in Keys : fails[k].count \in 0..MaxWrong /\ fails[k].first <= now
    /\ row.count \in 0..MaxWrong /\ row.first <= now
    /\ \A t \in Tries : try[t].at \in {"idle", "verify", "record", "write"}

Init ==
    /\ now = 0
    /\ fails = [k \in Keys |-> None] /\ row = None
    /\ try = [t \in Tries |-> Idle]
    /\ wrong = 0

Tick ==
    /\ now < MaxTime
    /\ now' = now + 1
    /\ UNCHANGED <<fails, row, try, wrong>>

Over(f) == now - f.first >= Window
(* login_allowed forgets every entry that is over and not locked.          *)
Kept == [k \in Keys |-> IF Over(fails[k]) /\ fails[k].until <= now THEN None ELSE fails[k]]

Allowed(k) ==
    LET f == Kept[k] IN f.count = 0 \/ (f.until <= now /\ (Over(f) \/ f.count < MaxFails))

LoginLocked == row.until > now

Login(t, k) ==
    /\ try[t].at = "idle" /\ wrong < MaxWrong
    /\ Allowed(k) /\ ~LoginLocked
    /\ fails' = [Kept EXCEPT ![k] = IF Over(@) THEN None ELSE @]
    /\ try' = [try EXCEPT ![t] = [Idle EXCEPT !.at = "verify", !.key = k]]
    /\ UNCHANGED <<now, row, wrong>>

Succeeded(t) ==
    /\ try[t].at = "verify"
    /\ row' = None
    /\ fails' = [fails EXCEPT ![try[t].key] = None]
    /\ try' = [try EXCEPT ![t] = Idle]
    /\ UNCHANGED <<now, wrong>>

(* login_failed: a full table is emptied first.                            *)
Counted(f) ==
    LET c == IF Over(f) \/ f.count = 0 THEN [None EXCEPT !.first = now] ELSE f IN
    [c EXCEPT !.count = @ + 1, !.until = IF c.count + 1 >= MaxFails THEN now + Lock ELSE @]

LoginFailed(t) ==
    /\ try[t].at = "verify" /\ wrong < MaxWrong
    /\ LET k == try[t].key
           full == Cardinality({q \in Keys : fails[q].count > 0}) >= MaxKeys
           left == IF full THEN [q \in Keys |-> None] ELSE fails
       IN  fails' = [left EXCEPT ![k] = Counted(@)]
    /\ wrong' = wrong + 1
    (* a wrong code of the second factor is counted here only *)
    /\ \/ try' = [try EXCEPT ![t].at = "record"]
       \/ try' = [try EXCEPT ![t] = Idle]
    /\ UNCHANGED <<now, row>>

(* record_login_failure *)
ReadRow(t) ==
    /\ try[t].at = "record"
    /\ try' = [try EXCEPT ![t].at = "write", ![t].row = IF row.count = 0 \/ Over(row)
                                                       THEN [row EXCEPT !.count = 0, !.first = now]
                                                       ELSE row]
    /\ UNCHANGED <<now, fails, row, wrong>>

WriteRow_NoLock(t) ==  \* seeded fault: the row counts and never locks
    /\ try[t].at = "write"
    /\ row' = [try[t].row EXCEPT !.count = @ + 1]
    /\ try' = [try EXCEPT ![t] = Idle]
    /\ UNCHANGED <<now, fails, wrong>>

WriteRow(t) ==
    /\ try[t].at = "write"
    /\ row' = [try[t].row EXCEPT !.count = @ + 1,
                                 !.until = IF try[t].row.count + 1 >= MaxFails THEN now + Lock ELSE @]
    /\ try' = [try EXCEPT ![t] = Idle]
    /\ UNCHANGED <<now, fails, wrong>>

Next ==
    \/ Tick
    \/ \E t \in Tries : \/ Succeeded(t) \/ LoginFailed(t) \/ ReadRow(t) \/ WriteRow(t)
                        \/ \E k \in Keys : Login(t, k)

Spec == Init /\ [][Next]_vars

-----------------------------------------------------------------------------
(* From one peer no more wrong passwords pass than the limit and the        *)
(* requests already past the check (handlers/auth.rs:159, auth.rs:64).      *)
PeerBounded == \A k \in Keys : fails[k].count <= MaxFails + Cardinality(Tries) - 1

(* A row that counted the limit within its window locks the user, whichever *)
(* of the requests that read it at once wrote it last (db.rs:769).          *)
RowLocks == row.count >= MaxFails /\ ~Over(row) => LoginLocked

(* Wrong passwords are bounded by the peer, and lock the user.  A record    *)
(* from a row read before others lowers the count, and with it the lock.    *)
TriesBounded == PeerBounded /\ RowLocks

-----------------------------------------------------------------------------
(* Inductive: a request past the check is counted for its peer already, and *)
(* a row that counts the limit was locked when it did.                      *)
Counter == [count : Nat, first : Nat, until : Nat]
Standing == [at : {"idle", "verify", "record", "write"}, key : Keys, row : Counter]
Past(k) == {t \in Tries : try[t].at = "verify" /\ try[t].key = k}

GuardInv ==
    /\ now \in Nat /\ fails \in [Keys -> Counter] /\ row \in Counter
    /\ try \in [Tries -> Standing] /\ wrong \in Nat
    /\ \A k \in Keys : fails[k].count + Cardinality(Past(k)) <= MaxFails - 1 + Cardinality(Tries)
    /\ row.first <= now /\ \A t \in Tries : try[t].row.first <= now
    /\ row.count >= MaxFails => row.until >= row.first + Lock
=============================================================================
