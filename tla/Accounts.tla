------------------------------- MODULE Accounts -------------------------------
(***************************************************************************)
(* The accounts of control and their sessions (handlers/auth.rs, users.rs,  *)
(* db.rs).  A request reads a row, then works for as long as a password     *)
(* takes to hash, then writes; every statement is a transaction of its own  *)
(* on a connection of its own.  Which routes a role may use is Permissions. *)
(***************************************************************************)
EXTENDS Naturals, FiniteSets

CONSTANTS
    Requests,       \* requests under way
    Names,          \* user names, up to case
    MaxAdmins,      \* bound: rows ever inserted
    MaxSessions,    \* bound: sessions at a time
    MaxChanges      \* bound: requests

VARIABLES
    admins,     \* the table "admins"
    nextId,     \* its AUTOINCREMENT
    sessions,   \* the table "sessions", by token
    req,        \* where each request stands
    used,       \* what has been used of MaxChanges
    crossed,    \* history: two changes of an owner ran across each other
    verified    \* history: the TOTP secrets for which a code was shown

vars == <<admins, nextId, sessions, req, used, crossed, verified>>

Ids == 1..MaxAdmins
Tokens == 1..MaxSessions
Roles == {"superadmin", "observer"}
NoAdmin == [name |-> "", role |-> "none", pw |-> 0, secret |-> 0, totp |-> FALSE]
NoSession == [id |-> 0, pw |-> 0, raced |-> FALSE]
Idle == [at |-> "idle", id |-> 0, name |-> "", role |-> "none", pw |-> 0, secret |-> 0,
         raced |-> FALSE, again |-> FALSE]

TypeOK ==
    /\ \A i \in Ids : /\ admins[i].role \in Roles \cup {"none"}
                      /\ admins[i].pw \in 0..MaxChanges /\ admins[i].secret \in 0..MaxChanges
    /\ nextId \in 1..MaxAdmins + 1
    /\ \A t \in Tokens : sessions[t].id \in {0} \cup Ids
    /\ \A r \in Requests : req[r].id \in {0} \cup Ids

Rows == {i \in Ids : admins[i].role # "none"}
Owners == {i \in Rows : admins[i].role = "superadmin"}
(* setup_required *)
SetupRequired == Rows = {}
First == CHOOSE i \in Rows : \A j \in Rows : i <= j

(* An empty database, or one with two owners who are signed in.            *)
Init ==
    /\ req = [r \in Requests |-> Idle]
    /\ used = 0 /\ crossed = FALSE /\ verified = {}
    /\ \/ /\ admins = [i \in Ids |-> NoAdmin] /\ nextId = 1
          /\ sessions = [t \in Tokens |-> NoSession]
       \/ LET names == CHOOSE f \in [1..2 -> Names] : f[1] # f[2] IN
             /\ nextId = 3
             /\ admins = [i \in Ids |-> IF i > 2 THEN NoAdmin ELSE
                             [NoAdmin EXCEPT !.name = names[i], !.role = "superadmin"]]
             /\ sessions = [t \in Tokens |-> IF t > 2 THEN NoSession ELSE [NoSession EXCEPT !.id = t]]

At(r, at) == req[r].at = at
Done(r) == req' = [req EXCEPT ![r] = Idle]
(* Who makes a request: current_admin finds the account of the session, or *)
(* the machine token stands for the first account.                         *)
SignedIn == ({sessions[t].id : t \in Tokens} \cup (IF Rows = {} THEN {} ELSE {First})) \ {0}
Begin(r, step) ==
    /\ At(r, "idle") /\ used < MaxChanges
    /\ used' = used + 1
    /\ req' = [req EXCEPT ![r] = step]
Rest == <<nextId, used>>

Insert(name, role) ==
    /\ admins' = [admins EXCEPT ![nextId] = [NoAdmin EXCEPT !.name = name, !.role = role]]
    /\ nextId' = nextId + 1
Taken(name) == \E i \in Rows : admins[i].name = name
Drop(id) == sessions' = [t \in Tokens |-> IF sessions[t].id = id THEN NoSession ELSE sessions[t]]

-----------------------------------------------------------------------------
(* The first account. *)
Setup(r, n) ==
    /\ SetupRequired
    /\ Begin(r, [Idle EXCEPT !.at = "setup", !.name = n])
    /\ UNCHANGED <<admins, nextId, sessions, crossed, verified>>

(* insert_superadmin inserts, and returns the first row of the table.      *)
SetupInsert(r) ==
    /\ At(r, "setup")
    /\ \/ /\ Taken(req[r].name) /\ Done(r)
          /\ UNCHANGED <<admins, nextId>>
       \/ /\ ~Taken(req[r].name) /\ nextId \in Ids
          /\ Insert(req[r].name, "superadmin")
          /\ LET id == IF Rows = {} THEN nextId ELSE First IN
             req' = [req EXCEPT ![r] = [Idle EXCEPT !.at = "session", !.id = id,
                                                    !.pw = IF id = nextId THEN 0 ELSE admins[id].pw]]
    /\ UNCHANGED <<sessions, used, crossed, verified>>

-----------------------------------------------------------------------------
(* The row is read and the password fits it.                               *)
Login(r, i) ==
    /\ i \in Rows
    /\ Begin(r, [Idle EXCEPT !.at = "login", !.id = i, !.pw = admins[i].pw])
    /\ UNCHANGED <<admins, nextId, sessions, crossed, verified>>

(* With 2FA on, the code is the right one or the request ends.             *)
SecondFactor(r) ==
    /\ At(r, "login")
    /\ \/ req' = [req EXCEPT ![r].at = "session"]
       \/ admins[req[r].id].totp /\ admins[req[r].id].secret # 0 /\ Done(r)
    /\ UNCHANGED <<admins, sessions, Rest, crossed, verified>>

(* create_session: the row of the account must still be there.             *)
CreateSession(r) ==
    /\ At(r, "session")
    /\ \/ /\ req[r].id \in Rows
          /\ \E t \in Tokens :
                /\ sessions[t].id = 0 /\ \A u \in Tokens : sessions[u].id = 0 => t <= u
                /\ sessions' = [sessions EXCEPT ![t] =
                      [id |-> req[r].id, pw |-> req[r].pw, raced |-> req[r].raced]]
       \/ req[r].id \notin Rows /\ UNCHANGED sessions
    /\ Done(r)
    /\ UNCHANGED <<admins, Rest, crossed, verified>>

(* Logout; or it expires: session_lookup passes over it, a purge deletes it. *)
EndSession(t) ==
    /\ sessions[t].id # 0
    /\ sessions' = [sessions EXCEPT ![t] = NoSession]
    /\ UNCHANGED <<admins, Rest, req, crossed, verified>>

-----------------------------------------------------------------------------
(* A password: one's own, which fits the row read, or anyone's by an owner  *)
(* (update_user: a role first, when it is given both).                     *)
ChangePassword(r, i) ==
    /\ i \in Rows
    /\ Begin(r, [Idle EXCEPT !.at = "password", !.id = i, !.again = TRUE])
    /\ UNCHANGED <<admins, nextId, sessions, crossed, verified>>

ResetPassword(r, by, i) ==
    /\ by \in Owners /\ i \in Rows
    /\ Begin(r, [Idle EXCEPT !.at = "password", !.id = i])
    /\ UNCHANGED <<admins, nextId, sessions, crossed, verified>>

(* update_admin fails on a row that is gone; from here on, what others under *)
(* way know of the password is old.                                        *)
WritePassword(r) ==
    /\ At(r, "password")
    /\ LET i == req[r].id IN
       \/ i \notin Rows /\ Done(r) /\ UNCHANGED admins
       \/ /\ i \in Rows
          /\ admins' = [admins EXCEPT ![i].pw = @ + 1]
          /\ req' = [q \in Requests |->
                        IF q = r THEN [req[q] EXCEPT !.at = "drop", !.pw = admins[i].pw + 1]
                        ELSE IF req[q].id = i THEN [req[q] EXCEPT !.raced = TRUE] ELSE req[q]]
    /\ UNCHANGED <<sessions, Rest, crossed, verified>>

DropSessions_Keeps(r) ==  \* seeded fault: the sessions stay
    /\ At(r, "drop")
    /\ \/ req[r].again /\ req' = [req EXCEPT ![r].at = "session"]
       \/ ~req[r].again /\ Done(r)
    /\ UNCHANGED <<admins, sessions, Rest, crossed, verified>>

DropSessions(r) ==
    /\ At(r, "drop")
    /\ Drop(req[r].id)
    /\ \/ req[r].again /\ req' = [req EXCEPT ![r].at = "session"]
       \/ ~req[r].again /\ Done(r)
    /\ UNCHANGED <<admins, Rest, crossed, verified>>

-----------------------------------------------------------------------------
(* Accounts, by an owner. *)
CreateUser(by, n, role) ==
    /\ by \in Owners /\ ~Taken(n)
    /\ nextId \in Ids /\ used < MaxChanges
    /\ used' = used + 1
    /\ Insert(n, role)
    /\ UNCHANGED <<sessions, req, crossed, verified>>

(* At least one owner stays: the count is read before the write.           *)
OwnerStays(i) == i \in Owners => Cardinality(Owners) > 1

UpdateRole(r, by, i, role) ==
    /\ by \in Owners /\ i \in Rows
    /\ by = i => role = admins[i].role
    /\ role # "superadmin" => OwnerStays(i)
    /\ Begin(r, [Idle EXCEPT !.at = "role", !.id = i, !.role = role])
    /\ UNCHANGED <<admins, nextId, sessions, crossed, verified>>

DeleteUser(r, by, i) ==
    /\ by \in Owners /\ i \in Rows /\ by # i
    /\ OwnerStays(i)
    /\ Begin(r, [Idle EXCEPT !.at = "delete", !.id = i])
    /\ UNCHANGED <<admins, nextId, sessions, crossed, verified>>

Crossing(r) == crossed \/ \E q \in Requests \ {r} : req[q].at \in {"role", "delete"}

WriteRole(r) ==
    /\ At(r, "role")
    /\ crossed' = Crossing(r)
    /\ \/ /\ req[r].id \in Rows
          /\ admins' = [admins EXCEPT ![req[r].id].role = req[r].role]
          /\ req' = [req EXCEPT ![r].at = "drop"]
       \/ req[r].id \notin Rows /\ Done(r) /\ UNCHANGED admins
    /\ UNCHANGED <<sessions, Rest, verified>>

(* The sessions go with the row (ON DELETE CASCADE).                       *)
DeleteRow(r) ==
    /\ At(r, "delete")
    /\ crossed' = Crossing(r)
    /\ admins' = [admins EXCEPT ![req[r].id] = NoAdmin]
    /\ Drop(req[r].id)
    /\ Done(r)
    /\ UNCHANGED <<Rest, verified>>

-----------------------------------------------------------------------------
(* 2FA of one's own account: a new secret turns it off until a code of the *)
(* secret was shown.                                                       *)
TotpSetup(i) ==
    /\ i \in Rows /\ used < MaxChanges
    /\ used' = used + 1
    /\ admins' = [admins EXCEPT ![i].secret = used', ![i].totp = FALSE]
    /\ req' = [q \in Requests |-> IF At(q, "verify") /\ req[q].id = i
                                  THEN [req[q] EXCEPT !.raced = TRUE] ELSE req[q]]
    /\ UNCHANGED <<nextId, sessions, crossed, verified>>

TotpVerify(r, i) ==
    /\ i \in Rows /\ admins[i].secret # 0
    /\ Begin(r, [Idle EXCEPT !.at = "verify", !.id = i, !.secret = admins[i].secret])
    /\ UNCHANGED <<admins, nextId, sessions, crossed, verified>>

TotpEnable(r) ==
    /\ At(r, "verify")
    /\ LET i == req[r].id IN
       /\ admins' = [admins EXCEPT ![i].totp = admins[i].secret # 0]
       /\ verified' = verified \cup {<<i, IF req[r].raced THEN admins[i].secret ELSE req[r].secret>>}
    /\ Done(r)
    /\ UNCHANGED <<sessions, Rest, crossed>>

TotpDisable(i) ==
    /\ i \in Rows /\ admins[i].secret # 0
    /\ admins' = [admins EXCEPT ![i].secret = 0, ![i].totp = FALSE]
    /\ UNCHANGED <<sessions, Rest, req, crossed, verified>>

Begins(r) ==
    \/ \E n \in Names : Setup(r, n)
    \/ \E i \in Rows : Login(r, i)
    \/ \E by \in SignedIn :
          \/ ChangePassword(r, by) \/ TotpVerify(r, by)
          \/ \E i \in Rows : \/ ResetPassword(r, by, i) \/ DeleteUser(r, by, i)
                            \/ \E role \in Roles : UpdateRole(r, by, i, role)

Next ==
    \/ \E r \in Requests :
          \/ SetupInsert(r) \/ SecondFactor(r) \/ CreateSession(r)
          \/ WritePassword(r) \/ DropSessions(r) \/ WriteRole(r) \/ DeleteRow(r) \/ TotpEnable(r)
          \/ At(r, "idle") /\ used < MaxChanges /\ Begins(r)
    \/ \E t \in Tokens : EndSession(t)
    \/ \E by \in SignedIn :
          \/ TotpSetup(by) \/ TotpDisable(by)
          \/ \E n \in Names, role \in Roles : CreateUser(by, n, role)

Spec == Init /\ [][Next]_vars

-----------------------------------------------------------------------------
(* Once set up there is an owner, unless two changes of owners ran across   *)
(* each other: the count is read before the write (db.rs:633, :1110).       *)
OwnersRemain == nextId > 1 /\ ~crossed => Owners # {}

(* Who is signed in showed the password of now, unless the request ran      *)
(* across the change or the change is about to drop the session             *)
(* (handlers/auth.rs:302-306, users.rs:153).                               *)
SessionsFresh ==
    \A t \in Tokens :
        sessions[t].id # 0 /\ ~sessions[t].raced =>
            \/ sessions[t].pw = admins[sessions[t].id].pw
            \/ \E r \in Requests : At(r, "drop") /\ req[r].id = sessions[t].id

(* 2FA is on only for a secret of which a code was shown, unless a setup    *)
(* ran across the check (handlers/auth.rs:403-412).                        *)
TotpShown == \A i \in Rows : admins[i].totp => <<i, admins[i].secret>> \in verified

AccountsSound == OwnersRemain /\ SessionsFresh /\ TotpShown

-----------------------------------------------------------------------------
(* Inductive, with what AccountsSound says: what each request has read is   *)
(* still so when it writes, unless another ran across it.                   *)
Admin == [name : Names \cup {""}, role : Roles \cup {"none"}, pw : Nat, secret : Nat, totp : BOOLEAN]
Session == [id : Nat, pw : Nat, raced : BOOLEAN]
Steps == {"idle", "setup", "login", "session", "password", "drop", "role", "delete", "verify"}
Standing == [at : Steps, id : Nat, name : Names \cup {""}, role : Roles \cup {"none"},
             pw : Nat, secret : Nat, raced : BOOLEAN, again : BOOLEAN]

Shape ==
    /\ admins \in [Ids -> Admin] /\ sessions \in [Tokens -> Session]
    /\ req \in [Requests -> Standing] /\ nextId \in 1..MaxAdmins + 1 /\ used \in Nat

(* A number is given to one row only. *)
IdsAreSpent ==
    /\ \A i \in Rows : i < nextId
    /\ \A t \in Tokens : sessions[t].id \in {0} \cup Rows
    /\ \A r \in Requests : req[r].at \notin {"idle", "setup"} => req[r].id \in 1..nextId - 1

Demotes(r) == At(r, "delete") \/ (At(r, "role") /\ req[r].role # "superadmin")
AnotherOwns ==
    /\ \A r \in Requests : At(r, "role") => req[r].role \in Roles /\ ~req[r].again
    /\ \A r \in Requests : ~crossed /\ Demotes(r) /\ req[r].id \in Owners =>
                              \E j \in Owners : j # req[r].id

ShowsPassword(r) == At(r, "login") \/ At(r, "session") \/ (At(r, "drop") /\ req[r].again)
KnowsPassword ==
    \A r \in Requests : ShowsPassword(r) /\ ~req[r].raced /\ req[r].id \in Rows =>
                            req[r].pw = admins[req[r].id].pw

KnowsSecret ==
    \A r \in Requests : At(r, "verify") /\ ~req[r].raced =>
                            admins[req[r].id].secret \in {0, req[r].secret}

AccountsInv ==
    /\ Shape /\ IdsAreSpent
    /\ AnotherOwns /\ OwnersRemain
    /\ KnowsPassword /\ SessionsFresh
    /\ KnowsSecret /\ TotpShown
=============================================================================
