--------------------------- MODULE PlaneSignProofs ---------------------------
(***************************************************************************)
(* What the accounts, the login guard and the permissions of MCPlane        *)
(* promise, for any number of accounts, sessions, requests, peers and tries *)
(* and any limits.                                                          *)
(***************************************************************************)
EXTENDS PlaneParts, FiniteSetTheorems, WellFoundedInduction, TLAPS

-----------------------------------------------------------------------------
(* Permissions.  x1 is asked and x2 verdict. *)

(* What changes a thing takes a permission that an observer has not. *)
LEMMA ChangesNeedMore ==
    ASSUME NEW path
    PROVE  Gate!RequiredPerm(FALSE, path) # "view"
<1>1. \A last : Gate!PlayerPerm(FALSE, last) # "view"
  BY DEF Gate!PlayerPerm, Gate!PlayerPerms, Gate!IfRead
<1>2. Gate!InstancePerm(FALSE, path) # "view"
  BY <1>1 DEF Gate!InstancePerm, Gate!IfRead
<1> QED
  BY <1>2 DEF Gate!RequiredPerm, Gate!IfRead

(* What a role may do, the roles above it may. *)
LEMMA RolesAbove ==
    ASSUME NEW pair \in Gate!Above, NEW perm, Gate!Can(pair[1], perm)
    PROVE  Gate!Can(pair[2], perm)
<1>1. \/ pair[1] = "observer" /\ pair[2] \in {"support", "developer"}
      \/ pair[1] \in {"support", "developer"} /\ pair[2] = "admin"
      \/ pair[1] = "admin" /\ pair[2] = "superadmin"
  <2>1. \/ pair = <<"observer", "support">> \/ pair = <<"observer", "developer">>
        \/ pair = <<"support", "admin">> \/ pair = <<"developer", "admin">>
        \/ pair = <<"admin", "superadmin">>
    BY DEF Gate!Above
  <2> QED
    BY <2>1
<1>2. /\ Gate!Permitted("observer") = {"view"}
      /\ Gate!Permitted("support") = Gate!Support
      /\ Gate!Permitted("developer") = Gate!Developer
      /\ Gate!Permitted("admin") = Gate!Admin
  BY DEF Gate!Permitted
<1>3. Gate!Support \subseteq Gate!Admin /\ Gate!Developer \subseteq Gate!Admin
  BY DEF Gate!Admin
<1> QED
  BY <1>1, <1>2, <1>3 DEF Gate!Can

(* Who may change a thing may look at it. *)
LEMMA ChangersRead ==
    ASSUME NEW role, NEW path, Gate!Can(role, Gate!RequiredPerm(FALSE, path))
    PROVE  Gate!Can(role, Gate!RequiredPerm(TRUE, path))
<1> DEFINE w == Gate!RequiredPerm(FALSE, path)
           r == Gate!RequiredPerm(TRUE, path)
<1>1. \A last : Gate!PlayerPerm(TRUE, last) \in {"view", Gate!PlayerPerm(FALSE, last)}
  BY DEF Gate!PlayerPerm, Gate!PlayerPerms, Gate!IfRead
<1>2. \/ Gate!InstancePerm(TRUE, path) \in {"view", Gate!InstancePerm(FALSE, path)}
      \/ Gate!InstancePerm(TRUE, path) = "files.read" /\ Gate!InstancePerm(FALSE, path) = "files.write"
  BY <1>1 DEF Gate!InstancePerm, Gate!IfRead
<1>3. \/ r \in {"view", w}
      \/ r = "files.read" /\ w = "files.write"
      \/ r = "nodes" /\ w = "nodes.manage"
      \/ r = "netops.view" /\ w = "netops.write"
  <2> USE DEF Gate!RequiredPerm, Gate!IfRead, Gate!Starts
  <2>1. CASE Gate!Starts(path, {"users"})
    BY <2>1
  <2>2. CASE Gate!Starts(path, {"nodes"})
    BY <2>2
  <2>3. CASE Gate!Starts(path, {"netops", "network"})
    BY <2>3
  <2>4. CASE Gate!Starts(path, {"auth"})
    BY <2>4
  <2>5. CASE Gate!Starts(path, {"automations", "schedules"})
    BY <2>5
  <2>6. CASE Gate!Starts(path, {"fleet"})
    BY <2>6
  <2>7. CASE Gate!Starts(path, {"cores"})
    BY <2>7
  <2>8. CASE Gate!Starts(path, {"instances"})
    BY <1>2, <2>8
  <2> QED
    BY <2>1, <2>2, <2>3, <2>4, <2>5, <2>6, <2>7, <2>8
<1>4. CASE role = "superadmin" \/ r = "view" \/ r = w
  BY <1>4 DEF Gate!Can
<1>5. CASE role # "superadmin" /\ r # "view" /\ r # w
  <2>1. w # "view" /\ w \in Gate!Permitted(role)
    BY <1>3, <1>5 DEF Gate!Can
  <2>2. Gate!Permitted(role) \in {{"view"}, Gate!Support, Gate!Developer, Gate!Admin}
    BY <1>5 DEF Gate!Permitted
  <2>3. w \in {"files.write", "netops.write", "nodes.manage"}
    BY <1>3, <1>5
  <2>4. r \in Gate!Permitted(role)
    BY <1>3, <1>5, <2>1, <2>2, <2>3 DEF Gate!Support, Gate!Developer, Gate!Admin, Gate!Players
  <2> QED
    BY <2>4 DEF Gate!Can
<1> QED
  BY <1>4, <1>5

(* Nothing is let through before the gate has judged it. *)
LEMMA GateStarts == Gate!Init => Gate!GateInv
BY DEF Gate!Init, Gate!GateInv

LEMMA GateSteps == Gate!GateInv /\ [Gate!Next]_(Gate!vars) => Gate!GateInv'
BY DEF Gate!GateInv, Gate!Next, Gate!vars, Gate!AuthMiddleware, Gate!Judged

(* A request with one of its fields changed is that request written out. *)
LEMMA RequestChanged ==
    ASSUME NEW a, a = [path |-> a.path, read |-> a.read, token |-> a.token, role |-> a.role,
                       csrf |-> a.csrf, setup |-> a.setup], NEW v
    PROVE  /\ [a EXCEPT !.role = v] = [path |-> a.path, read |-> a.read, token |-> a.token,
                                       role |-> v, csrf |-> a.csrf, setup |-> a.setup]
           /\ [a EXCEPT !.read = v] = [path |-> a.path, read |-> v, token |-> a.token,
                                       role |-> a.role, csrf |-> a.csrf, setup |-> a.setup]
OBVIOUS

(* Of a request that runs: its role may change what it changes, the roles   *)
(* above would be let through too, and looking is let through.              *)
LEMMA GateNestsRoles == Gate!GateInv => Gate!RolesNest
<1> SUFFICES ASSUME Gate!GateInv, x2 = "runs", x1.path \notin Gate!Public
             PROVE  /\ x1.read \/ x1.role # "observer"
                    /\ \A pair \in Gate!Above :
                          pair[1] = x1.role => Gate!Judged([x1 EXCEPT !.role = pair[2]]) = "runs"
                    /\ ~x1.read /\ x1.path \in Gate!Reads =>
                          Gate!Judged([x1 EXCEPT !.read = TRUE]) = "runs"
  BY DEF Gate!RolesNest
<1> DEFINE perm == Gate!RequiredPerm(x1.read, x1.path)
<1>0. x1 = [path |-> x1.path, read |-> x1.read, token |-> x1.token, role |-> x1.role,
            csrf |-> x1.csrf, setup |-> x1.setup]
  BY DEF Gate!GateInv
<1>1. /\ x1.setup /\ x1.token \notin {"none", "gone"}
      /\ x1.read \/ x1.token # "session" \/ x1.csrf
      /\ Gate!Can(x1.role, perm)
  BY DEF Gate!GateInv, Gate!Judged
<1>2. x1.read \/ x1.role # "observer"
  <2> SUFFICES ASSUME x1.read = FALSE, x1.role = "observer" PROVE FALSE
    BY DEF Gate!GateInv
  <2>1. perm # "view"
    BY ChangesNeedMore
  <2>2. Gate!Permitted("observer") = {"view"}
    BY DEF Gate!Permitted
  <2> QED
    BY <1>1, <2>1, <2>2 DEF Gate!Can
<1>3. ASSUME NEW pair \in Gate!Above, pair[1] = x1.role
      PROVE  Gate!Judged([x1 EXCEPT !.role = pair[2]]) = "runs"
  <2>1. Gate!Can(pair[2], perm)
    BY <1>1, <1>3, RolesAbove
  <2>2. [x1 EXCEPT !.role = pair[2]]
           = [path |-> x1.path, read |-> x1.read, token |-> x1.token, role |-> pair[2],
              csrf |-> x1.csrf, setup |-> x1.setup]
    BY <1>0, RequestChanged
  <2> QED
    BY <1>1, <2>1, <2>2 DEF Gate!Judged
<1>4. ASSUME ~x1.read PROVE Gate!Judged([x1 EXCEPT !.read = TRUE]) = "runs"
  <2>1. x1.read = FALSE
    BY <1>4 DEF Gate!GateInv
  <2>2. Gate!Can(x1.role, Gate!RequiredPerm(TRUE, x1.path))
    BY <1>1, <2>1, ChangersRead
  <2>3. [x1 EXCEPT !.read = TRUE]
           = [path |-> x1.path, read |-> TRUE, token |-> x1.token, role |-> x1.role,
              csrf |-> x1.csrf, setup |-> x1.setup]
    BY <1>0, RequestChanged
  <2> QED
    BY <1>1, <2>2, <2>3 DEF Gate!Judged
<1> QED
  BY <1>2, <1>3, <1>4

-----------------------------------------------------------------------------
(* LoginGuard.  x1 is now, x2 fails, x3 row, x4 try and x5 wrong. *)

(* In an instance the cardinality of a set is what it is elsewhere. *)
LEMMA GuardCounts == \A S : Guard!Cardinality(S) = Cardinality(S)
BY DEF Guard!Cardinality, Cardinality

LEMMA SignCounts == \A S : Sign!Cardinality(S) = Cardinality(S)
BY Zenon DEF Sign!Cardinality, Cardinality

(* Of some of the requests: at most as many as of all that they are among,  *)
(* and one less when one of them leaves.                                   *)
LEMMA TriesCounted ==
    ASSUME NEW T \in SUBSET Tries
    PROVE  /\ Guard!Cardinality(T) \in Nat
           /\ \A S \in SUBSET T : Guard!Cardinality(S) <= Guard!Cardinality(T)
           /\ \A t \in T : Guard!Cardinality(T \ {t}) = Guard!Cardinality(T) - 1
<1>1. IsFiniteSet(T) /\ Cardinality(T) \in Nat
  BY LoginBounds, FS_Subset, FS_CardinalityType
<1>2. \A S \in SUBSET T : Cardinality(S) <= Cardinality(T)
  BY <1>1, FS_Subset
<1>3. \A t \in T : Cardinality(T \ {t}) = Cardinality(T) - 1
  BY <1>1, FS_RemoveElement
<1> QED
  BY <1>1, <1>2, <1>3, GuardCounts

(* The limit of a peer holds where the count does not rise and none passes  *)
(* the check, where it rises by one and one leaves, and where it is below    *)
(* the limit, or is the limit and one is not past.                         *)
LEMMA PeerStays ==
    ASSUME Guard!GuardInv, NEW k \in Peers, x2'[k] \in Guard!Counter,
           \/ x2'[k].count < MaxFails
           \/ x2'[k].count <= x2[k].count /\ Guard!Past(k)' \subseteq Guard!Past(k)
           \/ /\ x2'[k].count <= MaxFails \/ x2'[k].count <= x2[k].count + 1
              /\ \E t \in Guard!Past(k) : Guard!Past(k)' \subseteq Guard!Past(k) \ {t}
    PROVE  x2'[k].count + Guard!Cardinality(Guard!Past(k)')
              <= MaxFails - 1 + Guard!Cardinality(Tries)
<1> DEFINE n == Guard!Cardinality(Tries)
           b == Guard!Cardinality(Guard!Past(k))
           a == Guard!Cardinality(Guard!Past(k)')
           c == x2[k].count
           d == x2'[k].count
<1>1. Guard!Past(k) \subseteq Tries /\ Guard!Past(k)' \subseteq Tries
  BY DEF Guard!Past
<1>2. n \in Nat /\ b \in Nat /\ a \in Nat /\ a <= n /\ b <= n
  BY <1>1, TriesCounted
<1>3. c \in Nat /\ d \in Nat /\ MaxFails \in Nat /\ c + b <= MaxFails - 1 + n
  BY LoginBounds DEF Guard!GuardInv, Guard!Counter
<1>4. CASE d < MaxFails
  BY <1>2, <1>3, <1>4
<1>5. CASE d <= c /\ Guard!Past(k)' \subseteq Guard!Past(k)
  <2>1. a <= b
    BY <1>1, <1>5, TriesCounted
  <2> QED
    BY <1>2, <1>3, <1>5, <2>1
<1>6. CASE /\ d <= MaxFails \/ d <= c + 1
           /\ \E t \in Guard!Past(k) : Guard!Past(k)' \subseteq Guard!Past(k) \ {t}
  <2>1. PICK t \in Guard!Past(k) : Guard!Past(k)' \subseteq Guard!Past(k) \ {t}
    BY <1>6
  <2>2. Guard!Cardinality(Guard!Past(k) \ {t}) = b - 1
    BY <1>1, TriesCounted
  <2>3. a <= Guard!Cardinality(Guard!Past(k) \ {t})
    <3>1. (Guard!Past(k) \ {t}) \in SUBSET Tries
      BY <1>1
    <3> QED
      BY <2>1, <3>1, TriesCounted
  <2>4. a <= b - 1
    BY <2>2, <2>3
  <2> QED
    BY <1>2, <1>3, <1>6, <2>4
<1> QED
  BY <1>4, <1>5, <1>6

LEMMA GuardStarts == Guard!Init => Guard!GuardInv
<1> SUFFICES ASSUME Guard!Init PROVE Guard!GuardInv
  OBVIOUS
<1> USE LoginBounds
<1>0. \A k \in Peers : Guard!Past(k) \subseteq Tries
  BY DEF Guard!Past
<1>1. \A k \in Peers : x2[k].count + Guard!Cardinality(Guard!Past(k)) <= MaxFails - 1 + Guard!Cardinality(Tries)
  BY <1>0, TriesCounted DEF Guard!Init, Guard!None
<1>2. Guard!None \in Guard!Counter /\ (CHOOSE k \in Peers : TRUE) \in Peers
  BY DEF Guard!None, Guard!Counter
<1>3. Guard!Idle \in Guard!Standing
  BY <1>2 DEF Guard!Idle, Guard!Standing
<1>4. /\ x1 = 0 /\ x2 = [k \in Peers |-> Guard!None] /\ x3 = Guard!None /\ x5 = 0
      /\ x4 = [t \in Tries |-> Guard!Idle]
  BY DEF Guard!Init
<1>5. Guard!None.first = 0 /\ Guard!None.count = 0 /\ Guard!Idle.row = Guard!None
  BY DEF Guard!None, Guard!Idle
<1>6. x1 \in Nat /\ x2 \in [Peers -> Guard!Counter] /\ x3 \in Guard!Counter
      /\ x4 \in [Tries -> Guard!Standing] /\ x5 \in Nat
  BY <1>2, <1>3, <1>4
<1>7. x3.first <= x1 /\ \A t \in Tries : x4[t].row.first <= x1
  BY <1>4, <1>5
<1>8. ~ (x3.count >= MaxFails)
  BY <1>4, <1>5
<1> QED
  BY <1>1, <1>6, <1>7, <1>8 DEF Guard!GuardInv

LEMMA NoneCounts == Guard!None \in Guard!Counter /\ Guard!None.count = 0 /\ Guard!None.first = 0
BY DEF Guard!None, Guard!Counter

(* One request moves: who else is past the check stays past it. *)
LEMMA TryMoves ==
    ASSUME Guard!GuardInv, NEW t \in Tries, NEW r \in Guard!Standing, x4' = [x4 EXCEPT ![t] = r]
    PROVE  /\ x4' \in [Tries -> Guard!Standing]
           /\ x4'[t] = r /\ \A u \in Tries \ {t} : x4'[u] = x4[u]
           /\ \A k \in Peers : r.at # "verify" \/ r.key # k =>
                                  Guard!Past(k)' \subseteq Guard!Past(k) \ {t}
BY DEF Guard!GuardInv, Guard!Past

(* One request moves outside the check, and the peers' counters stay.       *)
LEMMA OneTryMoves ==
    ASSUME Guard!GuardInv, NEW t \in Tries, NEW r \in Guard!Standing, r.at # "verify",
           x4' = [x4 EXCEPT ![t] = r], r.row.first <= x1,
           UNCHANGED <<x1, x2, x5>>, x3' \in Guard!Counter, x3'.first <= x1,
           x3'.count >= MaxFails => x3'.until >= x3'.first + FailLock
    PROVE  Guard!GuardInv'
<1>1. /\ x4' \in [Tries -> Guard!Standing]
      /\ x4'[t] = r /\ \A u \in Tries \ {t} : x4'[u] = x4[u]
      /\ \A k \in Peers : Guard!Past(k)' \subseteq Guard!Past(k) \ {t}
  BY TryMoves
<1>2. ASSUME NEW k \in Peers
      PROVE  x2'[k].count + Guard!Cardinality(Guard!Past(k)')
                <= MaxFails - 1 + Guard!Cardinality(Tries)
  <2>1. x2'[k] = x2[k] /\ x2[k] \in Guard!Counter /\ x2[k].count \in Nat
    BY DEF Guard!GuardInv, Guard!Counter
  <2>2. x2'[k].count <= x2[k].count /\ Guard!Past(k)' \subseteq Guard!Past(k)
    BY <1>1, <2>1
  <2> QED
    BY <2>1, <2>2, PeerStays
<1>3. \A u \in Tries : x4'[u].row.first <= x1'
  BY <1>1 DEF Guard!GuardInv
<1> QED
  BY <1>1, <1>2, <1>3 DEF Guard!GuardInv

(* A request moves on in its own way, with what it has read.               *)
LEMMA StandingMoves ==
    ASSUME NEW r \in Guard!Standing, NEW at \in {"idle", "verify", "record", "write"}
    PROVE  /\ [r EXCEPT !.at = at] \in Guard!Standing
           /\ [r EXCEPT !.at = at].row = r.row /\ [r EXCEPT !.at = at].at = at
BY DEF Guard!Standing

LEMMA StandingAsks ==
    ASSUME NEW r \in Guard!Standing, NEW k \in Peers
    PROVE  /\ [r EXCEPT !.at = "verify", !.key = k] \in Guard!Standing
           /\ [r EXCEPT !.at = "verify", !.key = k].row = r.row
           /\ [r EXCEPT !.at = "verify", !.key = k].key = k
BY DEF Guard!Standing

(* The check: the counter of the peer is below the limit or begins anew.    *)
LEMMA GuardLogin ==
    ASSUME Guard!GuardInv, NEW t \in Tries, NEW k \in Peers, Guard!Login(t, k)
    PROVE  Guard!GuardInv'
<1> USE LoginBounds, NoneCounts
<1>1. \A q \in Peers : /\ Guard!Kept[q] \in {x2[q], Guard!None} /\ Guard!Kept[q] \in Guard!Counter
                       /\ x2[q].count \in Nat
  BY DEF Guard!GuardInv, Guard!Kept, Guard!Counter
<1>2. x2' = [Guard!Kept EXCEPT ![k] = IF Guard!Over(@) THEN Guard!None ELSE @]
  BY DEF Guard!Login
<1>3. Guard!Kept = [q \in Peers |-> Guard!Kept[q]]
  BY DEF Guard!Kept
<1>4. /\ x2' \in [Peers -> Guard!Counter]
      /\ \A q \in Peers \ {k} : x2'[q] = Guard!Kept[q]
      /\ x2'[k] = IF Guard!Over(Guard!Kept[k]) THEN Guard!None ELSE Guard!Kept[k]
  BY <1>1, <1>2, <1>3
<1>5. x2'[k].count < MaxFails
  BY <1>1, <1>4 DEF Guard!Login, Guard!Allowed
<1>6. \A q \in Peers \ {k} : x2'[q].count <= x2[q].count
  BY <1>1, <1>4
<1> DEFINE r == [Guard!Idle EXCEPT !.at = "verify", !.key = k]
<1>7. Guard!Idle \in Guard!Standing /\ Guard!Idle.row = Guard!None
  BY DEF Guard!Idle, Guard!Standing
<1>8. r \in Guard!Standing /\ r.key = k /\ r.row = Guard!None
  BY <1>7, StandingAsks
<1>9. /\ x4' \in [Tries -> Guard!Standing]
      /\ x4'[t].row = Guard!None /\ \A u \in Tries \ {t} : x4'[u] = x4[u]
      /\ \A q \in Peers \ {k} : Guard!Past(q)' \subseteq Guard!Past(q) \ {t}
  BY <1>8, TryMoves DEF Guard!Login
<1>10. \A q \in Peers : x2'[q].count + Guard!Cardinality(Guard!Past(q)')
                          <= MaxFails - 1 + Guard!Cardinality(Tries)
  BY <1>4, <1>5, <1>6, <1>9, PeerStays
<1>11. x1' = x1 /\ x3' = x3 /\ x5' = x5
  BY DEF Guard!Login
<1> QED
  BY <1>4, <1>9, <1>10, <1>11 DEF Guard!GuardInv

(* A sign-in forgets what was counted. *)
LEMMA GuardSucceeded ==
    ASSUME Guard!GuardInv, NEW t \in Tries, Guard!Succeeded(t)
    PROVE  Guard!GuardInv'
<1> USE LoginBounds, NoneCounts
<1> DEFINE k == x4[t].key
<1>1. k \in Peers /\ \A q \in Peers : x2[q].count \in Nat
  BY DEF Guard!GuardInv, Guard!Standing, Guard!Counter
<1>2. /\ x2' \in [Peers -> Guard!Counter] /\ x2'[k] = Guard!None
      /\ \A q \in Peers \ {k} : x2'[q] = x2[q]
  BY <1>1 DEF Guard!GuardInv, Guard!Succeeded
<1>4. Guard!Idle \in Guard!Standing /\ Guard!Idle.at = "idle" /\ Guard!Idle.row = Guard!None
  BY DEF Guard!Idle, Guard!Standing
<1>5. /\ x4' \in [Tries -> Guard!Standing]
      /\ x4'[t].row = Guard!None /\ \A u \in Tries \ {t} : x4'[u] = x4[u]
      /\ \A q \in Peers : Guard!Past(q)' \subseteq Guard!Past(q) \ {t}
  BY <1>4, TryMoves DEF Guard!Succeeded
<1>6. \A q \in Peers : x2'[q].count + Guard!Cardinality(Guard!Past(q)')
                          <= MaxFails - 1 + Guard!Cardinality(Tries)
  BY <1>1, <1>2, <1>5, PeerStays
<1>7. x1' = x1 /\ x3' = Guard!None /\ x5' = x5
  BY DEF Guard!Succeeded
<1> QED
  BY <1>2, <1>5, <1>6, <1>7 DEF Guard!GuardInv

(* A wrong password: the peer counts one more, and one less is past the      *)
(* check; a counter that begins anew counts one, and the request is not past. *)
LEMMA GuardFailed ==
    ASSUME Guard!GuardInv, NEW t \in Tries, Guard!LoginFailed(t)
    PROVE  Guard!GuardInv'
<1> USE LoginBounds, NoneCounts
<1>0. PICK k \in Peers : k = x4[t].key
  BY DEF Guard!GuardInv, Guard!Standing
<1>1. /\ x1 \in Nat /\ x2 \in [Peers -> Guard!Counter]
      /\ \A q \in Peers : x2[q] \in Guard!Counter /\ x2[q].count \in Nat
      /\ t \in Guard!Past(k) /\ x4[t] \in Guard!Standing
  BY <1>0 DEF Guard!GuardInv, Guard!Standing, Guard!Counter, Guard!LoginFailed, Guard!Past
<1>2. ASSUME NEW f \in Guard!Counter
      PROVE  /\ Guard!Counted(f) \in Guard!Counter
             /\ Guard!Counted(f).count \in {1, f.count + 1}
  <2> DEFINE c == IF Guard!Over(f) \/ f.count = 0 THEN [Guard!None EXCEPT !.first = x1] ELSE f
  <2>1. [Guard!None EXCEPT !.first = x1] = [count |-> 0, first |-> x1, until |-> 0]
    BY DEF Guard!None
  <2>2. c \in Guard!Counter /\ c.count \in {0, f.count}
    BY <1>1, <2>1 DEF Guard!Counter
  <2>a. PICK d \in Guard!Counter : d = c
    BY <2>2
  <2> DEFINE lock == IF d.count + 1 >= MaxFails THEN x1 + FailLock ELSE d.until
  <2>3. d.count + 1 \in Nat /\ lock \in Nat
    BY <1>1 DEF Guard!Counter
  <2>4. PICK n \in Nat, u \in Nat : n = d.count + 1 /\ u = lock
    BY <2>3
  <2>5. Guard!Counted(f) = [d EXCEPT !.count = n, !.until = u]
    BY <2>a, <2>4 DEF Guard!Counted
  <2>6. /\ [d EXCEPT !.count = n, !.until = u] \in Guard!Counter
        /\ [d EXCEPT !.count = n, !.until = u].count = n
    BY DEF Guard!Counter
  <2> QED
    BY <2>2, <2>a, <2>4, <2>5, <2>6
<1>3. PICK left \in [Peers -> Guard!Counter] :
         /\ left \in {x2, [q \in Peers |-> Guard!None]}
         /\ x2' = [left EXCEPT ![k] = Guard!Counted(@)]
  <2>1. [q \in Peers |-> Guard!None] \in [Peers -> Guard!Counter]
    OBVIOUS
  <2> QED
    BY <1>0, <1>1, <2>1 DEF Guard!LoginFailed
<1>4. \A q \in Peers : left[q].count \in {0, x2[q].count} /\ left[q] \in Guard!Counter
  BY <1>1, <1>3
<1>5. /\ x2' \in [Peers -> Guard!Counter]
      /\ \A q \in Peers \ {k} : x2'[q] = left[q]
      /\ x2'[k] = Guard!Counted(left[k])
  BY <1>1, <1>2, <1>3, <1>4
<1>6. /\ \A q \in Peers \ {k} : x2'[q].count <= x2[q].count
      /\ x2'[k].count <= MaxFails \/ x2'[k].count <= x2[k].count + 1
  BY <1>1, <1>2, <1>4, <1>5
<1>7. PICK r \in Guard!Standing : x4' = [x4 EXCEPT ![t] = r] /\ r.at # "verify" /\ r.row.first <= x1
  <2>1. CASE x4' = [x4 EXCEPT ![t].at = "record"]
    <3>1. x4' = [x4 EXCEPT ![t] = [x4[t] EXCEPT !.at = "record"]]
      BY <2>1 DEF Guard!GuardInv
    <3>2. x4[t].row.first <= x1
      BY DEF Guard!GuardInv
    <3>3. /\ [x4[t] EXCEPT !.at = "record"] \in Guard!Standing
          /\ [x4[t] EXCEPT !.at = "record"].at = "record"
          /\ [x4[t] EXCEPT !.at = "record"].row = x4[t].row
      BY <1>1, StandingMoves
    <3> QED
      BY <3>1, <3>2, <3>3
  <2>2. CASE x4' = [x4 EXCEPT ![t] = Guard!Idle]
    <3>1. Guard!Idle \in Guard!Standing /\ Guard!Idle.at = "idle" /\ Guard!Idle.row = Guard!None
      BY DEF Guard!Idle, Guard!Standing
    <3>2. Guard!Idle.row.first <= x1
      BY <1>1, <3>1
    <3> QED
      BY <2>2, <3>1, <3>2
  <2> QED
    BY <2>1, <2>2 DEF Guard!LoginFailed
<1>8. /\ x4' \in [Tries -> Guard!Standing]
      /\ x4'[t] = r /\ \A u \in Tries \ {t} : x4'[u] = x4[u]
      /\ \A q \in Peers : Guard!Past(q)' \subseteq Guard!Past(q) \ {t}
  BY <1>7, TryMoves
<1>9. \A q \in Peers : x2'[q].count + Guard!Cardinality(Guard!Past(q)')
                          <= MaxFails - 1 + Guard!Cardinality(Tries)
  <2>1. ASSUME NEW q \in Peers, q # k
        PROVE  x2'[q].count + Guard!Cardinality(Guard!Past(q)')
                  <= MaxFails - 1 + Guard!Cardinality(Tries)
    BY <1>5, <1>6, <1>8, <2>1, PeerStays
  <2>2. x2'[k].count + Guard!Cardinality(Guard!Past(k)') <= MaxFails - 1 + Guard!Cardinality(Tries)
    <3>1. x2'[k] \in Guard!Counter
      BY <1>1, <1>5
    <3>2. \E u \in Guard!Past(k) : Guard!Past(k)' \subseteq Guard!Past(k) \ {u}
      BY <1>1, <1>8
    <3>3. x2'[k].count <= MaxFails \/ x2'[k].count <= x2[k].count + 1
      BY <1>6
    <3> QED
      BY <3>1, <3>2, <3>3, PeerStays
  <2> QED
    BY <2>1, <2>2
<1>10. x1' = x1 /\ x3' = x3 /\ x5' \in Nat
  BY DEF Guard!LoginFailed, Guard!GuardInv
<1> QED
  BY <1>5, <1>7, <1>8, <1>9, <1>10 DEF Guard!GuardInv

(* A row is read as it is, or as one that begins to count now.               *)
LEMMA GuardReadsRow ==
    ASSUME Guard!GuardInv, NEW t \in Tries, Guard!ReadRow(t)
    PROVE  Guard!GuardInv'
<1> DEFINE c == IF x3.count = 0 \/ Guard!Over(x3) THEN [x3 EXCEPT !.count = 0, !.first = x1] ELSE x3
<1>1. x3 \in Guard!Counter /\ x1 \in Nat /\ x3.first <= x1 /\ x4[t] \in Guard!Standing
      /\ x4 \in [Tries -> Guard!Standing]
  BY DEF Guard!GuardInv
<1>2. c \in Guard!Counter /\ c.first <= x1
  <2>1. /\ [x3 EXCEPT !.count = 0, !.first = x1] \in Guard!Counter
        /\ [x3 EXCEPT !.count = 0, !.first = x1].first = x1
    BY <1>1 DEF Guard!Counter
  <2> QED
    BY <1>1, <2>1
<1>3. x4' = [x4 EXCEPT ![t] = [x4[t] EXCEPT !.at = "write", !.row = c]]
  BY <1>1 DEF Guard!ReadRow
<1> HIDE DEF c
<1>4. PICK r \in Guard!Standing : x4' = [x4 EXCEPT ![t] = r] /\ r.at = "write" /\ r.row.first <= x1
  <2>1. PICK s \in Guard!Standing, d \in Guard!Counter : s = x4[t] /\ d = c
    BY <1>1, <1>2
  <2>2. /\ [s EXCEPT !.at = "write", !.row = d] \in Guard!Standing
        /\ [s EXCEPT !.at = "write", !.row = d].at = "write"
        /\ [s EXCEPT !.at = "write", !.row = d].row = d
    BY DEF Guard!Standing
  <2> QED
    BY <1>2, <1>3, <2>1, <2>2
<1>5. /\ UNCHANGED <<x1, x2, x5>> /\ x3' \in Guard!Counter /\ x3'.first <= x1
      /\ x3'.count >= MaxFails => x3'.until >= x3'.first + FailLock
  BY DEF Guard!ReadRow, Guard!GuardInv
<1> QED
  BY <1>4, <1>5, OneTryMoves

(* A record locks the user when it counts the limit, or keeps the lock that  *)
(* it read of a row that counts less.                                      *)
LEMMA GuardWritesRow ==
    ASSUME Guard!GuardInv, NEW t \in Tries, Guard!WriteRow(t)
    PROVE  Guard!GuardInv'
<1> USE LoginBounds
<1>1. x1 \in Nat /\ x4[t].row \in Guard!Counter /\ x4[t].row.first <= x1
  BY DEF Guard!GuardInv, Guard!Standing
<1>2. PICK c \in Guard!Counter : c = x4[t].row
  BY <1>1
<1>3. PICK n \in Nat, u \in Nat :
         /\ n = c.count + 1
         /\ u = IF c.count + 1 >= MaxFails THEN x1 + FailLock ELSE c.until
  BY <1>1 DEF Guard!Counter
<1>4. x3' = [c EXCEPT !.count = n, !.until = u]
  BY <1>2, <1>3 DEF Guard!WriteRow
<1>5. x3' \in Guard!Counter /\ x3'.count = n /\ x3'.until = u /\ x3'.first = c.first
  BY <1>4 DEF Guard!Counter
<1>6. c.first \in Nat /\ c.first <= x1
  BY <1>1, <1>2 DEF Guard!Counter
<1>7. x3'.first <= x1 /\ (x3'.count >= MaxFails => x3'.until >= x3'.first + FailLock)
  BY <1>1, <1>3, <1>5, <1>6
<1>8. Guard!Idle \in Guard!Standing /\ Guard!Idle.at = "idle" /\ Guard!Idle.row.first = 0
  BY NoneCounts DEF Guard!Idle, Guard!Standing
<1>9. x1' = x1 /\ x2' = x2 /\ x5' = x5 /\ x4' = [x4 EXCEPT ![t] = Guard!Idle]
  BY DEF Guard!WriteRow
<1>a. PICK r \in Guard!Standing : r = Guard!Idle
  BY <1>8
<1>10. x4' = [x4 EXCEPT ![t] = r] /\ r.at # "verify" /\ r.row.first <= x1
  <2>1. x4' = [x4 EXCEPT ![t] = r]
    BY <1>9, <1>a
  <2>2. r.at # "verify" /\ r.row.first = 0
    BY <1>8, <1>a
  <2> QED
    BY <1>1, <2>1, <2>2
<1>11. UNCHANGED <<x1, x2, x5>>
  BY <1>9
<1> QED
  BY <1>5, <1>7, <1>10, <1>11, OneTryMoves

(* Time passes. *)
LEMMA GuardTicks == Guard!GuardInv /\ Guard!Tick => Guard!GuardInv'
<1> SUFFICES ASSUME Guard!GuardInv, Guard!Tick PROVE Guard!GuardInv'
  OBVIOUS
<1>1. x1' = x1 + 1 /\ x2' = x2 /\ x3' = x3 /\ x4' = x4 /\ x5' = x5 /\ x1 \in Nat /\ x3.first \in Nat
      /\ \A t \in Tries : x4[t].row.first \in Nat
  BY DEF Guard!Tick, Guard!GuardInv, Guard!Counter, Guard!Standing
<1>2. \A k \in Peers : Guard!Past(k)' = Guard!Past(k)
  BY <1>1 DEF Guard!Past
<1>3. x3.first <= x1' /\ \A t \in Tries : x4[t].row.first <= x1'
  BY <1>1 DEF Guard!GuardInv
<1> QED
  BY <1>1, <1>2, <1>3 DEF Guard!GuardInv

LEMMA GuardSteps == Guard!GuardInv /\ [Guard!Next]_(Guard!vars) => Guard!GuardInv'
<1> SUFFICES ASSUME Guard!GuardInv, [Guard!Next]_(Guard!vars) PROVE Guard!GuardInv'
  OBVIOUS
<1>1. CASE UNCHANGED Guard!vars
  <2>1. \A k \in Peers : Guard!Past(k)' = Guard!Past(k)
    BY <1>1 DEF Guard!vars, Guard!Past
  <2> QED
    BY <1>1, <2>1 DEF Guard!vars, Guard!GuardInv
<1>2. CASE Guard!Next
  BY <1>2, GuardTicks, GuardSucceeded, GuardFailed, GuardReadsRow, GuardWritesRow, GuardLogin
     DEF Guard!Next
<1> QED
  BY <1>1, <1>2

(* What a peer counts is bounded, and a row that counts the limit locks.     *)
LEMMA GuardBounds == Guard!GuardInv => Guard!TriesBounded
<1> SUFFICES ASSUME Guard!GuardInv PROVE Guard!TriesBounded
  OBVIOUS
<1> USE LoginBounds
<1>1. ASSUME NEW k \in Peers
      PROVE  x2[k].count <= MaxFails + Guard!Cardinality(Tries) - 1
  <2>1. Guard!Past(k) \subseteq Tries
    BY DEF Guard!Past
  <2>2. Guard!Cardinality(Guard!Past(k)) \in Nat /\ Guard!Cardinality(Tries) \in Nat
    BY <2>1, TriesCounted
  <2>3. x2[k].count \in Nat
    BY DEF Guard!GuardInv, Guard!Counter
  <2>4. x2[k].count + Guard!Cardinality(Guard!Past(k)) <= MaxFails - 1 + Guard!Cardinality(Tries)
    BY DEF Guard!GuardInv
  <2> QED
    BY <2>2, <2>3, <2>4
<1>2. ASSUME x3.count >= MaxFails, ~Guard!Over(x3) PROVE x3.until > x1
  <2>1. x3.until \in Nat /\ x3.first \in Nat /\ x1 \in Nat /\ x3.until >= x3.first + FailLock
    BY <1>2 DEF Guard!GuardInv, Guard!Counter
  <2>2. ~(x1 - x3.first >= FailWindow)
    BY <1>2 DEF Guard!Over
  <2> QED
    BY <2>1, <2>2
<1> QED
  BY <1>1, <1>2 DEF Guard!TriesBounded, Guard!PeerBounded, Guard!RowLocks, Guard!LoginLocked

-----------------------------------------------------------------------------
(* Accounts.  x1 is admins, x2 nextId, x3 sessions, x4 req, x5 used, x6      *)
(* crossed and x7 verified.                                                *)

(* Some numbers have a least one among them. *)
LEMMA HasLeast ==
    ASSUME NEW T, T \subseteq Nat, T # {}
    PROVE  \E i \in T : \A j \in T : i <= j
<1> DEFINE R == OpToRel(<, Nat)
<1>1. R = {ss \in Nat \X Nat : ss[1] < ss[2]}
  BY DEF OpToRel
<1>2. IsWellFoundedOn(R, Nat)
  BY NatLessThanWellFounded
<1> HIDE DEF R
<1>3. PICK i \in T : \A j \in T : ~ (<<j, i>> \in R)
  BY <1>2, WFMin
<1>4. \A j, k \in Nat : <<j, k>> \in R <=> j < k
  BY <1>1
<1>5. ASSUME NEW j \in T PROVE i <= j
  <2>1. ~ (<<j, i>> \in R) /\ i \in Nat /\ j \in Nat
    BY <1>3
  <2>2. ~ (j < i)
    BY <1>4, <2>1
  <2> QED
    BY <2>1, <2>2
<1> QED
  BY <1>5

(* The first row of the table is one of its rows. *)
LEMMA FirstIsARow == Sign!Rows # {} => Sign!First \in Sign!Rows
<1>1. Sign!Rows \subseteq Nat
  BY AccountBounds DEF Sign!Rows, Sign!Ids
<1> QED
  BY <1>1, HasLeast DEF Sign!First

(* When more than one owner was counted, there is another. *)
LEMMA AnotherIsLeft ==
    ASSUME NEW i \in Sign!Owners, Sign!OwnerStays(i)
    PROVE  \E j \in Sign!Owners : j # i
<1> SUFFICES ASSUME \A j \in Sign!Owners : j = i PROVE FALSE
  OBVIOUS
<1>1. Sign!Owners = {i}
  OBVIOUS
<1>2. Sign!Cardinality({i}) = 1
  BY SignCounts, FS_Singleton
<1> QED
  BY <1>1, <1>2 DEF Sign!OwnerStays

(* Two owners with sessions, and nothing under way. *)
LEMMA TwoOwnersStart ==
    ASSUME x4 \in [Requests -> Sign!Standing], x5 \in Nat, \A r \in Requests : x4[r].at = "idle",
           x2 = 3, x1 \in [Sign!Ids -> Sign!Admin], x3 \in [Sign!Tokens -> Sign!Session],
           \A i \in Sign!Ids : /\ x1[i].pw = 0 /\ ~x1[i].totp
                               /\ i \in {1, 2} => x1[i].role = "superadmin"
                               /\ i \notin {1, 2} => x1[i].role = "none",
           \A t \in Sign!Tokens : x3[t].pw = 0 /\ x3[t].id \in {0, 1, 2}
    PROVE  Sign!AccountsInv
<1>1. /\ Sign!Ids \subseteq Nat /\ 0 \notin Sign!Ids /\ 1 \in Sign!Ids /\ 2 \in Sign!Ids
      /\ x2 \in 1..MaxUsers + 1
  BY AccountBounds DEF Sign!Ids
<1>2. Sign!Rows = {1, 2} /\ Sign!Owners = {1, 2}
  <2>1. Sign!Rows = {1, 2}
    BY <1>1 DEF Sign!Rows
  <2> QED
    BY <1>1, <2>1 DEF Sign!Owners
<1>3. Sign!Shape
  BY <1>1 DEF Sign!Shape
<1>4. Sign!IdsAreSpent
  BY <1>2 DEF Sign!IdsAreSpent
<1>5. Sign!SessionsFresh
  BY <1>1 DEF Sign!SessionsFresh
<1>6. Sign!OwnersRemain
  BY <1>2 DEF Sign!OwnersRemain
<1>7. Sign!TotpShown
  BY <1>1, <1>2 DEF Sign!TotpShown
<1>8. Sign!AnotherOwns /\ Sign!KnowsPassword /\ Sign!KnowsSecret
  BY DEF Sign!AnotherOwns, Sign!Demotes, Sign!KnowsPassword, Sign!ShowsPassword,
         Sign!KnowsSecret, Sign!At
<1> QED
  BY <1>3, <1>4, <1>5, <1>6, <1>7, <1>8 DEF Sign!AccountsInv

(* A session that is opened is of the account. *)
LEMMA SessionOpened ==
    ASSUME NEW id \in Nat, NEW a, a = [Sign!NoSession EXCEPT !.id = id]
    PROVE  a \in Sign!Session /\ a.id = id /\ a.pw = 0
BY DEF Sign!NoSession, Sign!Session

(* No row, or two owners who are signed in. *)
LEMMA AccountsStart == Sign!Init => Sign!AccountsInv
<1> SUFFICES ASSUME Sign!Init PROVE Sign!AccountsInv
  OBVIOUS
<1>1. Sign!Idle \in Sign!Standing /\ Sign!Idle.at = "idle"
  BY DEF Sign!Idle, Sign!Standing, Sign!Steps
<1>2. x4 \in [Requests -> Sign!Standing] /\ x5 \in Nat /\ \A r \in Requests : x4[r].at = "idle"
  BY <1>1 DEF Sign!Init
<1>3. /\ Sign!NoAdmin \in Sign!Admin /\ Sign!NoAdmin.role = "none" /\ Sign!NoAdmin.pw = 0
      /\ Sign!NoAdmin.secret = 0 /\ ~Sign!NoAdmin.totp
  BY DEF Sign!NoAdmin, Sign!Admin
<1>4. Sign!NoSession \in Sign!Session /\ Sign!NoSession.id = 0 /\ Sign!NoSession.pw = 0
  BY DEF Sign!NoSession, Sign!Session
<1>5. CASE /\ x1 = [i \in Sign!Ids |-> Sign!NoAdmin] /\ x2 = 1
           /\ x3 = [t \in Sign!Tokens |-> Sign!NoSession]
  <2>1. Sign!Rows = {} /\ \A t \in Sign!Tokens : x3[t].id = 0
    BY <1>3, <1>4, <1>5 DEF Sign!Rows
  <2>2. Sign!Shape
    BY AccountBounds, <1>2, <1>3, <1>4, <1>5 DEF Sign!Shape
  <2> QED
    BY <1>2, <1>5, <2>1, <2>2
       DEF Sign!AccountsInv, Sign!IdsAreSpent, Sign!AnotherOwns, Sign!OwnersRemain, Sign!Demotes,
           Sign!KnowsPassword, Sign!ShowsPassword, Sign!SessionsFresh, Sign!KnowsSecret,
           Sign!TotpShown, Sign!At
<1>6. ASSUME NEW names, names = CHOOSE f \in [1..2 -> UserNames] : f[1] # f[2]
      PROVE  names[1] \in UserNames /\ names[2] \in UserNames
  <2>1. PICK m \in UserNames, n \in UserNames : m # n
    BY AccountBounds
  <2> DEFINE f == [i \in 1..2 |-> IF i = 1 THEN m ELSE n]
  <2>2. f \in [1..2 -> UserNames]
    OBVIOUS
  <2>3. f[1] = m /\ f[2] = n
    OBVIOUS
  <2> HIDE DEF f
  <2>4. \E g \in [1..2 -> UserNames] : g[1] # g[2]
    BY <2>1, <2>2, <2>3
  <2>5. names \in [1..2 -> UserNames]
    BY <1>6, <2>4
  <2> QED
    BY <2>5
<1>7. ASSUME NEW names, names[1] \in UserNames, names[2] \in UserNames, x2 = 3,
             x1 = [i \in Sign!Ids |-> IF i > 2 THEN Sign!NoAdmin ELSE
                       [Sign!NoAdmin EXCEPT !.name = names[i], !.role = "superadmin"]],
             x3 = [t \in Sign!Tokens |-> IF t > 2 THEN Sign!NoSession
                                         ELSE [Sign!NoSession EXCEPT !.id = t]]
      PROVE  Sign!AccountsInv
  <2>1. Sign!Ids \subseteq Nat /\ 0 \notin Sign!Ids /\ Sign!Tokens \subseteq Nat /\ 0 \notin Sign!Tokens
    BY DEF Sign!Ids, Sign!Tokens
  <2>2. /\ \A i \in Sign!Ids : x1[i] = IF i > 2 THEN Sign!NoAdmin ELSE
                                 [Sign!NoAdmin EXCEPT !.name = names[i], !.role = "superadmin"]
        /\ \A t \in Sign!Tokens : x3[t] = IF t > 2 THEN Sign!NoSession
                                          ELSE [Sign!NoSession EXCEPT !.id = t]
    BY <1>7
  <2>3. ASSUME NEW i \in Sign!Ids
        PROVE  /\ x1[i] \in Sign!Admin /\ x1[i].pw = 0 /\ ~x1[i].totp
               /\ i \in {1, 2} => x1[i].role = "superadmin"
               /\ i \notin {1, 2} => x1[i].role = "none"
    <3>1. CASE i \in {1, 2}
      <4>1. PICK n \in UserNames : n = names[i]
        BY <1>7, <3>1
      <4>2. ~(i > 2)
        BY <3>1
      <4>3. x1[i] = [Sign!NoAdmin EXCEPT !.name = names[i], !.role = "superadmin"]
        BY <2>2, <4>2
      <4>4. x1[i] = [Sign!NoAdmin EXCEPT !.name = n, !.role = "superadmin"]
        BY <4>1, <4>3
      <4>5. PICK b \in Sign!Admin, role \in Sign!Roles : b = Sign!NoAdmin /\ role = "superadmin"
        BY <1>3 DEF Sign!Roles
      <4>6. x1[i] = [b EXCEPT !.name = n, !.role = role]
        BY <4>4, <4>5
      <4>7. x1[i] \in Sign!Admin /\ x1[i].role = role /\ x1[i].pw = b.pw /\ (x1[i].totp <=> b.totp)
        BY <4>6 DEF Sign!Admin
      <4> QED
        BY <1>3, <3>1, <4>5, <4>7
    <3>2. CASE i \notin {1, 2}
      <4>1. i > 2
        BY <2>1, <3>2
      <4>2. x1[i] = Sign!NoAdmin
        BY <2>2, <4>1
      <4> QED
        BY <1>3, <3>2, <4>2
    <3> QED
      BY <3>1, <3>2
  <2>4. ASSUME NEW t \in Sign!Tokens
        PROVE  x3[t] \in Sign!Session /\ x3[t].pw = 0 /\ x3[t].id \in {0, 1, 2}
    <3>1. t \in Nat /\ (t > 2 \/ t \in {1, 2})
      BY <2>1
    <3>2. CASE t > 2
      BY <1>4, <2>2, <3>2
    <3>3. CASE ~(t > 2)
      <4>1. x3[t] = [Sign!NoSession EXCEPT !.id = t]
        BY <2>2, <3>3
      <4> QED
        BY <3>1, <3>3, <4>1, SessionOpened
    <3> QED
      BY <3>2, <3>3
  <2>5. x1 \in [Sign!Ids -> Sign!Admin]
    <3>1. x1 = [i \in Sign!Ids |-> x1[i]]
      BY <1>7
    <3> QED
      BY <2>3, <3>1
  <2>6. x3 \in [Sign!Tokens -> Sign!Session]
    <3>1. x3 = [t \in Sign!Tokens |-> x3[t]]
      BY <1>7
    <3> QED
      BY <2>4, <3>1
  <2> QED
    BY <1>2, <1>7, <2>3, <2>4, <2>5, <2>6, TwoOwnersStart
<1> DEFINE pair == CHOOSE f \in [1..2 -> UserNames] : f[1] # f[2]
<1>8. pair[1] \in UserNames /\ pair[2] \in UserNames
  BY <1>6
<1>9. CASE /\ x2 = 3
           /\ x1 = [i \in Sign!Ids |-> IF i > 2 THEN Sign!NoAdmin ELSE
                       [Sign!NoAdmin EXCEPT !.name = pair[i], !.role = "superadmin"]]
           /\ x3 = [t \in Sign!Tokens |-> IF t > 2 THEN Sign!NoSession
                                          ELSE [Sign!NoSession EXCEPT !.id = t]]
  <2> HIDE DEF pair
  <2> QED
    BY <1>7, <1>8, <1>9
<1> QED
  BY <1>5, <1>9 DEF Sign!Init

(* Of the accounts that were and are: what each of them is.                 *)
LEMMA AccountsShape ==
    ASSUME Sign!AccountsInv
    PROVE  /\ x1 \in [Sign!Ids -> Sign!Admin] /\ \A i \in Sign!Ids : x1[i] \in Sign!Admin
           /\ x3 \in [Sign!Tokens -> Sign!Session] /\ \A t \in Sign!Tokens : x3[t] \in Sign!Session
           /\ x4 \in [Requests -> Sign!Standing] /\ \A r \in Requests : x4[r] \in Sign!Standing
           /\ x2 \in 1..MaxUsers + 1 /\ x2 \in Nat /\ x5 \in Nat
           /\ Sign!Ids \subseteq Nat /\ 0 \notin Sign!Ids
           /\ \A i \in 1..x2 - 1 : i \in Sign!Ids
           /\ Sign!Owners \subseteq Sign!Rows /\ Sign!Rows \subseteq Sign!Ids
BY AccountBounds DEF Sign!AccountsInv, Sign!Shape, Sign!Ids, Sign!Owners, Sign!Rows

(* Where a request may stand: it is of an account that was, knows of it what *)
(* is so, and takes the rank of an owner from none but one of several.       *)
MayStand(s) ==
    /\ s.at \notin {"idle", "setup"} => s.id \in 1..x2 - 1
    /\ s.at = "role" => s.role \in Sign!Roles /\ ~s.again
    /\ s.at = "delete" \/ (s.at = "role" /\ s.role # "superadmin") =>
          x6' \/ (s.id \in Sign!Owners => \E j \in Sign!Owners : j # s.id)
    /\ s.at \in {"login", "session"} \/ (s.at = "drop" /\ s.again) =>
          (~s.raced /\ s.id \in Sign!Rows => s.pw = x1[s.id].pw)
    /\ s.at = "verify" /\ ~s.raced => x1[s.id].secret \in {0, s.secret}

(* A request begins, looks or gives up. *)
LEMMA RequestMoves ==
    ASSUME Sign!AccountsInv, NEW r \in Requests, NEW s \in Sign!Standing, MayStand(s),
           x4' = [x4 EXCEPT ![r] = s], UNCHANGED <<x1, x2, x3, x7>>, x5' \in Nat, x6 => x6',
           x4[r].at # "drop"
    PROVE  Sign!AccountsInv'
<1> USE AccountBounds, AccountsShape
<1>1. /\ x4' \in [Requests -> Sign!Standing] /\ x4'[r] = s
      /\ \A q \in Requests \ {r} : x4'[q] = x4[q]
  OBVIOUS
<1>2. Sign!Rows' = Sign!Rows /\ Sign!Owners' = Sign!Owners
  BY DEF Sign!Rows, Sign!Owners, Sign!Ids
<1>3. Sign!Shape'
  BY <1>1 DEF Sign!AccountsInv, Sign!Shape, Sign!Ids
<1>4. Sign!IdsAreSpent'
  BY <1>1, <1>2 DEF MayStand, Sign!AccountsInv, Sign!IdsAreSpent, Sign!Tokens
<1>5. Sign!AnotherOwns'
  BY <1>1, <1>2 DEF MayStand, Sign!AccountsInv, Sign!AnotherOwns, Sign!Demotes, Sign!At
<1>6. Sign!OwnersRemain'
  BY <1>2 DEF Sign!AccountsInv, Sign!OwnersRemain
<1>7. Sign!KnowsPassword'
  BY <1>1, <1>2 DEF MayStand, Sign!AccountsInv, Sign!KnowsPassword, Sign!ShowsPassword, Sign!At
<1>8. Sign!SessionsFresh'
  BY <1>1 DEF Sign!AccountsInv, Sign!SessionsFresh, Sign!At, Sign!Tokens
<1>9. Sign!KnowsSecret'
  BY <1>1 DEF MayStand, Sign!AccountsInv, Sign!KnowsSecret, Sign!At
<1>10. Sign!TotpShown'
  BY <1>2 DEF Sign!AccountsInv, Sign!TotpShown
<1> QED
  BY <1>3, <1>4, <1>5, <1>6, <1>7, <1>8, <1>9, <1>10 DEF Sign!AccountsInv

(* A request that is not under way knows nothing. *)
LEMMA IdleKnowsNothing ==
    /\ Sign!Idle \in Sign!Standing /\ Sign!Idle.at = "idle" /\ Sign!Idle.pw = 0
    /\ ~Sign!Idle.raced /\ ~Sign!Idle.again
BY DEF Sign!Idle, Sign!Standing, Sign!Steps

(* A request that is done with leaves what it has written. *)
LEMMA RequestEnds ==
    ASSUME Sign!AccountsInv, NEW r \in Requests, x4[r].at # "drop", Sign!Done(r),
           UNCHANGED <<x1, x2, x3, x7>>, x5' \in Nat, x6 => x6'
    PROVE  Sign!AccountsInv'
<1>1. MayStand(Sign!Idle)
  BY IdleKnowsNothing DEF MayStand
<1> QED
  BY <1>1, RequestMoves, IdleKnowsNothing DEF Sign!Done

(* The first account is asked for; or a password fits the row that was read. *)
LEMMA SetupBegins ==
    ASSUME Sign!AccountsInv, NEW r \in Requests, NEW n \in UserNames, Sign!Setup(r, n)
    PROVE  Sign!AccountsInv'
<1>1. PICK b \in Sign!Standing : b = Sign!Idle
  BY IdleKnowsNothing
<1>2. PICK s : s = [b EXCEPT !.at = "setup", !.name = n]
  OBVIOUS
<1>3. s \in Sign!Standing /\ s.at = "setup"
  BY <1>2 DEF Sign!Standing, Sign!Steps
<1>4. /\ x4' = [x4 EXCEPT ![r] = s] /\ x4[r].at = "idle"
      /\ UNCHANGED <<x1, x2, x3, x6, x7>> /\ x5' \in Nat
  BY <1>1, <1>2, AccountsShape DEF Sign!Setup, Sign!Begin, Sign!At
<1>7. MayStand(s)
  BY <1>3 DEF MayStand
<1> QED
  BY <1>7, <1>3, <1>4, RequestMoves

LEMMA LoginBegins ==
    ASSUME Sign!AccountsInv, NEW r \in Requests, NEW i \in Sign!Rows, Sign!Login(r, i)
    PROVE  Sign!AccountsInv'
<1>1. PICK b \in Sign!Standing : b = Sign!Idle
  BY IdleKnowsNothing
<1>2. PICK pw \in Nat : pw = x1[i].pw
  BY AccountsShape DEF Sign!Admin
<1>3. PICK s : s = [b EXCEPT !.at = "login", !.id = i, !.pw = pw]
  OBVIOUS
<1>4. i \in Nat /\ i \in 1..x2 - 1
  BY AccountsShape DEF Sign!AccountsInv, Sign!IdsAreSpent
<1>5. s \in Sign!Standing /\ s.at = "login" /\ s.id = i /\ s.pw = pw
  BY <1>3, <1>4 DEF Sign!Standing, Sign!Steps
<1>6. /\ x4' = [x4 EXCEPT ![r] = s] /\ x4[r].at = "idle"
      /\ UNCHANGED <<x1, x2, x3, x6, x7>> /\ x5' \in Nat
  BY <1>1, <1>2, <1>3, AccountsShape DEF Sign!Login, Sign!Begin, Sign!At
<1>7. MayStand(s)
  BY <1>2, <1>4, <1>5 DEF MayStand
<1> QED
  BY <1>7, <1>5, <1>6, RequestMoves

(* The second factor: the request knows what it knew, or ends. *)
LEMMA SecondFactorStep ==
    ASSUME Sign!AccountsInv, NEW r \in Requests, Sign!SecondFactor(r)
    PROVE  Sign!AccountsInv'
<1>1. x4[r].at = "login" /\ UNCHANGED <<x1, x2, x3, x5, x6, x7>>
  BY DEF Sign!SecondFactor, Sign!At, Sign!Rest
<1>2. CASE Sign!Done(r)
  BY <1>1, <1>2, AccountsShape, RequestEnds
<1>3. CASE x4' = [x4 EXCEPT ![r].at = "session"]
  <2>1. PICK b \in Sign!Standing : b = x4[r]
    BY AccountsShape
  <2>2. PICK s : s = [b EXCEPT !.at = "session"]
    OBVIOUS
  <2>3. /\ s \in Sign!Standing /\ s.at = "session" /\ s.id = b.id /\ s.pw = b.pw
        /\ s.raced <=> b.raced
    BY <2>2 DEF Sign!Standing, Sign!Steps
  <2>4. x4' = [x4 EXCEPT ![r] = s]
    BY <1>3, <2>1, <2>2, AccountsShape
  <2>5. b.id \in 1..x2 - 1 /\ (~b.raced /\ b.id \in Sign!Rows => b.pw = x1[b.id].pw)
    BY <1>1, <2>1
       DEF Sign!AccountsInv, Sign!IdsAreSpent, Sign!KnowsPassword, Sign!ShowsPassword, Sign!At
  <2>6. MayStand(s)
    BY <2>3, <2>5 DEF MayStand
  <2> QED
    BY <1>1, <2>3, <2>4, <2>6, AccountsShape, RequestMoves
<1> QED
  BY <1>2, <1>3 DEF Sign!SecondFactor

(* A change of a password begins: one's own, or another's by an owner.       *)
LEMMA PasswordBegins ==
    ASSUME Sign!AccountsInv, NEW r \in Requests, NEW i,
           Sign!ChangePassword(r, i) \/ \E by : Sign!ResetPassword(r, by, i)
    PROVE  Sign!AccountsInv'
<1>1. PICK b \in Sign!Standing : b = Sign!Idle
  BY IdleKnowsNothing
<1>2. i \in Sign!Rows
  BY DEF Sign!ChangePassword, Sign!ResetPassword
<1>3. i \in Nat /\ i \in 1..x2 - 1
  BY <1>2, AccountsShape DEF Sign!AccountsInv, Sign!IdsAreSpent
<1>4. PICK s : s \in {[b EXCEPT !.at = "password", !.id = i, !.again = TRUE],
                      [b EXCEPT !.at = "password", !.id = i]}
               /\ Sign!Begin(r, s)
  BY <1>1 DEF Sign!ChangePassword, Sign!ResetPassword
<1>5. s \in Sign!Standing /\ s.at = "password" /\ s.id = i
  BY <1>3, <1>4 DEF Sign!Standing, Sign!Steps
<1>6. /\ x4' = [x4 EXCEPT ![r] = s] /\ x4[r].at = "idle"
      /\ UNCHANGED <<x1, x2, x3, x6, x7>> /\ x5' \in Nat
  BY <1>4, AccountsShape DEF Sign!ChangePassword, Sign!ResetPassword, Sign!Begin, Sign!At
<1>7. MayStand(s)
  BY <1>3, <1>5 DEF MayStand
<1> QED
  BY <1>7, <1>5, <1>6, RequestMoves

(* A change of an owner begins: another was counted. *)
LEMMA RoleBegins ==
    ASSUME Sign!AccountsInv, NEW r \in Requests, NEW i, NEW by, NEW role \in Sign!Roles,
           Sign!UpdateRole(r, by, i, role)
    PROVE  Sign!AccountsInv'
<1>1. PICK b \in Sign!Standing : b = Sign!Idle
  BY IdleKnowsNothing
<1>2. i \in Sign!Rows /\ i \in Nat /\ i \in 1..x2 - 1
  BY AccountsShape DEF Sign!UpdateRole, Sign!AccountsInv, Sign!IdsAreSpent
<1>3. PICK s : s = [b EXCEPT !.at = "role", !.id = i, !.role = role]
  OBVIOUS
<1>4. s \in Sign!Standing /\ s.at = "role" /\ s.id = i /\ s.role = role /\ (s.again <=> b.again)
  BY <1>2, <1>3 DEF Sign!Standing, Sign!Steps
<1>5. role # "superadmin" /\ i \in Sign!Owners => \E j \in Sign!Owners : j # i
  BY AnotherIsLeft DEF Sign!UpdateRole
<1>6. /\ x4' = [x4 EXCEPT ![r] = s] /\ x4[r].at = "idle"
      /\ UNCHANGED <<x1, x2, x3, x6, x7>> /\ x5' \in Nat
  BY <1>1, <1>3, AccountsShape DEF Sign!UpdateRole, Sign!Begin, Sign!At
<1>7. MayStand(s)
  BY <1>1, <1>2, <1>4, <1>5, IdleKnowsNothing DEF MayStand
<1> QED
  BY <1>7, <1>4, <1>6, RequestMoves

LEMMA DeleteBegins ==
    ASSUME Sign!AccountsInv, NEW r \in Requests, NEW i, NEW by, Sign!DeleteUser(r, by, i)
    PROVE  Sign!AccountsInv'
<1>1. PICK b \in Sign!Standing : b = Sign!Idle
  BY IdleKnowsNothing
<1>2. i \in Sign!Rows /\ i \in Nat /\ i \in 1..x2 - 1
  BY AccountsShape DEF Sign!DeleteUser, Sign!AccountsInv, Sign!IdsAreSpent
<1>3. PICK s : s = [b EXCEPT !.at = "delete", !.id = i]
  OBVIOUS
<1>4. s \in Sign!Standing /\ s.at = "delete" /\ s.id = i
  BY <1>2, <1>3 DEF Sign!Standing, Sign!Steps
<1>5. i \in Sign!Owners => \E j \in Sign!Owners : j # i
  BY AnotherIsLeft DEF Sign!DeleteUser
<1>6. /\ x4' = [x4 EXCEPT ![r] = s] /\ x4[r].at = "idle"
      /\ UNCHANGED <<x1, x2, x3, x6, x7>> /\ x5' \in Nat
  BY <1>1, <1>3, AccountsShape DEF Sign!DeleteUser, Sign!Begin, Sign!At
<1>7. MayStand(s)
  BY <1>2, <1>4, <1>5 DEF MayStand
<1> QED
  BY <1>7, <1>4, <1>6, RequestMoves

(* A code is shown of the secret that was read. *)
LEMMA VerifyBegins ==
    ASSUME Sign!AccountsInv, NEW r \in Requests, NEW i, Sign!TotpVerify(r, i)
    PROVE  Sign!AccountsInv'
<1>1. PICK b \in Sign!Standing : b = Sign!Idle
  BY IdleKnowsNothing
<1>2. i \in Sign!Rows /\ i \in Nat /\ i \in 1..x2 - 1
  BY AccountsShape DEF Sign!TotpVerify, Sign!AccountsInv, Sign!IdsAreSpent
<1>3. PICK secret \in Nat : secret = x1[i].secret
  BY <1>2, AccountsShape DEF Sign!Admin
<1>4. PICK s : s = [b EXCEPT !.at = "verify", !.id = i, !.secret = secret]
  OBVIOUS
<1>5. s \in Sign!Standing /\ s.at = "verify" /\ s.id = i /\ s.secret = secret
  BY <1>2, <1>4 DEF Sign!Standing, Sign!Steps
<1>6. /\ x4' = [x4 EXCEPT ![r] = s] /\ x4[r].at = "idle"
      /\ UNCHANGED <<x1, x2, x3, x6, x7>> /\ x5' \in Nat
  BY <1>1, <1>3, <1>4, AccountsShape DEF Sign!TotpVerify, Sign!Begin, Sign!At
<1>7. MayStand(s)
  BY <1>2, <1>3, <1>5 DEF MayStand
<1> QED
  BY <1>7, <1>5, <1>6, RequestMoves

(* A row is inserted: no request and no session knows of its number yet.     *)
LEMMA RowInserted ==
    ASSUME Sign!AccountsInv, NEW a \in Sign!Admin, a.role \in Sign!Roles, ~a.totp,
           x2 \in Sign!Ids, x1' = [x1 EXCEPT ![x2] = a], x2' = x2 + 1,
           UNCHANGED <<x3, x6, x7>>, x5' \in Nat,
           a.role = "superadmin" \/ Sign!Owners # {},
           x4' \in [Requests -> Sign!Standing],
           \A q \in Requests : \/ x4'[q] = x4[q]
                               \/ /\ x4[q].at # "drop" /\ x4'[q].at = "session"
                                  /\ x4'[q].id \in 1..x2 /\ x4'[q].pw = x1'[x4'[q].id].pw
    PROVE  Sign!AccountsInv'
<1> USE AccountBounds, AccountsShape
<1>1. /\ x1' \in [Sign!Ids -> Sign!Admin] /\ x1'[x2] = a
      /\ \A i \in Sign!Ids \ {x2} : x1'[i] = x1[i]
  OBVIOUS
<1>2. x2 \notin Sign!Rows /\ Sign!Rows' = Sign!Rows \cup {x2}
  <2>1. x2 \notin Sign!Rows
    BY DEF Sign!AccountsInv, Sign!IdsAreSpent
  <2>2. a.role # "none"
    BY DEF Sign!Roles
  <2> QED
    BY <1>1, <2>1, <2>2 DEF Sign!Rows, Sign!Ids
<1>3. /\ Sign!Owners \subseteq Sign!Owners' /\ Sign!Owners' \subseteq Sign!Owners \cup {x2}
      /\ Sign!Owners' # {}
  BY <1>1, <1>2 DEF Sign!Owners
<1>4. Sign!Shape'
  BY <1>1 DEF Sign!AccountsInv, Sign!Shape, Sign!Ids
<1>5. Sign!IdsAreSpent'
  BY <1>2 DEF Sign!AccountsInv, Sign!IdsAreSpent, Sign!Tokens
<1>6. Sign!AnotherOwns'
  <2>1. \A q \in Requests : x4'[q].at \in {"role", "delete"} =>
            x4'[q] = x4[q] /\ x4[q].id \in 1..x2 - 1 /\ x4[q].id # x2
    BY DEF Sign!AccountsInv, Sign!IdsAreSpent
  <2> QED
    BY <1>3, <2>1 DEF Sign!AccountsInv, Sign!AnotherOwns, Sign!Demotes, Sign!At
<1>7. Sign!OwnersRemain'
  BY <1>3 DEF Sign!OwnersRemain
<1>8. Sign!KnowsPassword'
  <2>1. ASSUME NEW q \in Requests, Sign!ShowsPassword(q)', ~x4'[q].raced, x4'[q].id \in Sign!Rows'
        PROVE  x4'[q].pw = x1'[x4'[q].id].pw
    <3>1. CASE x4'[q] = x4[q]
      <4>1. x4[q].id \in 1..x2 - 1 /\ x4[q].id # x2 /\ x4[q].id \in Sign!Rows
        BY <1>2, <2>1, <3>1 DEF Sign!AccountsInv, Sign!IdsAreSpent, Sign!ShowsPassword, Sign!At
      <4> QED
        BY <1>1, <2>1, <3>1, <4>1
           DEF Sign!AccountsInv, Sign!KnowsPassword, Sign!ShowsPassword, Sign!At
    <3> QED
      BY <3>1
  <2> QED
    BY <2>1 DEF Sign!KnowsPassword
<1>9. Sign!SessionsFresh'
  <2>1. \A t \in Sign!Tokens : x3[t].id # 0 => x1'[x3[t].id] = x1[x3[t].id]
    BY <1>1, <1>2 DEF Sign!AccountsInv, Sign!IdsAreSpent
  <2> QED
    BY <2>1 DEF Sign!AccountsInv, Sign!SessionsFresh, Sign!At, Sign!Tokens
<1>10. Sign!KnowsSecret'
  <2>1. \A q \in Requests : x4'[q].at = "verify" =>
            x4'[q] = x4[q] /\ x1'[x4[q].id] = x1[x4[q].id]
    BY <1>1 DEF Sign!AccountsInv, Sign!IdsAreSpent
  <2> QED
    BY <2>1 DEF Sign!AccountsInv, Sign!KnowsSecret, Sign!At
<1>11. Sign!TotpShown'
  BY <1>1, <1>2 DEF Sign!AccountsInv, Sign!TotpShown
<1> QED
  BY <1>4, <1>5, <1>6, <1>7, <1>8, <1>9, <1>10, <1>11 DEF Sign!AccountsInv

(* What is inserted has a name and a role, and no password was changed yet.  *)
LEMMA RowToInsert ==
    ASSUME NEW name \in UserNames \cup {""}, NEW role \in Sign!Roles,
           NEW a, a = [Sign!NoAdmin EXCEPT !.name = name, !.role = role]
    PROVE  a \in Sign!Admin /\ a.role = role /\ a.pw = 0 /\ ~a.totp
BY DEF Sign!NoAdmin, Sign!Admin

(* The first account, or the name was taken meanwhile. *)
LEMMA SetupInserts ==
    ASSUME Sign!AccountsInv, NEW r \in Requests, Sign!SetupInsert(r)
    PROVE  Sign!AccountsInv'
<1>1. x4[r].at = "setup" /\ UNCHANGED <<x3, x5, x6, x7>>
  BY DEF Sign!SetupInsert, Sign!At
<1>2. CASE Sign!Done(r) /\ UNCHANGED <<x1, x2>>
  BY <1>1, <1>2, AccountsShape, RequestEnds
<1>3. CASE /\ x2 \in Sign!Ids /\ Sign!Insert(x4[r].name, "superadmin")
           /\ LET id == IF Sign!Rows = {} THEN x2 ELSE Sign!First IN
              x4' = [x4 EXCEPT ![r] = [Sign!Idle EXCEPT !.at = "session", !.id = id,
                                          !.pw = IF id = x2 THEN 0 ELSE x1[id].pw]]
  <2>1. PICK name : name = x4[r].name
    OBVIOUS
  <2>2. name \in UserNames \cup {""} /\ "superadmin" \in Sign!Roles
    BY <2>1, AccountsShape DEF Sign!Standing, Sign!Roles
  <2>3. PICK role \in Sign!Roles : role = "superadmin"
    BY <2>2
  <2>a. PICK a : a = [Sign!NoAdmin EXCEPT !.name = name, !.role = role]
    OBVIOUS
  <2>4. a \in Sign!Admin /\ a.role = "superadmin" /\ a.pw = 0 /\ ~a.totp
    <3>a. Sign!NoAdmin \in Sign!Admin /\ Sign!NoAdmin.pw = 0 /\ ~Sign!NoAdmin.totp
      BY DEF Sign!NoAdmin, Sign!Admin
    <3>1. PICK b \in Sign!Admin : b = Sign!NoAdmin
      BY <3>a
    <3>2. a = [b EXCEPT !.name = name, !.role = role]
      BY <2>a, <3>1
    <3>3. a \in Sign!Admin /\ a.role = role /\ a.pw = b.pw /\ (a.totp <=> b.totp)
      BY <2>2, <3>2 DEF Sign!Admin
    <3> QED
      BY <2>3, <3>a, <3>1, <3>3
  <2>5. x1' = [x1 EXCEPT ![x2] = a] /\ x2' = x2 + 1
    BY <1>3, <2>a, <2>1, <2>3 DEF Sign!Insert
  <2>6. x1'[x2] = a /\ \A i \in Sign!Ids \ {x2} : x1'[i] = x1[i]
    BY <1>3, <2>5, AccountsShape
  <2>7. PICK id : id = IF Sign!Rows = {} THEN x2 ELSE Sign!First
    OBVIOUS
  <2>8. id \in Sign!Ids /\ id \in Nat /\ id \in 1..x2
    BY <1>3, <2>7, FirstIsARow, AccountsShape DEF Sign!AccountsInv, Sign!IdsAreSpent
  <2>9. PICK pw \in Nat : pw = IF id = x2 THEN 0 ELSE x1[id].pw
    BY <2>8, AccountsShape DEF Sign!Admin
  <2>10. pw = x1'[id].pw
    BY <2>4, <2>6, <2>8, <2>9
  <2>11. PICK b \in Sign!Standing : b = Sign!Idle
    BY IdleKnowsNothing
  <2>12. PICK s : s = [b EXCEPT !.at = "session", !.id = id, !.pw = pw]
    OBVIOUS
  <2>13. s \in Sign!Standing /\ s.at = "session" /\ s.id = id /\ s.pw = pw
    BY <2>8, <2>12 DEF Sign!Standing, Sign!Steps
  <2>14. x4' = [x4 EXCEPT ![r] = s]
    BY <1>3, <2>7, <2>9, <2>11, <2>12
  <2>15. /\ x4' \in [Requests -> Sign!Standing] /\ x4'[r] = s
         /\ \A q \in Requests \ {r} : x4'[q] = x4[q]
    BY <2>13, <2>14, AccountsShape
  <2> QED
    BY <1>1, <1>3, <2>2, <2>4, <2>5, <2>8, <2>10, <2>13, <2>15, AccountsShape, RowInserted
<1> QED
  BY <1>2, <1>3 DEF Sign!SetupInsert

LEMMA UserCreated ==
    ASSUME Sign!AccountsInv, NEW by, NEW n \in UserNames, NEW role \in Sign!Roles,
           Sign!CreateUser(by, n, role)
    PROVE  Sign!AccountsInv'
<1>1. PICK a : a = [Sign!NoAdmin EXCEPT !.name = n, !.role = role]
  OBVIOUS
<1>2. a \in Sign!Admin /\ a.role = role /\ ~a.totp
  BY <1>1, RowToInsert
<1>3. /\ x1' = [x1 EXCEPT ![x2] = a] /\ x2' = x2 + 1 /\ x2 \in Sign!Ids
      /\ UNCHANGED <<x3, x4, x6, x7>> /\ x5' \in Nat /\ Sign!Owners # {}
  BY <1>1, AccountsShape DEF Sign!CreateUser, Sign!Insert
<1> QED
  BY <1>2, <1>3, AccountsShape, RowInserted

(* The session is of what the request knew. *)
LEMMA SessionCreated ==
    ASSUME Sign!AccountsInv, NEW r \in Requests, Sign!CreateSession(r)
    PROVE  Sign!AccountsInv'
<1>1. x4[r].at = "session" /\ Sign!Done(r) /\ UNCHANGED <<x1, x2, x5, x6, x7>>
  BY DEF Sign!CreateSession, Sign!At, Sign!Rest
<1>2. CASE UNCHANGED x3
  BY <1>1, <1>2, AccountsShape, RequestEnds
<1>3. ASSUME x4[r].id \in Sign!Rows, NEW t \in Sign!Tokens,
             x3' = [x3 EXCEPT ![t] = [id |-> x4[r].id, pw |-> x4[r].pw, raced |-> x4[r].raced]]
      PROVE  Sign!AccountsInv'
  <2> USE AccountBounds, AccountsShape, <1>1
  <2>1. PICK a : a = [id |-> x4[r].id, pw |-> x4[r].pw, raced |-> x4[r].raced]
    OBVIOUS
  <2>2. /\ a \in Sign!Session /\ a.id = x4[r].id /\ a.pw = x4[r].pw /\ (a.raced <=> x4[r].raced)
    BY <2>1 DEF Sign!Session, Sign!Standing
  <2>3. /\ x3' \in [Sign!Tokens -> Sign!Session] /\ x3'[t] = a
        /\ \A u \in Sign!Tokens \ {t} : x3'[u] = x3[u]
    BY <1>3, <2>1, <2>2
  <2>4. /\ x4' \in [Requests -> Sign!Standing] /\ x4'[r].at = "idle"
        /\ \A q \in Requests \ {r} : x4'[q] = x4[q]
    BY IdleKnowsNothing DEF Sign!Done
  <2>5. Sign!Rows' = Sign!Rows /\ Sign!Owners' = Sign!Owners
    BY DEF Sign!Rows, Sign!Owners, Sign!Ids
  <2>6. Sign!Shape'
    BY <2>3, <2>4 DEF Sign!AccountsInv, Sign!Shape, Sign!Ids, Sign!Tokens
  <2>7. Sign!IdsAreSpent'
    BY <1>3, <2>2, <2>3, <2>4, <2>5 DEF Sign!AccountsInv, Sign!IdsAreSpent, Sign!Tokens
  <2>8. Sign!AnotherOwns'
    BY <2>4, <2>5 DEF Sign!AccountsInv, Sign!AnotherOwns, Sign!Demotes, Sign!At
  <2>9. Sign!KnowsPassword'
    BY <2>4, <2>5 DEF Sign!AccountsInv, Sign!KnowsPassword, Sign!ShowsPassword, Sign!At
  <2>10. Sign!SessionsFresh'
    <3>1. ~a.raced => a.pw = x1[a.id].pw
      BY <1>3, <2>2 DEF Sign!AccountsInv, Sign!KnowsPassword, Sign!ShowsPassword, Sign!At
    <3> QED
      BY <2>3, <2>4, <3>1 DEF Sign!AccountsInv, Sign!SessionsFresh, Sign!At, Sign!Tokens
  <2>11. Sign!KnowsSecret'
    BY <2>4 DEF Sign!AccountsInv, Sign!KnowsSecret, Sign!At
  <2>12. Sign!OwnersRemain' /\ Sign!TotpShown'
    BY <2>5 DEF Sign!AccountsInv, Sign!OwnersRemain, Sign!TotpShown
  <2> QED
    BY <2>6, <2>7, <2>8, <2>9, <2>10, <2>11, <2>12 DEF Sign!AccountsInv
<1> QED
  BY <1>2, <1>3 DEF Sign!CreateSession

(* A session ends. *)
LEMMA SessionEnded ==
    ASSUME Sign!AccountsInv, NEW t \in Sign!Tokens, Sign!EndSession(t)
    PROVE  Sign!AccountsInv'
<1> USE AccountBounds, AccountsShape
<1>1. UNCHANGED <<x1, x2, x4, x5, x6, x7>>
  BY DEF Sign!EndSession, Sign!Rest
<1>2. Sign!NoSession \in Sign!Session /\ Sign!NoSession.id = 0
  BY DEF Sign!NoSession, Sign!Session
<1>3. /\ x3' \in [Sign!Tokens -> Sign!Session] /\ x3'[t].id = 0
      /\ \A u \in Sign!Tokens \ {t} : x3'[u] = x3[u]
  BY <1>2 DEF Sign!EndSession
<1>4. Sign!Rows' = Sign!Rows /\ Sign!Owners' = Sign!Owners
  BY <1>1 DEF Sign!Rows, Sign!Owners, Sign!Ids
<1>5. Sign!Shape'
  BY <1>1, <1>3 DEF Sign!AccountsInv, Sign!Shape, Sign!Ids, Sign!Tokens
<1>6. Sign!IdsAreSpent'
  BY <1>1, <1>3, <1>4 DEF Sign!AccountsInv, Sign!IdsAreSpent, Sign!Tokens
<1>7. Sign!AnotherOwns'
  BY <1>1, <1>4 DEF Sign!AccountsInv, Sign!AnotherOwns, Sign!Demotes, Sign!At
<1>8. Sign!KnowsPassword' /\ Sign!KnowsSecret'
  BY <1>1, <1>4
     DEF Sign!AccountsInv, Sign!KnowsPassword, Sign!ShowsPassword, Sign!KnowsSecret, Sign!At
<1>9. Sign!SessionsFresh'
  BY <1>1, <1>3 DEF Sign!AccountsInv, Sign!SessionsFresh, Sign!At, Sign!Tokens
<1>10. Sign!OwnersRemain' /\ Sign!TotpShown'
  BY <1>1, <1>4 DEF Sign!AccountsInv, Sign!OwnersRemain, Sign!TotpShown
<1> QED
  BY <1>5, <1>6, <1>7, <1>8, <1>9, <1>10 DEF Sign!AccountsInv

(* A password is written: whoever knows of the one before is told so.        *)
LEMMA PasswordWritten ==
    ASSUME Sign!AccountsInv, NEW r \in Requests, Sign!WritePassword(r)
    PROVE  Sign!AccountsInv'
<1>1. x4[r].at = "password" /\ UNCHANGED <<x2, x3, x5, x6, x7>>
  BY DEF Sign!WritePassword, Sign!At, Sign!Rest
<1>2. CASE Sign!Done(r) /\ UNCHANGED x1
  BY <1>1, <1>2, AccountsShape, RequestEnds
<1>3. ASSUME NEW i \in Sign!Rows, i = x4[r].id, x1' = [x1 EXCEPT ![i].pw = @ + 1],
             x4' = [q \in Requests |->
                       IF q = r THEN [x4[q] EXCEPT !.at = "drop", !.pw = x1[i].pw + 1]
                       ELSE IF x4[q].id = i THEN [x4[q] EXCEPT !.raced = TRUE] ELSE x4[q]]
      PROVE  Sign!AccountsInv'
  <2> USE AccountBounds, AccountsShape, <1>1
  <2>1. PICK a \in Sign!Admin : a = x1[i]
    OBVIOUS
  <2>2. PICK pw \in Nat : pw = a.pw + 1
    <3>1. a.pw \in Nat
      BY <2>1 DEF Sign!Admin
    <3> QED
      BY <3>1
  <2>3. PICK c : c = [a EXCEPT !.pw = pw]
    OBVIOUS
  <2>4. /\ c \in Sign!Admin /\ c.pw = pw /\ c.role = a.role /\ c.secret = a.secret
        /\ (c.totp <=> a.totp)
    BY <2>3 DEF Sign!Admin
  <2>5. x1' = [x1 EXCEPT ![i] = c]
    <3>1. x1' = [x1 EXCEPT ![i] = [x1[i] EXCEPT !.pw = x1[i].pw + 1]]
      BY <1>3
    <3>2. c = [x1[i] EXCEPT !.pw = x1[i].pw + 1]
      BY <2>1, <2>2, <2>3
    <3> QED
      BY <3>1, <3>2
  <2>6. /\ x1' \in [Sign!Ids -> Sign!Admin] /\ x1'[i] = c
        /\ \A j \in Sign!Ids \ {i} : x1'[j] = x1[j]
    BY <2>4, <2>5
  <2>7. Sign!Rows' = Sign!Rows
    BY <2>1, <2>4, <2>6 DEF Sign!Rows, Sign!Ids
  <2>8. Sign!Owners' = Sign!Owners
    BY <2>1, <2>4, <2>6, <2>7 DEF Sign!Owners
  <2>9. /\ x4'[r] \in Sign!Standing /\ x4'[r].at = "drop" /\ x4'[r].id = i /\ x4'[r].pw = pw
        /\ (x4'[r].again <=> x4[r].again)
    <3>1. PICK b \in Sign!Standing : b = x4[r]
      OBVIOUS
    <3>2. PICK s : s = [b EXCEPT !.at = "drop", !.pw = pw]
      OBVIOUS
    <3>3. s \in Sign!Standing /\ s.at = "drop" /\ s.id = b.id /\ s.pw = pw /\ (s.again <=> b.again)
      BY <3>2 DEF Sign!Standing, Sign!Steps
    <3>4. x4'[r] = s
      BY <1>3, <2>1, <2>2, <3>1, <3>2
    <3> QED
      BY <1>3, <3>1, <3>3, <3>4
  <2>10. ASSUME NEW q \in Requests \ {r}
         PROVE  /\ x4'[q] \in Sign!Standing /\ x4'[q].at = x4[q].at /\ x4'[q].id = x4[q].id
                /\ x4'[q].role = x4[q].role /\ x4'[q].pw = x4[q].pw
                /\ x4'[q].secret = x4[q].secret /\ (x4'[q].again <=> x4[q].again)
                /\ ~x4'[q].raced => x4[q].id # i /\ ~x4[q].raced
    <3>1. CASE x4[q].id = i
      <4>1. PICK b \in Sign!Standing : b = x4[q]
        OBVIOUS
      <4>2. PICK s : s = [b EXCEPT !.raced = TRUE]
        OBVIOUS
      <4>3. /\ s \in Sign!Standing /\ s.at = b.at /\ s.id = b.id /\ s.role = b.role
            /\ s.pw = b.pw /\ s.secret = b.secret /\ (s.again <=> b.again) /\ s.raced
        BY <4>2 DEF Sign!Standing
      <4>4. x4'[q] = s
        BY <1>3, <3>1, <4>1, <4>2
      <4> QED
        BY <4>1, <4>3, <4>4
    <3>2. CASE x4[q].id # i
      <4>1. x4'[q] = x4[q]
        BY <1>3, <3>2
      <4> QED
        BY <3>2, <4>1
    <3> QED
      BY <3>1, <3>2
  <2>11. x4' \in [Requests -> Sign!Standing]
    <3>1. x4' = [q \in Requests |-> x4'[q]]
      BY <1>3
    <3> QED
      BY <2>9, <2>10, <3>1
  <2>12. Sign!Shape'
    BY <2>6, <2>11 DEF Sign!AccountsInv, Sign!Shape, Sign!Ids, Sign!Tokens
  <2>13. Sign!IdsAreSpent'
    BY <1>3, <2>7, <2>9, <2>10, ZenonT(60) DEF Sign!AccountsInv, Sign!IdsAreSpent, Sign!Tokens
  <2>14. Sign!AnotherOwns'
    BY <2>8, <2>9, <2>10 DEF Sign!AccountsInv, Sign!AnotherOwns, Sign!Demotes, Sign!At
  <2>15. Sign!KnowsPassword'
    <3>1. ASSUME NEW q \in Requests \ {r}, Sign!ShowsPassword(q)', ~x4'[q].raced,
                 x4'[q].id \in Sign!Rows'
          PROVE  x4'[q].pw = x1'[x4'[q].id].pw
      <4>1. Sign!ShowsPassword(q) /\ ~x4[q].raced /\ x4[q].id \in Sign!Rows /\ x4[q].id # i
        BY <2>7, <2>10, <3>1 DEF Sign!ShowsPassword, Sign!At
      <4> QED
        BY <2>6, <2>10, <4>1 DEF Sign!AccountsInv, Sign!KnowsPassword
    <3> QED
      BY <2>4, <2>6, <2>9, <3>1 DEF Sign!KnowsPassword
  <2>16. Sign!SessionsFresh'
    <3>1. ASSUME NEW t \in Sign!Tokens, x3[t].id # 0, ~x3[t].raced
          PROVE  \/ x3[t].pw = x1'[x3[t].id].pw
                 \/ \E q \in Requests : x4'[q].at = "drop" /\ x4'[q].id = x3[t].id
      <4>1. CASE x3[t].id = i
        BY <2>9, <4>1
      <4>2. CASE x3[t].id # i
        <5>1. x3[t].id \in Sign!Ids /\ x1'[x3[t].id] = x1[x3[t].id]
          BY <2>6, <3>1, <4>2 DEF Sign!AccountsInv, Sign!IdsAreSpent
        <5>2. \A q \in Requests : x4[q].at = "drop" => q # r
          OBVIOUS
        <5> QED
          BY <2>10, <3>1, <5>1, <5>2 DEF Sign!AccountsInv, Sign!SessionsFresh, Sign!At
      <4> QED
        BY <4>1, <4>2
    <3> QED
      BY <3>1 DEF Sign!SessionsFresh, Sign!At, Sign!Tokens
  <2>17. Sign!KnowsSecret'
    <3>1. ASSUME NEW q \in Requests, x4'[q].at = "verify", ~x4'[q].raced
          PROVE  x1'[x4'[q].id].secret \in {0, x4'[q].secret}
      <4>1. /\ q # r /\ x4[q].at = "verify" /\ ~x4[q].raced /\ x4[q].id # i
            /\ x4'[q].id = x4[q].id /\ x4'[q].secret = x4[q].secret
        BY <2>9, <2>10, <3>1
      <4>2. x1'[x4[q].id] = x1[x4[q].id]
        BY <2>6, <4>1 DEF Sign!AccountsInv, Sign!IdsAreSpent
      <4> QED
        BY <4>1, <4>2 DEF Sign!AccountsInv, Sign!KnowsSecret, Sign!At
    <3> QED
      BY <3>1 DEF Sign!KnowsSecret, Sign!At
  <2>18. Sign!OwnersRemain'
    BY <2>8 DEF Sign!AccountsInv, Sign!OwnersRemain
  <2>19. Sign!TotpShown'
    BY <2>1, <2>4, <2>6, <2>7 DEF Sign!AccountsInv, Sign!TotpShown
  <2> QED
    BY <2>12, <2>13, <2>14, <2>15, <2>16, <2>17, <2>18, <2>19 DEF Sign!AccountsInv
<1> QED
  BY <1>2, <1>3 DEF Sign!WritePassword

(* The sessions of the account go; one that changed its own password is     *)
(* signed in again.                                                         *)
LEMMA SessionsDropped ==
    ASSUME Sign!AccountsInv, NEW r \in Requests, Sign!DropSessions(r)
    PROVE  Sign!AccountsInv'
<1> USE AccountBounds, AccountsShape
<1>1. /\ x4[r].at = "drop" /\ Sign!Drop(x4[r].id) /\ UNCHANGED <<x1, x2, x5, x6, x7>>
  BY DEF Sign!DropSessions, Sign!At, Sign!Rest
<1>2. Sign!NoSession \in Sign!Session /\ Sign!NoSession.id = 0
  BY DEF Sign!NoSession, Sign!Session
<1>3. /\ x3' \in [Sign!Tokens -> Sign!Session]
      /\ \A t \in Sign!Tokens :
            x3'[t] = IF x3[t].id = x4[r].id THEN Sign!NoSession ELSE x3[t]
  BY <1>1, <1>2 DEF Sign!Drop
<1>4. PICK s \in Sign!Standing :
          /\ x4' = [x4 EXCEPT ![r] = s]
          /\ \/ s.at = "idle"
             \/ /\ s.at = "session" /\ x4[r].again /\ s.id = x4[r].id /\ s.pw = x4[r].pw
                /\ s.raced <=> x4[r].raced
  <2>1. CASE Sign!Done(r)
    BY <2>1, IdleKnowsNothing DEF Sign!Done
  <2>2. CASE x4[r].again /\ x4' = [x4 EXCEPT ![r].at = "session"]
    <3>1. PICK b \in Sign!Standing : b = x4[r]
      OBVIOUS
    <3>2. PICK s : s = [b EXCEPT !.at = "session"]
      OBVIOUS
    <3>3. /\ s \in Sign!Standing /\ s.at = "session" /\ s.id = b.id /\ s.pw = b.pw
          /\ (s.raced <=> b.raced)
      BY <3>1, <3>2 DEF Sign!Standing, Sign!Steps
    <3>4. x4' = [x4 EXCEPT ![r] = s]
      BY <2>2, <3>1, <3>2
    <3> QED
      BY <2>2, <3>1, <3>3, <3>4
  <2> QED
    BY <2>1, <2>2 DEF Sign!DropSessions
<1>5. /\ x4' \in [Requests -> Sign!Standing] /\ x4'[r] = s
      /\ \A q \in Requests \ {r} : x4'[q] = x4[q]
  BY <1>4
<1>6. Sign!Rows' = Sign!Rows /\ Sign!Owners' = Sign!Owners
  BY <1>1 DEF Sign!Rows, Sign!Owners, Sign!Ids
<1>7. Sign!Shape'
  BY <1>1, <1>3, <1>5 DEF Sign!AccountsInv, Sign!Shape, Sign!Ids, Sign!Tokens
<1>8. Sign!IdsAreSpent'
  BY <1>1, <1>2, <1>3, <1>4, <1>5, <1>6 DEF Sign!AccountsInv, Sign!IdsAreSpent, Sign!Tokens
<1>9. Sign!AnotherOwns'
  BY <1>1, <1>4, <1>5, <1>6 DEF Sign!AccountsInv, Sign!AnotherOwns, Sign!Demotes, Sign!At
<1>10. Sign!KnowsPassword'
  BY <1>1, <1>4, <1>5, <1>6
     DEF Sign!AccountsInv, Sign!KnowsPassword, Sign!ShowsPassword, Sign!At
<1>11. Sign!SessionsFresh'
  <2>1. ASSUME NEW t \in Sign!Tokens, x3'[t].id # 0, ~x3'[t].raced
        PROVE  \/ x3'[t].pw = x1'[x3'[t].id].pw
               \/ \E q \in Requests : x4'[q].at = "drop" /\ x4'[q].id = x3'[t].id
    <3>1. x3'[t] = x3[t] /\ x3[t].id # x4[r].id
      BY <1>2, <1>3, <2>1
    <3>2. \/ x3[t].pw = x1[x3[t].id].pw
          \/ \E q \in Requests \ {r} : x4[q].at = "drop" /\ x4[q].id = x3[t].id
      BY <2>1, <3>1 DEF Sign!AccountsInv, Sign!SessionsFresh, Sign!At
    <3> QED
      BY <1>1, <1>5, <3>1, <3>2
  <2> QED
    BY <2>1 DEF Sign!SessionsFresh, Sign!At, Sign!Tokens
<1>12. Sign!KnowsSecret'
  BY <1>1, <1>4, <1>5 DEF Sign!AccountsInv, Sign!KnowsSecret, Sign!At
<1>13. Sign!OwnersRemain' /\ Sign!TotpShown'
  BY <1>1, <1>6 DEF Sign!AccountsInv, Sign!OwnersRemain, Sign!TotpShown
<1> QED
  BY <1>7, <1>8, <1>9, <1>10, <1>11, <1>12, <1>13 DEF Sign!AccountsInv

(* A role is written: an owner is left, since another was counted and no    *)
(* other change of an owner is under way.                                   *)
LEMMA RoleWritten ==
    ASSUME Sign!AccountsInv, NEW r \in Requests, Sign!WriteRole(r)
    PROVE  Sign!AccountsInv'
<1> USE AccountBounds, AccountsShape
<1>1. /\ x4[r].at = "role" /\ x4[r].role \in Sign!Roles /\ ~x4[r].again
      /\ UNCHANGED <<x2, x3, x5, x7>> /\ (x6 => x6')
      /\ x6' \/ \A q \in Requests \ {r} : x4[q].at \notin {"role", "delete"}
  BY DEF Sign!WriteRole, Sign!At, Sign!Rest, Sign!Crossing, Sign!AccountsInv, Sign!AnotherOwns
<1>2. CASE Sign!Done(r) /\ UNCHANGED x1
  BY <1>1, <1>2, RequestEnds
<1>3. ASSUME NEW i \in Sign!Rows, i = x4[r].id, x1' = [x1 EXCEPT ![i].role = x4[r].role],
             x4' = [x4 EXCEPT ![r].at = "drop"]
      PROVE  Sign!AccountsInv'
  <2> USE <1>1
  <2>1. PICK a \in Sign!Admin : a = x1[i]
    OBVIOUS
  <2>2. PICK role \in Sign!Roles : role = x4[r].role
    OBVIOUS
  <2>3. PICK c : c = [a EXCEPT !.role = role]
    OBVIOUS
  <2>4. /\ c \in Sign!Admin /\ c.role = role /\ c.pw = a.pw /\ c.secret = a.secret
        /\ (c.totp <=> a.totp) /\ role # "none"
    BY <2>2, <2>3 DEF Sign!Admin, Sign!Roles
  <2>5. x1' = [x1 EXCEPT ![i] = c]
    BY <1>3, <2>1, <2>2, <2>3
  <2>6. /\ x1' \in [Sign!Ids -> Sign!Admin] /\ x1'[i] = c
        /\ \A j \in Sign!Ids \ {i} : x1'[j] = x1[j]
    BY <2>4, <2>5
  <2>7. Sign!Rows' = Sign!Rows
    BY <2>4, <2>6 DEF Sign!Rows, Sign!Ids
  <2>8. Sign!Owners \ {i} \subseteq Sign!Owners' /\ Sign!Owners' \subseteq Sign!Owners \cup {i}
    BY <2>6, <2>7 DEF Sign!Owners
  <2>9. PICK b \in Sign!Standing : b = x4[r]
    OBVIOUS
  <2>s. PICK s : s = [b EXCEPT !.at = "drop"]
    OBVIOUS
  <2>10. s \in Sign!Standing /\ s.at = "drop" /\ s.id = b.id /\ (s.again <=> b.again)
    BY <2>9, <2>s DEF Sign!Standing, Sign!Steps
  <2>11. /\ x4' \in [Requests -> Sign!Standing] /\ x4'[r] = s
         /\ \A q \in Requests \ {r} : x4'[q] = x4[q]
    BY <1>3, <2>9, <2>s, <2>10
  <2>12. Sign!Shape'
    BY <2>6, <2>11 DEF Sign!AccountsInv, Sign!Shape, Sign!Ids, Sign!Tokens
  <2>13. Sign!IdsAreSpent'
    BY <1>3, <2>7, <2>9, <2>10, <2>11 DEF Sign!AccountsInv, Sign!IdsAreSpent, Sign!Tokens
  <2>14. Sign!AnotherOwns'
    BY <2>10, <2>11 DEF Sign!AccountsInv, Sign!AnotherOwns, Sign!Demotes, Sign!At
  <2>15. Sign!OwnersRemain'
    <3>1. CASE role = "superadmin"
      BY <2>4, <2>6, <2>7, <3>1 DEF Sign!OwnersRemain, Sign!Owners
    <3>2. CASE role # "superadmin" /\ ~x6'
      BY <1>3, <2>2, <2>8, <3>2
         DEF Sign!OwnersRemain, Sign!AccountsInv, Sign!AnotherOwns, Sign!Demotes, Sign!At
    <3> QED
      BY <3>1, <3>2 DEF Sign!OwnersRemain
  <2>16. \A j \in Sign!Ids : /\ x1'[j].pw = x1[j].pw /\ x1'[j].secret = x1[j].secret
                             /\ x1'[j].totp <=> x1[j].totp
    BY <2>1, <2>4, <2>6
  <2>17. Sign!KnowsPassword'
    <3>1. \A q \in Requests : Sign!ShowsPassword(q)' => q # r /\ Sign!ShowsPassword(q)
      BY <2>9, <2>10, <2>11 DEF Sign!ShowsPassword, Sign!At
    <3>2. Sign!Rows \subseteq Sign!Ids
      BY DEF Sign!Rows
    <3> QED
      BY <2>7, <2>11, <2>16, <3>1, <3>2 DEF Sign!AccountsInv, Sign!KnowsPassword
  <2>18. Sign!SessionsFresh'
    <3>1. \A t \in Sign!Tokens : x3[t].id # 0 => x1'[x3[t].id].pw = x1[x3[t].id].pw
      BY <2>16 DEF Sign!AccountsInv, Sign!IdsAreSpent
    <3> QED
      BY <2>11, <3>1 DEF Sign!AccountsInv, Sign!SessionsFresh, Sign!At, Sign!Tokens
  <2>19. Sign!KnowsSecret'
    <3>1. \A q \in Requests : x4[q].at = "verify" => x4[q].id \in Sign!Ids
      BY DEF Sign!AccountsInv, Sign!IdsAreSpent
    <3> QED
      BY <2>10, <2>11, <2>16, <3>1 DEF Sign!AccountsInv, Sign!KnowsSecret, Sign!At
  <2>20. Sign!TotpShown'
    BY <2>7, <2>16 DEF Sign!AccountsInv, Sign!TotpShown
  <2> QED
    BY <2>12, <2>13, <2>14, <2>15, <2>17, <2>18, <2>19, <2>20 DEF Sign!AccountsInv
<1> QED
  BY <1>2, <1>3 DEF Sign!WriteRole

(* An account is deleted, and its sessions with it. *)
LEMMA AccountDeleted ==
    ASSUME Sign!AccountsInv, NEW r \in Requests, Sign!DeleteRow(r)
    PROVE  Sign!AccountsInv'
<1> USE AccountBounds, AccountsShape
<1>1. PICK i : i = x4[r].id
  OBVIOUS
<1>2. /\ x4[r].at = "delete" /\ i \in 1..x2 - 1 /\ i \in Sign!Ids /\ i \in Nat /\ i # 0
      /\ UNCHANGED <<x2, x5, x7>> /\ (x6 => x6')
      /\ x6' \/ \A q \in Requests \ {r} : x4[q].at \notin {"role", "delete"}
  BY <1>1 DEF Sign!DeleteRow, Sign!At, Sign!Rest, Sign!Crossing, Sign!AccountsInv, Sign!IdsAreSpent
<1>3. /\ Sign!NoAdmin \in Sign!Admin /\ Sign!NoAdmin.role = "none" /\ Sign!NoAdmin.secret = 0
      /\ Sign!NoSession \in Sign!Session /\ Sign!NoSession.id = 0
  BY DEF Sign!NoAdmin, Sign!Admin, Sign!NoSession, Sign!Session
<1>4. /\ x1' \in [Sign!Ids -> Sign!Admin] /\ x1'[i] = Sign!NoAdmin
      /\ \A j \in Sign!Ids \ {i} : x1'[j] = x1[j]
  BY <1>1, <1>2, <1>3 DEF Sign!DeleteRow
<1>5. /\ x3' \in [Sign!Tokens -> Sign!Session]
      /\ \A t \in Sign!Tokens : x3'[t] = IF x3[t].id = i THEN Sign!NoSession ELSE x3[t]
  BY <1>1, <1>3 DEF Sign!DeleteRow, Sign!Drop
<1>6. /\ x4' \in [Requests -> Sign!Standing] /\ x4'[r].at = "idle"
      /\ \A q \in Requests \ {r} : x4'[q] = x4[q]
  BY IdleKnowsNothing DEF Sign!DeleteRow, Sign!Done
<1>7. Sign!Rows' = Sign!Rows \ {i}
  BY <1>3, <1>4 DEF Sign!Rows, Sign!Ids
<1>8. Sign!Owners' = Sign!Owners \ {i}
  BY <1>4, <1>7 DEF Sign!Owners
<1>9. Sign!Shape'
  BY <1>2, <1>4, <1>5, <1>6 DEF Sign!AccountsInv, Sign!Shape, Sign!Ids, Sign!Tokens
<1>10. Sign!IdsAreSpent'
  BY <1>2, <1>3, <1>5, <1>6, <1>7 DEF Sign!AccountsInv, Sign!IdsAreSpent, Sign!Tokens
<1>11. Sign!AnotherOwns'
  BY <1>2, <1>6, <1>8 DEF Sign!AccountsInv, Sign!AnotherOwns, Sign!Demotes, Sign!At
<1>12. Sign!OwnersRemain'
  <2>1. ~x6' => \E j \in Sign!Owners : j # i
    BY <1>1, <1>2
       DEF Sign!AccountsInv, Sign!OwnersRemain, Sign!AnotherOwns, Sign!Demotes, Sign!At
  <2> QED
    BY <1>8, <2>1 DEF Sign!OwnersRemain
<1>13. Sign!KnowsPassword'
  BY <1>4, <1>6, <1>7 DEF Sign!AccountsInv, Sign!KnowsPassword, Sign!ShowsPassword, Sign!At
<1>14. Sign!SessionsFresh'
  <2>1. ASSUME NEW t \in Sign!Tokens, x3'[t].id # 0, ~x3'[t].raced
        PROVE  \/ x3'[t].pw = x1'[x3'[t].id].pw
               \/ \E q \in Requests : x4'[q].at = "drop" /\ x4'[q].id = x3'[t].id
    <3>1. x3'[t] = x3[t] /\ x3[t].id # i
      BY <1>3, <1>5, <2>1
    <3>2. x3[t].id \in Sign!Ids /\ x1'[x3[t].id] = x1[x3[t].id]
      BY <1>4, <2>1, <3>1 DEF Sign!AccountsInv, Sign!IdsAreSpent
    <3>3. \/ x3[t].pw = x1[x3[t].id].pw
          \/ \E q \in Requests \ {r} : x4[q].at = "drop" /\ x4[q].id = x3[t].id
      BY <1>2, <2>1, <3>1 DEF Sign!AccountsInv, Sign!SessionsFresh, Sign!At
    <3> QED
      BY <1>6, <3>1, <3>2, <3>3
  <2> QED
    BY <2>1 DEF Sign!SessionsFresh, Sign!At, Sign!Tokens
<1>15. Sign!KnowsSecret'
  <2>1. \A q \in Requests : x4[q].at = "verify" => x4[q].id \in Sign!Ids
    BY DEF Sign!AccountsInv, Sign!IdsAreSpent
  <2> QED
    BY <1>3, <1>4, <1>6, <2>1 DEF Sign!AccountsInv, Sign!KnowsSecret, Sign!At
<1>16. Sign!TotpShown'
  BY <1>2, <1>4, <1>7 DEF Sign!AccountsInv, Sign!TotpShown
<1> QED
  BY <1>9, <1>10, <1>11, <1>12, <1>13, <1>14, <1>15, <1>16 DEF Sign!AccountsInv

(* Only the second factor of a row changes: who shows a code of the row is   *)
(* told of a new secret, and 2FA is on only for one that was shown.          *)
LEMMA SecretMoves ==
    ASSUME Sign!AccountsInv, NEW i \in Sign!Ids, NEW c \in Sign!Admin,
           x1' = [x1 EXCEPT ![i] = c], c.role = x1[i].role, c.pw = x1[i].pw,
           UNCHANGED <<x2, x3, x6>>, x5' \in Nat, x7 \subseteq x7',
           ~c.totp \/ <<i, c.secret>> \in x7',
           x4' \in [Requests -> Sign!Standing],
           \A q \in Requests :
               \/ /\ x4'[q] = x4[q]
                  /\ x4[q].at = "verify" /\ x4[q].id = i =>
                        c.secret \in {0, x1[i].secret} \/ x4[q].raced
               \/ x4[q].at # "drop" /\ x4'[q].at = "idle"
               \/ /\ x4[q].at = "verify" /\ x4'[q].at = "verify" /\ x4'[q].id = x4[q].id
                  /\ x4'[q].raced
    PROVE  Sign!AccountsInv'
<1> USE AccountBounds, AccountsShape
<1>1. /\ x1' \in [Sign!Ids -> Sign!Admin] /\ x1'[i] = c
      /\ \A j \in Sign!Ids \ {i} : x1'[j] = x1[j]
  OBVIOUS
<1>2. \A j \in Sign!Ids : x1'[j].role = x1[j].role /\ x1'[j].pw = x1[j].pw
  BY <1>1
<1>3. Sign!Rows' = Sign!Rows
  BY <1>2 DEF Sign!Rows, Sign!Ids
<1>4. Sign!Owners' = Sign!Owners
  BY <1>2, <1>3 DEF Sign!Owners
<1>5. \A q \in Requests : x4'[q].at \notin {"idle", "verify"} => x4'[q] = x4[q]
  OBVIOUS
<1>6. Sign!Shape'
  BY <1>1 DEF Sign!AccountsInv, Sign!Shape, Sign!Ids, Sign!Tokens
<1>7. Sign!IdsAreSpent'
  BY <1>3 DEF Sign!AccountsInv, Sign!IdsAreSpent, Sign!Tokens
<1>8. Sign!AnotherOwns'
  BY <1>4, <1>5 DEF Sign!AccountsInv, Sign!AnotherOwns, Sign!Demotes, Sign!At
<1>9. Sign!OwnersRemain'
  BY <1>4 DEF Sign!AccountsInv, Sign!OwnersRemain
<1>10. Sign!KnowsPassword'
  BY <1>2, <1>3, <1>5 DEF Sign!AccountsInv, Sign!KnowsPassword, Sign!ShowsPassword, Sign!At
<1>11. Sign!SessionsFresh'
  <2>1. \A t \in Sign!Tokens : x3[t].id # 0 => x1'[x3[t].id].pw = x1[x3[t].id].pw
    BY <1>2 DEF Sign!AccountsInv, Sign!IdsAreSpent
  <2>2. \A q \in Requests : x4[q].at = "drop" => x4'[q] = x4[q]
    OBVIOUS
  <2> QED
    BY <2>1, <2>2, SMTT(30) DEF Sign!AccountsInv, Sign!SessionsFresh, Sign!At, Sign!Tokens
<1>12. Sign!KnowsSecret'
  <2>1. ASSUME NEW q \in Requests, x4'[q].at = "verify", ~x4'[q].raced
        PROVE  x1'[x4'[q].id].secret \in {0, x4'[q].secret}
    <3>1. /\ x4'[q] = x4[q] /\ x4[q].id \in Sign!Ids
          /\ x1[x4[q].id].secret \in {0, x4[q].secret}
      BY <2>1 DEF Sign!AccountsInv, Sign!KnowsSecret, Sign!IdsAreSpent, Sign!At
    <3> QED
      BY <1>1, <2>1, <3>1
  <2> QED
    BY <2>1 DEF Sign!KnowsSecret, Sign!At
<1>13. Sign!TotpShown'
  BY <1>1, <1>3 DEF Sign!AccountsInv, Sign!TotpShown, Sign!Rows
<1> QED
  BY <1>6, <1>7, <1>8, <1>9, <1>10, <1>11, <1>12, <1>13 DEF Sign!AccountsInv

(* A new secret turns 2FA off. *)
LEMMA SecretSetUp ==
    ASSUME Sign!AccountsInv, NEW i, Sign!TotpSetup(i)
    PROVE  Sign!AccountsInv'
<1> USE AccountsShape
<1>1. i \in Sign!Rows /\ i \in Sign!Ids /\ UNCHANGED <<x2, x3, x6, x7>> /\ x5' \in Nat
  BY DEF Sign!TotpSetup
<1>2. PICK a \in Sign!Admin, secret \in Nat : a = x1[i] /\ secret = x5'
  BY <1>1
<1>3. PICK c : c = [a EXCEPT !.secret = secret, !.totp = FALSE]
  OBVIOUS
<1>4. c \in Sign!Admin /\ c.role = a.role /\ c.pw = a.pw /\ ~c.totp
  BY <1>2, <1>3 DEF Sign!Admin
<1>5. x1' = [x1 EXCEPT ![i] = c]
  <2>1. x1' = [x1 EXCEPT ![i] = [x1[i] EXCEPT !.secret = x5', !.totp = FALSE]]
    BY <1>1 DEF Sign!TotpSetup
  <2>2. c = [x1[i] EXCEPT !.secret = x5', !.totp = FALSE]
    BY <1>2, <1>3
  <2> QED
    BY <2>1, <2>2
<1>6. ASSUME NEW q \in Requests
      PROVE  /\ x4'[q] \in Sign!Standing
             /\ \/ x4'[q] = x4[q] /\ ~(x4[q].at = "verify" /\ x4[q].id = i)
                \/ /\ x4[q].at = "verify" /\ x4'[q].at = "verify" /\ x4'[q].id = x4[q].id
                   /\ x4'[q].raced
  <2>1. CASE x4[q].at = "verify" /\ x4[q].id = i
    <3>1. PICK b \in Sign!Standing : b = x4[q]
      OBVIOUS
    <3>2. PICK s : s = [b EXCEPT !.raced = TRUE]
      OBVIOUS
    <3>3. s \in Sign!Standing /\ s.at = b.at /\ s.id = b.id /\ s.raced
      BY <3>1, <3>2 DEF Sign!Standing
    <3>4. x4'[q] = s
      BY <2>1, <3>1, <3>2 DEF Sign!TotpSetup, Sign!At
    <3> QED
      BY <2>1, <3>1, <3>3, <3>4
  <2>2. CASE ~(x4[q].at = "verify" /\ x4[q].id = i)
    <3>1. x4'[q] = x4[q]
      BY <2>2 DEF Sign!TotpSetup, Sign!At
    <3> QED
      BY <2>2, <3>1
  <2> QED
    BY <2>1, <2>2
<1>7. x4' \in [Requests -> Sign!Standing]
  <2>1. x4' = [q \in Requests |-> x4'[q]]
    BY DEF Sign!TotpSetup
  <2> QED
    BY <1>6, <2>1
<1> QED
  BY <1>1, <1>2, <1>4, <1>5, <1>6, <1>7, SecretMoves, ZenonT(60)

(* 2FA is on for the secret of which a code was shown. *)
LEMMA SecretShown ==
    ASSUME Sign!AccountsInv, NEW r \in Requests, Sign!TotpEnable(r)
    PROVE  Sign!AccountsInv'
<1> USE AccountsShape
<1>1. PICK i : i = x4[r].id
  OBVIOUS
<1>2. /\ x4[r].at = "verify" /\ i \in Sign!Ids /\ UNCHANGED <<x2, x3, x5, x6>>
      /\ ~x4[r].raced => x1[i].secret \in {0, x4[r].secret}
  BY <1>1 DEF Sign!TotpEnable, Sign!At, Sign!Rest, Sign!AccountsInv, Sign!IdsAreSpent,
              Sign!KnowsSecret
<1>3. PICK a \in Sign!Admin : a = x1[i]
  BY <1>2
<1>4. PICK on \in BOOLEAN : on = (a.secret # 0)
  OBVIOUS
<1>5. PICK c : c = [a EXCEPT !.totp = on]
  OBVIOUS
<1>6. /\ c \in Sign!Admin /\ c.role = a.role /\ c.pw = a.pw /\ c.secret = a.secret
      /\ (c.totp <=> a.secret # 0)
  BY <1>3, <1>4, <1>5 DEF Sign!Admin
<1>7. x1' = [x1 EXCEPT ![i] = c]
  <2>1. x1' = [x1 EXCEPT ![i] = [x1[i] EXCEPT !.totp = x1[i].secret # 0]]
    BY <1>1 DEF Sign!TotpEnable
  <2>2. c = [x1[i] EXCEPT !.totp = x1[i].secret # 0]
    BY <1>3, <1>4, <1>5
  <2> QED
    BY <2>1, <2>2
<1>8. x7' = x7 \cup {<<i, IF x4[r].raced THEN x1[i].secret ELSE x4[r].secret>>}
  BY <1>1 DEF Sign!TotpEnable
<1>9. c.totp => <<i, c.secret>> \in x7'
  BY <1>2, <1>3, <1>6, <1>8
<1>10. /\ x4' \in [Requests -> Sign!Standing] /\ x4'[r].at = "idle"
       /\ \A q \in Requests \ {r} : x4'[q] = x4[q]
  BY IdleKnowsNothing DEF Sign!TotpEnable, Sign!Done
<1>11. \A q \in Requests : \/ /\ x4'[q] = x4[q]
                              /\ c.secret \in {0, x1[i].secret}
                           \/ x4[q].at # "drop" /\ x4'[q].at = "idle"
  BY <1>2, <1>3, <1>6, <1>10
<1>12. c.role = x1[i].role /\ c.pw = x1[i].pw /\ x7 \subseteq x7'
  BY <1>3, <1>6, <1>8
<1>13. x5' \in Nat
  BY <1>2
<1>14. ~c.totp \/ <<i, c.secret>> \in x7'
  BY <1>9
<1>15. \A q \in Requests :
            \/ /\ x4'[q] = x4[q]
               /\ x4[q].at = "verify" /\ x4[q].id = i =>
                      c.secret \in {0, x1[i].secret} \/ x4[q].raced
            \/ x4[q].at # "drop" /\ x4'[q].at = "idle"
            \/ /\ x4[q].at = "verify" /\ x4'[q].at = "verify" /\ x4'[q].id = x4[q].id
               /\ x4'[q].raced
  BY <1>11
<1>16. /\ UNCHANGED <<x2, x3, x6>> /\ i \in Sign!Ids /\ c \in Sign!Admin
       /\ x4' \in [Requests -> Sign!Standing]
  BY <1>2, <1>6, <1>10
<1> QED
  <2> HIDE AccountsShape
  <2> QED
    BY <1>7, <1>12, <1>13, <1>14, <1>15, <1>16, SecretMoves, ZenonT(60)

LEMMA SecretRemoved ==
    ASSUME Sign!AccountsInv, NEW i, Sign!TotpDisable(i)
    PROVE  Sign!AccountsInv'
<1> USE AccountsShape
<1>1. i \in Sign!Rows /\ i \in Sign!Ids /\ UNCHANGED <<x2, x3, x4, x5, x6, x7>>
  BY DEF Sign!TotpDisable, Sign!Rest
<1>2. PICK a \in Sign!Admin : a = x1[i]
  BY <1>1
<1>3. PICK c : c = [a EXCEPT !.secret = 0, !.totp = FALSE]
  OBVIOUS
<1>4. c \in Sign!Admin /\ c.role = a.role /\ c.pw = a.pw /\ c.secret = 0 /\ ~c.totp
  BY <1>2, <1>3 DEF Sign!Admin
<1>5. x1' = [x1 EXCEPT ![i] = c]
  <2>1. x1' = [x1 EXCEPT ![i] = [x1[i] EXCEPT !.secret = 0, !.totp = FALSE]]
    BY <1>1 DEF Sign!TotpDisable
  <2>2. c = [x1[i] EXCEPT !.secret = 0, !.totp = FALSE]
    BY <1>2, <1>3
  <2> QED
    BY <2>1, <2>2
<1> QED
  BY <1>1, <1>2, <1>4, <1>5, SecretMoves

(* Every step of a request, of a session and of who is signed in.            *)
LEMMA AccountsSteps == Sign!AccountsInv /\ [Sign!Next]_(Sign!vars) => Sign!AccountsInv'
<1> SUFFICES ASSUME Sign!AccountsInv, [Sign!Next]_(Sign!vars) PROVE Sign!AccountsInv'
  OBVIOUS
<1>1. CASE UNCHANGED Sign!vars
  <2>1. Sign!Rows' = Sign!Rows /\ Sign!Owners' = Sign!Owners
    BY <1>1 DEF Sign!vars, Sign!Rows, Sign!Owners, Sign!Ids
  <2>2. Sign!Shape' /\ Sign!IdsAreSpent'
    BY <1>1, <2>1
       DEF Sign!vars, Sign!AccountsInv, Sign!Shape, Sign!IdsAreSpent, Sign!Ids, Sign!Tokens
  <2>3. Sign!AnotherOwns' /\ Sign!OwnersRemain'
    BY <1>1, <2>1
       DEF Sign!vars, Sign!AccountsInv, Sign!AnotherOwns, Sign!Demotes, Sign!At, Sign!OwnersRemain
  <2>4. Sign!KnowsPassword' /\ Sign!KnowsSecret'
    BY <1>1, <2>1 DEF Sign!vars, Sign!AccountsInv, Sign!KnowsPassword, Sign!ShowsPassword,
                      Sign!KnowsSecret, Sign!At
  <2>5. Sign!SessionsFresh' /\ Sign!TotpShown'
    BY <1>1, <2>1
       DEF Sign!vars, Sign!AccountsInv, Sign!SessionsFresh, Sign!TotpShown, Sign!At, Sign!Tokens
  <2> QED
    BY <2>2, <2>3, <2>4, <2>5 DEF Sign!AccountsInv
<1>2. ASSUME NEW r \in Requests,
             \/ Sign!SetupInsert(r) \/ Sign!SecondFactor(r) \/ Sign!CreateSession(r)
             \/ Sign!WritePassword(r) \/ Sign!DropSessions(r) \/ Sign!WriteRole(r)
             \/ Sign!DeleteRow(r) \/ Sign!TotpEnable(r)
      PROVE  Sign!AccountsInv'
  BY <1>2, SetupInserts, SecondFactorStep, SessionCreated, PasswordWritten, SessionsDropped,
     RoleWritten, AccountDeleted, SecretShown
<1>3. ASSUME NEW r \in Requests, Sign!Begins(r)
      PROVE  Sign!AccountsInv'
  <2>1. CASE \E n \in UserNames : Sign!Setup(r, n)
    BY <2>1, SetupBegins
  <2>2. CASE \E i \in Sign!Rows : Sign!Login(r, i)
    BY <2>2, LoginBegins
  <2>3. ASSUME NEW by \in Sign!SignedIn, Sign!ChangePassword(r, by) \/ Sign!TotpVerify(r, by)
        PROVE  Sign!AccountsInv'
    BY <2>3, PasswordBegins, VerifyBegins
  <2>4. ASSUME NEW by \in Sign!SignedIn, NEW i \in Sign!Rows,
               Sign!ResetPassword(r, by, i) \/ Sign!DeleteUser(r, by, i)
        PROVE  Sign!AccountsInv'
    BY <2>4, PasswordBegins, DeleteBegins
  <2>5. ASSUME NEW by \in Sign!SignedIn, NEW i \in Sign!Rows, NEW role \in Sign!Roles,
               Sign!UpdateRole(r, by, i, role)
        PROVE  Sign!AccountsInv'
    BY <2>5, RoleBegins
  <2> QED
    BY <1>3, <2>1, <2>2, <2>3, <2>4, <2>5 DEF Sign!Begins
<1>4. ASSUME NEW by \in Sign!SignedIn,
             \/ Sign!TotpSetup(by) \/ Sign!TotpDisable(by)
             \/ \E n \in UserNames, role \in Sign!Roles : Sign!CreateUser(by, n, role)
      PROVE  Sign!AccountsInv'
  BY <1>4, SecretSetUp, SecretRemoved, UserCreated
<1>5. CASE Sign!Next
  BY <1>2, <1>3, <1>4, <1>5, SessionEnded DEF Sign!Next
<1> QED
  BY <1>1, <1>5

LEMMA AccountsAreSound == Sign!AccountsInv => Sign!AccountsSound
BY DEF Sign!AccountsInv, Sign!AccountsSound
=============================================================================
