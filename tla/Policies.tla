------------------------------ MODULE Policies -------------------------------
(***************************************************************************)
(* The policy library (rbac.rs): roles that inherit from one another,        *)
(* groups, and grants that end.  The rest of control asks permission of     *)
(* another table (module Permissions).  Every role gives one permission,    *)
(* which has its name.                                                      *)
(***************************************************************************)
EXTENDS Integers, FiniteSets

CONSTANTS
    RoleIds, Users, Scopes,
    Builtin,    \* roles that stay
    Hops,       \* roles after the first that a walk looks at
    MaxTime, MaxOps     \* bounds

VARIABLES
    now,
    roles,      \* the role each role inherits from, of the roles there are
    groups,     \* set of [members, roles]
    grants,     \* set of [user, role, scope, until]
    ops         \* made so far

vars == <<now, roles, groups, grants, ops>>

None == "none"
Any == "*"
Never == MaxTime + 1
Role == RoleIds \cup {None}
Grant == [user : Users, role : RoleIds, scope : Scopes \cup {Any}, until : 1..Never]
Group == [members : SUBSET Users, roles : SUBSET RoleIds]

-----------------------------------------------------------------------------
(* The permissions along the chain of a role, which may lead round.          *)
EffectivePermissions(rs, id) ==
    LET at[n \in 0..Hops] ==
            IF n = 0 THEN id
            ELSE IF at[n - 1] \in DOMAIN rs THEN rs[at[n - 1]] ELSE None
    IN {at[n] : n \in 0..Hops} \cap DOMAIN rs

IsExpired_Late(g, t) == g.until < t  \* seeded fault: a grant counts in the second in which it ends
IsExpired(g, t) == g.until <= t
Matches(g, scope) == g.scope \in {Any, scope}

EffectiveFor(rs, gs, user, base, scope) ==
    EffectivePermissions(rs, base)
    \cup UNION {EffectivePermissions(rs, r) : r \in UNION {g.roles : g \in {h \in groups : user \in h.members}}}
    \cup UNION {EffectivePermissions(rs, g.role) :
                  g \in {h \in gs : h.user = user /\ ~IsExpired(h, now) /\ Matches(h, scope)}}

Can == [u \in Users |-> [s \in Scopes |-> EffectiveFor(roles, grants, u, None, s)]]

Init ==
    /\ now = 0
    /\ \E rs \in SUBSET RoleIds : roles \in [rs -> Role]
    /\ groups \in {{[members |-> {u}, roles |-> {r}]} : u \in Users, r \in RoleIds \ Builtin}
    /\ \E g \in Grant : grants \in {{}, {g}}
    /\ ops = 0

-----------------------------------------------------------------------------
Operate == ops < MaxOps /\ ops' = ops + 1

AddRole(id, role) ==
    /\ Operate /\ roles' = [r \in DOMAIN roles \cup {id} |-> IF r = id THEN role ELSE roles[r]]
    /\ UNCHANGED <<now, groups, grants>>

Without(id) == [r \in DOMAIN roles \ {id} |-> roles[r]]
RemoveRole(id) ==
    /\ Operate /\ id \in DOMAIN roles /\ id \notin Builtin
    /\ roles' = Without(id)
    /\ UNCHANGED <<now, groups, grants>>

AddGrant(g) ==
    /\ Operate /\ grants' = grants \cup {g} /\ UNCHANGED <<now, roles, groups>>

RevokeGrant(g) ==
    /\ Operate /\ grants' = grants \ {g} /\ UNCHANGED <<now, roles, groups>>

Unexpired == {g \in grants : ~IsExpired(g, now)}
PurgeExpired ==
    /\ Operate /\ grants' = Unexpired /\ UNCHANGED <<now, roles, groups>>

Tick == now < MaxTime /\ now' = now + 1 /\ UNCHANGED <<roles, groups, grants, ops>>

Next ==
    \/ Tick
    \/ ops < MaxOps /\ \E id \in RoleIds : RemoveRole(id) \/ \E role \in Role : AddRole(id, role)
    \/ ops < MaxOps /\ \E g \in Grant : AddGrant(g)
    \/ \E g \in grants : RevokeGrant(g)
    \/ PurgeExpired

Spec == Init /\ [][Next]_vars

TypeOK ==
    /\ DOMAIN roles \subseteq RoleIds /\ \A r \in DOMAIN roles : roles[r] \in Role
    /\ groups \subseteq Group /\ grants \subseteq Grant

-----------------------------------------------------------------------------
(* A role gives what the roles it inherits from give, also round a circle.   *)
Closed(s) == \A r \in s \cap DOMAIN roles : roles[r] \in s \cup {None}
Heirs(id) == CHOOSE s \in SUBSET RoleIds :
    id \in s /\ Closed(s) /\ \A t \in SUBSET RoleIds : (id \in t /\ Closed(t)) => s \subseteq t
ChainIsFollowed ==
    \A id \in DOMAIN roles : EffectivePermissions(roles, id) = Heirs(id) \cap DOMAIN roles

(* A grant gives something only before it ends, and where it was given.      *)
GrantsEnd ==
    \A u \in Users, s \in Scopes :
        (\A g \in grants : g.user = u /\ g.scope \in {Any, s} => g.until <= now)
            => Can[u][s] = EffectiveFor(roles, {}, u, None, s)

(* The removal of a role gives nobody more, and what has ended can be        *)
(* dropped unseen.                                                           *)
RemovalAddsNothing ==
    \A u \in Users, s \in Scopes :
        /\ \A id \in DOMAIN roles \ Builtin :
            EffectiveFor(Without(id), grants, u, None, s) \subseteq Can[u][s]
        /\ EffectiveFor(roles, Unexpired, u, None, s) = Can[u][s]

PoliciesSound == ChainIsFollowed /\ GrantsEnd /\ RemovalAddsNothing
=============================================================================
