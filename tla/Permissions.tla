----------------------------- MODULE Permissions -----------------------------
(***************************************************************************)
(* The gate before every route (auth_middleware in lib.rs) with the routes  *)
(* of api/mod.rs and the permissions of each role (auth.rs).  A route is    *)
(* the sequence of its segments, "x" for each parameter.                    *)
(***************************************************************************)
EXTENDS Sequences, SequencesExt

VARIABLES
    asked,      \* the request: [path, read, token, role, csrf, setup]
    verdict     \* what becomes of it

vars == <<asked, verdict>>

-----------------------------------------------------------------------------
Below(path, ends) == {Append(path, e) : e \in ends}
Instance == <<"instances", "x">>
(* The routes that are answered before any check. *)
Public == {<<"health">>, <<"setup">>, <<"auth", "login">>, <<"agent", "ws">>}

(* GET *)
Reads ==
    {<<"auth", "me">>, <<"auth", "2fa", "status">>, <<"fleet", "summary">>, <<"events", "ws">>,
     <<"cores", "x", "versions">>, <<"cores", "x", "versions", "x", "loaders">>,
     <<"docker", "status">>, <<"docker", "images">>, <<"ext", "x">>, <<"ext", "x", "x">>, Instance,
     Instance \o <<"files", "content">>, Instance \o <<"files", "download">>,
     Instance \o <<"players", "history">>, Instance \o <<"players", "x", "detail">>,
     Instance \o <<"rcon", "status">>, Instance \o <<"worlds", "x", "download">>,
     Instance \o <<"backups", "x", "preview">>, Instance \o <<"logs", "ws">>}
    \cup Below(<<>>, {"settings", "audit", "instances", "schedules", "network", "netops", "events",
                      "automations", "users", "java", "nodes", "extensions", "health"})
    \cup Below(Instance, {"logs", "metrics", "files", "backups", "properties", "plugins", "players",
                          "worlds", "preflight", "version-compare", "spec"})
    \cup UNION {{<<c, "search">>, <<c, "x", "x", "versions">>} : c \in {"modrinth", "hangar", "spiget"}}

PlayerActions == {"kick", "ban", "pardon", "op", "deop", "whitelist", "unwhitelist", "gamemode"}

(* POST, PUT and DELETE *)
Changes ==
    {<<"setup">>, <<"auth", "login">>}
    \cup {<<"ext", "x">>, <<"ext", "x", "x">>, <<"qqbot", "test">>, <<"docker", "images", "pull">>,
          <<"fleet", "bulk">>, <<"extensions", "reload">>, Instance}
    \cup Below(<<"auth">>, {"logout", "password"}) \cup Below(<<"auth", "2fa">>, {"setup", "verify", "disable"})
    \cup Below(<<>>, {"settings", "instances", "schedules", "netops", "automations", "users", "nodes"})
    \cup {<<c, "x">> : c \in {"schedules", "netops", "automations", "users", "java", "nodes", "extensions"}}
    \cup Below(<<"netops">>, {"kick", "resync"}) \cup Below(<<"java">>, {"install", "ensure"})
    \cup Below(Instance, {"start", "stop", "restart", "command", "eula", "install-jar", "import-archive",
                          "startup-jar", "backups", "properties", "install", "clone", "version-rescan", "spec"})
    \cup Below(Instance \o <<"files">>, {"content", "upload", "mkdir"})
    \cup Below(Instance \o <<"plugins", "x">>, {"enable", "disable"})
    \cup {Instance \o <<c, "install">> : c \in {"modrinth", "hangar", "spiget"}}
    \cup {Instance \o <<"backups", "x">>, Instance \o <<"backups", "x", "restore">>}
    \cup Below(Instance \o <<"players", "x">>, PlayerActions \cup {"rcon"})
    \cup Below(Instance \o <<"rcon">>, {"exec", "setup"})
    \cup Below(Instance \o <<"worlds", "x">>, {"reset", "export", "import", "upload"})

-----------------------------------------------------------------------------
Starts(path, tops) == Head(path) \in tops
Has(path, segments) == Range(path) \cap segments # {}
IfRead(read, r, w) == IF read THEN r ELSE w

PlayerPerms ==
    [kick |-> "players.kick", ban |-> "players.ban", pardon |-> "players.pardon",
     op |-> "players.op", deop |-> "players.deop", detail |-> "players.detail", rcon |-> "rcon"]

PlayerPerm(read, last) ==
    CASE last \in DOMAIN PlayerPerms -> PlayerPerms[last]
      [] last \in {"whitelist", "unwhitelist"} -> "players.whitelist"
      [] OTHER -> IfRead(read, "view", "players")

(* The first that fits counts, as in required_perm. *)
InstancePerm(read, path) ==
    LET last == Last(path) IN
    IF last = "start" THEN "start"
    ELSE IF last \in {"stop", "restart"} THEN "stop"
    ELSE IF Has(path, {"files"}) THEN IfRead(read, "files.read", "files.write")
    ELSE IF Has(path, {"plugins", "modrinth", "hangar", "spiget", "install", "install-jar",
                       "startup-jar", "import-archive"}) THEN IfRead(read, "view", "plugins")
    ELSE IF Has(path, {"players"}) THEN PlayerPerm(read, last)
    ELSE IF Has(path, {"rcon"}) THEN IF last = "setup" THEN "rcon.setup" ELSE "rcon"
    ELSE IF Has(path, {"backups", "worlds"}) THEN IfRead(read, "view", "backups")
    ELSE IF Has(path, {"command", "logs"}) THEN IfRead(read, "view", "console")
    ELSE IfRead(read, "view", "settings")

RequiredPerm(read, path) ==
    CASE Starts(path, {"users"}) -> "users"
      [] Starts(path, {"nodes"}) -> IfRead(read, "nodes", "nodes.manage")
      [] Starts(path, {"netops", "network"}) -> IfRead(read, "netops.view", "netops.write")
      [] Starts(path, {"auth"}) /\ Has(path, {"2fa"}) -> IfRead(read, "view", "2fa.manage")
      [] Starts(path, {"automations", "schedules"}) -> IfRead(read, "view", "automations")
      [] Starts(path, {"fleet"}) -> IfRead(read, "view", "stop")
      [] Starts(path, {"cores"}) -> IfRead(read, "view", "plugins.install")
      [] Starts(path, {"instances"}) -> InstancePerm(read, path)
      [] OTHER -> IfRead(read, "view", "settings")

-----------------------------------------------------------------------------
Support == {"view", "start", "stop", "console", "logs", "players", "players.detail", "players.kick",
            "players.ban", "players.pardon", "players.whitelist", "rcon", "backups", "netops.view"}
Developer == {"view", "console", "logs", "files", "files.read", "files.write", "plugins",
              "plugins.install", "start", "stop", "rcon"}
Players == {"op", "deop", "gamemode", "teleport", "give", "effect", "kill", "clear"}
Admin ==
    Support \cup Developer \cup {"settings"}
    \cup {"players." \o a : a \in Players} \cup {"rcon.setup", "automations", "netops.write", "nodes"}

Permitted_AdminLacks(role) ==  \* seeded fault: an admin lacks what a support has
    CASE role = "support" -> Support
      [] role = "developer" -> Developer
      [] role = "admin" -> Admin \ {"players.pardon"}
      [] role = "superadmin" -> Admin \cup {"nodes.manage", "users", "2fa.manage"}
      [] OTHER -> {"view"}

Permitted(role) ==
    CASE role = "support" -> Support
      [] role = "developer" -> Developer
      [] role = "admin" -> Admin
      [] role = "superadmin" -> Admin \cup {"nodes.manage", "users", "2fa.manage"}
      [] OTHER -> {"view"}

Can(role, perm) == role = "superadmin" \/ perm = "view" \/ perm \in Permitted(role)

Roles == {"observer", "support", "developer", "admin", "superadmin"}

-----------------------------------------------------------------------------
TypeOK == verdict \in {"asked", "runs", "set up first", "sign in", "csrf", "forbidden"}

(* A session has the role of its account, a machine that of the first one. *)
Init ==
    /\ verdict = "asked"
    /\ \E read \in BOOLEAN, token \in {"none", "session", "gone", "machine"}, role \in Roles,
          csrf \in BOOLEAN, setup \in BOOLEAN :
       \E path \in (IF read THEN Reads ELSE Changes) :
          asked = [path |-> path, read |-> read, token |-> token, role |-> role, csrf |-> csrf,
                   setup |-> setup]

Judged(a) ==
    IF a.path \in Public THEN "runs"
    ELSE IF ~a.setup THEN "set up first"
    ELSE IF a.token \in {"none", "gone"} THEN "sign in"
    ELSE IF ~a.read /\ a.token = "session" /\ ~a.csrf THEN "csrf"
    ELSE IF Can(a.role, RequiredPerm(a.read, a.path)) THEN "runs" ELSE "forbidden"

AuthMiddleware ==
    /\ verdict = "asked"
    /\ verdict' = Judged(asked)
    /\ UNCHANGED asked

Next == AuthMiddleware
Spec == Init /\ [][Next]_vars

-----------------------------------------------------------------------------
Above == {<<"observer", "support">>, <<"observer", "developer">>, <<"support", "admin">>,
          <<"developer", "admin">>, <<"admin", "superadmin">>}

(* An observer changes nothing; what a role may do, those above it may; and *)
(* who may change a thing may look at it (lib.rs:605, auth.rs:145).        *)
RolesNest ==
    verdict = "runs" /\ asked.path \notin Public =>
        /\ asked.read \/ asked.role # "observer"
        /\ \A pair \in Above :
              pair[1] = asked.role => Judged([asked EXCEPT !.role = pair[2]]) = "runs"
        /\ ~asked.read /\ asked.path \in Reads => Judged([asked EXCEPT !.read = TRUE]) = "runs"

(* Inductive: a request is let through by what is judged of it. *)
GateInv ==
    /\ asked = [path |-> asked.path, read |-> asked.read, token |-> asked.token,
                role |-> asked.role, csrf |-> asked.csrf, setup |-> asked.setup]
    /\ asked.read \in BOOLEAN
    /\ verdict = "runs" => Judged(asked) = "runs"
=============================================================================
