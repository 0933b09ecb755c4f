----------------------------- MODULE CoreInstall -----------------------------
(***************************************************************************)
(* Installing a core (versions.rs): which build of a project is shown and   *)
(* chosen for a version of Minecraft, and what the directory of a server    *)
(* holds afterwards.  A build is its place in the history of the project;   *)
(* each project lists its builds in an order of its own.                    *)
(***************************************************************************)
EXTENDS Naturals, FiniteSets, SequencesExt

CONSTANTS
    Cores,       \* of "paper", "fabric", "leaves", "mohist", "arclight", "forge", "neoforge",
                 \* "vanilla"
    Games,       \* versions of Minecraft
    Builds,      \* number of builds a project has
    MaxInstalls, \* bound: installs
    MaxTroubles  \* bound: failures

VARIABLES
    core,
    feed,       \* by build: its game and whether it is stable
    task,       \* install_core
    jar,        \* build in server.jar, 0 if none
    args,       \* builds whose unix_args.txt lies under libraries/
    runaway,    \* builds whose installer timed out and still runs
    started,    \* the startup command: build it names
    used, troubles

vars == <<core, feed, task, jar, args, runaway, started, used, troubles>>

WithInstaller == {"forge", "neoforge"}
Idle == [pc |-> "idle", game |-> 0, build |-> 0]
Nothing == [game |-> 0, build |-> 0, names |-> 0, lying |-> {}]

TypeOK ==
    /\ core \in Cores /\ jar \in 0..Builds /\ args \subseteq 1..Builds
    /\ runaway \subseteq 1..Builds /\ started.names \in 0..Builds

Init ==
    /\ core \in Cores
    /\ feed \in [1..Builds -> [game : Games, stable : BOOLEAN]]
    /\ task = Idle /\ jar = 0 /\ args = {} /\ runaway = {} /\ started = Nothing
    /\ used = 0 /\ troubles = 0

-----------------------------------------------------------------------------
OldestFirst == [n \in 1..Builds |-> n]
NewestFirst == Reverse(OldestFirst)
Of(game, rows) == SelectSeq(rows, LAMBDA n : feed[n].game = game)
Stable(rows) == SelectSeq(rows, LAMBDA n : feed[n].stable)
HeadOr(rows, other) == IF rows = << >> THEN other ELSE Head(rows)
LastOr(rows, other) == IF rows = << >> THEN other ELSE Last(rows)

(* list_*_versions: a project lists its games; NeoForge lists builds, of which *)
(* the unstable ones are left out.                                          *)
Listed(game) ==
    IF core = "neoforge" THEN Stable(Of(game, OldestFirst)) # << >>
    ELSE Of(game, OldestFirst) # << >>

(* list_*_loaders: the stable ones, the newest first, which is marked latest. *)
FabricLoaders(game) == Stable(Of(game, NewestFirst))
ForgeLoaders(game) == Reverse(Stable(Of(game, OldestFirst)))
NeoForgeLoaders(game) == Reverse(Stable(Of(game, OldestFirst)))

(* The build that is taken when none is asked for; 0 is an error.            *)
FillBuild(game) == HeadOr(Stable(Of(game, NewestFirst)), HeadOr(Of(game, NewestFirst), 0))
LatestFabric(game) == HeadOr(Stable(Of(game, NewestFirst)), HeadOr(Of(game, NewestFirst), 0))
LeavesBuild(game) == LastOr(Stable(Of(game, OldestFirst)), LastOr(Of(game, OldestFirst), 0))
MohistBuild(game) ==
    LET rows == {n \in 1..Builds : feed[n].game = game}
    IN IF rows = {} THEN 0 ELSE CHOOSE n \in rows : \A k \in rows : k <= n
\* the promotions of a game: the recommended build, else the latest
ForgeBuild(game) == LastOr(Stable(Of(game, OldestFirst)), LastOr(Of(game, OldestFirst), 0))
\* the listing of a game points to its latest stable files, else to a snapshot
ArclightBuild(game) == HeadOr(Stable(Of(game, NewestFirst)), HeadOr(Of(game, NewestFirst), 0))
VanillaBuild(game) == HeadOr(Of(game, OldestFirst), 0)
NeoForgeBuild_Oldest(game) ==  \* seeded fault: the history is not read from its end
    HeadOr(Stable(Of(game, OldestFirst)), 0)

NeoForgeBuild(game) == HeadOr(Stable(Of(game, NewestFirst)), 0)

Chosen(game) ==
    CASE core = "paper" -> FillBuild(game) [] core = "fabric" -> LatestFabric(game)
      [] core = "leaves" -> LeavesBuild(game) [] core = "mohist" -> MohistBuild(game)
      [] core = "forge" -> ForgeBuild(game) [] core = "neoforge" -> NeoForgeBuild(game)
      [] core = "arclight" -> ArclightBuild(game) [] core = "vanilla" -> VanillaBuild(game)

-----------------------------------------------------------------------------
Trouble == troubles < MaxTroubles /\ troubles' = troubles + 1

(* download_and_install resolves the address; install_core saw no server up.  *)
Begin(game) ==
    /\ task.pc = "idle" /\ used < MaxInstalls /\ used' = used + 1
    /\ task' = IF Chosen(game) = 0 THEN Idle
               ELSE [pc |-> IF core \in WithInstaller THEN "installer" ELSE "jar",
                     game |-> game, build |-> Chosen(game)]
    /\ UNCHANGED <<core, feed, jar, args, runaway, started, troubles>>

(* install_forge with a loader the operator chose from the list.            *)
BeginWith(game, build) ==
    /\ task.pc = "idle" /\ used < MaxInstalls /\ used' = used + 1
    /\ core \in WithInstaller /\ feed[build].game = game /\ feed[build].stable
    /\ task' = [pc |-> "installer", game |-> game, build |-> build]
    /\ UNCHANGED <<core, feed, jar, args, runaway, started, troubles>>

Fail ==
    /\ task.pc \in {"jar", "installer"} /\ Trouble
    /\ task' = Idle
    /\ UNCHANGED <<core, feed, jar, args, runaway, started, used>>

(* write_server_jar: the file is written when the download is complete.      *)
WriteServerJar ==
    /\ task.pc = "jar"
    /\ jar' = task.build
    /\ started' = [game |-> task.game, build |-> task.build, names |-> task.build, lying |-> {}]
    /\ task' = Idle
    /\ UNCHANGED <<core, feed, args, runaway, used, troubles>>

(* run_java_installer: an installer that takes more than 480 s is given up,   *)
(* and goes on.                                                             *)
RunInstaller ==
    /\ task.pc = "installer"
    /\ args' = args \cup {task.build} /\ task' = [task EXCEPT !.pc = "detect"]
    /\ UNCHANGED <<core, feed, jar, runaway, started, used, troubles>>

InstallerTimesOut ==
    /\ task.pc = "installer" /\ Trouble
    /\ runaway' = runaway \cup {task.build} /\ task' = Idle
    /\ UNCHANGED <<core, feed, jar, args, started, used>>

RunawayEnds(build) ==
    /\ build \in runaway
    /\ runaway' = runaway \ {build} /\ args' = args \cup {build}
    /\ UNCHANGED <<core, feed, task, jar, started, used, troubles>>

(* detect_modloader_startup: of the argument files that lie about, one with   *)
(* the shortest path; the versions in the paths may all be equally long.    *)
Detect ==
    /\ task.pc = "detect"
    /\ \E found \in args :
          started' = [game |-> task.game, build |-> task.build, names |-> found,
                      lying |-> args \ {task.build}]
    /\ task' = Idle
    /\ UNCHANGED <<core, feed, jar, args, runaway, used, troubles>>

Next ==
    \/ \E game \in Games : Begin(game) \/ \E build \in 1..Builds : BeginWith(game, build)
    \/ Fail \/ WriteServerJar \/ RunInstaller \/ InstallerTimesOut \/ Detect
    \/ \E build \in 1..Builds : RunawayEnds(build)

Spec == Init /\ [][Next]_vars

-----------------------------------------------------------------------------
Newest(rows) == IF rows = {} THEN 0 ELSE CHOOSE n \in rows : \A k \in rows : k <= n

(* However a project orders its builds: what is chosen is for the game, the   *)
(* newest stable one when there is one (of Mohist the newest at all, of      *)
(* vanilla the only one), and what the list of loaders marks as latest;     *)
(* and every game that is listed can be installed (versions.rs:93).         *)
ChoiceIsBest ==
    \A game \in Games :
       LET rows == {n \in 1..Builds : feed[n].game = game}
           stable == {n \in rows : feed[n].stable}
       IN /\ core \in {"paper", "fabric", "leaves", "arclight", "forge", "neoforge"} /\ stable # {} =>
                Chosen(game) = Newest(stable)
          /\ core = "mohist" => Chosen(game) = Newest(rows)
          /\ Listed(game) => Chosen(game) \in rows
          /\ core = "fabric" /\ FabricLoaders(game) # << >> =>
                Head(FabricLoaders(game)) = Chosen(game)
          /\ core = "neoforge" /\ NeoForgeLoaders(game) # << >> =>
                Head(NeoForgeLoaders(game)) = Chosen(game)
          /\ core = "forge" => \A k \in DOMAIN ForgeLoaders(game) : ForgeLoaders(game)[k] \in rows

(* After an install the server starts what was installed, unless argument     *)
(* files of another build lie in its directory (versions.rs:867).           *)
StartsWhatWasInstalled ==
    started.build # 0 =>
        /\ feed[started.build].game = started.game
        /\ started.names = started.build \/ started.names \in started.lying

CoreSound == ChoiceIsBest /\ StartsWhatWasInstalled
=============================================================================
