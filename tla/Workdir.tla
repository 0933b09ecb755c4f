------------------------------- MODULE Workdir -------------------------------
(***************************************************************************)
(* The directory of an instance and its backups (registry.rs, archive.rs,   *)
(* worlds.rs of control; files.rs, archive.rs of init).  What must not be   *)
(* done to a running server reads the status once and then works file by    *)
(* file, with no lock on the directory; any step may fail and leaves what   *)
(* the steps before it did.                                                 *)
(***************************************************************************)
EXTENDS Naturals, FiniteSets, FiniteSetsExt

CONSTANTS
    Requests,
    Versions,       \* what an upload may contain; version v of every file
    Keep,           \* spec.backup_keep
    MaxTime,        \* bound: seconds, by which backups are named
    MaxRequests     \* bound: requests

VARIABLES
    now,
    up,         \* the status is Running, Starting or Stopping
    dir,        \* the files of each directory: 0, or the version of each
    command,    \* the jar the startup command was made for
    leftover,   \* the directory .import-<world>, which a failed import leaves
    tmpZip,     \* data/tmp/import-<world>.zip, one for all instances
    backups,    \* data/backups/<id>, by name
    births,     \* what has been created there, in order
    req, used

vars == <<now, up, dir, command, leftover, tmpZip, backups, births, req, used>>

World == {"level", "region"}
Files == World \cup {"jar", "runtime"}
Empty == [f \in Files |-> 0]
(* skip_backup_rel: the runtime stays out of a backup. *)
Backed == Files \ {"runtime"}
Of(v, fs) == [f \in Files |-> IF f \in fs THEN v ELSE 0]
Without(fs) == [f \in Files |-> IF f \in fs THEN 0 ELSE dir[f]]
Over(d, e, fs) == [f \in Files |-> IF f \in fs /\ e[f] # 0 THEN e[f] ELSE d[f]]

Names == {"", "world-"} \X (0..MaxTime)       \* a backup, a download of a world
NoBackup == [files |-> Empty, whole |-> FALSE, born |-> 0]
Idle == [at |-> "idle", kind |-> "none", want |-> Empty, todo |-> {}, name |-> <<"", 0>>, version |-> 0, clean |-> TRUE]

TypeOK ==
    /\ \A f \in Files : dir[f] \in Nat /\ leftover[f] \in Nat
    /\ command \in Nat
    /\ \A r \in Requests : req[r].todo \subseteq Files

Init ==
    /\ now = 1 /\ used = 0 /\ births = 1 /\ tmpZip = 0
    /\ up = FALSE
    /\ dir = Of(1, Files)
    /\ command = 1
    /\ leftover = Empty
    /\ backups = [n \in Names |->
          IF n = <<"", 0>> THEN [files |-> Of(1, Backed), whole |-> TRUE, born |-> 1] ELSE NoBackup]
    /\ req = [r \in Requests |-> Idle]

At(r, at) == req[r].at = at
Listed == {n \in Names : backups[n].born # 0}
(* r goes on; when it wrote what others work on too, they are crossed.      *)
Go(r, step) == req' = [req EXCEPT ![r] = step]
Touch(r, step) ==
    req' = [q \in Requests |-> IF q = r THEN step ELSE [req[q] EXCEPT !.clean = FALSE]]
TouchAll == req' = [q \in Requests |-> [req[q] EXCEPT !.clean = FALSE]]
(* An error ends the request; the property speaks of those that succeed.   *)
Fail(r) == Go(r, Idle) /\ UNCHANGED <<now, up, dir, command, leftover, tmpZip, backups, births, used>>
Begin(r, step) ==
    /\ At(r, "idle") /\ used < MaxRequests /\ used' = used + 1
    /\ req' = [req EXCEPT ![r] = [step EXCEPT !.clean = \A q \in Requests : At(q, "idle")]]
    /\ UNCHANGED <<now, up, dir, command, leftover, tmpZip, backups, births>>

-----------------------------------------------------------------------------
(* restore_backup of control and of init: the directory is emptied, the     *)
(* runtime with it, then the backup is unpacked file by file.               *)
RestoreBackup(r, n) ==
    /\ ~up /\ n \in Listed
    /\ Begin(r, [Idle EXCEPT !.at = "clear", !.kind = "restore", !.name = n])

RestoreClear(r) ==
    LET b == backups[req[r].name] IN
    /\ At(r, "clear") /\ b.born # 0
    /\ dir' = Empty
    /\ LET todo == {f \in Backed : b.files[f] # 0} IN
       Touch(r, [req[r] EXCEPT !.at = IF todo = {} THEN "done" ELSE "unzip", !.todo = todo,
                               !.want = b.files, !.clean = @ /\ b.whole])
    /\ UNCHANGED <<now, up, command, leftover, tmpZip, backups, births, used>>

(* unzip_to_inner: an archive cut short is an error after some files.      *)
UnzipFile(r, f) ==
    /\ At(r, "unzip") /\ f \in req[r].todo
    /\ dir' = [dir EXCEPT ![f] = req[r].want[f]]
    /\ Touch(r, [req[r] EXCEPT !.at = IF @ = "unzip" /\ req[r].todo = {f} THEN "done" ELSE @,
                                  !.todo = @ \ {f}])
    /\ UNCHANGED <<now, up, command, leftover, tmpZip, backups, births, used>>

-----------------------------------------------------------------------------
(* create_backup and world_download: a zip by the name of the second is      *)
(* opened, filled file by file and finished; it is listed from the start.   *)
PackBegin(r, kind) ==
    Begin(r, [Idle EXCEPT !.at = "open", !.kind = "backup", !.name = <<kind, now>>])

PackOpen(r) ==
    LET n == req[r].name IN
    /\ At(r, "open")
    /\ births' = births + 1
    /\ backups' = [backups EXCEPT ![n] =
          [files |-> Empty, whole |-> FALSE, born |-> IF n \in Listed THEN @.born ELSE births + 1]]
    /\ Touch(r, [req[r] EXCEPT !.at = "pack", !.want = dir,
                                  !.todo = IF n[1] = "" THEN Backed ELSE World])
    /\ UNCHANGED <<now, up, dir, command, leftover, tmpZip, used>>

(* add_dir_to_zip *)
PackFile(r, f) ==
    LET n == req[r].name IN
    /\ At(r, "pack") /\ f \in req[r].todo
    /\ backups' = [backups EXCEPT ![n].files[f] = dir[f],
                                  ![n].whole = req[r].todo = {f} /\ req[r].clean]
    /\ Go(r, [req[r] EXCEPT !.todo = @ \ {f},
                                  !.at = IF req[r].todo # {f} THEN @ ELSE IF n[1] = "" THEN "prune" ELSE "done"])
    /\ UNCHANGED <<now, up, dir, command, leftover, tmpZip, births, used>>

(* prune_backups: all but the newest Keep go, whoever is writing them.     *)
Oldest == CHOOSE n \in Listed : \A m \in Listed : backups[n].born <= backups[m].born
Newest == CHOOSE n \in Listed : \A m \in Listed : backups[n].born >= backups[m].born
PruneBackup_Newest(r) ==         \* seeded fault: sorted the other way
    /\ At(r, "prune") /\ Cardinality(Listed) > Keep
    /\ backups' = [backups EXCEPT ![Newest] = NoBackup]
    /\ Go(r, [req[r] EXCEPT !.at = "prune"])
    /\ UNCHANGED <<now, up, dir, command, leftover, tmpZip, births, used>>

PruneBackup(r) ==
    /\ At(r, "prune") /\ Cardinality(Listed) > Keep
    /\ backups' = [backups EXCEPT ![Oldest] = NoBackup]
    /\ Go(r, [req[r] EXCEPT !.at = "prune"])
    /\ UNCHANGED <<now, up, dir, command, leftover, tmpZip, births, used>>
PruneEnds(r) ==
    /\ At(r, "prune") /\ Cardinality(Listed) <= Keep /\ Go(r, [req[r] EXCEPT !.at = "done"])
    /\ UNCHANGED <<now, up, dir, command, leftover, tmpZip, backups, births, used>>

DeleteBackup(r, n) ==
    /\ n \in Listed /\ At(r, "idle") /\ used < MaxRequests /\ used' = used + 1
    /\ backups' = [backups EXCEPT ![n] = NoBackup]
    /\ TouchAll
    /\ UNCHANGED <<now, up, dir, command, leftover, tmpZip, births>>

-----------------------------------------------------------------------------
(* import_world: the old world goes first; the upload lies in a file named   *)
(* by the world alone and is unpacked into a directory that an import that   *)
(* failed has left as it was.                                                *)
WorldOf(v) == IF v % 2 = 1 THEN World ELSE {"level"}
ImportWorld(r, v) ==
    /\ ~up
    /\ Begin(r, [Idle EXCEPT !.at = "zip", !.version = v, !.want = Of(v, WorldOf(v))])

ImportClear(r) ==
    /\ At(r, "zip")
    /\ dir' = Without(World)
    /\ tmpZip' = req[r].version
    /\ Touch(r, [req[r] EXCEPT !.at = "extract", !.clean = @ /\ leftover = Empty])
    /\ UNCHANGED <<now, up, command, leftover, backups, births, used>>

ImportExtract(r) ==
    /\ At(r, "extract") /\ tmpZip # 0
    /\ leftover' = Over(leftover, Of(tmpZip, WorldOf(tmpZip)), World)
    /\ Go(r, [req[r] EXCEPT !.at = "swap"])
    /\ UNCHANGED <<now, up, dir, command, tmpZip, backups, births, used>>

(* The rename fails when the server has made a world there meanwhile.      *)
ImportSwap(r) ==
    /\ At(r, "swap") /\ \A f \in World : dir[f] = 0
    /\ dir' = Over(dir, leftover, World)
    /\ leftover' = Empty
    /\ tmpZip' = 0
    /\ Touch(r, [req[r] EXCEPT !.at = "done"])
    /\ UNCHANGED <<now, up, command, backups, births, used>>

(* The same for another instance, whose world has the same name.           *)
ImportElsewhere(v) ==
    /\ used < MaxRequests /\ used' = used + 1
    /\ tmpZip' = v
    /\ req' = [q \in Requests |-> [req[q] EXCEPT !.clean = @ /\ req[q].at # "extract"]]
    /\ UNCHANGED <<now, up, dir, command, leftover, backups, births>>

(* reset_world *)
ResetWorld(r) ==
    /\ ~up /\ At(r, "idle") /\ used < MaxRequests /\ used' = used + 1
    /\ dir' = Without(World)
    /\ TouchAll
    /\ UNCHANGED <<now, up, command, leftover, tmpZip, backups, births>>

-----------------------------------------------------------------------------
(* world_upload and import_archive: unpacked into a directory of their own,  *)
(* where a failure touches nothing, then merged file by file over what is   *)
(* there; an archive also brings the jar and sets the command.              *)
Merge(r, v, kind, files) ==
    /\ ~up
    /\ Begin(r, [Idle EXCEPT !.at = "stage", !.kind = kind, !.version = v, !.want = Of(v, files)])
WorldUpload(r, v) == Merge(r, v, "upload", WorldOf(v))
ImportArchive(r, v) == Merge(r, v, "archive", WorldOf(v) \cup {"jar"})

(* extract_archive, unwrap_nested_tarball, strip_junk, maybe_flatten        *)
Stage(r) ==
    /\ At(r, "stage")
    /\ Go(r, [req[r] EXCEPT !.at = "merge", !.todo = {f \in Files : req[r].want[f] # 0}])
    /\ UNCHANGED <<now, up, dir, command, leftover, tmpZip, backups, births, used>>

(* merge_tree, merge_into *)
MergeFile(r, f) ==
    /\ At(r, "merge") /\ f \in req[r].todo
    /\ dir' = [dir EXCEPT ![f] = req[r].version]
    /\ Touch(r, [req[r] EXCEPT !.todo = @ \ {f},
                       !.at = IF req[r].todo # {f} THEN @
                              ELSE IF req[r].kind = "archive" THEN "command" ELSE "done"])
    /\ UNCHANGED <<now, up, command, leftover, tmpZip, backups, births, used>>

(* install_local_jar, install_core, import_archive: the jar, and after it   *)
(* the startup command, under the lock but whatever the status is by then.  *)
InstallJar(r, v) ==
    /\ ~up
    /\ Begin(r, [Idle EXCEPT !.at = "jar", !.version = v, !.want = Of(v, {"jar"})])
WriteJar(r) ==
    /\ At(r, "jar")
    /\ dir' = [dir EXCEPT !["jar"] = req[r].version]
    /\ Touch(r, [req[r] EXCEPT !.at = "command"])
    /\ UNCHANGED <<now, up, command, leftover, tmpZip, backups, births, used>>
SetCommand(r) ==
    /\ At(r, "command")
    /\ command' = req[r].version
    /\ Touch(r, [req[r] EXCEPT !.at = "done"])
    /\ UNCHANGED <<now, up, dir, leftover, tmpZip, backups, births, used>>
(* set_startup_jar: the jar is there when it is looked for.                *)
SetStartupJar(r) ==
    /\ ~up /\ dir["jar"] # 0
    /\ Begin(r, [Idle EXCEPT !.at = "command", !.version = dir["jar"],
                             !.want = Of(dir["jar"], {"jar"})])

-----------------------------------------------------------------------------
(* write_file, delete_file and the installers of plugins (install_modrinth,  *)
(* install_hangar, install_spiget): one file, whatever the status.           *)
WriteFile(r, v) ==
    /\ At(r, "idle") /\ used < MaxRequests /\ used' = used + 1
    /\ dir' = [dir EXCEPT !["level"] = v]
    /\ TouchAll
    /\ UNCHANGED <<now, up, command, leftover, tmpZip, backups, births>>

-----------------------------------------------------------------------------
Answer(r) ==
    /\ At(r, "done") /\ req' = [req EXCEPT ![r] = Idle]
    /\ UNCHANGED <<now, up, dir, command, leftover, tmpZip, backups, births, used>>
Steps == {"clear", "unzip", "open", "pack", "prune", "zip", "extract", "swap", "stage",
          "merge", "jar", "command"}
(* The server starts, ends, and while it is up saves its world.            *)
StartStop ==
    /\ up' = ~up
    /\ UNCHANGED <<now, dir, command, leftover, tmpZip, backups, births, req, used>>
ServerSaves ==
    /\ up /\ \E f \in World : dir[f] # 9
    /\ dir' = Over(dir, Of(9, World), World)
    /\ TouchAll
    /\ UNCHANGED <<now, up, command, leftover, tmpZip, backups, births, used>>
Tick ==
    /\ now < MaxTime /\ now' = now + 1
    /\ UNCHANGED <<up, dir, command, leftover, tmpZip, backups, births, req, used>>

Next ==
    \/ \E r \in Requests :
          \/ At(r, "idle") /\ used < MaxRequests /\
                \/ \E n \in Names : RestoreBackup(r, n) \/ DeleteBackup(r, n)
                \/ \E kind \in {"", "world-"} : PackBegin(r, kind)
                \/ \E v \in Versions : ImportWorld(r, v) \/ InstallJar(r, v)
                \/ \E v \in Versions : WorldUpload(r, v) \/ ImportArchive(r, v)
                \/ \E v \in Versions \cup {0} : WriteFile(r, v)
                \/ ResetWorld(r) \/ SetStartupJar(r)
          \/ RestoreClear(r) \/ PackOpen(r) \/ PruneBackup(r) \/ PruneEnds(r)
          \/ Stage(r) \/ ImportClear(r) \/ ImportExtract(r) \/ ImportSwap(r) \/ WriteJar(r) \/ SetCommand(r)
          \/ \E f \in Files : UnzipFile(r, f) \/ PackFile(r, f) \/ MergeFile(r, f)
          \/ Answer(r)
          \/ req[r].at \in Steps /\ Fail(r)
    \/ \E v \in Versions \cup {0} : ImportElsewhere(v)
    \/ StartStop \/ ServerSaves
    \/ Tick

-----------------------------------------------------------------------------
(* A request that succeeds, and that no other, nor the server, crossed, has *)
(* done what it says: the files it was to bring are there, and only they    *)
(* after a restore; the command is for the jar; its backup is what the       *)
(* directory was, and stays when the others are pruned.                     *)
DoesWhatItSays ==
    \A r \in Requests : At(r, "done") /\ req[r].clean =>
        LET q == req[r] IN
        CASE q.kind = "restore" -> dir = q.want
          [] q.kind = "backup" -> LET b == backups[q.name] IN
               /\ b.born # 0 /\ b.whole
               /\ \A f \in (IF q.name[1] = "" THEN Backed ELSE World) : b.files[f] = q.want[f]
          [] OTHER ->
               /\ \A f \in Files : q.want[f] # 0 => dir[f] = q.want[f]
               /\ q.want["jar"] # 0 => command = dir["jar"]
=============================================================================
