------------------------------- MODULE InitApi -------------------------------
(***************************************************************************)
(* The contract between control and cocktail-init: the methods that init     *)
(* registers (rpc.rs, registry.rs), with the parameters each decodes and    *)
(* what it answers, and the calls that control makes.  The two sides are    *)
(* written apart, and agree by the names of methods and fields.             *)
(*                                                                          *)
(* A field is its name; an answer is the set of its fields, or of the one   *)
(* shared type it is.                                                       *)
(***************************************************************************)
EXTENDS TLC, FiniteSets

VARIABLES
    method,     \* of the call
    sent,       \* its fields, and those of them that are null
    large,      \* its bytes, or those of its answer, take more than a frame
    session,    \* "open" or "closed"
    pc,         \* "calling", "answered", "done" or "failed"
    answer      \* fields that were answered, or an error

vars == <<method, sent, large, session, pc, answer>>

-----------------------------------------------------------------------------
(* need: the fields a parameter struct has; may: those that are Option or    *)
(* have a default.                                                           *)
Takes(need, may, answers) == [need |-> need, may |-> may, answers |-> answers]
In == {"workdir", "relative"}
OfBackup == {"instance_id", "backup_id"}
Runtime == Takes({"workdir"}, {"java_major", "mc_version"}, {"java_bin"})

ServiceMethods ==
    "secrets.get_master_key" :> Takes({}, {}, {"key_hex", "source"})
    @@ "secrets.key_source" :> Takes({}, {}, {"source"})
    @@ "sevenz.ensure_bin" :> Takes({}, {}, {"path", "embedded"})
    @@ "sevenz.extract" :> Takes({"archive", "dest"}, {}, {})
    @@ "sevenz.is_supported_name" :> Takes({"name"}, {}, {"supported"})
    @@ "rcon.try_rcon" :> Takes({"host", "port"}, {}, {"connected", "error"})
    @@ "http.download_to_path" :> Takes({"url", "dest"}, {"progress"}, {"written"})

FileMethods ==
    "files.resolve_in_workdir" :> Takes(In, {}, {"path"})
    @@ "files.list_files" :> Takes(In, {}, {"[FileEntry]"})
    @@ "files.read_file" :> Takes(In, {}, {"FileContent"})
    @@ "files.read_bytes" :> Takes(In, {}, {"path", "bytes"})
    @@ "files.write_file" :> Takes(In \cup {"content"}, {}, {"FileContent"})
    @@ "files.write_bytes" :> Takes(In \cup {"bytes"}, {}, {"FileEntry"})
    @@ "files.delete_path" :> Takes(In, {}, {})
    @@ "files.mkdir" :> Takes(In, {}, {"FileEntry"})
    @@ "files.jar_exists" :> Takes(In, {}, {"exists"})
    @@ "files.default_instance_root" :> Takes({"id"}, {}, {"root"})
    @@ "files.workdirs_conflict" :> Takes({"a", "b"}, {}, {"conflict"})
    @@ "files.ensure_seed_files" :> Takes({"workdir", "port", "eula_accepted"}, {}, {})
    @@ "files.sync_port" :> Takes({"workdir", "port"}, {}, {})

BackupMethods ==
    "files.create_backup" :> Takes({"instance_id", "workdir"}, {}, {"BackupInfo"})
    @@ "files.prune_backups" :> Takes({"instance_id", "keep"}, {}, {"pruned"})
    @@ "files.backup_path" :> Takes(OfBackup, {}, {"path"})
    @@ "files.backup_meta" :> Takes(OfBackup, {}, {"BackupInfo"})
    @@ "files.inspect_backup_zip" :> Takes({"path"}, {}, {"BackupScan"})
    @@ "files.list_backups" :> Takes({"instance_id"}, {}, {"[BackupInfo]"})
    @@ "files.delete_backup" :> Takes(OfBackup, {}, {})
    @@ "files.restore_backup" :> Takes(OfBackup \cup {"workdir"}, {}, {})

TreeMethods ==
    "files.unzip_archive" :> Takes({"zip_path", "dest"}, {}, {})
    @@ "files.copy_instance_tree" :> Takes({"src", "dst", "copy_data", "skip_logs"}, {}, {"copied"})
    @@ "files.pack_subdir_zip" :> Takes(In \cup {"dest"}, {}, {"size"})
    @@ "files.extract_zip_into" :> Takes(In \cup {"bytes"}, {}, {"files"})
    @@ "files.guess_mc_version" :> Takes(In, {}, {"version"})
    @@ "files.write_mc_version_marker" :> Takes({"workdir", "version"}, {}, {})
    @@ "files.total_dir_bytes" :> Takes({"path"}, {}, {"bytes"})

JavaMethods_NoMajor ==  \* seeded fault: the version is asked for under another name
    "java.inventory" :> Takes({}, {}, {"JavaInventory"})
    @@ "java.install" :> Takes({"version"}, {"image_type"}, {"InstalledRuntime"})
    @@ "java.remove" :> Takes({"id"}, {}, {})
    @@ "java.ensure_api" :> Takes({}, {"EnsureJavaRequest"}, {"EnsureJavaResponse"})
    @@ "java.ensure_for_spec" :> Runtime
    @@ "java.ensure_instance_jre" :> Runtime
    @@ "java.probe_system" :> Takes({}, {}, {"Option<SystemJava>"})
    @@ "java.list_installed" :> Takes({}, {}, {"[InstalledRuntime]"})
    @@ "java.find_managed" :> Takes({"major"}, {"prefer"}, {"Option<InstalledRuntime>"})

JavaMethods ==
    "java.inventory" :> Takes({}, {}, {"JavaInventory"})
    @@ "java.install" :> Takes({"major"}, {"image_type"}, {"InstalledRuntime"})
    @@ "java.remove" :> Takes({"id"}, {}, {})
    @@ "java.ensure_api" :> Takes({}, {"EnsureJavaRequest"}, {"EnsureJavaResponse"})
    @@ "java.ensure_for_spec" :> Runtime
    @@ "java.ensure_instance_jre" :> Runtime
    @@ "java.probe_system" :> Takes({}, {}, {"Option<SystemJava>"})
    @@ "java.list_installed" :> Takes({}, {}, {"[InstalledRuntime]"})
    @@ "java.find_managed" :> Takes({"major"}, {"prefer"}, {"Option<InstalledRuntime>"})

InstallMethods ==
    "versions.list_versions" :> Takes({"core"}, {}, {"[CoreVersion]"})
    @@ "versions.list_loaders" :> Takes({"core", "version"}, {}, {"[CoreLoader]"})
    @@ "versions.download_and_install" :> Takes({"workdir", "core", "version"}, {"loader"}, {"command", "args"})
    @@ "archive.extract_pack" :> Takes({"archive_path", "workdir", "filename"}, {"progress"}, {"flattened", "files"})
    @@ "archive.resolve_startup" :> Takes({"workdir"}, {"command", "args"}, {"startup", "command", "args"})

(* Decoded into the structs of the shared crate, which control sends as      *)
(* well: the launch carries one of three kinds.                              *)
ProcessMethods ==
    "process.launch" :> Takes({"token", "instance_id", "workdir", "port", "LaunchKind"}, {}, {"HandleInfo"})
    @@ "process.stop" :> Takes({"token", "mode"}, {}, {})
    @@ "process.command" :> Takes({"token", "command"}, {}, {})
    @@ "process.lookup" :> Takes({"instance_id"}, {}, {"Option<HandleInfo>"})
    @@ "process.status" :> Takes({"token"}, {}, {"Option<HandleInfo>"})
    @@ "process.snapshot" :> Takes({"pid"}, {}, {"ProcessSnapshot"})
    @@ "process.matches" :> Takes({"pid", "workdir"}, {"expected_start"}, {"bool"})
    @@ "process.alive" :> Takes({"pid"}, {}, {"bool"})
    @@ "container.status" :> Takes({}, {}, {"DockerStatus"})
    @@ "container.images" :> Takes({}, {}, {"[DockerImage]"})
    @@ "container.pull" :> Takes({"name"}, {}, {})
    @@ "container.pid" :> Takes({"name"}, {}, {"Option<u32>"})
    @@ "container.running" :> Takes({"name"}, {}, {"bool"})

Registered ==
    ServiceMethods @@ FileMethods @@ BackupMethods @@ TreeMethods @@ JavaMethods @@ InstallMethods @@ ProcessMethods

-----------------------------------------------------------------------------
(* fields: what control sends always; null: those that may be null; reads:   *)
(* what it needs of the answer.                                              *)
Sends(fields, null, reads) == [fields |-> fields, null |-> null, reads |-> reads]
ForRuntime == Sends({"workdir", "java_major", "mc_version"}, {"java_major", "mc_version"}, {"java_bin"})

FileCalls ==
    "files.resolve_in_workdir" :> Sends(In, {}, {"path"})
    @@ "files.list_files" :> Sends(In, {}, {"[FileEntry]"})
    @@ "files.read_file" :> Sends(In, {}, {"FileContent"})
    @@ "files.read_bytes" :> Sends(In, {}, {"path", "bytes"})
    @@ "files.write_file" :> Sends(In \cup {"content"}, {}, {"FileContent"})
    @@ "files.write_bytes" :> Sends(In \cup {"bytes"}, {}, {"FileEntry"})
    @@ "files.delete_path" :> Sends(In, {}, {})
    @@ "files.mkdir" :> Sends(In, {}, {"FileEntry"})
    @@ "files.jar_exists" :> Sends(In, {}, {"exists"})
    @@ "files.ensure_seed_files" :> Sends({"workdir", "port", "eula_accepted"}, {}, {})
    @@ "files.sync_port" :> Sends({"workdir", "port"}, {}, {})

BackupCalls ==
    "files.create_backup" :> Sends({"instance_id", "workdir"}, {}, {"BackupInfo"})
    @@ "files.prune_backups" :> Sends({"instance_id", "keep"}, {}, {"pruned"})
    @@ "files.backup_path" :> Sends(OfBackup, {}, {"path"})
    @@ "files.backup_meta" :> Sends(OfBackup, {}, {"BackupInfo"})
    @@ "files.inspect_backup_zip" :> Sends({"path"}, {}, {"BackupScan"})
    @@ "files.list_backups" :> Sends({"instance_id"}, {}, {"[BackupInfo]"})
    @@ "files.delete_backup" :> Sends(OfBackup, {}, {})
    @@ "files.restore_backup" :> Sends(OfBackup \cup {"workdir"}, {}, {})

TreeCalls ==
    "files.unzip_archive" :> Sends({"zip_path", "dest"}, {}, {})
    @@ "files.copy_instance_tree" :> Sends({"src", "dst", "copy_data", "skip_logs"}, {}, {"copied"})
    @@ "files.pack_subdir_zip" :> Sends(In \cup {"dest"}, {}, {"size"})
    @@ "files.extract_zip_into" :> Sends(In \cup {"bytes"}, {}, {"files"})
    @@ "files.guess_mc_version" :> Sends({"workdir"}, {}, {"version"})
    @@ "files.write_mc_version_marker" :> Sends({"workdir", "version"}, {}, {})
    @@ "files.total_dir_bytes" :> Sends({"path"}, {}, {"bytes"})

JavaCalls ==
    "java.inventory" :> Sends({}, {}, {"JavaInventory"})
    @@ "java.install" :> Sends({"major", "image_type"}, {}, {"InstalledRuntime"})
    @@ "java.remove" :> Sends({"id"}, {}, {})
    @@ "java.ensure_api" :> Sends({"EnsureJavaRequest"}, {}, {"EnsureJavaResponse"})
    @@ "java.ensure_for_spec" :> ForRuntime
    @@ "java.ensure_instance_jre" :> ForRuntime
    @@ "java.probe_system" :> Sends({}, {}, {"Option<SystemJava>"})
    @@ "java.list_installed" :> Sends({}, {}, {"[InstalledRuntime]"})
    @@ "java.find_managed" :> Sends({"major", "prefer"}, {"prefer"}, {"Option<InstalledRuntime>"})

CoreCalls ==
    "versions.list_versions" :> Sends({"core"}, {}, {"[CoreVersion]"})
    @@ "versions.list_loaders" :> Sends({"core", "version"}, {}, {"[CoreLoader]"})
    @@ "versions.download_and_install" :>
        Sends({"workdir", "core", "version", "loader"}, {"loader"}, {"command", "args"})

ArchiveCalls ==
    "archive.extract_pack" :> Sends({"progress", "archive_path", "workdir", "filename"}, {}, {"flattened", "files"})
    @@ "archive.resolve_startup" :> Sends({"workdir", "command", "args"}, {"command"}, {"startup", "command", "args"})

ServiceCalls ==
    "secrets.get_master_key" :> Sends({}, {}, {"key_hex"})
    @@ "sevenz.ensure_bin" :> Sends({}, {}, {"path"})
    @@ "sevenz.extract" :> Sends({"archive", "dest"}, {}, {})
    @@ "http.download_to_path" :> Sends({"progress", "url", "dest"}, {}, {"written"})

ProcessCalls ==
    "process.launch" :> Sends({"token", "instance_id", "workdir", "port", "LaunchKind"}, {}, {"HandleInfo"})
    @@ "process.stop" :> Sends({"token", "mode"}, {}, {})
    @@ "process.command" :> Sends({"token", "command"}, {}, {})
    @@ "process.status" :> Sends({"token"}, {}, {"Option<HandleInfo>"})

ProbeCalls ==
    "process.lookup" :> Sends({"instance_id"}, {}, {"Option<HandleInfo>"})
    @@ "process.matches" :> Sends({"pid", "expected_start", "workdir"}, {"expected_start"}, {"bool"})
    @@ "process.alive" :> Sends({"pid"}, {}, {"bool"})
    @@ "container.status" :> Sends({}, {}, {"DockerStatus"})
    @@ "container.images" :> Sends({}, {}, {"[DockerImage]"})
    @@ "container.pull" :> Sends({"name"}, {}, {})
    @@ "container.pid" :> Sends({"name"}, {}, {"Option<u32>"})
    @@ "container.running" :> Sends({"name"}, {}, {"bool"})

Calls ==
    ServiceCalls @@ FileCalls @@ BackupCalls @@ TreeCalls @@ JavaCalls @@ CoreCalls @@ ArchiveCalls
    @@ ProcessCalls @@ ProbeCalls

-----------------------------------------------------------------------------
Errors == {"method not found", "invalid params", "internal", "closed"}
TypeOK ==
    /\ method \in DOMAIN Calls /\ pc \in {"calling", "answered", "done", "failed"}
    /\ sent.fields \subseteq Calls[method].fields /\ sent.null \subseteq sent.fields
    /\ large \in BOOLEAN /\ session \in {"open", "closed"}
    /\ answer.error \in Errors \cup {"none"}

(* A file travels as an array of numbers in JSON.  One of the 512 MiB that   *)
(* both sides allow need not fit in the 64 MiB of a frame.                   *)
TakesBytes(m) == "bytes" \in Calls[m].fields
GivesBytes(m) == "bytes" \in Calls[m].reads /\ m = "files.read_bytes"

Init ==
    /\ method \in DOMAIN Calls
    /\ \E null \in SUBSET Calls[method].null : sent = [fields |-> Calls[method].fields, null |-> null]
    /\ large \in BOOLEAN /\ (large => TakesBytes(method) \/ GivesBytes(method))
    /\ session = "open" /\ pc = "calling" /\ answer = [error |-> "none", fields |-> {}]

(* A null counts as absent in an Option; fields that are not known are       *)
(* ignored.                                                                  *)
Decodes(row) == row.need \subseteq sent.fields \ sent.null

(* A frame beyond the limit ends the loop of init, and init with it.         *)
RefuseFrame ==
    /\ pc = "calling" /\ large /\ TakesBytes(method)
    /\ pc' = "answered" /\ session' = "closed" /\ answer' = [error |-> "closed", fields |-> {}]
    /\ UNCHANGED <<method, sent, large>>

(* The server looks the method up, the handler decodes, works and answers.   *)
Serve ==
    /\ pc = "calling" /\ ~(large /\ TakesBytes(method)) /\ pc' = "answered"
    /\ \E works \in BOOLEAN :
        answer' = IF method \notin DOMAIN Registered THEN [error |-> "method not found", fields |-> {}]
                  ELSE IF ~Decodes(Registered[method]) THEN [error |-> "invalid params", fields |-> {}]
                  ELSE IF ~works THEN [error |-> "internal", fields |-> {}]
                  ELSE [error |-> "none", fields |-> Registered[method].answers]
    /\ UNCHANGED <<method, sent, large, session>>

(* The reader of control ends at such a frame too, and the waiting calls     *)
(* with it.                                                                  *)
RefuseAnswer ==
    /\ pc = "answered" /\ large /\ GivesBytes(method) /\ answer.error = "none"
    /\ session' = "closed" /\ answer' = [error |-> "closed", fields |-> {}]
    /\ UNCHANGED <<method, sent, large, pc>>

(* Control passes an error on, and fails when it cannot read the answer.     *)
Receive ==
    /\ pc = "answered" /\ ~(large /\ GivesBytes(method) /\ answer.error = "none")
    /\ pc' = IF answer.error = "none" /\ Calls[method].reads \subseteq answer.fields THEN "done" ELSE "failed"
    /\ UNCHANGED <<method, sent, large, session, answer>>

Next == RefuseFrame \/ Serve \/ RefuseAnswer \/ Receive
Spec == Init /\ [][Next]_vars

-----------------------------------------------------------------------------
(* A call of control is understood: it fails only when the work of init      *)
(* fails.                                                                    *)
Understood == pc = "failed" => answer.error = "internal"

(* Control and init were written apart, and agree on every call but these:   *)
(* the one for the version of a server leaves a field out, and a file may    *)
(* be larger than a frame.                                                   *)
UnderstoodElsewhere ==
    (method # "files.guess_mc_version" /\ ~large) => Understood /\ session = "open"
=============================================================================
