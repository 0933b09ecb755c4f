----------------------------- MODULE BackupStore -----------------------------
(***************************************************************************)
(* The store of deduplicated snapshots (backup.rs): an object per chunk, by  *)
(* its hash, and a manifest per snapshot that names its chunks.  Nothing     *)
(* locks the store: a snapshot, a pruning, a restore run file by file and   *)
(* object by object beside each other.                                      *)
(***************************************************************************)
EXTENDS Naturals, FiniteSets, FiniteSetsExt

CONSTANTS
    Files, Chunks,  \* files of the directory, contents a file may have
    Callers,        \* who uses the store
    Limits,         \* RetentionPolicy: the number of buckets, by their length
    MaxSnapshots,   \* bound: snapshots ever made
    MaxCalls        \* bound: calls

VARIABLES
    work,       \* the directory; 0 where there is no file, or an empty one
    objects,    \* the chunks stored
    snaps,      \* the manifests, by their order: [files, at, parent]
    clock,      \* time, of which ids are made
    call,       \* where each caller stands
    used,
    raced       \* history: snapshots a pruning ran beside

vars == <<work, objects, snaps, clock, call, used, raced>>

Ids == 1..MaxSnapshots
NoFiles == [f \in Files |-> 0]
NoSnapshot == [files |-> NoFiles, at |-> 0, parent |-> 0]
Idle == [at |-> "idle", todo |-> {}, files |-> NoFiles, ids |-> {}, doomed |-> {},
         old |-> << >>, alone |-> TRUE]

TypeOK ==
    /\ work \in [Files -> Chunks \cup {0}] /\ objects \subseteq Chunks
    /\ \A i \in Ids : snaps[i].parent \in {0} \cup Ids
    /\ \A c \in Callers : call[c].doomed \subseteq Chunks /\ call[c].ids \subseteq Ids

(* The store has one snapshot, of the directory as it is.                  *)
Init ==
    /\ work \in {[f \in Files |-> c] : c \in Chunks}
    /\ objects = {work[f] : f \in Files}
    /\ snaps = [i \in Ids |-> IF i = 1 THEN [files |-> work, at |-> 1, parent |-> 0] ELSE NoSnapshot]
    /\ clock = 2 /\ used = 0 /\ raced = {}
    /\ call = [c \in Callers |-> Idle]

At(c, at) == call[c].at = at
Go(c, step) == call' = [call EXCEPT ![c] = step]
(* list_snapshots *)
Listed == {i \in Ids : snaps[i].at # 0}
Latest == IF Listed = {} THEN 0 ELSE Max(Listed)
Begin(c, step) ==
    /\ At(c, "idle") /\ used < MaxCalls /\ used' = used + 1
    /\ call' = [d \in Callers |-> IF d = c THEN [step EXCEPT !.alone = \A e \in Callers : At(e, "idle")]
                                  ELSE [call[d] EXCEPT !.alone = FALSE]]

-----------------------------------------------------------------------------
(* create_snapshot *)
Snapshot(c) ==
    /\ Begin(c, [Idle EXCEPT !.at = "store", !.todo = {f \in Files : work[f] # 0}])
    /\ UNCHANGED <<work, objects, snaps, clock, raced>>

(* store_object: a chunk that is there is not written again.               *)
StoreObject(c, f) ==
    /\ At(c, "store") /\ f \in call[c].todo /\ work[f] # 0
    /\ objects' = objects \cup {work[f]}
    /\ Go(c, [call[c] EXCEPT !.todo = @ \ {f}, !.files[f] = work[f]])
    /\ UNCHANGED <<work, snaps, clock, used, raced>>

WriteSnapshot(c) ==
    /\ At(c, "store") /\ call[c].todo = {}
    /\ clock \in Ids
    /\ snaps' = [snaps EXCEPT ![clock] = [files |-> call[c].files, at |-> clock, parent |-> Latest]]
    /\ raced' = IF call[c].alone THEN raced ELSE raced \cup {clock}
    /\ clock' = clock + 1
    /\ Go(c, Idle)
    /\ UNCHANGED <<work, objects, used>>

-----------------------------------------------------------------------------
(* gfs_keep_set: of each of the newest buckets of each kind the newest, and  *)
(* the newest of all.                                                        *)
Bucket(kind, i, at) == at[i] \div kind
NewestOf(kind, S, at) ==
    {i \in S : \A j \in S : Bucket(kind, j, at) = Bucket(kind, i, at) => at[j] <= at[i]}
KeepSet(S, at) ==
    UNION {LET first == NewestOf(kind, S, at) IN
           {i \in first : Cardinality({j \in first : at[j] > at[i]}) < Limits[kind]} :
             kind \in DOMAIN Limits}
    \cup {i \in S : \A j \in S : at[j] <= at[i]}

(* prune_gfs: manifests first, then the objects no manifest names, listed   *)
(* and removed in steps of their own.                                        *)
Prune(c) ==
    /\ Listed # {}
    /\ Begin(c, [Idle EXCEPT !.at = "remove",
                             !.ids = Listed \ KeepSet(Listed, [i \in Ids |-> snaps[i].at])])
    /\ UNCHANGED <<work, objects, snaps, clock, raced>>
RemoveManifest(c, i) ==
    /\ At(c, "remove") /\ i \in call[c].ids
    /\ snaps' = [snaps EXCEPT ![i] = NoSnapshot]
    /\ Go(c, [call[c] EXCEPT !.ids = @ \ {i}])
    /\ UNCHANGED <<work, objects, clock, used, raced>>

(* reachable_objects *)
Reachable_Latest == {snaps[Latest].files[f] : f \in Files}  \* seeded fault: of the newest only
Reachable == {snaps[i].files[f] : i \in Listed, f \in Files}
Reach(c) ==
    /\ At(c, "remove") /\ call[c].ids = {}
    /\ Go(c, [call[c] EXCEPT !.at = "list", !.doomed = Chunks \ Reachable])
    /\ UNCHANGED <<work, objects, snaps, clock, used, raced>>
ListObjects(c) ==
    /\ At(c, "list")
    /\ Go(c, [call[c] EXCEPT !.at = "delete", !.doomed = @ \cap objects])
    /\ UNCHANGED <<work, objects, snaps, clock, used, raced>>
DeleteObject(c, o) ==
    /\ At(c, "delete") /\ o \in call[c].doomed
    /\ objects' = objects \ {o}
    /\ Go(c, [call[c] EXCEPT !.doomed = @ \ {o}])
    /\ UNCHANGED <<work, snaps, clock, used, raced>>

-----------------------------------------------------------------------------
(* rebuild_chain: the manifests are read at once and written one by one, a   *)
(* removed one too.                                                          *)
Rebuild(c) ==
    /\ Listed # {}
    /\ Begin(c, [Idle EXCEPT !.at = "rebuild", !.ids = Listed, !.old = snaps])
    /\ UNCHANGED <<work, objects, snaps, clock, raced>>
RewriteManifest(c) ==
    LET i == Min(call[c].ids)
        before == {j \in 1..i - 1 : call[c].old[j].at # 0}
    IN
    /\ At(c, "rebuild") /\ call[c].ids # {}
    /\ snaps' = [snaps EXCEPT ![i] =
          [call[c].old[i] EXCEPT !.parent = IF before = {} THEN 0 ELSE Max(before)]]
    /\ raced' = IF call[c].alone THEN raced ELSE raced \cup {i}
    /\ Go(c, [call[c] EXCEPT !.ids = @ \ {i}])
    /\ UNCHANGED <<work, objects, clock, used>>

-----------------------------------------------------------------------------
(* restore_snapshot: a file is emptied before its chunks are read, so a      *)
(* missing chunk leaves it empty; at the end the other files may be removed. *)
Restore(c, i) ==
    /\ i \in Listed
    /\ Begin(c, [Idle EXCEPT !.at = "write", !.files = snaps[i].files,
                             !.todo = {f \in Files : snaps[i].files[f] # 0}])
    /\ UNCHANGED <<work, objects, snaps, clock, raced>>
RestoreFile(c, f) ==
    /\ At(c, "write") /\ f \in call[c].todo
    /\ IF call[c].files[f] \in objects
       THEN /\ work' = [work EXCEPT ![f] = call[c].files[f]]
            /\ Go(c, [call[c] EXCEPT !.todo = @ \ {f}])
       ELSE work' = [work EXCEPT ![f] = 0] /\ Go(c, Idle)
    /\ UNCHANGED <<objects, snaps, clock, used, raced>>
PruneExtra(c) ==
    /\ At(c, "write") /\ call[c].todo = {}
    /\ work' = [f \in Files |-> IF call[c].files[f] = 0 THEN 0 ELSE work[f]]
    /\ Go(c, [call[c] EXCEPT !.at = "done"])
    /\ UNCHANGED <<objects, snaps, clock, used, raced>>

Ends(c) ==
    /\ \/ At(c, "done")
       \/ At(c, "delete") /\ call[c].doomed = {}
       \/ At(c, "rebuild") /\ call[c].ids = {}
    /\ Go(c, Idle)
    /\ UNCHANGED <<work, objects, snaps, clock, used, raced>>
(* The server, while nobody uses the store: a file gets another content.   *)
ServerWrites(f, o) ==
    /\ \A c \in Callers : At(c, "idle")
    /\ work' = [work EXCEPT ![f] = o]
    /\ UNCHANGED <<objects, snaps, clock, call, used, raced>>

Next ==
    \/ \E c \in Callers :
          \/ Snapshot(c) \/ WriteSnapshot(c) \/ Prune(c) \/ Reach(c) \/ ListObjects(c)
          \/ Rebuild(c) \/ RewriteManifest(c) \/ PruneExtra(c) \/ Ends(c)
          \/ \E i \in Ids : RemoveManifest(c, i) \/ Restore(c, i)
          \/ \E f \in Files : StoreObject(c, f) \/ RestoreFile(c, f)
          \/ \E o \in Chunks : DeleteObject(c, o)
    \/ \E f \in Files, o \in Chunks \cup {0} : ServerWrites(f, o)

-----------------------------------------------------------------------------
(* A snapshot on the list has all its chunks, unless another call ran while  *)
(* it was made or written again.                                             *)
SnapshotsRestorable ==
    \A i \in Listed \ raced : {snaps[i].files[f] : f \in Files} \ {0} \subseteq objects

(* A restore that nobody crossed leaves the directory as the snapshot was.  *)
RestoreExact == \A c \in Callers : At(c, "done") /\ call[c].alone => work = call[c].files

(* Pruning twice keeps what pruning once keeps.                              *)
PruneSettles ==
    LET at == [i \in Ids |-> snaps[i].at]  once == KeepSet(Listed, at) IN KeepSet(once, at) = once

StoreSound == SnapshotsRestorable /\ RestoreExact /\ PruneSettles
=============================================================================
