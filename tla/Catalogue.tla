------------------------------ MODULE Catalogue ------------------------------
(***************************************************************************)
(* The list of instances as requests extend and change it (registry.rs):    *)
(* each instance has a port on its node and a directory of its own.  What   *)
(* is free is read under the lock, the files are prepared without it, and   *)
(* the record is inserted under it again.                                   *)
(***************************************************************************)
EXTENDS Naturals, SequencesExt, TLC

CONSTANTS
    Requests,       \* requests under way
    Dirs,           \* directories a request may name: sequences of components
    Ports,          \* ports a request may name
    Nodes,          \* nodes of the cluster, with "local"
    MaxInstances,   \* bound: instances ever made
    MaxRequests     \* bound: requests

VARIABLES
    inst,       \* the records, by id; NoInstance where there is none
    nextId,     \* ids are fresh (Uuid::new_v4)
    req,        \* where each request stands
    used,       \* what has been used of MaxRequests
    moved,      \* history: ids whose port or node was set after creation
    samePort,   \* history: pairs of which the later's port was tested before the earlier was listed
    sameDir     \* history: the same of directories

vars == <<inst, nextId, req, used, moved, samePort, sameDir>>

Ids == 1..MaxInstances
DefaultDir(i) == <<"data", ToString(i)>>    \* default_instance_root
NoInstance == [dir |-> << >>, port |-> 0, node |-> "none", up |-> FALSE]
Listed == {i \in Ids : inst[i].node # "none"}
Idle == [at |-> "idle", id |-> 0, dir |-> << >>, port |-> 0, node |-> "local", copy |-> FALSE,
         saw |-> {}, sawDirs |-> {}]

TypeOK ==
    /\ \A i \in Ids : /\ inst[i].dir \in Dirs \cup {DefaultDir(i), << >>}
                      /\ inst[i].port \in 0..65535 /\ inst[i].node \in Nodes \cup {"none"}
    /\ nextId \in 1..MaxInstances + 1
    /\ \A r \in Requests : req[r].saw \subseteq Ids
    /\ moved \subseteq Ids

Init ==
    /\ inst = [i \in Ids |-> IF i = 1 THEN [NoInstance EXCEPT !.dir = DefaultDir(1), !.port = Max(Ports),
                                                              !.node = "local"]
                                      ELSE NoInstance]
    /\ nextId = 2 /\ used = 0 /\ moved = {} /\ samePort = {} /\ sameDir = {}
    /\ req = [r \in Requests |-> Idle]

At(r, at) == req[r].at = at
Go(r, at) == req' = [req EXCEPT ![r].at = at]
Done(r) == req' = [req EXCEPT ![r] = Idle]
Begin(r) == At(r, "idle") /\ used < MaxRequests /\ used' = used + 1

(* workdirs_conflict: one is the other, or lies in it. *)
Nested(d, e) == IsPrefix(d, e) \/ IsPrefix(e, d)

(* ensure_port_free; except = 0 when the instance is a new one.            *)
PortFree(port, node, except) ==
    \A i \in Listed \ {except} :
        inst[i].node = node /\ inst[i].port = port => except # 0 /\ ~inst[i].up

-----------------------------------------------------------------------------
(* create_instance and clone_instance: the port, the directory, the files, *)
(* the record.                                                             *)
DirOf(d) == IF d = << >> THEN DefaultDir(nextId) ELSE d
CreateCheckPort(r, dir, port, node) ==
    /\ Begin(r) /\ nextId \in Ids
    /\ IF PortFree(port, node, 0)
       THEN req' = [req EXCEPT ![r] = [Idle EXCEPT !.at = "dir", !.id = nextId, !.dir = DirOf(dir),
                                           !.port = port, !.node = node, !.saw = Listed]]
       ELSE UNCHANGED req
    /\ nextId' = nextId + 1
    /\ UNCHANGED <<inst, moved, samePort, sameDir>>

CheckDir_Equal(r) ==                     \* seeded fault: only the same directory conflicts
    /\ At(r, "dir")
    /\ IF \E i \in Listed : req[r].dir = inst[i].dir
       THEN Done(r)
       ELSE req' = [req EXCEPT ![r].at = IF req[r].copy THEN "copy" ELSE "files",
                               ![r].sawDirs = Listed]
    /\ UNCHANGED <<inst, nextId, used, moved, samePort, sameDir>>

(* ensure_exclusive_workdir *)
CheckDir(r) ==
    /\ At(r, "dir")
    /\ IF \E i \in Listed : Nested(req[r].dir, inst[i].dir)
       THEN Done(r)
       ELSE req' = [req EXCEPT ![r].at = IF req[r].copy THEN "copy" ELSE "files",
                               ![r].sawDirs = Listed]
    /\ UNCHANGED <<inst, nextId, used, moved, samePort, sameDir>>

(* The files of a local instance are written: this may fail.               *)
SeedFiles(r) ==
    /\ At(r, "files")
    /\ \/ Go(r, "insert")
       \/ req[r].node = "local" /\ Done(r)
    /\ UNCHANGED <<inst, nextId, used, moved, samePort, sameDir>>

InsertInstance(r) ==
    /\ At(r, "insert")
    /\ inst' = [inst EXCEPT ![req[r].id] = [dir |-> req[r].dir, port |-> req[r].port,
                                            node |-> req[r].node, up |-> FALSE]]
    /\ samePort' = samePort \cup {{req[r].id, i} : i \in Listed \ req[r].saw}
    /\ sameDir' = sameDir \cup {{req[r].id, i} : i \in Listed \ req[r].sawDirs}
    /\ Done(r)
    /\ UNCHANGED <<nextId, used, moved>>

-----------------------------------------------------------------------------
(* next_free_port: the first after the source's that no instance of the     *)
(* node has and no program of this host listens on.                         *)
Taken(node) == {inst[i].port : i \in {j \in Listed : inst[j].node = node}}
NextFreePort(node, from, busy) ==
    LET free == {p \in from + 1..from + 2 * MaxInstances : p \notin Taken(node) \cup busy}
    IN  CHOOSE p \in free : \A q \in free : p <= q

(* clone_instance: the record of the source is copied at the start.        *)
CloneBegin(r, src, node, busy) ==
    /\ src \in Listed /\ Begin(r) /\ nextId \in Ids
    /\ req' = [req EXCEPT ![r] = [Idle EXCEPT !.at = "port", !.id = nextId, !.dir = DirOf(<< >>),
                                      !.port = NextFreePort(node, inst[src].port, busy),
                                      !.node = node, !.copy = TRUE]]
    /\ nextId' = nextId + 1
    /\ UNCHANGED <<inst, moved, samePort, sameDir>>

CloneCheckPort(r) ==
    /\ At(r, "port")
    /\ IF PortFree(req[r].port, req[r].node, 0)
       THEN req' = [req EXCEPT ![r].at = "dir", ![r].saw = Listed]
       ELSE Done(r)
    /\ UNCHANGED <<inst, nextId, used, moved, samePort, sameDir>>

(* copy_instance_tree: takes long, and fails on any file it cannot read.   *)
CopyTree(r) ==
    /\ At(r, "copy")
    /\ Go(r, "files") \/ Done(r)
    /\ UNCHANGED <<inst, nextId, used, moved, samePort, sameDir>>

-----------------------------------------------------------------------------
(* update_instance: the port is tested for the node the instance is on, the *)
(* record is changed later, its node without a test of the port.            *)
UpdateCheckPort(r, id, port, node) ==
    /\ Begin(r)
    /\ IF port = 0 \/ PortFree(port, IF id \in Listed THEN inst[id].node ELSE "local", id)
       THEN req' = [req EXCEPT ![r] = [Idle EXCEPT !.at = "update", !.id = id, !.port = port,
                                                   !.node = node]]
       ELSE UNCHANGED req
    /\ UNCHANGED <<inst, nextId, moved, samePort, sameDir>>

(* Fields are written one after the other: an error in between (the port is *)
(* in use by sync_port's file, the eula is not written) leaves the first.   *)
UpdateWrite(r) ==
    LET id == req[r].id
        ported == IF req[r].port = 0 THEN inst[id] ELSE [inst[id] EXCEPT !.port = req[r].port]
        node == IF req[r].node = "same" THEN ported.node ELSE req[r].node
    IN
    /\ At(r, "update")
    /\ IF id \in Listed
       THEN /\ \/ inst' = [inst EXCEPT ![id] = [ported EXCEPT !.node = node]]
               \/ req[r].port # 0 /\ inst' = [inst EXCEPT ![id] = ported]
            /\ moved' = moved \cup {id}
       ELSE UNCHANGED <<inst, moved>>
    /\ Done(r)
    /\ UNCHANGED <<nextId, used, samePort, sameDir>>

(* set_properties: a "server-port" among them becomes the port, unchecked.  *)
SetProperties(r, id, port) ==
    /\ Begin(r) /\ id \in Listed /\ inst[id].node = "local"
    /\ inst' = [inst EXCEPT ![id].port = port]
    /\ moved' = moved \cup {id}
    /\ UNCHANGED <<nextId, req, samePort, sameDir>>

(* delete_instance, and the state of the process as the lifecycle has it.  *)
DeleteInstance(r, id) ==
    /\ Begin(r) /\ id \in Listed
    /\ inst' = [inst EXCEPT ![id] = NoInstance]
    /\ UNCHANGED <<nextId, req, moved, samePort, sameDir>>
StartStop(id) ==
    /\ id \in Listed
    /\ inst' = [inst EXCEPT ![id].up = ~@]
    /\ UNCHANGED <<nextId, req, used, moved, samePort, sameDir>>

Next ==
    \/ \E r \in Requests :
          \/ At(r, "idle") /\ used < MaxRequests /\
             (\/ \E d \in Dirs \cup {<< >>}, p \in Ports, n \in Nodes : CreateCheckPort(r, d, p, n)
              \/ \E src \in Ids, n \in Nodes, busy \in {{}, {Max(Ports) + 1}} : CloneBegin(r, src, n, busy)
              \/ \E id \in Ids, p \in Ports \cup {0}, n \in Nodes \cup {"same"} : UpdateCheckPort(r, id, p, n)
              \/ \E id \in Ids, p \in Ports : SetProperties(r, id, p)
              \/ \E id \in Ids : DeleteInstance(r, id))
          \/ CheckDir(r) \/ SeedFiles(r) \/ InsertInstance(r) \/ CloneCheckPort(r) \/ CopyTree(r)
          \/ UpdateWrite(r)
    \/ \E id \in Ids : StartStop(id)

-----------------------------------------------------------------------------
(* No two instances share a directory, or have theirs within each other's,  *)
(* unless the later was tested before the earlier was in the list.          *)
DirsExclusive ==
    \A i, j \in Listed : i # j /\ Nested(inst[i].dir, inst[j].dir) => {i, j} \in sameDir

(* No two instances of a node have the same port, unless one of them was    *)
(* moved to it, or the later was tested before the earlier was in the list. *)
PortsDistinct ==
    \A i, j \in Listed :
        i # j /\ inst[i].node = inst[j].node /\ inst[i].port = inst[j].port =>
            i \in moved \/ j \in moved \/ {i, j} \in samePort

EachHasItsPlace == DirsExclusive /\ PortsDistinct
=============================================================================
