---------------------------- MODULE StorageUpload ----------------------------
(***************************************************************************)
(* Payloads on their way to a local backend and back (storage.rs): sealed or *)
(* not, written beside the target and renamed, checked after the upload, and *)
(* read again.  Keys of one stem share the file that is written first.      *)
(***************************************************************************)
EXTENDS Integers, FiniteSets

CONSTANTS
    Writers,
    Keys,       \* key -> its stem, all before the extension
    MaxWrites,  \* bound
    MaxTroubles \* bound: writes that are cut short, files that are damaged

VARIABLES
    encrypt,    \* of the configuration
    object,     \* per key: [of, sealed, whole], of = 0 when there is none
    tmp,        \* per stem: the same
    task,       \* per writer: [pc, key, of]
    used, troubles,
    answer,     \* of the last download: the payload, 0 for an error or one that is not whole
    proven,     \* history: per key, the payload that a check found there, 0 when it changed since
    latest,     \* history: per key, the payloads whose upload was reported done
    crossed     \* history: stems on which two writers met

vars == <<encrypt, object, tmp, task, used, troubles, answer, proven, latest, crossed>>

Nothing == [of |-> 0, sealed |-> FALSE, whole |-> TRUE]
Idle == [pc |-> "idle", key |-> "none", of |-> 0]
NoAnswer == [key |-> "none", of |-> 0, error |-> FALSE]
Stem(key) == Keys[key]
Stems == {Stem(k) : k \in DOMAIN Keys}

TypeOK ==
    /\ object \in [DOMAIN Keys -> [of : 0..MaxWrites, sealed : BOOLEAN, whole : BOOLEAN]]
    /\ tmp \in [Stems -> [of : 0..MaxWrites, sealed : BOOLEAN, whole : BOOLEAN]]
    /\ \A w \in Writers : task[w].pc \in {"idle", "rename", "verify"}
    /\ answer.of \in 0..MaxWrites /\ proven \in [DOMAIN Keys -> 0..MaxWrites]

Init ==
    /\ encrypt \in BOOLEAN
    /\ object = [k \in DOMAIN Keys |-> Nothing] /\ tmp = [s \in Stems |-> Nothing]
    /\ task = [w \in Writers |-> Idle] /\ used = 0 /\ troubles = 0 /\ answer = NoAnswer
    /\ proven = [k \in DOMAIN Keys |-> 0] /\ latest = [k \in DOMAIN Keys |-> {}] /\ crossed = {}

Set(w, new) == task' = [task EXCEPT ![w] = new]

-----------------------------------------------------------------------------
(* Payload "of" belongs to one upload; what is stored is it, sealed or not.  *)
UploadPayload(of) == [of |-> of, sealed |-> encrypt, whole |-> TRUE]

(* local_write, to the first file.                                           *)
LocalWrite(w, key) ==
    LET s == Stem(key) IN
    /\ task[w].pc = "idle" /\ used < MaxWrites /\ used' = used + 1
    /\ tmp' = [tmp EXCEPT ![s] = UploadPayload(used + 1)]
    /\ Set(w, [pc |-> "rename", key |-> key, of |-> used + 1])
    /\ crossed' = IF \E o \in Writers : task[o].pc = "rename" /\ Stem(task[o].key) = s
                  THEN crossed \cup {s} ELSE crossed
    /\ answer' = NoAnswer
    /\ UNCHANGED <<encrypt, object, troubles, proven, latest>>

Rename(w) ==
    LET key == task[w].key
        s == Stem(key)
    IN  /\ task[w].pc = "rename"
        /\ IF tmp[s] = Nothing      \* another writer took the file: the rename fails
           THEN Set(w, Idle) /\ UNCHANGED <<object, tmp, proven, latest>>
           ELSE /\ object' = [object EXCEPT ![key] = tmp[s]]
                /\ tmp' = [tmp EXCEPT ![s] = Nothing]
                /\ latest' = [latest EXCEPT ![key] = {task[w].of}] /\ proven' = [proven EXCEPT ![key] = 0]
                /\ Set(w, [task[w] EXCEPT !.pc = "verify"])
        /\ answer' = NoAnswer
        /\ UNCHANGED <<encrypt, used, troubles, crossed>>

VerifyUpload_Bytes(of, payload) ==  \* seeded fault: a digest of what is stored is compared with itself
    TRUE

(* verify_upload: something sealed passes, anything else must be the data.   *)
VerifyUpload(of, payload) == payload.sealed \/ (payload.of = of /\ payload.whole)

Verify(w) ==
    LET key == task[w].key IN
    /\ task[w].pc = "verify"
    /\ proven' = IF VerifyUpload(task[w].of, object[key]) THEN [proven EXCEPT ![key] = task[w].of] ELSE proven
    /\ Set(w, Idle) /\ answer' = NoAnswer
    /\ UNCHANGED <<encrypt, object, tmp, used, troubles, latest, crossed>>

(* download_payload: what is sealed opens only when it is whole, anything    *)
(* else is handed out as it is.                                              *)
Download(key) ==
    LET o == object[key] IN
    /\ o # Nothing
    /\ answer' = [key |-> key, of |-> IF o.whole THEN o.of ELSE 0, error |-> o.sealed /\ ~o.whole]
    /\ UNCHANGED <<encrypt, object, tmp, task, used, troubles, proven, latest, crossed>>

Trouble == troubles < MaxTroubles /\ troubles' = troubles + 1 /\ answer' = NoAnswer

(* A writer dies, or its write ends early.                                   *)
Fail(w) ==
    /\ Trouble /\ task[w].pc = "rename" /\ Set(w, Idle)
    /\ \E whole \in BOOLEAN : tmp' = [tmp EXCEPT ![Stem(task[w].key)].whole = @ /\ whole]
    /\ UNCHANGED <<encrypt, object, used, proven, latest, crossed>>

Damage(key) ==
    /\ Trouble /\ object[key] # Nothing
    /\ object' = [object EXCEPT ![key].whole = FALSE] /\ proven' = [proven EXCEPT ![key] = 0]
    /\ UNCHANGED <<encrypt, tmp, task, used, latest, crossed>>

Next ==
    \/ \E w \in Writers : Rename(w) \/ Verify(w) \/ Fail(w) \/ \E key \in DOMAIN Keys : LocalWrite(w, key)
    \/ \E key \in DOMAIN Keys : Download(key) \/ Damage(key)

Spec == Init /\ [][Next]_vars

-----------------------------------------------------------------------------
(* While no two writers met on a stem, an object is the payload of the last  *)
(* upload of its key that was done, never one that was cut short.            *)
ObjectIsLastUpload == \A k \in DOMAIN Keys : Stem(k) \notin crossed =>
    /\ object[k] # Nothing => object[k].of \in latest[k]
    /\ troubles = 0 => object[k].whole

(* What the check after an upload let pass unsealed reads as it was sent     *)
(* until it changes, also when writers met; a sealed object reads whole or   *)
(* not at all.                                                               *)
ChecksTell ==
    /\ \A k \in DOMAIN Keys : proven[k] # 0 /\ ~object[k].sealed => object[k].of = proven[k] /\ object[k].whole
    /\ answer # NoAnswer => answer.error \/ answer.of # 0 \/ ~encrypt

UploadSound == ObjectIsLastUpload /\ ChecksTell
=============================================================================
