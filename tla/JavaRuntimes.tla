---------------------------- MODULE JavaRuntimes ----------------------------
(***************************************************************************)
(* Java runtimes of init (java.rs): templates in data/java, one for each    *)
(* major version, and the copy an instance has of its own.  Installs are    *)
(* serialised by a lock; removing a template and filling the directory of   *)
(* an instance are not.  Of the files of a runtime there is kept whether    *)
(* they are complete, the major they declare and the major they are.        *)
(***************************************************************************)
EXTENDS Integers, FiniteSets

CONSTANTS
    Callers,    \* requests under way at a time
    Versions,   \* of Minecraft: <<minor, patch>> of 1.minor.patch
    System,     \* major of the java in PATH, 0 if none
    MaxCalls,   \* bound: requests
    MaxTroubles \* bound: failures, removals, changes by hand, crashes

VARIABLES
    templates,  \* by major: "none", "whole" or "broken" (its removal was cut short)
    jre,        \* of the instance
    staging,    \* major that lies unpacked in <id>.partial, 0 if none
    lock,       \* INSTALL_LOCK: its holder, or "free"
    call,       \* by caller
    answer,     \* the last one
    used, troubles,
    odd         \* history: "crossed", "cut"

vars == <<templates, jre, staging, lock, call, answer, used, troubles, odd>>

(* The Java a version of Minecraft is given.                                *)
Recommended(v) ==
    IF v[1] >= 21 \/ (v[1] = 20 /\ v[2] >= 5) THEN 21 ELSE IF v[1] >= 17 THEN 17 ELSE 8

Majors == {Recommended(v) : v \in Versions}
Absent == [bin |-> FALSE, meta |-> 0, actual |-> 0, whole |-> FALSE]
Idle == [pc |-> "idle", for |-> "instance", want |-> 0]
Nothing == [want |-> 0, for |-> "instance", got |-> Absent, quiet |-> FALSE, crossed |-> FALSE]

TypeOK ==
    /\ templates \in [Majors -> {"none", "whole", "broken"}]
    /\ jre.actual \in Majors \cup {0} /\ jre.meta \in Majors \cup {0}
    /\ staging \in Majors \cup {0} /\ lock \in Callers \cup {"free"}
    /\ odd \subseteq {"crossed", "cut"}

Init ==
    /\ templates = [m \in Majors |-> "none"] /\ jre = Absent /\ staging = 0 /\ lock = "free"
    /\ call = [c \in Callers |-> Idle] /\ answer = Nothing
    /\ used = 0 /\ troubles = 0 /\ odd = {}

-----------------------------------------------------------------------------
(* What "java -version" tells of a runtime: the truth, or nothing, as when   *)
(* files are missing or it takes more than 8 s.                             *)
Probe(runtime) == {0, runtime.actual}

(* major_from_home and the probe: what is told has the last word.           *)
Effective_Declared(declared, told) ==  \* seeded fault: what is declared is believed
    IF declared # 0 THEN declared ELSE told

Effective(declared, told) == IF told # 0 THEN told ELSE declared

(* find_managed: a directory with a java and a readable description counts.  *)
Found(m) == templates[m] # "none"

(* probe_system and system_satisfies.                                       *)
SystemFits(m) == System # 0 /\ IF m <= 8 THEN System = 8 ELSE System >= m

At(c, pc) == call[c].pc = pc
Go(c, pc) == call' = [call EXCEPT ![c].pc = pc]
Done(c) == call' = [call EXCEPT ![c] = Idle]
Trouble == troubles < MaxTroubles /\ troubles' = troubles + 1
Answer(c, runtime, quiet) ==
    answer' = [want |-> call[c].want, for |-> call[c].for, got |-> runtime, quiet |-> quiet,
               crossed |-> "crossed" \in odd]

-----------------------------------------------------------------------------
(* ensure_for_spec of control at a start, and install_core for a loader.    *)
Ask(c) ==
    /\ At(c, "idle") /\ used < MaxCalls /\ used' = used + 1
    /\ \E v \in Versions :
          call' = [call EXCEPT ![c] = [pc |-> "look", for |-> "instance", want |-> Recommended(v)]]
    /\ UNCHANGED <<templates, jre, staging, lock, answer, troubles, odd>>

(* ensure_instance_jre: a copy of the right major is taken as it is, any     *)
(* other is removed.                                                        *)
Look(c) ==
    /\ At(c, "look")
    /\ IF ~jre.bin THEN Go(c, "template") /\ UNCHANGED <<jre, answer>>
       ELSE \E told \in Probe(jre) :
            IF Effective(jre.meta, told) = call[c].want
            THEN Done(c) /\ Answer(c, jre, told = 0) /\ UNCHANGED jre
            ELSE Go(c, "template") /\ jre' = Absent /\ UNCHANGED answer
    /\ odd' = IF jre.bin /\ \E d \in Callers \ {c} : call[d].pc \in {"copying", "check", "meta"}
              THEN odd \cup {"crossed"} ELSE odd
    /\ UNCHANGED <<templates, staging, lock, used, troubles>>

(* ensure_template.                                                         *)
Template(c) ==
    /\ At(c, "template")
    /\ Go(c, IF Found(call[c].want) THEN "copy" ELSE "lock")
    /\ UNCHANGED <<templates, jre, staging, lock, answer, used, troubles, odd>>

(* ensure_api, not for an instance: a template, else the java of the system, *)
(* else an install; with "managed" an install at once.                      *)
EnsureApi(c) ==
    /\ At(c, "idle") /\ used < MaxCalls /\ used' = used + 1
    /\ \E m \in Majors, managed \in BOOLEAN :
       LET from(major) == [Absent EXCEPT !.bin = TRUE, !.actual = major]
           reply(r) == /\ answer' = [Nothing EXCEPT !.want = m, !.for = "api", !.got = r]
                       /\ UNCHANGED call
       IN IF Found(m) THEN reply(from(m))
          ELSE IF ~managed /\ SystemFits(m) THEN reply(from(System))
          ELSE /\ call' = [call EXCEPT ![c] = [pc |-> "lock", for |-> "api", want |-> m]]
               /\ UNCHANGED answer
    /\ UNCHANGED <<templates, jre, staging, lock, troubles, odd>>

(* install: under the lock it is looked for once more.                      *)
TakeLock(c) ==
    /\ At(c, "lock") /\ lock = "free"
    /\ IF Found(call[c].want)
       THEN Go(c, "installed") /\ UNCHANGED <<lock, staging>>
       ELSE Go(c, "download") /\ lock' = c /\ staging' = 0
    /\ UNCHANGED <<templates, jre, answer, used, troubles, odd>>

Fail(c) ==
    /\ call[c].pc \in {"download", "publish"} /\ Trouble
    /\ Done(c) /\ lock' = "free"
    /\ UNCHANGED <<templates, jre, staging, answer, used, odd>>

(* resolve_asset, download_to.                                              *)
Download(c) ==
    /\ At(c, "download") /\ Go(c, "unpack")
    /\ UNCHANGED <<templates, jre, staging, lock, answer, used, troubles, odd>>

(* extract_archive, flatten_single_root, and the description.               *)
Unpack(c) ==
    /\ At(c, "unpack") /\ Go(c, "publish")
    /\ staging' = call[c].want
    /\ UNCHANGED <<templates, jre, lock, answer, used, troubles, odd>>

(* The rename makes a template of it.                                       *)
Publish(c) ==
    /\ At(c, "publish") /\ Go(c, "installed")
    /\ templates' = [templates EXCEPT ![call[c].want] = IF staging = call[c].want THEN "whole" ELSE "broken"]
    /\ staging' = 0 /\ lock' = "free"
    /\ UNCHANGED <<jre, answer, used, troubles, odd>>

Installed(c) ==
    /\ At(c, "installed")
    /\ IF call[c].for = "instance" THEN Go(c, "copy") /\ UNCHANGED answer
       ELSE /\ Done(c)
            /\ Answer(c, [Absent EXCEPT !.bin = TRUE, !.actual = call[c].want], FALSE)
    /\ UNCHANGED <<templates, jre, staging, lock, used, troubles, odd>>

-----------------------------------------------------------------------------
(* copy_dir puts one file after another; the description of the template is  *)
(* among them, at a place nobody chose.                                     *)
CopyBegin(c) ==
    /\ At(c, "copy")
    /\ IF Found(call[c].want)
       THEN /\ Go(c, "copying")
            /\ \E bin \in BOOLEAN, meta \in {0, call[c].want} :
                  jre' = [bin |-> bin, meta |-> meta, actual |-> IF bin THEN call[c].want ELSE 0, whole |-> FALSE]
       ELSE Done(c) /\ UNCHANGED jre
    /\ odd' = IF \E d \in Callers \ {c} : call[d].pc \in {"copying", "check", "meta"}
              THEN odd \cup {"crossed"} ELSE odd
    /\ UNCHANGED <<templates, staging, lock, answer, used, troubles>>

CopyEnd(c) ==
    /\ At(c, "copying")
    /\ IF templates[call[c].want] = "none"
       THEN Done(c) /\ UNCHANGED jre /\ odd' = odd \cup {"cut"}
       ELSE /\ Go(c, "check")
            /\ jre' = [bin |-> TRUE, meta |-> call[c].want, actual |-> call[c].want,
                       whole |-> templates[call[c].want] = "whole" /\ "crossed" \notin odd]
            /\ odd' = IF templates[call[c].want] = "broken" THEN odd \cup {"cut"} ELSE odd
    /\ UNCHANGED <<templates, staging, lock, answer, used, troubles>>

(* The copy is asked for its version; another than expected is removed.      *)
Check(c) ==
    /\ At(c, "check")
    /\ IF ~jre.bin THEN Done(c) /\ UNCHANGED <<jre, answer>>
       ELSE \E told \in Probe(jre) :
            IF told \notin {0, call[c].want} THEN Done(c) /\ jre' = Absent /\ UNCHANGED answer
            ELSE Go(c, "meta") /\ UNCHANGED <<jre, answer>>
    /\ UNCHANGED <<templates, staging, lock, used, troubles, odd>>

(* write_instance_meta.                                                     *)
WriteMeta(c) ==
    /\ At(c, "meta") /\ Done(c)
    /\ IF jre = Absent THEN UNCHANGED <<jre, answer>>
       ELSE jre' = [jre EXCEPT !.meta = call[c].want] /\ Answer(c, jre, FALSE)
    /\ UNCHANGED <<templates, staging, lock, used, troubles, odd>>

-----------------------------------------------------------------------------
(* remove, by an operator; it may be cut short.                             *)
Remove(m) ==
    /\ Found(m) /\ Trouble
    /\ \E rest \in {"none", "broken"} : templates' = [templates EXCEPT ![m] = rest]
    /\ UNCHANGED <<jre, staging, lock, call, answer, used, odd>>

(* Somebody puts another java into the directory of the instance.           *)
Swap(m) ==
    /\ jre.bin /\ jre.actual # m /\ Trouble
    /\ \A c \in Callers : call[c].pc \notin {"copying", "check", "meta"}
    /\ jre' = [jre EXCEPT !.actual = m]
    /\ UNCHANGED <<templates, staging, lock, call, answer, used, odd>>

(* init dies and is started again.                                          *)
Crash ==
    /\ Trouble
    /\ odd' = IF \E c \in Callers : At(c, "copying") THEN odd \cup {"cut"} ELSE odd
    /\ call' = [c \in Callers |-> Idle] /\ lock' = "free"
    /\ UNCHANGED <<templates, jre, staging, answer, used>>

Next ==
    \/ \E c \in Callers :
          \/ Ask(c) \/ Look(c) \/ Template(c) \/ EnsureApi(c) \/ TakeLock(c) \/ Fail(c)
          \/ Download(c) \/ Unpack(c) \/ Publish(c) \/ Installed(c)
          \/ CopyBegin(c) \/ CopyEnd(c) \/ Check(c) \/ WriteMeta(c)
    \/ \E m \in Majors : Remove(m) \/ Swap(m)
    \/ Crash

Spec == Init /\ [][Next]_vars

-----------------------------------------------------------------------------
(* An instance is told to start with a java of the major it needs, unless    *)
(* that java did not tell its version or two requests filled the directory   *)
(* at once; for others the java of the system may be newer (java.rs:413).   *)
AnswerFits ==
    LET fits == IF answer.for = "instance" THEN answer.got.actual = answer.want
                ELSE answer.got.actual = answer.want \/ SystemFits(answer.want)
    IN answer.want # 0 => fits \/ answer.quiet \/ answer.crossed

(* It is complete, unless a copy or the removal of a template was cut short  *)
(* before: then nothing ever repairs it (java.rs:423).                      *)
AnswerIsWhole ==
    answer.want # 0 /\ answer.for = "instance" => answer.got.whole \/ odd # {}

(* What lies in a template has been published whole, under the lock: only a  *)
(* removal breaks one (java.rs:36).                                         *)
OneInstaller ==
    /\ \A c \in Callers : call[c].pc \in {"download", "unpack", "publish"} => lock = c
    /\ \A c \in Callers : At(c, "publish") => staging = call[c].want

JavaSound == AnswerFits /\ AnswerIsWhole /\ OneInstaller
=============================================================================
