----------------------------- MODULE AuditChain -----------------------------
(***************************************************************************)
(* The chain of audit entries of the workflow library (workflow.rs): each    *)
(* entry carries the digest of its own text, which holds the digest of the  *)
(* one before.  A digest is modelled by the text it is of, so two entries   *)
(* have the same digest just when they are written the same.                *)
(***************************************************************************)
EXTENDS Integers, Sequences, SequencesExt

CONSTANTS
    Parts,      \* texts of a field, as sequences; "|" may occur in one
    MaxEntries, \* bound
    MaxDamage   \* bound: what happens to the stored list

VARIABLES
    chain,      \* sequence of [seq, action, actor, prev, hash]
    damage,
    written     \* history: what was appended

vars == <<chain, damage, written>>

Genesis == <<"genesis">>

-----------------------------------------------------------------------------
(* The fields are put one after the other with "|" between them.             *)
AuditHash(e) == <<e.seq>> \o <<"|">> \o e.action \o <<"|">> \o e.actor \o <<"|">> \o e.prev

LastHash(c) == IF c = <<>> THEN Genesis ELSE Last(c).hash

TypeOK ==
    /\ Len(chain) <= MaxEntries /\ damage \in 0..MaxDamage
    /\ \A i \in DOMAIN chain : chain[i].seq \in 1..MaxEntries /\ {chain[i].action, chain[i].actor} \subseteq Parts

Init == chain = <<>> /\ damage = 0 /\ written = <<>>

AppendAudit(action, actor) ==
    LET e == [seq |-> Len(chain) + 1, action |-> action, actor |-> actor, prev |-> LastHash(chain), hash |-> <<>>]
        new == [e EXCEPT !.hash = AuditHash(e)]
    IN  /\ Len(chain) < MaxEntries /\ damage = 0
        /\ chain' = Append(chain, new) /\ written' = Append(written, new)
        /\ UNCHANGED damage

Damaged == damage < MaxDamage /\ damage' = damage + 1 /\ UNCHANGED written

(* The list is kept by its owner: an entry may change, vanish or move there. *)
Change(i, field, part) ==
    /\ Damaged
    /\ chain' = [chain EXCEPT ![i] = IF field = "action" THEN [@ EXCEPT !.action = part] ELSE [@ EXCEPT !.actor = part]]

Lose(i) == Damaged /\ chain' = RemoveAt(chain, i)

Swap(i, j) == Damaged /\ chain' = [chain EXCEPT ![i] = chain[j], ![j] = chain[i]]

Next ==
    \/ \E action, actor \in Parts : AppendAudit(action, actor)
    \/ \E i \in DOMAIN chain :
        \/ Lose(i)
        \/ \E field \in {"action", "actor"}, part \in Parts : Change(i, field, part)
        \/ \E j \in DOMAIN chain : i < j /\ Swap(i, j)

Spec == Init /\ [][Next]_vars

-----------------------------------------------------------------------------
Bad_Links(c) ==  \* seeded fault: only the links and the numbers are looked at
    {i \in DOMAIN c : c[i].seq # i \/ c[i].prev # IF i = 1 THEN Genesis ELSE c[i - 1].hash}

(* Entries that verify_audit_chain takes exception to: the number, the link  *)
(* to the one before, the text.                                              *)
Bad(c) ==
    {i \in DOMAIN c : \/ c[i].seq # i
                      \/ c[i].prev # IF i = 1 THEN Genesis ELSE c[i - 1].hash
                      \/ AuditHash(c[i]) # c[i].hash}

Verified == Bad(chain) = {}

Text(c) == [i \in DOMAIN c |-> AuditHash(c[i])]

(* What was appended verifies, and a list that verifies is a beginning of    *)
(* it, entry by entry written as it was: a change, a gap or another order is *)
(* found, only entries missing at the end are not.                           *)
VerifiedIsWhatWasWritten ==
    /\ damage = 0 => Verified
    /\ Verified => IsPrefix(Text(chain), Text(written))
=============================================================================
