---------------------------- MODULE ContentLedger ----------------------------
(***************************************************************************)
(* What the content administration promises, without files, sessions or    *)
(* failures: every request takes effect at one instant or not at all.      *)
(*                                                                         *)
(*   - publishing makes the draft the published version and, at the same   *)
(*     instant, registers a backup of the version it replaces;             *)
(*   - importing replaces the draft and registers a backup of the draft    *)
(*     it replaces;                                                        *)
(*   - the latest backup is the current one until it is deleted.           *)
(***************************************************************************)
EXTENDS ContentPayload

CONSTANTS
    Backups,         \* ids of backup artifacts
    Candidates,      \* ids of import candidates
    EditorPayloads,  \* the documents the editor may save
    Documents,       \* the documents that may be uploaded as candidates
    Selections,      \* what the editor may select from a candidate
    None             \* no row, no id

VARIABLES
    draft,      \* the draft row, or None
    published,  \* the published row, or None
    registry,   \* registry[b]: the row that backup b holds, or None
    current,    \* the current backup, or None
    staged,     \* staged[c]: the document of candidate c, or None
    pending     \* the candidate under review, or None

vars == <<draft, published, registry, current, staged, pending>>

Init ==
    /\ draft = None
    /\ published = None
    /\ registry = [b \in Backups |-> None]
    /\ current = None
    /\ staged = [c \in Candidates |-> None]
    /\ pending = None

Register(row) ==
    \E b \in Backups :
        /\ registry[b] = None
        /\ registry' = [registry EXCEPT ![b] = row]
        /\ current' = b

SaveDraft(p) ==
    /\ draft' = RowOf(p)
    /\ UNCHANGED <<published, registry, current, staged, pending>>

Publish ==
    /\ draft # None
    /\ published' = draft
    /\ IF published = None
       THEN UNCHANGED <<registry, current>>
       ELSE Register(published)
    /\ UNCHANGED <<draft, staged, pending>>

CreateBackup(row) ==
    /\ row # None
    /\ Register(row)
    /\ UNCHANGED <<draft, published, staged, pending>>

DeleteBackup(b) ==
    /\ registry[b] # None
    /\ registry' = [registry EXCEPT ![b] = None]
    /\ current' = IF current = b THEN None ELSE current
    /\ UNCHANGED <<draft, published, staged, pending>>

Stage(c, document) ==
    /\ staged[c] = None
    /\ \A other \in Candidates : staged[other] # document
    /\ staged' = [staged EXCEPT ![c] = document]
    /\ pending' = c
    /\ UNCHANGED <<draft, published, registry, current>>

Apply(c, selection) ==
    /\ staged[c] # None
    /\ draft # None
    /\ Applicable(draft.payload, staged[c].payload, selection)
    /\ draft' = RowOf(NextDraft(draft.payload, staged[c].payload, selection))
    /\ Register(draft)
    /\ pending' = None
    /\ UNCHANGED <<published, staged>>

Next ==
    \/ \E p \in EditorPayloads : SaveDraft(p)
    \/ Publish
    \/ CreateBackup(draft)
    \/ CreateBackup(published)
    \/ \E b \in Backups : DeleteBackup(b)
    \/ \E c \in Candidates, document \in Documents : Stage(c, document)
    \/ \E c \in Candidates, selection \in Selections : Apply(c, selection)

Spec == Init /\ [][Next]_vars
=============================================================================
