--------------------------- MODULE ContentPayload ---------------------------
(***************************************************************************)
(* The content documents the admin handlers move around, and the pure      *)
(* functions the handlers apply to them.                                   *)
(*                                                                         *)
(* A payload is the JSON document of one portfolio.  What the handlers     *)
(* tell apart in it is its schema version, its needsManualReview flag, and *)
(* its top-level sections; a section's value matters only for the managed  *)
(* files (assets) that it refers to.  A section may be absent.             *)
(***************************************************************************)
EXTENDS FiniteSets

CONSTANTS
    Assets,      \* ids of managed content files
    Sections,    \* names of the top-level sections of a payload
    Values,      \* what a section may contain
    Removed,     \* no value: the section is absent
    AssetsOf,    \* AssetsOf[v]: the asset ids that value v refers to
    Versions     \* content schema versions ("portfolio.v1", ...)

ASSUME PayloadAssumption ==
    /\ AssetsOf \in [Values -> SUBSET Assets]
    /\ Removed \notin Values

Bodies == UNION {[S -> Values] : S \in SUBSET Sections}

Payload == [version : Versions, review : BOOLEAN, body : Bodies]

(***************************************************************************)
(* A row of public.portfolio_snapshot: the document (content_json, with    *)
(* the checksum computed from it) and the separate column                  *)
(* content_schema_version, which save_snapshot writes next to it.          *)
(***************************************************************************)
SnapshotRow == [payload : Payload, version : Versions]

\* A staged candidate file: a payload and the files bundled with it.
Document == [payload : Payload, assets : SUBSET Assets]

Refs(p) == UNION {AssetsOf[p.body[s]] : s \in DOMAIN p.body}

RowOf(p) == [payload |-> p, version |-> p.version]

(***************************************************************************)
(* What the editor selects from a candidate: all of it, some sections, or  *)
(* some of the field changes of the review.  Field changes are grouped by  *)
(* section: patches[s] is what section s becomes, a value the editor may   *)
(* have altered, or Removed.                                               *)
(***************************************************************************)
Patches == UNION {[S -> Values \cup {Removed}] : S \in SUBSET Sections}

Selection ==
    [mode : {"full_replace"}]
    \cup [mode : {"partial_replace"}, sections : SUBSET Sections]
    \cup [mode : {"field_replace"}, patches : Patches]

Section(p, s) == IF s \in DOMAIN p.body THEN p.body[s] ELSE Removed

ReplaceableSections(candidate) == DOMAIN candidate.body

\* The review offers the sections that differ, for removal if the candidate
\* does not have them.
ReviewOffers(current, candidate, s, value) ==
    /\ Section(current, s) # Section(candidate, s)
    /\ (value = Removed) = (Section(candidate, s) = Removed)

\* Selections that are not refused before anything is changed.
Applicable(current, candidate, selection) ==
    \/ /\ selection.mode = "full_replace"
       /\ ReplaceableSections(candidate) # {}
    \/ /\ selection.mode = "partial_replace"
       /\ selection.sections # {}
       /\ selection.sections \subseteq ReplaceableSections(candidate)
    \/ /\ selection.mode = "field_replace"
       /\ DOMAIN selection.patches # {}
       /\ \A s \in DOMAIN selection.patches :
            ReviewOffers(current, candidate, s, selection.patches[s])

\* The value of section s after the import.
NextSection(current, candidate, selection, s) ==
    CASE selection.mode = "full_replace" -> Section(candidate, s)
      [] selection.mode = "partial_replace" ->
            IF s \in selection.sections THEN Section(candidate, s) ELSE Section(current, s)
      [] selection.mode = "field_replace" ->
            IF s \in DOMAIN selection.patches THEN selection.patches[s] ELSE Section(current, s)

NextBody(current, candidate, selection) ==
    LET next(s) == NextSection(current, candidate, selection, s)
    IN  [s \in {t \in Sections : next(t) # Removed} |-> next(s)]

\* Variant of NextDraft: the review flag of the current draft is dropped.
NextDraft_ForgetsReview(current, candidate, selection) ==
    [version |-> candidate.version,
     review  |-> candidate.review,
     body    |-> NextBody(current, candidate, selection)]

(***************************************************************************)
(* The draft after an import: the version is the candidate's, and a        *)
(* request for manual review, of either side, survives.                    *)
(***************************************************************************)
NextDraft(current, candidate, selection) ==
    [version |-> candidate.version,
     review  |-> current.review \/ candidate.review,
     body    |-> NextBody(current, candidate, selection)]
=============================================================================
