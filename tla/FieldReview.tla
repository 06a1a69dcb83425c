---------------------------- MODULE FieldReview ----------------------------
(***************************************************************************)
(* The review of an import candidate field by field (import_field_review): *)
(* the differences between the draft and the candidate, and the            *)
(* application of the fields that the reviewer has selected and may have   *)
(* edited, with the draft changing between the two.  The comparison of     *)
(* backups, candidates and snapshots by section (SystemCompareService over *)
(* the Python fallback of content_diff_native, as in a checkout) stands    *)
(* beside it, as both answer the question what has changed.                *)
(*                                                                         *)
(* A document is a tree.  A JSON pointer is the sequence of its segments:  *)
(* the escapes "~0" and "~1" make the text of different sequences          *)
(* different, and paths are short of their 512 characters.  The order in   *)
(* which a review lists its fields is left out; a request may name them in *)
(* any order.                                                              *)
(***************************************************************************)
EXTENDS Naturals, Sequences, SequencesExt, FiniteSets

CONSTANTS
    Keys,        \* the keys of dictionaries
    Ids,         \* what is a non-empty string under the key "id"
    Values,      \* what is neither a dictionary nor a list nor null
    Versions,    \* what is a non-empty string under the key "version"
    Depth,       \* bound: how deep documents nest
    Drafts,      \* the documents that an editor may save
    Candidates,  \* the documents that may be imported
    Entered,     \* the values that a reviewer may put in the place of another
    MaxPatches,  \* bound: fields that one request applies
    MaxEdited,   \* bound: values that a reviewer has edited in one request
    MaxSaves,    \* bound: saves by other editors
    MaxApplies   \* bound: applications of the candidate

(***************************************************************************)
(* Trees.                                                                  *)
(***************************************************************************)
Leaf(v) == [value |-> v]
Dict(f) == [fields |-> f]
List(s) == [items |-> s]

Null == [null |-> TRUE]
Missing == [missing |-> TRUE]

\* A ValueError of the application: the request is answered with 400.
Failed == [failed |-> TRUE]

SystemRootFields == {"version", "draft", "needsManualReview"}

\* The values that nest at most d levels deep; a dictionary maps the keys
\* that it does not have to Missing.
Node[d \in 0 .. Depth] ==
    IF d = 0 THEN [value : Values] \cup {Null}
    ELSE Node[d - 1] \cup [fields : [Keys -> Node[d - 1] \cup {Missing}]]
                     \cup [items : Seq(Node[d - 1])]

Document == [fields : [Keys -> Node[Depth - 1] \cup {Missing}]]

\* The segment that selects the list item with that id.
ItemSegment(id) == "@id=" \o id
ItemSegments == {ItemSegment(id) : id \in Ids}
SelectedId(segment) == CHOOSE id \in Ids : ItemSegment(id) = segment

\* Different ids have different segments; what is saved, imported and entered is
\* a document and a value.
ASSUME TreesAssumption ==
    /\ SystemRootFields \cup {"id"} \subseteq Keys
    /\ Ids \cup Versions \cup {"true", "false"} \subseteq Values
    /\ "portfolio.v1" \in Versions
    /\ \A i, j \in Ids : ItemSegment(i) = ItemSegment(j) => i = j
    /\ Depth \in Nat \ {0} /\ MaxPatches \in Nat
    /\ Drafts \subseteq Document /\ Candidates \subseteq Document
    /\ Entered \subseteq Node[Depth]

IsDict(n) == "fields" \in DOMAIN n
IsList(n) == "items" \in DOMAIN n

Get(dict, key) == IF key \in Keys THEN dict.fields[key] ELSE Missing

\* The dictionary with that value under the key, or without the key.
Put(dict, key, value) == Dict([dict.fields EXCEPT ![key] = value])

Identified(n) == IsDict(n) /\ \E id \in Ids : Get(n, "id") = Leaf(id)
IdOf(n) == Get(n, "id").value

\* _index_stable_items: every item has an id, and no two have the same.
Stable(n) ==
    /\ IsList(n)
    /\ \A i \in DOMAIN n.items : Identified(n.items[i])
    /\ \A i, j \in DOMAIN n.items : IdOf(n.items[i]) = IdOf(n.items[j]) => i = j

IdsIn(list) == {IdOf(list.items[i]) : i \in DOMAIN list.items}

\* _find_list_item_index: the first item that the segment selects, or 0.  A
\* review names items by their ids only, never by their position.
Find(list, segment) ==
    SelectInSeq(list.items, LAMBDA n : Identified(n) /\ segment = ItemSegment(IdOf(n)))

\* What the segment leads to from a node.
Child(node, segment) ==
    CASE IsDict(node) -> Get(node, segment)
      [] IsList(node) -> IF Find(node, segment) = 0 THEN Missing
                         ELSE node.items[Find(node, segment)]
      [] OTHER -> Missing

(***************************************************************************)
(* build_import_field_review.                                              *)
(***************************************************************************)
\* Variant of ComparedIds: items that only the draft has are passed over.
ComparedIds_CandidateOnly(current, candidate) == IdsIn(candidate)

ComparedIds(current, candidate) == IdsIn(candidate) \cup IdsIn(current)

\* Two values that are compared part by part.
Opened(current, candidate) ==
    \/ IsDict(current) /\ IsDict(candidate)
    \/ Stable(current) /\ Stable(candidate)

Call(current, candidate, path) ==
    [current |-> current, candidate |-> candidate, path |-> path]

\* The keys, or the items, that a call of _collect_changes goes on with.
Segments(call) ==
    IF IsDict(call.current)
    THEN {k \in Keys : /\ Get(call.current, k) # Missing \/ Get(call.candidate, k) # Missing
                       /\ call.path = <<>> => k \notin SystemRootFields}
    ELSE {ItemSegment(id) : id \in ComparedIds(call.current, call.candidate)}

InnerCalls(call) ==
    IF call.current # call.candidate /\ Opened(call.current, call.candidate)
    THEN {Call(Child(call.current, s), Child(call.candidate, s), Append(call.path, s)) :
             s \in Segments(call)}
    ELSE {}

\* All calls of _collect_changes down to a depth of the recursion.
CollectChanges(current, candidate) ==
    LET calls[d \in 0 .. Depth] ==
            {Call(current, candidate, <<>>)} \cup
            IF d = 0 THEN {} ELSE UNION {InnerCalls(call) : call \in calls[d - 1]}
    IN calls[Depth]

Change(call) ==
    [path      |-> call.path,
     operation |-> IF call.candidate = Missing THEN "remove" ELSE "set",
     current   |-> call.current,
     candidate |-> call.candidate]

Review(current, candidate) ==
    {Change(call) : call \in {c \in CollectChanges(current, candidate) :
                                c.current # c.candidate /\ ~Opened(c.current, c.candidate)}}

(***************************************************************************)
(* apply_import_field_patches.                                             *)
(***************************************************************************)
\* What _resolve_parent puts in the place of a container that is missing.
NewContainer(segment) ==
    IF segment \in ItemSegments THEN List(<<>>) ELSE Dict([k \in Keys |-> Missing])
NewItem(segment) ==
    Dict([k \in Keys |-> IF k = "id" THEN Leaf(SelectedId(segment)) ELSE Missing])

\* One step of _resolve_parent: where the segment leads, and next after it.
\* Below a key that is missing there is nothing to remove.
Into(node, segment, next, create) ==
    CASE Child(node, segment) # Missing -> Child(node, segment)
      [] Child(node, segment) = Missing /\ IsDict(node) ->
           IF create THEN NewContainer(next) ELSE Missing
      [] Child(node, segment) = Missing /\ IsList(node) ->
           IF create /\ segment \in ItemSegments THEN NewItem(segment) ELSE Failed
      [] OTHER -> IF node = Missing THEN Missing ELSE Failed

\* The containers on the way to the last segment.
Containers(document, path, create) ==
    LET within[i \in 1 .. Len(path)] ==
            IF i = 1 THEN document ELSE Into(within[i - 1], path[i - 1], path[i], create)
    IN within

\* Variant of ReplaceItem: an item that is not there is not appended.
ReplaceItem_NoAppend(list, segment, item) ==
    LET i == Find(list, segment) IN
    IF i = 0 THEN list ELSE List([list.items EXCEPT ![i] = item])

\* Variant of ReplaceItem: there is nothing to replace.
ReplaceItem_Strict(list, segment, item) ==
    LET i == Find(list, segment) IN
    IF i = 0 THEN Failed ELSE List([list.items EXCEPT ![i] = item])

\* The item in its place, or at the end if it is a new one.
ReplaceItem(list, segment, item) ==
    LET i == Find(list, segment) IN
    CASE i # 0 -> List([list.items EXCEPT ![i] = item])
      [] i = 0 /\ segment \in ItemSegments -> List(Append(list.items, item))
      [] OTHER -> Failed

\* Variant of WithoutItem: the items behind it go, too.
WithoutItem_Truncates(list, segment) ==
    LET i == Find(list, segment) IN
    IF i = 0 THEN list ELSE List(SubSeq(list.items, 1, i - 1))

WithoutItem(list, segment) ==
    LET i == Find(list, segment) IN
    IF i = 0 THEN list ELSE List(RemoveAt(list.items, i))

\* The node with another value where the segment leads, or, if that is Missing,
\* with none.
Replaced(node, segment, new) ==
    CASE new = Failed -> Failed
      [] new # Failed /\ IsDict(node) -> Put(node, segment, new)
      [] new # Failed /\ IsList(node) ->
           IF new = Missing THEN WithoutItem(node, segment) ELSE ReplaceItem(node, segment, new)
      [] OTHER -> IF new = Missing THEN node ELSE Failed

\* _set_path and _remove_path: the last container is changed, and with it
\* those it is in.  A removal sends no value.
ApplyPatch(document, patch) ==
    LET within == Containers(document, patch.path, patch.operation = "set")
        after[i \in 1 .. Len(patch.path) + 1] ==
            IF i = Len(patch.path) + 1 THEN patch.value
            ELSE Replaced(within[i], patch.path[i], after[i + 1])
    IN after[1]

\* One patch after the other.
ApplyPatches(document, patches) ==
    LET after[i \in 0 .. Len(patches)] ==
            IF i = 0 THEN document ELSE ApplyPatch(after[i - 1], patches[i])
    IN after[Len(patches)]

\* Every patch is in the review of the draft as it is now, and none twice.
InReview(patches, review) ==
    /\ patches # <<>>
    /\ \A i, j \in DOMAIN patches : patches[i].path = patches[j].path => i = j
    /\ \A i \in DOMAIN patches :
          /\ Head(patches[i].path) \notin SystemRootFields
          /\ \E field \in review :
                patches[i].path = field.path /\ patches[i].operation = field.operation

\* _extract_content_schema_version: a version that is missing, empty or not a
\* string is the default.
ContentSchemaVersion(payload) ==
    IF \E v \in Versions : Get(payload, "version") = Leaf(v)
    THEN Get(payload, "version") ELSE Leaf("portfolio.v1")

\* What apply_import_candidate_to_draft adds to the patched payload.
Stamp(document, current, candidate) ==
    LET doubtful == Leaf("true") \in {Get(current, "needsManualReview"),
                                      Get(candidate, "needsManualReview")}
    IN IF document = Failed THEN Failed
       ELSE Put(Put(Put(document, "version", ContentSchemaVersion(candidate)),
                    "draft", Leaf("true")),
                "needsManualReview", Leaf(IF doubtful THEN "true" ELSE "false"))

(***************************************************************************)
(* SystemCompareService: which sections of two payloads differ, as the     *)
(* Python comparison of content_diff_native sees it: in a checkout, where  *)
(* tools/ is there and its C++ extension is not built.  In the backend's   *)
(* image, which has no tools/, the import of content_diff_native raises    *)
(* and no comparison is answered.  A section that is null is like one that *)
(* is not there.                                                           *)
(***************************************************************************)
\* Variant of Compared: only the sections of the left document are looked at.
Compared_LeftOnly(left, right) ==
    {k \in Keys : Get(left, k) # Missing /\ Get(left, k) # Get(right, k)}

Compared(left, right) ==
    {k \in Keys :
        /\ Get(left, k) # Get(right, k)
        /\ {Get(left, k), Get(right, k)} # {Null, Missing}}

VARIABLES
    draft,      \* the draft snapshot's payload
    candidate,  \* the payload of the import candidate
    backup,     \* the payload of the last pre-replace backup, or Missing
    shown,      \* the review that the admin panel shows: its fields and of which draft
    last,       \* history: the last application, or "none" and nothing else
    saves, applies

vars == <<draft, candidate, backup, shown, last, saves, applies>>

compare_backup_to_snapshot == Compared(backup, draft)
compare_import_candidate_to_snapshot == Compared(candidate, draft)

NoReview == [fields |-> {}, of |-> Missing]

NoApplication == [status |-> "none", before |-> Missing, patches |-> <<>>, fresh |-> TRUE]

Init ==
    /\ draft \in Drafts
    /\ candidate \in Candidates
    /\ backup = Missing
    /\ shown = NoReview
    /\ last = NoApplication
    /\ saves = 0 /\ applies = 0

\* Another editor, or the reviewer in another tab, saves a draft.
SaveDraft ==
    /\ saves < MaxSaves
    /\ saves' = saves + 1
    /\ draft' \in Drafts \ {draft}
    /\ last' = NoApplication
    /\ UNCHANGED <<candidate, backup, shown, applies>>

\* handleImportCandidateFieldReview, get_import_candidate_field_review.
OpenReview ==
    /\ shown.of # draft
    /\ shown' = [fields |-> Review(draft, candidate), of |-> draft]
    /\ UNCHANGED <<draft, candidate, backup, last, saves, applies>>

Patch(field, value) == [path |-> field.path, operation |-> field.operation, value |-> value]

\* The requests that can be sent: some of the fields that the panel shows, in
\* any order, with the candidate's value or an edited one.
Selections ==
    UNION {LET settable == {i \in DOMAIN chosen : chosen[i].operation = "set"} IN
           UNION {{[i \in DOMAIN chosen |->
                       Patch(chosen[i], IF i \in edited THEN value[i] ELSE chosen[i].candidate)] :
                      value \in [edited -> Entered]} :
                  edited \in {e \in SUBSET settable : Cardinality(e) <= MaxEdited}} :
           chosen \in {c \in SeqOf(shown.fields, MaxPatches) :
                         c # <<>> /\ \A i, j \in DOMAIN c : c[i] = c[j] => i = j}}

\* handleImportCandidateApply with field_replace: refused as a whole, or a
\* backup of the draft and the draft with the selected fields.
ApplyFields(patches) ==
    LET next == Stamp(ApplyPatches(draft, patches), draft, candidate)
        accepted == InReview(patches, Review(draft, candidate)) /\ next # Failed
    IN
    /\ applies < MaxApplies
    /\ accepted => next \in Document
    /\ applies' = applies + 1
    /\ last' = [status  |-> IF accepted THEN "applied" ELSE "refused",
                before  |-> draft,
                patches |-> patches,
                fresh   |-> shown.of = draft]
    /\ draft' = IF accepted THEN next ELSE draft
    /\ backup' = IF accepted THEN draft ELSE backup
    /\ shown' = IF accepted THEN NoReview ELSE shown
    /\ UNCHANGED <<candidate, saves>>

Next ==
    \/ SaveDraft
    \/ OpenReview
    \/ \E patches \in Selections : ApplyFields(patches)

Spec == Init /\ [][Next]_vars

(***************************************************************************)
(* Properties.                                                             *)
(***************************************************************************)
Statuses == {"none", "applied", "refused"}

TypeOK ==
    /\ draft \in Document /\ candidate \in Document /\ backup \in Document \cup {Missing}
    /\ last.status \in Statuses
    /\ last.status # "none" => last.before \in Document

Applied == last.status = "applied"

\* No value that was sent was edited.
Unedited ==
    \A i \in DOMAIN last.patches : \A field \in Review(last.before, candidate) :
        last.patches[i].path = field.path => last.patches[i].value = field.candidate

SentPaths == {last.patches[i].path : i \in DOMAIN last.patches}

\* A reference definition of equal content: a list whose items have ids of
\* their own is a mapping from ids to items, its order does not count.
Content[d \in 0 .. Depth] ==
    [n \in Node[d] \cup {Missing} |->
        CASE IsDict(n) -> [dict |-> [k \in Keys |-> Content[d - 1][Get(n, k)]]]
          [] Stable(n) -> [byId |-> [id \in IdsIn(n) |->
                                        Content[d - 1][Child(n, ItemSegment(id))]]]
          [] OTHER -> n]

Body(document) ==
    Content[Depth][Dict([k \in Keys |-> IF k \in SystemRootFields THEN Missing
                                       ELSE Get(document, k)])]

\* What a path leads to from a node.
At(node, path) ==
    LET walk[i \in 0 .. Len(path)] ==
            IF i = 0 THEN node ELSE Child(walk[i - 1], path[i])
    IN walk[Len(path)]

\* The review is empty exactly if the draft and the candidate have the same
\* content (build_import_field_review); a changed order is not shown.
ReviewIsTheDifference == Review(draft, candidate) = {} <=> Body(draft) = Body(candidate)

\* When unedited fields have been applied, the review of the new draft shows
\* exactly the fields that were left out, unchanged.
SelectionExact ==
    Applied /\ Unedited =>
        Review(draft, candidate)
            = {field \in Review(last.before, candidate) : field.path \notin SentPaths}

\* No item that was sent has another id than the one its path selects.
IdsKept ==
    \A i \in DOMAIN last.patches :
        LET patch == last.patches[i] IN
        patch.operation = "set" /\ Last(patch.path) \in ItemSegments
            => Identified(patch.value) /\ ItemSegment(IdOf(patch.value)) = Last(patch.path)

\* Every value that was sent, edited or not, is in the new draft under its
\* path, and every removed path is gone, unless the reviewer has changed the
\* id of an item.
PatchesLand ==
    Applied /\ IdsKept =>
        \A i \in DOMAIN last.patches :
            At(draft, last.patches[i].path) = last.patches[i].value

\* The two answers to "what has changed" agree: the comparison of the
\* candidate with the draft names every section that the review has fields of,
\* unless one side has null there and the other nothing, and a section that it
\* alone names differs in the order of its items only.
CandidateComparisonAgrees ==
    LET reviewed == {Head(field.path) : field \in Review(draft, candidate)}
        compared == compare_import_candidate_to_snapshot \ SystemRootFields
        SameContent(m, n) == Content[Depth - 1][m] = Content[Depth - 1][n]
    IN /\ \A k \in reviewed \ compared : {Get(draft, k), Get(candidate, k)} = {Null, Missing}
       /\ \A k \in compared \ reviewed : SameContent(Get(draft, k), Get(candidate, k))

\* The comparison of the backup with the draft that replaced it names no
\* section but those of the fields that were sent (applied_sections), and, if
\* none was edited, all of them but those where null stands against nothing.
BackupComparisonAgrees ==
    Applied =>
        LET sections == {Head(path) : path \in SentPaths}
            changed == compare_backup_to_snapshot \ SystemRootFields
        IN /\ changed \subseteq sections
           /\ Unedited => \A k \in sections \ changed :
                 {Get(backup, k), Get(draft, k)} = {Null, Missing}

\* What the panel compares section by section agrees with what it reviews and
\* applies field by field: what an application changes is named before it,
\* and afterwards by the backup with which it can be taken back.
ComparisonAgrees == CandidateComparisonAgrees /\ BackupComparisonAgrees

\* A request is refused only if the draft was changed after its review.
RefusedOnlyWhenStale == last.status = "refused" => ~last.fresh
=============================================================================
