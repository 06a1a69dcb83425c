------------------------- MODULE ContentAdminProofs -------------------------
(***************************************************************************)
(* What holds of ContentAdmin for every number of requests and every set   *)
(* of backups, candidates, files and documents, however requests           *)
(* interleave: types, no file is left behind by a request that fails, no   *)
(* row is held by two transactions, no pointer dangles.                    *)
(***************************************************************************)
EXTENDS ContentAdmin, TLAPS

(***************************************************************************)
(* The functions on documents.                                             *)
(***************************************************************************)
LEMMA BodyFunction ==
    ASSUME NEW p \in Payload
    PROVE  /\ DOMAIN p.body \subseteq Sections
           /\ \A s \in DOMAIN p.body : p.body[s] \in Values
BY DEF Payload, Bodies

LEMMA RefsType ==
    ASSUME NEW p \in Payload
    PROVE  Refs(p) \subseteq Assets
BY BodyFunction, PayloadAssumption DEF Refs

LEMMA RowOfType ==
    ASSUME NEW p \in Payload
    PROVE  RowOf(p) \in SnapshotRow
BY DEF RowOf, SnapshotRow, Payload

LEMMA SectionType ==
    ASSUME NEW p \in Payload, NEW s
    PROVE  Section(p, s) \in Values \cup {Removed}
BY BodyFunction DEF Section

LEMMA NextSectionType ==
    ASSUME NEW current \in Payload, NEW candidate \in Payload,
           NEW selection \in Selection, NEW s
    PROVE  NextSection(current, candidate, selection, s) \in Values \cup {Removed}
<1>1. Section(current, s) \in Values \cup {Removed} /\ Section(candidate, s) \in Values \cup {Removed}
  BY SectionType
<1>2. CASE selection \in [mode : {"full_replace"}]
  BY <1>1, <1>2 DEF NextSection
<1>3. CASE selection \in [mode : {"partial_replace"}, sections : SUBSET Sections]
  BY <1>1, <1>3 DEF NextSection
<1>4. CASE selection \in [mode : {"field_replace"}, patches : Patches]
  <2>1. selection.mode = "field_replace" /\ selection.patches \in Patches
    BY <1>4
  <2>2. ASSUME s \in DOMAIN selection.patches
        PROVE  selection.patches[s] \in Values \cup {Removed}
    BY <2>1, <2>2 DEF Patches
  <2> QED BY <1>1, <2>1, <2>2 DEF NextSection
<1> QED BY <1>2, <1>3, <1>4 DEF Selection

LEMMA NextDraftType ==
    ASSUME NEW current \in Payload, NEW candidate \in Payload, NEW selection \in Selection
    PROVE  NextDraft(current, candidate, selection) \in Payload
<1> DEFINE body == NextBody(current, candidate, selection)
           next(s) == NextSection(current, candidate, selection, s)
           S == {t \in Sections : next(t) # Removed}
<1>1. \A s \in S : next(s) \in Values
  BY NextSectionType
<1>2. body \in [S -> Values]
  <2>1. body = [s \in S |-> next(s)]
    BY DEF NextBody
  <2> HIDE DEF next, body
  <2> QED BY <1>1, <2>1
<1>3. body \in Bodies
  <2>1. S \in SUBSET Sections
    OBVIOUS
  <2> HIDE DEF S, body
  <2> QED BY <1>2, <2>1 DEF Bodies
<1>4. (current.review \/ candidate.review) \in BOOLEAN
  OBVIOUS
<1>5. candidate.version \in Versions
  BY DEF Payload
<1> HIDE DEF body
<1> QED BY <1>3, <1>4, <1>5 DEF NextDraft, Payload, body

(***************************************************************************)
(* Types.  A local variable that a step uses has been set by then: at each *)
(* label, Locals says which variables hold more than their initial None.   *)
(***************************************************************************)
BackupLabels == {"bundleAssets", "writeBundle", "insertBackup", "pointSelect", "pointFlush"}

SnapshotLabels == {"selectSnapshot", "flushSnapshot"}

RestoreLabels == {"probeAsset", "restoreAsset"}

ImportLabels == {"loadCandidate", "readDraft"} \cup BackupLabels \cup RestoreLabels

BackingOps == {"publish", "createBackup", "applyImport"}

Locals(label, l) ==
    /\ label \in {"readPublished", "readSource", "readDraft", "readCandidate"} \cup ImportLabels
          => l.op \in BackingOps /\ l.backup \in Backups
    /\ label \in BackupLabels => l.source \in SnapshotRow
    /\ label \in BackupLabels /\ l.op # "createBackup" => l.next \in SnapshotRow
    /\ label \in SnapshotLabels => l.op \in {"saveDraft", "publish", "applyImport"}
    /\ label \in SnapshotLabels \cup RestoreLabels \cup {"readPublished"} => l.next \in SnapshotRow
    /\ label = "readPublished" => l.op = "publish"
    /\ label = "readSource" => l.op = "createBackup"
    /\ label = "readDraft" => l.op \in {"publish", "applyImport"}
    /\ label \in RestoreLabels \cup {"readCandidate", "loadCandidate"} => l.op = "applyImport"
    /\ label \in {"readBackup", "unlinkBundle", "selectRow", "deleteRow", "unpoint", "clearCurrent"}
          => l.victim \in Backups
    /\ label \in {"writeAsset", "restoreAsset"} => l.asset \in Assets
    /\ label \in {"writeCandidate", "insertCandidate"} =>
          l.cand \in Candidates /\ l.document \in Document /\ l.backup = None
    /\ l.op = "applyImport" /\ label \in {"readCandidate"} \cup ImportLabels =>
          l.cand \in Candidates /\ l.selection \in Selection
    /\ l.op = "applyImport" /\ label \in ImportLabels => l.document \in Document

USE DEF BackupLabels, SnapshotLabels, RestoreLabels, ImportLabels, BackingOps

DbOK == DOMAIN db = Rows /\ \A n \in Rows : db[n] = None \/ db[n] \in RowType(n)

TxOK ==
    /\ DOMAIN tx = Requests
    /\ \A r \in Requests :
          /\ DOMAIN tx[r] = Rows
          /\ \A n \in Rows : tx[r][n] \in {None, Unwritten} \/ tx[r][n] \in RowType(n)

FilesOK ==
    /\ bundles \subseteq Backups /\ documents \subseteq Candidates /\ assets \subseteq Assets
    /\ strays \subseteq Backups \cup Candidates

ControlOK == pc \in [Requests -> Labels] /\ ctx \in [Requests -> Context]

LocalsOK == \A r \in Requests : Locals(pc[r], ctx[r])

TypeInv == DbOK /\ TxOK /\ FilesOK /\ ControlOK /\ LocalsOK

LEMMA TypeParts == TypeInv => TypeOK
BY DEF TypeInv, TypeOK, DbOK, TxOK, FilesOK, ControlOK

LEMMA StoresSame ==
    ASSUME TypeInv, UNCHANGED stores
    PROVE  DbOK' /\ TxOK' /\ FilesOK'
BY DEF TypeInv, stores, DbOK, TxOK, FilesOK

LEMMA FilesSame ==
    ASSUME TypeInv, UNCHANGED files
    PROVE  FilesOK'
BY DEF TypeInv, files, FilesOK

LEMMA DbSame ==
    ASSUME TypeInv, UNCHANGED db
    PROVE  DbOK'
BY DEF TypeInv, DbOK

LEMMA RowTypes ==
    /\ \A k \in Kinds : k \in Rows /\ RowType(k) = SnapshotRow
    /\ "state" \in Rows /\ RowType("state") = StateRow
    /\ \A b \in Backups : b \in Rows /\ RowType(b) = SnapshotRow
    /\ \A c \in Candidates : c \in Rows /\ RowType(c) = Document
BY RowsAssumption DEF Rows, RowType, Kinds

LEMMA ViewType ==
    ASSUME DbOK, TxOK, NEW r \in Requests, NEW n \in Rows
    PROVE  View(r, n) = None \/ View(r, n) \in RowType(n)
BY DEF DbOK, TxOK, View

LEMMA WriteType ==
    ASSUME TxOK, NEW r \in Requests, NEW n \in Rows, NEW row,
           row = None \/ row \in RowType(n), Write(r, n, row)
    PROVE  TxOK'
BY DEF TxOK, Write, RowType

LEMMA RollbackType ==
    ASSUME TxOK, NEW r \in Requests, Rollback(r)
    PROVE  TxOK'
BY DEF TxOK, Rollback, NoWrites, RowType

LEMMA NoContextType == NoContext \in Context
BY DEF NoContext, Context, Kinds

LEMMA Move ==
    ASSUME ControlOK, LocalsOK, NEW r \in Requests, NEW label \in Labels, NEW l \in Context,
           Locals(label, l), GoTo(r, label), ctx' = [ctx EXCEPT ![r] = l]
    PROVE  ControlOK' /\ LocalsOK'
<1>1. ControlOK'
  BY DEF ControlOK, GoTo
<1>2. pc'[r] = label /\ ctx'[r] = l /\ \A q \in Requests \ {r} : pc'[q] = pc[q] /\ ctx'[q] = ctx[q]
  BY DEF ControlOK, GoTo
<1>3. \A q \in Requests : Locals(pc'[q], ctx'[q])
  BY <1>2 DEF LocalsOK
<1> QED BY <1>1, <1>3 DEF LocalsOK

LEMMA MoveOn ==
    ASSUME ControlOK, LocalsOK, NEW r \in Requests, NEW label \in Labels,
           Locals(label, ctx[r]), GoTo(r, label), UNCHANGED ctx
    PROVE  ControlOK' /\ LocalsOK'
<1>1. ctx[r] \in Context /\ ctx' = [ctx EXCEPT ![r] = ctx[r]]
  BY DEF ControlOK
<1> QED BY <1>1, Move

\* Where a request goes when it fails or ends, no local variable is needed.
LEMMA NothingNeeded ==
    ASSUME NEW l, NEW label \in {"idle", "commit", "discardBundle", "compensate", "removeRestored",
                                 "checkDraft", "checkPublished", "getAsset", "removeAsset",
                                 "reviewSelect", "reviewFlush"}
    PROVE  Locals(label, l)
BY DEF Locals

LEMMA FinishType ==
    ASSUME ControlOK, LocalsOK, NEW r \in Requests, Finish(r)
    PROVE  ControlOK' /\ LocalsOK'
BY NoContextType, NothingNeeded, Move DEF Finish, Labels

LEMMA RaiseType ==
    ASSUME TypeInv, NEW r \in Requests, Raise(r)
    PROVE  TypeInv'
<1>1. ControlOK' /\ LocalsOK'
  <2>1. PICK label \in {"discardBundle", "compensate"} : GoTo(r, label)
    BY DEF Raise
  <2> QED BY <2>1, NothingNeeded, MoveOn DEF Raise, TypeInv, Labels
<1>2. TxOK'
  BY RollbackType DEF Raise, TypeInv, TxOK
<1> QED BY <1>1, <1>2, FilesSame, DbSame DEF TypeInv, Raise

(***************************************************************************)
(* Each action preserves the invariant.                                    *)
(***************************************************************************)
LEMMA Local ==
    ASSUME TypeInv, NEW r \in Requests
    PROVE  ctx[r] \in Context /\ pc[r] \in Labels /\ Locals(pc[r], ctx[r])
BY DEF TypeInv, ControlOK, LocalsOK

\* A step that changes no store.
LEMMA LocalStep ==
    ASSUME TypeInv, NEW r \in Requests, NEW label \in Labels, NEW l \in Context,
           Locals(label, l), GoTo(r, label), ctx' = [ctx EXCEPT ![r] = l], UNCHANGED stores
    PROVE  TypeInv'
BY Move, StoresSame DEF TypeInv

LEMMA ArriveType ==
    ASSUME TypeInv, NEW r \in Requests, Arrive(r)
    PROVE  TypeInv'
<1>1. ASSUME NEW label \in Labels, NEW l \in Context, Locals(label, l), Begin(r, label, l)
      PROVE  TypeInv'
  BY <1>1, LocalStep DEF Begin
<1>2. ASSUME SaveDraft(r) PROVE TypeInv'
  <2>1. PICK p \in EditorPayloads :
            Begin(r, "selectSnapshot", [NoContext EXCEPT !.op = "saveDraft", !.next = RowOf(p)])
    BY <1>2 DEF SaveDraft
  <2> DEFINE l == [NoContext EXCEPT !.op = "saveDraft", !.next = RowOf(p)]
  <2>2. RowOf(p) \in SnapshotRow
    BY RowOfType, InstanceAssumption
  <2>3. l \in Context /\ Locals("selectSnapshot", l)
    BY <2>1, <2>2 DEF NoContext, Context, Kinds, Begin, Locals
  <2> QED BY <1>1, <2>1, <2>3 DEF Labels
<1>3. ASSUME Publish(r) PROVE TypeInv'
  <2>1. PICK b \in Backups :
            Begin(r, "readDraft", [NoContext EXCEPT !.op = "publish", !.backup = b])
    BY <1>3 DEF Publish
  <2> DEFINE l == [NoContext EXCEPT !.op = "publish", !.backup = b]
  <2>2. l \in Context /\ Locals("readDraft", l)
    BY <2>1 DEF NoContext, Context, Kinds, Begin, Locals
  <2> QED BY <1>1, <2>1, <2>2 DEF Labels
<1>4. ASSUME CreateBackup(r) PROVE TypeInv'
  <2>1. PICK b \in Backups, k \in Kinds :
            Begin(r, "readSource",
                  [NoContext EXCEPT !.op = "createBackup", !.backup = b, !.kind = k])
    BY <1>4 DEF CreateBackup
  <2> DEFINE l == [NoContext EXCEPT !.op = "createBackup", !.backup = b, !.kind = k]
  <2>2. l \in Context /\ Locals("readSource", l)
    BY <2>1 DEF NoContext, Context, Kinds, Begin, Locals
  <2> QED BY <1>1, <2>1, <2>2 DEF Labels
<1>5. ASSUME DeleteBackup(r) PROVE TypeInv'
  <2>1. PICK b \in Backups :
            Begin(r, "readBackup", [NoContext EXCEPT !.op = "deleteBackup", !.victim = b])
    BY <1>5 DEF DeleteBackup
  <2> DEFINE l == [NoContext EXCEPT !.op = "deleteBackup", !.victim = b]
  <2>2. l \in Context /\ Locals("readBackup", l)
    BY <2>1 DEF NoContext, Context, Kinds, Begin, Locals
  <2> QED BY <1>1, <2>1, <2>2 DEF Labels
<1>6. ASSUME UploadAsset(r) PROVE TypeInv'
  <2>1. PICK a \in Assets :
            Begin(r, "writeAsset", [NoContext EXCEPT !.op = "uploadAsset", !.asset = a])
    BY <1>6 DEF UploadAsset
  <2> DEFINE l == [NoContext EXCEPT !.op = "uploadAsset", !.asset = a]
  <2>2. l \in Context /\ Locals("writeAsset", l)
    BY <2>1 DEF NoContext, Context, Kinds, Begin, Locals
  <2> QED BY <1>1, <2>1, <2>2 DEF Labels
<1>7. ASSUME DeleteAsset(r) PROVE TypeInv'
  <2>1. PICK a \in assets :
            Begin(r, "checkDraft", [NoContext EXCEPT !.op = "deleteAsset", !.asset = a])
    BY <1>7 DEF DeleteAsset
  <2> DEFINE l == [NoContext EXCEPT !.op = "deleteAsset", !.asset = a]
  <2>2. l \in Context /\ Locals("checkDraft", l)
    BY <2>1 DEF NoContext, Context, Kinds, Begin, Locals, TypeInv, FilesOK
  <2> QED BY <1>1, <2>1, <2>2 DEF Labels
<1>8. ASSUME StageImport(r) PROVE TypeInv'
  <2>1. PICK c \in Candidates, d \in Documents :
            Begin(r, "writeCandidate",
                  [NoContext EXCEPT !.op = "stageImport", !.cand = c, !.document = d])
    BY <1>8 DEF StageImport
  <2> DEFINE l == [NoContext EXCEPT !.op = "stageImport", !.cand = c, !.document = d]
  <2>2. l \in Context /\ Locals("writeCandidate", l)
    BY <2>1, InstanceAssumption DEF NoContext, Context, Kinds, Begin, Locals
  <2> QED BY <1>1, <2>1, <2>2 DEF Labels
<1>9. ASSUME ApplyImport(r) PROVE TypeInv'
  <2>1. PICK b \in Backups, c \in Candidates, selection \in Selections :
            Begin(r, "readCandidate",
                  [NoContext EXCEPT !.op = "applyImport", !.backup = b, !.cand = c,
                                    !.selection = selection])
    BY <1>9 DEF ApplyImport
  <2> DEFINE l == [NoContext EXCEPT !.op = "applyImport", !.backup = b, !.cand = c,
                                    !.selection = selection]
  <2>2. l \in Context /\ Locals("readCandidate", l)
    BY <2>1, InstanceAssumption DEF NoContext, Context, Kinds, Begin, Locals
  <2> QED BY <1>1, <2>1, <2>2 DEF Labels
<1> QED BY <1>2, <1>3, <1>4, <1>5, <1>6, <1>7, <1>8, <1>9 DEF Arrive

LEMMA BackingType ==
    ASSUME TypeInv, NEW r \in Requests, NEW row \in SnapshotRow
    PROVE  Backing(r, row) \in Context
<1>1. Refs(row.payload) \in SUBSET Assets
  BY RefsType DEF SnapshotRow
<1> QED BY <1>1, Local, ZenonT(60) DEF Backing, Context

LEMMA SelectStateType ==
    ASSUME TypeInv, NEW r \in Requests, NEW from, NEW to \in Labels,
           SelectState(r, from, to), Locals(to, [ctx[r] EXCEPT !.seen = View(r, "state")])
    PROVE  TypeInv'
<1>1. View(r, "state") = None \/ View(r, "state") \in StateRow
  BY ViewType, RowTypes DEF TypeInv
<1>2. [ctx[r] EXCEPT !.seen = View(r, "state")] \in Context
  BY <1>1, Local DEF Context
<1> QED BY <1>2, LocalStep DEF SelectState

LEMMA FlushStateType ==
    ASSUME TypeInv, NEW r \in Requests, NEW from, NEW to \in Labels, NEW state,
           (ctx[r].seen = None) = (View(r, "state") = None) => state \in StateRow,
           FlushState(r, from, to, state), Locals(to, ctx[r])
    PROVE  TypeInv'
<1>1. CASE Raise(r)
  BY <1>1, RaiseType
<1>2. CASE /\ (ctx[r].seen = None) = (View(r, "state") = None)
           /\ Write(r, "state", state)
           /\ GoTo(r, to)
           /\ UNCHANGED <<db, files, ctx>>
  BY <1>2, MoveOn, WriteType, RowTypes, FilesSame, DbSame DEF TypeInv
<1> QED BY <1>1, <1>2 DEF FlushState

LEMMA StateBeforeType ==
    ASSUME TypeInv, NEW r \in Requests, (ctx[r].seen = None) = (View(r, "state") = None)
    PROVE  StateBefore(r) \in StateRow
BY ViewType, RowTypes DEF StateBefore, TypeInv, StateRow, NoState

LEMMA BackupStepType ==
    ASSUME TypeInv, NEW r \in Requests, BackupStep(r)
    PROVE  TypeInv'
<1>1. ASSUME ReadDraftToPublish(r) PROVE TypeInv'
  <2>1. CASE Raise(r)
    BY <2>1, RaiseType
  <2>2. CASE ~Raise(r)
    <3> DEFINE l == [ctx[r] EXCEPT !.next = db["draft"]]
    <3>1. db["draft"] \in SnapshotRow
      BY <1>1, <2>2, RowTypes DEF ReadDraftToPublish, TypeInv, DbOK, Kinds
    <3>2. l \in Context /\ Locals("readPublished", l)
      BY <1>1, <3>1, Local DEF ReadDraftToPublish, At, Context, Locals
    <3> QED BY <1>1, <2>2, <3>2, LocalStep DEF ReadDraftToPublish, Labels
  <2> QED BY <2>1, <2>2
<1>2. ASSUME ReadPublished(r) PROVE TypeInv'
  <2>1. CASE db["published"] = None
    <3>1. Locals("selectSnapshot", ctx[r])
      BY <1>2, Local DEF ReadPublished, At, Locals
    <3> QED BY <1>2, <2>1, <3>1, MoveOn, StoresSame DEF ReadPublished, TypeInv, Labels
  <2>2. CASE db["published"] # None
    <3>1. db["published"] \in SnapshotRow
      BY <2>2, RowTypes DEF TypeInv, DbOK, Kinds
    <3>2. Locals("bundleAssets", Backing(r, db["published"]))
      BY <1>2, <3>1, Local DEF ReadPublished, At, Context, Locals, Backing
    <3> QED BY <1>2, <2>2, <3>1, <3>2, BackingType, LocalStep DEF ReadPublished, Labels
  <2> QED BY <2>1, <2>2
<1>3. ASSUME ReadSource(r) PROVE TypeInv'
  <2>1. CASE Raise(r)
    BY <2>1, RaiseType
  <2>2. CASE ~Raise(r)
    <3>1. db[ctx[r].kind] \in SnapshotRow
      BY <1>3, <2>2, RowTypes, Local DEF ReadSource, TypeInv, DbOK, Context
    <3>2. Locals("bundleAssets", Backing(r, db[ctx[r].kind]))
      <4>1. ctx[r].op = "createBackup"
        BY <1>3, Local DEF ReadSource, At, Locals
      <4> QED BY <1>3, <4>1, <3>1, Local DEF ReadSource, At, Context, Locals, Backing
    <3> QED BY <1>3, <2>2, <3>1, <3>2, BackingType, LocalStep DEF ReadSource, Labels
  <2> QED BY <2>1, <2>2
<1>4. ASSUME BundleAsset(r) PROVE TypeInv'
  <2>1. CASE Raise(r)
    BY <2>1, RaiseType
  <2>2. ASSUME NEW a \in ctx[r].todo \cap assets,
               ctx' = [ctx EXCEPT ![r].todo = @ \ {a}], UNCHANGED <<stores, pc>>
        PROVE  TypeInv'
    <3> DEFINE l == [ctx[r] EXCEPT !.todo = @ \ {a}]
    <3>1. l \in Context /\ Locals("bundleAssets", l)
      BY <1>4, Local DEF BundleAsset, At, Context, Locals
    <3>2. ctx' = [ctx EXCEPT ![r] = l] /\ GoTo(r, "bundleAssets")
      BY <1>4, <2>2 DEF BundleAsset, At, GoTo, TypeInv, ControlOK
    <3> QED BY <2>2, <3>1, <3>2, LocalStep DEF Labels
  <2>3. CASE GoTo(r, "writeBundle") /\ UNCHANGED <<stores, ctx>>
    <3>1. Locals("writeBundle", ctx[r])
      BY <1>4, Local DEF BundleAsset, At, Locals
    <3> QED BY <2>3, <3>1, MoveOn, StoresSame DEF TypeInv, Labels
  <2> QED BY <1>4, <2>1, <2>2, <2>3 DEF BundleAsset
<1>5. ASSUME WriteBundle(r) PROVE TypeInv'
  <2>1. ctx[r].backup \in Backups /\ Locals("insertBackup", ctx[r])
    BY <1>5, Local DEF WriteBundle, At, Locals
  <2>2. ControlOK' /\ LocalsOK'
    BY <1>5, <2>1, MoveOn DEF WriteBundle, TypeInv, Labels
  <2> QED BY <1>5, <2>1, <2>2 DEF WriteBundle, TypeInv, FilesOK, DbOK, TxOK
<1>6. ASSUME InsertBackup(r) PROVE TypeInv'
  <2>1. /\ ctx[r].backup \in Backups /\ ctx[r].source \in SnapshotRow
        /\ Locals("pointSelect", ctx[r])
    BY <1>6, Local DEF InsertBackup, At, Locals
  <2> QED BY <1>6, <2>1, MoveOn, WriteType, RowTypes, FilesSame, DbSame
          DEF InsertBackup, TypeInv, Labels
<1>7. ASSUME PointSelect(r) PROVE TypeInv'
  <2>1. Locals("pointFlush", [ctx[r] EXCEPT !.seen = View(r, "state")])
    BY <1>7, Local DEF PointSelect, SelectState, At, Locals, Context
  <2> QED BY <1>7, <2>1, SelectStateType DEF PointSelect, Labels
<1>8. ASSUME PointFlush(r) PROVE TypeInv'
  <2>1. ctx[r].op \in BackingOps /\ ctx[r].backup \in Backups
    BY <1>8, Local DEF PointFlush, FlushState, At, Locals
  <2>2. AfterBackup(ctx[r].op) \in Labels /\ Locals(AfterBackup(ctx[r].op), ctx[r])
    <3>1. CASE ctx[r].op = "publish"
      BY <1>8, <3>1, Local DEF PointFlush, FlushState, At, Locals, AfterBackup, Labels
    <3>2. CASE ctx[r].op = "createBackup"
      BY <1>8, <3>2, NothingNeeded DEF AfterBackup, Labels
    <3>3. CASE ctx[r].op = "applyImport"
      BY <1>8, <3>3, Local DEF PointFlush, FlushState, At, Locals, AfterBackup, Labels
    <3> QED BY <2>1, <3>1, <3>2, <3>3
  <2>3. (ctx[r].seen = None) = (View(r, "state") = None) =>
            [StateBefore(r) EXCEPT !.current = ctx[r].backup] \in StateRow
    BY <2>1, StateBeforeType DEF StateRow
  <2> QED BY <1>8, <2>2, <2>3, FlushStateType DEF PointFlush
<1>9. ASSUME ReadBackup(r) PROVE TypeInv'
  <2>1. Locals("unlinkBundle", ctx[r])
    BY <1>9, Local DEF ReadBackup, At, Locals
  <2> QED BY <1>9, <2>1, RaiseType, MoveOn, StoresSame DEF ReadBackup, TypeInv, Labels
<1>10. ASSUME UnlinkBundle(r) PROVE TypeInv'
  <2>1. Locals("selectRow", ctx[r])
    BY <1>10, Local DEF UnlinkBundle, At, Locals
  <2>2. ControlOK' /\ LocalsOK'
    BY <1>10, <2>1, MoveOn DEF UnlinkBundle, TypeInv, Labels
  <2> QED BY <1>10, <2>2 DEF UnlinkBundle, TypeInv, FilesOK, DbOK, TxOK
<1>11. ASSUME SelectRow(r) PROVE TypeInv'
  <2>1. Locals("deleteRow", ctx[r])
    BY <1>11, Local DEF SelectRow, At, Locals
  <2> QED BY <1>11, <2>1, RaiseType, MoveOn, StoresSame DEF SelectRow, TypeInv, Labels
<1>13. ASSUME DeleteRow(r) PROVE TypeInv'
  <2> DEFINE b == ctx[r].victim
  <2>1. b \in Backups /\ Locals("unpoint", ctx[r]) /\ Locals("clearCurrent", ctx[r])
    BY <1>13, Local DEF DeleteRow, At, Locals
  <2>2. CASE db[b] = None
    BY <1>13, <2>1, <2>2, MoveOn, StoresSame DEF DeleteRow, TypeInv, Labels
  <2>3. CASE db[b] # None
    BY <1>13, <2>1, <2>3, MoveOn, WriteType, RowTypes, FilesSame, DbSame
       DEF DeleteRow, TypeInv, Labels
  <2> QED BY <2>2, <2>3
<1>14. ASSUME Unpoint(r) PROVE TypeInv'
  <2>1. Locals("clearCurrent", ctx[r])
    BY <1>14, Local DEF Unpoint, At, Locals
  <2>2. TxOK'
    <3>1. CASE Pointed(ctx[r].victim)
      <4>1. [db["state"] EXCEPT !.current = None] \in StateRow
        BY <3>1, RowTypes DEF TypeInv, DbOK, StateRow, Pointed
      <4> QED BY <1>14, <3>1, <4>1, WriteType, RowTypes DEF Unpoint, TypeInv
    <3>2. CASE ~Pointed(ctx[r].victim)
      BY <1>14, <3>2 DEF Unpoint, TypeInv, TxOK
    <3> QED BY <3>1, <3>2
  <2> QED BY <1>14, <2>1, <2>2, MoveOn, FilesSame, DbSame DEF Unpoint, TypeInv, Labels
<1>12. ASSUME ClearCurrent(r) PROVE TypeInv'
  <2> DEFINE state == View(r, "state")
  <2>1. CASE Raise(r)
    BY <2>1, RaiseType
  <2>2. CASE ~Raise(r)
    <3>1. state \in StateRow
      BY <1>12, <2>2, ViewType, RowTypes DEF ClearCurrent, TypeInv
    <3>2. TxOK'
      <4>1. [state EXCEPT !.current = None] \in StateRow
        BY <3>1 DEF StateRow
      <4>2. CASE Write(r, "state", [state EXCEPT !.current = None])
        BY <4>1, <4>2, WriteType, RowTypes DEF TypeInv
      <4>3. CASE UNCHANGED tx
        BY <4>3 DEF TypeInv, TxOK
      <4> QED BY <1>12, <2>2, <4>2, <4>3 DEF ClearCurrent
    <3> QED BY <1>12, <2>2, <3>2, NothingNeeded, MoveOn, FilesSame, DbSame
            DEF ClearCurrent, TypeInv, Labels
  <2> QED BY <2>1, <2>2
<1> QED BY <1>1, <1>2, <1>3, <1>4, <1>5, <1>6, <1>7, <1>8, <1>9, <1>10, <1>11, <1>12, <1>13, <1>14
        DEF BackupStep

LEMMA SnapshotStepType ==
    ASSUME TypeInv, NEW r \in Requests, SelectSnapshot(r) \/ FlushSnapshot(r)
    PROVE  TypeInv'
<1> DEFINE target == Target(ctx[r].op)
<1>1. target \in Rows /\ RowType(target) = SnapshotRow
  BY RowTypes DEF Target, Kinds
<1>2. ctx[r].next \in SnapshotRow /\ ctx[r].op \in {"saveDraft", "publish", "applyImport"}
  BY Local DEF SelectSnapshot, FlushSnapshot, At, Locals
<1>3. ASSUME SelectSnapshot(r) PROVE TypeInv'
  <2> DEFINE l == [ctx[r] EXCEPT !.seen = View(r, target)]
  <2>1. View(r, target) = None \/ View(r, target) \in SnapshotRow
    BY <1>1, ViewType DEF TypeInv
  <2>2. l \in Context
    BY <2>1, Local DEF Context
  <2>3. Locals("flushSnapshot", l)
    BY <1>2, Local DEF Locals, Context
  <2> QED BY <1>3, <2>2, <2>3, LocalStep DEF SelectSnapshot, Labels
<1>4. ASSUME FlushSnapshot(r) PROVE TypeInv'
  <2>1. CASE Raise(r)
    BY <2>1, RaiseType
  <2>2. CASE ~Raise(r)
    <3>1. (ctx[r].seen = None) = (db[target] = None)
      BY <1>4, <2>2 DEF FlushSnapshot
    <3>2. SnapshotToWrite(r) \in SnapshotRow
      <4>1. CASE ctx[r].seen = None
        BY <1>2, <4>1 DEF SnapshotToWrite
      <4>2. CASE ctx[r].seen # None
        <5>1. db[target] \in SnapshotRow
          BY <1>1, <3>1, <4>2 DEF TypeInv, DbOK
        <5> QED BY <1>2, <4>2, <5>1 DEF SnapshotToWrite, UpdatedRow, SnapshotRow
      <4> QED BY <4>1, <4>2
    <3>3. PICK label \in {"reviewSelect", "commit"} : GoTo(r, label)
      BY <1>4, <2>2 DEF FlushSnapshot
    <3>4. TxOK'
      BY <1>1, <1>4, <2>2, <3>2, WriteType DEF FlushSnapshot, TypeInv
    <3> QED BY <1>4, <2>2, <3>3, <3>4, NothingNeeded, MoveOn, FilesSame, DbSame
            DEF FlushSnapshot, TypeInv, Labels
  <2> QED BY <2>1, <2>2
<1> QED BY <1>3, <1>4

LEMMA CheckSnapshotType ==
    ASSUME TypeInv, NEW r \in Requests, NEW from, NEW kind,
           NEW to \in {"checkPublished", "getAsset"}, CheckSnapshot(r, from, kind, to)
    PROVE  TypeInv'
BY RaiseType, NothingNeeded, MoveOn, StoresSame DEF CheckSnapshot, TypeInv, Labels

LEMMA AssetStepType ==
    ASSUME TypeInv, NEW r \in Requests, AssetStep(r)
    PROVE  TypeInv'
<1>1. ASSUME WriteAsset(r) PROVE TypeInv'
  <2> DEFINE l == [ctx[r] EXCEPT !.restored = {ctx[r].asset}]
  <2>1. ctx[r].asset \in Assets
    BY <1>1, Local DEF WriteAsset, At, Locals
  <2>2. l \in Context
    BY <2>1, Local DEF Context
  <2>3. ctx' = [ctx EXCEPT ![r] = l] /\ GoTo(r, "commit")
    BY <1>1 DEF WriteAsset
  <2> HIDE DEF l
  <2>4. ControlOK' /\ LocalsOK'
    BY <2>2, <2>3, NothingNeeded, Move DEF TypeInv, Labels
  <2> QED BY <1>1, <2>1, <2>4 DEF WriteAsset, TypeInv, FilesOK, DbOK, TxOK
<1>2. ASSUME GetAsset(r) PROVE TypeInv'
  BY <1>2, RaiseType, NothingNeeded, MoveOn, StoresSame DEF GetAsset, TypeInv, Labels
<1>3. ASSUME RemoveAsset(r) PROVE TypeInv'
  <2>1. CASE Raise(r)
    BY <2>1, RaiseType
  <2>2. CASE ~Raise(r)
    <3>1. ControlOK' /\ LocalsOK'
      BY <1>3, <2>2, NothingNeeded, MoveOn DEF RemoveAsset, TypeInv, Labels
    <3> QED BY <1>3, <2>2, <3>1 DEF RemoveAsset, TypeInv, FilesOK, DbOK, TxOK
  <2> QED BY <2>1, <2>2
<1> QED BY <1>1, <1>2, <1>3, CheckSnapshotType DEF AssetStep, CheckDraft, CheckPublished

LEMMA ProbedType ==
    ASSUME NEW l \in Context, NEW a \in Assets, NEW fresh \in BOOLEAN
    PROVE  [l EXCEPT !.asset = a, !.fresh = fresh] \in Context
<1>1. CASE fresh = TRUE
  <2>1. [l EXCEPT !.asset = a, !.fresh = TRUE] \in Context
    BY ZenonT(60) DEF Context
  <2> QED BY <1>1, <2>1
<1>2. CASE fresh = FALSE
  <2>1. [l EXCEPT !.asset = a, !.fresh = FALSE] \in Context
    BY ZenonT(60) DEF Context
  <2> QED BY <1>2, <2>1
<1> QED BY <1>1, <1>2

LEMMA ImportStepType ==
    ASSUME TypeInv, NEW r \in Requests, ImportStep(r)
    PROVE  TypeInv'
<1>1. ASSUME WriteCandidate(r) PROVE TypeInv'
  <2>1. ctx[r].cand \in Candidates /\ Locals("insertCandidate", ctx[r])
    BY <1>1, Local DEF WriteCandidate, At, Locals
  <2>2. ControlOK' /\ LocalsOK'
    BY <1>1, <2>1, MoveOn DEF WriteCandidate, TypeInv, Labels
  <2> QED BY <1>1, <2>1, <2>2 DEF WriteCandidate, TypeInv, FilesOK, DbOK, TxOK
<1>2. ASSUME InsertCandidate(r) PROVE TypeInv'
  <2>1. ctx[r].cand \in Candidates /\ ctx[r].document \in Document
    BY <1>2, Local DEF InsertCandidate, At, Locals
  <2>2. CASE Raise(r)
    BY <2>2, RaiseType
  <2>3. CASE ~Raise(r)
    BY <1>2, <2>1, <2>3, NothingNeeded, MoveOn, WriteType, RowTypes, FilesSame, DbSame
       DEF InsertCandidate, TypeInv, Labels
  <2> QED BY <2>2, <2>3
<1>3. ASSUME ReviewSelect(r) PROVE TypeInv'
  BY <1>3, NothingNeeded, SelectStateType DEF ReviewSelect, Labels
<1>4. ASSUME ReviewFlush(r) PROVE TypeInv'
  <2> DEFINE pending == IF ctx[r].op = "stageImport" THEN ctx[r].cand ELSE None
  <2>1. pending \in Candidates \cup {None}
    BY Local DEF Context
  <2> HIDE DEF pending
  <2>2. (ctx[r].seen = None) = (View(r, "state") = None) =>
            [StateBefore(r) EXCEPT !.pending = pending] \in StateRow
    BY <2>1, StateBeforeType DEF StateRow
  <2>3. FlushState(r, "reviewFlush", "commit", [StateBefore(r) EXCEPT !.pending = pending])
    BY <1>4 DEF ReviewFlush, pending
  <2>4. "commit" \in Labels /\ Locals("commit", ctx[r])
    BY NothingNeeded DEF Labels
  <2> QED BY <2>2, <2>3, <2>4, FlushStateType
<1>5. ASSUME ReadCandidate(r) PROVE TypeInv'
  <2>1. CASE Raise(r)
    BY <2>1, RaiseType
  <2>2. CASE ~Raise(r)
    <3> DEFINE l == [ctx[r] EXCEPT !.document = db[ctx[r].cand]]
    <3>1. ctx[r].cand \in Candidates /\ ctx[r].op = "applyImport"
      BY <1>5, Local DEF ReadCandidate, At, Locals
    <3>2. db[ctx[r].cand] \in Document
      BY <1>5, <2>2, <3>1, RowTypes DEF ReadCandidate, TypeInv, DbOK
    <3>3. l \in Context /\ Locals("loadCandidate", l)
      BY <1>5, <3>2, Local DEF ReadCandidate, At, Context, Locals
    <3>4. ctx' = [ctx EXCEPT ![r] = l] /\ GoTo(r, "loadCandidate") /\ UNCHANGED stores
      BY <1>5, <2>2 DEF ReadCandidate
    <3> HIDE DEF l
    <3> QED BY <3>3, <3>4, LocalStep DEF Labels
  <2> QED BY <2>1, <2>2
<1>6. ASSUME LoadCandidate(r) PROVE TypeInv'
  <2>1. Locals("readDraft", ctx[r])
    BY <1>6, Local DEF LoadCandidate, At, Locals
  <2> QED BY <1>6, <2>1, RaiseType, MoveOn, StoresSame DEF LoadCandidate, TypeInv, Labels
<1>7. ASSUME ReadDraftToImport(r) PROVE TypeInv'
  <2>1. CASE Raise(r)
    BY <2>1, RaiseType
  <2>2. CASE ~Raise(r)
    <3>1. /\ db["draft"] # None
          /\ ctx' = [ctx EXCEPT ![r] = Importing(r)]
          /\ GoTo(r, "bundleAssets")
          /\ UNCHANGED stores
      BY <1>7, <2>2 DEF ReadDraftToImport
    <3>2. /\ ctx[r].op = "applyImport" /\ ctx[r].backup \in Backups /\ ctx[r].cand \in Candidates
          /\ ctx[r].document \in Document /\ ctx[r].selection \in Selection
      BY <1>7, Local DEF ReadDraftToImport, At, Locals
    <3>3. db["draft"] \in SnapshotRow
      BY <3>1, RowTypes DEF TypeInv, DbOK, Kinds
    <3>4. ImportedDraft(r) \in Payload
      BY <3>2, <3>3, NextDraftType DEF ImportedDraft, SnapshotRow, Document
    <3>5. RowOf(ImportedDraft(r)) \in SnapshotRow
      BY <3>4, RowOfType
    <3>6. Backing(r, db["draft"]) \in Context
      BY <3>3, BackingType
    <3>7. Importing(r) \in Context
      BY <3>5, <3>6 DEF Importing, Context
    <3>8. /\ Importing(r).op = "applyImport" /\ Importing(r).backup = ctx[r].backup
          /\ Importing(r).cand = ctx[r].cand /\ Importing(r).document = ctx[r].document
          /\ Importing(r).selection = ctx[r].selection
          /\ Importing(r).source = db["draft"] /\ Importing(r).next = RowOf(ImportedDraft(r))
      BY <3>2, Local DEF Importing, Backing, Context
    <3>9. Locals("bundleAssets", Importing(r))
      BY <3>2, <3>3, <3>5, <3>8 DEF Locals
    <3> QED BY <3>1, <3>7, <3>9, LocalStep DEF Labels
  <2> QED BY <2>1, <2>2
<1>8. ASSUME ProbeAsset(r) PROVE TypeInv'
  <2>1. ctx[r] \in Context /\ Locals("probeAsset", ctx[r])
    BY <1>8, Local DEF ProbeAsset, At
  <2>2. ASSUME NEW a \in ToRestore(r),
               ctx' = [ctx EXCEPT ![r].asset = a, ![r].fresh = a \notin assets],
               GoTo(r, "restoreAsset"), UNCHANGED stores
        PROVE  TypeInv'
    <3> DEFINE fresh == a \notin assets
               l == [ctx[r] EXCEPT !.asset = a, !.fresh = fresh]
    <3>1. a \in Assets /\ fresh \in BOOLEAN
      BY <2>1, RefsType DEF ToRestore, Locals, SnapshotRow
    <3> HIDE DEF fresh
    <3>2. l \in Context
      BY <2>1, <3>1, ProbedType
    <3>3. /\ l.asset = a /\ l.op = ctx[r].op /\ l.backup = ctx[r].backup /\ l.next = ctx[r].next
          /\ l.cand = ctx[r].cand /\ l.document = ctx[r].document
          /\ l.selection = ctx[r].selection
      BY <2>1 DEF Context
    <3>4. Locals("restoreAsset", l)
      BY <2>1, <3>1, <3>3 DEF Locals
    <3>5. ctx' = [ctx EXCEPT ![r] = l]
      BY <2>2 DEF TypeInv, ControlOK, fresh
    <3> HIDE DEF l
    <3> QED BY <2>2, <3>2, <3>4, <3>5, LocalStep DEF Labels
  <2>3. ASSUME ctx' = [ctx EXCEPT ![r].restored = ctx[r].restoring],
               GoTo(r, "selectSnapshot"), UNCHANGED stores
        PROVE  TypeInv'
    <3> DEFINE l == [ctx[r] EXCEPT !.restored = ctx[r].restoring]
    <3>1. l \in Context
      BY <2>1 DEF Context
    <3>2. Locals("selectSnapshot", l)
      BY <2>1 DEF Context, Locals
    <3>3. ctx' = [ctx EXCEPT ![r] = l]
      BY <2>3 DEF TypeInv, ControlOK
    <3> HIDE DEF l
    <3> QED BY <2>3, <3>1, <3>2, <3>3, LocalStep DEF Labels
  <2> QED BY <1>8, <2>2, <2>3 DEF ProbeAsset
<1>9. ASSUME RestoreAsset(r) PROVE TypeInv'
  <2> DEFINE a == ctx[r].asset
             more == IF ctx[r].fresh THEN ctx[r].restoring \cup {a} ELSE ctx[r].restoring
             l == [ctx[r] EXCEPT !.visited = ctx[r].visited \cup {a}, !.restoring = more]
  <2>1. ctx[r] \in Context /\ Locals("restoreAsset", ctx[r])
    BY <1>9, Local DEF RestoreAsset, At
  <2>2. a \in Assets
    BY <2>1 DEF Locals
  <2>3. l \in Context /\ Locals("probeAsset", l)
    BY <2>1, <2>2, ZenonT(60) DEF Context, Locals
  <2>4. ctx' = [ctx EXCEPT ![r] = l] /\ GoTo(r, "probeAsset")
    BY <1>9 DEF RestoreAsset, TypeInv, ControlOK
  <2> HIDE DEF l
  <2>5. ControlOK' /\ LocalsOK'
    BY <2>3, <2>4, Move DEF TypeInv, Labels
  <2> QED BY <1>9, <2>2, <2>5 DEF RestoreAsset, TypeInv, FilesOK, DbOK, TxOK
<1> QED BY <1>1, <1>2, <1>3, <1>4, <1>5, <1>6, <1>7, <1>8, <1>9 DEF ImportStep

LEMMA EndStepType ==
    ASSUME TypeInv, NEW r \in Requests, EndStep(r)
    PROVE  TypeInv'
<1>1. ASSUME Commit(r) PROVE TypeInv'
  <2>1. DbOK'
    BY <1>1, ViewType DEF Commit, Committed, TypeInv, DbOK, RowType
  <2>2. TxOK'
    BY <1>1, RollbackType DEF Commit, TypeInv
  <2>3. ControlOK' /\ LocalsOK'
    <3>1. CASE Finish(r)
      BY <3>1, FinishType DEF TypeInv
    <3>2. CASE GoTo(r, "compensate") /\ UNCHANGED ctx
      BY <3>2, NothingNeeded, MoveOn DEF TypeInv, Labels
    <3> QED BY <1>1, <3>1, <3>2 DEF Commit
  <2> QED BY <1>1, <2>1, <2>2, <2>3, FilesSame DEF Commit, TypeInv
<1>2. ASSUME DiscardBundle(r) PROVE TypeInv'
  <2>1. ControlOK' /\ LocalsOK'
    BY <1>2, NothingNeeded, MoveOn DEF DiscardBundle, TypeInv, Labels
  <2>2. TxOK'
    BY <1>2, RollbackType DEF DiscardBundle, TypeInv
  <2> QED BY <1>2, <2>1, <2>2 DEF DiscardBundle, TypeInv, FilesOK, DbOK
<1>3. ASSUME Compensate(r) PROVE TypeInv'
  <2>1. ControlOK' /\ LocalsOK'
    BY <1>3, FinishType, NothingNeeded, MoveOn DEF Compensate, TypeInv, Labels
  <2> QED BY <1>3, <2>1 DEF Compensate, TypeInv, FilesOK, DbOK, TxOK
<1>4. ASSUME RemoveRestored(r) PROVE TypeInv'
  <2>1. PICK a \in ctx[r].restored :
            /\ assets' = assets \ {a}
            /\ IF a \notin assets \/ ctx[r].restored = {a}
               THEN Finish(r)
               ELSE /\ ctx' = [ctx EXCEPT ![r].restored = @ \ {a}]
                    /\ UNCHANGED pc
    BY <1>4 DEF RemoveRestored
  <2>2. CASE Finish(r)
    BY <1>4, <2>1, <2>2, FinishType DEF RemoveRestored, TypeInv, FilesOK, DbOK, TxOK
  <2>3. CASE ctx' = [ctx EXCEPT ![r].restored = @ \ {a}] /\ UNCHANGED pc
    <3> DEFINE l == [ctx[r] EXCEPT !.restored = ctx[r].restored \ {a}]
    <3>1. l \in Context
      BY Local DEF Context
    <3>2. ctx' = [ctx EXCEPT ![r] = l] /\ GoTo(r, "removeRestored")
      BY <1>4, <2>3 DEF RemoveRestored, At, GoTo, TypeInv, ControlOK
    <3> HIDE DEF l
    <3>3. ControlOK' /\ LocalsOK'
      BY <3>1, <3>2, NothingNeeded, Move DEF TypeInv, Labels
    <3> QED BY <1>4, <2>1, <3>3 DEF RemoveRestored, TypeInv, FilesOK, DbOK, TxOK
  <2> QED BY <2>1, <2>2, <2>3
<1> QED BY <1>1, <1>2, <1>3, <1>4 DEF EndStep

\* A torn write or a failing except clause ends the request.
LEMMA AbortType ==
    ASSUME TypeInv, NEW r \in Requests, TornWrite(r) \/ UndoFails(r)
    PROVE  TypeInv'
<1>1. ControlOK' /\ LocalsOK'
  BY FinishType DEF TornWrite, UndoFails, TypeInv
<1>2. TxOK' /\ DbOK'
  BY RollbackType, DbSame DEF TornWrite, UndoFails, TypeInv
<1>3. FilesOK'
  <2>1. CASE TornWrite(r)
    <3>1. pc[r] = "writeBundle" => ctx[r].backup \in Backups
      BY Local DEF Locals
    <3>2. pc[r] = "writeCandidate" => ctx[r].cand \in Candidates
      BY Local DEF Locals
    <3> QED BY <2>1, <3>1, <3>2 DEF TornWrite, At, TypeInv, FilesOK
  <2>2. CASE UndoFails(r)
    <3>1. Unnamed(r) \subseteq Backups \cup Candidates /\ assets' \subseteq assets
      BY <2>2 DEF UndoFails, Unnamed, TypeInv, FilesOK
    <3> QED BY <2>2, <3>1 DEF UndoFails, TypeInv, FilesOK
  <2> QED BY <2>1, <2>2
<1> QED BY <1>1, <1>2, <1>3 DEF TypeInv

LEMMA CrashType ==
    ASSUME TypeInv, Crash
    PROVE  TypeInv'
<1>1. DbOK' /\ TxOK' /\ FilesOK'
  BY InstanceAssumption DEF Crash, TypeInv, DbOK, TxOK, FilesOK, NoWrites, RowType
<1>2. ControlOK' /\ LocalsOK'
  BY NoContextType, NothingNeeded DEF Crash, ControlOK, LocalsOK, Labels
<1> QED BY <1>1, <1>2 DEF TypeInv

LEMMA InitType == Init => TypeInv
<1> SUFFICES ASSUME Init PROVE TypeInv
  OBVIOUS
<1>1. DbOK /\ TxOK /\ FilesOK
  BY InstanceAssumption DEF Init, DbOK, TxOK, FilesOK, NoWrites, RowType
<1>2. ControlOK /\ LocalsOK
  BY NoContextType, NothingNeeded DEF Init, ControlOK, LocalsOK, Labels
<1> QED BY <1>1, <1>2 DEF TypeInv

LEMMA NextType == TypeInv /\ [Next]_vars => TypeInv'
<1> SUFFICES ASSUME TypeInv, [Next]_vars PROVE TypeInv'
  OBVIOUS
<1>1. ASSUME NEW r \in Requests, Arrive(r) PROVE TypeInv'
  BY <1>1, ArriveType
<1>2. ASSUME NEW r \in Requests, Step(r) PROVE TypeInv'
  BY <1>2, SnapshotStepType, BackupStepType, AssetStepType, ImportStepType, EndStepType DEF Step
<1>3. ASSUME NEW r \in Requests, Fault(r) PROVE TypeInv'
  BY <1>3, RaiseType, AbortType DEF Fault, CallFails
<1>4. CASE Crash
  BY <1>4, CrashType
<1>5. CASE UNCHANGED vars
  BY <1>5, StoresSame DEF vars, stores, TypeInv, ControlOK, LocalsOK
<1> QED BY <1>1, <1>2, <1>3, <1>4, <1>5 DEF Next

(***************************************************************************)
(* Every row, file id, label and local variable always has its type, for   *)
(* any number of concurrent requests and under faults, lost commit         *)
(* acknowledgements and restarts: a handler never works with a value that  *)
(* an earlier step of it has not set.                                      *)
(***************************************************************************)
THEOREM TypeInvariant == Spec => []TypeInv
<1>1. Init => TypeInv
  BY InitType
<1>2. TypeInv /\ [Next]_vars => TypeInv'
  BY NextType
<1> QED BY <1>1, <1>2, PTL DEF Spec

THEOREM TypeCorrect == Spec => []TypeOK
BY TypeInvariant, TypeParts, PTL

(***************************************************************************)
(* No file is left behind.                                                 *)
(*                                                                         *)
(* NoOrphanFile is not inductive: that the request which a file belongs to *)
(* registers or deletes it depends on what its transaction has written,    *)
(* and that no other request takes the registration away depends on ids    *)
(* being used by one request at a time.                                    *)
(***************************************************************************)
Undoing == {"compensate", "removeRestored"}

\* Labels at which a bundle may exist that the transaction has not registered.
Unregistered == {"insertBackup", "discardBundle", "compensate"}

StagedLabels == {"reviewSelect", "reviewFlush", "commit"}

StageLabels == {"writeCandidate", "insertCandidate", "compensate"} \cup StagedLabels

\* An idle request has no local variables.
IdleClean == \A r \in Requests : pc[r] = "idle" => ctx[r] = NoContext

\* A backup id is created by one request, and until that one has committed
\* or failed nobody can see it, let alone delete it.
OwnBackup ==
    \A r \in Requests :
        ctx[r].backup # None =>
          /\ \A q \in Requests \ {r} : ctx[q].backup # ctx[r].backup
          /\ pc[r] \notin Undoing =>
                /\ db[ctx[r].backup] = None
                /\ \A q \in Requests : ctx[q].victim # ctx[r].backup

\* A transaction registers no backup but its own, and removes no row but the
\* one whose file it has deleted; it has ended when the files are undone.
OwnRows ==
    \A r \in Requests, b \in Backups :
        /\ tx[r][b] = None => ctx[r].victim = b /\ b \notin bundles
        /\ tx[r][b] \notin {None, Unwritten} => ctx[r].backup = b
        /\ pc[r] \in Undoing \cup {"idle"} => tx[r][b] = Unwritten

UnlinkedFirst ==
    \A r \in Requests : pc[r] \in {"selectRow", "deleteRow"} => ctx[r].victim \notin bundles

\* A bundle that exists is registered by the transaction, or about to be
\* registered or deleted.
BundleRegistered ==
    \A r \in Requests :
        /\ ctx[r].backup \in bundles
        /\ pc[r] \notin Unregistered
        => tx[r][ctx[r].backup] # Unwritten

\* Candidates are never deleted; one that is applied is registered, one that
\* is staged is registered by the commit.
CandidateRegistered ==
    \A r \in Requests :
        /\ \A c \in Candidates : tx[r][c] # None
        /\ ctx[r].cand # None => ctx[r].op \in {"stageImport", "applyImport"}
        /\ ctx[r].op = "applyImport" => ctx[r].cand \in Candidates /\ db[ctx[r].cand] # None
        /\ ctx[r].op = "stageImport" =>
              /\ pc[r] \in StageLabels
              /\ ctx[r].cand \in Candidates
              /\ ctx[r].restored = {}
              /\ pc[r] \in StagedLabels => tx[r][ctx[r].cand] # Unwritten

\* A crash is the only way to lose track of a file.
FilesOwned == ~Crashes => NoOrphanFile

FileInv ==
    /\ IdleClean /\ OwnBackup /\ OwnRows /\ UnlinkedFirst
    /\ BundleRegistered /\ CandidateRegistered /\ FilesOwned

USE DEF BackupLabels, SnapshotLabels, RestoreLabels, ImportLabels, BackingOps,
        Undoing, Unregistered, StagedLabels, StageLabels

(***************************************************************************)
(* What a step may do without touching the files and their rows.           *)
(***************************************************************************)
OthersKept(r) == \A q \in Requests \ {r} : pc'[q] = pc[q] /\ ctx'[q] = ctx[q]

IdsKept(r) ==
    /\ ctx'[r].op = ctx[r].op
    /\ ctx'[r].backup = ctx[r].backup
    /\ ctx'[r].victim = ctx[r].victim
    /\ ctx'[r].cand = ctx[r].cand

RowsKept == \A q \in Requests, n \in Backups \cup Candidates : tx'[q][n] = tx[q][n]

\* The labels to which such a step may go from label.
Follows(label, next, op) ==
    /\ next \notin {"idle", "selectRow"}
    /\ next = "deleteRow" => label = "selectRow"
    /\ label \in Undoing <=> next \in Undoing
    /\ label \in Unregistered => next \in Unregistered
    /\ op = "stageImport" =>
          /\ next \in StageLabels
          /\ next \in StagedLabels => label \in StagedLabels

LEMMA Quiet ==
    ASSUME TypeInv, FileInv, NEW r \in Requests, OthersKept(r), IdsKept(r), RowsKept,
           UNCHANGED <<db, bundles, documents, strays>>,
           Follows(pc[r], pc'[r], ctx[r].op),
           ctx[r].op = "stageImport" => ctx'[r].restored = ctx[r].restored
    PROVE  FileInv'
<1> USE DEF OthersKept, IdsKept
<1>1. IdleClean'
  BY DEF FileInv, IdleClean, Follows
<1>2. OwnBackup'
  <2> SUFFICES ASSUME NEW q \in Requests, ctx'[q].backup # None
               PROVE  /\ \A p \in Requests \ {q} : ctx'[p].backup # ctx'[q].backup
                      /\ pc'[q] \notin Undoing =>
                            /\ db'[ctx'[q].backup] = None
                            /\ \A p \in Requests : ctx'[p].victim # ctx'[q].backup
    BY DEF OwnBackup
  <2>1. \A p \in Requests : ctx'[p].backup = ctx[p].backup /\ ctx'[p].victim = ctx[p].victim
    OBVIOUS
  <2>2. pc'[q] \notin Undoing => pc[q] \notin Undoing
    BY DEF Follows
  <2> QED BY <2>1, <2>2 DEF FileInv, OwnBackup
<1>3. OwnRows'
  BY DEF FileInv, OwnRows, RowsKept, Follows
<1>4. UnlinkedFirst'
  BY DEF FileInv, UnlinkedFirst, Follows
<1>5. BundleRegistered'
  <2> SUFFICES ASSUME NEW q \in Requests, ctx'[q].backup \in bundles', pc'[q] \notin Unregistered
               PROVE  tx'[q][ctx'[q].backup] # Unwritten
    BY DEF BundleRegistered
  <2>1. ctx'[q].backup = ctx[q].backup /\ pc[q] \notin Unregistered
    BY DEF Follows
  <2>2. ctx[q].backup \in Backups
    BY <2>1 DEF TypeInv, FilesOK
  <2> QED BY <2>1, <2>2 DEF FileInv, BundleRegistered, RowsKept
<1>6. CandidateRegistered'
  BY DEF FileInv, CandidateRegistered, RowsKept, Follows
<1>7. FilesOwned'
  BY DEF FileInv, FilesOwned, NoOrphanFile
<1> QED BY <1>1, <1>2, <1>3, <1>4, <1>5, <1>6, <1>7 DEF FileInv

LEMMA Moved ==
    ASSUME TypeInv, NEW r \in Requests, NEW label, GoTo(r, label)
    PROVE  pc'[r] = label /\ \A q \in Requests \ {r} : pc'[q] = pc[q]
BY DEF TypeInv, ControlOK, GoTo

LEMMA QuietMove ==
    ASSUME TypeInv, FileInv, NEW r \in Requests, NEW label, GoTo(r, label), RowsKept,
           UNCHANGED <<db, bundles, documents, strays, ctx>>,
           Follows(pc[r], label, ctx[r].op)
    PROVE  FileInv'
<1>1. OthersKept(r) /\ IdsKept(r) /\ pc'[r] = label /\ ctx'[r].restored = ctx[r].restored
  BY Moved DEF OthersKept, IdsKept
<1> QED BY <1>1, Quiet

LEMMA WriteElsewhere ==
    ASSUME TypeInv, NEW r \in Requests, NEW n \in Kinds \cup {"state"}, NEW row, Write(r, n, row)
    PROVE  RowsKept
BY RowsAssumption DEF RowsKept, Write, TypeInv, TxOK, Kinds

LEMMA SameRows ==
    ASSUME UNCHANGED tx
    PROVE  RowsKept
BY DEF RowsKept

\* A request that stages a candidate is at no other label.
LEMMA NotStaging ==
    ASSUME FileInv, NEW r \in Requests, pc[r] \notin StageLabels
    PROVE  ctx[r].op # "stageImport"
BY DEF FileInv, CandidateRegistered

LEMMA RolledBack ==
    ASSUME TypeInv, NEW r \in Requests, Rollback(r)
    PROVE  /\ \A n \in Rows : tx'[r][n] = Unwritten
           /\ \A q \in Requests \ {r} : tx'[q] = tx[q]
BY DEF Rollback, NoWrites, TypeInv, TxOK

LEMMA FailedStep ==
    ASSUME TypeInv, FileInv, NEW r \in Requests, Raise(r),
           pc[r] \notin {"idle", "discardBundle", "compensate", "removeRestored"}
    PROVE  FileInv'
<1>1. /\ UNCHANGED <<db, files, ctx>>
      /\ \A q \in Requests \ {r} : pc'[q] = pc[q] /\ tx'[q] = tx[q]
      /\ pc'[r] \in {"discardBundle", "compensate"}
      /\ pc'[r] = "discardBundle" <=> InBackupTry(r)
      /\ \A n \in Rows : tx'[r][n] \in {tx[r][n], Unwritten}
      /\ pc'[r] = "compensate" => \A n \in Rows : tx'[r][n] = Unwritten
  <2>1. CASE InBackupTry(r)
    BY <2>1, Moved DEF Raise
  <2>2. CASE ~InBackupTry(r)
    BY <2>2, Moved, RolledBack DEF Raise
  <2> QED BY <2>1, <2>2
<1>2. IdleClean'
  BY <1>1 DEF FileInv, IdleClean
<1>3. OwnBackup'
  BY <1>1 DEF FileInv, OwnBackup
<1>4. OwnRows'
  BY <1>1, RowTypes, RowsAssumption DEF FileInv, OwnRows, files
<1>5. UnlinkedFirst'
  BY <1>1 DEF FileInv, UnlinkedFirst, files
<1>6. BundleRegistered'
  BY <1>1 DEF FileInv, BundleRegistered, files
<1>7. CandidateRegistered'
  <2>1. ctx[r].op = "stageImport" => ~InBackupTry(r)
    BY DEF FileInv, CandidateRegistered, InBackupTry
  <2>2. \A q \in Requests, c \in Candidates : tx'[q][c] # None
    BY <1>1, RowTypes, RowsAssumption DEF FileInv, CandidateRegistered
  <2> QED BY <1>1, <2>1, <2>2 DEF FileInv, CandidateRegistered
<1>8. FilesOwned'
  BY <1>1 DEF FileInv, FilesOwned, NoOrphanFile, files
<1> QED BY <1>2, <1>3, <1>4, <1>5, <1>6, <1>7, <1>8 DEF FileInv

(***************************************************************************)
(* A request arrives: its ids are fresh, or those of committed rows.       *)
(***************************************************************************)
ArriveLabels == {"selectSnapshot", "readDraft", "readSource", "readBackup", "writeAsset",
                 "checkDraft", "writeCandidate", "readCandidate"}

Fresh(label, l) ==
    /\ label \in ArriveLabels
    /\ l.backup # None => FreshBackup(l.backup) /\ l.victim = None
    /\ l.victim # None =>
          /\ db[l.victim] # None
          /\ l.op = "deleteBackup" /\ label = "readBackup" /\ l.restored = {}
    /\ l.cand # None => l.op \in {"stageImport", "applyImport"}
    /\ l.op = "applyImport" => l.cand \in Candidates /\ db[l.cand] # None
    /\ l.op = "stageImport" <=> label = "writeCandidate"
    /\ label = "selectSnapshot" => l.op = "saveDraft"
    /\ l.op = "stageImport" => l.cand \in Candidates /\ FreshCandidate(l.cand) /\ l.restored = {}

LEMMA ArriveFresh ==
    ASSUME NEW r \in Requests, Arrive(r)
    PROVE  \E label, l : Begin(r, label, l) /\ Fresh(label, l)
<1>1. ASSUME SaveDraft(r) PROVE \E label, l : Begin(r, label, l) /\ Fresh(label, l)
  <2>1. PICK p \in EditorPayloads :
            Begin(r, "selectSnapshot",
                  [NoContext EXCEPT !.op = "saveDraft", !.next = RowOf(p)])
    BY <1>1 DEF SaveDraft
  <2> DEFINE l == [NoContext EXCEPT !.op = "saveDraft", !.next = RowOf(p)]
  <2>2. l.op = "saveDraft" /\ l.backup = None /\ l.victim = None /\ l.cand = None /\ l.restored = {}
    BY DEF NoContext
  <2>3. Begin(r, "selectSnapshot", l)
    BY <2>1
  <2> HIDE DEF l
  <2>4. Fresh("selectSnapshot", l)
    BY <2>1, <2>2 DEF Fresh, ArriveLabels
  <2> QED BY <2>3, <2>4
<1>2. ASSUME Publish(r) PROVE \E label, l : Begin(r, label, l) /\ Fresh(label, l)
  <2>1. PICK b \in Backups :
            /\ FreshBackup(b)
            /\ Begin(r, "readDraft",
                     [NoContext EXCEPT !.op = "publish", !.backup = b])
    BY <1>2 DEF Publish
  <2> DEFINE l == [NoContext EXCEPT !.op = "publish", !.backup = b]
  <2>2. l.op = "publish" /\ l.backup = b /\ l.victim = None /\ l.cand = None /\ l.restored = {}
    BY DEF NoContext
  <2>3. Begin(r, "readDraft", l)
    BY <2>1
  <2> HIDE DEF l
  <2>4. Fresh("readDraft", l)
    BY <2>1, <2>2 DEF Fresh, ArriveLabels
  <2> QED BY <2>3, <2>4
<1>3. ASSUME CreateBackup(r) PROVE \E label, l : Begin(r, label, l) /\ Fresh(label, l)
  <2>1. PICK b \in Backups, k \in Kinds :
            /\ FreshBackup(b)
            /\ Begin(r, "readSource",
                     [NoContext EXCEPT !.op = "createBackup", !.backup = b, !.kind = k])
    BY <1>3 DEF CreateBackup
  <2> DEFINE l == [NoContext EXCEPT !.op = "createBackup", !.backup = b, !.kind = k]
  <2>2. l.op = "createBackup" /\ l.backup = b /\ l.victim = None /\ l.cand = None /\ l.restored = {}
    BY DEF NoContext
  <2>3. Begin(r, "readSource", l)
    BY <2>1
  <2> HIDE DEF l
  <2>4. Fresh("readSource", l)
    BY <2>1, <2>2 DEF Fresh, ArriveLabels
  <2> QED BY <2>3, <2>4
<1>4. ASSUME DeleteBackup(r) PROVE \E label, l : Begin(r, label, l) /\ Fresh(label, l)
  <2>1. PICK b \in Backups :
            /\ db[b] # None
            /\ Begin(r, "readBackup",
                     [NoContext EXCEPT !.op = "deleteBackup", !.victim = b])
    BY <1>4 DEF DeleteBackup
  <2> DEFINE l == [NoContext EXCEPT !.op = "deleteBackup", !.victim = b]
  <2>2. l.op = "deleteBackup" /\ l.backup = None /\ l.victim = b /\ l.cand = None /\ l.restored = {}
    BY DEF NoContext
  <2>3. Begin(r, "readBackup", l)
    BY <2>1
  <2> HIDE DEF l
  <2>4. Fresh("readBackup", l)
    BY <2>1, <2>2 DEF Fresh, ArriveLabels
  <2> QED BY <2>3, <2>4
<1>5. ASSUME UploadAsset(r) PROVE \E label, l : Begin(r, label, l) /\ Fresh(label, l)
  <2>1. PICK a \in Assets :
            Begin(r, "writeAsset",
                  [NoContext EXCEPT !.op = "uploadAsset", !.asset = a])
    BY <1>5 DEF UploadAsset
  <2> DEFINE l == [NoContext EXCEPT !.op = "uploadAsset", !.asset = a]
  <2>2. l.op = "uploadAsset" /\ l.backup = None /\ l.victim = None /\ l.cand = None /\ l.restored = {}
    BY DEF NoContext
  <2>3. Begin(r, "writeAsset", l)
    BY <2>1
  <2> HIDE DEF l
  <2>4. Fresh("writeAsset", l)
    BY <2>1, <2>2 DEF Fresh, ArriveLabels
  <2> QED BY <2>3, <2>4
<1>6. ASSUME DeleteAsset(r) PROVE \E label, l : Begin(r, label, l) /\ Fresh(label, l)
  <2>1. PICK a \in assets :
            Begin(r, "checkDraft",
                  [NoContext EXCEPT !.op = "deleteAsset", !.asset = a])
    BY <1>6 DEF DeleteAsset
  <2> DEFINE l == [NoContext EXCEPT !.op = "deleteAsset", !.asset = a]
  <2>2. l.op = "deleteAsset" /\ l.backup = None /\ l.victim = None /\ l.cand = None /\ l.restored = {}
    BY DEF NoContext
  <2>3. Begin(r, "checkDraft", l)
    BY <2>1
  <2> HIDE DEF l
  <2>4. Fresh("checkDraft", l)
    BY <2>1, <2>2 DEF Fresh, ArriveLabels
  <2> QED BY <2>3, <2>4
<1>7. ASSUME StageImport(r) PROVE \E label, l : Begin(r, label, l) /\ Fresh(label, l)
  <2>1. PICK c \in Candidates, d \in Documents :
            /\ FreshCandidate(c)
            /\ Begin(r, "writeCandidate",
                  [NoContext EXCEPT !.op = "stageImport", !.cand = c, !.document = d])
    BY <1>7 DEF StageImport
  <2> DEFINE l == [NoContext EXCEPT !.op = "stageImport", !.cand = c, !.document = d]
  <2>2. l.op = "stageImport" /\ l.backup = None /\ l.victim = None /\ l.cand = c /\ l.restored = {}
    BY DEF NoContext
  <2>3. Begin(r, "writeCandidate", l)
    BY <2>1
  <2> HIDE DEF l
  <2>4. Fresh("writeCandidate", l)
    BY <2>1, <2>2 DEF Fresh, ArriveLabels
  <2> QED BY <2>3, <2>4
<1>8. ASSUME ApplyImport(r) PROVE \E label, l : Begin(r, label, l) /\ Fresh(label, l)
  <2>1. PICK b \in Backups, c \in Candidates, selection \in Selections :
            /\ FreshBackup(b)
            /\ db[c] # None
            /\ Begin(r, "readCandidate",
                     [NoContext EXCEPT !.op = "applyImport", !.backup = b, !.cand = c,
                                    !.selection = selection])
    BY <1>8 DEF ApplyImport
  <2> DEFINE l == [NoContext EXCEPT !.op = "applyImport", !.backup = b, !.cand = c,
                                    !.selection = selection]
  <2>2. l.op = "applyImport" /\ l.backup = b /\ l.victim = None /\ l.cand = c /\ l.restored = {}
    BY DEF NoContext
  <2>3. Begin(r, "readCandidate", l)
    BY <2>1
  <2> HIDE DEF l
  <2>4. Fresh("readCandidate", l)
    BY <2>1, <2>2 DEF Fresh, ArriveLabels
  <2> QED BY <2>3, <2>4
<1> QED BY <1>1, <1>2, <1>3, <1>4, <1>5, <1>6, <1>7, <1>8 DEF Arrive

LEMMA ArriveFiles ==
    ASSUME TypeInv, FileInv, NEW r \in Requests, Arrive(r)
    PROVE  FileInv'
<1>0. PICK label, l : Begin(r, label, l) /\ Fresh(label, l)
  BY ArriveFresh
<1> USE <1>0 DEF Fresh, ArriveLabels
<1>1. /\ pc'[r] = label /\ ctx'[r] = l /\ UNCHANGED stores
      /\ pc[r] = "idle" /\ ctx[r] = NoContext
      /\ \A q \in Requests \ {r} : pc'[q] = pc[q] /\ ctx'[q] = ctx[q]
  BY Moved DEF Begin, At, TypeInv, ControlOK, FileInv, IdleClean
<1>2. ctx[r].backup = None /\ ctx[r].victim = None /\ ctx[r].cand = None
  BY <1>1 DEF NoContext
<1>3. IdleClean'
  BY <1>1 DEF FileInv, IdleClean
<1>4. OwnBackup'
  <2> SUFFICES ASSUME NEW q \in Requests, ctx'[q].backup # None
               PROVE  /\ \A p \in Requests \ {q} : ctx'[p].backup # ctx'[q].backup
                      /\ pc'[q] \notin Undoing =>
                            /\ db'[ctx'[q].backup] = None
                            /\ \A p \in Requests : ctx'[p].victim # ctx'[q].backup
    BY DEF OwnBackup
  <2>1. CASE q = r
    BY <1>1, <2>1 DEF FreshBackup, stores
  <2>2. CASE q # r
    <3>1. ctx'[q] = ctx[q] /\ pc'[q] = pc[q] /\ db' = db
      BY <1>1, <2>2 DEF stores
    <3>2. l.backup # ctx[q].backup
      BY <3>1 DEF FreshBackup
    <3>3. pc[q] \notin Undoing => l.victim # ctx[q].backup
      BY <3>1 DEF FileInv, OwnBackup
    <3> QED BY <1>1, <3>1, <3>2, <3>3 DEF FileInv, OwnBackup
  <2> QED BY <2>1, <2>2
<1>5. OwnRows'
  <2>1. \A b \in Backups : tx[r][b] = Unwritten
    BY <1>2, RowsAssumption DEF FileInv, OwnRows
  <2> QED BY <1>1, <2>1, RowsAssumption DEF FileInv, OwnRows, stores
<1>6. UnlinkedFirst'
  BY <1>1 DEF FileInv, UnlinkedFirst, stores
<1>7. BundleRegistered'
  <2>1. l.backup \notin bundles
    BY RowsAssumption DEF FreshBackup, TypeInv, FilesOK
  <2> QED BY <1>1, <2>1 DEF FileInv, BundleRegistered, stores
<1>8. CandidateRegistered'
  BY <1>1 DEF FileInv, CandidateRegistered, stores
<1>9. FilesOwned'
  <2>1. None \notin bundles \cup documents
    BY RowsAssumption DEF TypeInv, FilesOK
  <2> QED BY <1>1, <1>2, <2>1 DEF FileInv, FilesOwned, NoOrphanFile, stores
<1> QED BY <1>3, <1>4, <1>5, <1>6, <1>7, <1>8, <1>9 DEF FileInv

(***************************************************************************)
(* The steps that only read, or that write nothing but asset files.        *)
(***************************************************************************)
SilentMove(label, next) ==
    \/ label = "readDraft" /\ next \in {"readPublished", "bundleAssets"}
    \/ label = "readPublished" /\ next \in {"selectSnapshot", "bundleAssets"}
    \/ label = "readSource" /\ next = "bundleAssets"
    \/ label = "bundleAssets" /\ next \in {"bundleAssets", "writeBundle"}
    \/ label = "pointSelect" /\ next = "pointFlush"
    \/ label = "selectSnapshot" /\ next = "flushSnapshot"
    \/ label = "readBackup" /\ next = "unlinkBundle"
    \/ label = "selectRow" /\ next = "deleteRow"
    \/ label \in {"writeAsset", "removeAsset"} /\ next = "commit"
    \/ label = "checkDraft" /\ next = "checkPublished"
    \/ label = "checkPublished" /\ next = "getAsset"
    \/ label = "getAsset" /\ next = "removeAsset"
    \/ label = "reviewSelect" /\ next = "reviewFlush"
    \/ label = "readCandidate" /\ next = "loadCandidate"
    \/ label = "loadCandidate" /\ next = "readDraft"
    \/ label = "probeAsset" /\ next \in {"restoreAsset", "selectSnapshot"}
    \/ label = "restoreAsset" /\ next = "probeAsset"

Silent(r) ==
    /\ SilentMove(pc[r], pc'[r])
    /\ OthersKept(r) /\ IdsKept(r)
    /\ pc[r] \in {"reviewSelect", "readBackup", "selectRow"} => ctx'[r].restored = ctx[r].restored
    /\ UNCHANGED <<db, tx, bundles, documents, strays>>

LEMMA SilentGoTo ==
    ASSUME TypeInv, NEW r \in Requests, NEW label, GoTo(r, label), SilentMove(pc[r], label),
           UNCHANGED <<db, tx, bundles, documents, strays, ctx>>
    PROVE  Silent(r)
BY Moved DEF Silent, OthersKept, IdsKept

LEMMA SilentLocal ==
    ASSUME TypeInv, NEW r \in Requests, NEW label, NEW l,
           GoTo(r, label), ctx' = [ctx EXCEPT ![r] = l], SilentMove(pc[r], label),
           UNCHANGED <<db, tx, bundles, documents, strays>>,
           l.op = ctx[r].op, l.backup = ctx[r].backup, l.victim = ctx[r].victim,
           l.cand = ctx[r].cand,
           pc[r] \in {"reviewSelect", "readBackup", "selectRow"} => l.restored = ctx[r].restored
    PROVE  Silent(r)
<1>1. ctx'[r] = l /\ \A q \in Requests \ {r} : ctx'[q] = ctx[q]
  BY DEF TypeInv, ControlOK
<1> QED BY <1>1, Moved DEF Silent, OthersKept, IdsKept

LEMMA BackingSilent ==
    ASSUME TypeInv, NEW r \in Requests, NEW row, ctx' = [ctx EXCEPT ![r] = Backing(r, row)],
           GoTo(r, "bundleAssets"), SilentMove(pc[r], "bundleAssets"), UNCHANGED stores
    PROVE  Silent(r)
<1> DEFINE l == Backing(r, row)
<1>1. /\ l.op = ctx[r].op /\ l.backup = ctx[r].backup /\ l.victim = ctx[r].victim
      /\ l.cand = ctx[r].cand /\ l.restored = ctx[r].restored
  BY Local DEF Backing, Context
<1> HIDE DEF l
<1> QED BY <1>1, SilentLocal DEF l, stores

LEMMA SelectStateSilent ==
    ASSUME TypeInv, NEW r \in Requests, NEW from, NEW to,
           SelectState(r, from, to), SilentMove(from, to)
    PROVE  Silent(r)
<1> DEFINE l == [ctx[r] EXCEPT !.seen = View(r, "state")]
<1>1. /\ l.op = ctx[r].op /\ l.backup = ctx[r].backup /\ l.victim = ctx[r].victim
      /\ l.cand = ctx[r].cand /\ l.restored = ctx[r].restored
  BY Local DEF Context
<1>2. ctx' = [ctx EXCEPT ![r] = l] /\ GoTo(r, to) /\ UNCHANGED stores /\ pc[r] = from
  BY DEF SelectState, At, TypeInv, ControlOK
<1> HIDE DEF l
<1> QED BY <1>1, <1>2, SilentLocal DEF stores

LEMMA BackupReadsSilent ==
    ASSUME TypeInv, NEW r \in Requests, ~Raise(r),
           \/ ReadDraftToPublish(r) \/ ReadPublished(r) \/ ReadSource(r) \/ BundleAsset(r)
           \/ ReadBackup(r) \/ SelectRow(r) \/ PointSelect(r)
    PROVE  Silent(r)
<1>1. ASSUME ReadDraftToPublish(r) PROVE Silent(r)
  <2> DEFINE l == [ctx[r] EXCEPT !.next = db["draft"]]
  <2>1. /\ l.op = ctx[r].op /\ l.backup = ctx[r].backup /\ l.victim = ctx[r].victim
        /\ l.cand = ctx[r].cand
    BY Local DEF Context
  <2>2. /\ ctx' = [ctx EXCEPT ![r] = l] /\ GoTo(r, "readPublished") /\ UNCHANGED stores
        /\ pc[r] = "readDraft"
    BY <1>1 DEF ReadDraftToPublish, At, TypeInv, ControlOK
  <2> HIDE DEF l
  <2> QED BY <2>1, <2>2, SilentLocal DEF stores, SilentMove
<1>2. ASSUME ReadPublished(r) PROVE Silent(r)
  BY <1>2, SilentGoTo, BackingSilent DEF ReadPublished, At, stores, SilentMove
<1>3. ASSUME ReadSource(r) PROVE Silent(r)
  BY <1>3, BackingSilent DEF ReadSource, At, SilentMove
<1>4. ASSUME BundleAsset(r) PROVE Silent(r)
  <2>1. CASE GoTo(r, "writeBundle") /\ UNCHANGED <<stores, ctx>>
    BY <1>4, <2>1, SilentGoTo DEF BundleAsset, At, stores, SilentMove
  <2>2. ASSUME NEW a, ctx' = [ctx EXCEPT ![r].todo = @ \ {a}], UNCHANGED <<stores, pc>>
        PROVE  Silent(r)
    <3> DEFINE l == [ctx[r] EXCEPT !.todo = @ \ {a}]
    <3>1. /\ l.op = ctx[r].op /\ l.backup = ctx[r].backup /\ l.victim = ctx[r].victim
          /\ l.cand = ctx[r].cand
      BY Local DEF Context
    <3>2. ctx' = [ctx EXCEPT ![r] = l] /\ pc[r] = "bundleAssets" /\ GoTo(r, "bundleAssets")
      BY <1>4, <2>2 DEF BundleAsset, At, GoTo, TypeInv, ControlOK
    <3> HIDE DEF l
    <3> QED BY <2>2, <3>1, <3>2, SilentLocal DEF stores, SilentMove
  <2> QED BY <1>4, <2>1, <2>2 DEF BundleAsset
<1>5. ASSUME ReadBackup(r) \/ SelectRow(r) PROVE Silent(r)
  BY <1>5, SilentGoTo DEF ReadBackup, SelectRow, At, stores, SilentMove
<1>6. ASSUME PointSelect(r) PROVE Silent(r)
  BY <1>6, SelectStateSilent DEF PointSelect, SilentMove
<1> QED BY <1>1, <1>2, <1>3, <1>4, <1>5, <1>6

LEMMA AssetStepsSilent ==
    ASSUME TypeInv, NEW r \in Requests, ~Raise(r), AssetStep(r)
    PROVE  Silent(r)
<1>1. ASSUME WriteAsset(r) PROVE Silent(r)
  <2> DEFINE l == [ctx[r] EXCEPT !.restored = {ctx[r].asset}]
  <2>1. /\ l.op = ctx[r].op /\ l.backup = ctx[r].backup /\ l.victim = ctx[r].victim
        /\ l.cand = ctx[r].cand
    BY Local DEF Context
  <2>2. /\ ctx' = [ctx EXCEPT ![r] = l] /\ GoTo(r, "commit")
        /\ UNCHANGED <<db, tx, bundles, documents, strays>> /\ pc[r] = "writeAsset"
    BY <1>1 DEF WriteAsset, At
  <2> HIDE DEF l
  <2> QED BY <2>1, <2>2, SilentLocal DEF SilentMove
<1>2. ASSUME CheckDraft(r) \/ CheckPublished(r) \/ GetAsset(r) PROVE Silent(r)
  BY <1>2, SilentGoTo DEF CheckDraft, CheckPublished, CheckSnapshot, GetAsset, At, stores, SilentMove
<1>3. ASSUME RemoveAsset(r) PROVE Silent(r)
  BY <1>3, SilentGoTo DEF RemoveAsset, At, SilentMove
<1> QED BY <1>1, <1>2, <1>3 DEF AssetStep

LEMMA ImportReadsSilent ==
    ASSUME TypeInv, NEW r \in Requests, ~Raise(r),
           \/ ReviewSelect(r) \/ ReadCandidate(r) \/ LoadCandidate(r) \/ ReadDraftToImport(r)
           \/ ProbeAsset(r) \/ RestoreAsset(r) \/ SelectSnapshot(r)
    PROVE  Silent(r)
<1>1. ASSUME ReviewSelect(r) PROVE Silent(r)
  BY <1>1, SelectStateSilent DEF ReviewSelect, SilentMove
<1>2. ASSUME ReadCandidate(r) PROVE Silent(r)
  <2> DEFINE l == [ctx[r] EXCEPT !.document = db[ctx[r].cand]]
  <2>1. /\ l.op = ctx[r].op /\ l.backup = ctx[r].backup /\ l.victim = ctx[r].victim
        /\ l.cand = ctx[r].cand
    BY Local DEF Context
  <2>2. /\ ctx' = [ctx EXCEPT ![r] = l] /\ GoTo(r, "loadCandidate") /\ UNCHANGED stores
        /\ pc[r] = "readCandidate"
    BY <1>2 DEF ReadCandidate, At
  <2> HIDE DEF l
  <2> QED BY <2>1, <2>2, SilentLocal DEF stores, SilentMove
<1>3. ASSUME LoadCandidate(r) PROVE Silent(r)
  BY <1>3, SilentGoTo DEF LoadCandidate, At, stores, SilentMove
<1>4. ASSUME ReadDraftToImport(r) PROVE Silent(r)
  <2> DEFINE l == Importing(r)
  <2>1. /\ l.op = ctx[r].op /\ l.backup = ctx[r].backup /\ l.victim = ctx[r].victim
        /\ l.cand = ctx[r].cand
    BY Local DEF Importing, Backing, Context
  <2>2. /\ ctx' = [ctx EXCEPT ![r] = l] /\ GoTo(r, "bundleAssets") /\ UNCHANGED stores
        /\ pc[r] = "readDraft"
    BY <1>4 DEF ReadDraftToImport, At
  <2> HIDE DEF l
  <2> QED BY <2>1, <2>2, SilentLocal DEF stores, SilentMove
<1>5. ASSUME ProbeAsset(r) PROVE Silent(r)
  <2>1. pc[r] = "probeAsset" /\ UNCHANGED stores
    BY <1>5 DEF ProbeAsset, At
  <2>2. ASSUME NEW a, ctx' = [ctx EXCEPT ![r].asset = a, ![r].fresh = a \notin assets],
               GoTo(r, "restoreAsset")
        PROVE  Silent(r)
    <3> DEFINE fresh == a \notin assets
               l == [ctx[r] EXCEPT !.asset = a, !.fresh = fresh]
    <3> HIDE DEF fresh
    <3>1. /\ l.op = ctx[r].op /\ l.backup = ctx[r].backup /\ l.victim = ctx[r].victim
          /\ l.cand = ctx[r].cand
      BY Local DEF Context
    <3>2. ctx' = [ctx EXCEPT ![r] = l]
      BY <2>2 DEF TypeInv, ControlOK, fresh
    <3> HIDE DEF l
    <3> QED BY <2>1, <2>2, <3>1, <3>2, SilentLocal DEF stores, SilentMove
  <2>3. ASSUME ctx' = [ctx EXCEPT ![r].restored = ctx[r].restoring], GoTo(r, "selectSnapshot")
        PROVE  Silent(r)
    <3> DEFINE l == [ctx[r] EXCEPT !.restored = ctx[r].restoring]
    <3>1. /\ l.op = ctx[r].op /\ l.backup = ctx[r].backup /\ l.victim = ctx[r].victim
          /\ l.cand = ctx[r].cand
      BY Local DEF Context
    <3>2. ctx' = [ctx EXCEPT ![r] = l]
      BY <2>3 DEF TypeInv, ControlOK
    <3> HIDE DEF l
    <3> QED BY <2>1, <2>3, <3>1, <3>2, SilentLocal DEF stores, SilentMove
  <2> QED BY <1>5, <2>2, <2>3 DEF ProbeAsset
<1>6. ASSUME RestoreAsset(r) PROVE Silent(r)
  <2> DEFINE more == IF ctx[r].fresh THEN ctx[r].restoring \cup {ctx[r].asset} ELSE ctx[r].restoring
             l == [ctx[r] EXCEPT !.visited = ctx[r].visited \cup {ctx[r].asset}, !.restoring = more]
  <2>1. /\ l.op = ctx[r].op /\ l.backup = ctx[r].backup /\ l.victim = ctx[r].victim
        /\ l.cand = ctx[r].cand
    BY Local DEF Context
  <2>2. /\ ctx' = [ctx EXCEPT ![r] = l] /\ GoTo(r, "probeAsset")
        /\ UNCHANGED <<db, tx, bundles, documents, strays>> /\ pc[r] = "restoreAsset"
    BY <1>6 DEF RestoreAsset, At, TypeInv, ControlOK
  <2> HIDE DEF l
  <2> QED BY <2>1, <2>2, SilentLocal DEF SilentMove
<1>7. ASSUME SelectSnapshot(r) PROVE Silent(r)
  <2> DEFINE l == [ctx[r] EXCEPT !.seen = View(r, Target(ctx[r].op))]
  <2>1. /\ l.op = ctx[r].op /\ l.backup = ctx[r].backup /\ l.victim = ctx[r].victim
        /\ l.cand = ctx[r].cand
    BY Local DEF Context
  <2>2. /\ ctx' = [ctx EXCEPT ![r] = l] /\ GoTo(r, "flushSnapshot") /\ UNCHANGED stores
        /\ pc[r] = "selectSnapshot"
    BY <1>7 DEF SelectSnapshot, At, TypeInv, ControlOK
  <2> HIDE DEF l
  <2> QED BY <2>1, <2>2, SilentLocal DEF stores, SilentMove
<1> QED BY <1>1, <1>2, <1>3, <1>4, <1>5, <1>6, <1>7

LEMMA SilentFiles ==
    ASSUME TypeInv, FileInv, NEW r \in Requests, Silent(r)
    PROVE  FileInv'
<1>1. pc[r] \in StageLabels => pc[r] = "reviewSelect"
  BY DEF Silent, SilentMove
<1>2. ctx[r].op = "stageImport" => pc[r] = "reviewSelect" /\ pc'[r] = "reviewFlush"
  BY <1>1, NotStaging DEF Silent, SilentMove
<1>3. Follows(pc[r], pc'[r], ctx[r].op)
  BY <1>2 DEF Silent, SilentMove, Follows
<1>4. RowsKept
  BY SameRows DEF Silent
<1> QED BY <1>2, <1>3, <1>4, Quiet DEF Silent

(***************************************************************************)
(* The steps that write a snapshot row or the state row.                   *)
(***************************************************************************)
LEMMA FlushStateFiles ==
    ASSUME TypeInv, FileInv, NEW r \in Requests, NEW from, NEW to, NEW state,
           FlushState(r, from, to, state), Follows(from, to, ctx[r].op),
           from \notin {"idle", "discardBundle", "compensate", "removeRestored"}
    PROVE  FileInv'
<1>1. CASE Raise(r)
  BY <1>1, FailedStep DEF FlushState, At
<1>2. CASE Write(r, "state", state) /\ GoTo(r, to) /\ UNCHANGED <<db, files, ctx>>
  <2>1. RowsKept
    BY <1>2, WriteElsewhere
  <2> QED BY <1>2, <2>1, QuietMove DEF FlushState, At, files
<1> QED BY <1>1, <1>2 DEF FlushState

LEMMA OtherRowsFiles ==
    ASSUME TypeInv, FileInv, NEW r \in Requests,
           PointFlush(r) \/ ReviewFlush(r) \/ Unpoint(r) \/ ClearCurrent(r) \/ FlushSnapshot(r)
    PROVE  FileInv'
<1>1. ASSUME PointFlush(r) PROVE FileInv'
  <2>1. ctx[r].op \in BackingOps
    BY <1>1, Local DEF PointFlush, FlushState, At, Locals
  <2>2. Follows("pointFlush", AfterBackup(ctx[r].op), ctx[r].op)
    BY <2>1 DEF AfterBackup, Follows
  <2> QED BY <1>1, <2>2, FlushStateFiles DEF PointFlush
<1>2. ASSUME ReviewFlush(r) PROVE FileInv'
  BY <1>2, FlushStateFiles DEF ReviewFlush, Follows
<1>3. ASSUME ClearCurrent(r) PROVE FileInv'
  <2>1. CASE Raise(r)
    BY <1>3, <2>1, FailedStep DEF ClearCurrent, At
  <2>2. CASE ~Raise(r)
    <3>1. RowsKept
      BY <1>3, <2>2, WriteElsewhere, SameRows DEF ClearCurrent
    <3>2. Follows(pc[r], "commit", ctx[r].op)
      BY <1>3, NotStaging DEF ClearCurrent, At, Follows
    <3> QED BY <1>3, <2>2, <3>1, <3>2, QuietMove DEF ClearCurrent, files
  <2> QED BY <2>1, <2>2
<1>4. ASSUME FlushSnapshot(r) PROVE FileInv'
  <2>1. CASE Raise(r)
    BY <1>4, <2>1, FailedStep DEF FlushSnapshot, At
  <2>2. CASE ~Raise(r)
    <3>1. RowsKept
      BY <1>4, <2>2, WriteElsewhere DEF FlushSnapshot, Target, Kinds
    <3>2. \A label \in {"reviewSelect", "commit"} : Follows(pc[r], label, ctx[r].op)
      BY <1>4, NotStaging DEF FlushSnapshot, At, Follows
    <3> QED BY <1>4, <2>2, <3>1, <3>2, QuietMove DEF FlushSnapshot, files
  <2> QED BY <2>1, <2>2
<1>5. ASSUME Unpoint(r) PROVE FileInv'
  <2>1. RowsKept
    BY <1>5, WriteElsewhere, SameRows DEF Unpoint
  <2>2. Follows(pc[r], "clearCurrent", ctx[r].op)
    BY <1>5, NotStaging DEF Unpoint, At, Follows
  <2> QED BY <1>5, <2>1, <2>2, QuietMove DEF Unpoint, files
<1> QED BY <1>1, <1>2, <1>3, <1>4, <1>5

(***************************************************************************)
(* The steps that write or delete a bundle, a document or their rows.      *)
(***************************************************************************)
LEMMA WriteBundleFiles ==
    ASSUME TypeInv, FileInv, NEW r \in Requests, WriteBundle(r)
    PROVE  FileInv'
<1> DEFINE b == ctx[r].backup
<1>1. /\ pc[r] = "writeBundle" /\ pc'[r] = "insertBackup" /\ bundles' = bundles \cup {b}
      /\ \A q \in Requests \ {r} : pc'[q] = pc[q]
      /\ UNCHANGED <<db, tx, documents, assets, strays, ctx>>
  BY Moved DEF WriteBundle, At
<1>2. b \in Backups /\ b # None
  BY <1>1, Local, RowsAssumption DEF Locals
<1>3. db[b] = None /\ \A q \in Requests : ctx[q].victim # b
  BY <1>1, <1>2 DEF FileInv, OwnBackup
<1>4. IdleClean'
  BY <1>1 DEF FileInv, IdleClean
<1>5. OwnBackup'
  BY <1>1 DEF FileInv, OwnBackup
<1>6. OwnRows'
  BY <1>1, <1>3 DEF FileInv, OwnRows
<1>7. UnlinkedFirst'
  BY <1>1, <1>3 DEF FileInv, UnlinkedFirst
<1>8. BundleRegistered'
  BY <1>1, <1>2 DEF FileInv, BundleRegistered, OwnBackup
<1>9. CandidateRegistered'
  BY <1>1 DEF FileInv, CandidateRegistered
<1>10. FilesOwned'
  BY <1>1 DEF FileInv, FilesOwned, NoOrphanFile
<1> QED BY <1>4, <1>5, <1>6, <1>7, <1>8, <1>9, <1>10 DEF FileInv

LEMMA Written ==
    ASSUME TypeInv, NEW r \in Requests, NEW n \in Rows, NEW row, Write(r, n, row)
    PROVE  /\ tx'[r][n] = row
           /\ \A m \in Rows \ {n} : tx'[r][m] = tx[r][m]
           /\ \A q \in Requests \ {r} : tx'[q] = tx[q]
BY DEF Write, TypeInv, TxOK

LEMMA InsertBackupFiles ==
    ASSUME TypeInv, FileInv, NEW r \in Requests, InsertBackup(r)
    PROVE  FileInv'
<1> DEFINE b == ctx[r].backup
<1>1. /\ pc[r] = "insertBackup" /\ pc'[r] = "pointSelect" /\ Write(r, b, ctx[r].source)
      /\ \A q \in Requests \ {r} : pc'[q] = pc[q]
      /\ UNCHANGED <<db, bundles, documents, strays, ctx>>
  BY Moved DEF InsertBackup, At, files
<1>2. b \in Backups /\ b \in Rows /\ ctx[r].source \notin {None, Unwritten}
  BY <1>1, Local, RowTypes, RowsAssumption DEF Locals
<1>3. /\ tx'[r][b] \notin {None, Unwritten}
      /\ \A m \in Rows \ {b} : tx'[r][m] = tx[r][m]
      /\ \A q \in Requests \ {r} : tx'[q] = tx[q]
  BY <1>1, <1>2, Written
<1>4. IdleClean'
  BY <1>1 DEF FileInv, IdleClean
<1>5. OwnBackup'
  BY <1>1 DEF FileInv, OwnBackup
<1>6. OwnRows'
  BY <1>1, <1>3, RowTypes DEF FileInv, OwnRows
<1>7. UnlinkedFirst'
  BY <1>1 DEF FileInv, UnlinkedFirst
<1>8. BundleRegistered'
  BY <1>1, <1>3 DEF FileInv, BundleRegistered
<1>9. CandidateRegistered'
  <2>1. \A q \in Requests, c \in Candidates : tx'[q][c] = tx[q][c]
    BY <1>2, <1>3, RowTypes, RowsAssumption
  <2>2. ctx[r].op # "stageImport"
    BY <1>1, NotStaging
  <2> QED BY <1>1, <2>1, <2>2 DEF FileInv, CandidateRegistered
<1>10. FilesOwned'
  BY <1>1 DEF FileInv, FilesOwned, NoOrphanFile
<1> QED BY <1>4, <1>5, <1>6, <1>7, <1>8, <1>9, <1>10 DEF FileInv

LEMMA UnlinkBundleFiles ==
    ASSUME TypeInv, FileInv, NEW r \in Requests, UnlinkBundle(r)
    PROVE  FileInv'
<1>1. /\ pc[r] = "unlinkBundle" /\ pc'[r] = "selectRow" /\ bundles' = bundles \ {ctx[r].victim}
      /\ \A q \in Requests \ {r} : pc'[q] = pc[q]
      /\ UNCHANGED <<db, tx, documents, assets, strays, ctx>>
  BY Moved DEF UnlinkBundle, At
<1>2. ctx[r].op # "stageImport"
  BY <1>1, NotStaging
<1>3. IdleClean'
  BY <1>1 DEF FileInv, IdleClean
<1>4. OwnBackup'
  BY <1>1 DEF FileInv, OwnBackup
<1>5. OwnRows' /\ UnlinkedFirst' /\ BundleRegistered'
  BY <1>1 DEF FileInv, OwnRows, UnlinkedFirst, BundleRegistered
<1>6. CandidateRegistered'
  BY <1>1, <1>2 DEF FileInv, CandidateRegistered
<1>7. FilesOwned'
  BY <1>1 DEF FileInv, FilesOwned, NoOrphanFile
<1> QED BY <1>3, <1>4, <1>5, <1>6, <1>7 DEF FileInv

\* Another request has deleted the row meanwhile.
LEMMA NoRowFiles ==
    ASSUME TypeInv, FileInv, NEW r \in Requests, DeleteRow(r), db[ctx[r].victim] = None
    PROVE  FileInv'
<1>1. /\ pc[r] = "deleteRow" /\ GoTo(r, "clearCurrent")
      /\ UNCHANGED <<db, tx, bundles, documents, strays, ctx>>
  BY DEF DeleteRow, At, stores
<1>2. Follows(pc[r], "clearCurrent", ctx[r].op)
  BY <1>1, NotStaging DEF Follows
<1>3. RowsKept
  BY <1>1, SameRows
<1> QED BY <1>1, <1>2, <1>3, QuietMove

LEMMA DeleteRowFiles ==
    ASSUME TypeInv, FileInv, NEW r \in Requests, DeleteRow(r), db[ctx[r].victim] # None
    PROVE  FileInv'
<1> DEFINE b == ctx[r].victim
<1>1. /\ pc[r] = "deleteRow" /\ pc'[r] = "unpoint" /\ Write(r, b, None)
      /\ \A q \in Requests \ {r} : pc'[q] = pc[q]
      /\ UNCHANGED <<db, bundles, documents, strays, ctx>>
  BY Moved DEF DeleteRow, At, files
<1>2. b \in Backups /\ b \in Rows /\ b \notin bundles
  BY <1>1, Local, RowTypes, RowsAssumption DEF Locals, FileInv, UnlinkedFirst
<1>3. tx'[r][b] = None /\ \A m \in Rows \ {b} : tx'[r][m] = tx[r][m]
  BY <1>1, <1>2, Written
<1>4. /\ tx'[r][b] = None
      /\ \A m \in (Backups \cup Candidates) \ {b} : tx'[r][m] = tx[r][m]
      /\ \A q \in Requests \ {r} : tx'[q] = tx[q]
  BY <1>1, <1>2, <1>3, Written, RowTypes
<1>5. ctx[r].op # "stageImport"
  BY <1>1, NotStaging
<1>6. IdleClean'
  BY <1>1 DEF FileInv, IdleClean
<1>7. OwnBackup' /\ UnlinkedFirst'
  BY <1>1 DEF FileInv, OwnBackup, UnlinkedFirst
<1>8. OwnRows'
  BY <1>1, <1>2, <1>4 DEF FileInv, OwnRows
<1>9. BundleRegistered'
  <2>1. \A q \in Requests : ctx[q].backup \in bundles => tx'[q][ctx[q].backup] = tx[q][ctx[q].backup]
    BY <1>2, <1>4 DEF TypeInv, FilesOK
  <2> QED BY <1>1, <2>1 DEF FileInv, BundleRegistered
<1>10. CandidateRegistered'
  <2>1. \A q \in Requests, c \in Candidates : tx'[q][c] = tx[q][c]
    BY <1>2, <1>4, RowsAssumption
  <2> QED BY <1>1, <1>5, <2>1 DEF FileInv, CandidateRegistered
<1>11. FilesOwned'
  BY <1>1 DEF FileInv, FilesOwned, NoOrphanFile
<1> QED BY <1>6, <1>7, <1>8, <1>9, <1>10, <1>11 DEF FileInv

LEMMA WriteCandidateFiles ==
    ASSUME TypeInv, FileInv, NEW r \in Requests, WriteCandidate(r)
    PROVE  FileInv'
<1>1. /\ pc[r] = "writeCandidate" /\ pc'[r] = "insertCandidate"
      /\ documents' = documents \cup {ctx[r].cand}
      /\ \A q \in Requests \ {r} : pc'[q] = pc[q]
      /\ UNCHANGED <<db, tx, bundles, assets, strays, ctx>>
  BY Moved DEF WriteCandidate, At
<1>2. IdleClean'
  BY <1>1 DEF FileInv, IdleClean
<1>3. OwnBackup' /\ UnlinkedFirst'
  BY <1>1 DEF FileInv, OwnBackup, UnlinkedFirst
<1>4. OwnRows' /\ BundleRegistered'
  BY <1>1 DEF FileInv, OwnRows, BundleRegistered
<1>5. CandidateRegistered'
  BY <1>1 DEF FileInv, CandidateRegistered
<1>6. FilesOwned'
  BY <1>1 DEF FileInv, FilesOwned, NoOrphanFile
<1> QED BY <1>2, <1>3, <1>4, <1>5, <1>6 DEF FileInv

LEMMA InsertCandidateFiles ==
    ASSUME TypeInv, FileInv, NEW r \in Requests, InsertCandidate(r), ~Raise(r)
    PROVE  FileInv'
<1> DEFINE c == ctx[r].cand
<1>1. /\ pc[r] = "insertCandidate" /\ pc'[r] = "reviewSelect" /\ Write(r, c, ctx[r].document)
      /\ \A q \in Requests \ {r} : pc'[q] = pc[q]
      /\ UNCHANGED <<db, bundles, documents, strays, ctx>>
  BY Moved DEF InsertCandidate, At, files
<1>2. c \in Candidates /\ c \in Rows /\ ctx[r].document \notin {None, Unwritten}
  BY <1>1, Local, RowTypes, RowsAssumption DEF Locals
<1>3. /\ tx'[r][c] \notin {None, Unwritten}
      /\ \A m \in Rows \ {c} : tx'[r][m] = tx[r][m]
      /\ \A q \in Requests \ {r} : tx'[q] = tx[q]
  BY <1>1, <1>2, Written
<1>4. \A q \in Requests, b \in Backups : tx'[q][b] = tx[q][b]
  BY <1>2, <1>3, RowTypes, RowsAssumption
<1>5. IdleClean'
  BY <1>1 DEF FileInv, IdleClean
<1>6. OwnBackup' /\ UnlinkedFirst'
  BY <1>1 DEF FileInv, OwnBackup, UnlinkedFirst
<1>7. OwnRows' /\ BundleRegistered'
  BY <1>1, <1>4 DEF FileInv, OwnRows, BundleRegistered, TypeInv, FilesOK
<1>8. CandidateRegistered'
  BY <1>1, <1>3, RowTypes DEF FileInv, CandidateRegistered
<1>9. FilesOwned'
  BY <1>1 DEF FileInv, FilesOwned, NoOrphanFile
<1> QED BY <1>5, <1>6, <1>7, <1>8, <1>9 DEF FileInv

(***************************************************************************)
(* The end of a request.                                                   *)
(***************************************************************************)
\* What a commit does to the rows of backups and candidates.
LEMMA CommittedRows ==
    ASSUME TypeInv, FileInv, NEW r \in Requests, Commit(r)
    PROVE  /\ \A q \in Requests \ {r} :
                 ctx[q].backup # None /\ pc[q] \notin Undoing => db'[ctx[q].backup] = None
           /\ \A b \in bundles : db[b] # None \/ ctx[r].backup = b => db'[b] # None
           /\ \A c \in Candidates :
                 db[c] # None \/ (c \in documents /\ ctx[r].cand = c) => db'[c] # None
<1>1. pc[r] = "commit" /\ \A n \in Rows : db'[n] = View(r, n)
  BY DEF Commit, Committed, At
<1>2. ASSUME NEW q \in Requests \ {r}, ctx[q].backup # None, pc[q] \notin Undoing
      PROVE  db'[ctx[q].backup] = None
  <2>1. ctx[q].backup \in Backups /\ ctx[q].backup \in Rows
    BY <1>2, Local, RowTypes DEF Context
  <2>2. db[ctx[q].backup] = None /\ ctx[r].backup # ctx[q].backup
    BY <1>2 DEF FileInv, OwnBackup
  <2>3. tx[r][ctx[q].backup] \in {None, Unwritten}
    BY <2>1, <2>2 DEF FileInv, OwnRows
  <2> QED BY <1>1, <2>1, <2>2, <2>3 DEF View
<1>3. ASSUME NEW b \in bundles, db[b] # None \/ ctx[r].backup = b PROVE db'[b] # None
  <2>1. b \in Backups /\ b \in Rows
    BY RowTypes DEF TypeInv, FilesOK
  <2>2. tx[r][b] # None
    BY <2>1 DEF FileInv, OwnRows
  <2>3. ctx[r].backup = b => tx[r][b] # Unwritten
    BY <1>1 DEF FileInv, BundleRegistered
  <2> QED BY <1>1, <1>3, <2>1, <2>2, <2>3 DEF View
<1>4. ASSUME NEW c \in Candidates, db[c] # None \/ (c \in documents /\ ctx[r].cand = c)
      PROVE  db'[c] # None
  <2>1. c \in Rows /\ c # None /\ tx[r][c] # None
    BY RowTypes, RowsAssumption DEF FileInv, CandidateRegistered
  <2>2. ctx[r].cand = c => db[c] # None \/ tx[r][c] # Unwritten
    BY <1>1, <2>1 DEF FileInv, CandidateRegistered
  <2> QED BY <1>1, <1>4, <2>1, <2>2 DEF View
<1> QED BY <1>2, <1>3, <1>4

LEMMA Finished ==
    ASSUME TypeInv, NEW r \in Requests, Finish(r)
    PROVE  /\ pc'[r] = "idle" /\ ctx'[r] = NoContext
           /\ \A q \in Requests \ {r} : pc'[q] = pc[q] /\ ctx'[q] = ctx[q]
           /\ ctx'[r].backup = None /\ ctx'[r].victim = None /\ ctx'[r].cand = None
           /\ ctx'[r].op = "none"
BY DEF Finish, GoTo, TypeInv, ControlOK, NoContext

LEMMA CommitFiles ==
    ASSUME TypeInv, FileInv, NEW r \in Requests, Commit(r)
    PROVE  FileInv'
<1>1. /\ pc[r] = "commit" /\ UNCHANGED files
      /\ \A n \in Rows : tx'[r][n] = Unwritten
      /\ \A q \in Requests \ {r} : tx'[q] = tx[q]
  BY RolledBack DEF Commit, At
<1>2. \A q \in Requests \ {r} : pc'[q] = pc[q] /\ ctx'[q] = ctx[q]
  BY Finished, Moved DEF Commit
<1>3. \/ /\ pc'[r] = "idle" /\ ctx'[r] = NoContext
         /\ ctx'[r].backup = None /\ ctx'[r].victim = None /\ ctx'[r].cand = None
         /\ ctx'[r].op = "none"
      \/ pc'[r] = "compensate" /\ ctx'[r] = ctx[r]
  BY Finished, Moved DEF Commit
<1>4. IdleClean'
  BY <1>2, <1>3 DEF FileInv, IdleClean
<1>5. OwnBackup'
  <2> SUFFICES ASSUME NEW q \in Requests, ctx'[q].backup # None
               PROVE  /\ \A p \in Requests \ {q} : ctx'[p].backup # ctx'[q].backup
                      /\ pc'[q] \notin Undoing =>
                            /\ db'[ctx'[q].backup] = None
                            /\ \A p \in Requests : ctx'[p].victim # ctx'[q].backup
    BY DEF OwnBackup
  <2>1. \A p \in Requests :
           /\ ctx'[p].backup \in {ctx[p].backup, None}
           /\ ctx'[p].victim \in {ctx[p].victim, None}
    BY <1>2, <1>3
  <2>2. ctx'[q].backup = ctx[q].backup
    BY <2>1
  <2>3. pc'[q] \notin Undoing => q # r /\ pc[q] \notin Undoing
    BY <1>2, <1>3
  <2> QED BY <2>1, <2>2, <2>3, CommittedRows DEF FileInv, OwnBackup
<1>6. OwnRows'
  BY <1>1, <1>2, RowTypes, RowsAssumption DEF FileInv, OwnRows, files
<1>7. UnlinkedFirst'
  BY <1>1, <1>2, <1>3 DEF FileInv, UnlinkedFirst, files
<1>8. BundleRegistered'
  <2>1. None \notin bundles
    BY RowsAssumption DEF TypeInv, FilesOK
  <2> QED BY <1>1, <1>2, <1>3, <2>1 DEF FileInv, BundleRegistered, files
<1>9. CandidateRegistered'
  <2>1. \A q \in Requests, c \in Candidates : tx'[q][c] # None
    BY <1>1, RowTypes, RowsAssumption DEF FileInv, CandidateRegistered
  <2>2. \A q \in Requests \ {r} : ctx[q].op = "applyImport" => db'[ctx[q].cand] # None
    BY CommittedRows DEF FileInv, CandidateRegistered
  <2>3. ctx[r].op = "applyImport" => db'[ctx[r].cand] # None
    BY CommittedRows DEF FileInv, CandidateRegistered
  <2> QED BY <1>1, <1>2, <1>3, <2>1, <2>2, <2>3 DEF FileInv, CandidateRegistered
<1>10. FilesOwned'
  <2>1. ~Crashes => \A b \in bundles \ strays : db'[b] # None \/ \E q \in Requests \ {r} : ctx'[q].backup = b
    BY <1>2, CommittedRows DEF FileInv, FilesOwned, NoOrphanFile
  <2>2. ~Crashes => \A c \in documents \ strays : db'[c] # None \/ \E q \in Requests \ {r} : ctx'[q].cand = c
    BY <1>2, CommittedRows DEF FileInv, FilesOwned, NoOrphanFile, TypeInv, FilesOK
  <2> QED BY <1>1, <2>1, <2>2 DEF FilesOwned, NoOrphanFile, files
<1> QED BY <1>4, <1>5, <1>6, <1>7, <1>8, <1>9, <1>10 DEF FileInv

LEMMA DiscardBundleFiles ==
    ASSUME TypeInv, FileInv, NEW r \in Requests, DiscardBundle(r)
    PROVE  FileInv'
<1>1. /\ pc[r] = "discardBundle" /\ pc'[r] = "compensate" /\ bundles' = bundles \ {ctx[r].backup}
      /\ \A q \in Requests \ {r} : pc'[q] = pc[q] /\ tx'[q] = tx[q]
      /\ \A n \in Rows : tx'[r][n] = Unwritten
      /\ UNCHANGED <<db, documents, strays, ctx>>
  BY Moved, RolledBack DEF DiscardBundle, At
<1>2. IdleClean' /\ OwnBackup' /\ UnlinkedFirst'
  BY <1>1 DEF FileInv, IdleClean, OwnBackup, UnlinkedFirst
<1>3. OwnRows'
  BY <1>1, RowTypes, RowsAssumption DEF FileInv, OwnRows
<1>4. BundleRegistered'
  BY <1>1 DEF FileInv, BundleRegistered
<1>5. CandidateRegistered'
  <2>1. ctx[r].op # "stageImport"
    BY <1>1, NotStaging
  <2> QED BY <1>1, <2>1, RowTypes, RowsAssumption DEF FileInv, CandidateRegistered
<1>6. FilesOwned'
  BY <1>1 DEF FileInv, FilesOwned, NoOrphanFile
<1> QED BY <1>2, <1>3, <1>4, <1>5, <1>6 DEF FileInv

LEMMA CompensateFiles ==
    ASSUME TypeInv, FileInv, NEW r \in Requests, Compensate(r)
    PROVE  FileInv'
<1>1. /\ pc[r] = "compensate" /\ UNCHANGED <<db, tx, assets, strays>>
      /\ bundles' = bundles \ {ctx[r].backup}
      /\ documents' \in {documents, documents \ {ctx[r].cand}}
      /\ ctx[r].op = "stageImport" => documents' = documents \ {ctx[r].cand}
  BY DEF Compensate, At
<1>2. \A q \in Requests \ {r} : pc'[q] = pc[q] /\ ctx'[q] = ctx[q]
  BY Finished, Moved DEF Compensate
<1>3. \/ /\ pc'[r] = "idle" /\ ctx'[r] = NoContext
         /\ ctx'[r].backup = None /\ ctx'[r].victim = None /\ ctx'[r].cand = None
         /\ ctx'[r].op = "none"
      \/ pc'[r] = "removeRestored" /\ ctx'[r] = ctx[r] /\ ctx[r].op # "stageImport"
  BY Finished, Moved DEF Compensate, FileInv, CandidateRegistered
<1>4. IdleClean'
  BY <1>2, <1>3 DEF FileInv, IdleClean
<1>5. OwnBackup'
  <2>1. \A p \in Requests :
           /\ ctx'[p].backup \in {ctx[p].backup, None}
           /\ ctx'[p].victim \in {ctx[p].victim, None}
    BY <1>2, <1>3
  <2>2. \A q \in Requests : ctx'[q].backup # None =>
           /\ ctx'[q].backup = ctx[q].backup
           /\ pc'[q] \notin Undoing => pc[q] \notin Undoing
    BY <1>2, <1>3
  <2> QED BY <1>1, <2>1, <2>2 DEF FileInv, OwnBackup
<1>6. OwnRows'
  <2>1. \A b \in Backups : tx[r][b] = Unwritten
    BY <1>1 DEF FileInv, OwnRows
  <2> QED BY <1>1, <1>2, <2>1, RowsAssumption DEF FileInv, OwnRows
<1>7. UnlinkedFirst'
  BY <1>1, <1>2, <1>3 DEF FileInv, UnlinkedFirst
<1>8. BundleRegistered'
  <2>1. None \notin bundles
    BY RowsAssumption DEF TypeInv, FilesOK
  <2> QED BY <1>1, <1>2, <1>3, <2>1 DEF FileInv, BundleRegistered
<1>9. CandidateRegistered'
  BY <1>1, <1>2, <1>3 DEF FileInv, CandidateRegistered
<1>10. FilesOwned'
  BY <1>1, <1>2, <1>3 DEF FileInv, FilesOwned, NoOrphanFile, CandidateRegistered, TypeInv, FilesOK
<1> QED BY <1>4, <1>5, <1>6, <1>7, <1>8, <1>9, <1>10 DEF FileInv

LEMMA RemoveRestoredFiles ==
    ASSUME TypeInv, FileInv, NEW r \in Requests, RemoveRestored(r)
    PROVE  FileInv'
<1>1. /\ pc[r] = "removeRestored" /\ ctx[r].op # "stageImport"
      /\ UNCHANGED <<db, tx, bundles, documents, strays>>
  BY NotStaging DEF RemoveRestored, At
<1>2. PICK a \in ctx[r].restored :
          IF a \notin assets \/ ctx[r].restored = {a}
          THEN Finish(r)
          ELSE /\ ctx' = [ctx EXCEPT ![r].restored = @ \ {a}]
               /\ UNCHANGED pc
  BY DEF RemoveRestored
<1>3. CASE Finish(r)
  <2>1. /\ pc'[r] = "idle" /\ ctx'[r] = NoContext
        /\ \A q \in Requests \ {r} : pc'[q] = pc[q] /\ ctx'[q] = ctx[q]
        /\ ctx'[r].backup = None /\ ctx'[r].victim = None /\ ctx'[r].cand = None
        /\ ctx'[r].op = "none"
    BY <1>3, Finished
  <2>2. \A b \in Backups : tx[r][b] = Unwritten
    BY <1>1 DEF FileInv, OwnRows
  <2>3. ctx[r].backup \notin bundles
    BY <1>1, <2>2 DEF FileInv, BundleRegistered, TypeInv, FilesOK
  <2>4. None \notin bundles \cup documents
    BY RowsAssumption DEF TypeInv, FilesOK
  <2>5. IdleClean'
    BY <2>1 DEF FileInv, IdleClean
  <2>6. OwnBackup'
    <3>1. \A p \in Requests :
             /\ ctx'[p].backup \in {ctx[p].backup, None}
             /\ ctx'[p].victim \in {ctx[p].victim, None}
      BY <2>1
    <3>2. \A q \in Requests : ctx'[q].backup # None =>
             ctx'[q].backup = ctx[q].backup /\ pc'[q] = pc[q]
      BY <2>1
    <3> QED BY <1>1, <3>1, <3>2 DEF FileInv, OwnBackup
  <2>7. OwnRows'
    BY <1>1, <2>1, <2>2, RowsAssumption DEF FileInv, OwnRows
  <2>8. UnlinkedFirst' /\ BundleRegistered'
    BY <1>1, <2>1, <2>4 DEF FileInv, UnlinkedFirst, BundleRegistered
  <2>9. CandidateRegistered'
    BY <1>1, <2>1 DEF FileInv, CandidateRegistered
  <2>10. FilesOwned'
    <3>1. ctx[r].cand \in documents => db[ctx[r].cand] # None
      BY <1>1, <2>4 DEF FileInv, CandidateRegistered
    <3> QED BY <1>1, <2>1, <2>3, <3>1 DEF FileInv, FilesOwned, NoOrphanFile
  <2> QED BY <2>5, <2>6, <2>7, <2>8, <2>9, <2>10 DEF FileInv
<1>4. CASE ctx' = [ctx EXCEPT ![r].restored = @ \ {a}] /\ UNCHANGED pc
  <2> DEFINE l == [ctx[r] EXCEPT !.restored = ctx[r].restored \ {a}]
  <2>1. /\ l.op = ctx[r].op /\ l.backup = ctx[r].backup /\ l.victim = ctx[r].victim
        /\ l.cand = ctx[r].cand
    BY Local DEF Context
  <2>2. ctx'[r] = l /\ \A q \in Requests \ {r} : pc'[q] = pc[q] /\ ctx'[q] = ctx[q]
    BY <1>4 DEF TypeInv, ControlOK
  <2>3. Follows(pc[r], pc'[r], ctx[r].op)
    BY <1>1, <1>4 DEF Follows
  <2>4. OthersKept(r) /\ IdsKept(r)
    BY <2>1, <2>2 DEF OthersKept, IdsKept
  <2> QED BY <1>1, <2>3, <2>4, SameRows, Quiet
<1> QED BY <1>2, <1>3, <1>4

(***************************************************************************)
(* A write or an except clause that fails.                                 *)
(***************************************************************************)
\* What the end of a request leaves of the invariant, its files apart.
LEMMA EndedFiles ==
    ASSUME TypeInv, FileInv, NEW r \in Requests, Finish(r), Rollback(r), UNCHANGED db,
           \A b \in bundles' \ bundles : \A q \in Requests : ctx[q].victim # b,
           \A b \in bundles' \ bundles : \A q \in Requests \ {r} : ctx[q].backup # b
    PROVE  IdleClean' /\ OwnBackup' /\ OwnRows' /\ UnlinkedFirst' /\ CandidateRegistered'
<1>1. /\ pc'[r] = "idle" /\ ctx'[r] = NoContext
      /\ \A q \in Requests \ {r} : pc'[q] = pc[q] /\ ctx'[q] = ctx[q]
      /\ ctx'[r].backup = None /\ ctx'[r].victim = None /\ ctx'[r].cand = None
      /\ ctx'[r].op = "none"
  BY Finished
<1>2. (\A n \in Rows : tx'[r][n] = Unwritten) /\ \A q \in Requests \ {r} : tx'[q] = tx[q]
  BY RolledBack
<1>3. IdleClean'
  BY <1>1 DEF FileInv, IdleClean
<1>4. OwnBackup'
  <2>1. \A p \in Requests :
           /\ ctx'[p].backup \in {ctx[p].backup, None}
           /\ ctx'[p].victim \in {ctx[p].victim, None}
    BY <1>1
  <2>2. \A q \in Requests : ctx'[q].backup # None =>
           ctx'[q].backup = ctx[q].backup /\ pc'[q] = pc[q]
    BY <1>1
  <2> QED BY <2>1, <2>2 DEF FileInv, OwnBackup
<1>5. OwnRows'
  <2> SUFFICES ASSUME NEW q \in Requests, NEW b \in Backups
               PROVE  /\ tx'[q][b] = None => ctx'[q].victim = b /\ b \notin bundles'
                      /\ tx'[q][b] \notin {None, Unwritten} => ctx'[q].backup = b
                      /\ pc'[q] \in Undoing \cup {"idle"} => tx'[q][b] = Unwritten
    BY DEF OwnRows
  <2>1. CASE q = r
    BY <1>2, <2>1, RowTypes, RowsAssumption
  <2>2. CASE q # r
    BY <1>1, <1>2, <2>2 DEF FileInv, OwnRows
  <2> QED BY <2>1, <2>2
<1>6. UnlinkedFirst'
  BY <1>1 DEF FileInv, UnlinkedFirst
<1>7. CandidateRegistered'
  <2>1. \A q \in Requests, c \in Candidates : tx'[q][c] # None
    BY <1>2, RowTypes, RowsAssumption DEF FileInv, CandidateRegistered
  <2> QED BY <1>1, <1>2, <2>1 DEF FileInv, CandidateRegistered
<1> QED BY <1>3, <1>4, <1>5, <1>6, <1>7

LEMMA TornFiles ==
    ASSUME TypeInv, FileInv, NEW r \in Requests, TornWrite(r)
    PROVE  FileInv'
<1>1. /\ Finish(r) /\ Rollback(r) /\ UNCHANGED db
      /\ pc'[r] = "idle" /\ ctx'[r].backup = None
      /\ \A q \in Requests \ {r} : pc'[q] = pc[q] /\ ctx'[q] = ctx[q] /\ tx'[q] = tx[q]
  BY Finished, RolledBack DEF TornWrite
<1>2. None \notin bundles /\ None \notin documents
  BY RowsAssumption DEF TypeInv, FilesOK
<1>3. CASE /\ pc[r] = "writeBundle" /\ bundles' = bundles \cup {ctx[r].backup}
           /\ strays' = strays \cup {ctx[r].backup} /\ UNCHANGED documents
  <2> DEFINE b == ctx[r].backup
  <2>1. b # None /\ b \in Backups
    BY <1>3, Local, RowsAssumption DEF Locals
  <2>2. (\A q \in Requests : ctx[q].victim # b) /\ \A q \in Requests \ {r} : ctx[q].backup # b
    BY <1>3, <2>1 DEF FileInv, OwnBackup
  <2>3. IdleClean' /\ OwnBackup' /\ OwnRows' /\ UnlinkedFirst' /\ CandidateRegistered'
    BY <1>1, <1>3, <2>2, EndedFiles
  <2>4. BundleRegistered'
    BY <1>1, <1>2, <1>3, <2>1, <2>2 DEF FileInv, BundleRegistered
  <2>5. FilesOwned'
    <3>1. ctx[r].cand \in documents => db[ctx[r].cand] # None
      BY <1>2, <1>3 DEF FileInv, CandidateRegistered
    <3> QED BY <1>1, <1>3, <3>1 DEF FileInv, FilesOwned, NoOrphanFile
  <2> QED BY <2>3, <2>4, <2>5 DEF FileInv
<1>4. CASE /\ pc[r] = "writeCandidate" /\ documents' = documents \cup {ctx[r].cand}
           /\ strays' = strays \cup {ctx[r].cand} /\ UNCHANGED bundles
  <2>1. IdleClean' /\ OwnBackup' /\ OwnRows' /\ UnlinkedFirst' /\ CandidateRegistered'
    BY <1>1, <1>4, EndedFiles
  <2>2. BundleRegistered'
    BY <1>1, <1>2, <1>4 DEF FileInv, BundleRegistered
  <2>3. FilesOwned'
    <3>1. ctx[r].backup \notin bundles
      BY <1>2, <1>4, Local DEF Locals
    <3> QED BY <1>1, <1>4, <3>1 DEF FileInv, FilesOwned, NoOrphanFile
  <2> QED BY <2>1, <2>2, <2>3 DEF FileInv
<1> QED BY <1>3, <1>4 DEF TornWrite, At

LEMMA UndoFailsFiles ==
    ASSUME TypeInv, FileInv, NEW r \in Requests, UndoFails(r)
    PROVE  FileInv'
<1>1. /\ Finish(r) /\ Rollback(r) /\ UNCHANGED <<db, bundles, documents>>
      /\ pc'[r] = "idle" /\ ctx'[r].backup = None
      /\ \A q \in Requests \ {r} : pc'[q] = pc[q] /\ ctx'[q] = ctx[q] /\ tx'[q] = tx[q]
      /\ strays' = strays \cup Unnamed(r)
  BY Finished, RolledBack DEF UndoFails
<1>2. None \notin bundles
  BY RowsAssumption DEF TypeInv, FilesOK
<1>3. IdleClean' /\ OwnBackup' /\ OwnRows' /\ UnlinkedFirst' /\ CandidateRegistered'
  BY <1>1, EndedFiles
<1>4. BundleRegistered'
  BY <1>1, <1>2 DEF FileInv, BundleRegistered
<1>5. FilesOwned'
  BY <1>1 DEF FileInv, FilesOwned, NoOrphanFile, Unnamed
<1> QED BY <1>3, <1>4, <1>5 DEF FileInv

(***************************************************************************)
(* The invariant.                                                          *)
(***************************************************************************)
LEMMA InitFiles == Init => FileInv
<1> SUFFICES ASSUME Init PROVE FileInv
  OBVIOUS
<1>1. \A r \in Requests : pc[r] = "idle" /\ ctx[r] = NoContext
  BY DEF Init
<1>2. \A r \in Requests :
         /\ ctx[r].op = "none" /\ ctx[r].backup = None /\ ctx[r].victim = None
         /\ ctx[r].cand = None
  BY <1>1 DEF NoContext
<1>3. \A r \in Requests, n \in Rows : tx[r][n] = Unwritten
  BY DEF Init, NoWrites
<1>4. bundles = {} /\ documents = {}
  BY DEF Init
<1>5. IdleClean /\ OwnBackup /\ UnlinkedFirst /\ BundleRegistered /\ FilesOwned
  BY <1>1, <1>2, <1>4 DEF IdleClean, OwnBackup, UnlinkedFirst, BundleRegistered, FilesOwned, NoOrphanFile
<1>6. OwnRows /\ CandidateRegistered
  BY <1>2, <1>3, RowTypes, RowsAssumption DEF OwnRows, CandidateRegistered
<1> QED BY <1>5, <1>6 DEF FileInv

\* The labels at which a handler may raise.
LEMMA MayRaise ==
    ASSUME NEW r \in Requests, BackupStep(r) \/ AssetStep(r) \/ ImportStep(r) \/ SelectSnapshot(r)
    PROVE  pc[r] \notin {"idle", "discardBundle", "compensate", "removeRestored"}
<1>1. CASE BackupStep(r)
  BY <1>1 DEF BackupStep, ReadDraftToPublish, ReadPublished, ReadSource, BundleAsset, WriteBundle,
              InsertBackup, PointSelect, SelectState, PointFlush, FlushState, ReadBackup,
              UnlinkBundle, SelectRow, DeleteRow, Unpoint, ClearCurrent, At
<1>2. CASE AssetStep(r)
  BY <1>2 DEF AssetStep, WriteAsset, CheckDraft, CheckPublished, CheckSnapshot, GetAsset,
              RemoveAsset, At
<1>3. CASE ImportStep(r)
  BY <1>3 DEF ImportStep, WriteCandidate, InsertCandidate, ReviewSelect, SelectState, ReviewFlush,
              FlushState, ReadCandidate, LoadCandidate, ReadDraftToImport, ProbeAsset,
              RestoreAsset, At
<1>4. CASE SelectSnapshot(r)
  BY <1>4 DEF SelectSnapshot, At
<1> QED BY <1>1, <1>2, <1>3, <1>4

LEMMA StepFiles ==
    ASSUME TypeInv, FileInv, NEW r \in Requests, Step(r)
    PROVE  FileInv'
<1>1. ASSUME Raise(r), BackupStep(r) \/ AssetStep(r) \/ ImportStep(r) \/ SelectSnapshot(r)
      PROVE  FileInv'
  BY <1>1, MayRaise, FailedStep
<1>2. ASSUME BackupStep(r), ~Raise(r) PROVE FileInv'
  BY <1>2, BackupReadsSilent, SilentFiles, OtherRowsFiles, WriteBundleFiles, InsertBackupFiles,
     UnlinkBundleFiles, NoRowFiles, DeleteRowFiles DEF BackupStep
<1>3. ASSUME AssetStep(r), ~Raise(r) PROVE FileInv'
  BY <1>3, AssetStepsSilent, SilentFiles
<1>4. ASSUME ImportStep(r) \/ SelectSnapshot(r), ~Raise(r) PROVE FileInv'
  BY <1>4, ImportReadsSilent, SilentFiles, OtherRowsFiles, WriteCandidateFiles,
     InsertCandidateFiles DEF ImportStep
<1>5. CASE EndStep(r)
  BY <1>5, CommitFiles, DiscardBundleFiles, CompensateFiles, RemoveRestoredFiles DEF EndStep
<1>6. CASE FlushSnapshot(r)
  BY <1>6, OtherRowsFiles
<1> QED BY <1>1, <1>2, <1>3, <1>4, <1>5, <1>6 DEF Step

LEMMA CrashFiles ==
    ASSUME TypeInv, FileInv, Crash
    PROVE  FileInv'
<1>1. \A r \in Requests :
         /\ pc'[r] = "idle" /\ ctx'[r] = NoContext
         /\ ctx'[r].op = "none" /\ ctx'[r].backup = None /\ ctx'[r].victim = None
         /\ ctx'[r].cand = None
  BY DEF Crash, NoContext
<1>2. \A r \in Requests, n \in Rows : tx'[r][n] = Unwritten
  BY DEF Crash, NoWrites
<1>3. UNCHANGED <<db, bundles, documents, strays>> /\ Crashes /\ None \notin bundles
  BY RowsAssumption DEF Crash, TypeInv, FilesOK
<1>4. IdleClean' /\ OwnBackup' /\ UnlinkedFirst' /\ BundleRegistered' /\ FilesOwned'
  BY <1>1, <1>3 DEF IdleClean, OwnBackup, UnlinkedFirst, BundleRegistered, FilesOwned
<1>5. OwnRows' /\ CandidateRegistered'
  BY <1>1, <1>2, RowTypes, RowsAssumption DEF OwnRows, CandidateRegistered
<1> QED BY <1>4, <1>5 DEF FileInv

LEMMA NextFiles ==
    ASSUME TypeInv, FileInv, [Next]_vars
    PROVE  FileInv'
<1>1. ASSUME NEW r \in Requests, Arrive(r) PROVE FileInv'
  BY <1>1, ArriveFiles
<1>2. ASSUME NEW r \in Requests, Step(r) PROVE FileInv'
  BY <1>2, StepFiles
<1>3. ASSUME NEW r \in Requests, Fault(r) PROVE FileInv'
  BY <1>3, FailedStep, TornFiles, UndoFailsFiles DEF Fault, CallFails
<1>4. CASE UNCHANGED vars
  BY <1>4 DEF vars, FileInv, IdleClean, OwnBackup, OwnRows, UnlinkedFirst, BundleRegistered,
              CandidateRegistered, FilesOwned, NoOrphanFile
<1> QED BY <1>1, <1>2, <1>3, <1>4, CrashFiles DEF Next

LEMMA FileInvariant == Spec => []FileInv
BY InitFiles, NextFiles, TypeInvariant, PTL DEF Spec

(***************************************************************************)
(* As long as the process is not stopped, every bundle file and every      *)
(* candidate document is registered in the database or belongs to a        *)
(* request that is still at work, unless it was torn by its own write or   *)
(* the except clause that had to delete it has failed as well: whichever   *)
(* call of a request raises, the except clauses delete what the request    *)
(* has written and the database does not name, of any number of requests   *)
(* at once, and never a file whose registration another one has committed. *)
(***************************************************************************)
THEOREM NoOrphans ==
    ASSUME ~Crashes
    PROVE  Spec => []NoOrphanFile
<1>1. FileInv => NoOrphanFile
  BY DEF FileInv, FilesOwned
<1> QED BY <1>1, FileInvariant, PTL

(***************************************************************************)
(* The pointers of the state row.                                          *)
(*                                                                         *)
(* A transaction that has written the state row holds it, so what it has   *)
(* read there is still what is committed: each pointer that it will commit *)
(* is its own new id, whose row it commits too, or the pointer that is     *)
(* committed already.  And a transaction that has deleted a backup does    *)
(* not see the state row point to it once its DELETE is done, which stays  *)
(* so whoever commits.                                                     *)
(***************************************************************************)
Registered(row) == row \notin {None, Unwritten}

StagedCandidate == {"insertCandidate"} \cup StagedLabels

\* The rollback or the commit is over by the time the files are undone.
NothingHeld ==
    \A r \in Requests :
        pc[r] \in Undoing \cup {"idle"} => \A n \in Rows : tx[r][n] = Unwritten

\* A candidate id is staged by one request, which alone writes its row, after
\* its file.
OwnCandidate ==
    \A r \in Requests :
        /\ ctx[r].op = "stageImport" =>
              /\ \A q \in Requests \ {r} :
                    ctx[q].op = "stageImport" => ctx[q].cand # ctx[r].cand
              /\ pc[r] \in StagedCandidate => ctx[r].cand \in documents
        /\ pc[r] \in {"writeCandidate", "insertCandidate"} => ctx[r].op = "stageImport"
        /\ \A c \in Candidates :
              tx[r][c] # Unwritten =>
                 ctx[r].op = "stageImport" /\ ctx[r].cand = c /\ pc[r] \in StagedLabels

\* Until a request has committed, its ids are in no committed row, and if a
\* COMMIT that was applied is never reported as failed, a request that undoes
\* its files has not committed.
UnregisteredIds ==
    \A r \in Requests :
        (AckLoss => pc[r] \notin Undoing) =>
          /\ ctx[r].backup # None =>
                /\ db[ctx[r].backup] = None
                /\ \A q \in Requests : ctx[q].victim # ctx[r].backup
          /\ ctx[r].op = "stageImport" => db[ctx[r].cand] = None

InsertedFirst ==
    \A r \in Requests :
        pc[r] \in {"pointSelect", "pointFlush"} => Registered(tx[r][ctx[r].backup])

PointsTo(rows, id, own, state, committed) ==
    id # None =>
        \/ id = own /\ Registered(rows[id])
        \/ state # None /\ id = committed

HoldsState(rows, l, state) ==
    LET written == rows["state"] IN
    written # Unwritten =>
        /\ written # None
        /\ PointsTo(rows, written.current, l.backup, state, state.current)
        /\ PointsTo(rows, written.pending, l.cand, state, state.pending)

StateHeld == \A r \in Requests : HoldsState(tx[r], ctx[r], db["state"])

Unpointed ==
    \A r \in Requests, b \in Backups :
        tx[r][b] = None /\ pc[r] # "unpoint" /\ View(r, "state") # None
        => View(r, "state").current # b

PointerInv ==
    /\ NothingHeld /\ OwnCandidate /\ UnregisteredIds /\ InsertedFirst
    /\ RowsExclusive /\ StateHeld /\ Unpointed
    /\ ~AckLoss => StatePointersValid

USE DEF StagedCandidate

LEMMA HeldBy ==
    ASSUME RowsExclusive, NEW r \in Requests, NEW q \in Requests \ {r}, NEW n \in Rows,
           tx[r][n] # Unwritten
    PROVE  tx[q][n] = Unwritten
BY DEF RowsExclusive

LEMMA WritesExclusive ==
    ASSUME RowsExclusive, NEW r \in Requests, \A q \in Requests \ {r} : tx'[q] = tx[q],
           \A n \in Rows : tx'[r][n] \in {tx[r][n], Unwritten} \/ ~Held(n, r)
    PROVE  RowsExclusive'
BY DEF RowsExclusive, Held

\* The moves of a step that changes neither rows nor ids nor documents.
SteadyMove(label, next) ==
    /\ next \notin {"idle", "pointSelect", "writeCandidate", "insertCandidate"}
    /\ label \in Undoing <=> next \in Undoing
    /\ next = "pointFlush" => label = "pointSelect"
    /\ label \in StagedLabels \ {"commit"} => next \in StagedLabels
    /\ label \notin {"commit", "unpoint"}

Steady(r) ==
    /\ SteadyMove(pc[r], pc'[r])
    /\ ctx[r].op = "stageImport" /\ pc'[r] \in StagedCandidate => pc[r] \in StagedCandidate
    /\ OthersKept(r) /\ IdsKept(r)
    /\ UNCHANGED <<db, tx, documents>>

LEMMA SteadyPointers ==
    ASSUME TypeInv, FileInv, PointerInv, NEW r \in Requests, Steady(r)
    PROVE  PointerInv'
<1> USE DEF Steady, OthersKept, IdsKept
<1>1. NothingHeld'
  BY DEF PointerInv, NothingHeld, SteadyMove
<1>2. OwnCandidate'
  BY DEF PointerInv, OwnCandidate, SteadyMove
<1>3. UnregisteredIds'
  <2>1. \A q \in Requests :
           /\ ctx'[q].backup = ctx[q].backup /\ ctx'[q].victim = ctx[q].victim
           /\ ctx'[q].cand = ctx[q].cand /\ ctx'[q].op = ctx[q].op
           /\ pc'[q] \in Undoing <=> pc[q] \in Undoing
    BY DEF SteadyMove
  <2> QED BY <2>1 DEF PointerInv, UnregisteredIds
<1>4. InsertedFirst'
  BY DEF PointerInv, InsertedFirst, Registered, SteadyMove
<1>5. RowsExclusive' /\ Unpointed'
  BY DEF PointerInv, RowsExclusive, Unpointed, View, SteadyMove
<1>6. StateHeld'
  BY DEF PointerInv, StateHeld, HoldsState
<1>7. (~AckLoss => StatePointersValid)'
  BY DEF PointerInv, StatePointersValid
<1> QED BY <1>1, <1>2, <1>3, <1>4, <1>5, <1>6, <1>7 DEF PointerInv

\* A request fails: its transaction is rolled back and its ids stay.
LEMMA RolledBackPointers ==
    ASSUME TypeInv, FileInv, PointerInv, NEW r \in Requests, Rollback(r), GoTo(r, "compensate"),
           pc[r] \notin Undoing, UNCHANGED <<db, documents, ctx>>
    PROVE  PointerInv'
<1>1. /\ pc'[r] = "compensate" /\ \A q \in Requests \ {r} : pc'[q] = pc[q] /\ tx'[q] = tx[q]
      /\ \A n \in Rows : tx'[r][n] = Unwritten
  BY Moved, RolledBack
<1>2. NothingHeld'
  BY <1>1 DEF PointerInv, NothingHeld
<1>3. OwnCandidate'
  BY <1>1, RowTypes DEF PointerInv, OwnCandidate
<1>4. UnregisteredIds'
  BY <1>1 DEF PointerInv, UnregisteredIds
<1>5. InsertedFirst'
  BY <1>1 DEF PointerInv, InsertedFirst, Registered
<1>6. RowsExclusive'
  BY <1>1, WritesExclusive DEF PointerInv
<1>7. Unpointed'
  BY <1>1, RowTypes, RowsAssumption DEF PointerInv, Unpointed, View
<1>8. StateHeld'
  BY <1>1, RowTypes DEF PointerInv, StateHeld, HoldsState
<1>9. (~AckLoss => StatePointersValid)'
  BY DEF PointerInv, StatePointersValid
<1> QED BY <1>2, <1>3, <1>4, <1>5, <1>6, <1>7, <1>8, <1>9 DEF PointerInv

LEMMA RaisePointers ==
    ASSUME TypeInv, FileInv, PointerInv, NEW r \in Requests, Raise(r),
           pc[r] \notin {"idle", "discardBundle", "compensate", "removeRestored"}
    PROVE  PointerInv'
<1>1. CASE InBackupTry(r)
  <2>1. pc'[r] = "discardBundle" /\ \A q \in Requests \ {r} : pc'[q] = pc[q]
    BY <1>1, Moved DEF Raise
  <2>2. Steady(r)
    BY <1>1, <2>1 DEF Raise, InBackupTry, files, Steady, SteadyMove, OthersKept, IdsKept
  <2> QED BY <2>2, SteadyPointers
<1>2. CASE ~InBackupTry(r)
  BY <1>2, RolledBackPointers DEF Raise, files
<1> QED BY <1>1, <1>2

LEMMA SilentPointers ==
    ASSUME TypeInv, FileInv, PointerInv, NEW r \in Requests, Silent(r)
    PROVE  PointerInv'
<1>1. ctx[r].op = "stageImport" => pc[r] = "reviewSelect" /\ pc'[r] = "reviewFlush"
  <2>1. pc[r] \in StageLabels => pc[r] = "reviewSelect"
    BY DEF Silent, SilentMove
  <2> QED BY <2>1, NotStaging DEF Silent, SilentMove
<1>2. SteadyMove(pc[r], pc'[r])
  BY DEF Silent, SilentMove, SteadyMove
<1>3. Steady(r)
  BY <1>1, <1>2 DEF Silent, Steady
<1> QED BY <1>3, SteadyPointers

LEMMA BundleStepsPointers ==
    ASSUME TypeInv, FileInv, PointerInv, NEW r \in Requests, WriteBundle(r) \/ UnlinkBundle(r)
    PROVE  PointerInv'
<1>1. /\ \/ pc[r] = "writeBundle" /\ pc'[r] = "insertBackup"
         \/ pc[r] = "unlinkBundle" /\ pc'[r] = "selectRow"
      /\ \A q \in Requests \ {r} : pc'[q] = pc[q]
      /\ UNCHANGED <<db, tx, documents, ctx>>
  BY Moved DEF WriteBundle, UnlinkBundle, At
<1>2. Steady(r)
  BY <1>1 DEF Steady, SteadyMove, OthersKept, IdsKept
<1> QED BY <1>2, SteadyPointers

LEMMA WriteCandidatePointers ==
    ASSUME TypeInv, FileInv, PointerInv, NEW r \in Requests, WriteCandidate(r)
    PROVE  PointerInv'
<1>1. /\ pc[r] = "writeCandidate" /\ pc'[r] = "insertCandidate"
      /\ documents' = documents \cup {ctx[r].cand}
      /\ \A q \in Requests \ {r} : pc'[q] = pc[q]
      /\ UNCHANGED <<db, tx, ctx>>
  BY Moved DEF WriteCandidate, At
<1>2. NothingHeld'
  BY <1>1 DEF PointerInv, NothingHeld
<1>3. OwnCandidate'
  BY <1>1 DEF PointerInv, OwnCandidate
<1>4. UnregisteredIds' /\ InsertedFirst'
  BY <1>1 DEF PointerInv, UnregisteredIds, InsertedFirst, Registered
<1>5. RowsExclusive' /\ StateHeld' /\ Unpointed'
  BY <1>1 DEF PointerInv, RowsExclusive, StateHeld, Unpointed, View
<1>6. (~AckLoss => StatePointersValid)'
  BY <1>1 DEF PointerInv, StatePointersValid
<1> QED BY <1>2, <1>3, <1>4, <1>5, <1>6 DEF PointerInv

(***************************************************************************)
(* A request arrives with fresh ids.                                       *)
(***************************************************************************)
LEMMA ArrivePointers ==
    ASSUME TypeInv, FileInv, PointerInv, NEW r \in Requests, Arrive(r)
    PROVE  PointerInv'
<1>0. PICK label, l : Begin(r, label, l) /\ Fresh(label, l)
  BY ArriveFresh
<1>1. /\ pc'[r] = label /\ ctx'[r] = l /\ UNCHANGED stores
      /\ pc[r] = "idle" /\ ctx[r] = NoContext
      /\ \A q \in Requests \ {r} : pc'[q] = pc[q] /\ ctx'[q] = ctx[q]
  BY <1>0, Moved DEF Begin, At, TypeInv, ControlOK, FileInv, IdleClean
<1>2. \A n \in Rows : tx[r][n] = Unwritten
  BY <1>1 DEF PointerInv, NothingHeld
<1>3. label \notin Undoing \cup StagedCandidate \cup {"idle", "pointSelect", "pointFlush"}
  BY <1>0 DEF Fresh, ArriveLabels
<1>4. NothingHeld'
  BY <1>1, <1>3 DEF PointerInv, NothingHeld, stores
<1>5. OwnCandidate'
  <2>1. l.op = "stageImport" => \A q \in Requests : ctx[q].cand # l.cand
    BY <1>0 DEF Fresh, FreshCandidate
  <2>2. l.op = "stageImport" <=> label = "writeCandidate"
    BY <1>0 DEF Fresh
  <2> QED BY <1>1, <1>2, <1>3, <2>1, <2>2, RowTypes DEF PointerInv, OwnCandidate, stores
<1>6. UnregisteredIds'
  <2>1. l.backup # None =>
           /\ db[l.backup] = None /\ l.victim = None
           /\ \A q \in Requests : ctx[q].victim # l.backup
    BY <1>0 DEF Fresh, FreshBackup
  <2>2. l.victim # None => db[l.victim] # None
    BY <1>0 DEF Fresh
  <2>3. l.op = "stageImport" => db[l.cand] = None
    BY <1>0 DEF Fresh, FreshCandidate
  <2>4. ASSUME NEW q \in Requests, (AckLoss => pc'[q] \notin Undoing), ctx'[q].backup # None
        PROVE  db'[ctx'[q].backup] = None /\ \A p \in Requests : ctx'[p].victim # ctx'[q].backup
    <3>1. CASE q = r
      BY <1>1, <2>1, <2>4, <3>1 DEF stores
    <3>2. CASE q # r
      <4>1. ctx'[q] = ctx[q] /\ pc'[q] = pc[q] /\ db' = db
        BY <1>1, <3>2 DEF stores
      <4>2. db[ctx[q].backup] = None /\ \A p \in Requests : ctx[p].victim # ctx[q].backup
        BY <2>4, <4>1 DEF PointerInv, UnregisteredIds
      <4>3. l.victim # ctx[q].backup
        BY <2>2, <2>4, <4>1, <4>2
      <4> QED BY <1>1, <4>1, <4>2, <4>3
    <3> QED BY <3>1, <3>2
  <2>5. ASSUME NEW q \in Requests, (AckLoss => pc'[q] \notin Undoing), ctx'[q].op = "stageImport"
        PROVE  db'[ctx'[q].cand] = None
    BY <1>1, <2>3, <2>5 DEF PointerInv, UnregisteredIds, stores
  <2> QED BY <2>4, <2>5 DEF UnregisteredIds
<1>7. InsertedFirst'
  BY <1>1, <1>3 DEF PointerInv, InsertedFirst, Registered, stores
<1>8. RowsExclusive' /\ Unpointed'
  BY <1>1 DEF PointerInv, RowsExclusive, Unpointed, View, stores
<1>9. StateHeld'
  BY <1>1, <1>2, RowTypes DEF PointerInv, StateHeld, HoldsState, stores
<1>10. (~AckLoss => StatePointersValid)'
  BY <1>1 DEF PointerInv, StatePointersValid, stores
<1> QED BY <1>4, <1>5, <1>6, <1>7, <1>8, <1>9, <1>10 DEF PointerInv

(***************************************************************************)
(* A request ends, with its transaction over and its files undone.         *)
(***************************************************************************)
LEMMA EndedPointers ==
    ASSUME TypeInv, FileInv, PointerInv, NEW r \in Requests, Finish(r), pc[r] \in Undoing,
           UNCHANGED <<db, tx>>,
           documents' \in {documents, documents \ {ctx[r].cand}},
           documents' # documents => ctx[r].op = "stageImport"
    PROVE  PointerInv'
<1>1. /\ pc'[r] = "idle" /\ ctx'[r] = NoContext
      /\ \A q \in Requests \ {r} : pc'[q] = pc[q] /\ ctx'[q] = ctx[q]
      /\ ctx'[r].backup = None /\ ctx'[r].victim = None /\ ctx'[r].cand = None
      /\ ctx'[r].op = "none"
  BY Finished
<1>2. \A n \in Rows : tx[r][n] = Unwritten
  BY DEF PointerInv, NothingHeld
<1>3. NothingHeld'
  BY <1>1, <1>2 DEF PointerInv, NothingHeld
<1>4. OwnCandidate'
  <2>1. \A q \in Requests \ {r} :
           ctx[q].op = "stageImport" /\ ctx[q].cand \in documents => ctx[q].cand \in documents'
    BY DEF PointerInv, OwnCandidate
  <2> QED BY <1>1, <1>2, <2>1, RowTypes DEF PointerInv, OwnCandidate
<1>5. UnregisteredIds'
  BY <1>1, RowsAssumption DEF PointerInv, UnregisteredIds
<1>6. InsertedFirst'
  BY <1>1 DEF PointerInv, InsertedFirst, Registered
<1>7. RowsExclusive' /\ Unpointed'
  BY <1>1 DEF PointerInv, RowsExclusive, Unpointed, View
<1>8. StateHeld'
  BY <1>1, <1>2, RowTypes DEF PointerInv, StateHeld, HoldsState
<1>9. ASSUME ~AckLoss PROVE StatePointersValid'
  <2>1. ctx[r].op = "stageImport" => db[ctx[r].cand] = None
    BY <1>9 DEF PointerInv, UnregisteredIds
  <2>2. db["state"] # None /\ db["state"].pending # None => db["state"].pending \in documents'
    BY <1>9, <2>1 DEF PointerInv, StatePointersValid
  <2> QED BY <1>9, <2>2 DEF PointerInv, StatePointersValid
<1> QED BY <1>3, <1>4, <1>5, <1>6, <1>7, <1>8, <1>9 DEF PointerInv

\* A write or an except clause fails: the request ends and has deleted no document.
LEMMA AbortPointers ==
    ASSUME TypeInv, FileInv, PointerInv, NEW r \in Requests, TornWrite(r) \/ UndoFails(r)
    PROVE  PointerInv'
<1>1. /\ pc'[r] = "idle"
      /\ \A q \in Requests \ {r} : pc'[q] = pc[q] /\ ctx'[q] = ctx[q]
      /\ ctx'[r].backup = None /\ ctx'[r].victim = None /\ ctx'[r].cand = None
      /\ ctx'[r].op = "none"
  BY Finished DEF TornWrite, UndoFails
<1>2. (\A n \in Rows : tx'[r][n] = Unwritten) /\ \A q \in Requests \ {r} : tx'[q] = tx[q]
  BY RolledBack DEF TornWrite, UndoFails
<1>3. UNCHANGED db /\ documents \subseteq documents'
  BY DEF TornWrite, UndoFails
<1>4. NothingHeld'
  BY <1>1, <1>2 DEF PointerInv, NothingHeld
<1>5. OwnCandidate'
  BY <1>1, <1>2, <1>3, RowTypes DEF PointerInv, OwnCandidate
<1>6. UnregisteredIds'
  BY <1>1, <1>3, RowsAssumption DEF PointerInv, UnregisteredIds
<1>7. InsertedFirst'
  BY <1>1, <1>2 DEF PointerInv, InsertedFirst, Registered
<1>8. RowsExclusive'
  BY <1>2, WritesExclusive DEF PointerInv
<1>9. Unpointed'
  BY <1>1, <1>2, <1>3, RowTypes, RowsAssumption DEF PointerInv, Unpointed, View
<1>10. StateHeld'
  BY <1>1, <1>2, <1>3, RowTypes DEF PointerInv, StateHeld, HoldsState
<1>11. (~AckLoss => StatePointersValid)'
  BY <1>3 DEF PointerInv, StatePointersValid
<1> QED BY <1>4, <1>5, <1>6, <1>7, <1>8, <1>9, <1>10, <1>11 DEF PointerInv

LEMMA UndoPointers ==
    ASSUME TypeInv, FileInv, PointerInv, NEW r \in Requests,
           DiscardBundle(r) \/ Compensate(r) \/ RemoveRestored(r)
    PROVE  PointerInv'
<1>1. ASSUME DiscardBundle(r) PROVE PointerInv'
  BY <1>1, RolledBackPointers DEF DiscardBundle, At
<1>2. ASSUME Compensate(r) PROVE PointerInv'
  <2>1. /\ pc[r] = "compensate" /\ UNCHANGED <<db, tx, assets>>
        /\ documents' \in {documents, documents \ {ctx[r].cand}}
        /\ documents' # documents => ctx[r].op = "stageImport"
    BY <1>2 DEF Compensate, At
  <2>2. CASE Finish(r)
    BY <2>1, <2>2, EndedPointers
  <2>3. CASE ~Finish(r)
    <3>1. ctx[r].op # "stageImport" /\ GoTo(r, "removeRestored") /\ UNCHANGED ctx
      BY <1>2, <2>1, <2>3 DEF Compensate, FileInv, CandidateRegistered
    <3>2. Steady(r)
      BY <2>1, <3>1, Moved DEF Steady, SteadyMove, OthersKept, IdsKept
    <3> QED BY <3>2, SteadyPointers
  <2> QED BY <2>2, <2>3
<1>3. ASSUME RemoveRestored(r) PROVE PointerInv'
  <2>1. pc[r] = "removeRestored" /\ UNCHANGED <<db, tx, bundles, documents>>
    BY <1>3 DEF RemoveRestored, At
  <2>2. CASE Finish(r)
    BY <2>1, <2>2, EndedPointers
  <2>3. ASSUME NEW a, ctx' = [ctx EXCEPT ![r].restored = @ \ {a}], UNCHANGED pc
        PROVE  PointerInv'
    <3> DEFINE l == [ctx[r] EXCEPT !.restored = ctx[r].restored \ {a}]
    <3>1. /\ l.op = ctx[r].op /\ l.backup = ctx[r].backup /\ l.victim = ctx[r].victim
          /\ l.cand = ctx[r].cand
      BY Local DEF Context
    <3>2. ctx'[r] = l /\ \A q \in Requests \ {r} : pc'[q] = pc[q] /\ ctx'[q] = ctx[q]
      BY <2>3 DEF TypeInv, ControlOK
    <3> HIDE DEF l
    <3>3. Steady(r)
      BY <2>1, <2>3, <3>1, <3>2 DEF Steady, SteadyMove, OthersKept, IdsKept
    <3> QED BY <3>3, SteadyPointers
  <2> QED BY <1>3, <2>2, <2>3 DEF RemoveRestored
<1> QED BY <1>1, <1>2, <1>3

(***************************************************************************)
(* The steps that write rows.                                              *)
(***************************************************************************)
\* A step that changes the rows of r's transaction only.
Writes(r, label) ==
    /\ pc'[r] = label /\ \A q \in Requests \ {r} : pc'[q] = pc[q] /\ tx'[q] = tx[q]
    /\ UNCHANGED <<db, documents, ctx>>

WriteMove(label, next) ==
    /\ next \notin {"idle", "writeCandidate", "insertCandidate", "pointFlush"} \cup Undoing
    /\ label \notin Undoing

\* What such a step has to show of the rows that it has written.
LEMMA WritesPointers ==
    ASSUME TypeInv, FileInv, PointerInv, NEW r \in Requests, NEW label, Writes(r, label),
           WriteMove(pc[r], label),
           ctx[r].op = "stageImport" /\ label \in StagedLabels => pc[r] \in StagedCandidate,
           label = "pointSelect" => Registered(tx'[r][ctx[r].backup]),
           \A n \in Rows : tx'[r][n] \in {tx[r][n], Unwritten} \/ ~Held(n, r),
           \A c \in Candidates :
              tx'[r][c] # Unwritten =>
                 ctx[r].op = "stageImport" /\ ctx[r].cand = c /\ label \in StagedLabels,
           HoldsState(tx'[r], ctx[r], db["state"]),
           \A b \in Backups :
              tx'[r][b] = None /\ label # "unpoint" /\ View(r, "state")' # None
              => View(r, "state")'.current # b
    PROVE  PointerInv'
<1> USE DEF Writes
<1>1. NothingHeld'
  BY DEF PointerInv, NothingHeld, WriteMove
<1>2. OwnCandidate'
  BY DEF PointerInv, OwnCandidate, WriteMove
<1>3. UnregisteredIds'
  BY DEF PointerInv, UnregisteredIds, WriteMove
<1>4. InsertedFirst'
  BY DEF PointerInv, InsertedFirst, Registered, WriteMove
<1>5. RowsExclusive'
  BY WritesExclusive DEF PointerInv
<1>6. StateHeld'
  BY DEF PointerInv, StateHeld
<1>7. Unpointed'
  BY DEF PointerInv, Unpointed, View
<1>8. (~AckLoss => StatePointersValid)'
  BY DEF PointerInv, StatePointersValid
<1> QED BY <1>1, <1>2, <1>3, <1>4, <1>5, <1>6, <1>7, <1>8 DEF PointerInv

\* A row of a snapshot or of a new backup or candidate: the state row that the
\* transaction sees stays the same.
LEMMA OtherRowWritten ==
    ASSUME TypeInv, FileInv, PointerInv, NEW r \in Requests, NEW label, NEW n \in Rows \ {"state"},
           NEW row, Registered(row), Write(r, n, row), GoTo(r, label), UNCHANGED <<db, documents, ctx>>,
           WriteMove(pc[r], label), ~Held(n, r),
           ctx[r].op = "stageImport" /\ label \in StagedLabels => pc[r] \in StagedCandidate,
           label = "pointSelect" => n = ctx[r].backup, pc[r] # "unpoint",
           n \in Candidates => ctx[r].op = "stageImport" /\ ctx[r].cand = n,
           ctx[r].op = "stageImport" => label \in StagedLabels
    PROVE  PointerInv'
<1>1. /\ tx'[r][n] = row
      /\ \A m \in Rows \ {n} : tx'[r][m] = tx[r][m]
      /\ \A q \in Requests \ {r} : tx'[q] = tx[q]
  BY Written
<1>2. Writes(r, label)
  BY <1>1, Moved DEF Writes
<1>3. label = "pointSelect" => Registered(tx'[r][ctx[r].backup])
  BY <1>1
<1>4. \A m \in Rows : tx'[r][m] \in {tx[r][m], Unwritten} \/ ~Held(m, r)
  BY <1>1
<1>5. \A c \in Candidates :
         tx'[r][c] # Unwritten =>
            ctx[r].op = "stageImport" /\ ctx[r].cand = c /\ label \in StagedLabels
  BY <1>1, RowTypes DEF PointerInv, OwnCandidate
<1>6. HoldsState(tx'[r], ctx[r], db["state"])
  <2>1. tx'[r]["state"] = tx[r]["state"] /\ HoldsState(tx[r], ctx[r], db["state"])
    BY <1>1, RowTypes DEF PointerInv, StateHeld
  <2>2. \A id \in Rows : Registered(tx[r][id]) => Registered(tx'[r][id])
    BY <1>1
  <2>3. tx[r]["state"] # Unwritten => tx[r]["state"] \in StateRow
    BY <2>1, RowTypes DEF HoldsState, TypeInv, TxOK
  <2>4. tx[r]["state"] # Unwritten =>
           /\ tx[r]["state"].current # None => tx[r]["state"].current \in Rows
           /\ tx[r]["state"].pending # None => tx[r]["state"].pending \in Rows
    BY <2>3, RowTypes DEF StateRow
  <2> QED BY <2>1, <2>2, <2>4 DEF HoldsState, PointsTo
<1>7. \A b \in Backups :
         tx'[r][b] = None /\ View(r, "state")' # None => View(r, "state")'.current # b
  <2>1. View(r, "state")' = View(r, "state")
    BY <1>1, RowTypes DEF View
  <2>2. \A b \in Backups : tx'[r][b] = None => tx[r][b] = None
    BY <1>1, RowTypes DEF Registered
  <2> QED BY <2>1, <2>2 DEF PointerInv, Unpointed
<1> QED BY <1>2, <1>3, <1>4, <1>5, <1>6, <1>7, WritesPointers

LEMMA InsertBackupPointers ==
    ASSUME TypeInv, FileInv, PointerInv, NEW r \in Requests, InsertBackup(r)
    PROVE  PointerInv'
<1> DEFINE b == ctx[r].backup
<1>1. /\ pc[r] = "insertBackup" /\ Write(r, b, ctx[r].source) /\ GoTo(r, "pointSelect")
      /\ UNCHANGED <<db, documents, ctx>>
  BY DEF InsertBackup, At, files
<1>2. b \in Backups /\ b \in Rows \ {"state"} /\ b \notin Candidates /\ b # None
      /\ ctx[r].source \in SnapshotRow
  BY <1>1, Local, RowTypes, RowsAssumption DEF Locals
<1>3. Registered(ctx[r].source)
  BY <1>2, RowsAssumption DEF Registered
<1>4. ~Held(b, r)
  <2> SUFFICES ASSUME NEW q \in Requests \ {r} PROVE tx[q][b] = Unwritten
    BY DEF Held
  <2>1. ctx[q].backup # b /\ ctx[q].victim # b
    BY <1>1, <1>2 DEF FileInv, OwnBackup
  <2> QED BY <1>2, <2>1 DEF FileInv, OwnRows
<1>5. ctx[r].op # "stageImport" /\ WriteMove(pc[r], "pointSelect")
  BY <1>1, NotStaging DEF WriteMove
<1> HIDE DEF b
<1> QED BY <1>1, <1>2, <1>3, <1>4, <1>5, OtherRowWritten DEF b

LEMMA InsertCandidatePointers ==
    ASSUME TypeInv, FileInv, PointerInv, NEW r \in Requests, InsertCandidate(r), ~Raise(r)
    PROVE  PointerInv'
<1> DEFINE c == ctx[r].cand
<1>1. /\ pc[r] = "insertCandidate" /\ Write(r, c, ctx[r].document) /\ GoTo(r, "reviewSelect")
      /\ UNCHANGED <<db, documents, ctx>>
  BY DEF InsertCandidate, At, files
<1>2. c \in Candidates /\ c \in Rows \ {"state"} /\ ctx[r].document \in Document
  BY <1>1, Local, RowTypes, RowsAssumption DEF Locals
<1>3. Registered(ctx[r].document)
  BY <1>2, RowsAssumption DEF Registered
<1>4. ctx[r].op = "stageImport"
  BY <1>1 DEF PointerInv, OwnCandidate
<1>5. ~Held(c, r)
  <2> SUFFICES ASSUME NEW q \in Requests \ {r} PROVE tx[q][c] = Unwritten
    BY DEF Held
  <2> QED BY <1>2, <1>4 DEF PointerInv, OwnCandidate
<1>6. WriteMove(pc[r], "reviewSelect")
  BY <1>1 DEF WriteMove
<1> HIDE DEF c
<1> QED BY <1>1, <1>2, <1>3, <1>4, <1>5, <1>6, OtherRowWritten DEF c

LEMMA SnapshotToWriteType ==
    ASSUME TypeInv, NEW r \in Requests, pc[r] = "flushSnapshot",
           (ctx[r].seen = None) = (db[Target(ctx[r].op)] = None)
    PROVE  Registered(SnapshotToWrite(r))
<1>1. ctx[r].next \in SnapshotRow
  BY Local DEF Locals
<1>2. ctx[r].seen # None => Registered(UpdatedRow(db[Target(ctx[r].op)], ctx[r].seen, ctx[r].next))
  <2> DEFINE k == Target(ctx[r].op)
  <2>1. k \in Kinds
    BY DEF Target, Kinds
  <2> HIDE DEF k
  <2>2. ASSUME ctx[r].seen # None PROVE db[k] \in SnapshotRow
    BY <2>1, <2>2, RowTypes DEF TypeInv, DbOK, k
  <2>3. ASSUME db[k] \in SnapshotRow
        PROVE  UpdatedRow(db[k], ctx[r].seen, ctx[r].next) \in SnapshotRow
    BY <1>1, <2>3 DEF UpdatedRow, SnapshotRow
  <2> QED BY <2>2, <2>3, RowsAssumption DEF Registered, k
<1>3. Registered(ctx[r].next)
  BY <1>1, RowsAssumption DEF Registered
<1> QED BY <1>2, <1>3 DEF SnapshotToWrite

LEMMA FlushSnapshotPointers ==
    ASSUME TypeInv, FileInv, PointerInv, NEW r \in Requests, FlushSnapshot(r), ~Raise(r)
    PROVE  PointerInv'
<1> DEFINE k == Target(ctx[r].op)
<1>1. k \in Kinds /\ k \in Rows \ {"state"} /\ k \notin Candidates \cup Backups
  BY RowTypes, RowsAssumption DEF Target, Kinds
<1>2. /\ pc[r] = "flushSnapshot" /\ ~Held(k, r)
      /\ (ctx[r].seen = None) = (db[k] = None)
      /\ Write(r, k, SnapshotToWrite(r))
      /\ UNCHANGED <<db, documents, ctx>>
  BY DEF FlushSnapshot, At, files
<1>3. PICK label \in {"reviewSelect", "commit"} : GoTo(r, label)
  BY DEF FlushSnapshot
<1>4. ctx[r].op # "stageImport" /\ WriteMove(pc[r], label)
  BY <1>2, NotStaging DEF WriteMove
<1>5. Registered(SnapshotToWrite(r))
  BY <1>2, SnapshotToWriteType
<1> HIDE DEF k
<1> QED BY <1>1, <1>2, <1>3, <1>4, <1>5, OtherRowWritten

\* The state row that a request is about to write has the pointers that it
\* sees, but for the one that it sets.
LEMMA StateSeen ==
    ASSUME TypeInv, PointerInv, NEW r \in Requests, NEW state \in StateRow, pc[r] # "unpoint",
           state = View(r, "state") \/ state = NoState
    PROVE  /\ PointsTo(tx[r], state.current, ctx[r].backup, db["state"], db["state"].current)
           /\ PointsTo(tx[r], state.pending, ctx[r].cand, db["state"], db["state"].pending)
           /\ state.current \in Backups \cup {None} /\ state.pending \in Candidates \cup {None}
           /\ \A b \in Backups : tx[r][b] = None => state.current # b
<1>1. state.current \in Backups \cup {None} /\ state.pending \in Candidates \cup {None} /\ state # None
  BY RowsAssumption DEF StateRow
<1>2. CASE state = NoState
  BY <1>1, <1>2, RowsAssumption DEF NoState, PointsTo
<1>3. CASE state = View(r, "state") /\ tx[r]["state"] = Unwritten
  BY <1>1, <1>3 DEF View, PointsTo, PointerInv, Unpointed
<1>4. CASE state = View(r, "state") /\ tx[r]["state"] # Unwritten
  BY <1>1, <1>4 DEF View, PointerInv, StateHeld, HoldsState, Unpointed
<1> QED BY <1>2, <1>3, <1>4

LEMMA StateWritten ==
    ASSUME TypeInv, FileInv, PointerInv, NEW r \in Requests, NEW label, NEW row \in StateRow,
           Write(r, "state", row), GoTo(r, label), UNCHANGED <<db, documents, ctx>>,
           WriteMove(pc[r], label), ~Held("state", r), label # "pointSelect",
           ctx[r].op = "stageImport" =>
              pc[r] \in StagedCandidate /\ label \in StagedLabels,
           PointsTo(tx[r], row.current, ctx[r].backup, db["state"], db["state"].current),
           PointsTo(tx[r], row.pending, ctx[r].cand, db["state"], db["state"].pending),
           \A b \in Backups : tx[r][b] = None => row.current # b
    PROVE  PointerInv'
<1>1. /\ tx'[r]["state"] = row
      /\ \A m \in Rows \ {"state"} : tx'[r][m] = tx[r][m]
      /\ \A q \in Requests \ {r} : tx'[q] = tx[q]
  BY Written, RowTypes
<1>2. Writes(r, label)
  BY <1>1, Moved DEF Writes
<1>3. row # None /\ row # Unwritten
  BY RowsAssumption
<1>4. \A m \in Rows : tx'[r][m] \in {tx[r][m], Unwritten} \/ ~Held(m, r)
  BY <1>1
<1>5. \A n \in Backups \cup Candidates : n # "state" /\ n \in Rows /\ tx'[r][n] = tx[r][n]
  BY <1>1, RowTypes, RowsAssumption
<1>6. \A c \in Candidates :
         tx'[r][c] # Unwritten =>
            ctx[r].op = "stageImport" /\ ctx[r].cand = c /\ label \in StagedLabels
  BY <1>5 DEF PointerInv, OwnCandidate
<1>7. HoldsState(tx'[r], ctx[r], db["state"])
  <2>1. row.current \in Backups \cup {None} /\ row.pending \in Candidates \cup {None}
    BY DEF StateRow
  <2>2. /\ PointsTo(tx'[r], row.current, ctx[r].backup, db["state"], db["state"].current)
        /\ PointsTo(tx'[r], row.pending, ctx[r].cand, db["state"], db["state"].pending)
    BY <1>5, <2>1 DEF PointsTo
  <2> QED BY <1>1, <1>3, <2>2 DEF HoldsState
<1>8. \A b \in Backups :
         tx'[r][b] = None /\ View(r, "state")' # None => View(r, "state")'.current # b
  <2>1. View(r, "state")' = row
    BY <1>1, <1>3 DEF View
  <2> QED BY <1>5, <2>1
<1> QED BY <1>2, <1>4, <1>6, <1>7, <1>8, WritesPointers

LEMMA PointFlushPointers ==
    ASSUME TypeInv, FileInv, PointerInv, NEW r \in Requests, PointFlush(r), ~Raise(r)
    PROVE  PointerInv'
<1> DEFINE seen == StateBefore(r)
           row == [seen EXCEPT !.current = ctx[r].backup]
<1>1. /\ pc[r] = "pointFlush" /\ ~Held("state", r)
      /\ (ctx[r].seen = None) = (View(r, "state") = None)
      /\ Write(r, "state", row) /\ GoTo(r, AfterBackup(ctx[r].op))
      /\ UNCHANGED <<db, documents, ctx>>
  BY DEF PointFlush, FlushState, At, files
<1>2. ctx[r].op \in BackingOps /\ ctx[r].backup \in Backups
  BY <1>1, Local DEF Locals
<1>3. seen \in StateRow /\ (seen = View(r, "state") \/ seen = NoState)
  BY <1>1, StateBeforeType DEF StateBefore, TypeInv
<1> HIDE DEF seen
<1>4. row \in StateRow /\ row.current = ctx[r].backup /\ row.pending = seen.pending
  BY <1>2, <1>3 DEF StateRow
<1> HIDE DEF row
<1>5. PointsTo(tx[r], row.pending, ctx[r].cand, db["state"], db["state"].pending)
  BY <1>1, <1>3, <1>4, StateSeen
<1>6. PointsTo(tx[r], row.current, ctx[r].backup, db["state"], db["state"].current)
  BY <1>1, <1>4 DEF PointerInv, InsertedFirst, PointsTo
<1>7. \A b \in Backups : tx[r][b] = None => row.current # b
  BY <1>1, <1>2, <1>4 DEF PointerInv, InsertedFirst, Registered
<1>8. AfterBackup(ctx[r].op) \in {"selectSnapshot", "commit", "probeAsset"}
  BY <1>2 DEF AfterBackup
<1>9. WriteMove(pc[r], AfterBackup(ctx[r].op)) /\ ctx[r].op # "stageImport"
  BY <1>1, <1>2, <1>8 DEF WriteMove
<1> QED BY <1>1, <1>4, <1>5, <1>6, <1>7, <1>8, <1>9, StateWritten

LEMMA ReviewFlushPointers ==
    ASSUME TypeInv, FileInv, PointerInv, NEW r \in Requests, ReviewFlush(r), ~Raise(r)
    PROVE  PointerInv'
<1> DEFINE seen == StateBefore(r)
           id == IF ctx[r].op = "stageImport" THEN ctx[r].cand ELSE None
           row == [seen EXCEPT !.pending = id]
<1>1. /\ pc[r] = "reviewFlush" /\ ~Held("state", r)
      /\ (ctx[r].seen = None) = (View(r, "state") = None)
      /\ Write(r, "state", row) /\ GoTo(r, "commit")
      /\ UNCHANGED <<db, documents, ctx>>
  BY DEF ReviewFlush, FlushState, At, files
<1>2. ctx[r].op = "stageImport" => ctx[r].cand \in Candidates /\ Registered(tx[r][ctx[r].cand])
  BY <1>1 DEF FileInv, CandidateRegistered, Registered
<1>3. seen \in StateRow /\ (seen = View(r, "state") \/ seen = NoState)
  BY <1>1, StateBeforeType DEF StateBefore, TypeInv
<1>4. id \in Candidates \cup {None}
  BY <1>2
<1>5. PointsTo(tx[r], id, ctx[r].cand, db["state"], db["state"].pending)
  BY <1>2 DEF PointsTo
<1> HIDE DEF seen, id
<1>6. row \in StateRow /\ row.current = seen.current /\ row.pending = id
  BY <1>3, <1>4 DEF StateRow
<1> HIDE DEF row
<1>7. /\ PointsTo(tx[r], row.current, ctx[r].backup, db["state"], db["state"].current)
      /\ \A b \in Backups : tx[r][b] = None => row.current # b
  BY <1>1, <1>3, <1>6, StateSeen
<1>8. WriteMove(pc[r], "commit")
  BY <1>1 DEF WriteMove
<1> QED BY <1>1, <1>5, <1>6, <1>7, <1>8, StateWritten

LEMMA ClearCurrentPointers ==
    ASSUME TypeInv, FileInv, PointerInv, NEW r \in Requests, ClearCurrent(r), ~Raise(r)
    PROVE  PointerInv'
<1> DEFINE seen == View(r, "state")
           row == [seen EXCEPT !.current = None]
<1>1. /\ pc[r] = "clearCurrent" /\ seen # None /\ GoTo(r, "commit")
      /\ UNCHANGED <<db, documents, ctx>>
      /\ \/ Write(r, "state", row) /\ ~Held("state", r)
         \/ UNCHANGED tx
  BY DEF ClearCurrent, At, files
<1>2. seen \in StateRow
  BY <1>1, ViewType, RowTypes DEF TypeInv
<1>3. ctx[r].op # "stageImport" /\ WriteMove(pc[r], "commit")
  BY <1>1, NotStaging DEF WriteMove
<1> HIDE DEF seen
<1>4. row \in StateRow /\ row.current = None /\ row.pending = seen.pending
  BY <1>2 DEF StateRow
<1> HIDE DEF row
<1>5. CASE Write(r, "state", row) /\ ~Held("state", r)
  <2>1. PointsTo(tx[r], row.pending, ctx[r].cand, db["state"], db["state"].pending)
    BY <1>1, <1>2, <1>4, StateSeen DEF seen
  <2>2. /\ PointsTo(tx[r], row.current, ctx[r].backup, db["state"], db["state"].current)
        /\ \A b \in Backups : tx[r][b] = None => row.current # b
    BY <1>4, RowsAssumption DEF PointsTo
  <2> QED BY <1>1, <1>3, <1>4, <1>5, <2>1, <2>2, StateWritten
<1>6. CASE UNCHANGED tx
  <2>1. Steady(r)
    BY <1>1, <1>3, <1>6, Moved DEF Steady, SteadyMove, OthersKept, IdsKept
  <2> QED BY <2>1, SteadyPointers
<1> QED BY <1>1, <1>5, <1>6

LEMMA DeleteRowPointers ==
    ASSUME TypeInv, FileInv, PointerInv, NEW r \in Requests, DeleteRow(r)
    PROVE  PointerInv'
<1> DEFINE d == ctx[r].victim
<1>1. pc[r] = "deleteRow" /\ ~Held(d, r) /\ UNCHANGED <<db, documents, ctx>>
  BY DEF DeleteRow, At, stores, files
<1>2. d \in Backups /\ d \in Rows \ {"state"} /\ d \notin Candidates
  BY <1>1, Local, RowTypes, RowsAssumption DEF Locals
<1>3. CASE GoTo(r, "clearCurrent") /\ UNCHANGED tx
  <2>1. ctx[r].op # "stageImport"
    BY <1>1, NotStaging
  <2>2. Steady(r)
    BY <1>1, <1>3, <2>1, Moved DEF Steady, SteadyMove, OthersKept, IdsKept
  <2> QED BY <2>2, SteadyPointers
<1>4. CASE Write(r, d, None) /\ GoTo(r, "unpoint")
  <2> HIDE DEF d
  <2>1. /\ tx'[r][d] = None
        /\ \A m \in Rows \ {d} : tx'[r][m] = tx[r][m]
        /\ \A q \in Requests \ {r} : tx'[q] = tx[q]
    BY <1>2, <1>4, Written
  <2>2. Writes(r, "unpoint") /\ WriteMove(pc[r], "unpoint")
    BY <1>1, <1>4, <2>1, Moved DEF Writes, WriteMove
  <2>3. \A n \in Rows : tx'[r][n] \in {tx[r][n], Unwritten} \/ ~Held(n, r)
    BY <1>1, <2>1
  <2>4. \A c \in Candidates : tx'[r][c] = Unwritten
    BY <1>1, <1>2, <2>1, RowTypes DEF PointerInv, OwnCandidate
  <2>5. HoldsState(tx'[r], ctx[r], db["state"])
    <3>1. tx'[r]["state"] = tx[r]["state"] /\ HoldsState(tx[r], ctx[r], db["state"])
      BY <1>2, <2>1, RowTypes DEF PointerInv, StateHeld
    <3>2. ctx[r].backup # d
      BY <1>1, <1>2, RowsAssumption DEF FileInv, OwnBackup, d
    <3>3. \A n \in (Backups \cup Candidates) \ {d} : tx'[r][n] = tx[r][n]
      BY <2>1, RowTypes
    <3>4. tx[r]["state"] # Unwritten => tx[r]["state"] \in StateRow
      BY <3>1, RowTypes DEF HoldsState, TypeInv, TxOK
    <3>5. tx[r]["state"] # Unwritten =>
             /\ tx[r]["state"].current \in Backups \cup {None}
             /\ tx[r]["state"].pending \in Candidates \cup {None}
             /\ tx[r]["state"].pending # d
      BY <1>2, <3>4, RowsAssumption DEF StateRow
    <3>6. ASSUME NEW id \in Backups \cup Candidates, NEW own, NEW committed,
                 id = own => own # d, PointsTo(tx[r], id, own, db["state"], committed)
          PROVE  PointsTo(tx'[r], id, own, db["state"], committed)
      BY <3>3, <3>6 DEF PointsTo
    <3>7. ASSUME tx[r]["state"] # Unwritten
          PROVE  /\ PointsTo(tx'[r], tx[r]["state"].current, ctx[r].backup,
                             db["state"], db["state"].current)
                 /\ PointsTo(tx'[r], tx[r]["state"].pending, ctx[r].cand,
                             db["state"], db["state"].pending)
      <4> DEFINE s == tx[r]["state"]
      <4>1. /\ PointsTo(tx[r], s.current, ctx[r].backup, db["state"], db["state"].current)
            /\ PointsTo(tx[r], s.pending, ctx[r].cand, db["state"], db["state"].pending)
        BY <3>1, <3>7 DEF HoldsState
      <4>2. /\ s.current \in Backups \cup {None} /\ s.pending \in Candidates \cup {None}
            /\ s.pending # d
        BY <3>5, <3>7
      <4> HIDE DEF s
      <4>3. s.current # None =>
               PointsTo(tx'[r], s.current, ctx[r].backup, db["state"], db["state"].current)
        BY <3>2, <3>6, <4>1, <4>2
      <4>4. s.pending # None =>
               PointsTo(tx'[r], s.pending, ctx[r].cand, db["state"], db["state"].pending)
        BY <3>6, <4>1, <4>2
      <4> QED BY <4>3, <4>4 DEF PointsTo, s
    <3> QED BY <3>1, <3>7 DEF HoldsState
  <2> QED BY <2>2, <2>3, <2>4, <2>5, WritesPointers
<1> QED BY <1>1, <1>3, <1>4 DEF DeleteRow, stores

LEMMA UnpointPointers ==
    ASSUME TypeInv, FileInv, PointerInv, NEW r \in Requests, Unpoint(r)
    PROVE  PointerInv'
<1> DEFINE d == ctx[r].victim
           cleared == [db["state"] EXCEPT !.current = None]
<1>1. /\ pc[r] = "unpoint" /\ GoTo(r, "clearCurrent") /\ UNCHANGED <<db, documents, ctx>>
      /\ Pointed(d) => ~Held("state", r) /\ Write(r, "state", cleared)
      /\ ~Pointed(d) => UNCHANGED tx
  BY DEF Unpoint, At, files
<1>2. d \in Backups /\ ctx[r].backup # d /\ d # None
  BY <1>1, Local, RowsAssumption DEF Locals, FileInv, OwnBackup
<1> HIDE DEF d
<1>3. /\ \A n \in Rows \ {"state"} : tx'[r][n] = tx[r][n]
      /\ \A q \in Requests \ {r} : tx'[q] = tx[q]
      /\ Pointed(d) => tx'[r]["state"] = cleared
      /\ ~Pointed(d) => tx'[r] = tx[r]
  BY <1>1, Written, RowTypes
<1>4. Pointed(d) => /\ db["state"] # None /\ cleared \in StateRow
                    /\ cleared.current = None /\ cleared.pending = db["state"].pending
  <2>1. Pointed(d) => db["state"] \in StateRow
    BY RowTypes DEF Pointed, TypeInv, DbOK
  <2> QED BY <2>1 DEF StateRow, Pointed
<1> HIDE DEF cleared
<1>5. Writes(r, "clearCurrent") /\ WriteMove(pc[r], "clearCurrent")
  BY <1>1, <1>3, Moved DEF Writes, WriteMove
<1>6. \A n \in Rows : tx'[r][n] \in {tx[r][n], Unwritten} \/ ~Held(n, r)
  BY <1>1, <1>3
<1>7. \A c \in Candidates : tx'[r][c] = Unwritten
  <2>1. \A c \in Candidates : c \in Rows \ {"state"}
    BY RowTypes, RowsAssumption
  <2> QED BY <1>1, <1>3, <2>1 DEF PointerInv, OwnCandidate
<1>8. HoldsState(tx'[r], ctx[r], db["state"])
  <2>1. CASE Pointed(d)
    BY <1>3, <1>4, <2>1, RowsAssumption DEF HoldsState, PointsTo
  <2>2. CASE ~Pointed(d)
    BY <1>3, <2>2 DEF PointerInv, StateHeld
  <2> QED BY <2>1, <2>2
<1>9. \A b \in Backups : tx'[r][b] = None => b = d
  <2>1. \A b \in Backups : b \in Rows \ {"state"}
    BY RowTypes, RowsAssumption
  <2> QED BY <1>3, <2>1 DEF FileInv, OwnRows, d
<1>10. View(r, "state")' # None => View(r, "state")'.current # d
  <2>1. CASE Pointed(d)
    <3>1. View(r, "state")' = cleared
      BY <1>3, <1>4, <2>1, RowsAssumption DEF View
    <3> QED BY <1>2, <1>4, <2>1, <3>1
  <2>2. CASE ~Pointed(d)
    <3>1. View(r, "state")' = View(r, "state")
      BY <1>1, <1>3, <2>2 DEF View
    <3>2. CASE tx[r]["state"] = Unwritten
      BY <2>2, <3>1, <3>2 DEF View, Pointed
    <3>3. CASE tx[r]["state"] # Unwritten
      <4>1. PointsTo(tx[r], tx[r]["state"].current, ctx[r].backup, db["state"], db["state"].current)
        BY <3>3 DEF PointerInv, StateHeld, HoldsState
      <4> QED BY <1>2, <2>2, <3>1, <3>3, <4>1 DEF View, PointsTo, Pointed
    <3> QED BY <3>2, <3>3
  <2> QED BY <2>1, <2>2
<1> QED BY <1>5, <1>6, <1>7, <1>8, <1>9, <1>10, WritesPointers

(***************************************************************************)
(* A commit: whoever else holds the state row, or has deleted a backup,    *)
(* finds its pointers as they were.                                        *)
(***************************************************************************)
LEMMA CommitPointers ==
    ASSUME TypeInv, FileInv, PointerInv, NEW r \in Requests, Commit(r)
    PROVE  PointerInv'
<1>1. /\ pc[r] = "commit" /\ UNCHANGED documents
      /\ \A n \in Rows : db'[n] = View(r, n)
      /\ \A n \in Rows : tx'[r][n] = Unwritten
      /\ \A q \in Requests \ {r} : tx'[q] = tx[q]
  BY RolledBack DEF Commit, Committed, At, files
<1>2. \A q \in Requests \ {r} : pc'[q] = pc[q] /\ ctx'[q] = ctx[q]
  BY Finished, Moved DEF Commit
<1>3. \/ /\ pc'[r] = "idle" /\ ctx'[r] = NoContext
         /\ ctx'[r].backup = None /\ ctx'[r].victim = None /\ ctx'[r].op = "none"
      \/ pc'[r] = "compensate" /\ ctx'[r] = ctx[r] /\ AckLoss
  BY Finished, Moved DEF Commit
<1>4. NothingHeld'
  BY <1>1, <1>2 DEF PointerInv, NothingHeld
<1>5. OwnCandidate'
  BY <1>1, <1>2, <1>3, RowTypes DEF PointerInv, OwnCandidate
<1>6. UnregisteredIds'
  <2>1. \A p \in Requests : ctx'[p].victim \in {ctx[p].victim, None}
    BY <1>2, <1>3
  <2>2. ASSUME NEW q \in Requests \ {r}, AckLoss => pc[q] \notin Undoing, ctx[q].backup # None
        PROVE  db'[ctx[q].backup] = None /\ \A p \in Requests : ctx'[p].victim # ctx[q].backup
    <3>1. ctx[q].backup \in Backups /\ ctx[q].backup \in Rows
      BY <2>2, Local, RowTypes DEF Context
    <3>2. db[ctx[q].backup] = None /\ \A p \in Requests : ctx[p].victim # ctx[q].backup
      BY <2>2 DEF PointerInv, UnregisteredIds
    <3>3. ctx[r].backup # ctx[q].backup
      BY <2>2 DEF FileInv, OwnBackup
    <3>4. tx[r][ctx[q].backup] \in {None, Unwritten}
      BY <3>1, <3>3 DEF FileInv, OwnRows
    <3> QED BY <1>1, <2>1, <2>2, <3>1, <3>2, <3>4 DEF View
  <2>3. ASSUME NEW q \in Requests \ {r}, AckLoss => pc[q] \notin Undoing, ctx[q].op = "stageImport"
        PROVE  db'[ctx[q].cand] = None
    <3>1. ctx[q].cand \in Candidates /\ ctx[q].cand \in Rows
      BY <2>3, RowTypes DEF FileInv, CandidateRegistered
    <3>2. db[ctx[q].cand] = None
      BY <2>3 DEF PointerInv, UnregisteredIds
    <3>3. tx[r][ctx[q].cand] = Unwritten
      BY <2>3, <3>1 DEF PointerInv, OwnCandidate
    <3> QED BY <1>1, <3>1, <3>2, <3>3 DEF View
  <2>4. ASSUME AckLoss => pc'[r] \notin Undoing
        PROVE  ctx'[r].backup = None /\ ctx'[r].op # "stageImport"
    BY <1>3, <2>4
  <2> QED BY <1>2, <2>2, <2>3, <2>4 DEF UnregisteredIds
<1>7. InsertedFirst'
  BY <1>1, <1>2, <1>3 DEF PointerInv, InsertedFirst, Registered
<1>8. RowsExclusive'
  BY <1>1, WritesExclusive DEF PointerInv
<1>9. \A q \in Requests \ {r} : tx[q]["state"] # Unwritten => db'["state"] = db["state"]
  BY <1>1, HeldBy, RowTypes DEF PointerInv, View
<1>10. StateHeld'
  <2>1. HoldsState(tx'[r], ctx'[r], db'["state"])
    BY <1>1, RowTypes DEF HoldsState
  <2>2. \A q \in Requests \ {r} : HoldsState(tx'[q], ctx'[q], db'["state"])
    BY <1>1, <1>2, <1>9 DEF PointerInv, StateHeld, HoldsState
  <2> QED BY <2>1, <2>2 DEF StateHeld
<1>11. tx[r]["state"] # Unwritten /\ tx[r]["state"].current # None =>
          \/ tx[r]["state"].current = ctx[r].backup /\ Registered(tx[r][ctx[r].backup])
          \/ db["state"] # None /\ tx[r]["state"].current = db["state"].current
  BY DEF PointerInv, StateHeld, HoldsState, PointsTo
<1>12. Unpointed'
  <2>1. ASSUME NEW q \in Requests \ {r}, NEW b \in Backups, tx[q][b] = None, pc[q] # "unpoint",
               View(q, "state")' # None
        PROVE  View(q, "state")'.current # b
    <3>1. tx'[q] = tx[q] /\ (View(q, "state") # None => View(q, "state").current # b)
      BY <1>1, <2>1 DEF PointerInv, Unpointed
    <3>2. CASE tx[q]["state"] # Unwritten \/ tx[r]["state"] = Unwritten
      <4>1. View(q, "state")' = View(q, "state")
        BY <1>1, <1>9, <3>2, RowTypes DEF View
      <4> QED BY <2>1, <3>1, <4>1
    <3>3. CASE tx[q]["state"] = Unwritten /\ tx[r]["state"] # Unwritten
      <4>1. View(q, "state")' = tx[r]["state"] /\ View(q, "state") = db["state"]
        BY <1>1, <3>3, RowTypes DEF View
      <4>2. ctx[q].victim = b /\ b # None
        BY <2>1, RowsAssumption DEF FileInv, OwnRows
      <4>3. ctx[r].backup # b
        BY <1>1, <4>2 DEF FileInv, OwnBackup
      <4> QED BY <1>11, <3>1, <3>3, <4>1, <4>2, <4>3
    <3> QED BY <3>2, <3>3
  <2>2. \A b \in Backups : tx'[r][b] # None
    BY <1>1, RowTypes, RowsAssumption
  <2> QED BY <1>1, <1>2, <2>1, <2>2 DEF Unpointed
<1>13. ASSUME ~AckLoss PROVE StatePointersValid'
  <2> DEFINE state == View(r, "state")
  <2>1. db'["state"] = state
    BY <1>1, RowTypes
  <2> SUFFICES ASSUME state # None
               PROVE  /\ state.current # None => db'[state.current] # None
                      /\ state.pending # None =>
                            db'[state.pending] # None /\ state.pending \in documents'
    BY <2>1 DEF StatePointersValid
  <2>2. /\ state.current # None => state.current \in Backups /\ state.current \in Rows
        /\ state.pending # None => state.pending \in Candidates /\ state.pending \in Rows
    <3>1. state \in StateRow
      BY ViewType, RowTypes DEF TypeInv
    <3> HIDE DEF state
    <3> QED BY <3>1, RowTypes DEF StateRow
  <2>3. ASSUME state.current # None PROVE db'[state.current] # None
    <3>1. tx[r][state.current] # None
      BY <1>1, <2>2, <2>3 DEF PointerInv, Unpointed
    <3>2. \/ Registered(tx[r][state.current])
          \/ db["state"] # None /\ state.current = db["state"].current
      <4>1. CASE tx[r]["state"] = Unwritten
        BY <4>1 DEF View
      <4>2. CASE tx[r]["state"] # Unwritten
        <5>1. state = tx[r]["state"]
          BY <4>2 DEF View
        <5> HIDE DEF state
        <5> QED BY <1>11, <2>3, <4>2, <5>1
      <4> QED BY <4>1, <4>2
    <3>3. Registered(tx[r][state.current]) \/ db[state.current] # None
      BY <1>13, <2>3, <3>2 DEF PointerInv, StatePointersValid
    <3> QED BY <1>1, <2>2, <2>3, <3>1, <3>3 DEF View, Registered
  <2>4. ASSUME state.pending # None PROVE db'[state.pending] # None /\ state.pending \in documents'
    <3>1. tx[r][state.pending] # None
      BY <2>2, <2>4 DEF FileInv, CandidateRegistered
    <3>2. \/ state.pending = ctx[r].cand /\ Registered(tx[r][state.pending])
          \/ db["state"] # None /\ state.pending = db["state"].pending
      BY <2>4 DEF View, PointerInv, StateHeld, HoldsState, PointsTo
    <3>3. CASE state.pending = ctx[r].cand /\ Registered(tx[r][state.pending])
      <4>1. ctx[r].op = "stageImport"
        BY <2>2, <2>4, <3>3 DEF PointerInv, OwnCandidate, Registered
      <4>2. state.pending \in documents
        BY <1>1, <3>3, <4>1 DEF PointerInv, OwnCandidate
      <4> QED BY <1>1, <2>2, <2>4, <3>3, <4>2 DEF View, Registered
    <3>4. CASE db["state"] # None /\ state.pending = db["state"].pending
      <4>1. db[state.pending] # None /\ state.pending \in documents
        BY <1>13, <2>4, <3>4 DEF PointerInv, StatePointersValid
      <4> QED BY <1>1, <2>2, <2>4, <3>1, <4>1 DEF View
    <3> QED BY <3>2, <3>3, <3>4
  <2> QED BY <2>3, <2>4
<1> QED BY <1>4, <1>5, <1>6, <1>7, <1>8, <1>10, <1>12, <1>13 DEF PointerInv

LEMMA CrashPointers ==
    ASSUME TypeInv, PointerInv, Crash
    PROVE  PointerInv'
<1>1. \A r \in Requests :
         /\ pc'[r] = "idle" /\ ctx'[r] = NoContext
         /\ ctx'[r].op = "none" /\ ctx'[r].backup = None
  BY DEF Crash, NoContext
<1>2. \A r \in Requests, n \in Rows : tx'[r][n] = Unwritten
  BY DEF Crash, NoWrites
<1>3. UNCHANGED <<db, documents>>
  BY DEF Crash
<1>4. NothingHeld' /\ InsertedFirst' /\ UnregisteredIds'
  BY <1>1, <1>2 DEF NothingHeld, InsertedFirst, UnregisteredIds
<1>5. OwnCandidate' /\ RowsExclusive' /\ Unpointed'
  BY <1>1, <1>2, RowTypes, RowsAssumption DEF OwnCandidate, RowsExclusive, Unpointed
<1>6. StateHeld'
  BY <1>2, RowTypes DEF StateHeld, HoldsState
<1>7. (~AckLoss => StatePointersValid)'
  BY <1>3 DEF PointerInv, StatePointersValid
<1> QED BY <1>4, <1>5, <1>6, <1>7 DEF PointerInv

LEMMA InitPointers == Init => PointerInv
<1> SUFFICES ASSUME Init PROVE PointerInv
  OBVIOUS
<1>1. \A r \in Requests :
         pc[r] = "idle" /\ ctx[r] = NoContext /\ ctx[r].op = "none" /\ ctx[r].backup = None
  BY DEF Init, NoContext
<1>2. \A r \in Requests, n \in Rows : tx[r][n] = Unwritten
  BY DEF Init, NoWrites
<1>3. NothingHeld /\ InsertedFirst /\ UnregisteredIds
  BY <1>1, <1>2 DEF NothingHeld, InsertedFirst, UnregisteredIds
<1>4. OwnCandidate /\ RowsExclusive /\ Unpointed
  BY <1>1, <1>2, RowTypes, RowsAssumption DEF OwnCandidate, RowsExclusive, Unpointed
<1>5. StateHeld /\ StatePointersValid
  BY <1>2, RowTypes DEF Init, StateHeld, HoldsState, StatePointersValid
<1> QED BY <1>3, <1>4, <1>5 DEF PointerInv

LEMMA NextPointers ==
    ASSUME TypeInv, FileInv, PointerInv, [Next]_vars
    PROVE  PointerInv'
<1>1. ASSUME NEW r \in Requests, Raise(r),
             BackupStep(r) \/ AssetStep(r) \/ ImportStep(r) \/ SelectSnapshot(r) \/ CallFails(r)
      PROVE  PointerInv'
  BY <1>1, MayRaise, RaisePointers DEF CallFails
<1>2. ASSUME NEW r \in Requests, BackupStep(r), ~Raise(r) PROVE PointerInv'
  BY <1>2, BackupReadsSilent, SilentPointers, BundleStepsPointers, InsertBackupPointers,
     PointFlushPointers, DeleteRowPointers, UnpointPointers, ClearCurrentPointers DEF BackupStep
<1>3. ASSUME NEW r \in Requests, AssetStep(r), ~Raise(r) PROVE PointerInv'
  BY <1>3, AssetStepsSilent, SilentPointers
<1>4. ASSUME NEW r \in Requests, ImportStep(r) \/ SelectSnapshot(r), ~Raise(r) PROVE PointerInv'
  BY <1>4, ImportReadsSilent, SilentPointers, WriteCandidatePointers, InsertCandidatePointers,
     ReviewFlushPointers DEF ImportStep
<1>5. ASSUME NEW r \in Requests, FlushSnapshot(r) PROVE PointerInv'
  BY <1>5, RaisePointers, FlushSnapshotPointers DEF FlushSnapshot, At
<1>6. ASSUME NEW r \in Requests, EndStep(r) PROVE PointerInv'
  BY <1>6, CommitPointers, UndoPointers DEF EndStep
<1>7. ASSUME NEW r \in Requests, Step(r) PROVE PointerInv'
  BY <1>1, <1>2, <1>3, <1>4, <1>5, <1>6, <1>7 DEF Step
<1>8. ASSUME NEW r \in Requests, Arrive(r) \/ Fault(r) PROVE PointerInv'
  BY <1>1, <1>8, ArrivePointers, AbortPointers DEF Fault, CallFails
<1>9. CASE UNCHANGED vars
  BY <1>9 DEF vars, PointerInv, NothingHeld, OwnCandidate, UnregisteredIds, InsertedFirst,
              RowsExclusive, StateHeld, Unpointed, View, StatePointersValid
<1> QED BY <1>7, <1>8, <1>9, CrashPointers DEF Next

LEMMA PointerInvariant == Spec => []PointerInv
BY InitPointers, NextPointers, TypeInvariant, FileInvariant, PTL DEF Spec

(***************************************************************************)
(* No two transactions hold versions of the same row, whatever fails and   *)
(* whenever the process stops: rows of the state and the snapshots because *)
(* a writer waits, those of backups and candidates because nobody else     *)
(* knows their ids before the commit.                                      *)
(***************************************************************************)
THEOREM RowsHeldByOne == Spec => []RowsExclusive
<1>1. PointerInv => RowsExclusive
  BY DEF PointerInv
<1> QED BY <1>1, PointerInvariant, PTL

(***************************************************************************)
(* The state row never names a backup that is not registered, nor a        *)
(* candidate that is not registered or whose file is gone, however         *)
(* requests interleave, whichever calls raise and whenever the process     *)
(* stops; unless a COMMIT that was applied is reported as failed, when the *)
(* except clause of create_import_candidate deletes the file.              *)
(***************************************************************************)
THEOREM PointersValid ==
    ASSUME ~AckLoss
    PROVE  Spec => []StatePointersValid
<1>1. PointerInv => StatePointersValid
  BY DEF PointerInv
<1> QED BY <1>1, PointerInvariant, PTL

(***************************************************************************)
(* Row locks.                                                              *)
(*                                                                         *)
(* What a request waits for says nothing about what it holds: that follows *)
(* from the order in which its handler writes.  A backup or a candidate    *)
(* comes first, then the state row, and a snapshot row last; the import,   *)
(* which writes the state row again after the draft, holds it already.     *)
(***************************************************************************)
\* Labels behind the first write of a transaction, and in front of its end.
Holding == {"pointSelect", "pointFlush", "probeAsset", "restoreAsset", "selectSnapshot",
            "flushSnapshot", "unpoint", "clearCurrent", "reviewSelect", "reviewFlush", "commit",
            "discardBundle"}

\* Labels of an import behind its backup.
AfterPointing == {"probeAsset", "restoreAsset", "selectSnapshot", "flushSnapshot", "reviewSelect",
             "reviewFlush"}

InOrder(label, op, rows) ==
    /\ label \notin Holding => \A n \in Rows : rows[n] = Unwritten
    /\ \A k \in Kinds :
          rows[k] # Unwritten =>
             /\ label \in {"reviewSelect", "reviewFlush", "commit"}
             /\ label # "commit" => op = "applyImport"
    /\ op = "applyImport" /\ label \in AfterPointing => rows["state"] # Unwritten

LocksInOrder == \A r \in Requests : InOrder(pc[r], ctx[r].op, tx[r])

\* A step of one request leaves what the others hold alone.
LEMMA OneRequestLocks ==
    ASSUME LocksInOrder, NEW r \in Requests,
           \A q \in Requests \ {r} : pc'[q] = pc[q] /\ ctx'[q].op = ctx[q].op /\ tx'[q] = tx[q],
           InOrder(pc'[r], ctx'[r].op, tx'[r])
    PROVE  LocksInOrder'
BY DEF LocksInOrder, InOrder

LEMMA NothingInOrder ==
    ASSUME NEW label, label \notin AfterPointing, NEW op, NEW rows, \A n \in Rows : rows[n] = Unwritten
    PROVE  InOrder(label, op, rows)
BY RowTypes DEF InOrder, Kinds

LEMMA SilentLocks ==
    ASSUME TypeInv, LocksInOrder, NEW r \in Requests, Silent(r)
    PROVE  LocksInOrder'
<1>1. /\ tx' = tx /\ ctx'[r].op = ctx[r].op
      /\ \A q \in Requests \ {r} : pc'[q] = pc[q] /\ ctx'[q] = ctx[q]
  BY DEF Silent, OthersKept, IdsKept
<1>2. InOrder(pc[r], ctx[r].op, tx[r])
  BY DEF LocksInOrder
<1>3. pc'[r] \notin Holding => pc[r] \notin Holding
  BY DEF Silent, SilentMove, Holding
<1>4. ASSUME NEW k \in Kinds, tx[r][k] # Unwritten
      PROVE  pc[r] = "reviewSelect" /\ pc'[r] = "reviewFlush"
  BY <1>2, <1>4 DEF InOrder, Silent, SilentMove
<1>5. ctx[r].op = "applyImport" /\ pc'[r] \in AfterPointing => pc[r] \in AfterPointing
  <2>1. pc[r] = "readPublished" => ctx[r].op = "publish"
    BY Local DEF Locals
  <2> QED BY <2>1 DEF Silent, SilentMove, AfterPointing
<1>6. InOrder(pc'[r], ctx'[r].op, tx'[r])
  BY <1>1, <1>2, <1>3, <1>4, <1>5 DEF InOrder
<1> QED BY <1>1, <1>6, OneRequestLocks

\* A rollback gives everything back.
LEMMA RolledBackLocks ==
    ASSUME TypeInv, LocksInOrder, NEW r \in Requests, Rollback(r),
           pc'[r] \notin AfterPointing, \A q \in Requests \ {r} : pc'[q] = pc[q] /\ ctx'[q] = ctx[q]
    PROVE  LocksInOrder'
<1>1. InOrder(pc'[r], ctx'[r].op, tx'[r])
  BY RolledBack, NothingInOrder
<1> QED BY <1>1, RolledBack, OneRequestLocks

LEMMA RaiseLocks ==
    ASSUME TypeInv, LocksInOrder, NEW r \in Requests, Raise(r)
    PROVE  LocksInOrder'
<1>1. CASE InBackupTry(r)
  <2>1. /\ pc'[r] = "discardBundle" /\ tx' = tx /\ ctx' = ctx
        /\ \A q \in Requests \ {r} : pc'[q] = pc[q]
    BY <1>1, Moved DEF Raise
  <2>2. \A k \in Kinds : tx[r][k] = Unwritten
    BY <1>1 DEF LocksInOrder, InOrder, InBackupTry
  <2>3. InOrder(pc'[r], ctx'[r].op, tx'[r])
    BY <2>1, <2>2 DEF InOrder, Holding, AfterPointing
  <2> QED BY <2>1, <2>3, OneRequestLocks
<1>2. CASE ~InBackupTry(r)
  BY <1>2, Moved, RolledBackLocks DEF Raise, AfterPointing
<1> QED BY <1>1, <1>2

\* A request that holds nothing goes on to a label where nothing is held, or ends.
LEMMA FreeLocks ==
    ASSUME LocksInOrder, NEW r \in Requests, pc[r] \notin Holding,
           pc'[r] \notin AfterPointing \/ ctx'[r].op # "applyImport", tx' = tx,
           \A q \in Requests \ {r} : pc'[q] = pc[q] /\ ctx'[q] = ctx[q]
    PROVE  LocksInOrder'
<1>1. \A n \in Rows : tx'[r][n] = Unwritten
  BY DEF LocksInOrder, InOrder
<1>2. InOrder(pc'[r], ctx'[r].op, tx'[r])
  BY <1>1, RowTypes DEF InOrder, Kinds
<1> QED BY <1>2, OneRequestLocks

LEMMA ArriveLocks ==
    ASSUME TypeInv, LocksInOrder, NEW r \in Requests, Arrive(r)
    PROVE  LocksInOrder'
<1>1. PICK label, l : Begin(r, label, l) /\ Fresh(label, l)
  BY ArriveFresh
<1>2. /\ pc'[r] = label /\ ctx'[r] = l /\ UNCHANGED stores /\ pc[r] = "idle"
      /\ \A q \in Requests \ {r} : pc'[q] = pc[q] /\ ctx'[q] = ctx[q]
  BY <1>1, Moved DEF Begin, At, TypeInv, ControlOK
<1>3. label = "selectSnapshot" => l.op # "applyImport"
  BY <1>1 DEF Fresh
<1> QED BY <1>1, <1>2, <1>3, FreeLocks DEF Fresh, ArriveLabels, AfterPointing, Holding, stores

\* The steps that write a row.
LEMMA WriteLocks ==
    ASSUME TypeInv, LocksInOrder, NEW r \in Requests, NEW n \in Rows, NEW row, NEW label \in Holding,
           Write(r, n, row), GoTo(r, label), UNCHANGED ctx,
           n \in Kinds => /\ label \in {"reviewSelect", "commit"}
                          /\ label # "commit" => ctx[r].op = "applyImport",
           \A k \in Kinds : tx[r][k] # Unwritten => label = "commit",
           ctx[r].op = "applyImport" /\ label \in AfterPointing =>
              IF n = "state" THEN row # Unwritten ELSE tx[r]["state"] # Unwritten
    PROVE  LocksInOrder'
<1>1. /\ tx'[r][n] = row
      /\ \A m \in Rows \ {n} : tx'[r][m] = tx[r][m]
      /\ \A q \in Requests \ {r} : tx'[q] = tx[q]
  BY Written
<1>2. /\ pc'[r] = label /\ ctx'[r].op = ctx[r].op
      /\ \A q \in Requests \ {r} : pc'[q] = pc[q] /\ ctx'[q] = ctx[q]
  BY Moved
<1>3. InOrder(label, ctx[r].op, tx'[r])
  <2>1. ASSUME NEW k \in Kinds, tx'[r][k] # Unwritten
        PROVE  /\ label \in {"reviewSelect", "reviewFlush", "commit"}
               /\ label # "commit" => ctx[r].op = "applyImport"
    <3>1. CASE k = n
      BY <3>1
    <3>2. CASE k # n
      BY <1>1, <2>1, <3>2, RowTypes
    <3> QED BY <3>1, <3>2
  <2>2. ctx[r].op = "applyImport" /\ label \in AfterPointing => tx'[r]["state"] # Unwritten
    BY <1>1, RowTypes
  <2> QED BY <2>1, <2>2 DEF InOrder
<1> QED BY <1>1, <1>2, <1>3, OneRequestLocks

LEMMA BackupWritesLocks ==
    ASSUME TypeInv, LocksInOrder, NEW r \in Requests, ~Raise(r), InsertBackup(r) \/ PointFlush(r)
    PROVE  LocksInOrder'
<1>1. pc[r] \in {"insertBackup", "pointFlush"}
  BY DEF InsertBackup, PointFlush, FlushState, At
<1>2. \A k \in Kinds : tx[r][k] = Unwritten
  BY <1>1 DEF LocksInOrder, InOrder
<1>3. CASE InsertBackup(r)
  <2>1. ctx[r].backup \in Rows /\ ctx[r].backup \notin Kinds
    BY <1>3, Local, RowTypes, RowsAssumption DEF InsertBackup, At, Locals, Kinds
  <2> QED BY <1>2, <1>3, <2>1, WriteLocks DEF InsertBackup, Holding, AfterPointing
<1>4. CASE PointFlush(r)
  <2> DEFINE row == [StateBefore(r) EXCEPT !.current = ctx[r].backup]
  <2>1. /\ Write(r, "state", row) /\ GoTo(r, AfterBackup(ctx[r].op)) /\ UNCHANGED ctx
        /\ pc[r] = "pointFlush" /\ (ctx[r].seen = None) = (View(r, "state") = None)
    BY <1>4 DEF PointFlush, FlushState, At
  <2>2. ctx[r].op \in BackingOps /\ ctx[r].backup \in Backups
    BY <2>1, Local DEF Locals
  <2>3. AfterBackup(ctx[r].op) \in {"selectSnapshot", "commit", "probeAsset"}
    BY <2>2 DEF AfterBackup
  <2>4. StateBefore(r) \in StateRow
    BY <2>1, StateBeforeType DEF StateBefore, TypeInv
  <2>5. row # Unwritten
    <3>1. row \in StateRow
      BY <2>2, <2>4 DEF StateRow
    <3> QED BY <3>1, RowsAssumption
  <2>6. "state" \in Rows /\ "state" \notin Kinds
    BY RowTypes DEF Kinds
  <2> DEFINE label == AfterBackup(ctx[r].op)
  <2>7. label \in Holding /\ \A k \in Kinds : tx[r][k] # Unwritten => label = "commit"
    BY <1>2, <2>3 DEF Holding
  <2> HIDE DEF row, label
  <2> QED BY <2>1, <2>5, <2>6, <2>7, WriteLocks DEF label
<1> QED BY <1>3, <1>4

LEMMA StagingLocks ==
    ASSUME TypeInv, FileInv, PointerInv, LocksInOrder, NEW r \in Requests, ~Raise(r), InsertCandidate(r)
    PROVE  LocksInOrder'
<1>1. /\ pc[r] = "insertCandidate" /\ Write(r, ctx[r].cand, ctx[r].document)
      /\ GoTo(r, "reviewSelect") /\ UNCHANGED ctx
  BY DEF InsertCandidate, At
<1>2. ctx[r].cand \in Rows /\ ctx[r].cand \notin Kinds
  BY <1>1, Local, RowTypes, RowsAssumption DEF Locals, Kinds
<1>3. ctx[r].op = "stageImport"
  BY <1>1 DEF PointerInv, OwnCandidate
<1>4. \A k \in Kinds : tx[r][k] = Unwritten
  BY <1>1 DEF LocksInOrder, InOrder
<1> QED BY <1>1, <1>2, <1>3, <1>4, WriteLocks DEF Holding

LEMMA LastWritesLocks ==
    ASSUME TypeInv, LocksInOrder, NEW r \in Requests, ~Raise(r), ReviewFlush(r) \/ FlushSnapshot(r)
    PROVE  LocksInOrder'
<1>1. CASE ReviewFlush(r)
  <2>1. PICK row : Write(r, "state", row) /\ GoTo(r, "commit") /\ UNCHANGED ctx
    BY <1>1 DEF ReviewFlush, FlushState
  <2>2. "state" \in Rows
    BY RowTypes
  <2> QED BY <2>1, <2>2, WriteLocks DEF Holding, AfterPointing
<1>2. CASE FlushSnapshot(r)
  <2> DEFINE k == Target(ctx[r].op)
             label == IF ctx[r].op = "applyImport" THEN "reviewSelect" ELSE "commit"
  <2>1. /\ pc[r] = "flushSnapshot" /\ UNCHANGED ctx
        /\ Write(r, k, SnapshotToWrite(r)) /\ GoTo(r, label)
    BY <1>2 DEF FlushSnapshot, At
  <2>2. k \in Kinds /\ k \in Rows /\ k # "state"
    BY RowTypes DEF Target, Kinds
  <2>3. /\ label \in {"reviewSelect", "commit"} /\ label \in Holding
        /\ label # "commit" => ctx[r].op = "applyImport"
    BY DEF Holding
  <2>4. /\ \A m \in Kinds : tx[r][m] = Unwritten
        /\ ctx[r].op = "applyImport" => tx[r]["state"] # Unwritten
    BY <2>1 DEF LocksInOrder, InOrder, AfterPointing
  <2> HIDE DEF k, label
  <2> QED BY <2>1, <2>2, <2>3, <2>4, WriteLocks
<1> QED BY <1>1, <1>2

\* A deletion holds no snapshot row, so it may keep what it holds.
LEMMA DeletionMoves ==
    ASSUME TypeInv, LocksInOrder, NEW r \in Requests, pc[r] \in {"unpoint", "clearCurrent"},
           NEW label \in {"clearCurrent", "commit"}, GoTo(r, label), UNCHANGED ctx,
           tx' = tx \/ \E row : Write(r, "state", row)
    PROVE  LocksInOrder'
<1>1. \A k \in Kinds : tx[r][k] = Unwritten
  BY DEF LocksInOrder, InOrder
<1>2. ASSUME NEW row, Write(r, "state", row) PROVE LocksInOrder'
  <2>1. "state" \in Rows /\ "state" \notin Kinds /\ label \in Holding /\ label \notin AfterPointing
    BY RowTypes DEF Kinds, Holding, AfterPointing
  <2> QED BY <1>1, <1>2, <2>1, WriteLocks
<1>3. CASE tx' = tx
  <2>1. pc'[r] = label /\ \A q \in Requests \ {r} : pc'[q] = pc[q]
    BY Moved
  <2>2. InOrder(pc'[r], ctx'[r].op, tx'[r])
    BY <1>1, <1>3, <2>1 DEF InOrder, Holding, AfterPointing
  <2> QED BY <1>3, <2>1, <2>2, OneRequestLocks
<1> QED BY <1>2, <1>3

LEMMA DeletionLocks ==
    ASSUME TypeInv, LocksInOrder, NEW r \in Requests, ~Raise(r),
           DeleteRow(r) \/ Unpoint(r) \/ ClearCurrent(r)
    PROVE  LocksInOrder'
<1>1. CASE DeleteRow(r)
  <2>1. pc[r] = "deleteRow" /\ ctx' = ctx
    BY <1>1 DEF DeleteRow, At
  <2>2. ctx[r].victim \in Rows /\ ctx[r].victim \notin Kinds /\ ctx[r].victim # "state"
    BY <2>1, Local, RowTypes, RowsAssumption DEF Locals, Kinds
  <2>3. \A k \in Kinds : tx[r][k] = Unwritten
    BY <2>1 DEF LocksInOrder, InOrder
  <2>4. CASE GoTo(r, "clearCurrent") /\ tx' = tx
    BY <2>1, <2>4, Moved, FreeLocks DEF Holding, AfterPointing
  <2>5. CASE Write(r, ctx[r].victim, None) /\ GoTo(r, "unpoint")
    BY <2>1, <2>2, <2>3, <2>5, WriteLocks DEF Holding, AfterPointing
  <2> QED BY <1>1, <2>4, <2>5 DEF DeleteRow, stores
<1>2. CASE Unpoint(r)
  <2>1. /\ pc[r] = "unpoint" /\ GoTo(r, "clearCurrent") /\ ctx' = ctx
        /\ tx' = tx \/ \E row : Write(r, "state", row)
    BY <1>2 DEF Unpoint, At
  <2> QED BY <2>1, DeletionMoves
<1>3. CASE ClearCurrent(r)
  <2>1. /\ pc[r] = "clearCurrent" /\ GoTo(r, "commit") /\ ctx' = ctx
        /\ tx' = tx \/ \E row : Write(r, "state", row)
    BY <1>3 DEF ClearCurrent, At
  <2> QED BY <2>1, DeletionMoves
<1> QED BY <1>1, <1>2, <1>3

LEMMA FileStepsLocks ==
    ASSUME TypeInv, LocksInOrder, NEW r \in Requests,
           WriteBundle(r) \/ UnlinkBundle(r) \/ WriteCandidate(r)
    PROVE  LocksInOrder'
<1>1. /\ pc[r] \in {"writeBundle", "unlinkBundle", "writeCandidate"} /\ tx' = tx /\ ctx' = ctx
      /\ pc'[r] \in {"insertBackup", "selectRow", "insertCandidate"}
      /\ \A q \in Requests \ {r} : pc'[q] = pc[q]
  BY Moved DEF WriteBundle, UnlinkBundle, WriteCandidate, At
<1> QED BY <1>1, FreeLocks DEF Holding, AfterPointing

LEMMA EndLocks ==
    ASSUME TypeInv, LocksInOrder, NEW r \in Requests, EndStep(r)
    PROVE  LocksInOrder'
<1>1. CASE Commit(r)
  <2>1. /\ Rollback(r) /\ pc'[r] \in {"idle", "compensate"}
        /\ \A q \in Requests \ {r} : pc'[q] = pc[q] /\ ctx'[q] = ctx[q]
    BY <1>1, Finished, Moved DEF Commit
  <2> QED BY <2>1, RolledBackLocks DEF AfterPointing
<1>2. CASE DiscardBundle(r)
  <2>1. /\ Rollback(r) /\ pc'[r] = "compensate" /\ ctx' = ctx
        /\ \A q \in Requests \ {r} : pc'[q] = pc[q]
    BY <1>2, Moved DEF DiscardBundle
  <2> QED BY <2>1, RolledBackLocks DEF AfterPointing
<1>3. CASE Compensate(r) \/ RemoveRestored(r)
  <2>1. /\ pc[r] \in {"compensate", "removeRestored"} /\ tx' = tx
    BY <1>3 DEF Compensate, RemoveRestored, At
  <2>2. /\ pc'[r] \in {"idle", "removeRestored"}
        /\ \A q \in Requests \ {r} : pc'[q] = pc[q] /\ ctx'[q] = ctx[q]
    <3>1. CASE Finish(r)
      BY <3>1, Finished
    <3>2. CASE Compensate(r) /\ ~Finish(r)
      BY <3>2, Moved DEF Compensate
    <3>3. CASE RemoveRestored(r) /\ ~Finish(r)
      BY <3>3 DEF RemoveRestored, At, TypeInv, ControlOK
    <3> QED BY <1>3, <3>1, <3>2, <3>3
  <2> QED BY <2>1, <2>2, FreeLocks DEF Holding, AfterPointing
<1> QED BY <1>1, <1>2, <1>3 DEF EndStep

LEMMA AbortLocks ==
    ASSUME TypeInv, LocksInOrder, NEW r \in Requests, TornWrite(r) \/ UndoFails(r)
    PROVE  LocksInOrder'
<1>1. /\ Rollback(r) /\ pc'[r] = "idle"
      /\ \A q \in Requests \ {r} : pc'[q] = pc[q] /\ ctx'[q] = ctx[q]
  BY Finished DEF TornWrite, UndoFails
<1> QED BY <1>1, RolledBackLocks DEF AfterPointing

LEMMA InitLocks == Init => LocksInOrder
<1> SUFFICES ASSUME Init PROVE LocksInOrder
  OBVIOUS
<1>1. \A r \in Requests : pc[r] = "idle" /\ \A n \in Rows : tx[r][n] = Unwritten
  BY DEF Init, NoWrites
<1> QED BY <1>1, NothingInOrder DEF LocksInOrder, AfterPointing

LEMMA CrashLocks ==
    ASSUME Crash
    PROVE  LocksInOrder'
<1>1. \A r \in Requests : pc'[r] = "idle" /\ \A n \in Rows : tx'[r][n] = Unwritten
  BY DEF Crash, NoWrites
<1> QED BY <1>1, NothingInOrder DEF LocksInOrder, AfterPointing

LEMMA NextLocks ==
    ASSUME TypeInv, FileInv, PointerInv, LocksInOrder, [Next]_vars
    PROVE  LocksInOrder'
<1>1. ASSUME NEW r \in Requests, BackupStep(r), ~Raise(r) PROVE LocksInOrder'
  BY <1>1, BackupReadsSilent, SilentLocks, FileStepsLocks, BackupWritesLocks, DeletionLocks
     DEF BackupStep
<1>2. ASSUME NEW r \in Requests, AssetStep(r), ~Raise(r) PROVE LocksInOrder'
  BY <1>2, AssetStepsSilent, SilentLocks
<1>3. ASSUME NEW r \in Requests, ImportStep(r) \/ SelectSnapshot(r), ~Raise(r) PROVE LocksInOrder'
  BY <1>3, ImportReadsSilent, SilentLocks, FileStepsLocks, StagingLocks, LastWritesLocks
     DEF ImportStep
<1>4. ASSUME NEW r \in Requests, Step(r) PROVE LocksInOrder'
  BY <1>1, <1>2, <1>3, <1>4, RaiseLocks, LastWritesLocks, EndLocks DEF Step
<1>5. ASSUME NEW r \in Requests, Arrive(r) \/ Fault(r) PROVE LocksInOrder'
  BY <1>5, ArriveLocks, RaiseLocks, AbortLocks DEF Fault, CallFails
<1>6. CASE UNCHANGED vars
  BY <1>6 DEF vars, LocksInOrder
<1> QED BY <1>4, <1>5, <1>6, CrashLocks DEF Next

LEMMA LockInvariant == Spec => []LocksInOrder
BY InitLocks, NextLocks, TypeInvariant, FileInvariant, PointerInvariant, PTL DEF Spec

\* How far a request that waits has come.
Rank(r) ==
    IF pc[r] = "flushSnapshot" THEN 3
    ELSE IF pc[r] \in {"pointFlush", "reviewFlush", "unpoint", "clearCurrent"} THEN 2 ELSE 1

\* Whoever is waited for and waits itself has come further: it holds what the
\* other one wants.
LEMMA WaitsUpwards ==
    ASSUME TypeInv, RowsExclusive, LocksInOrder, NEW r \in Requests, NEW q \in Requests,
           NEW p \in Requests, WaitsFor(r, q), WaitsFor(q, p)
    PROVE  Rank(r) < Rank(q)
<1> USE DEF Rank
<1>1. /\ pc[r] \in {"pointFlush", "reviewFlush", "flushSnapshot", "deleteRow", "unpoint",
                     "clearCurrent", "insertCandidate"}
      /\ pc[q] \in {"pointFlush", "reviewFlush", "flushSnapshot", "deleteRow", "unpoint",
                     "clearCurrent", "insertCandidate"}
  BY DEF WaitsFor, Wanted
<1>2. PICK n \in Wanted(r) : tx[q][n] # Unwritten
  BY DEF WaitsFor
<1>3. /\ pc[r] \in {"pointFlush", "reviewFlush", "unpoint", "clearCurrent"} => n = "state"
      /\ pc[r] = "flushSnapshot" => n \in Kinds
      /\ n \in Rows
  <2>1. pc[r] = "deleteRow" => ctx[r].victim \in Backups
    BY Local DEF Locals
  <2> QED BY <1>1, <1>2, <2>1, RowTypes DEF Wanted, Target, Kinds
<1>4. pc[q] \notin {"deleteRow", "insertCandidate"}
  BY <1>2, <1>3 DEF LocksInOrder, InOrder, Holding
<1>5. pc[q] \in {"pointFlush", "reviewFlush", "unpoint", "clearCurrent"} => tx[q]["state"] = Unwritten
  <2>1. ASSUME pc[q] \in {"pointFlush", "reviewFlush", "unpoint", "clearCurrent"}
        PROVE  q # p /\ tx[p]["state"] # Unwritten
    BY <2>1 DEF WaitsFor, Wanted
  <2> QED BY <2>1, HeldBy, RowTypes
<1>6. pc[r] # "flushSnapshot"
  <2>1. ASSUME pc[r] = "flushSnapshot" PROVE FALSE
    <3>1. pc[q] = "reviewFlush" /\ ctx[q].op = "applyImport"
      BY <1>1, <1>2, <1>3, <2>1 DEF LocksInOrder, InOrder
    <3>2. tx[q]["state"] # Unwritten
      BY <3>1 DEF LocksInOrder, InOrder, AfterPointing
    <3> QED BY <1>5, <3>1, <3>2
  <2> QED BY <2>1
<1>7. pc[r] \in {"pointFlush", "reviewFlush", "unpoint", "clearCurrent"} => pc[q] = "flushSnapshot"
  BY <1>1, <1>2, <1>3, <1>4, <1>5
<1> QED BY <1>1, <1>4, <1>6, <1>7

(***************************************************************************)
(* However many requests run at once, whichever calls raise, whenever the  *)
(* process stops and whether or not commits are reported as failed: no     *)
(* requests wait for one another's row locks in a circle.                  *)
(***************************************************************************)
THEOREM NoDeadlock == Spec => []NoLockCycle
<1>1. ASSUME TypeInv, RowsExclusive, LocksInOrder
      PROVE  NoLockCycle
  <2>. SUFFICES ASSUME NEW waiting \in (SUBSET Requests) \ {{}},
                       \A r \in waiting : \E q \in waiting : WaitsFor(r, q)
                PROVE  FALSE
    BY DEF NoLockCycle
  <2>1. \A r \in waiting : \E q \in waiting : WaitsFor(r, q) /\ Rank(r) < Rank(q)
    BY <1>1, WaitsUpwards
  <2>2. \A r \in waiting : Rank(r) \in 1 .. 3
    BY DEF Rank
  <2>3. PICK r1 : r1 \in waiting
    OBVIOUS
  <2>4. PICK r2 \in waiting : Rank(r1) < Rank(r2)
    BY <2>1, <2>3
  <2>5. PICK r3 \in waiting : Rank(r2) < Rank(r3)
    BY <2>1
  <2>6. PICK r4 \in waiting : Rank(r3) < Rank(r4)
    BY <2>1
  <2>. QED
    BY <2>2, <2>3, <2>4, <2>5, <2>6
<1>2. PointerInv => RowsExclusive
  BY DEF PointerInv
<1> QED BY <1>1, <1>2, TypeInvariant, PointerInvariant, LockInvariant, PTL

(***************************************************************************)
(* The bundles of registered backups.                                      *)
(*                                                                         *)
(* A transaction registers a backup whose bundle it has written, together  *)
(* with the state row; so there is a state row as soon as there is a       *)
(* backup, and a deletion that has removed the bundle finds it, raises     *)
(* only if the row is gone by then, and else commits its removal.          *)
(***************************************************************************)
DeleteLabels == {"readBackup", "unlinkBundle", "selectRow", "deleteRow", "unpoint", "clearCurrent",
                 "commit", "compensate"}

\* Behind the DELETE, of which another request may have been first.
Deleted == {"unpoint", "clearCurrent", "commit"}

Deletion ==
    \A r \in Requests :
        ctx[r].victim # None =>
          /\ ctx[r].op = "deleteBackup" /\ ctx[r].restored = {}
          /\ pc[r] \in DeleteLabels
          /\ pc[r] \in Deleted => db[ctx[r].victim] = None \/ tx[r][ctx[r].victim] = None
          /\ pc[r] \in {"deleteRow", "unpoint", "clearCurrent"} => db["state"] # None
          /\ pc[r] = "compensate" => db[ctx[r].victim] = None

Unpointing == {"pointSelect", "pointFlush", "discardBundle"}

BundleThere ==
    \A r \in Requests :
        /\ pc[r] = "insertBackup" => ctx[r].backup \in bundles
        /\ \A b \in Backups :
              Registered(tx[r][b]) =>
                 /\ b \in bundles
                 /\ pc[r] \notin Unpointing => tx[r]["state"] # Unwritten

StateThere == (\E b \in Backups : db[b] # None) => db["state"] # None

BundleInv == Deletion /\ BundleThere /\ StateThere /\ RegisteredBundlePresent

USE DEF DeleteLabels, Deleted, Unpointing

\* A step that changes no bundle and registers or removes no backup.
LEMMA BundlesKept ==
    ASSUME BundleInv, NEW r \in Requests, OthersKept(r), IdsKept(r),
           UNCHANGED <<db, bundles>>, \A q \in Requests \ {r} : tx'[q] = tx[q],
           \A b \in Backups : tx'[r][b] = tx[r][b],
           tx[r]["state"] # Unwritten => tx'[r]["state"] # Unwritten,
           pc'[r] # "insertBackup",
           pc[r] \in Unpointing => pc'[r] \in Unpointing \/ tx'[r]["state"] # Unwritten,
           ctx[r].victim # None =>
              /\ ctx[r].victim \in Backups /\ ctx'[r].restored = {}
              /\ \/ pc[r] = "readBackup" /\ pc'[r] = "unlinkBundle"
                 \/ pc[r] = "selectRow" /\ pc'[r] = "deleteRow" /\ db["state"] # None
                 \/ pc[r] = "deleteRow" /\ pc'[r] = "clearCurrent" /\ db[ctx[r].victim] = None
                 \/ pc[r] = "unpoint" /\ pc'[r] = "clearCurrent"
                 \/ pc[r] = "clearCurrent" /\ pc'[r] = "commit"
    PROVE  BundleInv'
<1> USE DEF OthersKept, IdsKept
<1>1. Deletion'
  BY DEF BundleInv, Deletion
<1>2. BundleThere'
  BY DEF BundleInv, BundleThere, Registered
<1>3. StateThere'
  BY DEF BundleInv, StateThere
<1>4. RegisteredBundlePresent'
  <2>1. \A q \in Requests : ctx'[q].victim = ctx[q].victim
    OBVIOUS
  <2> QED BY <2>1 DEF BundleInv, RegisteredBundlePresent
<1> QED BY <1>1, <1>2, <1>3, <1>4 DEF BundleInv

LEMMA SilentBundles ==
    ASSUME TypeInv, BundleInv, NEW r \in Requests, Silent(r),
           pc[r] = "selectRow" => db["state"] # None
    PROVE  BundleInv'
<1>1. ctx[r].victim # None => ctx[r].victim \in Backups
  BY Local DEF Context
<1>2. ctx[r].victim # None =>
         /\ ctx'[r].restored = {}
         /\ \/ pc[r] = "readBackup" /\ pc'[r] = "unlinkBundle"
            \/ pc[r] = "selectRow" /\ pc'[r] = "deleteRow"
  BY DEF BundleInv, Deletion, Silent, SilentMove
<1>3. /\ pc'[r] # "insertBackup"
      /\ pc[r] \in Unpointing => pc'[r] \in Unpointing
  BY DEF Silent, SilentMove
<1> QED BY <1>1, <1>2, <1>3, BundlesKept DEF Silent

\* A request fails in between: a deletion only because the backup is gone.
LEMMA FailedBundles ==
    ASSUME TypeInv, BundleInv, NEW r \in Requests, Raise(r),
           pc[r] \notin {"idle", "discardBundle", "compensate", "removeRestored"},
           ctx[r].victim # None => db[ctx[r].victim] = None
    PROVE  BundleInv'
<1>1. /\ UNCHANGED <<db, bundles, ctx>>
      /\ \A q \in Requests \ {r} : pc'[q] = pc[q] /\ tx'[q] = tx[q]
      /\ \/ pc'[r] = "discardBundle" /\ tx'[r] = tx[r] /\ InBackupTry(r)
         \/ pc'[r] = "compensate" /\ \A n \in Rows : tx'[r][n] = Unwritten
  <2>1. CASE InBackupTry(r)
    BY <2>1, Moved DEF Raise, files
  <2>2. CASE ~InBackupTry(r)
    BY <2>2, Moved, RolledBack DEF Raise, files
  <2> QED BY <2>1, <2>2
<1>2. InBackupTry(r) => ctx[r].victim = None
  BY DEF BundleInv, Deletion, InBackupTry
<1>3. Deletion'
  BY <1>1, <1>2 DEF BundleInv, Deletion
<1>4. BundleThere'
  BY <1>1, RowTypes DEF BundleInv, BundleThere, Registered
<1>5. StateThere' /\ RegisteredBundlePresent'
  BY <1>1 DEF BundleInv, StateThere, RegisteredBundlePresent
<1> QED BY <1>3, <1>4, <1>5 DEF BundleInv

LEMMA RaiseBundles ==
    ASSUME TypeInv, PointerInv, BundleInv, NEW r \in Requests, Raise(r),
           BackupStep(r) \/ AssetStep(r) \/ ImportStep(r) \/ SelectSnapshot(r) \/ FlushSnapshot(r)
    PROVE  BundleInv'
<1>1. pc[r] \notin {"idle", "discardBundle", "compensate", "removeRestored"}
  BY MayRaise DEF FlushSnapshot, At
<1>2. pc'[r] \in {"discardBundle", "compensate"} /\ UNCHANGED <<bundles, ctx>>
  BY Moved DEF Raise, files
<1>3. ASSUME ctx[r].victim # None PROVE db[ctx[r].victim] = None
  <2>1. pc[r] \in DeleteLabels \ {"commit", "compensate"}
    <3>1. pc[r] \in DeleteLabels
      BY <1>3 DEF BundleInv, Deletion
    <3>2. pc[r] # "commit"
      BY DEF FlushSnapshot, SelectSnapshot, BackupStep, ReadDraftToPublish, ReadPublished,
             ReadSource, BundleAsset, WriteBundle, InsertBackup, PointSelect, SelectState,
             PointFlush, FlushState, ReadBackup, UnlinkBundle, SelectRow, DeleteRow, Unpoint,
             ClearCurrent, AssetStep,
             WriteAsset, CheckDraft, CheckPublished, CheckSnapshot, GetAsset, RemoveAsset,
             ImportStep, WriteCandidate, InsertCandidate, ReviewSelect, ReviewFlush,
             ReadCandidate, LoadCandidate, ReadDraftToImport, ProbeAsset, RestoreAsset, At
    <3> QED BY <1>1, <3>1, <3>2
  <2>2. \/ ReadBackup(r) \/ UnlinkBundle(r) \/ SelectRow(r) \/ DeleteRow(r) \/ Unpoint(r)
        \/ ClearCurrent(r)
    BY <2>1 DEF FlushSnapshot, SelectSnapshot, BackupStep, ReadDraftToPublish, ReadPublished,
             ReadSource, BundleAsset, WriteBundle, InsertBackup, PointSelect, SelectState,
             PointFlush, FlushState, AssetStep,
             WriteAsset, CheckDraft, CheckPublished, CheckSnapshot, GetAsset, RemoveAsset,
             ImportStep, WriteCandidate, InsertCandidate, ReviewSelect, ReviewFlush,
             ReadCandidate, LoadCandidate, ReadDraftToImport, ProbeAsset, RestoreAsset, At
  <2>3. CASE ReadBackup(r)
    <3>1. db[ctx[r].victim] # None => pc'[r] = "unlinkBundle"
      BY <2>3, Moved DEF ReadBackup, At
    <3> QED BY <1>2, <3>1
  <2>4. CASE UnlinkBundle(r)
    BY <1>2, <2>4, Moved DEF UnlinkBundle
  <2>5. CASE SelectRow(r)
    <3>1. db[ctx[r].victim] # None => pc'[r] = "deleteRow"
      BY <2>5, Moved DEF SelectRow, At
    <3> QED BY <1>2, <3>1
  <2>7. CASE DeleteRow(r) \/ Unpoint(r)
    <3>1. pc'[r] \in {"unpoint", "clearCurrent"}
      BY <2>7, Moved DEF DeleteRow, Unpoint
    <3> QED BY <1>2, <3>1
  <2>6. CASE ClearCurrent(r)
    <3>1. pc[r] = "clearCurrent"
      BY <2>6 DEF ClearCurrent, At
    <3>2. db["state"] # None
      BY <1>3, <3>1 DEF BundleInv, Deletion
    <3>3. View(r, "state") # None
      BY <3>2 DEF View, PointerInv, StateHeld, HoldsState
    <3>4. pc'[r] = "commit"
      BY <2>6, <3>3, Moved DEF ClearCurrent
    <3> QED BY <1>2, <3>4
  <2> QED BY <2>2, <2>3, <2>4, <2>5, <2>6, <2>7
<1> QED BY <1>1, <1>3, FailedBundles

LEMMA WriteBundleBundles ==
    ASSUME TypeInv, BundleInv, NEW r \in Requests, WriteBundle(r)
    PROVE  BundleInv'
<1>1. /\ pc[r] = "writeBundle" /\ pc'[r] = "insertBackup" /\ bundles' = bundles \cup {ctx[r].backup}
      /\ \A q \in Requests \ {r} : pc'[q] = pc[q]
      /\ UNCHANGED <<db, tx, ctx>>
  BY Moved DEF WriteBundle, At
<1>2. Deletion'
  BY <1>1 DEF BundleInv, Deletion
<1>3. BundleThere'
  BY <1>1 DEF BundleInv, BundleThere
<1>4. StateThere' /\ RegisteredBundlePresent'
  BY <1>1 DEF BundleInv, StateThere, RegisteredBundlePresent
<1> QED BY <1>2, <1>3, <1>4 DEF BundleInv

LEMMA InsertBackupBundles ==
    ASSUME TypeInv, FileInv, BundleInv, NEW r \in Requests, InsertBackup(r)
    PROVE  BundleInv'
<1> DEFINE b == ctx[r].backup
<1>1. /\ pc[r] = "insertBackup" /\ pc'[r] = "pointSelect" /\ Write(r, b, ctx[r].source)
      /\ \A q \in Requests \ {r} : pc'[q] = pc[q]
      /\ UNCHANGED <<db, bundles, ctx>>
  BY Moved DEF InsertBackup, At, files
<1>2. b \in Backups /\ b \in Rows
  BY <1>1, Local, RowTypes DEF Locals
<1>3. /\ \A m \in Rows \ {b} : tx'[r][m] = tx[r][m]
      /\ \A q \in Requests \ {r} : tx'[q] = tx[q]
  BY <1>1, <1>2, Written
<1>4. Deletion'
  BY <1>1, <1>3 DEF BundleInv, Deletion
<1>5. BundleThere'
  <2>1. b \in bundles
    BY <1>1 DEF BundleInv, BundleThere
  <2>2. \A d \in Backups \ {b} : tx'[r][d] = tx[r][d]
    BY <1>3, RowTypes
  <2> QED BY <1>1, <1>3, <2>1, <2>2 DEF BundleInv, BundleThere, Registered
<1>6. StateThere' /\ RegisteredBundlePresent'
  BY <1>1 DEF BundleInv, StateThere, RegisteredBundlePresent
<1> QED BY <1>4, <1>5, <1>6 DEF BundleInv

\* Writing another row than a backup's.
LEMMA OtherRowBundles ==
    ASSUME TypeInv, FileInv, BundleInv, NEW r \in Requests, NEW label, NEW n \in Rows \ Backups, NEW row,
           Write(r, n, row), row # Unwritten, GoTo(r, label), UNCHANGED <<db, files, ctx>>,
           label \notin {"insertBackup"} \cup Unpointing,
           pc[r] \in Unpointing => n = "state",
           ctx[r].victim # None =>
              \/ pc[r] = "unpoint" /\ label = "clearCurrent"
              \/ pc[r] = "clearCurrent" /\ label = "commit"
    PROVE  BundleInv'
<1>1. /\ tx'[r][n] = row
      /\ \A m \in Rows \ {n} : tx'[r][m] = tx[r][m]
      /\ \A q \in Requests \ {r} : tx'[q] = tx[q]
  BY Written
<1>2. OthersKept(r) /\ IdsKept(r) /\ pc'[r] = label /\ UNCHANGED <<db, bundles>>
  BY Moved DEF OthersKept, IdsKept, files
<1>3. \A b \in Backups : tx'[r][b] = tx[r][b]
  BY <1>1, RowTypes
<1>4. /\ tx[r]["state"] # Unwritten => tx'[r]["state"] # Unwritten
      /\ pc[r] \in Unpointing => tx'[r]["state"] # Unwritten
  BY <1>1, RowTypes
<1>5. ctx[r].victim # None => ctx[r].victim \in Backups /\ ctx'[r].restored = {}
  BY Local DEF Context, BundleInv, Deletion
<1> QED BY <1>1, <1>2, <1>3, <1>4, <1>5, BundlesKept

LEMMA RowsBundles ==
    ASSUME TypeInv, FileInv, BundleInv, NEW r \in Requests, ~Raise(r),
           \/ FlushSnapshot(r) \/ InsertCandidate(r) \/ PointFlush(r) \/ ReviewFlush(r)
           \/ Unpoint(r) \/ ClearCurrent(r) \/ WriteCandidate(r)
    PROVE  BundleInv'
<1>1. ctx[r].victim # None => pc[r] \in DeleteLabels
  BY DEF BundleInv, Deletion
<1>2. "state" \in Rows \ Backups
  BY RowTypes, RowsAssumption
<1>3. ASSUME FlushSnapshot(r) PROVE BundleInv'
  <2> DEFINE k == Target(ctx[r].op)
  <2>1. k \in Rows \ Backups
    BY RowTypes, RowsAssumption DEF Target, Kinds
  <2>2. /\ pc[r] = "flushSnapshot" /\ (ctx[r].seen = None) = (db[k] = None)
        /\ Write(r, k, SnapshotToWrite(r)) /\ UNCHANGED <<db, files, ctx>>
    BY <1>3 DEF FlushSnapshot, At
  <2>3. PICK label \in {"reviewSelect", "commit"} : GoTo(r, label)
    BY <1>3 DEF FlushSnapshot
  <2>4. SnapshotToWrite(r) # Unwritten
    BY <2>2, SnapshotToWriteType DEF Registered
  <2> HIDE DEF k
  <2> QED BY <1>1, <2>1, <2>2, <2>3, <2>4, OtherRowBundles
<1>4. ASSUME InsertCandidate(r) PROVE BundleInv'
  <2>1. /\ pc[r] = "insertCandidate" /\ Write(r, ctx[r].cand, ctx[r].document)
        /\ GoTo(r, "reviewSelect") /\ UNCHANGED <<db, files, ctx>>
    BY <1>4 DEF InsertCandidate, At
  <2>2. ctx[r].cand \in Rows \ Backups /\ ctx[r].document # Unwritten
    BY <2>1, Local, RowTypes, RowsAssumption DEF Locals
  <2> QED BY <1>1, <2>1, <2>2, OtherRowBundles
<1>5. ASSUME PointFlush(r) PROVE BundleInv'
  <2> DEFINE row == [StateBefore(r) EXCEPT !.current = ctx[r].backup]
  <2>1. /\ pc[r] = "pointFlush" /\ (ctx[r].seen = None) = (View(r, "state") = None)
        /\ Write(r, "state", row) /\ GoTo(r, AfterBackup(ctx[r].op)) /\ UNCHANGED <<db, files, ctx>>
    BY <1>5 DEF PointFlush, FlushState, At
  <2>2. ctx[r].op \in BackingOps /\ ctx[r].backup \in Backups
    BY <2>1, Local DEF Locals
  <2>3. AfterBackup(ctx[r].op) \in {"selectSnapshot", "commit", "probeAsset"}
    BY <2>2 DEF AfterBackup
  <2>4. row \in StateRow
    <3>1. StateBefore(r) \in StateRow
      BY <2>1, StateBeforeType DEF TypeInv
    <3> QED BY <2>2, <3>1 DEF StateRow
  <2>5. row # Unwritten
    BY <2>4, RowsAssumption
  <2> HIDE DEF row
  <2> QED BY <1>1, <1>2, <2>1, <2>3, <2>5, OtherRowBundles
<1>6. ASSUME ReviewFlush(r) PROVE BundleInv'
  <2> DEFINE id == IF ctx[r].op = "stageImport" THEN ctx[r].cand ELSE None
             row == [StateBefore(r) EXCEPT !.pending = id]
  <2>1. /\ pc[r] = "reviewFlush" /\ (ctx[r].seen = None) = (View(r, "state") = None)
        /\ Write(r, "state", row) /\ GoTo(r, "commit") /\ UNCHANGED <<db, files, ctx>>
    BY <1>6 DEF ReviewFlush, FlushState, At
  <2>2. id \in Candidates \cup {None}
    BY DEF FileInv, CandidateRegistered
  <2>3. row \in StateRow
    <3>1. StateBefore(r) \in StateRow
      BY <2>1, StateBeforeType DEF TypeInv
    <3> HIDE DEF id
    <3> QED BY <2>2, <3>1 DEF StateRow
  <2>4. row # Unwritten
    BY <2>3, RowsAssumption
  <2> HIDE DEF row
  <2> QED BY <1>1, <1>2, <2>1, <2>4, OtherRowBundles
<1>7. ASSUME ClearCurrent(r) PROVE BundleInv'
  <2> DEFINE seen == View(r, "state")
             row == [seen EXCEPT !.current = None]
  <2>1. /\ pc[r] = "clearCurrent" /\ seen # None /\ GoTo(r, "commit") /\ UNCHANGED <<db, files, ctx>>
        /\ Write(r, "state", row) \/ UNCHANGED tx
    BY <1>7 DEF ClearCurrent, At
  <2>2. row # Unwritten
    <3>1. seen \in StateRow
      BY <2>1, ViewType, RowTypes DEF TypeInv
    <3> HIDE DEF seen
    <3>2. row \in StateRow
      BY <3>1 DEF StateRow
    <3> QED BY <3>2, RowsAssumption
  <2>3. CASE UNCHANGED tx
    <3>1. ctx[r].victim # None => ctx[r].victim \in Backups /\ ctx'[r].restored = {}
      BY <2>1, Local DEF Context, BundleInv, Deletion
    <3> QED BY <2>1, <2>3, <3>1, Moved, BundlesKept DEF OthersKept, IdsKept, files
  <2> HIDE DEF row, seen
  <2> QED BY <1>1, <1>2, <2>1, <2>2, <2>3, OtherRowBundles
<1>8. ASSUME WriteCandidate(r) PROVE BundleInv'
  BY <1>1, <1>8, Moved, BundlesKept DEF WriteCandidate, At, OthersKept, IdsKept
<1>9. ASSUME Unpoint(r) PROVE BundleInv'
  <2> DEFINE row == [db["state"] EXCEPT !.current = None]
  <2>1. /\ pc[r] = "unpoint" /\ GoTo(r, "clearCurrent") /\ UNCHANGED <<db, files, ctx>>
        /\ (db["state"] # None /\ Write(r, "state", row)) \/ UNCHANGED tx
    BY <1>9 DEF Unpoint, Pointed, At
  <2>2. db["state"] # None => row # Unwritten
    <3>1. db["state"] # None => db["state"] \in StateRow
      BY RowTypes DEF TypeInv, DbOK
    <3>2. db["state"] # None => row \in StateRow
      BY <3>1 DEF StateRow
    <3> QED BY <3>2, RowsAssumption
  <2>3. CASE UNCHANGED tx
    <3>1. ctx[r].victim # None => ctx[r].victim \in Backups /\ ctx'[r].restored = {}
      BY <2>1, Local DEF Context, BundleInv, Deletion
    <3> QED BY <2>1, <2>3, <3>1, Moved, BundlesKept DEF OthersKept, IdsKept, files
  <2> HIDE DEF row
  <2> QED BY <1>1, <1>2, <2>1, <2>2, <2>3, OtherRowBundles
<1> QED BY <1>3, <1>4, <1>5, <1>6, <1>7, <1>8, <1>9

LEMMA UnlinkBundleBundles ==
    ASSUME ~AckLoss, TypeInv, FileInv, PointerInv, BundleInv, NEW r \in Requests, UnlinkBundle(r)
    PROVE  BundleInv'
<1> DEFINE d == ctx[r].victim
<1>1. /\ pc[r] = "unlinkBundle" /\ pc'[r] = "selectRow" /\ bundles' = bundles \ {d}
      /\ \A q \in Requests \ {r} : pc'[q] = pc[q]
      /\ UNCHANGED <<db, tx, ctx>>
  BY Moved DEF UnlinkBundle, At
<1>2. d \in Backups /\ d # None
  BY <1>1, Local, RowsAssumption DEF Locals
<1>3. \A q \in Requests : ctx[q].backup # d
  BY <1>2 DEF PointerInv, UnregisteredIds
<1>4. Deletion'
  BY <1>1 DEF BundleInv, Deletion
<1>5. BundleThere'
  <2>1. \A q \in Requests, b \in Backups : Registered(tx[q][b]) => b # d
    BY <1>3 DEF FileInv, OwnRows, Registered
  <2> QED BY <1>1, <1>3, <2>1 DEF BundleInv, BundleThere
<1>6. StateThere' /\ RegisteredBundlePresent'
  BY <1>1 DEF BundleInv, StateThere, RegisteredBundlePresent
<1> QED BY <1>4, <1>5, <1>6 DEF BundleInv

LEMMA SelectRowBundles ==
    ASSUME TypeInv, BundleInv, NEW r \in Requests, SelectRow(r), ~Raise(r)
    PROVE  BundleInv'
<1>1. pc[r] = "selectRow" /\ db[ctx[r].victim] # None
  BY DEF SelectRow, At
<1>2. ctx[r].victim \in Backups
  BY <1>1, Local DEF Locals
<1>3. db["state"] # None
  BY <1>1, <1>2 DEF BundleInv, StateThere
<1>4. Silent(r)
  BY BackupReadsSilent
<1> QED BY <1>3, <1>4, SilentBundles

LEMMA DeleteRowBundles ==
    ASSUME TypeInv, BundleInv, NEW r \in Requests, DeleteRow(r)
    PROVE  BundleInv'
<1> DEFINE d == ctx[r].victim
<1>1. pc[r] = "deleteRow" /\ UNCHANGED <<db, bundles, ctx>>
  BY DEF DeleteRow, At, stores, files
<1>2. d \in Backups /\ d \in Rows \ {"state"} /\ d # None
  BY <1>1, Local, RowTypes, RowsAssumption DEF Locals
<1>3. ctx[r].restored = {} /\ db["state"] # None
  BY <1>1, <1>2 DEF BundleInv, Deletion
<1>4. CASE db[d] = None /\ GoTo(r, "clearCurrent") /\ UNCHANGED tx
  <2>1. /\ OthersKept(r) /\ IdsKept(r) /\ pc'[r] = "clearCurrent"
        /\ ctx'[r].restored = {}
    BY <1>1, <1>3, <1>4, Moved DEF OthersKept, IdsKept
  <2> QED BY <1>1, <1>2, <1>4, <2>1, BundlesKept
<1>5. CASE Write(r, d, None) /\ GoTo(r, "unpoint")
  <2> HIDE DEF d
  <2>1. /\ tx'[r][d] = None
        /\ \A m \in Rows \ {d} : tx'[r][m] = tx[r][m]
        /\ \A q \in Requests \ {r} : tx'[q] = tx[q]
    BY <1>2, <1>5, Written
  <2>2. pc'[r] = "unpoint" /\ \A q \in Requests \ {r} : pc'[q] = pc[q]
    BY <1>5, Moved
  <2>3. Deletion'
    BY <1>1, <1>3, <2>1, <2>2 DEF BundleInv, Deletion, d
  <2>4. BundleThere'
    <3>1. \A b \in Backups \ {d} : tx'[r][b] = tx[r][b]
      BY <2>1, RowTypes
    <3>2. tx'[r]["state"] = tx[r]["state"]
      BY <1>2, <2>1, RowTypes
    <3> QED BY <1>1, <2>1, <2>2, <3>1, <3>2 DEF BundleInv, BundleThere, Registered
  <2>5. StateThere' /\ RegisteredBundlePresent'
    BY <1>1 DEF BundleInv, StateThere, RegisteredBundlePresent
  <2> QED BY <2>3, <2>4, <2>5 DEF BundleInv
<1> QED BY <1>4, <1>5 DEF DeleteRow, stores

LEMMA CommitBundles ==
    ASSUME ~AckLoss, TypeInv, FileInv, PointerInv, BundleInv, NEW r \in Requests, Commit(r)
    PROVE  BundleInv'
<1>1. /\ pc[r] = "commit" /\ UNCHANGED files /\ Finish(r)
      /\ \A n \in Rows : db'[n] = View(r, n)
      /\ \A n \in Rows : tx'[r][n] = Unwritten
      /\ \A q \in Requests \ {r} : tx'[q] = tx[q]
  BY RolledBack DEF Commit, Committed, At
<1>2. /\ pc'[r] = "idle" /\ ctx'[r].victim = None
      /\ \A q \in Requests \ {r} : pc'[q] = pc[q] /\ ctx'[q] = ctx[q]
  BY <1>1, Finished
<1>3. \A b \in Backups :
         /\ tx[r][b] = None => db'[b] = None
         /\ tx[r][b] = Unwritten => db'[b] = db[b]
         /\ Registered(tx[r][b]) => b \in bundles /\ tx[r]["state"] # Unwritten
  <2> TAKE b \in Backups
  <2>1. db'[b] = View(r, b)
    BY <1>1, RowTypes
  <2>2. Registered(tx[r][b]) => b \in bundles /\ tx[r]["state"] # Unwritten
    BY <1>1 DEF BundleInv, BundleThere, Unpointing
  <2> QED BY <2>1, <2>2, RowsAssumption DEF View
<1>4. db["state"] # None \/ tx[r]["state"] # Unwritten => db'["state"] # None
  BY <1>1, RowTypes DEF View, PointerInv, StateHeld, HoldsState
<1>5. Deletion'
  <2>1. ASSUME NEW q \in Requests \ {r}, ctx[q].victim # None, db[ctx[q].victim] = None,
               pc[q] \in DeleteLabels
        PROVE  db'[ctx[q].victim] = None
    <3>1. ctx[q].victim \in Backups
      BY <2>1, Local DEF Context
    <3>2. ctx[r].backup # ctx[q].victim
      BY <1>1, <2>1 DEF FileInv, OwnBackup
    <3>3. tx[r][ctx[q].victim] \in {None, Unwritten}
      BY <3>1, <3>2 DEF FileInv, OwnRows
    <3> QED BY <1>3, <2>1, <3>1, <3>3
  <2>2. db["state"] # None => db'["state"] # None
    BY <1>4
  <2> QED BY <1>1, <1>2, <2>1, <2>2 DEF BundleInv, Deletion
<1>6. BundleThere'
  BY <1>1, <1>2, RowTypes DEF BundleInv, BundleThere, Registered, files
<1>7. StateThere'
  <2>1. \A b \in Backups : db'[b] # None => db[b] # None \/ tx[r]["state"] # Unwritten
    BY <1>3 DEF Registered
  <2> QED BY <1>4, <2>1 DEF BundleInv, StateThere
<1>8. RegisteredBundlePresent'
  <2> SUFFICES ASSUME NEW b \in Backups, db'[b] # None, b \notin bundles'
               PROVE  \E q \in Requests : ctx'[q].victim = b
    BY DEF RegisteredBundlePresent
  <2>1. b \notin bundles /\ tx[r][b] = Unwritten /\ db[b] # None
    BY <1>1, <1>3 DEF files, Registered
  <2>2. PICK q \in Requests : ctx[q].victim = b
    BY <2>1 DEF BundleInv, RegisteredBundlePresent
  <2>3. b # None
    BY RowsAssumption
  <2>4. q # r
    BY <1>1, <2>1, <2>2, <2>3, RowsAssumption DEF BundleInv, Deletion
  <2> QED BY <1>2, <2>2, <2>4
<1> QED BY <1>5, <1>6, <1>7, <1>8 DEF BundleInv

\* The undoing of a failed request deletes no bundle that is registered.
LEMMA UndoBundles ==
    ASSUME ~AckLoss, TypeInv, FileInv, PointerInv, BundleInv, NEW r \in Requests,
           DiscardBundle(r) \/ Compensate(r) \/ RemoveRestored(r)
    PROVE  BundleInv'
<1> DEFINE b == ctx[r].backup
<1>1. /\ pc[r] \in {"discardBundle", "compensate", "removeRestored"} /\ UNCHANGED db
      /\ \A q \in Requests \ {r} : pc'[q] = pc[q] /\ ctx'[q] = ctx[q] /\ tx'[q] = tx[q]
      /\ \A n \in Rows : tx'[r][n] = Unwritten
      /\ bundles' \in {bundles, bundles \ {b}}
      /\ \/ /\ pc'[r] \in {"compensate", "removeRestored"}
            /\ pc[r] # "compensate" \/ ctx[r].restored # {}
            /\ ctx'[r].victim = ctx[r].victim
         \/ pc'[r] = "idle" /\ ctx'[r].victim = None
  <2>1. CASE DiscardBundle(r)
    BY <2>1, Moved, RolledBack DEF DiscardBundle, At
  <2>2. CASE Compensate(r)
    <3>1. pc[r] = "compensate" /\ UNCHANGED <<db, tx>> /\ bundles' \in {bundles, bundles \ {b}}
      BY <2>2 DEF Compensate, At
    <3>2. \A n \in Rows : tx'[r][n] = Unwritten
      BY <3>1 DEF PointerInv, NothingHeld
    <3>3. \/ Finish(r)
          \/ GoTo(r, "removeRestored") /\ UNCHANGED ctx /\ ctx[r].restored # {}
      BY <2>2 DEF Compensate
    <3> QED BY <3>1, <3>2, <3>3, Finished, Moved
  <2>3. CASE RemoveRestored(r)
    <3>1. pc[r] = "removeRestored" /\ UNCHANGED <<db, tx, bundles>>
      BY <2>3 DEF RemoveRestored, At
    <3>2. \A n \in Rows : tx'[r][n] = Unwritten
      BY <3>1 DEF PointerInv, NothingHeld
    <3>3. CASE Finish(r)
      BY <3>1, <3>2, <3>3, Finished
    <3>4. ASSUME NEW a, ctx' = [ctx EXCEPT ![r].restored = @ \ {a}], UNCHANGED pc
          PROVE  /\ \A q \in Requests \ {r} : pc'[q] = pc[q] /\ ctx'[q] = ctx[q]
                 /\ pc'[r] = "removeRestored" /\ ctx'[r].victim = ctx[r].victim
      <4> DEFINE l == [ctx[r] EXCEPT !.restored = ctx[r].restored \ {a}]
      <4>1. l.victim = ctx[r].victim
        BY Local DEF Context
      <4>2. ctx'[r] = l /\ \A q \in Requests \ {r} : ctx'[q] = ctx[q]
        BY <3>4 DEF TypeInv, ControlOK
      <4> HIDE DEF l
      <4> QED BY <3>1, <3>4, <4>1, <4>2
    <3> QED BY <2>3, <3>1, <3>2, <3>3, <3>4 DEF RemoveRestored
  <2> QED BY <2>1, <2>2, <2>3
<1>2. ctx[r].victim # None =>
         pc[r] = "compensate" /\ db[ctx[r].victim] = None /\ ctx[r].restored = {}
  BY <1>1 DEF BundleInv, Deletion
<1>3. b # None => b \in Backups /\ db[b] = None
  BY Local DEF Context, PointerInv, UnregisteredIds
<1>4. ASSUME NEW q \in Requests \ {r}, NEW d \in Backups, ctx[q].backup = d \/ Registered(tx[q][d])
      PROVE  d # b
  <2>1. ctx[q].backup = d /\ d # None
    BY <1>4, RowsAssumption DEF FileInv, OwnRows, Registered
  <2> QED BY <2>1 DEF FileInv, OwnBackup
<1> HIDE DEF b
<1>5. ctx'[r].victim = None
  BY <1>1, <1>2
<1>6. Deletion'
  BY <1>1, <1>5 DEF BundleInv, Deletion
<1>7. BundleThere'
  <2>1. ASSUME NEW q \in Requests \ {r}, pc[q] = "insertBackup" PROVE ctx[q].backup \in bundles'
    <3>1. ctx[q].backup \in Backups /\ ctx[q].backup \in bundles
      BY <2>1, Local DEF Locals, BundleInv, BundleThere
    <3> QED BY <1>1, <1>4, <3>1
  <2>2. ASSUME NEW q \in Requests \ {r}, NEW d \in Backups, Registered(tx[q][d])
        PROVE  d \in bundles'
    BY <1>1, <1>4, <2>2 DEF BundleInv, BundleThere
  <2>3. \A d \in Backups : ~Registered(tx'[r][d])
    BY <1>1, RowTypes DEF Registered
  <2>4. pc'[r] # "insertBackup"
    BY <1>1
  <2>5. \A q \in Requests \ {r}, d \in Backups :
           Registered(tx'[q][d]) /\ pc'[q] \notin Unpointing => tx'[q]["state"] # Unwritten
    BY <1>1 DEF BundleInv, BundleThere
  <2> QED BY <1>1, <2>1, <2>2, <2>3, <2>4, <2>5 DEF BundleThere
<1>8. StateThere'
  BY <1>1 DEF BundleInv, StateThere
<1>9. RegisteredBundlePresent'
  <2> SUFFICES ASSUME NEW d \in Backups, db'[d] # None, d \notin bundles'
               PROVE  \E q \in Requests : ctx'[q].victim = d
    BY DEF RegisteredBundlePresent
  <2>1. d # None
    BY RowsAssumption
  <2>2. d \notin bundles /\ db[d] # None
    BY <1>1, <1>3, <2>1
  <2>3. PICK q \in Requests : ctx[q].victim = d
    BY <2>2 DEF BundleInv, RegisteredBundlePresent
  <2>4. q # r
    BY <1>2, <2>1, <2>2, <2>3
  <2> QED BY <1>1, <2>3, <2>4
<1> QED BY <1>6, <1>7, <1>8, <1>9 DEF BundleInv

\* A write or an except clause fails, not of a deletion: no bundle is gone.
LEMMA AbortBundles ==
    ASSUME TypeInv, BundleInv, NEW r \in Requests, TornWrite(r) \/ UndoFails(r),
           ctx[r].victim = None
    PROVE  BundleInv'
<1>1. /\ pc'[r] = "idle" /\ ctx'[r].victim = None
      /\ \A q \in Requests \ {r} : pc'[q] = pc[q] /\ ctx'[q] = ctx[q]
  BY Finished DEF TornWrite, UndoFails
<1>2. (\A n \in Rows : tx'[r][n] = Unwritten) /\ \A q \in Requests \ {r} : tx'[q] = tx[q]
  BY RolledBack DEF TornWrite, UndoFails
<1>3. UNCHANGED db /\ bundles \subseteq bundles'
  BY DEF TornWrite, UndoFails
<1>4. Deletion'
  BY <1>1, <1>2, <1>3 DEF BundleInv, Deletion
<1>5. BundleThere'
  BY <1>1, <1>2, <1>3, RowTypes DEF BundleInv, BundleThere, Registered
<1>6. StateThere'
  BY <1>3 DEF BundleInv, StateThere
<1>7. RegisteredBundlePresent'
  BY <1>1, <1>3, RowsAssumption DEF BundleInv, RegisteredBundlePresent
<1> QED BY <1>4, <1>5, <1>6, <1>7 DEF BundleInv

LEMMA ArriveBundles ==
    ASSUME TypeInv, FileInv, PointerInv, BundleInv, NEW r \in Requests, Arrive(r)
    PROVE  BundleInv'
<1>1. PICK label, l : Begin(r, label, l) /\ Fresh(label, l)
  BY ArriveFresh
<1>2. /\ pc'[r] = label /\ ctx'[r] = l /\ UNCHANGED stores
      /\ pc[r] = "idle" /\ ctx[r] = NoContext
      /\ \A q \in Requests \ {r} : pc'[q] = pc[q] /\ ctx'[q] = ctx[q]
  BY <1>1, Moved DEF Begin, At, TypeInv, ControlOK, FileInv, IdleClean
<1>3. \A n \in Rows : tx[r][n] = Unwritten
  BY <1>2 DEF PointerInv, NothingHeld
<1>4. /\ label # "insertBackup"
      /\ l.victim # None => l.op = "deleteBackup" /\ label = "readBackup" /\ l.restored = {}
  BY <1>1 DEF Fresh, ArriveLabels
<1>5. Deletion'
  BY <1>2, <1>4 DEF BundleInv, Deletion, stores
<1>6. BundleThere'
  BY <1>2, <1>3, <1>4, RowTypes DEF BundleInv, BundleThere, Registered, stores
<1>7. StateThere'
  BY <1>2 DEF BundleInv, StateThere, stores
<1>8. RegisteredBundlePresent'
  <2>1. ctx[r].victim = None
    BY <1>2 DEF NoContext
  <2> QED BY <1>2, <2>1, RowsAssumption DEF BundleInv, RegisteredBundlePresent, stores
<1> QED BY <1>5, <1>6, <1>7, <1>8 DEF BundleInv

LEMMA InitBundles == Init => BundleInv
<1> SUFFICES ASSUME Init PROVE BundleInv
  OBVIOUS
<1>1. \A r \in Requests : pc[r] = "idle" /\ ctx[r].victim = None
  BY DEF Init, NoContext
<1>2. \A r \in Requests, n \in Rows : tx[r][n] = Unwritten
  BY DEF Init, NoWrites
<1>3. \A b \in Backups : db[b] = None
  BY RowTypes DEF Init
<1> QED BY <1>1, <1>2, <1>3, RowTypes
        DEF BundleInv, Deletion, BundleThere, Registered, StateThere, RegisteredBundlePresent

LEMMA NextBundles ==
    ASSUME ~Crashes, ~AckLoss, "deleteBackup" \notin FailingOps,
           TypeInv, FileInv, PointerInv, BundleInv, [Next]_vars
    PROVE  BundleInv'
<1>1. ASSUME NEW r \in Requests, Raise(r),
             \/ BackupStep(r) \/ AssetStep(r) \/ ImportStep(r) \/ SelectSnapshot(r)
             \/ FlushSnapshot(r)
      PROVE  BundleInv'
  BY <1>1, RaiseBundles
<1>2. ASSUME NEW r \in Requests, BackupStep(r), ~Raise(r) PROVE BundleInv'
  <2>1. ASSUME \/ ReadDraftToPublish(r) \/ ReadPublished(r) \/ ReadSource(r)
               \/ BundleAsset(r) \/ ReadBackup(r) \/ PointSelect(r)
        PROVE  BundleInv'
    <3>1. pc[r] # "selectRow"
      BY <2>1 DEF ReadDraftToPublish, ReadPublished, ReadSource, BundleAsset, ReadBackup,
                  PointSelect, SelectState, At
    <3> QED BY <1>2, <2>1, <3>1, BackupReadsSilent, SilentBundles
  <2> QED BY <1>2, <2>1, WriteBundleBundles, InsertBackupBundles, RowsBundles,
             UnlinkBundleBundles, SelectRowBundles, DeleteRowBundles DEF BackupStep
<1>3. ASSUME NEW r \in Requests, AssetStep(r), ~Raise(r) PROVE BundleInv'
  <2>1. pc[r] # "selectRow"
    BY <1>3 DEF AssetStep, WriteAsset, CheckDraft, CheckPublished, CheckSnapshot, GetAsset,
                RemoveAsset, At
  <2> QED BY <1>3, <2>1, AssetStepsSilent, SilentBundles
<1>4. ASSUME NEW r \in Requests, ImportStep(r) \/ SelectSnapshot(r) \/ FlushSnapshot(r), ~Raise(r)
      PROVE  BundleInv'
  <2>1. pc[r] # "selectRow"
    BY <1>4 DEF ImportStep, WriteCandidate, InsertCandidate, ReviewSelect, SelectState, ReviewFlush,
                FlushState, ReadCandidate, LoadCandidate, ReadDraftToImport, ProbeAsset,
                RestoreAsset, SelectSnapshot, FlushSnapshot, At
  <2> QED BY <1>4, <2>1, ImportReadsSilent, SilentBundles, RowsBundles DEF ImportStep
<1>5. ASSUME NEW r \in Requests, EndStep(r) PROVE BundleInv'
  BY <1>5, CommitBundles, UndoBundles DEF EndStep
<1>6. ASSUME NEW r \in Requests, Step(r) PROVE BundleInv'
  BY <1>1, <1>2, <1>3, <1>4, <1>5, <1>6 DEF Step
<1>7. ASSUME NEW r \in Requests, Fault(r) PROVE BundleInv'
  <2>1. ctx[r].victim = None
    BY <1>7 DEF Fault, BundleInv, Deletion
  <2> QED BY <1>7, <2>1, FailedBundles, AbortBundles DEF Fault, CallFails
<1>8. CASE UNCHANGED vars
  BY <1>8 DEF vars, BundleInv, Deletion, BundleThere, Registered, StateThere,
              RegisteredBundlePresent
<1>9. ~Crash
  BY DEF Crash
<1> QED BY <1>6, <1>7, <1>8, <1>9, ArriveBundles DEF Next

(***************************************************************************)
(* The bundle of every backup in the registry exists, unless a request     *)
(* that deletes this backup is under way: among concurrent requests, and   *)
(* whichever calls of the other operations raise, except clauses and torn  *)
(* writes included.  The hypotheses are the                                *)
(* three ways in which delete_backup_artifact and the except clauses lose  *)
(* a bundle: the process stops, or the database raises, between the        *)
(* deletion of the file and the commit, or a COMMIT that was applied is    *)
(* reported as failed.                                                     *)
(***************************************************************************)
THEOREM BundlesPresent ==
    ASSUME ~Crashes, ~AckLoss, "deleteBackup" \notin FailingOps
    PROVE  Spec => []RegisteredBundlePresent
<1>1. TypeInv /\ FileInv /\ PointerInv /\ BundleInv /\ [Next]_vars => BundleInv'
  BY NextBundles
<1>2. BundleInv => RegisteredBundlePresent
  BY DEF BundleInv
<1> QED BY <1>1, <1>2, InitBundles, TypeInvariant, FileInvariant, PointerInvariant, PTL DEF Spec
=============================================================================
