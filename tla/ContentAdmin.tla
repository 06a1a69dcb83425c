---------------------------- MODULE ContentAdmin ----------------------------
(***************************************************************************)
(* The mutating handlers of the content administration                     *)
(* (ContentAdminService and SystemAdminService) with the PostgreSQL rows   *)
(* and the three local file stores they work on.                           *)
(*                                                                         *)
(* A request is a process; each of its awaits is a step, so requests       *)
(* interleave there as coroutines of the event loop do.  A request's       *)
(* statements run in one transaction (READ COMMITTED, the default of the   *)
(* engine): reads see what is committed plus the transaction's own         *)
(* writes, a write holds its row until commit or rollback, and a writer    *)
(* that finds the row held waits.  Files are outside of the transaction:   *)
(* a handler writes or deletes them at once and, when a later step raises, *)
(* undoes what it can; an except clause may itself fail half-way.          *)
(***************************************************************************)
EXTENDS ContentPayload, Naturals

CONSTANTS
    Requests,        \* request slots of the server
    MaxActive,       \* how many requests are in flight at once
    Ops,             \* the operations this instance serves
    FailingOps,      \* operations whose database and file calls may raise
    AckLoss,         \* may a COMMIT be applied and still be reported as failed?
    Crashes,         \* may the process stop and be started again?
    Backups,         \* ids of backup artifacts (at most this many at once)
    Candidates,      \* ids of import candidates
    SeedAssets,      \* files the application copies into the storage on start
    EditorPayloads,  \* the documents the editor may save
    Documents,       \* the documents that may be uploaded as candidates
    Selections,      \* what the editor may select from a candidate
    None,            \* no row, no id
    Unwritten        \* a row the transaction has not written

Kinds == {"draft", "published"}

Rows == Kinds \cup {"state"} \cup Backups \cup Candidates

StateRow == [current : Backups \cup {None}, pending : Candidates \cup {None}]

ASSUME RowsAssumption ==
    /\ Backups \cap Candidates = {}
    /\ {"draft", "published", "state"} \cap (Backups \cup Candidates) = {}
    /\ None \notin Backups \cup Candidates \cup Assets
    /\ None \notin SnapshotRow \cup Document \cup StateRow
    /\ Unwritten \notin SnapshotRow \cup Document \cup StateRow
    /\ None # Unwritten

ASSUME InstanceAssumption ==
    /\ SeedAssets \subseteq Assets
    /\ EditorPayloads \subseteq Payload
    /\ Documents \subseteq Document
    /\ Selections \subseteq Selection
    /\ AckLoss \in BOOLEAN /\ Crashes \in BOOLEAN

VARIABLES
    db,         \* db[n]: the committed version of row n, or None
    tx,         \* tx[r][n]: the version of row n written by r's transaction
    bundles,    \* backup ids whose bundle file exists
    documents,  \* candidate ids whose document file exists
    assets,     \* asset ids that the asset storage holds
    strays,     \* files that a failing write or except clause has left without a row
    pc,         \* the await at which each request is
    ctx         \* the local variables of each request

vars == <<db, tx, bundles, documents, assets, strays, pc, ctx>>

stores == <<db, tx, bundles, documents, assets, strays>>

files == <<bundles, documents, assets, strays>>

(***************************************************************************)
(* Local variables of a handler.                                           *)
(***************************************************************************)
NoContext ==
    [op        |-> "none",
     kind      |-> "draft",   \* the snapshot to back up (createBackup)
     next      |-> None,      \* the row to write into draft or published
     source    |-> None,      \* the row to back up before it is replaced
     seen      |-> None,      \* the row as the last SELECT before a write returned it
     backup    |-> None,      \* the backup this request creates
     victim    |-> None,      \* the backup this request deletes
     cand      |-> None,      \* the candidate this request stages or applies
     document  |-> None,      \* the document of that candidate
     selection |-> None,      \* what of the document is to be applied
     asset     |-> None,      \* the asset this request uploads, deletes or restores
     fresh     |-> FALSE,     \* was that asset missing when it was looked up?
     todo      |-> {},        \* assets still to be read into the bundle
     visited   |-> {},        \* bundled assets that restore_bundled_assets is done with
     restoring |-> {},        \* those of them that were missing before
     restored  |-> {}]        \* assets to delete again if the request fails

NoWrites == [n \in Rows |-> Unwritten]

NoState == [current |-> None, pending |-> None]

Labels == {"idle", "readDraft", "readPublished", "readSource", "bundleAssets",
           "writeBundle", "insertBackup", "pointSelect", "pointFlush",
           "selectSnapshot", "flushSnapshot", "readBackup", "unlinkBundle",
           "selectRow", "deleteRow", "unpoint", "clearCurrent", "writeAsset", "checkDraft",
           "checkPublished", "getAsset", "removeAsset", "writeCandidate",
           "insertCandidate", "reviewSelect", "reviewFlush", "readCandidate",
           "loadCandidate", "probeAsset", "restoreAsset", "commit",
           "discardBundle", "compensate", "removeRestored"}

(***************************************************************************)
(* Transactions.                                                           *)
(***************************************************************************)
View(r, n) == IF tx[r][n] = Unwritten THEN db[n] ELSE tx[r][n]

Held(n, r) == \E q \in Requests \ {r} : tx[q][n] # Unwritten

Write(r, n, row) == tx' = [tx EXCEPT ![r] = [@ EXCEPT ![n] = row]]

Rollback(r) == tx' = [tx EXCEPT ![r] = NoWrites]

(***************************************************************************)
(* SQLAlchemy's UPDATE names only the columns whose new value differs      *)
(* from the value the session loaded; the others keep what the latest      *)
(* committed version of the row has.                                       *)
(***************************************************************************)
UpdatedRow(latest, loaded, new) ==
    [payload |-> IF new.payload = loaded.payload THEN latest.payload ELSE new.payload,
     version |-> IF new.version = loaded.version THEN latest.version ELSE new.version]

(***************************************************************************)
(* Control flow of a request.                                              *)
(***************************************************************************)
At(r, label) == pc[r] = label

GoTo(r, label) == pc' = [pc EXCEPT ![r] = label]

\* The try block inside _create_backup_from_snapshot: the bundle is written,
\* the caller does not know of it yet.
InBackupTry(r) == pc[r] \in {"insertBackup", "pointSelect", "pointFlush"}

\* Variant of Raise: the session is not rolled back.
Raise_KeepsTransaction(r) ==
    /\ GoTo(r, IF InBackupTry(r) THEN "discardBundle" ELSE "compensate")
    /\ UNCHANGED <<db, tx, files, ctx>>

\* An exception: the except clause rolls the session back and undoes files.
Raise(r) ==
    /\ IF InBackupTry(r)
       THEN GoTo(r, "discardBundle") /\ UNCHANGED tx
       ELSE GoTo(r, "compensate") /\ Rollback(r)
    /\ UNCHANGED <<db, files, ctx>>

Finish(r) ==
    /\ GoTo(r, "idle")
    /\ ctx' = [ctx EXCEPT ![r] = NoContext]

Active == {r \in Requests : pc[r] # "idle"}

Begin(r, label, locals) ==
    /\ At(r, "idle")
    /\ locals.op \in Ops
    /\ Cardinality(Active) < MaxActive
    /\ GoTo(r, label)
    /\ ctx' = [ctx EXCEPT ![r] = locals]
    /\ UNCHANGED stores

Referenced(row, a) == row # None /\ a \in Refs(row.payload)

Mentioned(document, a) ==
    document # None /\ a \in document.assets \cup Refs(document.payload)

\* uuid4: an id that nothing in the system still refers to.
FreshBackup(b) ==
    /\ db[b] = None /\ b \notin bundles
    /\ \A r \in Requests : b \notin {ctx[r].backup, ctx[r].victim}

FreshCandidate(c) ==
    /\ db[c] = None /\ c \notin documents
    /\ \A r \in Requests : ctx[r].cand # c

FreshAsset(a) ==
    /\ a \notin assets \cup SeedAssets
    /\ \A k \in Kinds \cup Backups : ~Referenced(db[k], a)
    /\ \A c \in Candidates : ~Mentioned(db[c], a)
    /\ \A r \in Requests :
          /\ ctx[r].asset # a
          /\ ~Referenced(ctx[r].next, a)
          /\ ~Mentioned(ctx[r].document, a)

(***************************************************************************)
(* Backup block shared by publish_draft_snapshot, create_backup_artifact   *)
(* and apply_import_candidate_to_draft.                                    *)
(***************************************************************************)
AfterBackup(op) ==
    CASE op = "publish"      -> "selectSnapshot"
      [] op = "createBackup" -> "commit"
      [] op = "applyImport"  -> "probeAsset"

\* Every file the snapshot refers to is read into the bundle; a missing one
\* raises.
BundleAsset(r) ==
    /\ At(r, "bundleAssets")
    /\ \/ \E a \in ctx[r].todo \cap assets :
            /\ ctx' = [ctx EXCEPT ![r].todo = @ \ {a}]
            /\ UNCHANGED <<stores, pc>>
       \/ /\ ctx[r].todo \ assets # {}
          /\ Raise(r)
       \/ /\ ctx[r].todo = {}
          /\ GoTo(r, "writeBundle")
          /\ UNCHANGED <<stores, ctx>>

WriteBundle(r) ==
    /\ At(r, "writeBundle")
    /\ bundles' = bundles \cup {ctx[r].backup}
    /\ GoTo(r, "insertBackup")
    /\ UNCHANGED <<db, tx, documents, assets, strays, ctx>>

\* Variant of InsertBackup: the row holds the bare document.
InsertBackup_PayloadOnly(r) ==
    /\ At(r, "insertBackup")
    /\ Write(r, ctx[r].backup, ctx[r].source.payload)
    /\ GoTo(r, "pointSelect")
    /\ UNCHANGED <<db, files, ctx>>

InsertBackup(r) ==
    /\ At(r, "insertBackup")
    /\ Write(r, ctx[r].backup, ctx[r].source)
    /\ GoTo(r, "pointSelect")
    /\ UNCHANGED <<db, files, ctx>>

\* _ensure_admin_content_state: SELECT the singleton row ...
SelectState(r, from, to) ==
    /\ At(r, from)
    /\ ctx' = [ctx EXCEPT ![r].seen = View(r, "state")]
    /\ GoTo(r, to)
    /\ UNCHANGED stores

\* ... and flush: INSERT it if it was absent (refused by the primary key if
\* another transaction has inserted it meanwhile), then UPDATE it.
StateBefore(r) == IF ctx[r].seen = None THEN NoState ELSE View(r, "state")

\* Variant of FlushState: the state row is written outside of the transaction.
FlushState_Autocommit(r, from, to, state) ==
    /\ At(r, from)
    /\ db' = [db EXCEPT !["state"] = state]
    /\ GoTo(r, to)
    /\ UNCHANGED <<tx, files, ctx>>

FlushState(r, from, to, state) ==
    /\ At(r, from)
    /\ ~Held("state", r)
    /\ \/ /\ ctx[r].seen = None
          /\ View(r, "state") # None
          /\ Raise(r)
       \/ /\ (ctx[r].seen = None) = (View(r, "state") = None)
          /\ Write(r, "state", state)
          /\ GoTo(r, to)
          /\ UNCHANGED <<db, files, ctx>>

PointSelect(r) == SelectState(r, "pointSelect", "pointFlush")

PointFlush(r) ==
    FlushState(r, "pointFlush", AfterBackup(ctx[r].op),
               [StateBefore(r) EXCEPT !.current = ctx[r].backup])

(***************************************************************************)
(* save_snapshot, shared by save_draft, publish and apply: SELECT the row, *)
(* then flush an INSERT (refused by uq_portfolio_snapshot_snapshot_kind if *)
(* the row has appeared meanwhile) or an UPDATE of the changed columns.    *)
(***************************************************************************)
Target(op) == IF op = "publish" THEN "published" ELSE "draft"

SelectSnapshot(r) ==
    /\ At(r, "selectSnapshot")
    /\ ctx' = [ctx EXCEPT ![r].seen = View(r, Target(ctx[r].op))]
    /\ GoTo(r, "flushSnapshot")
    /\ UNCHANGED stores

SnapshotToWrite(r) ==
    IF ctx[r].seen = None
    THEN ctx[r].next
    ELSE UpdatedRow(db[Target(ctx[r].op)], ctx[r].seen, ctx[r].next)

\* Variant of FlushSnapshot: a saved draft ends the review of a candidate, too.
FlushSnapshot_EndsReview(r) ==
    LET target == Target(ctx[r].op) IN
    /\ At(r, "flushSnapshot")
    /\ ~Held(target, r)
    /\ \/ /\ ctx[r].seen = None
          /\ db[target] # None
          /\ Raise(r)
       \/ /\ (ctx[r].seen = None) = (db[target] = None)
          /\ Write(r, target, SnapshotToWrite(r))
          /\ GoTo(r, IF target = "draft" THEN "reviewSelect" ELSE "commit")
          /\ UNCHANGED <<db, files, ctx>>

FlushSnapshot(r) ==
    LET target == Target(ctx[r].op) IN
    /\ At(r, "flushSnapshot")
    /\ ~Held(target, r)
    /\ \/ /\ ctx[r].seen = None
          /\ db[target] # None
          /\ Raise(r)
       \/ /\ (ctx[r].seen = None) = (db[target] = None)
          /\ Write(r, target, SnapshotToWrite(r))
          /\ GoTo(r, IF ctx[r].op = "applyImport" THEN "reviewSelect" ELSE "commit")
          /\ UNCHANGED <<db, files, ctx>>

(***************************************************************************)
(* save_draft_snapshot                                                     *)
(***************************************************************************)
SaveDraft(r) ==
    \E p \in EditorPayloads :
        Begin(r, "selectSnapshot",
              [NoContext EXCEPT !.op = "saveDraft", !.next = RowOf(p)])

(***************************************************************************)
(* publish_draft_snapshot, create_backup_artifact                          *)
(***************************************************************************)
Publish(r) ==
    \E b \in Backups :
        /\ FreshBackup(b)
        /\ Begin(r, "readDraft", [NoContext EXCEPT !.op = "publish", !.backup = b])

CreateBackup(r) ==
    \E b \in Backups, k \in Kinds :
        /\ FreshBackup(b)
        /\ Begin(r, "readSource",
                 [NoContext EXCEPT !.op = "createBackup", !.backup = b, !.kind = k])

Backing(r, row) ==
    [ctx[r] EXCEPT !.source = row, !.todo = Refs(row.payload)]

ReadDraftToPublish(r) ==
    /\ At(r, "readDraft") /\ ctx[r].op = "publish"
    /\ \/ db["draft"] = None /\ Raise(r)
       \/ /\ db["draft"] # None
          /\ ctx' = [ctx EXCEPT ![r].next = db["draft"]]
          /\ GoTo(r, "readPublished")
          /\ UNCHANGED stores

\* Variant of ReadPublished: the version that is about to be published is
\* backed up, not the one it replaces.
ReadPublished_BacksUpDraft(r) ==
    /\ At(r, "readPublished")
    /\ \/ /\ db["published"] = None
          /\ GoTo(r, "selectSnapshot")
          /\ UNCHANGED <<stores, ctx>>
       \/ /\ db["published"] # None
          /\ ctx' = [ctx EXCEPT ![r] = Backing(r, ctx[r].next)]
          /\ GoTo(r, "bundleAssets")
          /\ UNCHANGED stores

\* A site that has never been published has nothing to back up.
ReadPublished(r) ==
    /\ At(r, "readPublished")
    /\ \/ /\ db["published"] = None
          /\ GoTo(r, "selectSnapshot")
          /\ UNCHANGED <<stores, ctx>>
       \/ /\ db["published"] # None
          /\ ctx' = [ctx EXCEPT ![r] = Backing(r, db["published"])]
          /\ GoTo(r, "bundleAssets")
          /\ UNCHANGED stores

ReadSource(r) ==
    /\ At(r, "readSource")
    /\ \/ db[ctx[r].kind] = None /\ Raise(r)
       \/ /\ db[ctx[r].kind] # None
          /\ ctx' = [ctx EXCEPT ![r] = Backing(r, db[ctx[r].kind])]
          /\ GoTo(r, "bundleAssets")
          /\ UNCHANGED stores

(***************************************************************************)
(* delete_backup_artifact                                                  *)
(***************************************************************************)
DeleteBackup(r) ==
    \E b \in Backups :
        /\ db[b] # None
        /\ Begin(r, "readBackup", [NoContext EXCEPT !.op = "deleteBackup", !.victim = b])

ReadBackup(r) ==
    /\ At(r, "readBackup")
    /\ \/ db[ctx[r].victim] = None /\ Raise(r)
       \/ /\ db[ctx[r].victim] # None
          /\ GoTo(r, "unlinkBundle")
          /\ UNCHANGED <<stores, ctx>>

UnlinkBundle(r) ==
    /\ At(r, "unlinkBundle")
    /\ bundles' = bundles \ {ctx[r].victim}
    /\ GoTo(r, "selectRow")
    /\ UNCHANGED <<db, tx, documents, assets, strays, ctx>>

\* SELECT the row once more, which raises if it is gone ...
SelectRow(r) ==
    /\ At(r, "selectRow")
    /\ \/ db[ctx[r].victim] = None /\ Raise(r)
       \/ /\ db[ctx[r].victim] # None
          /\ GoTo(r, "deleteRow")
          /\ UNCHANGED <<stores, ctx>>

\* ... and DELETE it.  If another request has deleted it meanwhile, no row
\* matches: SQLAlchemy only warns, and the handler goes on.
DeleteRow(r) ==
    LET b == ctx[r].victim IN
    /\ At(r, "deleteRow")
    /\ ~Held(b, r)
    /\ \/ /\ db[b] = None
          /\ GoTo(r, "clearCurrent")
          /\ UNCHANGED <<stores, ctx>>
       \/ /\ db[b] # None
          /\ Write(r, b, None)
          /\ GoTo(r, "unpoint")
          /\ UNCHANGED <<db, files, ctx>>

\* The same statement, which holds the backup by now, waits for the state row
\* if that points to it: ON DELETE SET NULL.
Pointed(b) == db["state"] # None /\ db["state"].current = b

Unpoint(r) ==
    /\ At(r, "unpoint")
    /\ IF Pointed(ctx[r].victim)
       THEN /\ ~Held("state", r)
            /\ Write(r, "state", [db["state"] EXCEPT !.current = None])
       ELSE UNCHANGED tx
    /\ GoTo(r, "clearCurrent")
    /\ UNCHANGED <<db, files, ctx>>

\* get_admin_content_state, and update_current_backup_artifact(None) if it
\* still names the deleted backup.
ClearCurrent(r) ==
    LET state == View(r, "state") IN
    /\ At(r, "clearCurrent")
    /\ \/ state = None /\ Raise(r)
       \/ /\ state # None
          /\ IF state.current = ctx[r].victim
             THEN /\ ~Held("state", r)
                  /\ Write(r, "state", [state EXCEPT !.current = None])
             ELSE UNCHANGED tx
          /\ GoTo(r, "commit")
          /\ UNCHANGED <<db, files, ctx>>

(***************************************************************************)
(* upload_asset, delete_asset                                              *)
(***************************************************************************)
UploadAsset(r) ==
    \E a \in Assets :
        /\ FreshAsset(a)
        /\ Begin(r, "writeAsset", [NoContext EXCEPT !.op = "uploadAsset", !.asset = a])

WriteAsset(r) ==
    /\ At(r, "writeAsset")
    /\ assets' = assets \cup {ctx[r].asset}
    /\ ctx' = [ctx EXCEPT ![r].restored = {ctx[r].asset}]
    /\ GoTo(r, "commit")
    /\ UNCHANGED <<db, tx, bundles, documents, strays>>

DeleteAsset(r) ==
    \E a \in assets :
        Begin(r, "checkDraft", [NoContext EXCEPT !.op = "deleteAsset", !.asset = a])

CheckSnapshot(r, from, kind, to) ==
    /\ At(r, from)
    /\ \/ Referenced(db[kind], ctx[r].asset) /\ Raise(r)
       \/ /\ ~Referenced(db[kind], ctx[r].asset)
          /\ GoTo(r, to)
          /\ UNCHANGED <<stores, ctx>>

CheckDraft(r) == CheckSnapshot(r, "checkDraft", "draft", "checkPublished")

\* Variant of CheckPublished: only the draft is searched for references.
CheckPublished_Skipped(r) ==
    /\ At(r, "checkPublished")
    /\ GoTo(r, "getAsset")
    /\ UNCHANGED <<stores, ctx>>

CheckPublished(r) == CheckSnapshot(r, "checkPublished", "published", "getAsset")

\* Only files with source_kind "upload" may be deleted.
GetAsset(r) ==
    /\ At(r, "getAsset")
    /\ \/ ctx[r].asset \notin assets \ SeedAssets /\ Raise(r)
       \/ /\ ctx[r].asset \in assets \ SeedAssets
          /\ GoTo(r, "removeAsset")
          /\ UNCHANGED <<stores, ctx>>

RemoveAsset(r) ==
    /\ At(r, "removeAsset")
    /\ \/ ctx[r].asset \notin assets /\ Raise(r)
       \/ /\ ctx[r].asset \in assets
          /\ assets' = assets \ {ctx[r].asset}
          /\ GoTo(r, "commit")
          /\ UNCHANGED <<db, tx, bundles, documents, strays, ctx>>

(***************************************************************************)
(* create_import_candidate                                                 *)
(***************************************************************************)
StageImport(r) ==
    \E c \in Candidates, d \in Documents :
        /\ FreshCandidate(c)
        /\ Begin(r, "writeCandidate",
                 [NoContext EXCEPT !.op = "stageImport", !.cand = c, !.document = d])

WriteCandidate(r) ==
    /\ At(r, "writeCandidate")
    /\ documents' = documents \cup {ctx[r].cand}
    /\ GoTo(r, "insertCandidate")
    /\ UNCHANGED <<db, tx, bundles, assets, strays, ctx>>

\* uq_import_candidate_checksum_sha256: the same document is not staged
\* twice; an uncommitted row with the same checksum makes the INSERT wait.
InsertCandidate(r) ==
    LET doc == ctx[r].document IN
    /\ At(r, "insertCandidate")
    /\ \A q \in Requests \ {r}, c \in Candidates : tx[q][c] # doc
    /\ \/ /\ \E c \in Candidates : db[c] = doc
          /\ Raise(r)
       \/ /\ \A c \in Candidates : db[c] # doc
          /\ Write(r, ctx[r].cand, doc)
          /\ GoTo(r, "reviewSelect")
          /\ UNCHANGED <<db, files, ctx>>

\* mark_pending_import_candidate, or complete_import_review, which clears
\* the pointer whatever candidate it names.
ReviewSelect(r) == SelectState(r, "reviewSelect", "reviewFlush")

ReviewFlush(r) ==
    FlushState(r, "reviewFlush", "commit",
               [StateBefore(r) EXCEPT !.pending =
                    IF ctx[r].op = "stageImport" THEN ctx[r].cand ELSE None])

(***************************************************************************)
(* apply_import_candidate_to_draft                                         *)
(***************************************************************************)
ApplyImport(r) ==
    \E b \in Backups, c \in Candidates, selection \in Selections :
        /\ FreshBackup(b)
        /\ db[c] # None
        /\ Begin(r, "readCandidate",
                 [NoContext EXCEPT !.op = "applyImport", !.backup = b, !.cand = c,
                                   !.selection = selection])

ReadCandidate(r) ==
    /\ At(r, "readCandidate")
    /\ \/ db[ctx[r].cand] = None /\ Raise(r)
       \/ /\ db[ctx[r].cand] # None
          /\ ctx' = [ctx EXCEPT ![r].document = db[ctx[r].cand]]
          /\ GoTo(r, "loadCandidate")
          /\ UNCHANGED stores

LoadCandidate(r) ==
    /\ At(r, "loadCandidate")
    /\ \/ ctx[r].cand \notin documents /\ Raise(r)
       \/ /\ ctx[r].cand \in documents
          /\ GoTo(r, "readDraft")
          /\ UNCHANGED <<stores, ctx>>

ImportedDraft(r) ==
    NextDraft(db["draft"].payload, ctx[r].document.payload, ctx[r].selection)

\* Variant of Importing: the import is computed, then backed up itself.
Importing_BacksUpNext(r) ==
    [Backing(r, RowOf(ImportedDraft(r))) EXCEPT !.next = RowOf(ImportedDraft(r))]

\* Variant of Importing: the row keeps the draft's schema version.
Importing_KeepsVersion(r) ==
    [Backing(r, db["draft"]) EXCEPT
        !.next = [payload |-> ImportedDraft(r), version |-> db["draft"].version]]

Importing(r) ==
    [Backing(r, db["draft"]) EXCEPT !.next = RowOf(ImportedDraft(r))]

ReadDraftToImport(r) ==
    LET accepted ==
          /\ db["draft"] # None
          /\ Applicable(db["draft"].payload, ctx[r].document.payload, ctx[r].selection)
    IN
    /\ At(r, "readDraft") /\ ctx[r].op = "applyImport"
    /\ \/ ~accepted /\ Raise(r)
       \/ /\ accepted
          /\ ctx' = [ctx EXCEPT ![r] = Importing(r)]
          /\ GoTo(r, "bundleAssets")
          /\ UNCHANGED stores

\* The bundled files that the new draft needs and that are not restored yet.
ToRestore(r) ==
    (ctx[r].document.assets \cap Refs(ctx[r].next.payload)) \ ctx[r].visited

\* restore_bundled_assets, one file at a time: look it up ...
ProbeAsset(r) ==
    /\ At(r, "probeAsset")
    /\ \/ \E a \in ToRestore(r) :
            /\ ctx' = [ctx EXCEPT ![r].asset = a, ![r].fresh = a \notin assets]
            /\ GoTo(r, "restoreAsset")
            /\ UNCHANGED stores
       \/ /\ ToRestore(r) = {}
          /\ ctx' = [ctx EXCEPT ![r].restored = ctx[r].restoring]
          /\ GoTo(r, "selectSnapshot")
          /\ UNCHANGED stores

\* ... and write it (a no-op if it exists by now); only files that were
\* missing at the lookup are reported to the caller.
RestoreAsset(r) ==
    LET a == ctx[r].asset IN
    /\ At(r, "restoreAsset")
    /\ assets' = assets \cup {a}
    /\ ctx' = [ctx EXCEPT ![r].visited = @ \cup {a},
                          ![r].restoring = IF ctx[r].fresh THEN @ \cup {a} ELSE @]
    /\ GoTo(r, "probeAsset")
    /\ UNCHANGED <<db, tx, bundles, documents, strays>>

(***************************************************************************)
(* The end of a request: append the audit record and commit, or undo.      *)
(***************************************************************************)
Committed(r) == [n \in Rows |-> View(r, n)]

Commit(r) ==
    /\ At(r, "commit")
    /\ db' = Committed(r)
    /\ Rollback(r)
    /\ UNCHANGED files
    /\ \/ Finish(r)
       \/ /\ AckLoss
          /\ GoTo(r, "compensate")
          /\ UNCHANGED ctx

\* Variant of DiscardBundle: the exception is not raised again.
DiscardBundle_Swallows(r) ==
    /\ At(r, "discardBundle")
    /\ bundles' = bundles \ {ctx[r].backup}
    /\ GoTo(r, AfterBackup(ctx[r].op))
    /\ UNCHANGED <<db, tx, documents, assets, strays, ctx>>

\* except in _create_backup_from_snapshot: delete the bundle, re-raise, and
\* the handler's own except clause rolls back.
DiscardBundle(r) ==
    /\ At(r, "discardBundle")
    /\ bundles' = bundles \ {ctx[r].backup}
    /\ Rollback(r)
    /\ GoTo(r, "compensate")
    /\ UNCHANGED <<db, documents, assets, strays, ctx>>

\* Variant of Compensate: the files of the failed request stay.
Compensate_KeepsFiles(r) ==
    /\ At(r, "compensate")
    /\ Finish(r)
    /\ UNCHANGED stores

\* delete_bundle and delete_candidate_document ignore a missing file.
Compensate(r) ==
    /\ At(r, "compensate")
    /\ bundles' = bundles \ {ctx[r].backup}
    /\ documents' = IF ctx[r].op = "stageImport"
                    THEN documents \ {ctx[r].cand}
                    ELSE documents
    /\ IF ctx[r].restored = {}
       THEN Finish(r)
       ELSE GoTo(r, "removeRestored") /\ UNCHANGED ctx
    /\ UNCHANGED <<db, tx, assets, strays>>

\* delete_asset raises if the file is gone: the rest is left behind.
RemoveRestored(r) ==
    /\ At(r, "removeRestored")
    /\ \E a \in ctx[r].restored :
         /\ assets' = assets \ {a}
         /\ IF a \notin assets \/ ctx[r].restored = {a}
            THEN Finish(r)
            ELSE /\ ctx' = [ctx EXCEPT ![r].restored = @ \ {a}]
                 /\ UNCHANGED pc
    /\ UNCHANGED <<db, tx, bundles, documents, strays>>

(***************************************************************************)
(* Calls that fail.                                                        *)
(***************************************************************************)
\* A database or file call of the handler raises and has done nothing.
CallFails(r) ==
    /\ pc[r] \notin {"idle", "discardBundle", "compensate", "removeRestored"}
    /\ Raise(r)

\* Path.write_bytes raises after it has created the file: the handler has
\* not got its path, and no except clause can delete it.
TornWrite(r) ==
    /\ \/ /\ At(r, "writeBundle")
          /\ bundles' = bundles \cup {ctx[r].backup}
          /\ strays' = strays \cup {ctx[r].backup}
          /\ UNCHANGED documents
       \/ /\ At(r, "writeCandidate")
          /\ documents' = documents \cup {ctx[r].cand}
          /\ strays' = strays \cup {ctx[r].cand}
          /\ UNCHANGED bundles
    /\ Finish(r)
    /\ Rollback(r)
    /\ UNCHANGED <<db, assets>>

\* The files of a request that are there and that no row names.
Unnamed(r) == {n \in {ctx[r].backup} \cap bundles : db[n] = None}
              \cup {n \in {ctx[r].cand} \cap documents : db[n] = None}

\* The rollback or a deletion in an except clause raises: what it has not
\* undone by then stays.  The transaction ends with the session.
UndoFails(r) ==
    /\ \/ At(r, "discardBundle") /\ UNCHANGED assets
       \/ At(r, "compensate") /\ UNCHANGED assets
       \/ At(r, "removeRestored") /\ \E a \in ctx[r].restored : assets' \in {assets, assets \ {a}}
    /\ strays' = strays \cup Unnamed(r)
    /\ Finish(r)
    /\ Rollback(r)
    /\ UNCHANGED <<db, bundles, documents>>

Fault(r) ==
    /\ ctx[r].op \in FailingOps
    /\ CallFails(r) \/ TornWrite(r) \/ UndoFails(r)

\* The process stops and is started again: transactions are rolled back,
\* files stay, and startup copies the missing seed files.
Crash ==
    /\ Crashes
    /\ pc' = [r \in Requests |-> "idle"]
    /\ ctx' = [r \in Requests |-> NoContext]
    /\ tx' = [r \in Requests |-> NoWrites]
    /\ assets' = assets \cup SeedAssets
    /\ UNCHANGED <<db, bundles, documents, strays>>

(***************************************************************************)
(* The specification.                                                      *)
(***************************************************************************)
Init ==
    /\ db = [n \in Rows |-> None]
    /\ tx = [r \in Requests |-> NoWrites]
    /\ bundles = {}
    /\ documents = {}
    /\ assets = SeedAssets
    /\ strays = {}
    /\ pc = [r \in Requests |-> "idle"]
    /\ ctx = [r \in Requests |-> NoContext]

Arrive(r) ==
    \/ SaveDraft(r) \/ Publish(r) \/ CreateBackup(r) \/ DeleteBackup(r)
    \/ UploadAsset(r) \/ DeleteAsset(r) \/ StageImport(r) \/ ApplyImport(r)

BackupStep(r) ==
    \/ ReadDraftToPublish(r) \/ ReadPublished(r) \/ ReadSource(r)
    \/ BundleAsset(r) \/ WriteBundle(r) \/ InsertBackup(r)
    \/ PointSelect(r) \/ PointFlush(r)
    \/ ReadBackup(r) \/ UnlinkBundle(r) \/ SelectRow(r) \/ DeleteRow(r)
    \/ Unpoint(r) \/ ClearCurrent(r)

AssetStep(r) ==
    \/ WriteAsset(r)
    \/ CheckDraft(r) \/ CheckPublished(r) \/ GetAsset(r) \/ RemoveAsset(r)

ImportStep(r) ==
    \/ WriteCandidate(r) \/ InsertCandidate(r) \/ ReviewSelect(r) \/ ReviewFlush(r)
    \/ ReadCandidate(r) \/ LoadCandidate(r) \/ ReadDraftToImport(r)
    \/ ProbeAsset(r) \/ RestoreAsset(r)

EndStep(r) == Commit(r) \/ DiscardBundle(r) \/ Compensate(r) \/ RemoveRestored(r)

Step(r) ==
    \/ SelectSnapshot(r) \/ FlushSnapshot(r)
    \/ BackupStep(r) \/ AssetStep(r) \/ ImportStep(r) \/ EndStep(r)

Next ==
    \/ \E r \in Requests : Arrive(r) \/ Step(r) \/ Fault(r)
    \/ Crash

Spec == Init /\ [][Next]_vars

\* The event loop runs every coroutine that can proceed, and PostgreSQL
\* grants a row to its waiters in the order of their arrival: a request
\* whose row is free again and again is not passed over for ever.
FairSpec == Spec /\ \A r \in Requests : SF_vars(Step(r))
(***************************************************************************)
(* Types.                                                                  *)
(***************************************************************************)
RowType(n) ==
    IF n = "state" THEN StateRow
    ELSE IF n \in Candidates THEN Document
    ELSE SnapshotRow

Context ==
    [op : Ops \cup {"none"}, kind : Kinds,
     next : SnapshotRow \cup {None}, source : SnapshotRow \cup {None},
     seen : SnapshotRow \cup StateRow \cup {None},
     backup : Backups \cup {None}, victim : Backups \cup {None},
     cand : Candidates \cup {None}, document : Document \cup {None},
     selection : Selection \cup {None},
     asset : Assets \cup {None}, fresh : BOOLEAN,
     todo : SUBSET Assets, visited : SUBSET Assets,
     restoring : SUBSET Assets, restored : SUBSET Assets]

\* Every row, file id, label and local variable has its type.
TypeOK ==
    /\ DOMAIN db = Rows
    /\ \A n \in Rows : db[n] = None \/ db[n] \in RowType(n)
    /\ DOMAIN tx = Requests
    /\ \A r \in Requests :
          /\ DOMAIN tx[r] = Rows
          /\ \A n \in Rows : tx[r][n] \in {None, Unwritten} \/ tx[r][n] \in RowType(n)
    /\ bundles \subseteq Backups
    /\ documents \subseteq Candidates
    /\ assets \subseteq Assets
    /\ strays \subseteq Backups \cup Candidates
    /\ pc \in [Requests -> Labels]
    /\ ctx \in [Requests -> Context]

(***************************************************************************)
(* Safety.                                                                 *)
(***************************************************************************)
\* A backup that the registry lists can be downloaded: its file exists,
\* unless a request that deletes this very backup is under way
\* (delete_backup_artifact removes the file first, the row on commit).
RegisteredBundlePresent ==
    \A b \in Backups :
        db[b] # None /\ b \notin bundles => \E r \in Requests : ctx[r].victim = b

\* One failing call leaves no file behind, unless it is the write of that very
\* file: every bundle and every candidate document is registered, or its
\* request is still at work, or was torn by its write, or was left by an
\* except clause that failed as well (the except clauses delete what their
\* request wrote, and only that).
NoOrphanFile ==
    /\ \A b \in bundles \ strays : db[b] # None \/ \E r \in Requests : ctx[r].backup = b
    /\ \A c \in documents \ strays : db[c] # None \/ \E r \in Requests : ctx[r].cand = c

\* The state row names a backup that is registered and a candidate that is
\* registered and whose file can be loaded, so that the admin page and the
\* review never follow a dangling pointer.
StatePointersValid ==
    LET state == db["state"] IN
    state # None =>
        /\ state.current # None => db[state.current] # None
        /\ state.pending # None => db[state.pending] # None /\ state.pending \in documents

\* Two transactions never hold uncommitted versions of the same row, so no
\* commit overwrites a version that it has not waited for.
RowsExclusive ==
    \A n \in Rows, q \in Requests, r \in Requests :
        tx[q][n] # Unwritten /\ tx[r][n] # Unwritten => q = r

\* The rows that the statement at which a request is has to lock.  An INSERT of
\* a candidate waits for an uncommitted one with the same checksum.
Wanted(r) ==
    CASE pc[r] \in {"pointFlush", "reviewFlush"} -> {"state"}
      [] pc[r] = "flushSnapshot"   -> {Target(ctx[r].op)}
      [] pc[r] = "deleteRow"       -> {ctx[r].victim}
      [] pc[r] = "unpoint"         -> {n \in {"state"} : Pointed(ctx[r].victim)}
      [] pc[r] = "clearCurrent"    -> {n \in {"state"} : /\ View(r, n) # None
                                                         /\ View(r, n).current = ctx[r].victim}
      [] pc[r] = "insertCandidate" -> {c \in Candidates : \E q \in Requests \ {r} :
                                                             tx[q][c] = ctx[r].document}
      [] OTHER -> {}

WaitsFor(r, q) == r # q /\ \E n \in Wanted(r) : tx[q][n] # Unwritten

\* However many requests take row locks, there are never some that all wait for
\* one another, of which PostgreSQL would abort one: the handlers take a backup
\* or candidate row before the state row, and that before a snapshot row.
NoLockCycle ==
    \A waiting \in (SUBSET Requests) \ {{}} :
        \E r \in waiting : \A q \in waiting : ~WaitsFor(r, q)

\* The schema version column of each snapshot row, and of each backup made
\* of one, is that of the document next to it.
VersionMatchesDocument ==
    \A n \in Kinds \cup Backups : db[n] # None => db[n].version = db[n].payload.version

Replaced(n) == db[n] # None /\ db'[n] # db[n]

BackedUp(row) == \E b \in Backups : db'[b] = row

\* When publishing replaces the published version, the registry holds, from
\* the same commit on, a backup of the version that was replaced
\* (publish_draft_snapshot: "before the replacement").
PublishBacksUpReplaced == [][Replaced("published") => BackedUp(db["published"])]_vars

\* When an import replaces the draft, the registry holds a backup of the
\* draft that was replaced (apply_import_candidate_to_draft).
ImportBacksUpReplaced ==
    [][\A r \in Requests :
          /\ At(r, "commit") /\ pc'[r] # "commit"
          /\ ctx[r].op = "applyImport" /\ Replaced("draft")
          => BackedUp(db["draft"])]_vars

\* An import never withdraws the draft's request for manual review, whatever
\* sections it replaces; only an editor's save does.
ReviewSurvivesImport ==
    [][\A r \in Requests :
          /\ At(r, "commit") /\ pc'[r] # "commit"
          /\ ctx[r].op = "applyImport" /\ Replaced("draft")
          => (db["draft"].payload.review => db'["draft"].payload.review)]_vars

\* delete_asset never deletes a file that the committed draft or published
\* version refers to at that moment.
DeletionSparesReferenced ==
    [][\A r \in Requests, a \in Assets :
          /\ At(r, "removeAsset") /\ a \in assets /\ a \notin assets'
          => \A k \in Kinds : ~Referenced(db[k], a)]_vars

\* Applying a candidate ends the review of that candidate; the review of
\* another one stays open (only its own application, or a newer upload,
\* takes a candidate out of admin_content_state.pending_import_candidate_id).
\* The code does not keep this: complete_import_review looks at no candidate.
ReviewEndsByOwnImport ==
    [][\A r \in Requests, c \in Candidates :
          /\ At(r, "commit") /\ pc'[r] # "commit" /\ ctx[r].op = "applyImport"
          /\ db["state"] # None /\ db["state"].pending = c
          /\ db'["state"].pending = None
          => ctx[r].cand = c]_vars

(***************************************************************************)
(* Liveness and refinement.                                                *)
(***************************************************************************)
\* Row locks never block requests for ever: each request is answered.
EveryRequestAnswered == \A r \in Requests : ~At(r, "idle") ~> At(r, "idle")

Ledger == INSTANCE ContentLedger WITH
    draft     <- db["draft"],
    published <- db["published"],
    registry  <- [b \in Backups |-> db[b]],
    current   <- IF db["state"] = None THEN None ELSE db["state"].current,
    staged    <- [c \in Candidates |-> db[c]],
    pending   <- IF db["state"] = None THEN None ELSE db["state"].pending

\* Seen from the committed rows, every request happens at one instant, its
\* commit, or not at all.
RequestsAreAtomic == Ledger!Spec
=============================================================================
