----------------------- MODULE ContentAdminSerialProofs -----------------------
(***************************************************************************)
(* Content administration when the server works on one request at a time   *)
(* (MaxActive = 1), under faults, lost commit acknowledgements and         *)
(* restarts: every request is atomic, it implements ContentLedger.  With   *)
(* more than one request at a time this does not hold (run RacingPublish   *)
(* shows one way).                                                         *)
(***************************************************************************)
EXTENDS ContentAdminProofs, FiniteSetTheorems

(***************************************************************************)
(* What a request has done by the time it is at a label, when no other     *)
(* request runs: d is the committed database, l its local variables.       *)
(***************************************************************************)
ReviewLabels == {"reviewSelect", "reviewFlush"}

\* Labels of a request that has not yet read the row it will back up.
ReadingLabels == {"readDraft", "readPublished", "readSource", "readCandidate", "loadCandidate"}

Ending == {"idle", "discardBundle", "compensate", "removeRestored"}

\* The labels on the way of each operation.
Path(op) ==
    CASE op = "saveDraft"    -> SnapshotLabels \cup {"commit"}
      [] op = "publish"      -> {"readDraft", "readPublished", "commit"} \cup BackupLabels \cup SnapshotLabels
      [] op = "createBackup" -> {"readSource", "commit"} \cup BackupLabels
      [] op = "deleteBackup" -> {"readBackup", "unlinkBundle", "selectRow", "deleteRow", "unpoint",
                                 "clearCurrent", "commit"}
      [] op = "uploadAsset"  -> {"writeAsset", "commit"}
      [] op = "deleteAsset"  -> {"checkDraft", "checkPublished", "getAsset", "removeAsset", "commit"}
      [] op = "stageImport"  -> {"writeCandidate", "insertCandidate", "commit"} \cup ReviewLabels
      [] op = "applyImport"  -> {"readCandidate", "loadCandidate", "readDraft", "commit"} \cup BackupLabels
                                \cup RestoreLabels \cup SnapshotLabels \cup ReviewLabels
      [] OTHER               -> {}

\* The row that op backs up.
SourceKind(l) ==
    CASE l.op = "publish"      -> "published"
      [] l.op = "createBackup" -> l.kind
      [] OTHER                 -> "draft"

ReadBacking(d, label, l) ==
    /\ l.backup \in Backups /\ d[l.backup] = None
    /\ l.source = IF label \in ReadingLabels THEN None ELSE d[SourceKind(l)]
    /\ l.op # "publish" /\ label \notin ReadingLabels => l.source # None

ReadPublish(d, label, l) ==
    label # "readDraft" => d["draft"] # None /\ l.next = d["draft"]

ReadImport(d, label, l) ==
    /\ l.cand \in Candidates /\ d[l.cand] # None /\ l.selection \in Selections
    /\ label # "readCandidate" => l.document = d[l.cand]
    /\ label \notin ReadingLabels =>
          /\ Applicable(d["draft"].payload, d[l.cand].payload, l.selection)
          /\ l.next = RowOf(NextDraft(d["draft"].payload, d[l.cand].payload, l.selection))

ReadStage(d, label, l) ==
    /\ l.cand \in Candidates /\ d[l.cand] = None /\ l.document \in Documents
    /\ label \in ReviewLabels \cup {"commit"} => \A c \in Candidates : d[c] # l.document

ReadAssetUse(d, label, l) ==
    /\ label \in {"checkPublished", "getAsset", "removeAsset"} => ~Referenced(d["draft"], l.asset)
    /\ label \in {"getAsset", "removeAsset"} => ~Referenced(d["published"], l.asset)

\* The local variables hold what the database still holds.
Reads(d, label, l) ==
    /\ l.op = "saveDraft" => \E p \in EditorPayloads : l.next = RowOf(p)
    /\ l.op = "publish" => ReadPublish(d, label, l)
    /\ l.op \in BackingOps => ReadBacking(d, label, l)
    /\ l.op = "deleteBackup" => l.victim \in Backups /\ d[l.victim] # None
    /\ l.op = "stageImport" => ReadStage(d, label, l)
    /\ l.op = "applyImport" => ReadImport(d, label, l)
    /\ l.op = "deleteAsset" => ReadAssetUse(d, label, l)

\* What of the transaction is written.
Inserted(label, l) ==
    /\ l.op \in BackingOps /\ l.source # None
    /\ label \in {"pointSelect", "pointFlush", "commit"} \cup RestoreLabels
                 \cup SnapshotLabels \cup ReviewLabels

Repointed(label, l) == Inserted(label, l) /\ label \notin {"pointSelect", "pointFlush"}

Dropped(label, l) == l.op = "deleteBackup" /\ label \in {"unpoint", "clearCurrent", "commit"}

Saved(label, l) ==
    \/ l.op \in {"saveDraft", "publish"} /\ label = "commit"
    \/ l.op = "applyImport" /\ label \in ReviewLabels \cup {"commit"}

Staged(label, l) == l.op = "stageImport" /\ label \in ReviewLabels \cup {"commit"}

Reviewed(label, l) == l.op \in {"stageImport", "applyImport"} /\ label = "commit"

StateNow(d) == IF d["state"] = None THEN NoState ELSE d["state"]

StateRowWritten(d, label, l) ==
    IF Repointed(label, l) \/ Reviewed(label, l)
    THEN [current |-> IF Repointed(label, l) THEN l.backup ELSE StateNow(d).current,
          pending |-> IF ~Reviewed(label, l) THEN StateNow(d).pending
                      ELSE IF l.op = "stageImport" THEN l.cand ELSE None]
    ELSE IF Dropped(label, l) /\ label # "unpoint" /\ StateNow(d).current = l.victim
    THEN [StateNow(d) EXCEPT !.current = None]
    ELSE Unwritten

\* The version of row n in the request's transaction.
RowWritten(d, label, l, n) ==
    IF Inserted(label, l) /\ n = l.backup THEN l.source
    ELSE IF Dropped(label, l) /\ n = l.victim THEN None
    ELSE IF Saved(label, l) /\ n = Target(l.op) THEN l.next
    ELSE IF Staged(label, l) /\ n = l.cand THEN l.document
    ELSE IF n = "state" THEN StateRowWritten(d, label, l)
    ELSE Unwritten

\* What the last SELECT before a flush returned.
Seen(d, label, l) ==
    /\ label = "flushSnapshot" => l.seen = d[Target(l.op)]
    /\ label = "pointFlush" => l.seen = d["state"]
    /\ label = "reviewFlush" =>
          l.seen = IF Repointed(label, l) THEN StateRowWritten(d, label, l) ELSE d["state"]

OnItsWay(d, label, l) == label \in Path(l.op) /\ Reads(d, label, l) /\ Seen(d, label, l)

Consistent(d, label, l, w) ==
    /\ label \notin Ending => OnItsWay(d, label, l)
    /\ label # "discardBundle" => \A n \in Rows : w[n] = RowWritten(d, label, l, n)

OneAtATime ==
    \A q, r \in Requests : pc[q] # "idle" /\ pc[r] # "idle" => q = r

Serial == OneAtATime /\ \A r \in Requests : Consistent(db, pc[r], ctx[r], tx[r])

(***************************************************************************)
(* How a step preserves Serial.                                            *)
(***************************************************************************)
USE DEF BackupLabels, SnapshotLabels, RestoreLabels, ImportLabels, BackingOps, ReviewLabels,
        ReadingLabels, Ending

\* No row is written before the first write or after the last one.
LEMMA NothingWritten ==
    ASSUME NEW d, NEW label \in Ending \ {"discardBundle"}, NEW l
    PROVE  \A n \in Rows : RowWritten(d, label, l, n) = Unwritten
BY DEF RowWritten, Inserted, Dropped, Saved, Staged, StateRowWritten, Repointed, Reviewed

\* Another request is idle and holds no row.
LEMMA Alone ==
    ASSUME Serial, NEW r \in Requests, pc[r] # "idle", NEW q \in Requests \ {r}
    PROVE  pc[q] = "idle" /\ \A n \in Rows : tx[q][n] = Unwritten
<1>1. pc[q] = "idle"
  BY DEF Serial, OneAtATime
<1>2. \A n \in Rows : tx[q][n] = RowWritten(db, "idle", ctx[q], n)
  BY <1>1 DEF Serial, Consistent
<1>3. \A n \in Rows : RowWritten(db, "idle", ctx[q], n) = Unwritten
  BY NothingWritten
<1> QED BY <1>1, <1>2, <1>3

LEMMA Here ==
    ASSUME TypeInv, Serial, NEW r \in Requests, pc[r] \notin Ending
    PROVE  /\ OnItsWay(db, pc[r], ctx[r])
           /\ \A n \in Rows : tx[r][n] = RowWritten(db, pc[r], ctx[r], n)
BY DEF Serial, Consistent

\* A step of one request that leaves the committed rows alone.
LEMMA Advance ==
    ASSUME TypeInv, Serial, NEW r \in Requests,
           pc[r] # "idle" \/ Active = {},
           NEW label, NEW l,
           GoTo(r, label), ctx' = [ctx EXCEPT ![r] = l],
           \A q \in Requests \ {r} : tx'[q] = tx[q],
           UNCHANGED db, Consistent(db, label, l, tx'[r])
    PROVE  Serial'
<1>1. /\ pc'[r] = label /\ ctx'[r] = l
      /\ \A q \in Requests \ {r} : pc'[q] = pc[q] /\ ctx'[q] = ctx[q] /\ tx'[q] = tx[q]
  BY DEF TypeInv, ControlOK, GoTo
<1>2. \A q \in Requests \ {r} : pc[q] = "idle"
  BY Alone DEF Active
<1>3. OneAtATime'
  BY <1>1, <1>2 DEF OneAtATime
<1>4. \A q \in Requests : Consistent(db, pc'[q], ctx'[q], tx'[q])
  BY <1>1 DEF Serial
<1> QED BY <1>3, <1>4 DEF Serial

\* A step that writes no row.
LEMMA StillConsistent ==
    ASSUME TypeInv, Serial, NEW r \in Requests, pc[r] \notin Ending, UNCHANGED tx,
           NEW label, NEW l, OnItsWay(db, label, l),
           \A n \in Rows : RowWritten(db, label, l, n) = RowWritten(db, pc[r], ctx[r], n)
    PROVE  Consistent(db, label, l, tx'[r])
BY Here DEF Consistent

LEMMA RaiseSerial ==
    ASSUME TypeInv, Serial, NEW r \in Requests, pc[r] # "idle", Raise(r)
    PROVE  Serial'
<1>1. ctx' = [ctx EXCEPT ![r] = ctx[r]] /\ UNCHANGED db
  BY DEF Raise, TypeInv, ControlOK
<1>2. CASE GoTo(r, "discardBundle") /\ UNCHANGED tx
  <2>1. Consistent(db, "discardBundle", ctx[r], tx'[r])
    BY DEF Consistent
  <2> QED BY <1>1, <1>2, <2>1, Advance
<1>3. CASE GoTo(r, "compensate") /\ Rollback(r)
  <2>1. tx'[r] = NoWrites /\ \A q \in Requests \ {r} : tx'[q] = tx[q]
    BY <1>3 DEF Rollback, TypeInv, TxOK
  <2>2. Consistent(db, "compensate", ctx[r], NoWrites)
    BY NothingWritten DEF Consistent, NoWrites
  <2> QED BY <1>1, <1>3, <2>1, <2>2, Advance
<1> QED BY <1>2, <1>3 DEF Raise

LEMMA FinishSerial ==
    ASSUME TypeInv, Serial, NEW r \in Requests, pc[r] \in {"compensate", "removeRestored"},
           Finish(r), UNCHANGED <<db, tx>>
    PROVE  Serial'
<1>1. \A n \in Rows : tx[r][n] = Unwritten
  BY NothingWritten DEF Serial, Consistent
<1>2. Consistent(db, "idle", NoContext, tx[r])
  BY <1>1, NothingWritten DEF Consistent
<1> QED BY <1>2, Advance DEF Finish

\* A request that ends without its commit.
LEMMA AbortSerial ==
    ASSUME TypeInv, Serial, NEW r \in Requests, pc[r] # "idle",
           Finish(r), Rollback(r), UNCHANGED db
    PROVE  Serial'
<1>1. tx'[r] = NoWrites /\ \A q \in Requests \ {r} : tx'[q] = tx[q]
  BY DEF Rollback, TypeInv, TxOK
<1>2. Consistent(db, "idle", NoContext, NoWrites)
  BY NothingWritten DEF Consistent, NoWrites
<1> QED BY <1>1, <1>2, Advance DEF Finish

LEMMA FaultSerial ==
    ASSUME TypeInv, Serial, NEW r \in Requests, Fault(r)
    PROVE  Serial'
<1>1. CASE CallFails(r)
  BY <1>1, RaiseSerial DEF CallFails
<1>2. CASE TornWrite(r)
  <2>1. pc[r] # "idle" /\ Finish(r) /\ Rollback(r) /\ UNCHANGED db
    BY <1>2 DEF TornWrite, At
  <2> QED BY <2>1, AbortSerial
<1>3. CASE UndoFails(r)
  <2>1. pc[r] # "idle" /\ Finish(r) /\ Rollback(r) /\ UNCHANGED db
    BY <1>3 DEF UndoFails, At
  <2> QED BY <2>1, AbortSerial
<1> QED BY <1>1, <1>2, <1>3 DEF Fault

(***************************************************************************)
(* Each action preserves Serial, as long as no second request is let in.   *)
(***************************************************************************)
LEMMA NoneActive ==
    ASSUME MaxActive = 1, IsFiniteSet(Requests), Cardinality(Active) < MaxActive
    PROVE  Active = {}
<1>1. IsFiniteSet(Active)
  BY FS_Subset DEF Active
<1>2. Cardinality(Active) \in Nat
  BY <1>1, FS_CardinalityType
<1>3. Cardinality(Active) = 0
  BY <1>2
<1> QED BY <1>1, <1>3, FS_EmptySet

LEMMA BeginSerial ==
    ASSUME MaxActive = 1, IsFiniteSet(Requests), TypeInv, Serial, NEW r \in Requests,
           NEW label, NEW l, OnItsWay(db, label, l), Begin(r, label, l),
           \A n \in Rows : RowWritten(db, label, l, n) = Unwritten
    PROVE  Serial'
<1>1. Active = {}
  BY NoneActive DEF Begin
<1>2. UNCHANGED <<db, tx>>
  BY DEF Begin, stores
<1>3. \A n \in Rows : tx[r][n] = Unwritten
  BY NothingWritten DEF Serial, Consistent, Begin, At
<1>4. Consistent(db, label, l, tx[r])
  BY <1>3 DEF Consistent
<1> QED BY <1>1, <1>2, <1>4, Advance DEF Begin

LEMMA ArriveSerial ==
    ASSUME MaxActive = 1, IsFiniteSet(Requests), TypeInv, Serial, NEW r \in Requests, Arrive(r)
    PROVE  Serial'
<1>1. ASSUME SaveDraft(r) PROVE Serial'
  <2>1. PICK p \in EditorPayloads :
            Begin(r, "selectSnapshot", [NoContext EXCEPT !.op = "saveDraft", !.next = RowOf(p)])
    BY <1>1 DEF SaveDraft
  <2> DEFINE l == [NoContext EXCEPT !.op = "saveDraft", !.next = RowOf(p)]
  <2>2. l.op = "saveDraft" /\ l.next = RowOf(p)
    BY DEF NoContext
  <2>4. Begin(r, "selectSnapshot", l)
    BY <2>1
  <2> HIDE DEF l
  <2>5. OnItsWay(db, "selectSnapshot", l)
    BY <2>1, <2>2 DEF OnItsWay, Path, Reads, Seen
  <2>6. \A n \in Rows : RowWritten(db, "selectSnapshot", l, n) = Unwritten
    BY <2>1, <2>2 DEF RowWritten, Inserted, Dropped, Saved, Staged, StateRowWritten, Repointed, Reviewed
  <2> QED BY <2>4, <2>5, <2>6, BeginSerial
<1>2. ASSUME Publish(r) PROVE Serial'
  <2>1. PICK b \in Backups :
            FreshBackup(b) /\ Begin(r, "readDraft", [NoContext EXCEPT !.op = "publish", !.backup = b])
    BY <1>2 DEF Publish
  <2> DEFINE l == [NoContext EXCEPT !.op = "publish", !.backup = b]
  <2>2. l.op = "publish" /\ l.backup = b /\ l.source = None
    BY DEF NoContext
  <2>3. ReadBacking(db, "readDraft", l) /\ ReadPublish(db, "readDraft", l)
    BY <2>1, <2>2 DEF ReadBacking, ReadPublish, FreshBackup
  <2>4. Begin(r, "readDraft", l)
    BY <2>1
  <2> HIDE DEF l
  <2>5. OnItsWay(db, "readDraft", l)
    BY <2>1, <2>2, <2>3 DEF OnItsWay, Path, Reads, Seen
  <2>6. \A n \in Rows : RowWritten(db, "readDraft", l, n) = Unwritten
    BY <2>1, <2>2, <2>3 DEF RowWritten, Inserted, Dropped, Saved, Staged, StateRowWritten, Repointed, Reviewed
  <2> QED BY <2>4, <2>5, <2>6, BeginSerial
<1>3. ASSUME CreateBackup(r) PROVE Serial'
  <2>1. PICK b \in Backups, k \in Kinds :
            /\ FreshBackup(b)
            /\ Begin(r, "readSource",
                     [NoContext EXCEPT !.op = "createBackup", !.backup = b, !.kind = k])
    BY <1>3 DEF CreateBackup
  <2> DEFINE l == [NoContext EXCEPT !.op = "createBackup", !.backup = b, !.kind = k]
  <2>2. l.op = "createBackup" /\ l.backup = b /\ l.source = None
    BY DEF NoContext
  <2>3. ReadBacking(db, "readSource", l)
    BY <2>1, <2>2 DEF ReadBacking, FreshBackup
  <2>4. Begin(r, "readSource", l)
    BY <2>1
  <2> HIDE DEF l
  <2>5. OnItsWay(db, "readSource", l)
    BY <2>1, <2>2, <2>3 DEF OnItsWay, Path, Reads, Seen
  <2>6. \A n \in Rows : RowWritten(db, "readSource", l, n) = Unwritten
    BY <2>1, <2>2, <2>3 DEF RowWritten, Inserted, Dropped, Saved, Staged, StateRowWritten, Repointed, Reviewed
  <2> QED BY <2>4, <2>5, <2>6, BeginSerial
<1>4. ASSUME DeleteBackup(r) PROVE Serial'
  <2>1. PICK b \in Backups :
            /\ db[b] # None
            /\ Begin(r, "readBackup", [NoContext EXCEPT !.op = "deleteBackup", !.victim = b])
    BY <1>4 DEF DeleteBackup
  <2> DEFINE l == [NoContext EXCEPT !.op = "deleteBackup", !.victim = b]
  <2>2. l.op = "deleteBackup" /\ l.victim = b
    BY DEF NoContext
  <2>4. Begin(r, "readBackup", l)
    BY <2>1
  <2> HIDE DEF l
  <2>5. OnItsWay(db, "readBackup", l)
    BY <2>1, <2>2 DEF OnItsWay, Path, Reads, Seen
  <2>6. \A n \in Rows : RowWritten(db, "readBackup", l, n) = Unwritten
    BY <2>1, <2>2 DEF RowWritten, Inserted, Dropped, Saved, Staged, StateRowWritten, Repointed, Reviewed
  <2> QED BY <2>4, <2>5, <2>6, BeginSerial
<1>5. ASSUME UploadAsset(r) PROVE Serial'
  <2>1. PICK a \in Assets :
            Begin(r, "writeAsset", [NoContext EXCEPT !.op = "uploadAsset", !.asset = a])
    BY <1>5 DEF UploadAsset
  <2> DEFINE l == [NoContext EXCEPT !.op = "uploadAsset", !.asset = a]
  <2>2. l.op = "uploadAsset"
    BY DEF NoContext
  <2>4. Begin(r, "writeAsset", l)
    BY <2>1
  <2> HIDE DEF l
  <2>5. OnItsWay(db, "writeAsset", l)
    BY <2>1, <2>2 DEF OnItsWay, Path, Reads, Seen
  <2>6. \A n \in Rows : RowWritten(db, "writeAsset", l, n) = Unwritten
    BY <2>1, <2>2 DEF RowWritten, Inserted, Dropped, Saved, Staged, StateRowWritten, Repointed, Reviewed
  <2> QED BY <2>4, <2>5, <2>6, BeginSerial
<1>6. ASSUME DeleteAsset(r) PROVE Serial'
  <2>1. PICK a \in assets :
            Begin(r, "checkDraft", [NoContext EXCEPT !.op = "deleteAsset", !.asset = a])
    BY <1>6 DEF DeleteAsset
  <2> DEFINE l == [NoContext EXCEPT !.op = "deleteAsset", !.asset = a]
  <2>2. l.op = "deleteAsset" /\ ReadAssetUse(db, "checkDraft", l)
    BY DEF NoContext, ReadAssetUse
  <2>4. Begin(r, "checkDraft", l)
    BY <2>1
  <2> HIDE DEF l
  <2>5. OnItsWay(db, "checkDraft", l)
    BY <2>1, <2>2 DEF OnItsWay, Path, Reads, Seen
  <2>6. \A n \in Rows : RowWritten(db, "checkDraft", l, n) = Unwritten
    BY <2>1, <2>2 DEF RowWritten, Inserted, Dropped, Saved, Staged, StateRowWritten, Repointed, Reviewed
  <2> QED BY <2>4, <2>5, <2>6, BeginSerial
<1>7. ASSUME StageImport(r) PROVE Serial'
  <2>1. PICK c \in Candidates, d \in Documents :
            /\ FreshCandidate(c)
            /\ Begin(r, "writeCandidate",
                     [NoContext EXCEPT !.op = "stageImport", !.cand = c, !.document = d])
    BY <1>7 DEF StageImport
  <2> DEFINE l == [NoContext EXCEPT !.op = "stageImport", !.cand = c, !.document = d]
  <2>2. l.op = "stageImport" /\ l.cand = c /\ l.document = d
    BY DEF NoContext
  <2>3. ReadStage(db, "writeCandidate", l)
    BY <2>1, <2>2 DEF ReadStage, FreshCandidate
  <2>4. Begin(r, "writeCandidate", l)
    BY <2>1
  <2> HIDE DEF l
  <2>5. OnItsWay(db, "writeCandidate", l)
    BY <2>1, <2>2, <2>3 DEF OnItsWay, Path, Reads, Seen
  <2>6. \A n \in Rows : RowWritten(db, "writeCandidate", l, n) = Unwritten
    BY <2>1, <2>2, <2>3 DEF RowWritten, Inserted, Dropped, Saved, Staged, StateRowWritten, Repointed, Reviewed
  <2> QED BY <2>4, <2>5, <2>6, BeginSerial
<1>8. ASSUME ApplyImport(r) PROVE Serial'
  <2>1. PICK b \in Backups, c \in Candidates, selection \in Selections :
            /\ FreshBackup(b)
            /\ db[c] # None
            /\ Begin(r, "readCandidate",
                     [NoContext EXCEPT !.op = "applyImport", !.backup = b, !.cand = c,
                                       !.selection = selection])
    BY <1>8 DEF ApplyImport
  <2> DEFINE l == [NoContext EXCEPT !.op = "applyImport", !.backup = b, !.cand = c,
                                    !.selection = selection]
  <2>2. /\ l.op = "applyImport" /\ l.backup = b /\ l.cand = c /\ l.selection = selection
        /\ l.source = None
    BY DEF NoContext
  <2>3. ReadBacking(db, "readCandidate", l) /\ ReadImport(db, "readCandidate", l)
    BY <2>1, <2>2 DEF ReadBacking, ReadImport, FreshBackup
  <2>4. Begin(r, "readCandidate", l)
    BY <2>1
  <2> HIDE DEF l
  <2>5. OnItsWay(db, "readCandidate", l)
    BY <2>1, <2>2, <2>3 DEF OnItsWay, Path, Reads, Seen
  <2>6. \A n \in Rows : RowWritten(db, "readCandidate", l, n) = Unwritten
    BY <2>1, <2>2, <2>3 DEF RowWritten, Inserted, Dropped, Saved, Staged, StateRowWritten, Repointed, Reviewed
  <2> QED BY <2>4, <2>5, <2>6, BeginSerial
<1> QED BY <1>1, <1>2, <1>3, <1>4, <1>5, <1>6, <1>7, <1>8 DEF Arrive

\* A step that changes no local variable and writes no row.
LEMMA GoOn ==
    ASSUME TypeInv, Serial, NEW r \in Requests, pc[r] \notin Ending,
           NEW label, OnItsWay(db, label, ctx[r]), GoTo(r, label), UNCHANGED <<db, tx, ctx>>,
           \A n \in Rows : RowWritten(db, label, ctx[r], n) = RowWritten(db, pc[r], ctx[r], n)
    PROVE  Serial'
<1>1. ctx' = [ctx EXCEPT ![r] = ctx[r]]
  BY DEF TypeInv, ControlOK
<1>2. \A n \in Rows : tx'[r][n] = RowWritten(db, label, ctx[r], n)
  BY Here
<1>3. Consistent(db, label, ctx[r], tx'[r])
  BY <1>2 DEF Consistent
<1> QED BY <1>1, <1>3, Advance

\* A step that writes one row.
LEMMA WriteOn ==
    ASSUME TypeInv, Serial, NEW r \in Requests, pc[r] \notin Ending,
           NEW label, OnItsWay(db, label, ctx[r]), GoTo(r, label), UNCHANGED <<db, ctx>>,
           NEW m \in Rows, NEW row, Write(r, m, row),
           RowWritten(db, label, ctx[r], m) = row,
           \A n \in Rows \ {m} :
              RowWritten(db, label, ctx[r], n) = RowWritten(db, pc[r], ctx[r], n)
    PROVE  Serial'
<1>1. ctx' = [ctx EXCEPT ![r] = ctx[r]]
  BY DEF TypeInv, ControlOK
<1>2. /\ \A q \in Requests \ {r} : tx'[q] = tx[q]
      /\ tx'[r] = [tx[r] EXCEPT ![m] = row]
  BY DEF Write, TypeInv, TxOK
<1>3. tx'[r][m] = row /\ \A n \in Rows \ {m} : tx'[r][n] = tx[r][n]
  BY <1>2 DEF TypeInv, TxOK
<1>4. \A n \in Rows : tx'[r][n] = RowWritten(db, label, ctx[r], n)
  BY <1>3, Here
<1>5. Consistent(db, label, ctx[r], tx'[r])
  BY <1>4 DEF Consistent
<1> QED BY <1>1, <1>2, <1>5, Advance

LEMMA RowNames ==
    /\ \A b \in Backups : b \notin Kinds \cup Candidates \cup {"state", None}
    /\ \A c \in Candidates : c \notin Kinds \cup {"state", None}
    /\ "state" \notin Kinds
BY RowsAssumption DEF Kinds

LEMMA RowTargets == \A op : Target(op) \in Kinds
BY DEF Target, Kinds

\* The committed state row, or what stands for it while there is none.
LEMMA StateNowType ==
    ASSUME TypeInv
    PROVE  /\ StateNow(db) \in StateRow
           /\ db["state"] # None => db["state"] \in StateRow /\ StateNow(db) = db["state"]
BY RowTypes DEF TypeInv, DbOK, StateNow, NoState, StateRow

(***************************************************************************)
(* What stays true of a request's local variables from label to label.     *)
(***************************************************************************)
SameLocals(l, m) ==
    /\ l.op = m.op /\ l.kind = m.kind /\ l.next = m.next /\ l.source = m.source
    /\ l.backup = m.backup /\ l.victim = m.victim /\ l.cand = m.cand
    /\ l.document = m.document /\ l.selection = m.selection

\* The labels from which on nothing more is read that the commit depends on.
PastReading ==
    BackupLabels \cup RestoreLabels \cup SnapshotLabels \cup ReviewLabels \cup {"commit"}

LEMMA ReadsOn ==
    ASSUME NEW d, NEW m, NEW l, SameLocals(l, m), NEW from \in PastReading, NEW to \in PastReading,
           from \in Path(m.op), Reads(d, from, m)
    PROVE  Reads(d, to, l)
<1>1. SourceKind(l) = SourceKind(m)
  BY DEF SourceKind, SameLocals
<1>2. m.op \in BackingOps => ReadBacking(d, to, l)
  BY <1>1 DEF Reads, ReadBacking, SameLocals, PastReading
<1>3. m.op = "publish" => ReadPublish(d, to, l)
  BY DEF Reads, ReadPublish, SameLocals, PastReading
<1>4. m.op = "applyImport" => ReadImport(d, to, l)
  BY DEF Reads, ReadImport, SameLocals, PastReading
<1>5. m.op = "stageImport" => ReadStage(d, to, l)
  BY DEF Reads, ReadStage, SameLocals, PastReading, Path
<1>6. ReadAssetUse(d, to, l)
  BY DEF ReadAssetUse, PastReading
<1> QED BY <1>2, <1>3, <1>4, <1>5, <1>6 DEF Reads, SameLocals

LEMMA SameWrites ==
    ASSUME NEW d, NEW label, NEW m, NEW l, SameLocals(l, m)
    PROVE  /\ StateRowWritten(d, label, l) = StateRowWritten(d, label, m)
           /\ \A n : RowWritten(d, label, l, n) = RowWritten(d, label, m, n)
<1>1. /\ Inserted(label, l) = Inserted(label, m) /\ Repointed(label, l) = Repointed(label, m)
      /\ Dropped(label, l) = Dropped(label, m) /\ Saved(label, l) = Saved(label, m)
      /\ Staged(label, l) = Staged(label, m) /\ Reviewed(label, l) = Reviewed(label, m)
  BY DEF SameLocals, Inserted, Repointed, Dropped, Saved, Staged, Reviewed
<1>2. StateRowWritten(d, label, l) = StateRowWritten(d, label, m)
  BY <1>1 DEF SameLocals, StateRowWritten
<1> QED BY <1>1, <1>2 DEF SameLocals, RowWritten

LEMMA BackupReadSerial ==
    ASSUME TypeInv, Serial, NEW r \in Requests,
           ReadDraftToPublish(r) \/ ReadPublished(r) \/ ReadSource(r)
    PROVE  Serial'
<1> DEFINE label == pc[r]
<1>1. label \in {"readDraft", "readPublished", "readSource"}
  BY DEF ReadDraftToPublish, ReadPublished, ReadSource, At
<1>2. /\ label \in Path(ctx[r].op) /\ Reads(db, label, ctx[r])
      /\ ctx[r] \in Context /\ Locals(label, ctx[r])
  BY <1>1, Here, Local DEF OnItsWay
<1>3. ctx[r].op \in BackingOps /\ ReadBacking(db, label, ctx[r])
  BY <1>1, <1>2 DEF Locals, Reads
<1>4. \A l : \A n \in Rows : RowWritten(db, label, l, n) = Unwritten
  BY <1>1 DEF RowWritten, Inserted, Dropped, Saved, Staged, StateRowWritten, Repointed, Reviewed
<1>5. CASE Raise(r)
  BY <1>1, <1>5, RaiseSerial
<1>6. ASSUME ReadDraftToPublish(r), ~Raise(r) PROVE Serial'
  <2> DEFINE l == [ctx[r] EXCEPT !.next = db["draft"]]
  <2>1. /\ ctx[r].op = "publish" /\ db["draft"] # None /\ label = "readDraft"
        /\ ctx' = [ctx EXCEPT ![r] = l] /\ GoTo(r, "readPublished") /\ UNCHANGED stores
    BY <1>6 DEF ReadDraftToPublish, At
  <2>2. /\ l.op = "publish" /\ l.next = db["draft"] /\ l.source = ctx[r].source
        /\ l.backup = ctx[r].backup
    BY <1>2, <2>1 DEF Context
  <2> HIDE DEF l
  <2>3. ReadBacking(db, "readPublished", l) /\ ReadPublish(db, "readPublished", l)
    BY <1>3, <2>1, <2>2 DEF ReadBacking, ReadPublish
  <2>4. OnItsWay(db, "readPublished", l)
    BY <2>2, <2>3 DEF OnItsWay, Path, Reads, Seen
  <2>5. \A n \in Rows : RowWritten(db, "readPublished", l, n) = Unwritten
    BY DEF RowWritten, Inserted, Dropped, Saved, Staged, StateRowWritten, Repointed, Reviewed
  <2>6. Consistent(db, "readPublished", l, tx'[r])
    BY <1>1, <1>4, <2>1, <2>4, <2>5, StillConsistent DEF stores
  <2> QED BY <1>1, <2>1, <2>6, Advance DEF stores
<1>7. ASSUME NEW row, row \in SnapshotRow, row = db[SourceKind(ctx[r])],
             ctx[r].op \in {"publish", "createBackup"}, label # "readDraft",
             ctx' = [ctx EXCEPT ![r] = Backing(r, row)], GoTo(r, "bundleAssets"), UNCHANGED stores
      PROVE  Serial'
  <2> DEFINE l == Backing(r, row)
  <2>1. /\ l.op = ctx[r].op /\ l.next = ctx[r].next /\ l.source = row
        /\ l.backup = ctx[r].backup /\ l.kind = ctx[r].kind
    BY <1>2 DEF Context, Backing
  <2> HIDE DEF l
  <2>2. SourceKind(l) = SourceKind(ctx[r])
    BY <2>1 DEF SourceKind
  <2>3. ReadBacking(db, "bundleAssets", l)
    BY <1>3, <1>7, <2>1, <2>2, RowsAssumption DEF ReadBacking
  <2>4. l.op = "publish" => ReadPublish(db, "bundleAssets", l)
    BY <1>2, <1>7, <2>1 DEF Reads, ReadPublish
  <2>5. OnItsWay(db, "bundleAssets", l)
    BY <1>7, <2>1, <2>3, <2>4 DEF OnItsWay, Path, Reads, Seen
  <2>6. \A n \in Rows : RowWritten(db, "bundleAssets", l, n) = Unwritten
    BY DEF RowWritten, Inserted, Dropped, Saved, Staged, StateRowWritten, Repointed, Reviewed
  <2>7. ctx' = [ctx EXCEPT ![r] = l]
    BY <1>7 DEF l
  <2>8. Consistent(db, "bundleAssets", l, tx'[r])
    BY <1>1, <1>4, <1>7, <2>5, <2>6, StillConsistent DEF stores
  <2> QED BY <1>1, <1>7, <2>7, <2>8, Advance DEF stores
<1>8. ASSUME ReadPublished(r) PROVE Serial'
  <2>1. label = "readPublished" /\ ctx[r].op = "publish"
    BY <1>2, <1>8 DEF ReadPublished, At, Locals
  <2>2. CASE db["published"] = None
    <3>1. GoTo(r, "selectSnapshot") /\ UNCHANGED <<stores, ctx>>
      BY <1>8, <2>2 DEF ReadPublished
    <3>2. ReadBacking(db, "selectSnapshot", ctx[r]) /\ ReadPublish(db, "selectSnapshot", ctx[r])
      BY <1>2, <1>3, <2>1, <2>2 DEF Reads, ReadBacking, ReadPublish, SourceKind
    <3>3. OnItsWay(db, "selectSnapshot", ctx[r])
      BY <2>1, <3>2 DEF OnItsWay, Path, Reads, Seen
    <3>4. ctx[r].source = None
      BY <1>3, <2>1 DEF ReadBacking
    <3>5. \A n \in Rows : RowWritten(db, "selectSnapshot", ctx[r], n) = Unwritten
      BY <2>1, <3>4 DEF RowWritten, Inserted, Dropped, Saved, Staged, StateRowWritten, Repointed, Reviewed
    <3> QED BY <1>1, <1>4, <3>1, <3>3, <3>5, GoOn DEF stores
  <2>3. CASE db["published"] # None
    <3>1. db["published"] \in SnapshotRow
      BY <2>3, RowTypes DEF TypeInv, DbOK, Kinds
    <3>2. SourceKind(ctx[r]) = "published"
      BY <2>1 DEF SourceKind
    <3> QED BY <1>8, <1>7, <2>1, <2>3, <3>1, <3>2 DEF ReadPublished
  <2> QED BY <2>2, <2>3
<1>9. ASSUME ReadSource(r), ~Raise(r) PROVE Serial'
  <2>1. label = "readSource" /\ ctx[r].op = "createBackup"
    BY <1>2, <1>9 DEF ReadSource, At, Locals
  <2>2. db[ctx[r].kind] \in SnapshotRow
    BY <1>2, <1>9, RowTypes DEF ReadSource, TypeInv, DbOK, Context
  <2>3. SourceKind(ctx[r]) = ctx[r].kind
    BY <2>1 DEF SourceKind
  <2> QED BY <1>7, <1>9, <2>1, <2>2, <2>3 DEF ReadSource
<1> QED BY <1>5, <1>6, <1>8, <1>9

LEMMA BackupWriteSerial ==
    ASSUME TypeInv, Serial, NEW r \in Requests,
           BundleAsset(r) \/ WriteBundle(r) \/ InsertBackup(r)
    PROVE  Serial'
<1> DEFINE label == pc[r]
<1>1. label \in {"bundleAssets", "writeBundle", "insertBackup"}
  BY DEF BundleAsset, WriteBundle, InsertBackup, At
<1>2. /\ label \in Path(ctx[r].op) /\ Reads(db, label, ctx[r])
      /\ ctx[r] \in Context /\ Locals(label, ctx[r])
  BY <1>1, Here, Local DEF OnItsWay
<1>3. ctx[r].op \in BackingOps /\ ctx[r].source # None /\ ctx[r].backup \in Backups
  BY <1>1, <1>2, RowsAssumption DEF Locals
<1>4. CASE Raise(r)
  BY <1>1, <1>4, RaiseSerial
\* What was read stays true on the way to the label past the INSERT.
<1>5. ASSUME NEW l, SameLocals(l, ctx[r]),
             NEW to \in {"bundleAssets", "writeBundle", "insertBackup", "pointSelect"}
      PROVE  OnItsWay(db, to, l)
  <2>1. l.op \in BackingOps
    BY <1>3, <1>5 DEF SameLocals
  <2>2. Reads(db, to, l)
    BY <1>1, <1>2, <1>5, ReadsOn DEF PastReading
  <2> QED BY <2>1, <2>2 DEF OnItsWay, Path, Seen
<1>6. \A l : \A n \in Rows : \A from \in {"bundleAssets", "writeBundle", "insertBackup"} :
          RowWritten(db, from, l, n) = Unwritten
  BY DEF RowWritten, Inserted, Dropped, Saved, Staged, StateRowWritten, Repointed, Reviewed
<1>7. ASSUME NEW to \in {"writeBundle", "insertBackup"}, GoTo(r, to), UNCHANGED <<db, tx, ctx>>
      PROVE  Serial'
  <2>1. OnItsWay(db, to, ctx[r])
    BY <1>2, <1>5 DEF SameLocals
  <2> QED BY <1>1, <1>6, <1>7, <2>1, GoOn
<1>8. ASSUME NEW a \in ctx[r].todo \cap assets, label = "bundleAssets",
             ctx' = [ctx EXCEPT ![r].todo = @ \ {a}], UNCHANGED <<stores, pc>>
      PROVE  Serial'
  <2> DEFINE l == [ctx[r] EXCEPT !.todo = @ \ {a}]
  <2>1. SameLocals(l, ctx[r])
    BY <1>2 DEF Context, SameLocals
  <2>2. ctx' = [ctx EXCEPT ![r] = l] /\ GoTo(r, "bundleAssets")
    BY <1>8 DEF GoTo, TypeInv, ControlOK
  <2> HIDE DEF l
  <2>3. OnItsWay(db, "bundleAssets", l)
    BY <1>5, <2>1
  <2>4. Consistent(db, "bundleAssets", l, tx'[r])
    BY <1>1, <1>6, <1>8, <2>3, StillConsistent DEF stores
  <2> QED BY <1>1, <1>8, <2>2, <2>4, Advance DEF stores
<1>9. ASSUME InsertBackup(r) PROVE Serial'
  <2>1. /\ label = "insertBackup" /\ Write(r, ctx[r].backup, ctx[r].source)
        /\ GoTo(r, "pointSelect") /\ UNCHANGED <<db, ctx>>
    BY <1>9 DEF InsertBackup, At
  <2>2. OnItsWay(db, "pointSelect", ctx[r])
    BY <1>2, <1>5 DEF SameLocals
  <2>3. ctx[r].backup \in Rows
    BY <1>3, RowTypes
  <2>4. /\ RowWritten(db, "pointSelect", ctx[r], ctx[r].backup) = ctx[r].source
        /\ \A n \in Rows \ {ctx[r].backup} : RowWritten(db, "pointSelect", ctx[r], n) = Unwritten
    BY <1>3 DEF RowWritten, Inserted, Dropped, Saved, Staged, StateRowWritten, Repointed, Reviewed
  <2> QED BY <1>1, <1>6, <2>1, <2>2, <2>3, <2>4, WriteOn
<1> QED BY <1>1, <1>4, <1>7, <1>8, <1>9
        DEF BundleAsset, WriteBundle, InsertBackup, At, stores

(***************************************************************************)
(* The state row in a request's transaction.                               *)
(***************************************************************************)
LEMMA WrittenState ==
    ASSUME NEW d, NEW label, NEW l, OnItsWay(d, label, l)
    PROVE  RowWritten(d, label, l, "state") = StateRowWritten(d, label, l)
<1>1. /\ Inserted(label, l) => l.backup \in Backups
      /\ Dropped(label, l) => l.victim \in Backups
      /\ Staged(label, l) => l.cand \in Candidates
  BY DEF OnItsWay, Reads, ReadBacking, ReadStage, Inserted, Dropped, Staged
<1>2. Target(l.op) # "state"
  BY RowNames, RowTargets
<1> QED BY <1>1, <1>2, RowNames DEF RowWritten

LEMMA StateView ==
    ASSUME TypeInv, Serial, NEW r \in Requests, pc[r] \notin Ending
    PROVE  View(r, "state") = IF StateRowWritten(db, pc[r], ctx[r]) = Unwritten
                              THEN db["state"]
                              ELSE StateRowWritten(db, pc[r], ctx[r])
BY Here, WrittenState, RowTypes DEF View

\* The flush of the state row writes what StateRowWritten says; the INSERT is
\* never refused.
LEMMA FlushStateSerial ==
    ASSUME TypeInv, Serial, NEW r \in Requests, NEW from \in ReviewLabels \cup {"pointFlush"}, NEW to,
           NEW state, pc[r] = from, FlushState(r, from, to, state),
           OnItsWay(db, to, ctx[r]), StateRowWritten(db, to, ctx[r]) = state,
           \A n \in Rows \ {"state"} :
              RowWritten(db, to, ctx[r], n) = RowWritten(db, from, ctx[r], n)
    PROVE  Serial'
<1>1. CASE Raise(r)
  BY <1>1, RaiseSerial
<1>2. CASE Write(r, "state", state) /\ GoTo(r, to) /\ UNCHANGED <<db, files, ctx>>
  <2>1. RowWritten(db, to, ctx[r], "state") = state
    BY WrittenState
  <2> QED BY <1>2, <2>1, RowTypes, WriteOn
<1> QED BY <1>1, <1>2 DEF FlushState

LEMMA SelectStateSerial ==
    ASSUME TypeInv, Serial, NEW r \in Requests, NEW from, NEW to, pc[r] = from, from \notin Ending,
           SelectState(r, from, to),
           \A l : SameLocals(l, ctx[r]) /\ l.seen = View(r, "state") => OnItsWay(db, to, l),
           \A n \in Rows : RowWritten(db, to, ctx[r], n) = RowWritten(db, from, ctx[r], n)
    PROVE  Serial'
<1> DEFINE l == [ctx[r] EXCEPT !.seen = View(r, "state")]
<1>1. SameLocals(l, ctx[r]) /\ l.seen = View(r, "state")
  BY Local DEF SameLocals, Context
<1>2. ctx' = [ctx EXCEPT ![r] = l] /\ GoTo(r, to) /\ UNCHANGED stores
  BY DEF SelectState, TypeInv, ControlOK
<1> HIDE DEF l
<1>3. OnItsWay(db, to, l)
  BY <1>1
<1>4. \A n \in Rows : RowWritten(db, to, l, n) = RowWritten(db, from, ctx[r], n)
  BY <1>1, SameWrites, SMTT(30)
<1>5. Consistent(db, to, l, tx'[r])
  BY <1>2, <1>3, <1>4, StillConsistent DEF stores
<1> QED BY <1>2, <1>5, Advance DEF stores

LEMMA PointSerial ==
    ASSUME TypeInv, Serial, NEW r \in Requests, PointSelect(r) \/ PointFlush(r)
    PROVE  Serial'
<1> DEFINE label == pc[r]
<1>1. label \in {"pointSelect", "pointFlush"}
  BY DEF PointSelect, PointFlush, SelectState, FlushState, At
<1>2. /\ OnItsWay(db, label, ctx[r]) /\ label \in Path(ctx[r].op) /\ Reads(db, label, ctx[r])
      /\ Seen(db, label, ctx[r]) /\ ctx[r] \in Context /\ Locals(label, ctx[r])
  BY <1>1, Here, Local DEF OnItsWay
<1>3. ctx[r].op \in BackingOps /\ ctx[r].backup \in Backups /\ ctx[r].source # None
  BY <1>1, <1>2, RowsAssumption DEF Locals
<1>4. StateRowWritten(db, label, ctx[r]) = Unwritten /\ View(r, "state") = db["state"]
  <2>1. StateRowWritten(db, label, ctx[r]) = Unwritten
    BY <1>1, <1>3 DEF StateRowWritten, Repointed, Reviewed, Dropped
  <2> QED BY <1>1, <2>1, StateView
<1>5. ASSUME PointSelect(r) PROVE Serial'
  <2>1. label = "pointSelect"
    BY <1>5 DEF PointSelect, SelectState, At
  <2>2. ASSUME NEW l, SameLocals(l, ctx[r]), l.seen = View(r, "state")
        PROVE  OnItsWay(db, "pointFlush", l)
    <3>1. Reads(db, "pointFlush", l)
      BY <1>2, <2>1, <2>2, ReadsOn DEF PastReading
    <3> QED BY <1>3, <1>4, <2>2, <3>1 DEF OnItsWay, Path, Seen, SameLocals
  <2>3. \A n \in Rows : RowWritten(db, "pointFlush", ctx[r], n) = RowWritten(db, "pointSelect", ctx[r], n)
    BY <1>3 DEF RowWritten, Inserted, Dropped, Saved, Staged, StateRowWritten, Repointed, Reviewed
  <2> QED BY <1>5, <2>1, <2>2, <2>3, SelectStateSerial DEF PointSelect
<1>6. ASSUME PointFlush(r) PROVE Serial'
  <2> DEFINE to == AfterBackup(ctx[r].op)
             state == [StateBefore(r) EXCEPT !.current = ctx[r].backup]
  <2>1. label = "pointFlush"
    BY <1>6 DEF PointFlush, FlushState, At
  <2>2. to \in {"selectSnapshot", "probeAsset", "commit"} /\ to \in Path(ctx[r].op)
    BY <1>3 DEF AfterBackup, Path
  <2>3. StateBefore(r) = StateNow(db) /\ StateNow(db) \in StateRow
    BY <1>2, <1>4, <2>1, StateNowType DEF StateBefore, StateNow, Seen
  <2>4. state = [current |-> ctx[r].backup, pending |-> StateNow(db).pending]
    BY <2>3 DEF StateRow
  <2>5. to = "commit" => ctx[r].op = "createBackup"
    BY <1>3 DEF AfterBackup
  <2>6. Reads(db, to, ctx[r])
    BY <1>2, <2>1, <2>2, ReadsOn DEF PastReading, SameLocals
  <2>7. FlushState(r, "pointFlush", to, state)
    BY <1>6 DEF PointFlush
  <2> HIDE DEF to, state
  <2>8. OnItsWay(db, to, ctx[r])
    BY <2>2, <2>6 DEF OnItsWay, Seen
  <2>9. StateRowWritten(db, to, ctx[r]) = state
    BY <1>3, <2>2, <2>4, <2>5 DEF StateRowWritten, Inserted, Repointed, Reviewed
  <2>10. \A n \in Rows \ {"state"} :
            RowWritten(db, to, ctx[r], n) = RowWritten(db, "pointFlush", ctx[r], n)
    BY <1>3, <2>2, <2>5 DEF RowWritten, Inserted, Dropped, Saved, Staged
  <2> QED BY <2>1, <2>7, <2>8, <2>9, <2>10, FlushStateSerial
<1> QED BY <1>5, <1>6

LEMMA ReviewSerial ==
    ASSUME TypeInv, Serial, NEW r \in Requests, ReviewSelect(r) \/ ReviewFlush(r)
    PROVE  Serial'
<1> DEFINE label == pc[r]
<1>1. label \in {"reviewSelect", "reviewFlush"}
  BY DEF ReviewSelect, ReviewFlush, SelectState, FlushState, At
<1>2. /\ OnItsWay(db, label, ctx[r]) /\ label \in Path(ctx[r].op) /\ Reads(db, label, ctx[r])
      /\ Seen(db, label, ctx[r]) /\ ctx[r] \in Context /\ Locals(label, ctx[r])
  BY <1>1, Here, Local DEF OnItsWay
<1>3. /\ ctx[r].op \in {"stageImport", "applyImport"}
      /\ ctx[r].op = "applyImport" => ctx[r].source # None /\ ctx[r].backup \in Backups
  BY <1>1, <1>2 DEF Path, Reads, ReadBacking
<1> DEFINE applying == ctx[r].op = "applyImport"
           before == [current |-> IF applying THEN ctx[r].backup ELSE StateNow(db).current,
                      pending |-> StateNow(db).pending]
<1>4. View(r, "state") = IF applying THEN before ELSE db["state"]
  <2>1. CASE applying
    <3>1. StateRowWritten(db, label, ctx[r]) = before
      BY <1>1, <1>3, <2>1 DEF StateRowWritten, Inserted, Repointed, Reviewed
    <3>2. before \in StateRow
      BY <1>3, <2>1, StateNowType DEF StateRow
    <3> HIDE DEF before
    <3> QED BY <1>1, <2>1, <3>1, <3>2, StateView, RowsAssumption
  <2>2. CASE ~applying
    <3>1. StateRowWritten(db, label, ctx[r]) = Unwritten
      BY <1>1, <1>3, <2>2 DEF StateRowWritten, Inserted, Repointed, Reviewed, Dropped
    <3> QED BY <1>1, <2>2, <3>1, StateView
  <2> QED BY <2>1, <2>2
<1>5. \A l : SameLocals(l, ctx[r]) => (Repointed("reviewFlush", l) <=> applying)
  BY <1>3 DEF Repointed, Inserted, SameLocals
<1>6. ASSUME ReviewSelect(r) PROVE Serial'
  <2>1. label = "reviewSelect"
    BY <1>6 DEF ReviewSelect, SelectState, At
  <2>2. ASSUME NEW l, SameLocals(l, ctx[r]), l.seen = View(r, "state")
        PROVE  OnItsWay(db, "reviewFlush", l)
    <3>1. Reads(db, "reviewFlush", l)
      BY <1>2, <2>1, <2>2, ReadsOn DEF PastReading
    <3>2. Repointed("reviewFlush", l) => StateRowWritten(db, "reviewFlush", l) = before
      BY <1>5, <2>2 DEF StateRowWritten, Reviewed, SameLocals
    <3>3. Seen(db, "reviewFlush", l)
      BY <1>4, <1>5, <2>2, <3>2 DEF Seen
    <3>4. l.op \in {"stageImport", "applyImport"}
      BY <1>3, <2>2 DEF SameLocals
    <3> QED BY <3>1, <3>3, <3>4 DEF OnItsWay, Path
  <2>3. \A n \in Rows : RowWritten(db, "reviewFlush", ctx[r], n) = RowWritten(db, "reviewSelect", ctx[r], n)
    BY <1>3 DEF RowWritten, Inserted, Dropped, Saved, Staged, StateRowWritten, Repointed, Reviewed
  <2> QED BY <1>6, <2>1, <2>2, <2>3, SelectStateSerial DEF ReviewSelect
<1>7. ASSUME ReviewFlush(r) PROVE Serial'
  <2> DEFINE pending == IF ctx[r].op = "stageImport" THEN ctx[r].cand ELSE None
             state == [StateBefore(r) EXCEPT !.pending = pending]
  <2>1. label = "reviewFlush"
    BY <1>7 DEF ReviewFlush, FlushState, At
  <2>2. StateBefore(r) = IF applying THEN before ELSE StateNow(db)
    <3>1. ctx[r].seen = View(r, "state")
      BY <1>2, <1>4, <1>5, <2>1, <1>3 DEF Seen, SameLocals, StateRowWritten, Reviewed
    <3>2. CASE applying
      <4>1. before \in StateRow
        BY <1>3, <3>2, StateNowType DEF StateRow
      <4> HIDE DEF before
      <4> QED BY <1>4, <3>1, <3>2, <4>1, RowsAssumption DEF StateBefore
    <3>3. CASE ~applying
      BY <1>4, <3>1, <3>3 DEF StateBefore, StateNow
    <3> QED BY <3>2, <3>3
  <2>3. state = [current |-> IF applying THEN ctx[r].backup ELSE StateNow(db).current,
                 pending |-> pending]
    <3>1. CASE applying
      BY <2>2, <3>1
    <3>2. CASE ~applying
      BY <2>2, <3>2, StateNowType DEF StateRow
    <3> QED BY <3>1, <3>2
  <2>4. OnItsWay(db, "commit", ctx[r])
    <3>1. Reads(db, "commit", ctx[r])
      BY <1>2, <2>1, ReadsOn DEF PastReading, SameLocals
    <3> QED BY <1>3, <3>1 DEF OnItsWay, Path, Seen
  <2>5. Repointed("commit", ctx[r]) <=> applying
    BY <1>3 DEF Repointed, Inserted
  <2>6. StateRowWritten(db, "commit", ctx[r]) = state
    BY <1>3, <2>3, <2>5 DEF StateRowWritten, Reviewed
  <2>7. \A n \in Rows \ {"state"} :
            RowWritten(db, "commit", ctx[r], n) = RowWritten(db, "reviewFlush", ctx[r], n)
    BY <1>3 DEF RowWritten, Inserted, Dropped, Saved, Staged
  <2>8. FlushState(r, "reviewFlush", "commit", state)
    BY <1>7 DEF ReviewFlush
  <2> HIDE DEF state
  <2> QED BY <2>1, <2>4, <2>6, <2>7, <2>8, FlushStateSerial
<1> QED BY <1>6, <1>7

LEMMA SnapshotSerial ==
    ASSUME TypeInv, Serial, NEW r \in Requests, SelectSnapshot(r) \/ FlushSnapshot(r)
    PROVE  Serial'
<1> DEFINE label == pc[r]
           target == Target(ctx[r].op)
<1>1. label \in SnapshotLabels
  BY DEF SelectSnapshot, FlushSnapshot, At
<1>2. /\ label \in Path(ctx[r].op) /\ Reads(db, label, ctx[r])
      /\ Seen(db, label, ctx[r]) /\ ctx[r] \in Context /\ Locals(label, ctx[r])
  BY <1>1, Here, Local DEF OnItsWay
<1>3. ctx[r].op \in {"saveDraft", "publish", "applyImport"} /\ ctx[r].next \in SnapshotRow
  BY <1>1, <1>2 DEF Locals
<1>4. target \in Kinds /\ target \in Rows /\ target # "state"
  BY RowTargets, RowTypes, RowNames
<1>5. ctx[r].op \in BackingOps => ctx[r].backup \in Backups
  BY <1>2 DEF Reads, ReadBacking
<1>6. View(r, target) = db[target]
  <2>1. RowWritten(db, label, ctx[r], target) = Unwritten
    BY <1>1, <1>3, <1>4, <1>5, RowNames DEF RowWritten, Inserted, Dropped, Saved, Staged
  <2> QED BY <1>1, <1>4, <2>1, Here DEF View
<1>7. ASSUME SelectSnapshot(r) PROVE Serial'
  <2> DEFINE l == [ctx[r] EXCEPT !.seen = View(r, target)]
  <2>1. SameLocals(l, ctx[r]) /\ l.seen = db[target]
    BY <1>2, <1>6 DEF SameLocals, Context
  <2>2. /\ ctx' = [ctx EXCEPT ![r] = l] /\ GoTo(r, "flushSnapshot") /\ UNCHANGED stores
        /\ label = "selectSnapshot"
    BY <1>7 DEF SelectSnapshot, TypeInv, ControlOK, At
  <2> HIDE DEF l
  <2>3. OnItsWay(db, "flushSnapshot", l)
    <3>1. Reads(db, "flushSnapshot", l)
      BY <1>2, <2>1, <2>2, ReadsOn DEF PastReading
    <3> QED BY <1>3, <2>1, <3>1 DEF OnItsWay, Path, Seen, SameLocals
  <2>4. \A n \in Rows : RowWritten(db, "flushSnapshot", ctx[r], n) = RowWritten(db, label, ctx[r], n)
    BY <1>3, <2>2 DEF RowWritten, Inserted, Dropped, Saved, Staged, StateRowWritten, Repointed, Reviewed
  <2>5. \A n \in Rows : RowWritten(db, "flushSnapshot", l, n) = RowWritten(db, label, ctx[r], n)
    <3>1. \A n : RowWritten(db, "flushSnapshot", l, n) = RowWritten(db, "flushSnapshot", ctx[r], n)
      BY <2>1, SameWrites, Zenon
    <3> QED BY <2>4, <3>1, Zenon
  <2>6. Consistent(db, "flushSnapshot", l, tx'[r])
    BY <1>1, <2>2, <2>3, <2>5, StillConsistent DEF stores
  <2> QED BY <1>1, <2>2, <2>6, Advance DEF stores
<1>8. ASSUME FlushSnapshot(r), ~Raise(r) PROVE Serial'
  <2> DEFINE to == IF ctx[r].op = "applyImport" THEN "reviewSelect" ELSE "commit"
  <2>1. /\ label = "flushSnapshot" /\ Write(r, target, SnapshotToWrite(r)) /\ GoTo(r, to)
        /\ UNCHANGED <<db, files, ctx>>
    BY <1>8 DEF FlushSnapshot, At
\* The row has not changed since the SELECT: the UPDATE writes all of next.
  <2>2. SnapshotToWrite(r) = ctx[r].next
    <3>1. ctx[r].seen = db[target]
      BY <1>2, <2>1 DEF Seen
    <3>2. db[target] # None => db[target] \in SnapshotRow
      BY <1>4, RowTypes DEF TypeInv, DbOK
    <3> QED BY <1>3, <3>1, <3>2 DEF SnapshotToWrite, UpdatedRow, SnapshotRow
  <2>3. OnItsWay(db, to, ctx[r])
    <3>1. Reads(db, to, ctx[r])
      BY <1>2, <2>1, ReadsOn DEF PastReading, SameLocals
    <3> QED BY <1>3, <3>1 DEF OnItsWay, Path, Seen
  <2>4. /\ RowWritten(db, to, ctx[r], target) = ctx[r].next
        /\ \A n \in Rows \ {target} : RowWritten(db, to, ctx[r], n) = RowWritten(db, label, ctx[r], n)
    <3>1. Inserted(to, ctx[r]) = Inserted(label, ctx[r]) /\ Repointed(to, ctx[r]) = Repointed(label, ctx[r])
      BY <1>3, <2>1 DEF Inserted, Repointed
    <3>2. /\ Saved(to, ctx[r]) /\ ~Saved(label, ctx[r])
          /\ ~Dropped(to, ctx[r]) /\ ~Dropped(label, ctx[r])
          /\ ~Staged(to, ctx[r]) /\ ~Staged(label, ctx[r])
          /\ ~Reviewed(to, ctx[r]) /\ ~Reviewed(label, ctx[r])
      BY <1>3, <2>1 DEF Saved, Dropped, Staged, Reviewed
    <3>3. StateRowWritten(db, to, ctx[r]) = StateRowWritten(db, label, ctx[r])
      BY <3>1, <3>2 DEF StateRowWritten
    <3>4. Inserted(to, ctx[r]) => target # ctx[r].backup
      BY <1>4, <1>5, RowNames DEF Inserted
    <3> HIDE DEF to
    <3> QED BY <3>1, <3>2, <3>3, <3>4 DEF RowWritten
  <2> HIDE DEF to, target
  <2> QED BY <1>1, <1>4, <2>1, <2>2, <2>3, <2>4, WriteOn
<1>9. CASE Raise(r)
  BY <1>1, <1>9, RaiseSerial
<1> QED BY <1>7, <1>8, <1>9

LEMMA DeletionSerial ==
    ASSUME TypeInv, Serial, NEW r \in Requests,
           ReadBackup(r) \/ UnlinkBundle(r) \/ SelectRow(r) \/ DeleteRow(r) \/ Unpoint(r) \/ ClearCurrent(r)
    PROVE  Serial'
<1> DEFINE label == pc[r]
           b == ctx[r].victim
<1>1. label \in {"readBackup", "unlinkBundle", "selectRow", "deleteRow", "unpoint", "clearCurrent"}
  BY DEF ReadBackup, UnlinkBundle, SelectRow, DeleteRow, Unpoint, ClearCurrent, At
<1>2. OnItsWay(db, label, ctx[r]) /\ label \in Path(ctx[r].op) /\ Reads(db, label, ctx[r])
  BY <1>1, Here DEF OnItsWay
<1>3. ctx[r].op = "deleteBackup" /\ b \in Backups /\ db[b] # None
  <2>1. ctx[r].op = "deleteBackup"
    BY <1>1, <1>2 DEF Path
  <2> QED BY <1>2, <2>1 DEF Reads
<1>4. \A to \in {"readBackup", "unlinkBundle", "selectRow", "deleteRow", "unpoint",
                  "clearCurrent", "commit"} :
          OnItsWay(db, to, ctx[r])
  BY <1>3 DEF OnItsWay, Path, Reads, Seen
<1>5. CASE Raise(r)
  BY <1>1, <1>5, RaiseSerial
<1>6. \A from \in {"readBackup", "unlinkBundle", "selectRow", "deleteRow"} : \A n \in Rows :
          RowWritten(db, from, ctx[r], n) = Unwritten
  BY <1>3 DEF RowWritten, Inserted, Dropped, Saved, Staged, StateRowWritten, Repointed, Reviewed
<1>7. ASSUME NEW to \in {"unlinkBundle", "selectRow", "deleteRow"},
             label \in {"readBackup", "unlinkBundle", "selectRow"},
             GoTo(r, to), UNCHANGED <<db, tx, ctx>>
      PROVE  Serial'
  BY <1>1, <1>4, <1>6, <1>7, GoOn
<1>8. \A n \in Rows : RowWritten(db, "unpoint", ctx[r], n) = IF n = b THEN None ELSE Unwritten
  BY <1>3 DEF RowWritten, Inserted, Dropped, Saved, Staged, StateRowWritten, Repointed, Reviewed
<1>9. ctx = [ctx EXCEPT ![r] = ctx[r]]
  BY DEF TypeInv, ControlOK
<1>10. ASSUME DeleteRow(r) PROVE Serial'
  <2>1. label = "deleteRow" /\ GoTo(r, "unpoint") /\ Write(r, b, None) /\ UNCHANGED <<db, ctx>>
    BY <1>3, <1>10 DEF DeleteRow, At
  <2>2. /\ \A q \in Requests \ {r} : tx'[q] = tx[q]
        /\ tx'[r] = [tx[r] EXCEPT ![b] = None]
    BY <2>1 DEF Write, TypeInv, TxOK
  <2>3. \A n \in Rows : tx[r][n] = Unwritten
    BY <1>6, <2>1, Here
  <2>4. \A n \in Rows : tx'[r][n] = IF n = b THEN None ELSE Unwritten
    BY <2>2, <2>3 DEF TypeInv, TxOK
  <2>5. Consistent(db, "unpoint", ctx[r], tx'[r])
    BY <1>4, <1>8, <2>4 DEF Consistent
  <2> QED BY <1>1, <1>9, <2>1, <2>2, <2>5, Advance
<1>11. ASSUME Unpoint(r) PROVE Serial'
  <2>1. label = "unpoint" /\ GoTo(r, "clearCurrent") /\ UNCHANGED <<db, ctx>>
    BY <1>11 DEF Unpoint, At
  <2>2. \A n \in Rows : tx[r][n] = IF n = b THEN None ELSE Unwritten
    BY <1>8, <2>1, Here
  <2>3. Pointed(b) <=> StateNow(db).current = b
    BY <1>3, RowNames DEF Pointed, StateNow, NoState
  <2>4. Pointed(b) => StateNow(db) = db["state"]
    BY DEF Pointed, StateNow
  <2>5. tx' = IF Pointed(b)
              THEN [tx EXCEPT ![r] = [@ EXCEPT !["state"] = [db["state"] EXCEPT !.current = None]]]
              ELSE tx
    BY <1>11 DEF Unpoint, Write
  <2>6. /\ \A q \in Requests \ {r} : tx'[q] = tx[q]
        /\ tx'[r] = IF Pointed(b)
                    THEN [tx[r] EXCEPT !["state"] = [db["state"] EXCEPT !.current = None]]
                    ELSE tx[r]
    BY <2>5 DEF TypeInv, TxOK
  <2>7. ASSUME NEW n \in Rows PROVE tx'[r][n] = RowWritten(db, "clearCurrent", ctx[r], n)
    <3>1. CASE n = b
      <4>1. n # "state"
        BY <1>3, <3>1, RowNames
      <4>2. tx'[r][n] = None
        BY <2>2, <2>6, <3>1, <4>1 DEF TypeInv, TxOK
      <4> QED BY <1>3, <3>1, <4>2 DEF RowWritten, Inserted, Dropped
    <3>2. CASE n = "state"
      <4>1. tx[r]["state"] = Unwritten
        BY <1>3, <2>2, <3>2, RowNames
      <4>2. tx'[r]["state"] = IF Pointed(b) THEN [db["state"] EXCEPT !.current = None] ELSE Unwritten
        BY <2>6, <3>2, <4>1 DEF TypeInv, TxOK
      <4>3. StateRowWritten(db, "clearCurrent", ctx[r]) =
                IF Pointed(b) THEN [db["state"] EXCEPT !.current = None] ELSE Unwritten
        BY <1>3, <2>3, <2>4 DEF StateRowWritten, Repointed, Reviewed, Dropped, Inserted
      <4>4. RowWritten(db, "clearCurrent", ctx[r], "state") = StateRowWritten(db, "clearCurrent", ctx[r])
        BY <1>4, WrittenState
      <4> QED BY <3>2, <4>2, <4>3, <4>4
    <3>3. CASE n \notin {b, "state"}
      <4>1. tx'[r][n] = Unwritten
        BY <2>2, <2>6, <3>3 DEF TypeInv, TxOK
      <4> QED BY <1>3, <3>3, <4>1 DEF RowWritten, Inserted, Dropped, Saved, Staged
    <3> QED BY <3>1, <3>2, <3>3
  <2>8. Consistent(db, "clearCurrent", ctx[r], tx'[r])
    BY <1>4, <2>7 DEF Consistent
  <2> QED BY <1>1, <1>9, <2>1, <2>6, <2>8, Advance
\* The foreign key has cleared the pointer by then.
<1>12. ASSUME ClearCurrent(r), ~Raise(r) PROVE Serial'
  <2>1. label = "clearCurrent" /\ GoTo(r, "commit") /\ UNCHANGED <<db, files, ctx>>
    BY <1>12 DEF ClearCurrent, At
  <2>2. View(r, "state").current # b
    <3>1. View(r, "state") = IF StateRowWritten(db, label, ctx[r]) = Unwritten
                             THEN db["state"] ELSE StateRowWritten(db, label, ctx[r])
      BY <1>1, StateView
    <3>2. CASE StateNow(db).current = b
      <4>1. StateRowWritten(db, label, ctx[r]) = [StateNow(db) EXCEPT !.current = None]
        BY <1>3, <2>1, <3>2 DEF StateRowWritten, Repointed, Reviewed, Dropped, Inserted
      <4>2. [StateNow(db) EXCEPT !.current = None] \in StateRow
        BY StateNowType DEF StateRow
      <4>3. [StateNow(db) EXCEPT !.current = None].current = None
        BY StateNowType DEF StateRow
      <4> QED BY <1>3, <3>1, <4>1, <4>2, <4>3, RowNames, RowsAssumption
    <3>3. CASE StateNow(db).current # b
      <4>1. StateRowWritten(db, label, ctx[r]) = Unwritten
        BY <1>3, <2>1, <3>3 DEF StateRowWritten, Repointed, Reviewed, Dropped, Inserted
      <4>2. db["state"] # None
        BY <1>12, <3>1, <4>1 DEF ClearCurrent
      <4> QED BY <3>1, <3>3, <4>1, <4>2 DEF StateNow
    <3> QED BY <3>2, <3>3
  <2>3. UNCHANGED tx
    BY <1>12, <2>2 DEF ClearCurrent
  <2>4. \A n \in Rows : RowWritten(db, "commit", ctx[r], n) = RowWritten(db, label, ctx[r], n)
    BY <1>3, <2>1 DEF RowWritten, Inserted, Dropped, Saved, Staged, StateRowWritten, Repointed, Reviewed
  <2> QED BY <1>1, <1>4, <2>1, <2>3, <2>4, GoOn
<1> QED BY <1>5, <1>7, <1>10, <1>11, <1>12 DEF ReadBackup, UnlinkBundle, SelectRow, At, stores

LEMMA AssetSerial ==
    ASSUME TypeInv, Serial, NEW r \in Requests, AssetStep(r)
    PROVE  Serial'
<1> DEFINE label == pc[r]
<1> USE DEF CheckDraft, CheckPublished, CheckSnapshot
<1>1. label \in {"writeAsset", "checkDraft", "checkPublished", "getAsset", "removeAsset"}
  BY DEF AssetStep, WriteAsset, GetAsset, RemoveAsset, At
<1>2. label \in Path(ctx[r].op) /\ Reads(db, label, ctx[r]) /\ ctx[r] \in Context
  BY <1>1, Here, Local DEF OnItsWay
<1>3. ctx[r].op = IF label = "writeAsset" THEN "uploadAsset" ELSE "deleteAsset"
  BY <1>1, <1>2 DEF Path
<1>4. \A from, l : l.op = ctx[r].op => \A n \in Rows : RowWritten(db, from, l, n) = Unwritten
  BY <1>3 DEF RowWritten, Inserted, Dropped, Saved, Staged, StateRowWritten, Repointed, Reviewed
<1>5. CASE Raise(r)
  BY <1>1, <1>5, RaiseSerial
<1>6. ASSUME WriteAsset(r) PROVE Serial'
  <2> DEFINE l == [ctx[r] EXCEPT !.restored = {ctx[r].asset}]
  <2>1. ctx' = [ctx EXCEPT ![r] = l] /\ GoTo(r, "commit") /\ UNCHANGED <<db, tx>> /\ label = "writeAsset"
    BY <1>6 DEF WriteAsset, At, TypeInv, ControlOK
  <2>2. l.op = "uploadAsset"
    BY <1>2, <1>3, <2>1 DEF Context
  <2> HIDE DEF l
  <2>3. OnItsWay(db, "commit", l)
    BY <2>2 DEF OnItsWay, Path, Reads, Seen
  <2>4. Consistent(db, "commit", l, tx'[r])
    BY <1>1, <1>3, <1>4, <2>1, <2>2, <2>3, StillConsistent
  <2> QED BY <1>1, <2>1, <2>4, Advance
<1>7. ASSUME NEW to \in {"checkPublished", "getAsset", "removeAsset", "commit"},
             ReadAssetUse(db, to, ctx[r]), ctx[r].op = "deleteAsset", GoTo(r, to),
             UNCHANGED <<db, tx, ctx>>
      PROVE  Serial'
  <2>1. OnItsWay(db, to, ctx[r])
    BY <1>7 DEF OnItsWay, Path, Reads, Seen
  <2> QED BY <1>1, <1>4, <1>7, <2>1, GoOn
<1>8. label # "writeAsset" => ReadAssetUse(db, label, ctx[r])
  BY <1>2, <1>3 DEF Reads
<1>9. ASSUME ~Raise(r), CheckDraft(r) \/ CheckPublished(r) \/ GetAsset(r) \/ RemoveAsset(r)
      PROVE  Serial'
  <2>1. CASE CheckDraft(r)
    <3>1. ReadAssetUse(db, "checkPublished", ctx[r])
      BY <1>9, <2>1 DEF ReadAssetUse
    <3> QED BY <1>3, <1>7, <1>9, <2>1, <3>1 DEF At, stores
  <2>2. CASE CheckPublished(r)
    <3>1. ReadAssetUse(db, "getAsset", ctx[r])
      BY <1>8, <1>9, <2>2 DEF ReadAssetUse, At
    <3> QED BY <1>3, <1>7, <1>9, <2>2, <3>1 DEF At, stores
  <2>3. CASE GetAsset(r)
    <3>1. ReadAssetUse(db, "removeAsset", ctx[r])
      BY <1>8, <1>9, <2>3 DEF ReadAssetUse, At, GetAsset
    <3> QED BY <1>3, <1>7, <1>9, <2>3, <3>1 DEF At, stores, GetAsset
  <2>4. CASE RemoveAsset(r)
    <3>1. ReadAssetUse(db, "commit", ctx[r])
      BY DEF ReadAssetUse
    <3> QED BY <1>3, <1>7, <1>9, <2>4, <3>1 DEF At, RemoveAsset
  <2> QED BY <1>9, <2>1, <2>2, <2>3, <2>4
<1> QED BY <1>5, <1>6, <1>9 DEF AssetStep

LEMMA StageSerial ==
    ASSUME TypeInv, Serial, NEW r \in Requests, WriteCandidate(r) \/ InsertCandidate(r)
    PROVE  Serial'
<1> DEFINE label == pc[r]
<1>1. label \in {"writeCandidate", "insertCandidate"}
  BY DEF WriteCandidate, InsertCandidate, At
<1>2. label \in Path(ctx[r].op) /\ Reads(db, label, ctx[r])
  BY <1>1, Here DEF OnItsWay
<1>3. ctx[r].op = "stageImport" /\ ReadStage(db, label, ctx[r])
  <2>1. ctx[r].op = "stageImport"
    BY <1>1, <1>2 DEF Path
  <2> QED BY <1>2, <2>1 DEF Reads
<1>4. ctx[r].cand \in Candidates /\ ctx[r].cand \in Rows
  BY <1>3, RowTypes DEF ReadStage
<1>5. \A from \in {"writeCandidate", "insertCandidate"} : \A n \in Rows :
          RowWritten(db, from, ctx[r], n) = Unwritten
  BY <1>3 DEF RowWritten, Inserted, Dropped, Saved, Staged, StateRowWritten, Repointed, Reviewed
<1>6. ASSUME WriteCandidate(r) PROVE Serial'
  <2>1. OnItsWay(db, "insertCandidate", ctx[r])
    BY <1>3 DEF OnItsWay, Path, Reads, Seen, ReadStage
  <2> QED BY <1>1, <1>5, <1>6, <2>1, GoOn DEF WriteCandidate
<1>7. ASSUME InsertCandidate(r), ~Raise(r) PROVE Serial'
  <2>1. /\ Write(r, ctx[r].cand, ctx[r].document) /\ GoTo(r, "reviewSelect") /\ UNCHANGED <<db, files, ctx>>
        /\ \A c \in Candidates : db[c] # ctx[r].document
    BY <1>7 DEF InsertCandidate
  <2>2. OnItsWay(db, "reviewSelect", ctx[r])
    BY <1>3, <2>1 DEF OnItsWay, Path, Reads, Seen, ReadStage
  <2>3. /\ RowWritten(db, "reviewSelect", ctx[r], ctx[r].cand) = ctx[r].document
        /\ \A n \in Rows \ {ctx[r].cand} : RowWritten(db, "reviewSelect", ctx[r], n) = Unwritten
    BY <1>3 DEF RowWritten, Inserted, Dropped, Saved, Staged, StateRowWritten, Repointed, Reviewed
  <2> QED BY <1>1, <1>4, <1>5, <2>1, <2>2, <2>3, WriteOn
<1>8. CASE Raise(r)
  BY <1>1, <1>8, RaiseSerial
<1> QED BY <1>6, <1>7, <1>8

LEMMA ReadImportSerial ==
    ASSUME TypeInv, Serial, NEW r \in Requests,
           ReadCandidate(r) \/ LoadCandidate(r) \/ ReadDraftToImport(r)
    PROVE  Serial'
<1> DEFINE label == pc[r]
<1>1. label \in {"readCandidate", "loadCandidate", "readDraft"}
  BY DEF ReadCandidate, LoadCandidate, ReadDraftToImport, At
<1>2. label \in Path(ctx[r].op) /\ Reads(db, label, ctx[r]) /\ ctx[r] \in Context
  BY <1>1, Here, Local DEF OnItsWay
<1>3. ctx[r].op = "applyImport" /\ ReadImport(db, label, ctx[r]) /\ ReadBacking(db, label, ctx[r])
  <2>1. ctx[r].op = "applyImport"
    BY <1>1, <1>2 DEF Path, ReadDraftToImport, ReadCandidate, LoadCandidate, At
  <2> QED BY <1>2, <2>1 DEF Reads
<1>4. CASE Raise(r)
  BY <1>1, <1>4, RaiseSerial
<1>5. \A from \in {"readCandidate", "loadCandidate", "readDraft", "bundleAssets"} : \A l : \A n \in Rows :
          RowWritten(db, from, l, n) = Unwritten
  BY DEF RowWritten, Inserted, Dropped, Saved, Staged, StateRowWritten, Repointed, Reviewed
<1>6. ASSUME NEW l, NEW to \in {"loadCandidate", "readDraft", "bundleAssets"},
             l.op = "applyImport", ReadImport(db, to, l), ReadBacking(db, to, l),
             GoTo(r, to), ctx' = [ctx EXCEPT ![r] = l], UNCHANGED <<db, tx>>
      PROVE  Serial'
  <2>1. OnItsWay(db, to, l)
    BY <1>6 DEF OnItsWay, Path, Reads, Seen
  <2>2. Consistent(db, to, l, tx'[r])
    BY <1>1, <1>5, <1>6, <2>1, StillConsistent
  <2> QED BY <1>1, <1>6, <2>2, Advance
<1>7. ASSUME ReadCandidate(r), ~Raise(r) PROVE Serial'
  <2> DEFINE l == [ctx[r] EXCEPT !.document = db[ctx[r].cand]]
  <2>1. ctx' = [ctx EXCEPT ![r] = l] /\ GoTo(r, "loadCandidate") /\ UNCHANGED stores
    BY <1>7 DEF ReadCandidate
  <2>2. /\ l.op = "applyImport" /\ l.cand = ctx[r].cand /\ l.document = db[l.cand]
        /\ l.selection = ctx[r].selection /\ l.source = ctx[r].source /\ l.backup = ctx[r].backup
    BY <1>2, <1>3 DEF Context
  <2> HIDE DEF l
  <2>3. ReadImport(db, "loadCandidate", l) /\ ReadBacking(db, "loadCandidate", l)
    BY <1>1, <1>3, <2>2 DEF ReadImport, ReadBacking
  <2> QED BY <1>6, <2>1, <2>2, <2>3 DEF stores
<1>8. ASSUME LoadCandidate(r), ~Raise(r) PROVE Serial'
  <2>1. label = "loadCandidate" /\ GoTo(r, "readDraft") /\ UNCHANGED <<stores, ctx>>
    BY <1>8 DEF LoadCandidate, At
  <2>2. ctx' = [ctx EXCEPT ![r] = ctx[r]]
    BY <2>1 DEF TypeInv, ControlOK
  <2>3. ReadImport(db, "readDraft", ctx[r]) /\ ReadBacking(db, "readDraft", ctx[r])
    BY <1>3, <2>1 DEF ReadImport, ReadBacking
  <2> QED BY <1>3, <1>6, <2>1, <2>2, <2>3 DEF stores
<1>9. ASSUME ReadDraftToImport(r), ~Raise(r) PROVE Serial'
  <2> DEFINE l == Importing(r)
  <2>1. /\ label = "readDraft" /\ db["draft"] # None
        /\ Applicable(db["draft"].payload, ctx[r].document.payload, ctx[r].selection)
        /\ ctx' = [ctx EXCEPT ![r] = l] /\ GoTo(r, "bundleAssets") /\ UNCHANGED stores
    BY <1>9 DEF ReadDraftToImport, At
  <2>2. /\ l.op = "applyImport" /\ l.cand = ctx[r].cand /\ l.document = ctx[r].document
        /\ l.selection = ctx[r].selection /\ l.source = db["draft"] /\ l.backup = ctx[r].backup
        /\ l.next = RowOf(ImportedDraft(r))
    BY <1>2, <1>3 DEF Context, Importing, Backing
  <2> HIDE DEF l
  <2>3. SourceKind(l) = "draft"
    BY <2>2 DEF SourceKind
  <2>4. ReadImport(db, "bundleAssets", l)
    BY <1>3, <2>1, <2>2 DEF ReadImport, ImportedDraft
  <2>5. ReadBacking(db, "bundleAssets", l)
    BY <1>3, <2>1, <2>2, <2>3 DEF ReadBacking
  <2> QED BY <1>6, <2>1, <2>2, <2>4, <2>5 DEF stores
<1> QED BY <1>4, <1>7, <1>8, <1>9

LEMMA RestoreSerial ==
    ASSUME TypeInv, Serial, NEW r \in Requests, ProbeAsset(r) \/ RestoreAsset(r)
    PROVE  Serial'
<1> DEFINE label == pc[r]
<1>1. label \in RestoreLabels
  BY DEF ProbeAsset, RestoreAsset, At
<1>2. label \in Path(ctx[r].op) /\ Reads(db, label, ctx[r]) /\ ctx[r] \in Context
  BY <1>1, Here, Local DEF OnItsWay
<1>3. ctx[r].op = "applyImport"
  BY <1>1, <1>2 DEF Path
<1>4. ASSUME NEW l, SameLocals(l, ctx[r]), NEW to \in RestoreLabels \cup {"selectSnapshot"},
             GoTo(r, to), ctx' = [ctx EXCEPT ![r] = l], UNCHANGED <<db, tx>>
      PROVE  Serial'
  <2>1. Reads(db, to, l)
    BY <1>1, <1>2, <1>4, ReadsOn DEF PastReading
  <2>2. OnItsWay(db, to, l)
    BY <1>3, <1>4, <2>1 DEF OnItsWay, Path, Seen, SameLocals
  <2>3. \A n \in Rows : RowWritten(db, to, ctx[r], n) = RowWritten(db, label, ctx[r], n)
    BY <1>1, <1>3, <1>4 DEF RowWritten, Inserted, Dropped, Saved, Staged, StateRowWritten, Repointed, Reviewed
  <2>4. \A n \in Rows : RowWritten(db, to, l, n) = RowWritten(db, label, ctx[r], n)
    BY <1>4, <2>3, SameWrites
  <2>5. Consistent(db, to, l, tx'[r])
    BY <1>1, <1>4, <2>2, <2>4, StillConsistent
  <2> QED BY <1>1, <1>4, <2>5, Advance
<1>5. ASSUME ProbeAsset(r) PROVE Serial'
  <2>1. ASSUME NEW a \in ToRestore(r),
               ctx' = [ctx EXCEPT ![r].asset = a, ![r].fresh = a \notin assets],
               GoTo(r, "restoreAsset"), UNCHANGED stores
        PROVE  Serial'
    <3> DEFINE fresh == a \notin assets
               l == [ctx[r] EXCEPT !.asset = a, !.fresh = fresh]
    <3>1. ctx' = [ctx EXCEPT ![r] = l]
      BY <2>1 DEF TypeInv, ControlOK
    <3> HIDE DEF fresh
    <3>2. SameLocals(l, ctx[r])
      BY <1>2 DEF Context, SameLocals
    <3> HIDE DEF l
    <3> QED BY <1>4, <2>1, <3>1, <3>2 DEF stores
  <2>2. ASSUME ctx' = [ctx EXCEPT ![r].restored = ctx[r].restoring],
               GoTo(r, "selectSnapshot"), UNCHANGED stores
        PROVE  Serial'
    <3> DEFINE l == [ctx[r] EXCEPT !.restored = ctx[r].restoring]
    <3>1. ctx' = [ctx EXCEPT ![r] = l]
      BY <2>2 DEF TypeInv, ControlOK
    <3>2. SameLocals(l, ctx[r])
      BY <1>2 DEF Context, SameLocals
    <3> HIDE DEF l
    <3> QED BY <1>4, <2>2, <3>1, <3>2 DEF stores
  <2> QED BY <1>5, <2>1, <2>2 DEF ProbeAsset
<1>6. ASSUME RestoreAsset(r) PROVE Serial'
  <2> DEFINE a == ctx[r].asset
             more == IF ctx[r].fresh THEN ctx[r].restoring \cup {a} ELSE ctx[r].restoring
             l == [ctx[r] EXCEPT !.visited = ctx[r].visited \cup {a}, !.restoring = more]
  <2>1. ctx' = [ctx EXCEPT ![r] = l] /\ GoTo(r, "probeAsset") /\ UNCHANGED <<db, tx>>
    BY <1>6 DEF RestoreAsset, TypeInv, ControlOK
  <2> HIDE DEF more
  <2>2. SameLocals(l, ctx[r])
    BY <1>2 DEF Context, SameLocals
  <2> HIDE DEF l
  <2> QED BY <1>4, <2>1, <2>2
<1> QED BY <1>5, <1>6

(***************************************************************************)
(* The end of a request.                                                   *)
(***************************************************************************)
LEMMA CommitSerial ==
    ASSUME TypeInv, Serial, NEW r \in Requests, Commit(r)
    PROVE  Serial'
<1>1. pc[r] = "commit"
  BY DEF Commit, At
<1>2. PICK label \in {"idle", "compensate"} : pc' = [pc EXCEPT ![r] = label]
  BY DEF Commit, Finish, GoTo
<1>3. /\ pc'[r] = label
      /\ \A q \in Requests \ {r} : pc'[q] = "idle" /\ pc[q] = "idle"
  BY <1>1, <1>2, Alone DEF TypeInv, ControlOK
<1>4. /\ tx'[r] = NoWrites
      /\ \A q \in Requests \ {r} : tx'[q] = tx[q]
  BY DEF Commit, Rollback, TypeInv, TxOK
<1>5. OneAtATime'
  BY <1>3 DEF OneAtATime
<1>6. ASSUME NEW q \in Requests
      PROVE  Consistent(db', pc'[q], ctx'[q], tx'[q])
  <2>1. pc'[q] \in {"idle", "compensate"}
    BY <1>3
  <2>2. \A n \in Rows : tx'[q][n] = Unwritten
    BY <1>1, <1>4, Alone DEF NoWrites
  <2>3. \A n \in Rows : RowWritten(db', pc'[q], ctx'[q], n) = Unwritten
    BY <2>1, NothingWritten
  <2> QED BY <2>1, <2>2, <2>3 DEF Consistent
<1> QED BY <1>5, <1>6 DEF Serial

LEMMA UndoSerial ==
    ASSUME TypeInv, Serial, NEW r \in Requests,
           DiscardBundle(r) \/ Compensate(r) \/ RemoveRestored(r)
    PROVE  Serial'
<1>1. \A l : \A label \in {"compensate", "removeRestored"} : \A w :
          (\A n \in Rows : w[n] = Unwritten) => Consistent(db, label, l, w)
  BY NothingWritten DEF Consistent
<1>2. ASSUME DiscardBundle(r) PROVE Serial'
  <2>1. /\ pc[r] = "discardBundle" /\ GoTo(r, "compensate") /\ UNCHANGED db
        /\ ctx' = [ctx EXCEPT ![r] = ctx[r]]
    BY <1>2 DEF DiscardBundle, At, TypeInv, ControlOK
  <2>2. tx'[r] = NoWrites /\ \A q \in Requests \ {r} : tx'[q] = tx[q]
    BY <1>2 DEF DiscardBundle, Rollback, TypeInv, TxOK
  <2>3. Consistent(db, "compensate", ctx[r], tx'[r])
    BY <1>1, <2>2 DEF NoWrites
  <2> QED BY <2>1, <2>2, <2>3, Advance
<1>3. ASSUME pc[r] \in {"compensate", "removeRestored"}, UNCHANGED <<db, tx>>,
             NEW l, ctx' = [ctx EXCEPT ![r] = l], GoTo(r, "removeRestored")
      PROVE  Serial'
  <2>1. \A n \in Rows : tx[r][n] = Unwritten
    BY <1>3, NothingWritten DEF Serial, Consistent
  <2>2. Consistent(db, "removeRestored", l, tx'[r])
    BY <1>1, <1>3, <2>1
  <2> QED BY <1>3, <2>2, Advance
<1>4. ASSUME Compensate(r) PROVE Serial'
  <2>1. CASE Finish(r)
    BY <1>4, <2>1, FinishSerial DEF Compensate, At
  <2>2. CASE GoTo(r, "removeRestored") /\ UNCHANGED ctx
    <3>1. ctx' = [ctx EXCEPT ![r] = ctx[r]]
      BY <2>2 DEF TypeInv, ControlOK
    <3> QED BY <1>3, <1>4, <2>2, <3>1 DEF Compensate, At
  <2> QED BY <1>4, <2>1, <2>2 DEF Compensate
<1>5. ASSUME RemoveRestored(r) PROVE Serial'
  <2>1. pc[r] = "removeRestored" /\ UNCHANGED <<db, tx>>
    BY <1>5 DEF RemoveRestored, At
  <2>2. PICK a \in ctx[r].restored :
            \/ Finish(r)
            \/ ctx' = [ctx EXCEPT ![r].restored = @ \ {a}] /\ UNCHANGED pc
    BY <1>5 DEF RemoveRestored
  <2>3. CASE Finish(r)
    BY <2>1, <2>3, FinishSerial
  <2>4. CASE ctx' = [ctx EXCEPT ![r].restored = @ \ {a}] /\ UNCHANGED pc
    <3> DEFINE l == [ctx[r] EXCEPT !.restored = ctx[r].restored \ {a}]
    <3>1. ctx' = [ctx EXCEPT ![r] = l] /\ GoTo(r, "removeRestored")
      BY <2>1, <2>4 DEF GoTo, TypeInv, ControlOK
    <3> HIDE DEF l
    <3> QED BY <1>3, <2>1, <3>1
  <2> QED BY <2>2, <2>3, <2>4
<1> QED BY <1>2, <1>4, <1>5

LEMMA CrashSerial ==
    ASSUME TypeInv, Serial, Crash
    PROVE  Serial'
<1>1. OneAtATime'
  BY DEF Crash, OneAtATime
<1>2. ASSUME NEW r \in Requests PROVE Consistent(db', pc'[r], ctx'[r], tx'[r])
  BY NothingWritten DEF Crash, Consistent, NoWrites
<1> QED BY <1>1, <1>2 DEF Serial

LEMMA InitSerial == Init => Serial
<1> SUFFICES ASSUME Init PROVE Serial
  OBVIOUS
<1>1. OneAtATime
  BY DEF Init, OneAtATime
<1>2. ASSUME NEW r \in Requests PROVE Consistent(db, pc[r], ctx[r], tx[r])
  BY NothingWritten DEF Init, Consistent, NoWrites
<1> QED BY <1>1, <1>2 DEF Serial

LEMMA NextSerial ==
    ASSUME MaxActive = 1, IsFiniteSet(Requests), TypeInv, Serial, [Next]_vars
    PROVE  Serial'
<1>1. ASSUME NEW r \in Requests, Arrive(r) PROVE Serial'
  BY <1>1, ArriveSerial
<1>2. ASSUME NEW r \in Requests, Step(r) PROVE Serial'
  BY <1>2, SnapshotSerial, BackupReadSerial, BackupWriteSerial, PointSerial, DeletionSerial,
     AssetSerial, StageSerial, ReviewSerial, ReadImportSerial, RestoreSerial, CommitSerial,
     UndoSerial DEF Step, BackupStep, ImportStep, EndStep
<1>3. ASSUME NEW r \in Requests, Fault(r) PROVE Serial'
  BY <1>3, FaultSerial
<1>4. CASE Crash
  BY <1>4, CrashSerial
<1>5. CASE UNCHANGED vars
  BY <1>5 DEF vars, Serial, OneAtATime
<1> QED BY <1>1, <1>2, <1>3, <1>4, <1>5 DEF Next

(***************************************************************************)
(* What a commit does to the rows.                                         *)
(***************************************************************************)
Saves(op) == op \in {"saveDraft", "publish", "applyImport"}

BacksUp(l) == l.op \in BackingOps /\ l.source # None

LEMMA Committing ==
    ASSUME TypeInv, Serial, NEW r \in Requests, Commit(r)
    PROVE  /\ pc[r] = "commit" /\ ctx[r] \in Context
           /\ OnItsWay(db, "commit", ctx[r]) /\ Reads(db, "commit", ctx[r])
           /\ ctx[r].op \in BackingOps => ReadBacking(db, "commit", ctx[r])
           /\ \A n \in Rows : db'[n] = IF RowWritten(db, "commit", ctx[r], n) = Unwritten
                                       THEN db[n]
                                       ELSE RowWritten(db, "commit", ctx[r], n)
<1>1. pc[r] = "commit"
  BY DEF Commit, At
<1>2. OnItsWay(db, "commit", ctx[r]) /\ \A n \in Rows : tx[r][n] = RowWritten(db, "commit", ctx[r], n)
  BY <1>1, Here
<1>3. \A n \in Rows : db'[n] = View(r, n)
  BY DEF Commit, Committed
<1>4. Reads(db, "commit", ctx[r]) /\ (ctx[r].op \in BackingOps => ReadBacking(db, "commit", ctx[r]))
  BY <1>2 DEF OnItsWay, Reads
<1> QED BY <1>1, <1>2, <1>3, <1>4, Local DEF View

LEMMA CommitFlags ==
    ASSUME NEW l
    PROVE  /\ Inserted("commit", l) <=> BacksUp(l)
           /\ Repointed("commit", l) <=> BacksUp(l)
           /\ Dropped("commit", l) <=> l.op = "deleteBackup"
           /\ Saved("commit", l) <=> Saves(l.op)
           /\ Staged("commit", l) <=> l.op = "stageImport"
           /\ Reviewed("commit", l) <=> l.op \in {"stageImport", "applyImport"}
BY DEF Inserted, Repointed, Dropped, Saved, Staged, Reviewed, BacksUp, Saves

LEMMA CommitNames ==
    ASSUME TypeInv, Serial, NEW r \in Requests, Commit(r)
    PROVE  /\ ctx[r].op \in BackingOps => ctx[r].backup \in Backups
           /\ ctx[r].op = "deleteBackup" => ctx[r].victim \in Backups
           /\ ctx[r].op \in {"stageImport", "applyImport"} => ctx[r].cand \in Candidates
           /\ Target(ctx[r].op) \in Kinds
           /\ BacksUp(ctx[r]) => ctx[r].source \in SnapshotRow
           /\ ctx[r].op = "stageImport" => ctx[r].document \in Document
<1>1. Reads(db, "commit", ctx[r]) /\ ctx[r] \in Context
  BY Committing
<1>2. /\ ctx[r].op \in BackingOps => ctx[r].backup \in Backups
      /\ ctx[r].op = "deleteBackup" => ctx[r].victim \in Backups
  BY <1>1 DEF Reads, ReadBacking
<1>3. ctx[r].op = "stageImport" => ctx[r].cand \in Candidates /\ ctx[r].document \in Document
  BY <1>1, InstanceAssumption DEF Reads, ReadStage
<1>4. ctx[r].op = "applyImport" => ctx[r].cand \in Candidates
  BY <1>1 DEF Reads, ReadImport
<1>5. BacksUp(ctx[r]) => ctx[r].source \in SnapshotRow
  BY <1>1 DEF BacksUp, Context
<1> QED BY <1>2, <1>3, <1>4, <1>5, RowTargets

LEMMA CommitKinds ==
    ASSUME TypeInv, Serial, NEW r \in Requests, Commit(r), NEW k \in Kinds
    PROVE  db'[k] = IF Saves(ctx[r].op) /\ k = Target(ctx[r].op) THEN ctx[r].next ELSE db[k]
<1>1. k \in Rows /\ k # "state" /\ k \notin Backups \cup Candidates
  BY RowTypes, RowNames
<1>2. RowWritten(db, "commit", ctx[r], k) =
          IF Saves(ctx[r].op) /\ k = Target(ctx[r].op) THEN ctx[r].next ELSE Unwritten
  BY <1>1, CommitFlags, CommitNames DEF RowWritten, BacksUp
<1>3. Saves(ctx[r].op) => ctx[r].next # Unwritten
  <2>1. ctx[r].next \in SnapshotRow \cup {None}
    BY Committing DEF Context
  <2> QED BY <2>1, RowsAssumption
<1> QED BY <1>1, <1>2, <1>3, Committing

LEMMA CommitBackups ==
    ASSUME TypeInv, Serial, NEW r \in Requests, Commit(r), NEW b \in Backups
    PROVE  db'[b] = IF BacksUp(ctx[r]) /\ b = ctx[r].backup THEN ctx[r].source
                    ELSE IF ctx[r].op = "deleteBackup" /\ b = ctx[r].victim THEN None
                    ELSE db[b]
<1>1. b \in Rows /\ b # "state" /\ b \notin Kinds \cup Candidates
  BY RowTypes, RowNames
<1>2. RowWritten(db, "commit", ctx[r], b) =
          IF BacksUp(ctx[r]) /\ b = ctx[r].backup THEN ctx[r].source
          ELSE IF ctx[r].op = "deleteBackup" /\ b = ctx[r].victim THEN None
          ELSE Unwritten
  BY <1>1, CommitFlags, CommitNames DEF RowWritten
<1>3. None # Unwritten /\ (BacksUp(ctx[r]) => ctx[r].source # Unwritten)
  BY CommitNames, RowsAssumption
<1> QED BY <1>1, <1>2, <1>3, Committing

LEMMA CommitCandidates ==
    ASSUME TypeInv, Serial, NEW r \in Requests, Commit(r), NEW c \in Candidates
    PROVE  db'[c] = IF ctx[r].op = "stageImport" /\ c = ctx[r].cand THEN ctx[r].document ELSE db[c]
<1>1. c \in Rows /\ c # "state" /\ c \notin Kinds \cup Backups
  BY RowTypes, RowNames
<1>2. RowWritten(db, "commit", ctx[r], c) =
          IF ctx[r].op = "stageImport" /\ c = ctx[r].cand THEN ctx[r].document ELSE Unwritten
  BY <1>1, CommitFlags, CommitNames DEF RowWritten, BacksUp
<1>3. ctx[r].op = "stageImport" => ctx[r].document # Unwritten
  BY CommitNames, RowsAssumption
<1> QED BY <1>1, <1>2, <1>3, Committing

LEMMA CommitState ==
    ASSUME TypeInv, Serial, NEW r \in Requests, Commit(r)
    PROVE  /\ StateNow(db').current =
                  IF BacksUp(ctx[r]) THEN ctx[r].backup
                  ELSE IF ctx[r].op = "deleteBackup" /\ StateNow(db).current = ctx[r].victim THEN None
                  ELSE StateNow(db).current
           /\ StateNow(db').pending =
                  IF ctx[r].op = "stageImport" THEN ctx[r].cand
                  ELSE IF ctx[r].op = "applyImport" THEN None
                  ELSE StateNow(db).pending
<1> DEFINE w == StateRowWritten(db, "commit", ctx[r])
<1>1. StateNow(db) \in StateRow
  BY StateNowType
<1>2. db'["state"] = IF w = Unwritten THEN db["state"] ELSE w
  BY Committing, WrittenState, RowTypes
<1>3. CASE BacksUp(ctx[r]) \/ ctx[r].op \in {"stageImport", "applyImport"}
  <2>1. w = [current |-> IF BacksUp(ctx[r]) THEN ctx[r].backup ELSE StateNow(db).current,
             pending |-> IF ctx[r].op \notin {"stageImport", "applyImport"} THEN StateNow(db).pending
                         ELSE IF ctx[r].op = "stageImport" THEN ctx[r].cand ELSE None]
    BY <1>3, CommitFlags DEF StateRowWritten
  <2>2. w.current \in Backups \cup {None} /\ w.pending \in Candidates \cup {None}
    BY <1>1, <2>1, CommitNames DEF StateRow, BacksUp
  <2>3. w \in StateRow
    BY <2>1, <2>2 DEF StateRow
  <2>4. StateNow(db') = w
    BY <1>2, <2>3, RowsAssumption DEF StateNow
  <2>5. ctx[r].op = "deleteBackup" => ~BacksUp(ctx[r])
    BY DEF BacksUp
  <2> HIDE DEF w
  <2> QED BY <1>3, <2>1, <2>4, <2>5
<1>4. CASE ~BacksUp(ctx[r]) /\ ctx[r].op \notin {"stageImport", "applyImport"}
  <2> DEFINE cleared == ctx[r].op = "deleteBackup" /\ StateNow(db).current = ctx[r].victim
  <2>1. w = IF cleared THEN [StateNow(db) EXCEPT !.current = None] ELSE Unwritten
    BY <1>4, CommitFlags DEF StateRowWritten
  <2>2. CASE cleared
    <3>1. w \in StateRow /\ w.current = None /\ w.pending = StateNow(db).pending
      BY <1>1, <2>1, <2>2 DEF StateRow
    <3>2. StateNow(db') = w
      BY <1>2, <3>1, RowsAssumption DEF StateNow
    <3> HIDE DEF w
    <3> QED BY <1>4, <2>2, <3>1, <3>2
  <2>3. CASE ~cleared
    <3>1. db'["state"] = db["state"]
      BY <1>2, <2>1, <2>3
    <3>2. StateNow(db') = StateNow(db)
      BY <3>1 DEF StateNow
    <3> QED BY <1>4, <2>3, <3>2
  <2> QED BY <2>2, <2>3
<1> QED BY <1>3, <1>4

(***************************************************************************)
(* The ledger's variables, as functions of the committed rows.             *)
(***************************************************************************)
Current(d) == IF d["state"] = None THEN None ELSE d["state"].current

Pending(d) == IF d["state"] = None THEN None ELSE d["state"].pending

LEMMA Pointers ==
    ASSUME NEW d
    PROVE  Current(d) = StateNow(d).current /\ Pending(d) = StateNow(d).pending
BY DEF Current, Pending, StateNow, NoState

\* The operators on documents that the ledger uses are those of the handlers.
LEMMA LedgerOperators ==
    /\ \A p : Ledger!RowOf(p) = RowOf(p)
    /\ \A current, candidate, selection :
          /\ Ledger!Applicable(current, candidate, selection) <=> Applicable(current, candidate, selection)
          /\ Ledger!NextDraft(current, candidate, selection) = NextDraft(current, candidate, selection)
<1>1. \A p : Ledger!RowOf(p) = RowOf(p)
  BY DEF Ledger!RowOf, RowOf
<1>2. \A p, s : Ledger!Section(p, s) = Section(p, s)
  BY DEF Ledger!Section, Section
<1>3. \A candidate : Ledger!ReplaceableSections(candidate) = ReplaceableSections(candidate)
  BY DEF Ledger!ReplaceableSections, ReplaceableSections
<1>4. \A current, candidate, s, value :
          Ledger!ReviewOffers(current, candidate, s, value) = ReviewOffers(current, candidate, s, value)
  BY <1>2 DEF Ledger!ReviewOffers, ReviewOffers
<1>5. \A current, candidate, selection :
          Ledger!Applicable(current, candidate, selection) <=> Applicable(current, candidate, selection)
  BY <1>3, <1>4 DEF Ledger!Applicable, Applicable
<1>6. \A current, candidate, selection, s :
          Ledger!NextSection(current, candidate, selection, s) = NextSection(current, candidate, selection, s)
  BY <1>2 DEF Ledger!NextSection, NextSection
<1>7. \A current, candidate, selection :
          Ledger!NextBody(current, candidate, selection) = NextBody(current, candidate, selection)
  BY <1>6 DEF Ledger!NextBody, NextBody
<1>8. \A current, candidate, selection :
          Ledger!NextDraft(current, candidate, selection) = NextDraft(current, candidate, selection)
  BY <1>7 DEF Ledger!NextDraft, NextDraft
<1> QED BY <1>1, <1>5, <1>8

LEMMA CommitSaveDraft ==
    ASSUME TypeInv, Serial, NEW r \in Requests, Commit(r), ctx[r].op = "saveDraft"
    PROVE  \E p \in EditorPayloads : Ledger!SaveDraft(p)
<1>1. PICK p \in EditorPayloads : ctx[r].next = RowOf(p)
  BY Committing DEF Reads
<1>2. db'["draft"] = RowOf(p) /\ db'["published"] = db["published"]
  BY <1>1, CommitKinds DEF Kinds, Saves, Target
<1>3. \A b \in Backups : db'[b] = db[b]
  BY CommitBackups DEF BacksUp
<1>4. \A c \in Candidates : db'[c] = db[c]
  BY CommitCandidates
<1>5. Current(db') = Current(db) /\ Pending(db') = Pending(db)
  BY CommitState, Pointers DEF BacksUp
<1>6. Ledger!SaveDraft(p)
  BY <1>2, <1>3, <1>4, <1>5, LedgerOperators DEF Ledger!SaveDraft, Current, Pending
<1> QED BY <1>6

\* A commit that backs up a row registers it under a new id.
LEMMA CommitRegisters ==
    ASSUME TypeInv, Serial, NEW r \in Requests, Commit(r), BacksUp(ctx[r])
    PROVE  \E b \in Backups :
              /\ db[b] = None
              /\ [a \in Backups |-> db'[a]] = [[a \in Backups |-> db[a]] EXCEPT ![b] = ctx[r].source]
              /\ Current(db') = b
<1>1. ctx[r].backup \in Backups
  BY CommitNames DEF BacksUp
<1>2. PICK b \in Backups : b = ctx[r].backup
  BY <1>1
<1>3. db[b] = None
  BY <1>2, Committing DEF BacksUp, ReadBacking
<1>4. \A a \in Backups : db'[a] = IF a = b THEN ctx[r].source ELSE db[a]
  BY <1>2, CommitBackups DEF BacksUp
<1>5. Current(db') = b
  BY <1>2, CommitState, Pointers
<1>6. [a \in Backups |-> db'[a]] = [[a \in Backups |-> db[a]] EXCEPT ![b] = ctx[r].source]
  BY <1>4
<1> QED BY <1>3, <1>5, <1>6

LEMMA CommitPublish ==
    ASSUME TypeInv, Serial, NEW r \in Requests, Commit(r), ctx[r].op = "publish"
    PROVE  Ledger!Publish
<1>1. db["draft"] # None /\ ctx[r].next = db["draft"] /\ ctx[r].source = db["published"]
  BY Committing DEF Reads, ReadPublish, ReadBacking, SourceKind
<1>2. db'["published"] = db["draft"] /\ db'["draft"] = db["draft"]
  BY <1>1, CommitKinds DEF Kinds, Saves, Target
<1>3. \A c \in Candidates : db'[c] = db[c]
  BY CommitCandidates
<1>4. Pending(db') = Pending(db)
  BY CommitState, Pointers
<1>5. CASE db["published"] = None
  <2>1. ~BacksUp(ctx[r])
    BY <1>1, <1>5 DEF BacksUp
  <2>2. \A b \in Backups : db'[b] = db[b]
    BY <2>1, CommitBackups
  <2>3. Current(db') = Current(db)
    BY <2>1, CommitState, Pointers
  <2> QED BY <1>1, <1>2, <1>3, <1>4, <1>5, <2>2, <2>3 DEF Ledger!Publish, Current, Pending
<1>6. CASE db["published"] # None
  <2>1. BacksUp(ctx[r])
    BY <1>1, <1>6 DEF BacksUp
  <2>2. Ledger!Register(db["published"])
    BY <1>1, <2>1, CommitRegisters DEF Ledger!Register, Current
  <2> QED BY <1>1, <1>2, <1>3, <1>4, <1>6, <2>2 DEF Ledger!Publish, Pending
<1> QED BY <1>5, <1>6

LEMMA CommitCreateBackup ==
    ASSUME TypeInv, Serial, NEW r \in Requests, Commit(r), ctx[r].op = "createBackup"
    PROVE  Ledger!CreateBackup(db["draft"]) \/ Ledger!CreateBackup(db["published"])
<1>1. ctx[r].source # None /\ ctx[r].source = db[ctx[r].kind] /\ ctx[r].kind \in Kinds
  BY Committing DEF ReadBacking, SourceKind, Context
<1>2. db'["published"] = db["published"] /\ db'["draft"] = db["draft"]
  BY CommitKinds DEF Kinds, Saves
<1>3. \A c \in Candidates : db'[c] = db[c]
  BY CommitCandidates
<1>4. Pending(db') = Pending(db)
  BY CommitState, Pointers
<1>5. BacksUp(ctx[r])
  BY <1>1 DEF BacksUp
<1>6. CASE ctx[r].kind = "draft"
  <2>1. Ledger!Register(db["draft"])
    BY <1>1, <1>5, <1>6, CommitRegisters DEF Ledger!Register, Current
  <2> QED BY <1>1, <1>2, <1>3, <1>4, <1>6, <2>1 DEF Ledger!CreateBackup, Pending
<1>7. CASE ctx[r].kind = "published"
  <2>1. Ledger!Register(db["published"])
    BY <1>1, <1>5, <1>7, CommitRegisters DEF Ledger!Register, Current
  <2> QED BY <1>1, <1>2, <1>3, <1>4, <1>7, <2>1 DEF Ledger!CreateBackup, Pending
<1> QED BY <1>1, <1>6, <1>7 DEF Kinds

LEMMA CommitDeleteBackup ==
    ASSUME TypeInv, Serial, NEW r \in Requests, Commit(r), ctx[r].op = "deleteBackup"
    PROVE  \E b \in Backups : Ledger!DeleteBackup(b)
<1>0. PICK b \in Backups : b = ctx[r].victim
  BY CommitNames
<1>1. db[b] # None /\ ~BacksUp(ctx[r])
  BY <1>0, Committing DEF Reads, BacksUp
<1>2. db'["published"] = db["published"] /\ db'["draft"] = db["draft"]
  BY CommitKinds DEF Kinds, Saves
<1>3. \A c \in Candidates : db'[c] = db[c]
  BY CommitCandidates
<1>4. Pending(db') = Pending(db) /\ Current(db') = IF Current(db) = b THEN None ELSE Current(db)
  BY <1>0, <1>1, CommitState, Pointers
<1>5. \A a \in Backups : db'[a] = IF a = b THEN None ELSE db[a]
  BY <1>0, <1>1, CommitBackups
<1>6. [a \in Backups |-> db'[a]] = [[a \in Backups |-> db[a]] EXCEPT ![b] = None]
  BY <1>5
<1>7. Ledger!DeleteBackup(b)
  BY <1>1, <1>2, <1>3, <1>4, <1>6 DEF Ledger!DeleteBackup, Current, Pending
<1> QED BY <1>7

LEMMA CommitStage ==
    ASSUME TypeInv, Serial, NEW r \in Requests, Commit(r), ctx[r].op = "stageImport"
    PROVE  \E c \in Candidates, document \in Documents : Ledger!Stage(c, document)
<1>0. PICK c \in Candidates, document \in Documents : c = ctx[r].cand /\ document = ctx[r].document
  BY Committing DEF Reads, ReadStage
<1>1. /\ db[c] = None /\ \A other \in Candidates : db[other] # document
      /\ ~BacksUp(ctx[r])
  BY <1>0, Committing DEF Reads, ReadStage, BacksUp
<1>2. db'["published"] = db["published"] /\ db'["draft"] = db["draft"]
  BY CommitKinds DEF Kinds, Saves
<1>3. \A b \in Backups : db'[b] = db[b]
  BY <1>1, CommitBackups
<1>4. Pending(db') = c /\ Current(db') = Current(db)
  BY <1>0, <1>1, CommitState, Pointers
<1>5. \A a \in Candidates : db'[a] = IF a = c THEN document ELSE db[a]
  BY <1>0, CommitCandidates
<1>6. [a \in Candidates |-> db'[a]] = [[a \in Candidates |-> db[a]] EXCEPT ![c] = document]
  BY <1>5
<1>7. Ledger!Stage(c, document)
  BY <1>1, <1>2, <1>3, <1>4, <1>6 DEF Ledger!Stage, Current, Pending
<1> QED BY <1>7

LEMMA CommitApply ==
    ASSUME TypeInv, Serial, NEW r \in Requests, Commit(r), ctx[r].op = "applyImport"
    PROVE  \E c \in Candidates, selection \in Selections : Ledger!Apply(c, selection)
<1>0. PICK c \in Candidates, selection \in Selections :
          c = ctx[r].cand /\ selection = ctx[r].selection
  BY Committing DEF Reads, ReadImport
<1> DEFINE next == NextDraft(db["draft"].payload, db[c].payload, selection)
<1>1. /\ db[c] # None /\ Applicable(db["draft"].payload, db[c].payload, selection)
      /\ ctx[r].next = RowOf(next)
  BY <1>0, Committing DEF Reads, ReadImport
<1>2. ctx[r].source = db["draft"] /\ db["draft"] # None
  BY Committing DEF ReadBacking, SourceKind
<1>3. db'["published"] = db["published"] /\ db'["draft"] = RowOf(next)
  BY <1>1, CommitKinds DEF Kinds, Saves, Target
<1>4. \A a \in Candidates : db'[a] = db[a]
  BY CommitCandidates
<1>5. Pending(db') = None
  BY CommitState, Pointers
<1>6. BacksUp(ctx[r])
  BY <1>2 DEF BacksUp
<1>7. Ledger!Register(db["draft"])
  BY <1>2, <1>6, CommitRegisters DEF Ledger!Register, Current
<1>8. Ledger!Apply(c, selection)
  BY <1>1, <1>2, <1>3, <1>4, <1>5, <1>7, LedgerOperators DEF Ledger!Apply, Pending
<1> QED BY <1>8

\* A step that leaves the committed rows alone is a stutter of the ledger.
LEMMA LedgerStutter ==
    ASSUME \A n \in Rows : db'[n] = db[n]
    PROVE  UNCHANGED Ledger!vars
<1>1. db'["draft"] = db["draft"] /\ db'["published"] = db["published"] /\ db'["state"] = db["state"]
  BY RowTypes DEF Kinds
<1>2. [b \in Backups |-> db'[b]] = [b \in Backups |-> db[b]]
  BY RowTypes
<1>3. [c \in Candidates |-> db'[c]] = [c \in Candidates |-> db[c]]
  BY RowTypes
<1> QED BY <1>1, <1>2, <1>3 DEF Ledger!vars

LEMMA CommitNothing ==
    ASSUME TypeInv, Serial, NEW r \in Requests, Commit(r), ctx[r].op \in {"uploadAsset", "deleteAsset"}
    PROVE  UNCHANGED Ledger!vars
<1>1. ~BacksUp(ctx[r])
  BY DEF BacksUp
<1>2. \A n \in Rows : RowWritten(db, "commit", ctx[r], n) = Unwritten
  BY <1>1, CommitFlags DEF RowWritten, StateRowWritten, Saves
<1> QED BY <1>2, Committing, LedgerStutter

LEMMA CommitLedger ==
    ASSUME TypeInv, Serial, NEW r \in Requests, Commit(r)
    PROVE  [Ledger!Next]_(Ledger!vars)
<1>1. ctx[r].op \in {"saveDraft", "publish", "createBackup", "deleteBackup", "uploadAsset",
                     "deleteAsset", "stageImport", "applyImport"}
  BY Committing DEF OnItsWay, Path
<1> QED BY <1>1, CommitSaveDraft, CommitPublish, CommitCreateBackup, CommitDeleteBackup,
           CommitStage, CommitApply, CommitNothing DEF Ledger!Next

\* No other step changes a committed row.
LEMMA OnlyCommitsWrite ==
    ASSUME [Next]_vars, \A r \in Requests : ~Commit(r)
    PROVE  UNCHANGED db
<1>1. ASSUME NEW r \in Requests, Raise(r) PROVE UNCHANGED db
  BY <1>1 DEF Raise
<1>2. ASSUME NEW r \in Requests, Arrive(r) PROVE UNCHANGED db
  BY <1>2 DEF Arrive, SaveDraft, Publish, CreateBackup, DeleteBackup, UploadAsset, DeleteAsset,
              StageImport, ApplyImport, Begin, stores
<1>3. ASSUME NEW r \in Requests, BackupStep(r) PROVE UNCHANGED db
  BY <1>1, <1>3 DEF BackupStep, ReadDraftToPublish, ReadPublished, ReadSource, BundleAsset,
     WriteBundle, InsertBackup, PointSelect, PointFlush, SelectState, FlushState, ReadBackup,
     UnlinkBundle, SelectRow, DeleteRow, Unpoint, ClearCurrent, stores
<1>4. ASSUME NEW r \in Requests, SelectSnapshot(r) \/ FlushSnapshot(r) \/ AssetStep(r)
      PROVE UNCHANGED db
  BY <1>1, <1>4 DEF SelectSnapshot, FlushSnapshot, AssetStep, WriteAsset, CheckDraft, CheckPublished,
     CheckSnapshot, GetAsset, RemoveAsset, stores
<1>5. ASSUME NEW r \in Requests, ImportStep(r) PROVE UNCHANGED db
  BY <1>1, <1>5 DEF ImportStep, WriteCandidate, InsertCandidate, ReviewSelect, ReviewFlush,
     SelectState, FlushState, ReadCandidate, LoadCandidate, ReadDraftToImport, ProbeAsset,
     RestoreAsset, stores
<1>6. ASSUME NEW r \in Requests, EndStep(r), ~Commit(r) PROVE UNCHANGED db
  BY <1>6 DEF EndStep, DiscardBundle, Compensate, RemoveRestored
<1>7. ASSUME NEW r \in Requests, Fault(r) PROVE UNCHANGED db
  BY <1>1, <1>7 DEF Fault, CallFails, TornWrite, UndoFails
<1>8. CASE Crash \/ UNCHANGED vars
  BY <1>8 DEF Crash, vars
<1> QED BY <1>2, <1>3, <1>4, <1>5, <1>6, <1>7, <1>8 DEF Next, Step

LEMMA NextLedger ==
    ASSUME TypeInv, Serial, [Next]_vars
    PROVE  [Ledger!Next]_(Ledger!vars)
<1>1. CASE \E r \in Requests : Commit(r)
  BY <1>1, CommitLedger
<1>2. CASE \A r \in Requests : ~Commit(r)
  BY <1>2, OnlyCommitsWrite, LedgerStutter
<1> QED BY <1>1, <1>2

LEMMA InitLedger == Init => Ledger!Init
<1> SUFFICES ASSUME Init PROVE Ledger!Init
  OBVIOUS
<1>1. \A n \in Rows : db[n] = None
  BY DEF Init
<1> QED BY <1>1, RowTypes DEF Ledger!Init, Kinds

(***************************************************************************)
(* While the server works on one request at a time, a request depends on   *)
(* nothing but what it has read, and the transaction holds exactly the     *)
(* rows that the ledger's action writes.                                   *)
(***************************************************************************)
THEOREM SerialInvariant ==
    ASSUME MaxActive = 1, IsFiniteSet(Requests)
    PROVE  Spec => []Serial
<1>1. Init => TypeInv /\ Serial
  BY InitType, InitSerial
<1>2. TypeInv /\ Serial /\ [Next]_vars => TypeInv' /\ Serial'
  BY NextType, NextSerial
<1> QED BY <1>1, <1>2, PTL DEF Spec

(***************************************************************************)
(* One request at a time, every request is atomic: the committed rows      *)
(* change as ContentLedger says, whatever fails and whenever the process   *)
(* stops, also if a commit is applied and reported as failed.              *)
(***************************************************************************)
THEOREM RequestsAtomic ==
    ASSUME MaxActive = 1, IsFiniteSet(Requests)
    PROVE  Spec => RequestsAreAtomic
<1>1. Init => Ledger!Init
  BY InitLedger
<1>2. TypeInv /\ Serial /\ [Next]_vars => [Ledger!Next]_(Ledger!vars)
  BY NextLedger
<1> QED BY <1>1, <1>2, TypeInvariant, SerialInvariant, PTL DEF Spec, RequestsAreAtomic, Ledger!Spec

(***************************************************************************)
(* What follows for the committed rows.                                    *)
(***************************************************************************)
\* A row that the step replaces is replaced by the commit of the only request
\* under way.
LEMMA ReplacedByCommit ==
    ASSUME TypeInv, Serial, [Next]_vars, NEW n, Replaced(n)
    PROVE  \E r \in Requests : Commit(r)
BY OnlyCommitsWrite DEF Replaced

LEMMA NextPublish ==
    ASSUME TypeInv, Serial, [Next]_vars, Replaced("published")
    PROVE  BackedUp(db["published"])
<1>1. PICK r \in Requests : Commit(r)
  BY ReplacedByCommit
<1>2. ctx[r].op = "publish"
  BY <1>1, CommitKinds DEF Replaced, Kinds, Saves, Target
<1>3. ctx[r].source = db["published"]
  BY <1>1, <1>2, Committing DEF ReadBacking, SourceKind
<1>4. BacksUp(ctx[r])
  BY <1>2, <1>3 DEF BacksUp, Replaced
<1>5. ctx[r].backup \in Backups /\ db'[ctx[r].backup] = db["published"]
  BY <1>1, <1>3, <1>4, CommitNames, CommitBackups DEF BacksUp
<1> QED BY <1>5 DEF BackedUp

\* The import under way is the request that commits.
LEMMA ImportCommits ==
    ASSUME TypeInv, Serial, [Next]_vars, Replaced("draft"), NEW r \in Requests, At(r, "commit")
    PROVE  Commit(r)
<1>1. PICK q \in Requests : Commit(q)
  BY ReplacedByCommit
<1>2. pc[q] = "commit" /\ pc[r] = "commit"
  BY <1>1 DEF Commit, At
<1>3. q = r
  BY <1>2 DEF Serial, OneAtATime
<1> QED BY <1>1, <1>3

LEMMA NextImport ==
    ASSUME TypeInv, Serial, [Next]_vars, NEW r \in Requests, At(r, "commit"),
           ctx[r].op = "applyImport", Replaced("draft")
    PROVE  /\ BackedUp(db["draft"])
           /\ db["draft"].payload.review => db'["draft"].payload.review
<1>1. Commit(r)
  BY ImportCommits
<1>2. ctx[r].source = db["draft"]
  BY <1>1, Committing DEF ReadBacking, SourceKind
<1>3. BacksUp(ctx[r])
  BY <1>2 DEF BacksUp, Replaced
<1>4. ctx[r].backup \in Backups /\ db'[ctx[r].backup] = db["draft"]
  BY <1>1, <1>2, <1>3, CommitNames, CommitBackups DEF BacksUp
<1>5. db'["draft"] = ctx[r].next
  BY <1>1, CommitKinds DEF Kinds, Saves, Target
<1>6. \E document : ctx[r].next = RowOf(NextDraft(db["draft"].payload, document.payload, ctx[r].selection))
  BY <1>1, Committing DEF Reads, ReadImport
<1>7. db["draft"].payload.review => ctx[r].next.payload.review
  <2>1. PICK document :
            ctx[r].next = RowOf(NextDraft(db["draft"].payload, document.payload, ctx[r].selection))
    BY <1>6
  <2>2. ctx[r].next.payload = NextDraft(db["draft"].payload, document.payload, ctx[r].selection)
    BY <2>1 DEF RowOf
  <2>3. ctx[r].next.payload.review = (db["draft"].payload.review \/ document.payload.review)
    BY <2>2 DEF NextDraft
  <2> QED BY <2>3, Zenon
<1> QED BY <1>4, <1>5, <1>7 DEF BackedUp

\* The version column of a row is that of the document next to it.
Versioned(row) == row # None => row.version = row.payload.version

LEMMA NextVersion ==
    ASSUME TypeInv, Serial, [Next]_vars, VersionMatchesDocument
    PROVE  VersionMatchesDocument'
<1>1. \A n \in Kinds \cup Backups : Versioned(db[n])
  BY DEF VersionMatchesDocument, Versioned
<1>2. CASE \A r \in Requests : ~Commit(r)
  BY <1>2, OnlyCommitsWrite DEF VersionMatchesDocument
<1>3. ASSUME NEW r \in Requests, Commit(r) PROVE VersionMatchesDocument'
  <2>1. Reads(db, "commit", ctx[r]) /\ (ctx[r].op \in BackingOps => ReadBacking(db, "commit", ctx[r]))
    BY <1>3, Committing
  <2>2. \A p : Versioned(RowOf(p))
    BY DEF Versioned, RowOf
  <2>3. Saves(ctx[r].op) => Versioned(ctx[r].next)
    BY <1>1, <2>1, <2>2 DEF Saves, Reads, ReadPublish, ReadImport, Kinds
  <2>4. BacksUp(ctx[r]) => Versioned(ctx[r].source)
    <3>1. SourceKind(ctx[r]) \in Kinds
      BY <1>3, Committing DEF SourceKind, Kinds, Context
    <3> QED BY <1>1, <2>1, <3>1 DEF BacksUp, ReadBacking
  <2>5. \A k \in Kinds : Versioned(db'[k])
    BY <1>1, <1>3, <2>3, CommitKinds
  <2>6. \A b \in Backups : Versioned(db'[b])
    <3>1. Versioned(None)
      BY DEF Versioned
    <3> QED BY <1>1, <1>3, <2>4, <3>1, CommitBackups
  <2> QED BY <2>5, <2>6 DEF VersionMatchesDocument, Versioned
<1> QED BY <1>2, <1>3

\* No other step deletes an asset.
LEMMA OnlyRemovals ==
    ASSUME [Next]_vars, \A r \in Requests : ~RemoveAsset(r) /\ ~At(r, "removeRestored")
    PROVE  assets \subseteq assets'
<1>1. ASSUME NEW r \in Requests, Raise(r) PROVE assets \subseteq assets'
  BY <1>1 DEF Raise, files
<1>2. ASSUME NEW r \in Requests, Arrive(r) PROVE assets \subseteq assets'
  BY <1>2 DEF Arrive, SaveDraft, Publish, CreateBackup, DeleteBackup, UploadAsset, DeleteAsset,
              StageImport, ApplyImport, Begin, stores
<1>3. ASSUME NEW r \in Requests, BackupStep(r) PROVE assets \subseteq assets'
  BY <1>1, <1>3 DEF BackupStep, ReadDraftToPublish, ReadPublished, ReadSource, BundleAsset,
     WriteBundle, InsertBackup, PointSelect, PointFlush, SelectState, FlushState, ReadBackup,
     UnlinkBundle, SelectRow, DeleteRow, Unpoint, ClearCurrent, stores, files
<1>4. ASSUME NEW r \in Requests, SelectSnapshot(r) \/ FlushSnapshot(r) \/ AssetStep(r), ~RemoveAsset(r)
      PROVE assets \subseteq assets'
  BY <1>1, <1>4 DEF SelectSnapshot, FlushSnapshot, AssetStep, WriteAsset, CheckDraft, CheckPublished,
     CheckSnapshot, GetAsset, stores, files
<1>5. ASSUME NEW r \in Requests, ImportStep(r) PROVE assets \subseteq assets'
  BY <1>1, <1>5 DEF ImportStep, WriteCandidate, InsertCandidate, ReviewSelect, ReviewFlush,
     SelectState, FlushState, ReadCandidate, LoadCandidate, ReadDraftToImport, ProbeAsset,
     RestoreAsset, stores, files
<1>6. ASSUME NEW r \in Requests, EndStep(r), ~At(r, "removeRestored") PROVE assets \subseteq assets'
  BY <1>6 DEF EndStep, Commit, DiscardBundle, Compensate, RemoveRestored, files
<1>7. ASSUME NEW r \in Requests, Fault(r), ~At(r, "removeRestored") PROVE assets \subseteq assets'
  BY <1>1, <1>7 DEF Fault, CallFails, TornWrite, UndoFails
<1>8. CASE Crash \/ UNCHANGED vars
  BY <1>8 DEF Crash, vars
<1> QED BY <1>2, <1>3, <1>4, <1>5, <1>6, <1>7, <1>8 DEF Next, Step

LEMMA NextDeletion ==
    ASSUME TypeInv, Serial, [Next]_vars, NEW r \in Requests, NEW a \in Assets,
           At(r, "removeAsset"), a \in assets, a \notin assets'
    PROVE  \A k \in Kinds : ~Referenced(db[k], a)
<1>1. PICK q \in Requests : RemoveAsset(q) \/ At(q, "removeRestored")
  BY OnlyRemovals
<1>2. q = r
  BY <1>1 DEF RemoveAsset, At, Serial, OneAtATime
<1>3. RemoveAsset(r)
  BY <1>1, <1>2 DEF At
<1>4. a = ctx[r].asset
  BY <1>3 DEF RemoveAsset, Raise, files
<1>5. "removeAsset" \in Path(ctx[r].op) /\ Reads(db, "removeAsset", ctx[r])
  BY Here DEF At, OnItsWay
<1>6. ctx[r].op = "deleteAsset"
  BY <1>5 DEF Path
<1>7. ReadAssetUse(db, "removeAsset", ctx[r])
  BY <1>5, <1>6 DEF Reads
<1> QED BY <1>4, <1>7 DEF ReadAssetUse, Kinds

(***************************************************************************)
(* One request at a time: when publishing replaces the published version,  *)
(* the registry holds a backup of it from the same commit on               *)
(* (publish_draft_snapshot).                                               *)
(***************************************************************************)
THEOREM PublishBacksUp ==
    ASSUME MaxActive = 1, IsFiniteSet(Requests)
    PROVE  Spec => PublishBacksUpReplaced
<1>1. TypeInv /\ Serial /\ [Next]_vars => [Replaced("published") => BackedUp(db["published"])]_vars
  BY NextPublish
<1> QED BY <1>1, TypeInvariant, SerialInvariant, PTL DEF Spec, PublishBacksUpReplaced

(***************************************************************************)
(* One request at a time: when an import replaces the draft, the registry  *)
(* holds a backup of it from the same commit on                            *)
(* (apply_import_candidate_to_draft).                                      *)
(***************************************************************************)
THEOREM ImportBacksUp ==
    ASSUME MaxActive = 1, IsFiniteSet(Requests)
    PROVE  Spec => ImportBacksUpReplaced
<1>1. TypeInv /\ Serial /\ [Next]_vars =>
          [\A r \in Requests :
              /\ At(r, "commit") /\ pc'[r] # "commit"
              /\ ctx[r].op = "applyImport" /\ Replaced("draft")
              => BackedUp(db["draft"])]_vars
  BY NextImport
<1> QED BY <1>1, TypeInvariant, SerialInvariant, PTL DEF Spec, ImportBacksUpReplaced

(***************************************************************************)
(* One request at a time: an import keeps the draft's request for manual   *)
(* review, whatever is selected of the candidate.                          *)
(***************************************************************************)
THEOREM ImportKeepsReview ==
    ASSUME MaxActive = 1, IsFiniteSet(Requests)
    PROVE  Spec => ReviewSurvivesImport
<1>1. TypeInv /\ Serial /\ [Next]_vars =>
          [\A r \in Requests :
              /\ At(r, "commit") /\ pc'[r] # "commit"
              /\ ctx[r].op = "applyImport" /\ Replaced("draft")
              => (db["draft"].payload.review => db'["draft"].payload.review)]_vars
  BY NextImport
<1> QED BY <1>1, TypeInvariant, SerialInvariant, PTL DEF Spec, ReviewSurvivesImport

(***************************************************************************)
(* One request at a time: delete_asset never deletes a file that the       *)
(* draft or the published version refers to.                               *)
(***************************************************************************)
THEOREM DeletionSpares ==
    ASSUME MaxActive = 1, IsFiniteSet(Requests)
    PROVE  Spec => DeletionSparesReferenced
<1>1. TypeInv /\ Serial /\ [Next]_vars =>
          [\A r \in Requests, a \in Assets :
              /\ At(r, "removeAsset") /\ a \in assets /\ a \notin assets'
              => \A k \in Kinds : ~Referenced(db[k], a)]_vars
  BY NextDeletion
<1> QED BY <1>1, TypeInvariant, SerialInvariant, PTL DEF Spec, DeletionSparesReferenced

(***************************************************************************)
(* One request at a time: the version column of the draft, of the          *)
(* published version and of every backup is that of the document in the    *)
(* row, although UPDATE writes the two columns independently.              *)
(***************************************************************************)
THEOREM VersionsMatch ==
    ASSUME MaxActive = 1, IsFiniteSet(Requests)
    PROVE  Spec => []VersionMatchesDocument
<1>1. Init => VersionMatchesDocument
  BY RowTypes DEF Init, VersionMatchesDocument
<1>2. TypeInv /\ Serial /\ VersionMatchesDocument /\ [Next]_vars => VersionMatchesDocument'
  BY NextVersion
<1> QED BY <1>1, <1>2, TypeInvariant, SerialInvariant, PTL DEF Spec
=============================================================================
