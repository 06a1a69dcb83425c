--------------------------- MODULE MCContentAdmin ---------------------------
(***************************************************************************)
(* Small instances of ContentAdmin.                                        *)
(***************************************************************************)
EXTENDS ContentAdmin, TLC

CONSTANTS r1, r2, b1, b2, c1, c2, seed, photo

MCAssets == {seed, photo}
MCSections == {"hero", "docs"}
OneSection == {"hero"}
MCValues == {"text", "seed", "photo"}
MCAssetsOf == "text" :> {} @@ "seed" :> {seed} @@ "photo" :> {photo}
MCVersions == {"v1", "v2"}

Doc(version, review, body) == [version |-> version, review |-> review, body |-> body]

\* Plain documents, two of one schema version and one of another.
Plain1 == Doc("v1", FALSE, "hero" :> "text")
Other1 == Doc("v1", FALSE, "docs" :> "text")
Plain2 == Doc("v2", FALSE, "hero" :> "text")
\* A document that shows the uploaded photo.
Photo1 == Doc("v1", FALSE, "hero" :> "photo")
\* A document that asks for a manual review.
Review2 == Doc("v2", TRUE, "hero" :> "seed")

\* Candidates: one that carries the photo, one that wants another schema
\* version.
Bundle1 == [payload |-> Doc("v1", FALSE, "docs" :> "photo"), assets |-> {photo}]
Bundle2 == [payload |-> Doc("v2", TRUE, "docs" :> "text"), assets |-> {}]

Symmetry == Permutations(Requests) \cup Permutations(Backups) \cup Permutations(Candidates)

AllOps == {"saveDraft", "publish", "createBackup", "deleteBackup",
           "uploadAsset", "deleteAsset", "stageImport", "applyImport"}
SnapshotOps == {"saveDraft", "publish"}
BackupOps == {"saveDraft", "publish", "createBackup", "deleteBackup"}
AssetOps == {"saveDraft", "publish", "uploadAsset", "deleteAsset"}
ImportOps == {"saveDraft", "deleteBackup", "stageImport", "applyImport"}
LockingOps == {"saveDraft", "publish", "deleteBackup", "stageImport", "applyImport"}
AllButDeleteBackup == AllOps \ {"deleteBackup"}
NoOps == {}

Full == [mode |-> "full_replace"]
Partial(sections) == [mode |-> "partial_replace", sections |-> sections]
Fields(patches) == [mode |-> "field_replace", patches |-> patches]
AllSelections == {Full, Partial({"docs"}), Fields("docs" :> "text" @@ "hero" :> Removed)}
HeroSelections == {Full, Fields("hero" :> "text")}

OnePayload == {Plain1}
PlainPayloads == {Plain1, Plain2}
TornPayloads == {Plain1, Other1, Plain2}
PhotoPayloads == {Plain1, Photo1}
MixedPayloads == {Photo1, Review2}
\* A candidate with the section the editor works on.
HeroPhoto == [payload |-> Doc("v1", FALSE, "hero" :> "photo"), assets |-> {photo}]

OneHero == {HeroPhoto}
OneDocument == {Bundle1}
TwoDocuments == {Bundle1, Bundle2}
=============================================================================
