---------------------------- MODULE AssetStorage ----------------------------
(***************************************************************************)
(* LocalContentAssetStorage, file by file.  ContentAdmin takes a stored    *)
(* asset for one object that is there or not; here it is a directory with  *)
(* two files, payload.bin and then metadata.json, each of which is         *)
(* truncated before it is written.  The module composes the storage with   *)
(* everything that works on it: the seeding at startup, uploads, imports   *)
(* that restore bundled files and take them back when they fail, deletion, *)
(* and the readers (public downloads, the social preview, the bundling of  *)
(* a backup).  File calls run in threads, so requests interleave between   *)
(* any two of them, and the process may stop between any two.  A commit    *)
(* may fail, and it may be applied and be reported as failed.              *)
(***************************************************************************)
EXTENDS Naturals, Sequences, FiniteSets

CONSTANTS
    Requests,    \* request slots of the server
    Startup,     \* the startup handler
    Assets,      \* asset ids
    Contents,    \* what a payload may be
    Media,       \* Media[c]: the type that the signature of c shows
    SeedOrder,   \* the bundled files and the custom avatars, as they are seeded
    Bundles,     \* the assets lists of the candidates that may be imported
    Offers,      \* the files an administrator may upload
    Default,     \* the id of the default preview
    MaxImports,  \* imports in flight at once
    MaxCrashes,  \* bound: how often the process stops
    Absent,      \* no such file
    Torn         \* a file that is truncated or half written

Processes == Requests \cup {Startup}

MediaTypes == {"pdf", "image", "svg"}

Sources == {"upload", "seed", "custom_avatar", "backup_restore"}

\* A file to write: the declared type may be missing; "sound" says that the
\* bundle entry is complete and that its checksum is that of its bytes.
Entry == [asset : Assets, content : Contents, declared : MediaTypes \cup {"none"},
          source : Sources, sound : BOOLEAN]

Description == [content : Contents, source : Sources]

Seeds == {SeedOrder[i].asset : i \in DOMAIN SeedOrder}

ASSUME StorageAssumption ==
    /\ Startup \notin Requests
    /\ {Absent, Torn} \cap (Contents \cup Description) = {}
    /\ Absent # Torn
    /\ Media \in [Contents -> MediaTypes \cup {"unsupported"}]
    /\ MaxImports \in Nat /\ MaxCrashes \in Nat

\* The bundled files are seeded as "seed", the avatars that the image or the
\* checkout holds as "custom_avatar", under an id made of the file's name.
ASSUME SeedAssumption ==
    /\ SeedOrder \in Seq(Entry) /\ SeedOrder # <<>>
    /\ \A i \in DOMAIN SeedOrder : SeedOrder[i].source \in {"seed", "custom_avatar"}
    /\ Default \in Seeds

ASSUME InputAssumption ==
    /\ Bundles \subseteq Seq(Entry) \ {<<>>}
    /\ Offers \subseteq Entry
    /\ \A e \in Offers : e.source = "upload"

VARIABLES
    up,        \* "down", "starting" or "up"
    crashes,   \* how often the process has stopped
    dirs,      \* ids whose directory exists
    payload,   \* payload[a]: payload.bin of a
    metadata,  \* metadata[a]: metadata.json of a
    pc,        \* the file call at which each process is
    job,       \* its local variables
    kept,      \* history: ids that a commit has stored and no administrator has deleted
    unacked,   \* history: those of them whose commit was reported as failed
    removed,   \* history: the last removal of an id: "never", "begun" or "completed"
    deleted,   \* history: ids that an administrator has deleted
    raced      \* history: ids that two processes have changed at once

files == <<dirs, payload, metadata>>
history == <<kept, unacked, removed, deleted, raced>>
vars == <<up, crashes, files, pc, job, history>>

NoJob ==
    [op       |-> "none",
     asset    |-> Default,
     queue    |-> <<>>,     \* entries still to be written, the current one first
     fresh    |-> FALSE,    \* was the asset missing when it was looked up?
     restored |-> {},       \* ids to be removed (again)
     created  |-> {},       \* ids whose files this request has written
     seen     |-> Absent,   \* the description that a reader was given
     got      |-> Absent,   \* the payload that it read afterwards
     todo     |-> {},       \* directory entries that rmtree has listed
     cause    |-> "none"]   \* what made the request fail

Current(r) == Head(job[r].queue)

Intact(file) == file \notin {Absent, Torn}

Whole(a) ==
    /\ a \in dirs
    /\ Intact(metadata[a])
    /\ payload[a] = metadata[a].content

(***************************************************************************)
(* Control.                                                                *)
(***************************************************************************)
WriteLabels == {"makeDir", "openPayload", "fillPayload", "openMetadata", "fillMetadata"}
RemoveLabels == {"unlink", "removeDir"}
ReadLabels == {"choose", "chooseRead", "fallback", "describe", "resolve", "send"}

Labels == {"idle", "lookup", "check", "compare", "ready", "commit", "inspect",
           "remove", "scan", "done", "failed"}
          \cup WriteLabels \cup RemoveLabels \cup ReadLabels

At(r, label) == pc[r] = label

GoTo(r, label) == pc' = [pc EXCEPT ![r] = label]

Fail(r, cause) ==
    /\ GoTo(r, "failed")
    /\ job' = [job EXCEPT ![r].cause = cause]
    /\ UNCHANGED files

Changes(r, a) == pc[r] \in WriteLabels \cup RemoveLabels /\ job[r].asset = a

\* r begins to change the files of a; history only.
BeginChange(r, a) ==
    raced' = IF \E q \in Processes \ {r} : Changes(q, a) THEN raced \cup {a} ELSE raced

(***************************************************************************)
(* Arrivals.                                                               *)
(***************************************************************************)
Begin(r, label, locals) ==
    /\ up = "up"
    /\ At(r, "idle")
    /\ GoTo(r, label)
    /\ job' = [job EXCEPT ![r] = locals]
    /\ UNCHANGED <<up, crashes, files, history>>

\* The ids of the files that a request writes, has written or may take back.
Mine(r) ==
    job[r].restored \cup job[r].created
        \cup {job[r].queue[i].asset : i \in DOMAIN job[r].queue}

Mentions(r, a) == a \in Mine(r) \/ (pc[r] # "idle" /\ job[r].asset = a)

\* uuid4: an id that nothing in the system refers to.
Unused(a) ==
    /\ a \notin dirs \cup kept \cup Seeds
    /\ \A r \in Processes : ~Mentions(r, a)

\* upload_asset: write_asset under a new id.
Upload(r) ==
    \E e \in Offers :
        /\ Unused(e.asset)
        /\ Begin(r, "check", [NoJob EXCEPT !.op = "upload", !.asset = e.asset,
                                           !.queue = <<e>>, !.fresh = TRUE])

Imports == {r \in Requests : job[r].op = "import"}

\* A bundle comes from a backup of a version that refers to its files: it
\* names no file whose upload has not been answered yet.
Exported(bundle) ==
    \A q \in Requests, i \in DOMAIN bundle :
        job[q].op = "upload" => job[q].asset # bundle[i].asset

\* restore_bundled_assets on behalf of apply_import_candidate_to_draft.
Import(r) ==
    \E bundle \in Bundles :
        /\ Exported(bundle)
        /\ Cardinality(Imports) < MaxImports
        /\ Begin(r, "lookup", [NoJob EXCEPT !.op = "import", !.queue = bundle])

Delete(r) ==
    \E a \in Assets :
        Begin(r, "inspect", [NoJob EXCEPT !.op = "delete", !.asset = a])

\* A public download, or one file of a backup bundle.
Fetch(r) ==
    \E a \in Assets :
        Begin(r, "describe", [NoJob EXCEPT !.op = "fetch", !.asset = a])

\* social-preview, favicon: the id that the published version configures, or
\* the default one if it configures none.
Preview(r) ==
    \E a \in Assets :
        Begin(r, "choose", [NoJob EXCEPT !.op = "preview", !.asset = a])

\* _configured_asset_id returned something that is not an asset id.
PreviewOfNoAsset(r) ==
    Begin(r, "fallback", [NoJob EXCEPT !.op = "preview"])

(***************************************************************************)
(* write_asset.                                                            *)
(***************************************************************************)
\* The signature names a supported type and the declared type, if there is
\* one, is the same.
Accepted(e) == Media[e.content] # "unsupported" /\ e.declared \in {"none", Media[e.content]}

\* What follows when the entry at the head of the queue is done with.
AfterEntry(r) ==
    IF Tail(job[r].queue) # <<>> THEN "lookup"
    ELSE IF job[r].op = "seed" THEN "ready" ELSE "commit"

NextEntry(r, restored, created) ==
    /\ GoTo(r, AfterEntry(r))
    /\ job' = [job EXCEPT ![r].queue = Tail(@), ![r].restored = restored, ![r].created = created]

\* get_asset before a write: the seeding skips what it can describe, the
\* import goes on to write_asset with the checked bytes; both take only
\* FileNotFoundError for a missing file.
LookUp(r) ==
    LET e == Current(r)  file == metadata[e.asset] IN
    /\ At(r, "lookup")
    /\ UNCHANGED <<up, crashes, files, history>>
    /\ \/ /\ file = Torn \/ (job[r].op = "import" /\ ~e.sound)
          /\ Fail(r, "entry")
       \/ /\ Intact(file) /\ job[r].op = "seed"
          /\ NextEntry(r, {}, job[r].created)
       \/ /\ file # Torn
          /\ job[r].op = "import" => e.sound
          /\ job[r].op = "seed" => file = Absent
          /\ GoTo(r, "check")
          /\ job' = [job EXCEPT ![r].asset = e.asset, ![r].fresh = (file = Absent)]

\* Variant of Check: an existing asset is written again.
Check_Overwrites(r) ==
    /\ At(r, "check")
    /\ UNCHANGED <<up, crashes, files, kept, unacked, removed, deleted>>
    /\ \/ /\ ~Accepted(Current(r))
          /\ Fail(r, "entry")
          /\ UNCHANGED raced
       \/ /\ Accepted(Current(r))
          /\ GoTo(r, "makeDir")
          /\ BeginChange(r, job[r].asset)
          /\ UNCHANGED job

\* The validation and the test whether the asset exists.
Check(r) ==
    /\ At(r, "check")
    /\ UNCHANGED <<up, crashes, files, kept, unacked, removed, deleted>>
    /\ \/ /\ ~Accepted(Current(r))
          /\ Fail(r, "entry")
          /\ UNCHANGED raced
       \/ /\ Accepted(Current(r))
          /\ metadata[job[r].asset] # Absent
          /\ GoTo(r, "compare")
          /\ UNCHANGED <<job, raced>>
       \/ /\ Accepted(Current(r))
          /\ metadata[job[r].asset] = Absent
          /\ GoTo(r, "makeDir")
          /\ BeginChange(r, job[r].asset)
          /\ UNCHANGED job

\* Variant of Restored: an existing asset is reported as restored, too.
Restored_Always(r) == job[r].restored \cup {job[r].asset}

Restored(r) == job[r].restored \cup (IF job[r].fresh THEN {job[r].asset} ELSE {})

\* An existing asset with the same checksum is left as it is.
Compare(r) ==
    LET file == metadata[job[r].asset] IN
    /\ At(r, "compare")
    /\ UNCHANGED <<up, crashes, files, history>>
    /\ \/ /\ Intact(file) /\ file.content = Current(r).content
          /\ NextEntry(r, Restored(r), job[r].created)
       \/ /\ Intact(file) => file.content # Current(r).content
          /\ Fail(r, "entry")

\* Variant of MakeDir: without exist_ok.
MakeDir_Strict(r) ==
    /\ At(r, "makeDir")
    /\ UNCHANGED <<up, crashes, history>>
    /\ \/ job[r].asset \in dirs /\ Fail(r, "entry")
       \/ /\ job[r].asset \notin dirs
          /\ dirs' = dirs \cup {job[r].asset}
          /\ GoTo(r, "openPayload")
          /\ UNCHANGED <<payload, metadata, job>>

MakeDir(r) ==
    /\ At(r, "makeDir")
    /\ dirs' = dirs \cup {job[r].asset}
    /\ GoTo(r, "openPayload")
    /\ UNCHANGED <<up, crashes, payload, metadata, job, history>>

\* open(.., "w"), which truncates, fails when rmtree has taken the directory.
OpenPayload(r) ==
    /\ At(r, "openPayload")
    /\ UNCHANGED <<up, crashes, history>>
    /\ \/ job[r].asset \notin dirs /\ Fail(r, "entry")
       \/ /\ job[r].asset \in dirs
          /\ payload' = [payload EXCEPT ![job[r].asset] = Torn]
          /\ GoTo(r, "fillPayload")
          /\ UNCHANGED <<dirs, metadata, job>>

\* The file after a write into it: nothing if it was unlinked meanwhile, a
\* mixture if another writer has put something else into it.
Filled(file, new) ==
    IF file = Absent THEN {Absent} ELSE IF file \in {Torn, new} THEN {new} ELSE {new, Torn}

\* Variant of FillPayload: the thread that writes the bytes is not awaited.
FillPayload_NotAwaited(r) ==
    /\ At(r, "fillPayload")
    /\ GoTo(r, "openMetadata")
    /\ UNCHANGED <<up, crashes, files, job, history>>

FillPayload(r) ==
    /\ At(r, "fillPayload")
    /\ \E file \in Filled(payload[job[r].asset], Current(r).content) :
          payload' = [payload EXCEPT ![job[r].asset] = file]
    /\ GoTo(r, "openMetadata")
    /\ UNCHANGED <<up, crashes, dirs, metadata, job, history>>

OpenMetadata(r) ==
    /\ At(r, "openMetadata")
    /\ UNCHANGED <<up, crashes, history>>
    /\ \/ job[r].asset \notin dirs /\ Fail(r, "entry")
       \/ /\ job[r].asset \in dirs
          /\ metadata' = [metadata EXCEPT ![job[r].asset] = Torn]
          /\ GoTo(r, "fillMetadata")
          /\ UNCHANGED <<dirs, payload, job>>

\* Variant of Describing: the source kind is not stored.
Describing_NoSource(e) == [content |-> e.content]

Describing(e) == [content |-> e.content, source |-> e.source]

FillMetadata(r) ==
    /\ At(r, "fillMetadata")
    /\ \E file \in Filled(metadata[job[r].asset], Describing(Current(r))) :
          metadata' = [metadata EXCEPT ![job[r].asset] = file]
    /\ NextEntry(r, Restored(r), job[r].created \cup {job[r].asset})
    /\ UNCHANGED <<up, crashes, dirs, payload, history>>

(***************************************************************************)
(* The transaction around an upload or an import.                          *)
(***************************************************************************)
\* COMMIT is applied; answered tells whether the request hears of it.
Store(r, answered) ==
    LET stored == job[r].created \ deleted IN
    /\ kept' = kept \cup stored
    /\ unacked' = IF answered THEN unacked \ stored ELSE unacked \cup stored

\* Variant of Commit: the files of a failed transaction stay.
Commit_KeepsFiles(r) ==
    /\ At(r, "commit")
    /\ UNCHANGED <<up, crashes, files, removed, deleted, raced>>
    /\ \/ /\ Store(r, TRUE)
          /\ GoTo(r, "done")
          /\ UNCHANGED job
       \/ /\ Store(r, FALSE) \/ UNCHANGED <<kept, unacked>>
          /\ job' = [job EXCEPT ![r].cause = "commit"]
          /\ GoTo(r, "failed")

\* A commit that raises may have been applied all the same: the except clause
\* cannot tell, and takes the files back in both cases.
Commit(r) ==
    /\ At(r, "commit")
    /\ UNCHANGED <<up, crashes, files, removed, deleted, raced>>
    /\ \/ /\ Store(r, TRUE)
          /\ GoTo(r, "done")
          /\ UNCHANGED job
       \/ /\ Store(r, FALSE) \/ UNCHANGED <<kept, unacked>>
          /\ job' = [job EXCEPT ![r].cause = "commit"]
          /\ GoTo(r, IF job[r].restored = {} THEN "failed" ELSE "remove")

(***************************************************************************)
(* delete_asset, for an administrator and for the except clauses.          *)
(***************************************************************************)
\* Variant of Inspect: the source kind is not looked at.
Inspect_AnySource(r) ==
    /\ At(r, "inspect")
    /\ UNCHANGED <<up, crashes, files, history>>
    /\ \/ /\ Intact(metadata[job[r].asset])
          /\ GoTo(r, "remove")
          /\ job' = [job EXCEPT ![r].restored = {job[r].asset}]
       \/ /\ ~Intact(metadata[job[r].asset])
          /\ Fail(r, "entry")

Inspect(r) ==
    LET file == metadata[job[r].asset] IN
    /\ At(r, "inspect")
    /\ UNCHANGED <<up, crashes, files, history>>
    /\ \/ /\ Intact(file) /\ file.source = "upload"
          /\ GoTo(r, "remove")
          /\ job' = [job EXCEPT ![r].restored = {job[r].asset}]
       \/ /\ Intact(file) => file.source # "upload"
          /\ Fail(r, "entry")

\* delete_asset of one of the ids.  When it raises, here or in rmtree, the
\* loop of the except clause ends and the ids that are left stay.
Remove(r) ==
    /\ At(r, "remove")
    /\ UNCHANGED <<up, crashes, files, history>>
    /\ \E a \in job[r].restored :
         \/ /\ Intact(metadata[a])
            /\ GoTo(r, "scan")
            /\ job' = [job EXCEPT ![r].asset = a]
         \/ /\ ~Intact(metadata[a])
            /\ GoTo(r, "failed")
            /\ job' = [job EXCEPT ![r].asset = a, ![r].cause = "undo"]

Present(a) ==
    (IF payload[a] = Absent THEN {} ELSE {"payload"})
    \cup (IF metadata[a] = Absent THEN {} ELSE {"metadata"})

\* shutil.rmtree lists the directory ...
Scan(r) ==
    LET a == job[r].asset IN
    /\ At(r, "scan")
    /\ UNCHANGED <<up, crashes, files>>
    /\ \/ a \notin dirs /\ Fail(r, "undo") /\ UNCHANGED history
       \/ /\ a \in dirs
          /\ GoTo(r, "unlink")
          /\ job' = [job EXCEPT ![r].todo = Present(a)]
          /\ BeginChange(r, a)
          /\ removed' = [removed EXCEPT ![a] = "begun"]
          /\ deleted' = IF job[r].op = "delete" THEN deleted \cup {a} ELSE deleted
          /\ kept' = kept \ deleted'
          /\ UNCHANGED unacked

\* ... unlinks what it has listed, in any order, missing or not ...
Unlink(r) ==
    /\ At(r, "unlink")
    /\ UNCHANGED <<up, crashes, dirs, history>>
    /\ \/ /\ job[r].todo = {}
          /\ GoTo(r, "removeDir")
          /\ UNCHANGED <<payload, metadata, job>>
       \/ \E f \in job[r].todo :
            /\ payload' = IF f = "payload" THEN [payload EXCEPT ![job[r].asset] = Absent] ELSE payload
            /\ metadata' = IF f = "metadata" THEN [metadata EXCEPT ![job[r].asset] = Absent] ELSE metadata
            /\ job' = [job EXCEPT ![r].todo = @ \ {f}]
            /\ UNCHANGED pc

\* ... and removes the directory, which raises when it is gone or not empty.
RemoveDir(r) ==
    LET a == job[r].asset  left == job[r].restored \ {a} IN
    /\ At(r, "removeDir")
    /\ UNCHANGED <<up, crashes, kept, unacked, deleted, raced>>
    /\ \/ /\ a \notin dirs \/ Present(a) # {}
          /\ Fail(r, "undo")
          /\ UNCHANGED removed
       \/ /\ a \in dirs /\ Present(a) = {}
          /\ dirs' = dirs \ {a}
          /\ removed' = [removed EXCEPT ![a] = "completed"]
          /\ job' = [job EXCEPT ![r].restored = left]
          /\ GoTo(r, IF left # {} THEN "remove" ELSE IF job[r].op = "delete" THEN "done" ELSE "failed")
          /\ UNCHANGED <<payload, metadata>>

(***************************************************************************)
(* Readers.                                                                *)
(***************************************************************************)
\* Variant of ChooseRead: metadata that cannot be parsed is not caught.
ChooseRead_OnlyMissing(r) ==
    LET file == metadata[job[r].asset] IN
    /\ At(r, "chooseRead")
    /\ UNCHANGED <<up, crashes, files, history>>
    /\ \/ ~Intact(file) /\ Fail(r, "entry")
       \/ /\ Intact(file)
          /\ GoTo(r, "describe")
          /\ UNCHANGED job

\* _available_asset_id: get_asset of the configured id, a test and a read; a
\* file that cannot be found or understood leads to the default, one that
\* vanishes between the two raises an error that nobody handles.
Choose(r) ==
    /\ At(r, "choose")
    /\ GoTo(r, IF metadata[job[r].asset] = Absent THEN "fallback" ELSE "chooseRead")
    /\ UNCHANGED <<up, crashes, files, job, history>>

ChooseRead(r) ==
    LET file == metadata[job[r].asset] IN
    /\ At(r, "chooseRead")
    /\ UNCHANGED <<up, crashes, files, history>>
    /\ \/ file = Absent /\ Fail(r, "entry")
       \/ /\ file # Absent
          /\ GoTo(r, IF file = Torn THEN "fallback" ELSE "describe")
          /\ UNCHANGED job

Fallback(r) ==
    /\ At(r, "fallback")
    /\ UNCHANGED <<up, crashes, files, history>>
    /\ \/ ~Intact(metadata[Default]) /\ Fail(r, "entry")
       \/ /\ Intact(metadata[Default])
          /\ GoTo(r, "describe")
          /\ job' = [job EXCEPT ![r].asset = Default]

\* get_asset, then resolve_asset_path or read_asset_bytes, which call it
\* again, then the bytes themselves.
Describe(r) ==
    LET file == metadata[job[r].asset] IN
    /\ At(r, "describe")
    /\ UNCHANGED <<up, crashes, files, history>>
    /\ \/ ~Intact(file) /\ Fail(r, "entry")
       \/ /\ Intact(file)
          /\ GoTo(r, "resolve")
          /\ job' = [job EXCEPT ![r].seen = file]

Resolve(r) ==
    /\ At(r, "resolve")
    /\ UNCHANGED <<up, crashes, files, history>>
    /\ \/ ~Intact(metadata[job[r].asset]) /\ Fail(r, "entry")
       \/ Intact(metadata[job[r].asset]) /\ GoTo(r, "send") /\ UNCHANGED job

Send(r) ==
    LET file == payload[job[r].asset] IN
    /\ At(r, "send")
    /\ UNCHANGED <<up, crashes, files, history>>
    /\ \/ file = Absent /\ Fail(r, "entry")
       \/ /\ file # Absent
          /\ GoTo(r, "done")
          /\ job' = [job EXCEPT ![r].got = file]

(***************************************************************************)
(* The life of a request, and of the process.                              *)
(***************************************************************************)
Answer(r) ==
    /\ r \in Requests
    /\ pc[r] \in {"done", "failed"}
    /\ GoTo(r, "idle")
    /\ job' = [job EXCEPT ![r] = NoJob]
    /\ UNCHANGED <<up, crashes, files, history>>

Start ==
    /\ up = "down"
    /\ up' = "starting"
    /\ GoTo(Startup, "lookup")
    /\ job' = [job EXCEPT ![Startup] = [NoJob EXCEPT !.op = "seed", !.queue = SeedOrder]]
    /\ UNCHANGED <<crashes, files, history>>

\* The server accepts requests once the startup handler has returned; if it
\* raises, the process exits and is started again (restart: unless-stopped).
Started ==
    /\ pc[Startup] \in {"ready", "failed"}
    /\ up' = IF At(Startup, "ready") THEN "up" ELSE "down"
    /\ GoTo(Startup, "idle")
    /\ job' = [job EXCEPT ![Startup] = NoJob]
    /\ UNCHANGED <<crashes, files, history>>

Crash ==
    /\ up # "down"
    /\ crashes < MaxCrashes
    /\ crashes' = crashes + 1
    /\ up' = "down"
    /\ pc' = [r \in Processes |-> "idle"]
    /\ job' = [r \in Processes |-> NoJob]
    /\ UNCHANGED <<files, history>>

Init ==
    /\ up = "down"
    /\ crashes = 0
    /\ dirs = {}
    /\ payload = [a \in Assets |-> Absent]
    /\ metadata = [a \in Assets |-> Absent]
    /\ pc = [r \in Processes |-> "idle"]
    /\ job = [r \in Processes |-> NoJob]
    /\ kept = {} /\ unacked = {} /\ deleted = {} /\ raced = {}
    /\ removed = [a \in Assets |-> "never"]

Arrive(r) ==
    \/ Upload(r) \/ Import(r) \/ Delete(r) \/ Fetch(r) \/ Preview(r) \/ PreviewOfNoAsset(r)

WriteStep(r) ==
    \/ LookUp(r) \/ Check(r) \/ Compare(r) \/ MakeDir(r)
    \/ OpenPayload(r) \/ FillPayload(r) \/ OpenMetadata(r) \/ FillMetadata(r)

RemoveStep(r) ==
    Commit(r) \/ Inspect(r) \/ Remove(r) \/ Scan(r) \/ Unlink(r) \/ RemoveDir(r)

ReadStep(r) ==
    \/ Choose(r) \/ ChooseRead(r) \/ Fallback(r)
    \/ Describe(r) \/ Resolve(r) \/ Send(r)

Step(r) == WriteStep(r) \/ RemoveStep(r) \/ ReadStep(r) \/ Answer(r)

Next ==
    \/ \E r \in Requests : Arrive(r)
    \/ \E r \in Processes : Step(r)
    \/ Start \/ Started \/ Crash

Spec == Init /\ [][Next]_vars

\* The startup handler runs on, and the container is restarted when it has
\* stopped; nothing is assumed of requests.
FairSpec == Spec /\ WF_vars(Start) /\ WF_vars(Started) /\ WF_vars(Step(Startup))

(***************************************************************************)
(* Properties.                                                             *)
(***************************************************************************)
Job ==
    [op : {"none", "seed", "upload", "import", "delete", "fetch", "preview"},
     asset : Assets, queue : Seq(Entry), fresh : BOOLEAN,
     restored : SUBSET Assets, created : SUBSET Assets,
     seen : Description \cup {Absent}, got : Contents \cup {Absent, Torn},
     todo : SUBSET {"payload", "metadata"},
     cause : {"none", "entry", "commit", "undo"}]

\* Every variable has its type.
TypeOK ==
    /\ up \in {"down", "starting", "up"}
    /\ crashes \in 0..MaxCrashes
    /\ dirs \subseteq Assets
    /\ payload \in [Assets -> Contents \cup {Absent, Torn}]
    /\ metadata \in [Assets -> Description \cup {Absent, Torn}]
    /\ pc \in [Processes -> Labels]
    /\ job \in [Processes -> Job]
    /\ kept \subseteq Assets /\ unacked \subseteq Assets
    /\ deleted \subseteq Assets /\ raced \subseteq Assets
    /\ removed \in [Assets -> {"never", "begun", "completed"}]

\* An asset that can be described has the payload it describes, wherever the
\* process has been stopped: payload.bin is complete before metadata.json
\* appears (write_asset).  Only a removal that was begun and not completed, or
\* two processes that changed the same asset at once, can make it otherwise.
DescribedFilesWhole ==
    \A a \in Assets \ raced : Intact(metadata[a]) /\ removed[a] # "begun" => Whole(a)

\* While the server answers requests every bundled file is in the storage,
\* whole (seed_bundled_portfolio_assets: "guarantees the presence"): no
\* deletion, failed import or restart takes it away.
SeedsServable == up = "up" => \A a \in Seeds : Whole(a)

\* What a commit has stored stays, whole, until an administrator deletes it:
\* no rollback takes a file of another request, wherever the removals and
\* writes of the others stand.  The exception is a commit that was applied
\* and reported as failed: its own except clause removes the files that the
\* committed version refers to.
CommittedFilesStay == \A a \in kept \ unacked : Whole(a)

\* A reader that was given a description gets the payload it describes, or
\* nothing; only the removal of the asset or a second writer can mix the two.
FetchedWhole ==
    \A r \in Requests :
        /\ pc[r] = "done" /\ job[r].op \in {"fetch", "preview"}
        /\ job[r].asset \notin raced /\ removed[job[r].asset] = "never"
        => job[r].got = job[r].seen.content

\* The public preview is answered: it falls back to the default whatever has
\* become of the configured file, unless that file is removed under its hands.
PreviewAnswered ==
    \A r \in Requests :
        pc[r] = "failed" /\ job[r].op = "preview" =>
            job[r].asset \in raced \/ removed[job[r].asset] # "never"

\* An upload or import whose commit raises leaves none of the files it has
\* written, but for those that an administrator has deleted (the except
\* clauses of upload_asset and apply_import_candidate_to_draft) - unless the
\* loop that takes them back has raised itself, and it does so only at a file
\* that an administrator has deleted meanwhile.
RolledBackFilesGone ==
    \A r \in Requests :
        pc[r] = "failed" /\ job[r].op \in {"upload", "import"} /\ job[r].cause \in {"commit", "undo"} =>
            \/ \A a \in job[r].created \ deleted : metadata[a] = Absent /\ payload[a] = Absent
            \/ job[r].cause = "undo" /\ job[r].asset \in deleted

\* A failed import leaves none of the files it has written.  The code keeps
\* this at the commit only (RolledBackFilesGone): an error in the middle of
\* restore_bundled_assets leaves the files restored so far.
FailedImportLeavesNothing ==
    \A r \in Requests :
        pc[r] = "failed" /\ job[r].op = "import" => job[r].created \cap dirs = {}

\* The startup handler never raises: it completes the storage it finds.
StartupNeverFails == ~At(Startup, "failed")

\* Wherever the process was stopped, the next start completes the storage and
\* serves again, unless a bundled file was stopped between the truncation and
\* the end of its metadata.json.
StartupRecovers == []<>(up = "up" \/ \E a \in Seeds : metadata[a] = Torn)
=============================================================================
