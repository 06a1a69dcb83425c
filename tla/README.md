# Verification of the portfolio's backend

This directory holds TLA+ models of the stateful parts of the portfolio (the FastAPI
backend under `src/backend`), the TLC configurations that check them on small instances,
and proofs, checked by TLAPS, of what holds for every instance. `PROJECT.json` lists the
components, runs, findings, hazards and theorems, and maps every definition to the lines
it translates.

Paths below are relative to `src/backend/app/modules/` unless they start with `src/`.

## 1. The system

The repository is a monorepo: a FastAPI backend with PostgreSQL and local file stores, a
React admin and a React public site, TypeScript modules shared by both, a CV importer
(Python, C++), a native diff engine (C++) and deployment scripts. The state that several
actors change, and that a failure can leave half changed, is in the backend.

| Part | State | Operations that change it | Model |
|---|---|---|---|
| Content administration (`content/application/admin_service.py`, `asset_bundle.py`) | rows `portfolio_snapshot` (draft, published); content files | save draft, publish, upload file, delete file | `ContentAdmin` |
| System administration (`system/application/admin_service.py`) | rows `backup_artifact`, `import_candidate`, `admin_content_state`; bundle files, candidate files | create and delete a backup, stage a candidate, apply it (whole, by section, by field) | `ContentAdmin` |
| Database schema (`src/backend/app/database/models`) | unique keys, the foreign key that clears the current backup, row locks | | inside `ContentAdmin` |
| Content files (`content/infrastructure/local_asset_storage.py`, `seed_assets.py`) | `payload.bin` and `metadata.json` of each asset | write, delete, restore, startup seeding | `AssetStorage`; as whole files in `ContentAdmin` |
| Public delivery of files (`content/api/router.py`) | none | download, preview with fallback | readers in `AssetStorage` |
| Import review (`system/application/import_field_review.py`) and comparison (`compare_service.py`) | none: functions of two documents; the panel keeps the review it shows | open a review, apply fields | `FieldReview`; by section in `ContentPayload` |
| Admin throttle (`authentication/application/admin_access_throttle.py`) | failure counters, locks, times of API calls | login tried, failed, succeeded; API called | `AdminThrottle` |
| Admin sessions (`authentication/`, `src/apps/admin/src/app/admin-auth-http-client.ts`) | none on the server: a signed cookie; a CSRF token per tab | log in, log out, reload, call the API | `AdminSession` |
| Analytics ingestion (`analytics/`) | remembered keys, spike buckets, daily and total rows, in-memory chart | session started, section viewed, action clicked | `AnalyticsIngest` |
| Client analytics (`src/modules/analytics`) | sent marks, rate bucket | emit an event | planned: `ClientAnalytics` |
| Admin editor (`src/apps/admin/src/app/app.tsx`) | the edited document, requests in flight | edit, save, import | login and review form in `AdminSession`, `FieldReview`; `DraftEditor` planned |
| Deployment (`src/scripts/deploy`) | release link, services, migrations | deploy, roll back | planned: `DeployRelease` |
| Resume conversion, public site, consent, localization, profile and projects modules, CV importer, native diff | none, or single writes of one actor | reads; batch conversions | not modelled |

How they interact. The admin editor calls the handlers of the content and system
administration over HTTP; the throttle and the session guard stand before them. The two
services share the database rows, the file stores and the backup block: publishing and
importing both create a backup first. Public delivery reads the published row and the
content files, which the startup handler completes before the server accepts requests. The client reports events to the analytics ingestion, which shares nothing
with the rest. The CV importer produces candidate documents, an input of staging.

What is hard. Every handler is a coroutine with an `await` at each database or file call,
so requests interleave there. A request's statements are one READ COMMITTED transaction;
rows are read without `FOR UPDATE`. Files are outside of that transaction and are undone
by hand in `except` clauses, which can fail themselves; a file is written in place, so a
write that raises can leave a part of it. A commit can be applied and reported as failed.
The process can stop anywhere. The throttle and the analytics keep
their decisions in memory, with sliding windows whose boundaries are easy to get wrong;
the analytics decide before an `await` and remember after it, and may write to one store
and take back from another. An asset is two files written and unlinked one after the other
by threads. A field selected in a review is applied to a draft that may have changed, one
patch after the other. The server verifies a session without remembering any, while the
tabs of a browser share the cookie and not the token that goes with it.

What makes each part correct:

- content and system administration: each request takes effect as a whole or not at all; a
  version that is replaced is backed up; no registered file is missing and one failing call
  leaves no file behind; the pointers of the state row are valid; no request waits for ever;
- throttle: no window holds more than its limit, nothing is refused below the limit, a
  `Retry-After` is kept up to its rounding, a lock runs its time, guessing is slow;
- content files: what can be described is whole; bundled and committed files stay; the
  public preview is answered; the next start completes what a stop has left;
- review: it shows exactly what differs, what is selected lands and nothing else changes,
  and a request is refused only if it selects a field that is no longer in the review. A
  field that has changed meanwhile and still differs is overwritten;
- sessions: a mutation is carried out under the session of its tab only, and refused only
  for a reason that the code gives;
- analytics: an event is counted once per window, a burst stays below the threshold, the
  counters agree with what was accepted and not taken back.

## 2. The modules

    ContentPayload        documents and the pure functions on them
      ContentLedger       abstract: what the administration promises
      ContentAdmin        the handlers; refines ContentLedger
        ContentAdminProofs        types; no file is left behind; rows, pointers, bundles
          ContentAdminSerialProofs  one request at a time: implements ContentLedger
        MCContentAdmin            instances for TLC
    AssetStorage          the files of assets, their writers, readers and the startup
      AssetStorageProofs          types; whole, bundled, kept and removed files; reads
      MCAssetStorage
    FieldReview           review, patches and comparison of two documents
      FieldReviewProofs           types; the review, its application, the comparison
      MCFieldReview
    AdminSession          cookie, guard and the tabs of a browser
      AdminSessionProofs          types, the guard, the panel
      MCAdminSession
    AdminThrottle         the throttle
      AdminThrottleProofs         windows, answers, locks, failures
      MCAdminThrottle
    AnalyticsIngest       deduplication, spikes, the two stores
      AnalyticsIngestProofs       types, deduplication, buckets, spikes, the two stores
      MCAnalyticsIngest
    NumberLemmas          least elements of sets of numbers; induction over numbers and finite sets

Definitions named `X_Something` beside an `X` are variants of `X`, as a plausible mistake
would have it; nothing refers to them. They record what each property is able to catch.

### ContentPayload, ContentLedger

A payload is a schema version, the flag `needsManualReview` and a function from top-level
sections to values; of a value only the files it refers to matter. `NextDraft`,
`Applicable` and `ReviewOffers` translate the replacement modes of
`apply_import_candidate_to_draft` and what the field review accepts, at the granularity of
sections.

`ContentLedger` is the promise, without files, sessions or failures: every operation is one
step on the draft, the published version, the registry of backups, the current backup, the
staged candidates and the candidate under review.

### ContentAdmin

| Model | Code |
|---|---|
| `pc[r]`, one label per `await` | where the coroutine of request `r` is suspended |
| `ctx[r]` | the local variables of the handler that a later step uses |
| `db[n]` | the committed version of a row: `"draft"`, `"published"`, `"state"`, a backup id, a candidate id |
| `tx[r][n]` | what the transaction of `r` has written; holding it is holding the row lock |
| `bundles`, `documents`, `assets` | backup bundles, candidate files, content files that exist |
| `strays` | history: the bundles and candidate files that a torn write or a failing `except` clause has left without a row |
| `Arrive(r)` | a request of any kind begins, with a fresh id where the code draws a `uuid4` |
| `Step(r)` | the next call of the handler returns |
| `Fault(r)`: `CallFails` | that call raises instead and has done nothing |
| `Fault(r)`: `TornWrite` | `write_bytes` of a bundle or a candidate raises after it has created the file; the handler has not got the path, so no `except` clause deletes it |
| `Fault(r)`: `UndoFails` | the rollback or an unlink in an `except` clause raises: what is not undone by then stays, and the transaction ends with the session |
| `SelectRow`, `DeleteRow`, `Unpoint` | `delete_backup_artifact`: the SELECT; the DELETE, which waits for the row and goes on with a warning if another one has deleted it; the foreign key `ON DELETE SET NULL`, for which the same statement waits while it holds the backup row |
| `Raise`, `DiscardBundle`, `Compensate`, `RemoveRestored` | the `except` clauses: rollback, then the files one by one |
| `Commit(r)` with `AckLoss` | the commit is applied, the client sees an error |
| `Crash` | the process stops: transactions vanish, files stay; seeding at the start copies missing files |

An action is everything between two awaits. A write waits while another transaction holds
the row (`Held`); a SELECT does not wait. `UpdatedRow` is what SQLAlchemy's unit of work
emits: only the columns that differ from what the session loaded. Unique and primary keys
make a flush raise. Left out: audit records (appended in the same transaction, decide
nothing), the wording of errors, checksums as such (two equal documents have equal ones;
`uq_import_candidate_checksum_sha256` is the comparison of documents). `delete_bundle` looks
for the file and then unlinks it; that a second deletion of the same backup finds it in
between and raises is one of the failures of `deleteBackup`.

### AdminThrottle

One action per use: `RefuseLogin`, `FailLogin`, `Login`, `CallApi`, and `Tick` for the clock.
The service runs one uvicorn worker and none of these calls contains an `await`, so each is
one step. The state is in memory: a behaviour is one run of the process. Time is a clock of
ticks that does not go back; `Second` is the number of ticks of a second, any positive
number, so that `time.time()` may be as fine as it likes. Locks and windows end at a tick;
a `Retry-After` is `max(1, ceil(...))` of the seconds to go, and `promised` records the time
that this names. `RefusalHolds` is therefore kept up to the rounding: whoever comes back a
second or more before the named time is refused, whoever comes less than a second before it
may find the lock over. Policy numbers are positive. `admitted`, `failed` and
`promised` are history variables: the calls let through, the failures of one key since its
last success, and any one of the `Retry-After` answers given. Each of the last two follows
one arbitrary key or answer, so what holds of it holds of all. The checks of session and
CSRF token change nothing here; they are in `AdminSession`.

### AssetStorage

`ContentAdmin` takes an asset for one object that is there or not. This module opens it up.

| Model | Code |
|---|---|
| `dirs`, `payload`, `metadata` | the directory, `payload.bin` and `metadata.json` of an asset; `Torn` is a file truncated or half written |
| `pc[r]`, `job[r]` | the file call at which a request, or the startup handler, is; its local variables |
| `LookUp`, `Check`, `Compare`, `MakeDir`, `OpenPayload`, `FillPayload`, `OpenMetadata`, `FillMetadata` | `write_asset` and the `get_asset` that its callers make before it; opening truncates, filling completes |
| `Commit` | the transaction: answered, failed, or applied and reported as failed (`Store(r, FALSE)`); the `except` clause takes the files back in both of the last two cases |
| `Inspect`, `Remove`, `Scan`, `Unlink`, `RemoveDir` | `delete_asset` of an administrator or of an `except` clause, and `shutil.rmtree`; when it raises in the loop of an `except` clause (`cause = "undo"`) the ids that are left stay |
| `Choose`, `ChooseRead`, `Fallback`, `Describe`, `Resolve`, `Send` | `_available_asset_id`, `get_asset`, `resolve_asset_path`, reading the bytes |
| `Start`, `Started`, `Crash` | the startup handler, and the container that is restarted when it raises |

Between two awaits nothing else runs, and each of these actions is what one thread call, or
one test between two awaits, sees of the files. A bundle that is imported was exported from
a version that referred to its files (`Exported`), and an uploaded id is a fresh `uuid4`
(`Unused`). `SeedOrder` holds the bundled files and the custom avatars that `seed_assets.py`
finds beside them, each with its source kind. `kept`, `unacked`, `removed`, `deleted` and
`raced` are history variables: `unacked` marks the kept files whose commit was reported as
failed, `raced` an asset that two processes have changed at once, about which nothing is
claimed but what the runs show to hold. File
names, sizes and the inspection of an SVG are abstracted: `Media` says which type a
signature shows, or none. `list_assets`, which only reads, is left out.

### FieldReview

A document is a tree of leaves, dictionaries and lists; a JSON pointer is the sequence of its
segments, and `@id=x` selects a list item. `Review` is `build_import_field_review`,
`ApplyPatches` is the loop of `apply_import_field_patches` over `ApplyPatch`: `Containers` is
`_resolve_parent` with what it creates on the way, `Replaced` the change of each container in
`_set_path` and `_remove_path`; `InReview` is the validation, `Stamp` the three
fields that the import adds (a missing or empty schema version becomes `portfolio.v1`),
`Compared` the Python comparison behind `SystemCompareService`.
Around these functions stand the actors: another editor saves, the reviewer opens a review,
selects fields in any order, edits some and applies. `Content` and `At` are the reference definitions: a
list whose items have ids of their own is a mapping, and the value under a path is looked
up, not computed. What recurs in the code is a recursive function here, on the depth
of the documents or on the number of patches. Entered values may nest deeper than the
documents of the model do: `ApplyFields` leaves such an application out, whatever `Depth` is.
That guard keeps `draft` a document by itself, so `TypeOK` is proved and is no
property of the run. Pointer escapes and the limits of 512 characters and 2000 fields are
abstracted. `Compared` speaks of a checkout of the repository without the native engine:
`content_diff_engine.py` loads the Python comparison from `tools/`, and `src/backend/Dockerfile`
neither copies `tools/` nor installs `content_diff_native`, so that in the image the
comparison raises. The native engine, where it is built, names the single section `content`
only and is not modelled.

### AdminSession

The server is a function of the request and the clock: `Valid` is `verify_signed_token`,
`GuardAnswer` the middleware, `NewToken` `create_session`; signatures are abstracted, so a
token is one that this server has issued. The state is in the browser: `jar` is the cookie
of all tabs, `csrf[t]` and `shown[t]` the module variable and the view of one. A request
takes cookie and header when it is sent, is answered in any order or lost (`Serve`,
`Lose`). The answer of a login or logout is handled in two steps: the browser stores or
deletes the cookie with the headers, for all tabs (`StoreCookie`), and the tab takes the
token when `await response.json()` has returned (`LoggedIn`, `LoggedOut`). In between other
answers may arrive, the page may be loaded anew, or the body may be lost, so that the jar
has a cookie whose token no tab knows. Any other answer changes nothing but the tab, at one
moment (`Expired`, `Resumed`, `Failed`, `Succeeded`). The throttle may refuse any request (`"error"`). `arrivals` and `epoch` are history
variables: how many logins have set the cookie, and at which of them the token of a tab was
that of the cookie.

### AnalyticsIngest

| Model | Code |
|---|---|
| `Deduplicate`, `Admit`, `Block` | `register_session_event` up to its `await`: prune, look the key up, shorten the bucket, decide |
| `Count`, `Revoke` | the repository call returns; an accepted event is then remembered and put into its bucket |
| `Lose` | a refused connection raises `OSError`, which neither the service nor the fallback catches |
| `Store` | `FallbackAnalyticsRepository`: the database; memory if that raises; both if a commit is applied but reported as failed |
| `Added`, `Blocked`, `TakenBack` | the upserts and the `greatest(... - n, 0)` updates |
| `Incremented`, `IncrementedBlocked`, `Decremented`, `Synced` | the chart of the last days and the total in memory |
| `Switch` | the database comes or goes |

The SQL statements are relative updates inside one transaction, so their effect is that of
one step at the commit; the coroutine resumes in the same step. `accepted`, `standing` and
`steady` are history variables. Views and clicks run the same code with other keys and
columns. Left out: `last_anomaly_at`, the rankings of the in-memory store, labels, the consent check
(it answers without touching anything) and the router's traffic filter.

## 3. The runs

| Run | Shape | States | Shows |
|---|---|---|---|
| `Serial` | one request at a time, all eight operations, any call may raise, lost acknowledgements, restarts | 1.16 M | every request is one step of `ContentLedger` or none (`RequestsAreAtomic`); `VersionMatchesDocument`, `PublishBacksUpReplaced`, `ImportBacksUpReplaced`, `ReviewSurvivesImport`, `DeletionSparesReferenced` |
| `Concurrent` | two requests interleaved, the operations that take row locks, any call of all but `deleteBackup` may raise, also in the middle of a write and in an `except` clause | 724 k | `RegisteredBundlePresent`, `NoOrphanFile`, `StatePointersValid`, `NoLockCycle` |
| `Answers` | the same, under fairness, any call may raise | 147 k | `EveryRequestAnswered`: no request waits for ever |
| `Throttle` | two logins, two addresses, lockouts of 1, 2, 3, 3 seconds, three seconds in ticks of half a second | 625 k | `ApiWindowBound`, `RefusedOnlyAtLimit`, `RefusalHolds`, `FailureSpacing`, `LockRunsItsTime` |
| `Assets` | two requests of any kind, four assets with a bundled file and a custom avatar, good, refused and broken entries, imports that restore up to two files, commits that fail or only seem to, two stops, fair startup | 1.45 M | `DescribedFilesWhole`, `SeedsServable`, `CommittedFilesStay`, `FetchedWhole`, `PreviewAnswered`, `RolledBackFilesGone` (the undo of a failed commit, file by file), and `StartupRecovers` |
| `Review` | every pair of 10 drafts and 17 candidates, one save, one application of any selection in any order, at most one edited value | 76 k | `ReviewIsTheDifference`, `SelectionExact`, `PatchesLand`, `RefusedOnlyWhenStale`, `ComparisonAgrees` |
| `Sessions` | two tabs, two requests in flight, two logins, two reloads, a session that expires | 1.5 M | `ForbiddenOnlyAfterOtherLogin`, `WritesUnderOwnSession`, `PanelLeftForReason` |
| `Ingest` | two keys, two rows in one burst, two deliveries at once, two days, keys remembered longer than their dedupe window, the database comes and goes | 373 k | `CountedOnce`, `BucketBound`, `SpikeBound`, `DatabaseExact`, `TotalsMatchDaysWhileSteady`, `FallbackExact` |

### 3.1 Counterexamples

Four more runs end in a counterexample: the code disagrees there with what a document,
docstring, test or schema comment of the repository says (`PROJECT.json`, "findings", quotes
each). They have a cause each of their own: a decision before an await, files outside of
the transaction, two stores, a file written in place.

| Run | Property | What happens |
|---|---|---|
| `RacingPublish` | `PublishBacksUpReplaced` | one publish reads that nothing is published and takes no backup; another one commits meanwhile; the first one finds its row in `save_snapshot` and replaces it, without a backup. From a published row on it is the same: both back up the old version, and the later one replaces that of the earlier |
| `FailedDelete` | `RegisteredBundlePresent` | the bundle is deleted, then the transaction fails: the registry lists a backup without its file |
| `Outage` | `TotalsMatchDays` | a burst counted in memory is taken back from the database: the all-time total loses sessions of another day |
| `TornSeed` | `StartupNeverFails` | a stop tears `metadata.json` of a bundled file; every later start raises and exits |

### 3.2 Further weaknesses of the same causes

These have no run of their own. Each is reached by changing the constants of a run that is here.

| Property | Reached by | What happens |
|---|---|---|
| `VersionMatchesDocument` | `Serial` with two requests, `MaxActive = 2`, `Ops <- SnapshotOps`, `EditorPayloads <- TornPayloads` | two saves write different columns of one row: the document of one, the schema version of the other |
| `DeletionSparesReferenced` | the same with `Ops <- AssetOps`, `EditorPayloads <- PhotoPayloads` | a save commits between the reference check of a file and its deletion |
| `ReviewEndsByOwnImport` | `Serial` with this property, `Candidates = {c1, c2}`, `Documents <- TwoDocuments` and `Ops <- ImportOps` | applying an older candidate ends the review of a newer one |
| `CountedOnce` | `Ingest` with `Overlap = TRUE` | an event is delivered again while its first delivery waits for the repository: both find the key unknown, as it is remembered after the await only, and both are counted, although `src/backend/app/modules/analytics/tests/test_service.py:60` says that a repeat within a short window does not duplicate the aggregates. The test delivers the second event after the first was answered |
| `CommittedFilesStay` | `Assets` with this property and `MaxImports = 2` | of two imports that restore one file the failing one deletes it, although the other has committed a draft that refers to it |
| `FailedImportLeavesNothing` | `Assets` with this property | an import that fails at its second entry leaves the first one |

Three more are consequences that the properties name and excuse:

- A COMMIT that is applied and reported as failed: the `except` clause deletes the bundle of a
  backup that is registered (`AckLoss`, left out of `Concurrent`), and the restored files of a
  draft that is committed (`unacked` in `CommittedFilesStay`).
- An undo that raises half-way leaves the rest: the files of an import, when an administrator
  deletes one of them meanwhile (`RolledBackFilesGone`); a bundle or candidate file, when the
  rollback or its own unlink raises (`strays` in `NoOrphanFile`). A write that raises after
  it has created the file leaves a part of it (`strays`, too); no row ever names it.
- A rollback of the analytics that ends in an `OSError` (`Lose`) leaves a burst counted that
  `SpikeBound` takes for taken back: what was handed to a rollback is out of `standing` at once.

A torn `metadata.json` of an uploaded file fails the whole list of files in the panel
(`local_asset_storage.py:131`); a token stays valid after a logout, as the server keeps no
list of sessions (`authentication/api/router.py:113`); a login or password with non-ASCII characters makes
`hmac.compare_digest` raise, so that the answer is 500 and the throttle counts no failure
(`admin_session_service.py:44`). No document promises otherwise.

### Bounds, and why they are enough

- Requests: every known conflict of the handlers is between two transactions on one or two
  rows; two requests interleave at every await. Circles of more than two waiting requests are
  excluded by `NoDeadlock`. `Concurrent` and `Answers` use one payload
  and few selections, because files and locks do not depend on the content; `Serial` uses two
  documents that differ in version, review flag and files, because the promises about content need
  them.
- Ids: two backups let one be replaced as the current one and deleted; two candidates let a
  newer one overtake. An id is used again after its row, its file and every request that
  knew it are gone, as a fresh `uuid4` would be.
- `Concurrent` leaves out restarts and lost acknowledgements, because the files they leave
  or take are consequences listed under hazards: a stop between writing a file and
  committing its row leaves the file, and a commit reported as failed deletes the bundle of
  a committed row. It leaves out failures of `deleteBackup`, which `FailedDelete` shows.
- `Throttle`: `OneAtATime` explores logins and API calls separately; they share the clock
  only. Half seconds are enough for a lock to end between two whole ones, so that rounding up
  and the minimum of a second both matter. Limits of one or two are reached several times
  within the six ticks, so escalation reaches the cap. The theorems hold for any `Second`.
- `Ingest`: keys are kept for two ticks and are duplicates for one, so a key may be remembered
  and be no duplicate any more. Two days of two ticks, threshold 2 and two slots: a burst crosses midnight,
  is blocked, overshoots and is taken back. The view `WhatMatters` forgets the contents of the two stores
  once the database has come or gone: no property that holds speaks of them then.
- `Assets`: two requests interleave at every file call; the assets are a bundled one, a custom
  avatar, one that is uploaded, restored and deleted, and one whose entry is broken. Two stops
  let one tear a file and the next meet what the restart makes of it. An import may restore
  two files, because an undo of two is the shortest that can end half-way. The constraint
  `TwoFilesWithoutStops` keeps that case small: once the second file has been there, no stop,
  no reader and no deletion of that file is explored, which all meet the first file in the
  same way; `StartupRecovers` is therefore not checked of a stop that comes then. One import
  at a time: with two the weakness above appears.
- `Review`: the documents have a dictionary and a list that is missing, null, empty, plain,
  stable or ambiguous, and items that differ in a field, in order or in existence. One
  application is enough, because each starts from any draft and any review of another one.
  `Depth` 3 is that of an item's field in a list; four patches are all fields of a pair of these
  documents. Two edited values in one request add states and no new case. The theorems
  cover documents and requests of any size.
- `Sessions`: a login in the other tab, a late answer, a reload and an expiry need two tabs
  and two requests; the theorems cover any number.
- `MaxClock` bounds the clocks; where it is reached the model may stop, hence
  `CHECK_DEADLOCK FALSE` in the runs with a clock, and in `Review`, where the bounded saves and applications run out. The content and asset runs check for deadlock.
- Symmetry is used where no property and no definition distinguishes the values, and never with
  a liveness property.

### Fairness

`FairSpec` assumes strong fairness of `Step(r)` for every request. The event loop runs each
coroutine that can proceed, and PostgreSQL grants a row lock to its waiters in order of
arrival, so a request that waits for a row that becomes free again and again is not passed
over for ever. Nothing is assumed about arrivals, faults or restarts.

In `AssetStorage`, `FairSpec` assumes weak fairness of `Start`, `Started` and the steps of
the startup handler only: the container is started again when it has stopped (`restart:
unless-stopped` in the compose files), and the handler awaits one thread call after the other with
nothing beside it. Nothing is assumed of requests.

## 4. The proofs

All are for every value of the constants that the named assumptions allow.

| Theorem | Statement | Argument |
|---|---|---|
| `TypeCorrect` | `Spec => []TypeOK` (ContentAdmin) | `TypeInv` adds `LocalsOK`: for each label, which local variables are set there. Without it the type of a row cannot be known when a step writes what an earlier one read. |
| `NoOrphans` | `~Crashes`: `Spec => []NoOrphanFile` | `FileInv`: an id belongs to one creating request and nobody sees it before the commit (`OwnBackup`); a transaction removes only the row whose file it deleted (`OwnRows`, `UnlinkedFirst`); an existing bundle is registered by its transaction or about to be (`BundleRegistered`); likewise for candidates. Most steps touch neither files nor their rows; lemma `Quiet` covers them. Holds with any faults and with lost acknowledgements; a file torn by its own write, and those of a request whose `except` clause fails as well, are in `strays` and left out. |
| `RowsHeldByOne` | `Spec => []RowsExclusive` | no two transactions hold versions of one row: of the shared rows because a writer waits for the lock, of backups and candidates because nobody sees another's id before the commit |
| `PointersValid` | `~AckLoss`: `Spec => []StatePointersValid` | a transaction that has written the state row holds it until it ends; its pointers are its own new rows, or committed ones that nobody can delete under it. Holds with any faults and with stops. |
| `NoDeadlock` | `Spec => []NoLockCycle` | `LocksInOrder`: at each label, which rows the transaction may hold; it writes backups and candidates first, then the state row, a snapshot last, and the import that returns to the state row holds it already. So whoever is waited for and waits itself has come further, and there are three ranks (`WaitsUpwards`). Holds for any number of requests, with any faults, stops and lost acknowledgements. |
| `BundlesPresent` | `~Crashes`, `~AckLoss`, no failing `deleteBackup`: `Spec => []RegisteredBundlePresent` | a registered backup implies that the state row exists, so what a deletion does after it has unlinked the file cannot raise, unless another deletion of the same backup has taken the row. Torn writes and failing `except` clauses of the other operations included |
| `RequestsAtomic` | one request at a time: `Spec => ContentLedger!Spec` under the mapping (`RequestsAreAtomic`) | `Serial`: at each label the local variables of the request at work agree with the committed rows that they were read from (`Reads`), and the rows its transaction holds are what the operation of the ledger writes (`RowWritten`). Every step but a commit is a stutter. Stops, failures and lost acknowledgements anywhere. |
| `PublishBacksUp`, `ImportBacksUp`, `ImportKeepsReview`, `DeletionSpares`, `VersionsMatch` | one request at a time: `PublishBacksUpReplaced`, `ImportBacksUpReplaced`, `ReviewSurvivesImport`, `DeletionSparesReferenced`, `VersionMatchesDocument` | from `Serial` |
| `StorageTypes` | `Spec => []TypeOK` (AssetStorage) | `TypeInv` adds `EntryInHand`: who works on an entry has one, and its asset is the one looked up |
| `DescribedFilesStayWhole` | `Spec => []DescribedFilesWhole` | `Orderly` says, for each process that writes or removes an asset, what its files are at that label, and that nobody else has the asset unless it is marked as raced. `DescribedFilesWhole` alone is not inductive: that the payload was filled before the metadata is known only from the writer's label. |
| `SeedsStayServable` | `Spec => []SeedsServable` | `SeedInv`: no request works on a bundled file: an upload has a new id, an import finds the file there, a deletion refuses its source kind; only the startup handler writes it, and it has finished before the server answers |
| `FetchedStaysWhole`, `PreviewIsAnswered` | `FetchedWhole`, `PreviewAnswered` | `Reading`: an asset that was not disturbed keeps the description that its reader was given |
| `CommittedFilesKept`, `RolledBackFilesRemoved` | imports do not overlap: `CommittedFilesStay`, `RolledBackFilesGone` | `KeptInv`: the files of two writing requests are apart, so a rollback takes only what its own request has written. What is kept is what answered commits have stored (`unacked` is left out); what is taken back is everything up to a removal that raises, which only a file that an administrator has deleted meanwhile makes happen |
| `ReviewTypes` | `Spec => []TypeOK` (FieldReview) | part of `ReviewInv`: the review on the screen is that of some document, which need not be the draft any more, and the last application was a request of such a review |
| `ReviewDifferenceShown` | `Spec => []ReviewIsTheDifference` | `ReviewPaths`: the fields are the paths at which the comparison part by part ends with a difference. `ContentSame`: two nodes have the same content exactly if they differ at no such path, by induction over the depth |
| `RefusedWhenStale` | `Spec => []RefusedOnlyWhenStale` | `Kept`: what the review looks into stays dictionaries and lists, and the items it names stay ahead of whatever was entered, so that no patch of a request meets a node it cannot change; by induction over the patches |
| `PatchesLandThere` | `Spec => []PatchesLand` | a patch changes what is at the end of its path and nothing beside it; the paths of two fields are not within each other. `Steady`, beside `Kept`: as long as the ids are kept no list has the same id twice |
| `SelectionIsExact` | `Spec => []SelectionExact` | the same, and that the new draft opens at the same paths as the old one: where it was sent the candidate's value there is no difference left, elsewhere nothing has changed |
| `ComparisonsAgree` | `Spec => []ComparisonAgrees` | `ContentSame` for each section; a section without a path that was sent is the one of the draft before. Sections where one side has null and the other nothing are excepted: the review has a field there and the comparison takes both for nothing |
| `SessionTypes` | `Spec => []TypeOK` (AdminSession) | direct |
| `PanelAlwaysHasToken` | `Spec => []PanelHasToken` | from `TokensTracked` below |
| `RefusedForOtherLogin`, `OnlyOwnSessionWrites` | `ForbiddenOnlyAfterOtherLogin`, `WritesUnderOwnSession` | `SessionInv`: a token that a tab has, or is about to be given, is that of the cookie exactly if no login has arrived since (`TokensTracked`), where a login arrives when its cookie is stored, before its token is read; the token of a login that was not read yet is nowhere else (`UnreadIsNew`); an answer fits the request it answers (`AnswersFit`) |
| `PanelStays` | `PanelLeftForReason` | `AnswersFit`: a 401 is the answer to an invalid cookie, and time only makes cookies invalid |
| `ThrottleTypes` | types; no lock is further away than `LockoutMax` | direct |
| `ApiWindows`, `ApiRefusals` | `ApiWindowBound`, `RefusedOnlyAtLimit` | `WindowInv`: what is remembered is a suffix of the calls let through, and what is forgotten is older than the window |
| `AnswersAreKept` | `RefusalHolds` | `AnswerInv` ties each answer to the lock, or to the remembered call, that it waits for; `ceil` and the minimum add less than a second to it, whatever `Second` is |
| `LocksRunTheirTime` | `LockRunsItsTime` | no step that changes a counter is enabled while its key is locked |
| `GuessingIsSlow` | `Spec => []FailureSpacing` | `SpacingInv`: each failure that a counter has forgotten without a success is out of the window, or a lockout of at least the first level began after it; `2^n` is positive and grows, by induction |
| `IngestTypes` | `Spec => []ControlTypes` (AnalyticsIngest) | direct; a shortened bucket is a sequence because a set of positions has a least element |
| `EventsCountedOnce` | `~Overlap`: `Spec => []CountedOnce` | `KeyInv`: what is remembered of a key is its latest acceptance, and a forgotten one is older than every window; a delivery in flight came a window after all acceptances, and there is one per key. Keys may be kept longer than their dedupe window |
| `BucketsStayBounded` | `Spec => []BucketBound` | a bucket and the deliveries in flight for it are together fewer than the threshold and the slots |
| `SpikesTakenBack` | `Spec => []SpikeBound` | `StandingInv`: of each key, the events in the window are in the bucket as often as they stand; `SpikeInv`: those that stand and those in flight, of every window, are fewer than the threshold and the slots. An event stops standing when it is handed to a rollback; that the rollback reaches the store is `RowsShowWhatCounts`, which claims nothing after a loss |
| `RowsShowWhatCounts`, `TotalsAddUp` | `DatabaseExact`, `TotalsMatchDaysWhileSteady` | `DatabaseInv`: a row is the sum of what stands, so a rollback never takes more than it shows and the floor at zero is not reached |
| `FallbackShowsWhatCounts` | `Spec => []FallbackExact` | `MemoryInv`, and `FoldDecremented`: what a rollback does event by event, by induction over the stages of the fold |

Assumptions: `RowsAssumption`, `InstanceAssumption` (ids, kinds and sentinels differ; inputs
are of their types), `PayloadAssumption`, `ThrottleAssumption` (positive limits and lockouts),
`StorageAssumption`, `SeedAssumption`, `InputAssumption` (the two sentinels are no file; seed
entries are bundled files or custom avatars; uploads are uploads), `SessionAssumption` (bounds are numbers, no cookie is not a token),
`TreesAssumption` (`id` and the three system fields are keys; ids, the versions, `portfolio.v1`
among them, and the two truth values are values; two ids have two segments, what is saved, imported and entered is made of keys and values),
`IngestAssumption` (finite slots, positive threshold, the dedupe window is at most the one
that keys are kept for, as `max` in `_prune_recent_events` makes sure).
`RowsAssumption` says of the sentinels `None` and `Unwritten` that they are no row and no document.

Hypotheses of single theorems, and why they are made:

- `EventsCountedOnce`: an event does not come again while it is in flight (section 3.2).
- `NoOrphans`, `BundlesPresent`: the process is not stopped; between a file and its commit it
  leaves one without the other.
- `PointersValid`, `BundlesPresent`: the outcome of a COMMIT is known. Otherwise an
  except clause deletes the file of a row whose commit was applied.
- `BundlesPresent`: no statement of a deletion fails after the unlink (section 3.1).
- The theorems of `ContentAdminSerialProofs`: one request at a time (section 3.2 shows what
  two can do), and finitely many requests, because `MaxActive` bounds a cardinality.
- `CommittedFilesKept`, `RolledBackFilesRemoved`: at most one import runs (two may write the
  same asset, section 3.2), and finitely many requests, as `MaxImports` bounds a cardinality.
- The theorems on the stores and on spikes: finitely many rows, because they sum over
  them. Routes, locales and modes are strings of bounded length.

An induction is made over sets: `NumberLemmas` has the least element of a set of numbers,
`NumberInduction` (a set that has zero, and with a number the next one, has all numbers) and
`FiniteInduction` (a collection of subsets of a finite set that has `{}` and is closed under
adding an element has the set), none of which takes an operator as a parameter. By them
sums, powers of two, folds, trees and the patches of a request are within reach. That a
recursive function is the one its definition describes is proved first, by constructing it
(`NodesExist` and its like).

Model-checked only: `EveryRequestAnswered` and `StartupRecovers`, because liveness and ENABLED
are out of the reach of the prover as installed. Of the properties that a run checks and that
hold, every other one is proved.

## 5. What is not modelled, and the plan

Done, in this order: `ContentPayload`, `ContentLedger`, `ContentAdmin`, because the published
content and its backups are what the system is for; `AdminThrottle` and `AnalyticsIngest`,
which decide on state in memory; `AssetStorage`, the files below the rows; `FieldReview`, the
largest pure algorithm of the backend; `AdminSession`, which stands before all of it. To
follow:

1. Proofs: the refinement of `ContentLedger` with concurrent requests that do not share a row.
2. `DraftEditor`: edits made while a save is in flight, the answer of which replaces the
   edited document; composed with the draft row of `ContentLedger` and the tabs of
   `AdminSession`.
3. `ClientAnalytics`: sent marks set before delivery, the rate bucket; composed with
   `AnalyticsIngest`, replacing its constant `Overlap` by what the client does; the rankings
   of the memory store (`in_memory_repository.py:178-240`) beside it.
4. `DeployRelease`: migration, release switch, health check, rollback.

The project has as many runs as it has questions: a new counterexample shares a run with
those of the same cause (section 3.2).

Not modelled for good: reads that decide nothing (the published snapshot, meta tags,
dashboards, `list_assets`), resume conversion and CV importer (batch text heuristics without state), the
native diff engine (the images copy no `tools/` and install no `content_diff_native`; it
names the section `content` only), `last_anomaly_at` (no code decides on it),
rendering, consent, localization and static data.
