# A TLA+ model of the document classifier

This directory specifies the document classifier of `docclassifier-week6`: how a
scanned file becomes a job, a prediction and a status that a user reads, and what
remains true when files are half written, calls fail, processes die and requests
overlap. TLC checks small instances of the modules; TLAPS proves the safety
properties for every value of the constants. `PROJECT.json` lists the runs, the
mutants that show each property can fail, the source lines each definition stands
for, the findings and the hazards. Paths below are relative to
`src/docclassifier-week6/`.

## Inventory

| Part | State it keeps | Operations | Interacts with |
|---|---|---|---|
| SFTP ingestion (`app/infra/sftp_watcher.py`, `app/workers/sftp_ingest.py`) | `_seen`, names handled since the process started | poll, create a batch, download, validate, quarantine, upload, enqueue | drop directory, Postgres, MinIO, RQ |
| Upload endpoint (`app/api/routers/upload.py`) | none between requests | validate, create a batch, upload and enqueue each file | Postgres, MinIO, RQ |
| Inference worker (`app/workers/inference_worker.py`) | none between jobs | download, predict, overlay, mark processing, insert, mark done | RQ, MinIO, Postgres, cache |
| Batch service (`app/services/batch_service.py`) | `batches`, `audit_logs` | `create_batch`, `_transition` | Postgres, cache |
| Prediction service (`app/services/prediction_service.py`) | `predictions` | `save_prediction`, `relabel` | Postgres, cache |
| Blob store, queue (`app/infra/blob.py`, `queue.py`) | MinIO objects, the RQ queue and its registries | upload, download, exists; enqueue | everyone above |
| User administration (`app/services/user_service.py`) | `users`, `audit_logs` | create, change role, delete, list | Postgres, cache |
| Response cache (`app/infra/cache.py`, the `@cache` routes) | Redis entries with an expiry | fill on read, delete after commit | every service |
| Access control (`casbin/`, `app/api/main.py`) | the policy table, the rules in memory | seed on first boot, enforce | every route |
| Login limiter (`app/api/main.py`) | attempts per address | admit or refuse | the login route |
| Authentication and secrets (`app/api/routers/auth.py`, `app/infra/vault.py`) | the signing key, in Vault | sign and check tokens | every route |
| Startup checks (`app/api/main.py`, `app/classifier/model.py`, `scripts/seed_admin.py`) | none | verify weights, key and policy, seed an admin | Postgres, Vault |
| Network, overlay, evaluation (`app/classifier/`) | the loaded weights | predict, draw | the worker |
| Dashboard (`streamlit-dashboard.py`) | session state of a browser | HTTP calls | the API |

The processes share nothing but the stores, take no locks, and commit in small
transactions. What is hard about them:

* the three writes of a job (`mark_processing`, the insert, `mark_done`) are three
  transactions, and sibling jobs of a batch run them in any order or at once;
* `_transition` reads, checks and then updates by id: not atomic under READ
  COMMITTED;
* the watcher reads files other programs are writing, forgets what it did when it
  restarts, and retries some failures but not others;
* every call may fail before or after it took effect;
* a cached read queries, and stores what it found later, whatever was committed and
  deleted meanwhile; the deletes of a write follow its commit one by one;
* the dashboard runs its whole script again at every click, on data it loads anew;
* the API is made of what it found when it started and of what Vault, which forgets,
  holds now;
* RQ re-runs a job an operator requeues, from the top.

`PROJECT.json` lists each of these hazards at its line, with the property that would
notice it going wrong, or a note saying why none does.

What makes each part correct:

* stores: a row never refers to an object that is missing; a batch reads done only
  with something to show; a finished job left its row; audit rows form a path;
* watcher: no file twice in one run of the process; nothing rejected is stored; what
  is marked as seen was stored; transient errors only delay; rejected files settle;
* upload: an answer of 200 means one job per file, under its name, and the bytes of the
  last file of each name;
* worker: every job settles; rows are accounted for by jobs and requeues; a finished
  job's batch is done; batches follow the status machine;
* users: overlapping requests do not cost the last admin; the audit log tells what happened;
* cache: an answer is out of date for a known reason only; who was told "Saved" never
  sees the label from before;
* dashboard: every click ends with a page;
* API: rules are all or none, a login limit that holds in every window, errors that mean
  what they say, and a start that succeeds in the end.

## Modules

    Stores                 rows, objects, queue and the writes to them
     |-- SftpWatcher       the poll loop and the scanner          MCWatcher
     |-- UploadApi         POST /upload
     |-- InferenceWorker   classify, RQ, crashes, requeues
           Pipeline        the three composed                     MCPipeline
            |-- BatchLifecycle   abstract status machine (refined by Pipeline)
            |-- PipelineProofs   types and the promises of the stores
                 |-- IngestProofs      batches and their files, of watcher and uploads
                 |    |-- WatcherProofs     what the watcher has seen
                 |-- RowsProofs        prediction rows, with any number of workers
                 |-- LifecycleProofs   status machine, with one worker

    UserAdmin              users, audit log, requests, seed runs       MCUserAdmin
     |-- UserAdminProofs     theorems

    CachedRoutes           cached GETs, writes and their deletes
     |-- ReviewDesk        the dashboard's review tab on top      MCReviewDesk
          |-- ReviewDeskProofs   theorems

    ApiServer              boot, policy, Vault, logins            MCApiServer
     |-- ApiServerProofs     theorems

**Stores** holds what the processes share. `status`, `fileCount` and `trail` are the
batch row and its audit rows; `rows` counts prediction rows per blob key; `original`,
`overlay` and `quarantine` are the MinIO keys of `blob.py`; `queue`, `jobState` and
`jobKey` are RQ. A file's bytes are one of five contents, which is all that validation
and decoding tell apart. A class, a confidence and the cache entries are left out:
nothing in these processes branches on them. `Mishap(f)` marks a step in which an error
of kind `f` happens; `Faults` says which kinds a run allows and `MaxMishaps` how many.

**SftpWatcher** has one step between any two awaits of `_poll` and `_process_file`:
`Poll` (listing and `create_batch`), `BeginFile` (`exists`), `StatFile`, `ReadFile`
(and `_reject_reason`), `QuarantineFile`, `UploadFile`, `EnqueueFile`, `EndPoll`. The
scanner may act between any two of them. `RestartWatcher` may happen anywhere and
empties `seen`. Files of a poll are taken in any order, as a directory listing is not
sorted. A failed call may have had its effect (`UploadFile`, `EnqueueFile`).

**UploadApi** is one coroutine per request: `Refuse` or `Accept`, then `StoreFile` and
`EnqueueUpload` alternately, then `Answer`; `FailUpload` ends the request between any
two calls, which also stands for a call that raised after its effect.

**InferenceWorker** has a step per call that `classify` makes on a store.
`SelectStatus` and `CommitStatus` are the two halves of `_transition`. `RaiseInJob` is
an exception anywhere, a job timeout, or bytes that cannot be decoded; RQ then files
the job as failed. `CrashWorker` loses the worker, RQ still lists its job as started,
and `ReapAbandonedJob` is the registry clean-up that fails it. `RequeueJob` is
`rq job --requeue` (`LOCAL_TESTING_GUIDE.md:234`). RQ is a library: its actions are
marked external and modelled from how the code starts and uses it (one `rq worker`
per container, no retry policy on `enqueue`).

**UserAdmin** has the requests that change `users`: authentication and the checks that
read nothing (`SendCreate`, `SendEdit`), the two reads of the transaction (`ReadTarget`,
`CountAdmins`), and the writes with the commit (`CreateUser`, `WriteRole`,
`DeleteUser`). Under READ COMMITTED every statement sees what is committed by then, so
the reads are steps of their own; the writes are one step because the row locks of
UPDATE, DELETE and the foreign key last until the commit, so a request that had to wait
for another finds what it would have found by coming later. `FailRequest` is every other
end: the assertion, a taken address, a missing actor, a deadlock that PostgreSQL breaks.
`SeedCount` and `SeedInsert` are `seed_admin.py`. `role` is "none" before an id is used
and "gone" after; an id, being a uuid, never comes back. An audit row keeps its actor,
action, target, the roles it says the target had and has, and its timestamp. That is `now()`,
the `Begin` of its transaction (`models.py:114`), and the only order the table has: `log`
is in the order of the commits, which the timestamps may invert, so `LogTellsTheTable`
sorts by timestamp, as the routes and the runbook do. The clock is the number of rows
committed so far, which tells any two transactions apart that did not overlap.

**Pipeline** interleaves the three over the same stores and states what needs all of
them. **BatchLifecycle** is the machine of the `allowed` sets, each edge with its audit
row in one step.

**CachedRoutes** has the four cached routes of batches and predictions. `Hit` and
`GoOnMiss` are the lookup of fastapi-cache, `Query` the service's transaction, `Fill` the
store of the answer, each a step of its own, as each is an await. `Answer` is what the
service reads for a key and a `Window`, the `skip` and `limit` of a request: the dashboard
asks for 50 rows, clients for what they like, and the key leaves both out. So an entry is
`Stale` if it answers no request from the rows. A write commits (`Relabel`,
`SavePrediction`, `CreateBatch`, `MoveBatch`) and then makes one `DeleteKey` per key.
`FailCall` ends a call anywhere after its first step; `Expire` is the end of an entry's
time, or an eviction. `outrun` is a record for the properties: the keys that were filled
with an answer older than the rows, or whose delete was never made. A row is its
correction; its confidence is in or out of `Doubtful` (below 0.7). `corrector` is who wrote
the last audit row of a relabel about it, in the transaction of the correction.

**ReviewDesk** puts the dashboard on top. A click (`Refresh`, `Choose`, `Save`) starts the
script again (`Rerun`); the script loads (`SendGet`, then `Loaded` or `FellBack` to the
demo), and only then looks at the click. By then Streamlit may have given it other
widgets: `Redrawn` keeps the chosen document only if the options are the same, `Kept` the
chosen class only if the document shows the same class. A save is then sent
(`SendPatch`), and answered (`PatchSaved`, which runs the script once more, or
`PatchRefused`).

**ApiServer** takes `lifespan` step by step, with every check that ends the process.
`AddPolicy` commits line by line, `SavePolicy` replaces the table. `VaultRestart` empties
Vault, whose container runs in development mode; `PutSecret` is an operator who runs
`vault-init` again (`README.md:595`) and makes a new key. A token is the number of the key that
signed it. The limiter keeps ages instead of times (`Older`) and drops the old ones
from the front, where they are, as attempts are appended in the order of time (`Younger`;
`OldestFirst` proves that this is the filter of the code); a request is one step, as the
limiter runs without an await. `TokenExpires` is the end of `JWT_LIFETIME_SECONDS`, at
any moment, as a day has nothing to do with the windows of the limiter; `AccountGoes` is a
deletion, after which a token is refused and none is issued. `admitted`, `issued` and `cut`
are records for the properties.

## Runs

| Run | Question | Instance |
|---|---|---|
| `watcher_faults` | what the watcher enqueues, stores and quarantines under every fault | a TIFF and another file, 5 contents, slow and removed files, 1 mishap, 1 restart, 2 batches |
| `end_to_end` | scanner to prediction: errors only delay, audit trail and status machine, every job and batch settles | the watcher with 2 names and 3 contents, 1 worker, 5 kinds of error, 2 mishaps, 2 requeues, 4 batches |
| `everything` | what survives racing transitions: rows, objects, answered uploads, and the inductive invariant | watcher, a request of up to 2 files (equal names, equal stems, bad bytes, refused ones), 2 workers, every kind of error, a restart, a requeue |
| `user_requests` | who can cost the last admin, and what the audit log tells | 3 accounts, 2 requests and a seed run at a time, 3 audit rows |
| `review_desk` | when a cached answer may be out of date, and what a reviewer can rely on | any pair of: 2 browsers, a browser that shows all, a worker, a client of all routes; limits 50 and 1; 2 rows, 2 corrections, 1 failed call |
| `api_server` | what errors mean, interrupted boots, logins | 3 clients on 2 addresses, 2 rules, 2 logins in 2 units of time, 2 keys, 2 crashes, 3 images, 1 token that runs out or account that goes |

Six more runs each expect a violation; they are the findings below.

**Bounds.** `BatchId` and `JobId` bound how many batches and jobs a behaviour may create
(`InsertBatch` and `Enqueue` take `FreshBatch` and `FreshJob`, an unused id: a uuid is as
good as any other, so one choice stands for all). With no id left the
watcher keeps polling without effect (`PollNothing`) and an upload waits, so the bound
shortens a behaviour and never makes up one. `MaxMishaps` and `MaxRestarts` bound
errors and restarts, `MaxRequeues` the operator, `MaxLog` the audit rows of `UserAdmin`.
Two files suffice for every interaction between siblings, two workers for the races of
`_transition`; one restart and one requeue produce each duplicate there is. One request and
the watcher are two processes that create batches; that any number of requests do not
disturb each other is proved (`AnsweredTheorem`). The batches of `end_to_end` are enough for
each error to spoil one and for the retry to succeed; restarts are in the runs of safety
only, and an oversized file, which fails at every poll, only in `watcher_faults`. Three
accounts and three audit rows allow a second admin to be made and two requests to act on
both, with a bystander. In `review_desk` `Overlaps` says which callers are at work together:
a stale entry takes a reader and a writer, and a misled reviewer two browsers or a browser
and a worker; `MaxPatches` allows a correction of a correction, `MaxFailures` one call that
ends half way; `MaxBatches` is one, as nothing relates the keys of two batches but
`batches:list`, and a batch that is created and one that moves outdate it alike. A limit of
one row is less than the two there may be, so that the answers to different limits differ.
In `api_server` `MaxEnds` lets one token run out or one account go, for each reason of a 401
by itself, two rules have a first and a last line, two logins a window that is full, and two
keys a login before and after the change. Symmetry (of requests and of workers) is used only
in runs without liveness properties.

**Deadlock** is checked in every run: an idle watcher polls (`PollNothing`) and an idle
worker waits (`AwaitJob`), as the processes do.

**Fairness.** Weak fairness of the watcher's own steps: `run()` loops forever and catches
every exception. Weak fairness of each request's steps: the event loop runs what is
ready. Weak fairness of each worker's steps, of taking a job and of RQ's clean-up:
`rq worker` loops and `restart: unless-stopped` brings a dead container back. There is
none for the scanner, the clients, the operator, or any error. Of `ReviewDesk`, weak
fairness of each started script and call (httpx gives up after 30 seconds); none of `Expire`,
so no property rests on an entry's time to live. Of `ApiServer`, weak
fairness of `BootStep`: `restart: unless-stopped` and a `lifespan` without waits. There is
none for Vault, so `ApiComesBack` asks for a key that stays.

## Findings

Each is a run that TLC refutes; `PROJECT.json` quotes the line it disagrees with.

| Run | The text says | The code does |
|---|---|---|
| `done_too_early` | done: all jobs finished; the last `mark_done` wins | the first one wins, with the other job of the batch still queued |
| `requeued_job` | jobs are safe to retry, one row per document | the insert is repeated |
| `watcher_restart` | no duplicates after a restart | every file left in the directory is ingested again |
| `last_admin_race` | the last admin cannot be demoted | two requests demote two admins, each having counted both |
| `wrong_limit` | `?limit=10`: the last ten predictions | one key for all limits: whoever filled the entry decides how many |
| `interrupted_seeding` | the policies of the file are seeded on first boot | a seeding that was cut short is never completed |

Other disagreements met while modelling, which the modules show and no run states:

* `app/domain/batch.py:25`, failed: a job failed for good. Nothing calls `mark_failed`, so
  the batch keeps the status it has; `BatchesSettle` says that only such a batch does.
* `app/domain/batch.py:22`, pending: files stored, jobs enqueued. An upload that fails
  (`FailUpload`) leaves a pending batch for good, which counts more files than it has jobs.
* `upload.py:6`, originals are uploaded. Of two files of one name in a request the second
  overwrites the first (`StoreFile`), and both jobs read it: what an answer of 200 does mean
  is `AnsweredMeansEnqueued`.
* `sftp_watcher.py:19`, oversized files go to quarantine. The download raises first, and the
  file is retried at every poll, each time in a new batch (`StatFile`).
* `app/infra/README.md:106`, an overlay per file name. `blob.py:73` makes one per stem, so
  `a.tif` and `a.tiff` of a batch share theirs (`OverlayKey`).
* `LOCAL_TESTING_GUIDE.md:338`, audit rows have correct details. Of two overlapping role
  changes the second records the role that the first replaced; `OverlapsAloneMisstate` says
  that nothing else makes them wrong.
* `ARCH.md:105`, done is terminal. With two workers a stale `mark_processing` can
  overwrite it (`CommitStatus`), which is why the refinement is checked with one worker,
  as many as `docker-compose.yml` starts.
* `sftp_watcher.py:191`, a file whose job was lost may be dropped again. Its name is in
  `_seen` (`EnqueueFile`). `workers/README.md:247` names the same recovery for jobs that
  Redis lost.
* `infra/README.md:217`, valid TIFFs are stored. A file listed while it is written is
  taken as it is then (`ContinueSlowDrop`).
* `SECURITY.md:111`, the actor of a deletion is preserved. The foreign key sets it to
  NULL when the actor is deleted (`Disowned`), as lines 117 and 118 of that file say.
* `inference_worker.py:175`, reads after a prediction find fresh data. A read that queried
  before the commit may fill the cache after the deletes (`Fill`).
* `SECURITY.md:14`, five failed attempts. Every attempt counts (`Attempt`), and all
  sessions of the dashboard share one address.
* `SECURITY.md:9`, the key is fetched at startup. That copy is never used; it is fetched
  again for every request (`IssueToken`, `Request`).
* The dashboard names a document and a class next to its button, and may save to another
  document or another class if the list changed before the click (`Redrawn`, `Kept`). No
  text promises otherwise.

## Proofs

Every safety invariant and every action property of the passing runs is proved, for every
value of the constants that meets the assumptions of the modules (finitely many dropped
names, disjoint sentinels, bounds in `Nat`). Four theorems have one hypothesis more,
named where they are stated.

### The stores

`PipelineProofs`: `TypeTheorem`, `InvariantTheorem` (`Spec => [](TypeOK /\ IInv)`), and
`ReferenceTheorem`, `DoneTheorem`, `FinishedTheorem`, the promises of `Stores` that
`everything` checks.

The promises are not inductive by themselves: that an insert finds its original and
its overlay depends on where the worker is, on the job it took, and on what the process
that enqueued that job had stored before. `IInv` (in `Pipeline`) says it process by
process: a job is backed by a validated original in an existing batch (`JobsInv`); so is
the file a watcher or a request is about to enqueue (`WatcherInv`, `ApiInv`); a worker
past the overlay has stored it, and past the insert has its row (`WorkerInv`).

The argument is one of interference. The `...Grows` lemmas show that no step of any
process removes an object, a row, a batch or a job; the `...Stay` lemmas that each part of
`IInv` survives any step that only lets the stores grow; so each process's own steps have
only to be checked against its own part and the promises they can disturb (the
`...Preserves` lemmas, one case per action). The theorem combines them with PTL. `everything`
checks the same invariant with TLC.

### Ingestion

`IngestProofs`, with any number of requests, files and workers: `IngestTheorem`,
`AnsweredTheorem`, `BackedTheorem`, `RejectsTheorem`, from `IngestInv`. Its first part gives
every batch one owner, the request or the poll that created it (`SeparateInv`). The second
counts (`CountInv`): jobs of a batch plus the files its owner still holds make up
`fileCount`, so that none is left when a request answers. The third follows a file through
a poll (`RejectsInv`): until it is settled it is neither stored nor in quarantine, but in the
one phase between upload and enqueue. `AnsweredTheorem` needs in addition that the files of a
request up to the loop's turn have their jobs by name and their last bytes stored
(`FilesInv`), which nobody else disturbs as the batch has no other owner. The theorems are of `Pipeline`'s `Spec`, where others
share the stores; `watcher_faults` checks the last two of the watcher alone.

`WatcherProofs`: `OneJobTheorem` and `WatcherTypeTheorem` of `WatcherSpec`, the watcher by
itself: the jobs of a name are at most the restarts, and one more if it is in `_seen`
(`AloneInv`). `SeenTheorem` is of the whole system under `WholeUploads`: files appear
complete and stay, as in `end_to_end`. With slow uploads it is false, as the watcher settles
a file by what it read of it. `KeptInv` says that what the watcher read is still in the
directory and that what it stored nobody overwrites.

### Jobs and batches

`RowsProofs`: `RowsTheorem`, for any number of workers. A job is in the queue once, or with
one worker, or in a registry (`PlaceInv`); the rows of a file, with the jobs that may still
insert one, are no more than its jobs and the requeues (`Balanced`).

`LifecycleProofs`: `FinishedDoneTheorem`, `AuditPathTheorem` and `LifecycleTheorem`, the
refinement of `BatchLifecycle`. They assume `OneWorker`: there is at most one, as in
`docker-compose.yml`. With two they are false (`CommitStatus` writes what an outdated read
allowed). With one, what the SELECT of `_transition` found still holds at its commit
(`BatchAt`), so every write is an edge of the machine. For the refinement each step is then a
`Move` of the abstract machine or leaves status and trail alone.

### Users

`UserAdminProofs`, for any number of users, requests and seed runs: `UsersTheorem`
(`Spec => [](UsersTypeOK /\ UsersInv)`), `UsersTypeTheorem`, `LastAdminTheorem`, `LogTheorem`,
`DetailsTheorem` and `AppendOnlyTheorem`.

That an admin is left after deletions does not follow from the count, which is as racy
there as for demotions. It follows from the actor: who deletes was an admin when the
request was admitted (`Admitted`), has a row when it commits (the foreign key), and is not
who is deleted. `RequestsInv` carries this from the check to the commit: the actor of a
request in flight is an admin still, or deleted, or a demotion is on record. Only
`WriteRole` takes the role away, and it records it; `OthersKeepTheirActors` is that
argument, used by every commit. `LogTheorem` rests on `CommitsTell`, that the last committed
row about a user has the role of the table, and on `StampedBefore`, that a row's timestamp is
less than its place among the commits: the row with the newest timestamp is the last
committed one, or that one began before it committed. Overlapping role changes do invert
them, so the second case cannot be dropped. `DetailsTheorem` adds `ReadsTell`: the role a
transaction has read is the table's until a row about the user is committed, and that row is
later than its `Begin`.

### Cache and dashboard

`ReviewDeskProofs`, for any number of dashboards, clients, workers, batches and rows:
`CacheTheorem`, `DeskTypeTheorem`, `OwnCorrectionTheorem`.

`CacheInv` adds to `StaleHasAReason` what it rests on: that calls keep their shape
(`CallsOK`) and that the dashboard sends its PATCH for a row it has drawn (`DesksOK`), as only
then `PredictionKeys` names keys of the cache. Each commit must change the answers of no keys
but those it will delete (`PredictionChange`, `BatchChange`); an entry that goes, a fill and a
failure are lemmas of their own. `TypeInv` ties the stage of a script to the stage of its call
(`CallFits`) and to its page (`PageFits`).

`OwnInv` follows a correction from its commit over the deletes and the answer to the reload:
as long as its author is the row's corrector, the row has its class, and once the list has
been deleted it is `Served` (there is no entry, or it has the class, or it is outrun). Every
step of anyone else keeps that (`EntryMoves`, `RowsOfKept`). An earlier form of the property
excused a difference only if the row's label had changed since; with three corrections TLC
refutes it: another session corrects the document away and back, and between the two a fill
stores the list. Hence `corrector`, which is what the audit log knows. What the theorem does not
say is that the corrected document is listed: an entry filled for a smaller limit may leave
it out (`wrong_limit`).

### The api container

`ApiServerProofs`: `PolicyTheorem`, for a file of any length: while a seeding runs the table
holds a first part of the file and memory holds the same (`PolicyInv`). `LoginsTheorem`: the
limiter remembers, of the attempts it let pass, exactly those that are younger than the window
(`LimiterInv`). The lemma behind it is `DroppedStaysDropped`: what one prune removed a later one
would have. `ErrorsTheorem` and `ServerTypeTheorem` add the signing key: a token carries the
key that was in Vault when it was issued (`KeyInv`), so a 401 whose token has not run out and
whose account is there means that the key was replaced since.

### Only model-checked

The liveness properties (`GoodScansAreEnqueued`, `RejectsSettle`, `JobsSettle`, `BatchesSettle`,
`ScansAreClassified`, `ClicksAreAnswered`, `ApiComesBack`): TLAPS has no rules
for fairness. The findings, each a single counterexample.

## Not modelled, and why

* Inference, overlay drawing and evaluation are pure functions of the bytes and of the
  weights, in floating point.
* The migration runs once before anything else and makes the empty tables `StoresInit`,
  `UsersInit` and `RoutesInit` start from.
* Redis that forgets queued jobs (a snapshot a minute, eviction at 256 MB): nothing in the
  code notices, so the liveness properties hold as long as it keeps them.
* Of user administration, the cache entries of the users routes, which no check reads
  (authentication reads the table), and the details of an audit row but for the roles.
* Of relabelling, the audit row but for its actor: its "from" is always the predicted class;
  `GET /audit`.
* Of authentication, hashing; the DEV_MODE fallbacks of `vault.py` and `main.py`.
* Of the dashboard, the login form, the upload and users tabs and all drawing. The forms
  of the users tab lose their choice in a rerun as the review tab does.

## Plan

1. `Stores`, `SftpWatcher`, `UploadApi`, `InferenceWorker`, `Pipeline`,
   `BatchLifecycle`, and the proof of `IInv`: done.
2. `UserAdmin` with `seed_admin.py`, and the proof of `UsersInv`: done.
3. `CachedRoutes` and `ReviewDesk`, and the proof of `StaleHasAReason`: done.
4. `ApiServer`, and the proof of `PolicyIsWhole`: done.
5. The proofs of the other safety properties, and of the refinement of `BatchLifecycle` with
   one worker: done.
6. Left: `RejectsStayOut` and `JobsAreBacked` of `WatcherSpec` as such; the steps that the
   liveness properties rest on (what each fair action changes for good) as action properties.
