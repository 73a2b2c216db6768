# Arena in TLA+

TLA+ models of the *arena* platform (`src/`): a self-hosted site for datasets,
notebooks, courses and competitions. The back end is a FastAPI application on
PostgreSQL (`src/apps/api/app`), a separate evaluation worker process, JupyterHub for
interactive notebook servers and a cluster (or Docker) that runs Jobs. The React client
keeps no state that others share.

The models are about the parts where several of those actors meet in the database, on
disk, at the Hub or on one event loop, and where a handler keeps the same fact in two
places. TLC checks all of them on small instances; TLAPS proves, for every value of the
constants, the promise of the GPU pool and its two implementations, what runs, schedules and usage rows
owe each other, that the rows of a dataset keep its versions, files and quota and implement an
abstract version history, what a competition promises about entries, limits, scores and
results, what of a notebook is public, that its outputs stay and its inputs are what was published,
that drafts stay while they are leased, that threads keep their texts and reports and the
tiers they give are current, that boards hide what is private, that progress counts what was
judged, that an interrupted start makes nothing twice, and that the current release is the one
the cluster serves.

## 1. Inventory

### Processes

| Actor | Code | How it runs |
| --- | --- | --- |
| API, plain handlers | most of `app/*.py` | one uvicorn process, a thread per request, a transaction per handler |
| API, `async def` handlers | `notebook_runtime.py`, `notebook_drafts.py`, `notebook_editor.py`, `submit()` in `main.py`, `uploads.py` | on the one event loop; database calls block the loop, each `await` lets others run |
| `reconcile_gpu_sessions()` | `notebook_runtime.py` | background coroutine of the API process |
| `cleanup_drafts()` | `notebook_drafts.py` | background coroutine of the API process, a pass every 30 seconds |
| `worker()` | `compute_worker.py` | coroutine of the evaluation worker: attempts first, then runs, one at a time |
| `scheduler()` | `compute_worker.py` | coroutine of the evaluation worker: `enqueue_due()` every few seconds |
| `commit_worker()` | `notebook_commits.py` | coroutine of the evaluation worker: one notebook commit at a time |
| benchmark worker | `benchmark_worker.py` | coroutine of the evaluation worker, third serial consumer |
| `assemble()` | `uploads.py` | background threads of the API process, one per completed upload |
| `cleanup_uploads()` | `uploads.py` | background coroutine of the API process, a pass of `expire_uploads()` a minute |
| `cleanup_work_files()` | `work_cleanup.py` | background coroutine of the API process, retries file deletions |
| startup | `lifespan()` of `main.py` | migrations, seeds and imports, before requests are served |
| JupyterHub and user servers | external | start and stop one server per user; kernels and files behind an HTTP API |
| Cluster / Docker | external | runs Jobs, which outlive the worker that created them |
| deployment pipeline | `src/deploy/pipeline.py` | a command on a person's machine; may be interrupted anywhere |

### Components

| Component | State | Operations | Hard behaviour | What makes it correct |
| --- | --- | --- | --- | --- |
| GPU allocation (`compute.py`) | `gpu_usage` rows with a null `ended_at`, the `gpu_allocation_lock` row | `lock_pool`, `require_gpu`, `open_usage`, `close_usage`, `gpu_job` | two processes allocate; every path that ends work must close its row | open rows never hold more than `gpu_capacity`; rows match the work |
| Background runs (`notebook_runs.py`, `compute_worker.py`) | `notebook_runs`, `exercise_attempts` | create, cancel, claim, execute, complete, fail, recover | the worker's transaction is split by commits, awaits and a crash; owners cancel and delete meanwhile | an end is final; claimed work ends; one consumer; CPU work is not held up |
| Schedules | `notebook_schedules` | create, update, pause, resume, delete, `enqueue_due`, `schedule_result` | the scan, finished runs and owner requests write the same row, partly without locks | an active schedule fires; a paused one does not |
| Runtime jobs (`runtime_jobs.py`) | cluster Jobs | create, poll, delete, cleanup | answers are lost, deletes fail silently | a Job with a GPU has a usage row |
| Interactive servers (`notebook_runtime.py`) | the Hub's servers; session rows of `gpu_usage` | status, start, stop, reconcile, open a notebook | a Hub answer is applied after an await | starts fit the capacity; a stopped server gives its GPU back |
| Competition entries and rules | `competition_entries`, timeline, `rules_revision` | join, update settings, overview, rules | the host moves the end at any time | nobody acts outside the window or under old rules |
| Teams (`competition_teams.py`) | teams and members | create, join, leave | changes while submissions or commits are pending | one leaderboard entry per user; owned teams |
| Submissions | `submissions` | `submit`, `select_final`, rescoring | an upload is checked on one side of an await and inserted on the other | daily limit; final cap |
| Notebook commits | `notebook_commits` | create, cancel, claim, complete, fail | cancellation, timeout and restart race the result | scored once, only while running; what is published was scored |
| Final results (`competition_results.py`) | `finalized_at`, `competition_results` | `finalize`, `finalize_if_due`, `refresh_results`, disqualify, reinstate | lazy finalization, every host action after the end | stored results are those of the present data |
| Learn (`learn.py`) | lessons, exercises, attempts, progress, certificates | authoring, attempts, hints, visits | first-insert races on progress; the author removes what is being judged | progress counts verdicts; the certificate comes |
| Benchmarks | assets, collections, `benchmark_runs` | save, publish, queue, claim, run, cancel | third serial consumer; what a run was started from changes | boards show what is public; runs end |
| Uploads (`uploads.py`) | upload sessions, chunk rows, parts on disk | create, chunk, complete, assemble, abort, expire | a body arrives, and a file is assembled, without any lock; threads die with the process; parts and rows are two stores | an upload ends, and goes into a draft that is still one; what is removed goes from disk |
| Versions (`resource_versions.py`) | draft and numbered versions, the legacy primary CSV | draft, publish, discard, delete a version or a draft file | requests hold the dataset row, assemblies the draft's | numbered versions do not change, numbers do not come back, their files can be read |
| Storage and quotas (`storage_quotas.py`, `work_cleanup.py`, `artifacts.py`) | stored files, reservations, pending deletions | check, release, single-request upload, retry | blobs shared by versions; deletes retried after a crash | no used blob is deleted; no owner over quota; space is freed |
| Notebook editor (`notebook_drafts.py`, `notebook_editor.py`, `kernel_channels.py`) | drafts with leases, the files of a user's server, kernels and their locks | open, save, discard, clean up, execute, interrupt, restart | every file operation is an await; a lock per user and one per kernel; rows locked across awaits | a draft in use stays; an abandoned one goes; cells end and free their kernel |
| Notebook versions and publication (`notebook_versions.py`, `code_pages.py`, `notebook_visibility.py`) | working copies, publications, versions, shares, links to competitions | save, publish, set visibility, share, fork, commit | three documents of one notebook, and four ways to make one public | private edits stay private; competition code is what was scored |
| Notebook outputs and inputs (`notebook_outputs.py`, `input_sources.py`, `notebook_files.py`) | output rows and shared files; references to dataset versions, staged copies | snapshot, export, attach, stage, clean up | files are chosen before they are read; a file is reused while it is cleaned up | rows keep their file; a reader gets one version |
| Progression and medals (`progression.py`) | `user_progression`, a cache | mark, refresh, recalculate | every change anywhere must mark every owner it concerns | the cache is that of the source rows |
| Discussions, votes, notifications (`discussion_feed.py`, `engagement.py`, `votes.py`) | topics, comments, replies, revisions, notices | post, edit, remove, watch, vote | rows are read, checked and then locked | threads hold together; edits keep what they replace |
| Moderation (`moderation.py`, `admin.py`) | reports, hidden marks | report, resolve, hide, delete | two moderators, and an author who deletes meanwhile | one open report |
| Startup (`migrations.py`, `seed.py`, `learn_content.py`, `practice_competitions.py`, `version_backfill.py`) | `schema_migrations`, receipts, the rows that are made | migrate, copy, seed, import | a crash between any two transactions; users delete what was seeded | made once; a later start completes it |
| Deployment (`src/deploy/`) | releases, the current one, images, the cluster | run, rollback | a failure half-way, an interruption anywhere | what is current is what runs |
| Deleting work (`remove_work()` of `main.py`) | all of an object's rows | delete | active runs and commits of the object | no orphans |
| Metrics (`scoring.py`), accounts and sign-in, catalog, search, previews, web client | - | - | - | not modelled, see section 6 |

### Interactions

* Sessions (API) and runs and attempts (worker) allocate from the same pool, under the
  lock of one settings row: `GpuPool` is what they share.
* The scheduler inserts runs that the worker claims; a run that ends counts on its
  schedule, which the scheduler and the owner write too. All of it is in `NotebookRuns`.
* Deleting a notebook, and editing a course, remove rows that worker and scheduler hold
  in memory.
* Uploads, commits, team changes and host actions of a competition serialise on the
  competition row; commits run in another process: `Competitions`. The same commits
  decide what of a notebook is public: `Publications`.
* Requests about a dataset serialise on its row; assemblies, the sweep and requests about
  an upload do not take it and meet them at the rows of the upload, of the draft and of
  the owner, and on disk: `Storage`.
* Drafts, saved notebooks and the cleanup loop share the files of a user's server, the
  lock of the user and the event loop: `Workspace`. Cells and kernels of the same
  documents share locks of their own: `Kernels`.
* Removing content, hiding it, changing who may see a dataset, and votes all reach into
  threads, reports and the cached tiers: `Threads` and `Community`.

## 2. Modules

| Module | Models | Code behind it |
| --- | --- | --- |
| `GpuPool` | the abstract promise of `gpu_usage`: acquire within capacity, release | `compute.py` |
| `NotebookRuns` | runs, attempts, schedules, `worker()`, `scheduler()`, Jobs, crashes | `notebook_runs.py`, `compute_worker.py`, `runtime_jobs.py`, `evaluation_worker.py`, parts of `learn.py`, `main.py` |
| `GpuSessions` | interactive sessions, the reconcile loop, the Hub | `notebook_runtime.py`, `compute.py` |
| `Competitions` | one hosted competition, its participants, host, commits and worker | `competition_*.py`, `team_scoring.py`, `notebook_commits.py`, `submit()` and `join()` of `main.py`, `metadata_routes.py` |
| `VersionHistory` | the abstract promise of numbered versions: publish, withdraw, remove | `resource_versions.py` |
| `Storage` | one dataset: uploads, versions, blobs, the owner's quota, cleanup, restarts | `uploads.py`, `resource_versions.py`, `storage_quotas.py`, `artifacts.py`, `work_cleanup.py`, parts of `main.py` |
| `Workspace` | a user's draft and saved notebook, their tabs, leases, the cleanup, the event loop | `notebook_drafts.py`, parts of `notebook_editor.py`, `notebook_runtime.py`, `work_cleanup.py`, `main.py` |
| `Kernels` | sessions, kernels, cells and their locks | `notebook_editor.py`, `kernel_channels.py` |
| `Publications` | who sees which document of a notebook | `notebook_versions.py`, `notebook_visibility.py`, `code_pages.py`, `notebook_commits.py`, parts of `main.py` |
| `Inputs` | a dataset attached to somebody else's notebook, staged for a kernel and for a Job | `input_sources.py`, `notebook_editor.py`, `notebook_files.py`, `isolated_runner.py`, `dataset_access.py` |
| `Outputs` | output rows of two notebooks and the files they share | `notebook_outputs.py`, `notebook_files.py`, `work_cleanup.py` |
| `Learn` | one course, its author, a learner and the worker | `learn.py`, `compute_worker.py` |
| `Benchmarks` | assets, collections, runs, boards, their worker | `benchmarks.py`, `benchmark_worker.py` |
| `Threads` | a topic, its comment and a reply; moderators and reports | `engagement.py`, `discussion_feed.py`, `moderation.py`, `admin.py`, `notifications.py` |
| `Community` | what a thread on a dataset gives its authors, and the cache of it | `progression.py`, `votes.py`, `community.py` |
| `Pipeline` | plan, build, deploy, verify, undo, roll back | `src/deploy/pipeline.py`, `src/deploy/overlay.py` |
| `Startup` | one process that starts, is killed, and starts again | `migrations.py`, `seed.py`, `learn_content.py`, `practice_competitions.py`, `version_backfill.py`, `lifespan()` of `main.py` |
| `NotebookRunsProofs`, `GpuSessionsProofs`, `StorageProofs`, `CompetitionsProofs`, `WorkspaceProofs` | theorems of the module of that name | |
| `NotebooksProofs` | theorems of `Publications`, `Outputs` and `Inputs` | |
| `ServicesProofs` | theorems of `Learn`, `Benchmarks` and `Startup` | |
| `SiteProofs` | theorems of `Threads`, `Community` and `Pipeline` | |
| `MCNotebookRuns`, `MCGpuSessions`, `MCCompetitions`, `MCWorkspace`, `MCThreads` | symmetry sets, timelines, scores and owners of the instances | |
| `MCEditor`, `MCServices`, `MCNotebooks`, `MCSite` | specifications checked side by side, see below | |

`NotebookRuns` and `GpuSessions` each instantiate `GpuPool` with a mapping from their own
rows and state its specification as `PoolSpec`. Runs, attempts and sessions contend for the pool
in `NotebookRuns`, where `RunsPool` checks the refinement; in `GpuSessions` one action opens
rows, and the refinement is only proved (`SessionsImplementPool`). `Storage` instantiates `VersionHistory`
with the numbered rows of `resource_versions` and states its specification as
`HistorySpec`: drafts, uploads, releases and the primary CSV are stutters of it.

*Side by side.* Modules that share no rows are checked in one run where that is cheap:
`MCEditor` follows `Workspace` or `Kernels`, `MCServices` one of `Learn`, `Benchmarks` and
`Startup`, `MCNotebooks` one of `Publications`, `Inputs` and `Outputs`, and `MCSite` one of
`Threads`, `Community` and `Pipeline`. A variable (`focus`, `followed`) says which; the others
keep an initial state. The state space is the sum of the parts, not their product, and a
composite says nothing about their interaction, since there is none in the code.

### How an action corresponds to the code

* *A handler that locks the row it decides on is one action.* Its guard is the
  conjunction of its early returns; a 404 or 409 is a step that does not happen.
  "Waits for a lock" is a conjunct on the variable that stands for the lock
  (`scan.locked`, `w.locked`, `KeyShared`, `Unlocked`, `Serialized`, `Free`).
* *A transaction that other transactions can interleave with is several actions.* The
  worker commits once per claimed row, once per refusal, once per outcome; in between,
  `w` is what the coroutine and its session remember: the selected batch, which of its
  rows are still locked, and the schedules in the identity map (`w.seen`). The sessions
  are made with `expire_on_commit=False`, so what has been read stays as it was read.
* *A flush writes changed attributes only* (`Flush`) and raises when a row is gone
  (`StaleFlush`).
* *A coroutine is split at every await*, and only there.
* *A commit that notifies, marks or records is one step with what it writes*: in `Threads`
  a handler is `Begin` (what it reads before its lock) and a commit; in `Community` a
  transaction marks users, computes their rows and commits. It runs without interruption, or is
  one of `Slow`, with `Start`, `Refresh` and `Finish` or `Abort` as steps that others overtake.

| State | Code |
| --- | --- |
| `NotebookRuns!row` | `notebook_runs` and `exercise_attempts`; "inserting" is an uncommitted insert of the scan |
| `NotebookRuns!sched` | `notebook_schedules`, `next = 0` for a null `next_run_at` |
| `open`, `sessions` | `gpu_usage` rows with a null `ended_at` |
| `jobs` | Jobs in the cluster |
| `w` | the `worker()` coroutine with its database session |
| `scan` | the `scheduler()` coroutine and the one transaction of `enqueue_due()` |
| `GpuSessions!hub` | the state the Hub has for a user's server |
| `GpuSessions!req` | the coroutines: where they wait and what they have read |
| `Competitions!upload` | the upload between its checks and its insert, which holds the competition row |
| `Competitions!worker` | `commit_worker()`; `seen` is the status its error handler read |
| `Competitions!limits` | `max_daily_submissions` and `max_final_submissions`, which the host may change |
| `Competitions!entry` | an entry and whether it accepted the current `rules_revision` |
| `Competitions!finalized`, `results` | `finalized_at` and the rows of `competition_results` |
| `Storage!version` | `resource_versions` with their files; "gone" is a deleted row, so that row ids are used once |
| `Storage!stored`, `doomed`, `blobs` | `stored_files`, `work_file_deletions`, and the files of `uploads/` and `artifacts/` |
| `Storage!session`, `parts` | `upload_sessions` with their chunk rows, and the parts on disk |
| `Storage!request` | the request that holds the dataset row, between what it reads and its commit |
| `Storage!assembly` | the threads: "attaching" holds session and draft, "charged" the owner too, with the release it has decided on |
| `Storage!other` | another dataset of the same owner: a request that has passed `require_capacity()`, and what is stored |
| `Storage!doubted` | history: uploads declared interrupted while their thread was alive |
| `Workspace!draft`, `notebook`, `file` | `notebook_drafts` with the lease, the saved notebook's row, and the files on the user's server |
| `Workspace!tab`, `clean` | the coroutines of requests and of `cleanup_drafts()` with what they hold |
| `Workspace!blocked` | the coroutine whose database call waits for a row and so stops the loop |
| `Kernels!session`, `cells`, `kernelLock` | the user server's sessions and the cells a kernel has waiting; `_kernel_locks` |
| `Publications!book`, `working`, `publication`, `links` | `notebooks`, `notebook_working_copies`, `notebook_publications`, `competition_resources` |
| `Publications!commits` | `notebook_commits`; `scored` is whether the submission was recorded, which a commit may be and still end "failed" |
| `Publications!released` | history: the documents of a notebook that were made public |
| `Inputs!document`, `folder`, `editor`, `job` | the references in a saved notebook, the input folder on the server, the coroutine that stages, the Job |
| `Outputs!rows`, `disk`, `tasks` | `notebook_outputs`, `notebook-outputs/`, `work_file_deletions` |
| `Learn!attempts`, `progress`, `worker` | `exercise_attempts`, `exercise_progress`, the transaction of the verdict |
| `Benchmarks!runs`, `collection`, `visibility` | `benchmark_runs` with their snapshot, `benchmark_collections`, what is public |
| `Threads!state`, `text`, `revisions`, `notices`, `reports` | rows of topics and replies, their revisions, notifications and reports |
| `Community!content`, `cache` | the rows that count, `user_progression` |
| `Community!tx`, `overlapped` | transactions under way, with their marks, locks and what they computed; history: owners whom transactions that overlapped left in doubt |
| `Pipeline!releases`, `current`, `cluster`, `registry` | the release records, the file that names the current one, what runs, the images |
| `Startup!db`, `pc`, `removed` | what the database has, where the start is, and history: what users removed |

| Actions of `NotebookRuns` | Code |
| --- | --- |
| `CreateRun`, `CancelRun`, `CreateSchedule` ... `DeleteSchedule` | the routes of `notebook_runs.py` |
| `CreateAttempt`, `RemoveExercise` | `create_attempt()`, `remove_exercises()` of `learn.py` |
| `DeleteNotebook`, `DeleteNotebookDeadlock` | `remove_work()` of `main.py`; the second is the deadlock with a scan that PostgreSQL ends by rolling the scan back |
| `ClaimAttempts` ... `ClaimRefuse`, `RefuseCommit`, `RefuseStale` | `claim()` and `refuse()`; one action per row and per commit |
| `CreateJob`, `SkipJob`, `CreateJobFails`, `Poll*` | `execute_run()`, `execute_attempt()`, `run_kubernetes()` |
| `CompleteRead`, `CompleteCommit`, `CompleteRollback`, `Release` | `complete_run()`, `finish_run()`, `finish_attempt()`, `release()` |
| `Fail*` | `fail()`, and `worker()` when `fail()` raises |
| `ScanBegin`, `ScanCheck`, `ScanInsert`, `ScanCommit` | `enqueue_due()`: select, the two reads per schedule, insert, commit |
| `Crash`, `Restart` | the process dies; `cleanup()` and `recover()` at its start |

In `Competitions`, `Join` to `SelectFinal` and `CreateCommit`, `CancelCommit` are the participants'
routes; `WorkerClaim` to `RecordFailure` are `commit_worker()`, `execute_snapshot()` and
`complete_commit()`; `UpdateSettings` to `UpdateOverview` are the host's routes, each with
the `refresh_results()` it ends in. In `GpuSessions`, a request goes `Receive`, `Ask`, one
of `AnswerStatus`, `AnswerStart`, `AnswerStop`, and a GPU start on through `SweepAsk`,
`SweepAnswer`, `SweepDone`, `Reserve`, `Post` and its answers.

| Actions of `Storage` | Code |
| --- | --- |
| `CreateDraft` ... `DeleteVersion` | the routes of `resource_versions.py` that read and write under the dataset row only |
| `RemoveFileRead`, `RemoveFileCommit` | `remove_draft_file()`, whose DELETE waits for an assembly |
| `DiscardRead`, `DiscardCommit`, `RemoveRead`, `RemoveCommit` | `discard()`, and `remove_work()` of a dataset: `drop_sessions()` removes parts before the transaction ends |
| `UploadCharge`, `UploadCommit`, `UploadFails` | `upload()` of `artifacts.py` |
| `OtherCharge`, `OtherEnds`, `SetQuota` | `upload_dataset()` and a deletion elsewhere; `set_quota()` |
| `CreateSession*`, `Chunk*`, `WritePart`, `Complete`, `Abort` | the routes of `uploads.py` |
| `AssembleBegin` ... `Fail` | `assemble()` and `fail()`: read, build and rename, lock, check and flush, commit |
| `DeadlockFails*` | PostgreSQL ends one of an assembly and a request that wait for each other |
| `SweepSelect`, `SweepCommit`, `SweepOrphan` | `expire_uploads()` |
| `CleanupUnlink`, `CleanupCommit` | `remove_work_file()` of a blob |

| Actions of the editor and notebook modules | Code |
| --- | --- |
| `Workspace`: `CreateDraft`, `Heartbeat`, `Open*`, `Save*`, `Discard*` | the routes of `notebook_drafts.py`, split at their awaits |
| `Workspace`: `CleanSelect`, `CleanLock`, `CleanRemove`, `CleanDone`, `CleanFails` | `cleanup_drafts()` for one of the drafts it selected |
| `Workspace`: `PutDraft*`, `PutBook*`, `OpenBook*` | `put_document()` of `notebook_editor.py`, `open_notebook()` of `notebook_runtime.py` |
| `Workspace`: `Resolve` | `resolve()` of `execute()` and `control_kernel()`, which waits for a draft's row on the event loop |
| `Kernels`: `TakeUserLock` ... `CreateSession`, `Execute`, `SendCell`, `Stream*`, `InterruptCell`, `Release` | `kernel_for()`, `execute()` and its stream |
| `Kernels`: `Control*`, `RemoveFile` | `control_kernel()`, `remove_file()` |
| `Publications`: one action per route | as the mapped lines say |
| `Inputs`: `Attach`, `RemoveSource`, `StartKernel`, `StageFile`, `RemoveFile`, `EditorDone` | `attach_source()`, `remove_source()`, `kernel_for()` with `materialize()`, one file per step |
| `Inputs`: `StopServer` | `stop_session()`; restarting a kernel leaves its session, and what was staged, in place |
| `Inputs`: `Queue`, `JobResolves`, `JobCopies`, `JobExecutes`, `JobEnds` | a background run with `stage_inputs()` |
| `Outputs`: `Begin`, `StoreFile`, `Insert`, `Commit`, `Abort` | a save or a finished Job with `store_snapshot()` in an open transaction |
| `Outputs`: `Export*`, `CleanCheck`, `CleanUnlink` | `export_output()`, `remove_work_file()` |

| Actions of the other modules | Code |
| --- | --- |
| `Learn`: `CreateLesson` ... `DeleteCourse` | the author's routes, under the course row |
| `Learn`: `Claim`, `FinishRead`, `FinishFlush`, `FinishCommit`, `FinishConflict` | `execute_attempt()` and `finish_attempt()`, split where they read and write |
| `Learn`: `HintRead`/`HintCommit`, `VisitRead`/`VisitCommit` | `reveal_hint()`; `get_course()`, which issues a certificate that is due |
| `Benchmarks`: `StartCheck`, `StartCommit`, `Claim`, `Finish`, `Restart`, `Crash` | `start_run()`, `worker()`, `finish()`, `recover()` |
| `Threads`: `Post`, `Edit`, `Remove`, `DeleteTopic`, `Moderate`, `Report`, `Resolve`, `DeleteTarget` with their `...Commit` | one pair per route |
| `Community`: `Create`, `Delete`, `ChangeAccess`, `Moderate`, `Remove`, `Upvote`, `RemoveUpvote`, `Recalculate` | routes that mark owners, with what each holds when it marks them |
| `Pipeline`: `StartRun`, `ComputePlan`, `Build`, `Record`, `StartDeploy`, `Apply`, `Verify`, `Finish`, `DeployFails`, `Undo`, `Rollback`, `Killed` | `command_run()`, `command_rollback()` and their helpers |
| `Startup`: `Migrate`, `CopyDiscussions`, `CopyLikes`, `Backfill`, `Seed`, `Versions`, `Learn`, `Import` | the steps of `lifespan()`, one transaction each |

`PROJECT.json` maps every definition to its lines.

### Assumptions

* PostgreSQL at READ COMMITTED with real row locks. SQLite, which the code supports for
  a local start, ignores `FOR UPDATE`; only `Startup` models it.
* One evaluation worker process (`docs/compute.md`: "The evaluation worker stays a single
  replica") and one uvicorn process. `GpuSessions` splits at awaits only, and
  `require_gpu()` and `open_usage()` run under the pool lock, so its results do not
  depend on the second.
* All schedules are hourly: a unit of time in `NotebookRuns` is the shortest interval.
  A unit of time in `Competitions` is a day, in `Workspace` half a lease.
* Every workload takes `GpuCount` GPUs (`NOTEBOOK_GPU_COUNT`).
* A run's owner, and a schedule's, is the notebook's owner throughout.
* A weekly quota that is used up, or GPUs switched off, are refusals that may happen at
  any time (`ClaimRefuse`, `ReserveRefused`, the `refused` choice of `ScanInsert`).
* In `Storage` every file has size 1 and one chunk, and every user is the owner. What
  admits a request also reserves the key or the row it will need, so no bound stops a
  thread half way. A blob that is still being written under its hidden name is not
  a blob yet.
* A score is one of a few values; the metric that makes it is not modelled.
* *What the newer modules leave out.* `Publications`: publishers and their teams, and
  moderation. `Inputs`: moderation, variations of models, the copies older servers keep in
  the root folder. `Outputs`: a save snapshots one file, and who may see a notebook.
  `Threads`: there is one comment and one reply, the statements of `remove_engagement()` are
  one step, and preferences, read state, bookmarks and pins do not occur. `Startup`: default
  forums, settings rows and the other column migrations are folded into those that differ.
  `Kernels`: one user.

## 3. Runs

| Run | Expected | Instance | What it shows |
| --- | --- | --- | --- |
| `RunsSchedules` | pass | one notebook, two schedules, two runs, three time units, one crash, `MAX_CONSECUTIVE_FAILURES` 2 | Owner requests, the scan, run outcomes and a crash never leave an active schedule without a next run (`ActiveScheduleFires`) and never queue for a paused one or twice for a notebook in one scan (`ScanObeys`); rows belong to notebooks, there is one consumer, and its Jobs have usage rows (`RowsConsistent`) |
| `RunsPool` | pass | two notebooks, a learner, a session user, two runs, an attempt, one GPU, one crash, failing writes and leaked Jobs | Usage rows follow the work (`UsageMatchesRows`) and refine `GpuPool` (`PoolSpec`), which keeps the capacity; ended work stays ended (`EndedStaysEnded`), but for the case `RunsCancel.cfg` shows |
| `RunsLiveness` | pass | one notebook, one schedule, a session, two runs, one crash; three attempts of three learners and a batch of two | Under fairness claimed work ends (`ClaimedEnds`), CPU work behind waiting GPU work is reached unless that work fills a batch (`CpuWorkContinues`), due slots are dealt with (`DueSlotHandled`) |
| `Sessions` | pass | one user, two requests in flight, the loop, one GPU, two reservations, lost answers | Whatever the interleaving of requests, the loop and the Hub's answers, a row of a stopped server is closed in the end |
| `Competition` | pass | two users, a team, limits of one or two submissions a day and finals that the host may change, two submissions, a commit, a disqualification, an end the host may move | Daily limit and final cap (`LimitsKept`), one leaderboard entry per user and owned teams (`EntriesSettled`), current results, commits scored once |
| `CompetitionUploads` | violation | one user, fair handlers | the finding |
| `StorageVersions` | pass | one upload, one assembly, a CSV and another path, three files, three versions, another dataset with one file, quota of two or three | Whatever replaces, releases, withdraws or carries over files, those of a version can be read, and no draft goes from under an upload (`VersionsWhole`); numbers refine `VersionHistory`; the legacy fields name a CSV of the latest version (`PrimaryCurrent`); the quota is kept by all who check it (`CapacityKept`) |
| `StorageUploads` | pass | one upload, two assemblies, slow ones, parts that stay behind, one restart | A blob has a row or a thread (`BlobsAccounted`), a completed upload stays completed and assemblies end (`UploadsSettle`), deleted files and parts of removed uploads go (`CleanupEnds`) |
| `Editor` | pass | one user, three tabs, a lease of two units, a linked competition, a request that resolves the draft; two documents, two requests, one kernel | A draft whose lease is renewed stays, and a deleted notebook does not return (`DraftsKept`); an abandoned draft goes unless the loop is stopped (`AbandonedGoUnlessStuck`); an interrupt stops only its own cell, and every kernel becomes free (`CellsServed`) |
| `Services` | pass | a lesson, two exercises, two attempts, a hint; a task, a model, two collections, two runs; three crashes of a start on either backend | `ProgressKept`: progress counts the verdicts that were recorded, and nothing outlives what the author removed; `CertificateComes`: also when the last step was the author's; `BoardHidesPrivate`, `RunsServed`; `MadeOnce`: a restarted start makes nothing twice and brings back nothing a user removed; `StartsEnd` |
| `Notebooks` | pass | two notebooks and users, a competition, an edit and a commit; three files of which a kernel takes two, two versions; two writers, two output rows and files | Competition code lists documents that were scored (`PublicationsHold`), private edits stay private (`PrivateEditsStayPrivate`), output rows keep their file (`OutputsKept`), Jobs read one version and kernels find the files they were staged (`InputsKept`) |
| `Site` | pass | two requests, three users, a moderator; a voter and an author of a thread, one transaction that others overtake; four releases, one component version that is broken | Replies have their comment (`ThreadHolds`), edits keep what they replace (`EditsKept`), one open report (`OneOpenReport`), the cached tiers are those of the votes (`CacheFollows`), what is current is what runs (`CurrentServes`) |

Several properties name a conjunction of related ones; the parts are stated in the
modules, each with what it is about.

### Bounds

* *Runs.* Two rows and a batch of two are the least in which one refused row releases
  the lock of another. Two schedules of one notebook meet in one scan. One GPU and three
  kinds of holder make every allocation contended. One crash reaches every program
  point of worker and scheduler. `MaxTime` 2 lets a slot come due, be missed and be
  replaced. `MaxFailures` 2 separates "a failure" from "the failure that disables";
  1 in the liveness run, which does not depend on it. The batch of 20 is scaled to 2. In the
  liveness run the queue of attempts is longer, so that GPU work can fill a batch and cut off
  what comes after it: `CpuWorkContinues` exempts that case, which `RunsBatch.cfg` shows. To keep
  the instance small, attempts and runs do not meet in one behaviour there (`OneQueue`): the
  worker claims each from a query of its own, and the other runs have both.
* *Row bound.* Tables are bounded by `MaxRuns` and `MaxAttempts`; a scan starts only if
  its inserts fit, and a request only if it leaves room for a scan under way. That is
  a bound of the model and not of the code, and the liveness properties name it
  (`RowsLeft = {}`).
* *Sessions.* Two requests of one user and the loop are the least in which a reservation
  meets another coroutine's Hub answer. Two reservations let one be closed in place of
  another.
* *Competitions.* The two timelines give a deadline that a host moves both ways, across
  a midnight; two scores with opposite public and private order, and a rescoring that
  exchanges them, give results that differ with every choice; limits of one are
  reached by the first submission or selection, and a host who lowers two to one leaves an entry
  with more than it may have. `Bounded` leaves out rare combinations (a disqualification beside
  new rules, or beside the higher limits): they are checked and not followed.
* *Storage.* Three files and three versions are the least with which a version is carried
  over, one of its files replaced, and a number given out after a deletion. Two
  assemblies are one that is slow and the one that is started again. `Budget` bounds keys,
  versions, sessions and restarts together and `MaxInFlight` the transactions in
  progress: two, since every hazard but a chain of waits is between two. There is
  one upload, so `MaxActive` is not reached. Two uploads and two assemblies into one draft,
  with two versions and two paths, make 600 thousand states and no counterexample; that
  instance is not among the runs, which are one per question. A quota of two or three is full
  after a file and a reservation. "slow", "digest" and "rmtree" are split over the two
  runs to keep them small.
* *Editor.* Three tabs are a heartbeat, a save and an open in flight at once. A lease of two
  units can be renewed, run out and be renewed too late. One kernel and a backlog of two
  are a cell and one that waits for it; two kernel ids make 300 thousand states of
  `Kernels` alone, without a counterexample.
* *Services.* Two exercises are one that is passed and one that is missing, or removed. Two
  attempts are a failure and a pass. Two collections and a limit of one run each (three in
  the code) contend for the user's allowance. Three crashes meet every pair of
  transactions of a start, and a third in the repair.
* *Notebooks.* Two notebooks are one and its fork; an edit and a commit are enough for a
  document to differ from what was published and from what was scored. Two versions are
  the one that was attached and the latest; `InteractiveFiles` 2 of three files separates
  versions that are copied for a kernel, one file after the other, from those that are too large. Two rows and two files are a row
  whose file another reuses.
* *Site.* Two requests overlap in every pair. Two texts, of which one mentions somebody,
  tell edits apart. One hidden item at a time (`MaxHidden`). One slow
  transaction is overtaken by any number of uninterrupted ones, which covers each pair that
  overlaps; the proof has any number of slow ones. States with two votes, with two
  items withheld, or with one of each while a transaction is under way, are checked and not followed
  (`Few`), and so are those in which a tag holds other sources than it names, which no step of
  the pipeline looks at. Four releases are a baseline and three runs, enough for a run that
  fails half-way and is kept, a second that changes nothing, and a deploy after them; undoing
  and rolling back record none. One component version is broken.
* `CHECK_DEADLOCK FALSE` stands where the bounds (all rows used, the clock at its end)
  let the model stop. `Sessions` checks for deadlock.

### Fairness

* `FairSpec` of `NotebookRuns` (in `RunsLiveness` as `MCFairSpec`, the same fairness over the
  steps that `OneQueue` leaves): the two coroutines of the evaluation worker run in loops
  with bounded sleeps and every call has a timeout, hence weak fairness of `WorkerStep`
  and `SchedulerStep`; `Restart` is weakly fair because the deployment restarts the
  container (`restart: unless-stopped`). Owners, sessions and crashes are not fair.
* `FairSpec` of `GpuSessions`: every coroutine continues, since Hub calls time out, and
  the loop runs for ever. Requests and the Hub are not fair: no user has to come back,
  no server has to stop.
* `FairSpec` of `Storage`: threads, requests that are being served, chunks and the two
  loops go on. `AssemblerStep` and the recovery of an interrupted assembly are strongly
  fair: PostgreSQL queues those that wait for a row, and a pass of `expire_uploads()`
  takes every stale session, where the model takes one. No request has to be
  sent, no upload finished, and restarts happen or not.
* `FairSpec` of `Competitions`: an upload whose handler can go on does.
* `FairSpec` of `Workspace` (in `MCEditor!Drafts`): the clock and other requests for the row go
  on, so does each coroutine; those that wait for the user lock or a row are strongly fair, since
  `asyncio.Lock` and PostgreSQL queue them, and so is the removal of a file, which is possible
  while the server is ready: servers may stop and start again for ever. Users do nothing by duty.
* `FairSpec` of `Kernels`: each request goes on, as every wait has a timeout. A cell does
  not have to end.
* `FairSpec` of `Learn`: a learner who opens the course again gets an answer (`VisitRead`,
  `VisitCommit`). Neither author nor worker has to do anything.
* `FairSpec` of `Benchmarks`: the worker's loop and its restarts; the claim is strongly fair, since
  it waits for no row for ever.
* `FairSpec` of `Startup`: a start that began goes on; crashes are bounded, and the
  container is restarted.

### Finding

`submit()` (`main.py:1010`) holds the competition row across an await on the event loop; a
second upload that arrives while a spooled file is being read blocks the loop on
that row, and the first never continues (`UploadsEnd`).

### Further divergences, reproducible

Each of these configurations makes TLC find a behaviour that a document or a comment of
the repository rules out. They are not among the listed runs, which ask one question each and
are bounded in number; `tlc -config X.cfg M` reproduces them.  Two of them name several
properties, one for each row: leave one in the file to see its trace, or run TLC with `-continue`.

| Configuration | Module | What happens |
| --- | --- | --- |
| `RunsCancel.cfg` | `MCNotebookRuns` | `claim()` (`compute_worker.py:240`) commits after refusing one row, which releases the locks of the other rows it selected, and then writes "running" to rows as it read them: a cancelled run runs (`docs/compute.md:27`) |
| `RunsOverlap.cfg` | `MCNotebookRuns` | `enqueue_due()` (`notebook_runs.py:314`) looks for an active run without the notebook lock owner requests take: two runs of a notebook are active (`docs/compute.md:28`) |
| `SessionsCapacity.cfg` | `MCGpuSessions` | `reconcile_session()` (`notebook_runtime.py:156`) applies an old "stopped" to a reservation made after it, and the next user's start passes the capacity check (`docs/compute.md:121`) |
| `StorageLeak.cfg` | `Storage` | `remove_draft_file()` (`resource_versions.py:788`) releases the file it read; when an assembly has replaced it by then, the new file is left without a version and counts against the quota (`docs/datasets.md:70`) |
| `WorkspaceLocks.cfg` | `MCWorkspace` | `save()` of a draft that is linked to a competition keeps a row locked across its awaits; another coroutine that wants the row stops the event loop, and no abandoned draft is removed any more. A cell that is run or interrupted in a draft wants it too (`Resolve`) (`docs/notebooks.md`: the API checks abandoned drafts every thirty seconds) |
| `WorkspaceImport.cfg` | `MCWorkspace` | `open_notebook()` looks for the file, finds none, and imports over what a save wrote meanwhile ("Never replace the working copy or its outputs", `notebook_runtime.py`) |
| `RunsBatch.cfg`, `CpuWorkNeverWaits` | `MCNotebookRuns` | `claim()` (`compute_worker.py:230`) looks at the oldest rows of a kind, 20 in the code and two here: when GPU work that waits fills them, the CPU work behind is not looked at (`docs/compute.md:97-99`) |
| `SiteDivergences.cfg`, `CacheCurrent` | `MCSite` | A transaction chooses whom it marks, or computes, before another commits that concerns the same owner. A topic is posted while its dataset is made private: `mark_related()` does not see the topic, `create_topic()` not the privacy, and the author's rank stays (`docs/community.md:225-232`) |
| `SiteDivergences.cfg`, `TagsNameSources` | `MCSite` | HEAD moves while a run builds: an image is pushed under the tag of sources it was not built from |
| `SiteDivergences.cfg`, `DeployedWasVerified` | `MCSite` | A release that fails half-way stays (`--no-rollback`). The next run finds no difference from the cluster and records the same images as deployed, without the smoke test |
| `InputsStale.cfg` | `MCNotebooks` | Files of a version that was attached before stay in the input folder, where a kernel finds them and a Job does not (`docs/notebooks.md:22`) |
| `ThreadsDivergences.cfg`, `TopicEditsKept` | `MCThreads` | Overlapping edits of a topic, which is not locked, store the same previous text twice and the one between never (`docs/community.md`) |
| `ThreadsDivergences.cfg`, `CommentsHaveTopic` | `MCThreads` | A comment is posted after `delete_topic()` looked for comments: it is left without its topic |
| `ThreadsDivergences.cfg`, `ToldOnce` | `MCThreads` | `resolve_report()` and `delete_target()` both resolve a report, and its reporter is notified twice |
| `StartupRebuild.cfg` | `Startup` | On SQLite a crash inside `drop_not_null()` leaves the copy of the table behind, and every later start fails on it (`docs/administration.md:117`) |
| `StartupVariations.cfg` | `Startup` | A model whose last variation was deleted gets a new one at the next start (`docs/models.md:23`) |

*Known limits*, read in the code and not shown by a configuration.

* *Storage.* An upload that is assembled for more than ten minutes in silence may be assembled
  twice, and the second assembly's `fail()` turns the completed upload to "failed";
  `CompletedStays` exempts it by `doubted`. A restart between the rename of a blob
  (`uploads.py:436`) and the commit of its row leaves a blob that nothing removes;
  `BlobsAccounted` speaks of the time before a restart. The default quota is a site setting
  (`storage_quota_gib`, `storage_quotas.py:46`) that changes without the owner's row; the model has
  the locked `set_quota()` only. Lowering it under a request that has passed the check leaves
  more stored than allowed, as `set_quota()` may by itself; raising it only makes room.
* *Editor.* The database part of `put_document()` runs outside the user lock; `kernel_for()`
  resolves the path before it has it. Discarding a draft that was saved ends the kernel its
  notebook shares. `open_notebook()` can write the file of a notebook that is being deleted.
  `cleanup_drafts()` takes 100 expired drafts in no order: 100 that cannot go hide the rest.
* *Publications.* A save through the older API leaves the publication as it is, where
  `docs/code-library.md` says that it is reset. A fork of a private notebook that was shared
  copies the private document. "public" in the share settings of competition code is
  satisfied by a publication made before.
* *Outputs and inputs.* Outputs of unpublished saves of a public notebook are readable. A save
  that fails leaves files without rows.
* *Learn.* Where `reveal_hint()` and `finish_attempt()` both insert the first progress row
  (`learn.py:356`), the worker answers with a failed attempt and the verdict is lost.
* *Threads.* Votes on a nested reply stay when only the reply is deleted, and may be cast on a
  placeholder. A report that is filed during a deletion stays open. Notices of one vote group
  may be duplicated.
* *Pipeline.* A baseline may be recorded without a manifest. A deploy that changes only the
  runtime restarts the worker though Jobs run.

## 4. Proofs

All constants are arbitrary, under the assumptions named in the modules
(`RunsAssumption`, `SessionsAssumption`, `StorageAssumption`, `CompetitionAssumption`,
`PublicationsAssumption`, `NotebooksAssumption`, `ThreadsAssumption`, `LearnAssumption`,
`ServicesAssumption`, `WorkspaceAssumption`, `SiteAssumption`): bounds are natural numbers, the "none" values are
none of the things they stand for, sets that are counted are finite. Nothing is assumed of
sizes, so the theorems also hold where the instances of section 3 are too small. Modules that are
checked side by side are proved one by one: the theorem is about the specification of the
part (`O!Spec`, `B!Spec`), the property has the name it has in the run.

| Theorem | Module | Argument |
| --- | --- | --- |
| `TypeCorrect` | `NotebookRunsProofs` | `TypeOK` is inductive. It is split into five pieces, for rows, schedules, worker, scan and the rest; a step re-establishes only the pieces it touches. `FinishType` is the lemma for every path through `finish_run()`. |
| `CapacityKept` | `NotebookRunsProofs` | Every step closes rows, or opens one row of a run or of a session after `GpuFree` (`PoolStep`). Cardinalities of finite sets do the rest. |
| `RunsImplementPool` | `NotebookRunsProofs` | The same case split: a step that closes is `Release` or a stutter, one that opens is `Acquire`. Claiming a run that holds a row already is a stutter. |
| `SchedulesFire` | `NotebookRunsProofs` | `SchedInv` adds `ScanLocks`: what the scan has locked is active and as it was read, and what it is going to write over it has a next run or is disabled. `finish_run()` writes schedules too; the stale copies of the worker's session are harmless because a flush writes changed attributes only (`Flush`). |
| `RowsAgree` | `NotebookRunsProofs` | `RowsInv` is the inductive invariant of the module. Its parts: uncommitted inserts belong to locked schedules (`Inserted`), rows and schedules in their tables have a notebook (`RunsOwned`, `SchedulesOwned`), rows of a batch are queued while they are locked (`ClaimRows`), the worker's row is running while it is locked (`ItemRow`), no other is (`OneRunning`), and Jobs exist only while it polls (`JobOfItem`). Where writes may fail ("db"), a row of the worker may stay "running" after it, as `SerialConsumer` says. |
| `UsageFollowsRows` | `NotebookRunsProofs` | `UsageOfRows`, from `ItemRow`: the usage of an attempt that was deleted stays open until the worker lets go of it (`Held`), which is what the exemption in the property means. |
| `EndsAreFinal` | `NotebookRunsProofs` | A step from `RowsInv`: only a claim writes over a row that it no longer holds, and by `ClaimRows` that row is queued, cancelled or deleted. |
| `ScansObey` | `NotebookRunsProofs` | A step from `RowsInv`: `Inserted` says that two rows of one scan have different notebooks, `ScanLocks` that their schedules are active. |
| `TypeCorrect` | `GpuSessionsProofs` | `TypeOK` is inductive, one case per step of a coroutine. |
| `SessionsImplementPool` | `GpuSessionsProofs` | The refinement, which no run checks. Only `Reserve` opens a row (`OnlyReserveOpens`). That the row is new needs the strengthening `RowsNumbered`: no open row has a number above `starts`. |
| `ReservationsFit` | `GpuSessionsProofs` | As `CapacityKept`, from the same lemma. |
| `VersionsAreWhole` | `StorageProofs` | `StorageInv` is the inductive invariant of the module, in parts that the others need. For files: what a thread or a request is about to store is in nobody else's hands and has its blob (`FilesApart`); what an assembly has found to be replaceable is used nowhere else as long as it holds its draft (`ReleaseHolds`). For sessions: an assembly that holds its rows finds the session "assembling" and its version a draft (`AttachLocks`), the sweep gives back only what nobody works on (`SweepHolds`), and a request that removes an upload's draft has seen all its sessions (`Requested`). |
| `PrimaryFollows` | `StorageProofs` | `PrimaryCurrent` is inductive once versions are: the latest version is the published one with the highest number, which exists because numbers are bounded (`LatestIs`, from `Greatest`) and is one because they are unique (`NumberedInOrder`). Publishing makes the draft the latest (`NewNumber`); a version that is withdrawn and was not the latest leaves it alone (`SameLatest`). |
| `BlobsAreKnown` | `StorageProofs` | `BlobsKnown`, with `FilesApart`: a thread lets go of a blob when its row is committed or when it has unlinked it. |
| `QuotaIsKept` | `StorageProofs` | `OwnerLocks`: one request or thread at a time has found room, and what it has found room for still fits (`GrantsWithin`, with cardinalities of finite sets). Every other step adds nothing (`QuietWithin`) or moves a reservation into a file. |
| `VersionsImplementHistory` | `StorageProofs` | The refinement, step by step. `PublishDraft` is `Publish` of the next number, since all before it are taken (`NumberedInOrder`) and none is taken twice (`PublishKept`); `DeleteVersion` is `Withdraw`, of a version that is not the last (`WithdrawKept`); `RemoveCommit` is `RemoveAll`; all other steps stutter, because drafts have no number and nobody writes the files of a version that has one (`HistoryStays`). |
| `Settled` | `CompetitionsProofs` | `TypeInv` adds to `TypeOK` that whoever works works on something (`Working`). `SettledInv` is `OneTeam`, `Attributed` and `TeamsAreOwned`: a user is in one team at most, and a submission carries the entry its user is in. The second is kept because nobody moves who has a submission or a pending commit (`UnlockedTeam`), and who moves moves alone (`TeamMove`, `OthersStay`). |
| `ScoredOnce` | `CompetitionsProofs` | `ScoredInv`: a commit that has a submission is no longer active, and no submission is of a day to come. |
| `Limited` | `CompetitionsProofs` | `LimitsKept` is a property of steps, as a host may lower a limit below what is used: nothing is added beyond the limits of the moment. `LimitsInv`: the place of an upload in progress is free under the present limit, which holds because changing it waits for the row the upload holds. Who leaves a team takes nothing along (`LimitsTeams`, from `SettledInv`); of the entries a user is in, the team's has used most (`EntryMost`); a commit that is scored gives up its place of a pending one (`LimitsNew`); a new day starts with what is pending (`LimitsDay`, from `ScoredInv`). |
| `Current` | `CompetitionsProofs` | `ResultsInv` adds that results are stored after the end only and not while an upload holds the row. Before the end nothing is stored (`NotYet`), so that submissions, selections and teams may change; after it only handlers that refresh what is stored change anything (`Refreshed`). |
| `PrivateEdits` | `NotebooksProofs` | `PrivateEditsStayPrivate` by itself does not say what a notebook that becomes public will show. `DraftsHaveCopies` (a notebook that a draft saved has a private copy until it is published) and `KeptPrivate` (what a publication holds was released, whether it is shown or not) make it inductive. |
| `ListedWasScored` | `NotebooksProofs` | `EvaluatedOnly` speaks of the newest commit that was scored, so a commit that is scored must not be older than one that was: `ActiveIsNewest`, since a notebook has one active commit at a time and new ones come last. |
| `OutputsStay` | `NotebooksProofs` | `OutputsInv`. A file belongs to the rows, sessions and the export of one notebook (`FilesOwned`), and the files the cleanup is given are of notebooks that are gone (`TasksAreOfTheDead`); so a file that is reused, in a session that has not committed, is nobody's to remove. What is stored and not yet inserted has its file with its bytes (`StoresStand`, `ExportStands`). |
| `RepliesStayAnswered` | `SiteProofs` | `ThreadInv` says what a request that is under way may still rely on when it commits: the comment it answers is there and its own place is free (`PostHolds`), a comment it removes has no reply and gets none (`RemoveHolds`). It is kept because two requests never hold the same row (`LocksExclude`). |
| `ReportsAreSingle` | `SiteProofs` | `ReportHolds`, of the same invariant: `report()` holds the row of its reporter from the look for an open report to its insert, and whoever closes a report only makes room. |
| `EditsAreKept` | `SiteProofs` | A step from `ThreadInv`: by `EditHolds` and `BuryHolds` the text a request stores as the previous one is the one it replaces. Topics are not locked by their edits, so the property and the proof are about comments and replies; `ThreadsDivergences.cfg` shows topics. |
| `BoardsHidePrivate` | `ServicesProofs` | What is public stays public: a save in progress that found the asset public keeps it so (`SavesKeepPublic`). Hence what a public collection pins is public (`PublicPins`), and so is what a run of it recorded. |
| `RunsAreLimited` | `ServicesProofs` | `StartsFit`: between the check of a start and its insert nobody else starts, since the check holds the rows, and what ends meanwhile only makes room. |
| `ProgressIsKept` | `ServicesProofs` | `LearnInv`: one attempt is active and not yet counted (`AttemptsHold`); the attempt in the worker's transaction is running, so its exercise is there (`WorkerHolds`), and nobody removes it before the commit, which waits; a hint that was found to be left still is (`HintHolds`). The commit adds one attempt to those that count and one to the counter (`CommitMoves`). |
| `InputsStay` | `NotebooksProofs` | `InputsInv`: a reference that pins a version lists the files of that version, wherever it is kept (`Faithful`); what a request has copied so far is in the folder, because nobody else writes there while it holds the editor (`EditorHolds`); what a Job copies is one published version, and the pinned one if its notebook pins one (`JobHolds`). That there is a version to resolve to needs that the last published one is not deleted on its own. |
| `CacheIsCurrent` | `SiteProofs` | `CommunityInv`: transactions under way hold different rows (`RowsExclude`), a user whom no overlap left in doubt has the cache that `compute()` gives, and what such a transaction has computed for its users is what they will have when it commits (`UnderWayHolds`). A commit beside it either leaves that as it is (`Apart`, `CommitBeside`) or concerns the same owner, who is then in doubt; whom a commit does not mark has nothing in what it changes (`Untouched`), which is where `mark_related()` has to name the owners of all that hangs on an item. `CacheCommits` puts them together. Any number of transactions is slow, of every kind; `Members`, `Author`, `Bronze` and `Slow` are arbitrary. |
| `CurrentIsServed` | `SiteProofs` | `PipelineInv`: the current release went well; from the caching of the images until a deploy is finished the cluster counts as unsettled; a run is verified with the status "deploying", and an undoing or a rollback deploys a release that went well before (`CommandHolds`), so that whatever finishes was fit to be current. |
| `StartsMakeOnce` | `ServicesProofs` | `StartupInv` relates records to what they stand for: a thing is absent until its map, migration or receipt is recorded, and then it is there unless a user removed it (`CopiesHold`, `ReceiptsHold`); nobody removes anything before a first start is complete (`RemovedHolds`). Likes are copied after the discussions they go to, since migrations run in order (`InOrder`). |
| `DraftsAreKept` | `WorkspaceProofs` | `WorkspaceInv` says what a coroutine may rely on after an await: between two steps of serialized work it has its user's lock, a discard and the cleanup have found the lease ended, a Save or an opening works on a draft that is there and on a notebook nobody deleted (`TabHolds`, `CleanerHolds`). The last needs that a draft which lives after its notebook is one with its lease ended (`BookHolds`), since deleting a notebook expires the draft that saved it. |

Note what the pool theorems say and what they do not: the *rows* never exceed the
capacity. That a server which runs on a GPU has a row is a different matter, and
`SessionsCapacity.cfg` shows it is not so. Likewise `EntriesSettled` is about rows: it is
what makes "the entry of a user" well defined for scores that were attributed earlier.

Out of the prover's reach, and left to TLC: the liveness properties, anything with
`ENABLED`, and what recursive definitions compute for every input.
Every other property of a passing run is proved.

## 5. Plan

Done: runs and schedules, sessions, competitions, storage, drafts and kernels, publications,
inputs, outputs, Learn, benchmarks, threads, progression, startup and the pipeline are
modelled and checked, and all safety properties proved. What is left, in the order of
importance:

1. **Calendar.** `next_occurrence()` for hourly, daily and weekly schedules
   and the medal thresholds, as pure operators against a reference definition.

## 6. Not modelled

* `gpu_job()` of commits and benchmarks opens a usage row without a capacity check, as
  `docs/compute.md` describes; the pool here is that of sessions, runs and attempts.
* Metrics, file formats, previews, search, page rendering, serialisation: pure functions
  or reads.
* Accounts, sign-in, roles, settings and the audit log: one row at a time, and what is
  correct about them is a question of security.
* Follows, bookmarks, pins, read marks and notification preferences: a row behind a
  unique constraint each. Labels of notebook versions.
* Models and their variations, which share the code of dataset versions; restoring and
  forking versions; downloads.
* Inputs of competitions, models and notebooks: read-only copies through the same code.
* Changing a notebook's owner; deleting a user or a model.
* Providers of benchmarks, Job manifests, the Docker backend, container images and
  the configuration of the Hub: I/O.
* Lost rows of the database, and its own failures, other than a transaction that rolls
  back.

## 7. Running

    tlc -workers 2 -config RunsPool.cfg MCNotebookRuns
    tlapm StorageProofs.tla

The largest runs are `RunsPool`, `Notebooks` and `StorageVersions`, of about a million states each, and
`Competition` and `Site`, whose steps are expensive; none takes more than four minutes on two cores. `StorageProofs` takes
tlapm about five minutes, `CompetitionsProofs` and `NotebookRunsProofs` a few, the others less.
