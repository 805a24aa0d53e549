# Crucible (ml-platform): TLA+ models, checks and proofs

Crucible fine-tunes language models. Clients create jobs through a Go backend;
Python workers, one process per GPU, execute them; Postgres is the source of
truth, Redis carries the queue and a live status, Garage (S3) holds datasets and
adapters. This directory holds TLA+ modules for that system, TLC runs on small
instances, and TLAPS proofs. Paths below are relative to `ml-platform/`;
`PROJECT.json` maps every definition to its source lines.

## 1. Inventory

| Component | State | Operations | What makes it correct |
|---|---|---|---|
| Job store (`backend/internal/db/jobs.go`) | table `jobs` | `Create`, `GetByID`, `List`, `Update` (SELECT FOR UPDATE, check, write) | a checked transition is still allowed when it is written; terminal is final |
| Job handlers (`backend/internal/handler/jobs.go`) | none | POST (insert, then LPUSH, then best-effort `failed`), PATCH cancel (Update, then LREM), GET with overlay, list | an accepted job is neither lost nor doubled when one of the steps fails; an answer is not ahead of the row |
| Queue (`backend/internal/queue/redis.go`, `worker/.../redis_queue.py`) | lists `jobs:queue`, `jobs:processing` | LPUSH, BRPOPLPUSH, LREM, MULTI requeue, LRANGE | at most one entry per active job; nothing hidden in `jobs:processing` |
| Worker loop and processor (`main.py`, `processor.py`, `db.py`) | the claimed id | claim, `get_job`, `mark_running`, preflight, executor phases with heartbeats, `mark_completed` / `mark_failed`, publish, ack | one executor per job; a lost worker does no harm; completed only with an artifact |
| Reconciler (`reconciler.py`) | selected ids | stale running -> reset, publish, requeue; orphaned queued -> requeue | every job ends; no job is taken from a live worker |
| Status hash (`status.py`) | `jobs:status:{id}` | HSET (+ EXPIRE when terminal) | never says completed without an artifact; never hides what the row became later; expires only after the end |
| Executor, trainer, caches, checkpoint store | temporary files, HDD cache, Garage objects | ensure model, download, load, train, upload | a heartbeat at the end of each phase; trains on the whole dataset; one training per adapter |
| Format check and loader (`validation.py`, `trainer.py`) | none | extension of the key; extensions and columns of the files | a format that passes the check can be loaded |
| Dataset registration (`scripts/register_dataset.py`) | table `datasets`, Garage objects | reserve, upload, verify, activate, compensate | a ready dataset is complete; a printed id is registered |
| Model registration (`scripts/register_model.py`) | table `models` | one transaction: select, insert, clear defaults, set default | one default per repo, never lost |
| Preflight (`guardrail.py`, `db.get_model_meta`) | none | allow-list lookup, size check | rejects exactly the oversized |
| Launcher (`launcher.py`) | the child processes | start, reap, forward signals | the pod stops as a unit and finishes the jobs in hand |
| Listings (`List` of the three stores and their handlers) | none | COUNT, SELECT with LIMIT and OFFSET | a walk through the pages misses and repeats no more than the changes meanwhile explain |
| Config, health, middleware | - | - | see section 7 |

Interactions: the handlers and the workers meet in the `jobs` row (SQL
statements), in the two Redis lists and in the hash (Redis commands); there are
no direct calls between them. Workers meet each other in the same places.

What is hard here: every operation is a chain of separate SQL and Redis steps
with other processes in between; workers die anywhere and are restarted; Redis
replies get lost; a phase may outlast the visibility timeout, so that a "dead"
worker is alive; two reconcilers act on the same lists. `PROJECT.json`
lists these hazards at their lines with the properties that watch them.

## 2. Modules

| Module | Models | Composes |
|---|---|---|
| `JobStatus` | the status vocabulary, `validTransitions`, `validateTransition` | |
| `JobLifecycle` | abstract specification: the moves one job may make, and its artifact | extends `JobStatus` |
| `JobPipeline` | handlers, row, lists, hash, Garage, workers, reconcilers | extends `JobStatus`, instantiates `JobLifecycle` |
| `WorkerPod` | the launcher's supervisor and its children, each a worker of the pipeline | extends `JobPipeline` |
| `StatusPoll` | `GET /jobs/{id}` beside the running pipeline, with the timestamps | extends `JobPipeline` |
| `Catalogue` | `GET /jobs`, `/models`, `/datasets` page by page while rows change | extends `JobStatus` |
| `DatasetRegistry` | concurrent `register_dataset.py` runs | |
| `Execution` | a job on the registered dataset: check, download, load, train, upload, second attempt | extends `DatasetRegistry` |
| `ModelRegistry` | concurrent `register_model.py` runs, the preflight and the model cache | |
| `JobPipelineProofs`, `QueueProofs`, `OneExecutorProofs`, `WorkerPodProofs`, `StatusPollProofs`, `CatalogueProofs`, `ExecutionProofs`, `ModelRegistryProofs` | the theorems, see section 6 | extend the modules they are about |
| `MCJobPipeline`, `MCWorkerPod`, `MCStatusPoll`, `MCExecution`, `MCModelRegistry` | definitions the configurations give to constants | |

**JobPipeline.** One SQL statement, one Redis command or one MULTI is one
action, so any other process may run between two of them and a worker may die
there. `pc[w]` names the statement worker `w` is about to execute; `job[w]` is
the id it holds; `todo[w]`, `seen[w]` are the reconciler's local variables.
`create[j]` and `cancel[j]` are the program counters of the handlers.
`JobStore.Update` is two actions, lock-and-check and write-and-commit, and
`RowLocked` keeps every other writer of the row out between them, as FOR UPDATE
does. `old[j]` stands for time: whether `updated_at` has left the window that
matters for the row's status (visibility timeout while running, orphan grace
while queued); every write of the row clears it and `Age` sets it. A row's
`created_at` never exceeds its `updated_at`, so the orphan query's two tests are
one. `jobs:processing` is a set because ack and requeue LREM every occurrence
and only membership is read. Training steps are one loop (`train`, `trained`):
each iteration is a heartbeat's UPDATE and its publish. `LoopTest` and
`LoopExit` are the two outcomes of `while not stop.is_set()`. `Raise` is any
exception of `_run` and leads to `_fail`; `Crash` is the death of a worker,
which includes exceptions that `run()` does not catch (`get_job`, `ack`,
`_fail`, the reconciler). Not steps: requests that answer 4xx and change
nothing.

**WorkerPod.** `launcher.run` for two or more GPUs (a single GPU runs inline, as
in `JobPipeline` itself). `procs` is the supervisor's list, `spawned` the
children that run no Python signal handler yet and die of a SIGTERM, `stop` the
children whose event is set. The first child found gone has the others told to
stop (`Reap`); a SIGTERM to the pod does the same (`Sigterm`); the pod is
started again when the last child is gone. `PodKill` is the loss of the pod.
The steps of a child are those of `JobPipeline`, with the loop's test bound to
the event.

**StatusPoll.** `GetByID` and `Answer` are the two reads of `GetJob`. A clock in
ticks stamps the row (`rowAt`, full precision) and the hash (`hashAt`, cut to
the second by `_now_rfc3339`), and `Fresher` is the handler's comparison. The
worker's clock and the database's are taken to agree. With the worker's clock
ahead by more than the time between two writes `AnswerWasTrue` does not hold;
nothing in the code bounds the difference. An answer without the overlay is
always allowed: a Redis error or a malformed timestamp leaves the row's.

**Catalogue.** One walk of a client through one listing. A row is its place in
the ORDER BY; jobs are inserted before the first row (`created_at DESC`), models
and datasets anywhere. `Move` changes a row's status the way the platform does.
The COUNT and the SELECT are two steps. The parameters go through the parser of
the handler and the defaults of the store, both of which know the default limit;
the response's limit, by which the client goes on, is the handler's. The client
(`Short`, `Reached`, `NextPage`, `Stop`) is not in the repository; it stops on a
short page or at the total.

**DatasetRegistry.** One dataset content, so one key `(name, version)`: a file
or a directory with its files' extensions. The SELECT of `reserve_dataset_row`
is a step, its DELETE and INSERT are the next, visible at commit; a run may be
killed or its upload may fail anywhere.

**Execution.** A job is created from the path of whatever row is there, of any
status or none, as `POST /jobs` does not ask the registry (`Pick`; `picked`
remembers the status). An attempt checks the format of its path, downloads file
by file, loads, trains and uploads file by file, and may fail or die before each.
A second attempt follows when the job was reclaimed.
The row, queue and heartbeat of the job, which `JobPipeline` has in detail, are
reduced to the status here, and the preflight is in `ModelRegistry`. `Overlap`
says whether a job may be reclaimed from an attempt that is still alive.

**ModelRegistry.** One repo. A run is one READ COMMITTED transaction: its writes
appear at `Commit`, and `End` releases what it holds, committed or rolled back.
The clearing UPDATE takes its snapshot when it starts (`ClearStart`), so it
misses rows committed later, and then updates its rows one by one, in any order
(`ClearRow`): a row in `held[r]` is locked until the run ends, also while the
run waits for the next one, `at[r]`. The partial unique index makes `SetDefault`
wait for, or fail against, other defaults. `WaitsFor(r)` is whom the statement
of `r` waits for; where these waits form a cycle the deadlock detector fails one
of the runs (`DeadlockDetected`). This happens: `q` has cleared the default `v1`
and comes to `d`; `r`, whose snapshot has `d` and not `v1`, holds `d` and waits
in the index for what becomes of `v1`. Locks, index entries and the detector are
Postgres's and modelled from how the script uses them. `Ensure` downloads the
revision that the preflight read, some time later, into `cache`. `TightMax` and
`WorkerMax` are the threshold as the script and as the worker have it. Revisions
are pinned commits, hence a constant `ParamCount`.

## 3. Properties

`JobPipeline`

- `TypeOK`: types, and the tie between a worker's step and the job it holds.
- `TerminalIsFinal`: no step of anyone, zombies included, leaves a terminal
  status.
- `CheckedRowStays`: between check and write of `Update` the row still allows
  the write, and no second `Update` is past its check.
- `CompletedHasArtifact`: neither row nor hash says completed before the upload.
- `RefinesLifecycle`: the pipeline implements `JobLifecycle`.
- `NeverStranded`: a queued job listed in `jobs:processing` is also queued in
  Redis or in a worker's hands.
- `EventuallySettled`: a queued job ends.
- `OneExecutor`, `SingleEntry`: one worker per job, one entry per active job.
- `NeverFalselyReclaimed`: a running job is reset only while its heartbeat is
  too old.

`WorkerPod`

- `StopFinishesJob`: no sibling's exit and no SIGTERM ends a child that has a
  job in hand.
- `StopsAsUnit`: a dead child leads to a restart of the whole pod.

`StatusPoll`

- `ToldEnded`: a client told that a job ended finds a terminal row.
- `AnswerWasTrue`: an answer is a status the row had during the poll, unless the
  job ended meanwhile.
- `ExpiresOnlyEnded`: the hash of an active job does not expire.

`Catalogue`

- `SkipsBounded`: a row that matched throughout is missed only if another one
  left the listing, one for each (and, for a client that trusts the total, one
  for each row that arrived between COUNT and SELECT of its last page).
- `RepeatsBounded`: a row is given twice only if another one arrived.

`DatasetRegistry`, `Execution`

- `ReadyIsComplete`: a ready row has all its files.
- `TrainedOnWhole`: a job trains on every file of its dataset, if the dataset was
  ready when the job was created. Nothing is promised for a job on another row.
- `OneTraining`: a completed job's adapter is whole and of one attempt.
- `RejectedEarly`: a single file that passes the check is not turned down by the
  loader for its format.

`ModelRegistry`

- `LatestIsDefault`, `DefaultNeverLost`: the run that set a default last has the
  repo's only one; no commit takes the default away without setting its own.
- `OversizedIsRejected`: the preflight rejects exactly what exceeds the worker's
  threshold, and exactly what the stored hint calls unsupported.
- `OversizedNeverCached`: what the preflight let pass is what is downloaded.
- `EveryRunEnds`: runs that wait for each other, deadlocked ones included, end.

## 4. Runs

Bounds: `MaxMishaps` caps crashes, stops and faults, `MaxTime` the clock of
`StatusPoll`, `MaxMoves` the changes that make a row enter or leave a listing;
the other constants are small sets. Two workers are enough for every race seen
between reconcilers, zombies and owners; a third adds only symmetric copies. One
job is enough where the property is about one job, since jobs interact only
through the lists' order; `Healthy` has two, plus a foreign entry (malformed or
unknown id). Two ticks to a second and three seconds are enough for a write
before, within and after the second of another one. Four rows with limits up to
three give walks of one to four pages, with three changes between any two
statements. The cycle of waiting registrations of section 2 takes a row `d`
registered before, a third run that commits the default `v1` between the
snapshots of `r` and `q`, and a revision for each of these two: three runs and
four revisions. The adapter and the download depend on the attempts and on who
deletes or replaces the row meanwhile, for which two registrations are enough, so
of the three in `DatasetOverlap` one does not run beside a job (`OneApart`). Runs of the scripts,
and attempts, are interchangeable: `DatasetOverlap` uses symmetry;
`ModelDefaults`, which checks liveness too, numbers the runs by the revisions
they register instead (`Sorted`), and leaves out a row that is archived without
being the default (`SortedInit`).

| Run | Instance | Result |
|---|---|---|
| `Interference` | 1 job, 2 workers, a crash at any step, any phase slow, any fault, 1 mishap | `TypeOK`, `CheckedRowStays`, `CompletedHasArtifact`, `TerminalIsFinal`, `RefinesLifecycle` hold |
| `Settles` | 1 cancellable job, a pod of 2 workers, deaths at `SafeSteps`, SIGTERM, pod loss, 1 mishap, fair | `NeverStranded`, `EventuallySettled`, `StopFinishesJob`, `StopsAsUnit` hold |
| `Healthy` | 2 jobs, 2 workers, no crash, lost LPUSH reply | `OneExecutor`, `SingleEntry` hold |
| `OneWorker` | 1 job, 1 worker (the deployed set-up), a polling client, timestamps, crash anywhere, 3 mishaps | `SingleEntry`, `ToldEnded`, `ExpiresOnlyEnded`, `NeverFalselyReclaimed`, `AnswerWasTrue` hold |
| `DatasetOverlap` | 3 runs, or 2 and a job with 2 attempts, empty or archived at the start, 12 datasets (files and directories, known, unknown and mixed formats, empty, no text column), 2 adapter files | `TypeOK`, `ReadyIsComplete`, `TrainedOnWhole`, `OneTraining`, `RejectedEarly` hold |
| `ModelDefaults` | 3 runs, 4 revisions (size unknown, comfortable, at the limit, beyond it), no or one earlier row, equal thresholds, fair | all six properties hold |
| `Catalogue` | 4 rows, any of the three tables, every status filter, limits 1 to 3 or none, 3 changes | `SkipsBounded`, `RepeatsBounded` hold |
| `EnqueueFailure` | 1 worker, failing LPUSH | violated: the job stays queued |
| `CancelRace` | 1 worker, no fault | violated: a cancelled job is executed |
| `FalseReclaim` | 2 workers, 1 crash | violated: a fresh job is reset |
| `CrashedClaim` | 1 worker, 2 crashes, fair | violated: queued and in flight for ever |
| `DatasetPrinted` | 3 overlapping runs | violated: the printed id has no row |

`SafeSteps` leaves out four crash points: between claim and `mark_running`
(`fetch`, `start`) and between `reset_to_queued` and `requeue` (`pubq`,
`requeue`). A crash there strands the job, which is what `CrashedClaim` shows;
`Settles` shows that these are the only ones when no exception is raised before
`mark_running`. With such an exception (`"raise"` in `Faults`) the acked, still
queued job has three more stranding points (`fail`, `pubfail`, `ack`), so
`Settles` leaves that fault out.

`DatasetOverlap`, `DatasetPrinted`, `ModelDefaults` and `Catalogue` switch TLC's
deadlock check off: scripts, jobs and walks end. `EveryRunEnds` takes its place
for the model registry. All pipeline runs check for deadlock.

`OneWorker` leaves out `"raise"`: after a failed `mark_running` the hash says
failed, and expires, while the row stays queued, and a client is told so; with
that fault TLC finds `ExpiresOnlyEnded` and `ToldEnded` violated. With two
workers and a crash `ToldEnded` fails too, as a consequence of what
`FalseReclaim` shows. `DatasetOverlap` sets `Overlap` to FALSE: when a phase outlasts the visibility
timeout and two attempts upload at once, the adapter mixes their files and
`OneTraining` fails.

### Fairness

`CrashedClaim` uses `FairSpec`, `Settles` the same for the children of a pod,
with the supervisor's loop and the restart by k8s in the place of `Boot`
(`PodFairness`). Weak fairness of handlers, `Work`
and `Reconcile`: running processes go on. Of `Boot`: k8s restarts the pod
(`launcher.py:80`). Of `Age`: time passes. Strong fairness of `TickReconcile`:
the loop comes to the test after at most `queue_block_seconds`, and the interval
elapses. Strong fairness of the heartbeat that leaves training: a fine-tune has
a finite number of steps. Nothing is assumed of clients, and mishaps are finite.
`EveryRunEnds` assumes weak fairness of the statements of all scripts and of the
detector together: while a statement is not blocked, or there is a deadlock, some
statement is executed or a deadlock is detected (Postgres looks for one after
`deadlock_timeout`). Which script goes on is left open. Without the detector TLC
finds the runs blocked for ever.

## 5. Disagreements between code and documentation

The five violated runs, with the quoted lines, are under "findings" in
`PROJECT.json`. Also met while reading, not given a run:

- `processor.py:76` "any failure must mark the job failed": `mark_failed` only
  changes a running row, so a failure of `mark_running` leaves it queued, with a
  hash that says failed and expires. `redis-schema.md:58` has the TTL set "after
  job reaches a terminal state".
- `redis-schema.md:58` promises a TTL for cancelled jobs; only the worker sets
  one, on completed and failed.
- `register_dataset.py:163-164` calls the row it deletes pending; an archived
  row is deleted as well.
- `repository.py:33` says "the model's default revision, or None";
  `db.get_model_meta` falls back to any ready revision.
- `redis_queue.py:43-45` "Idempotent: ... the LPUSH re-adds the job exactly once":
  two reconcilers that found the same abandoned job push it twice, since
  `requeue` clears only `jobs:processing`. With two workers and a crash
  `SingleEntry` fails for this reason, and the two entries let two workers train
  one job, which `redis-schema.md:18` ("multiple workers compete for jobs
  safely") rules out.
- `register_dataset.py:65-66` "identical file contents but different layouts
  produce different checksums": path and content are hashed without a separator,
  so two empty files named `a` and `bc` have the checksum of two named `ab` and
  `c`.
- A single file without an extension is registered as an object and downloaded
  as a prefix, so a job on it always fails; so does one on an empty directory,
  which is registered as ready.
- `trainer.py` loads `.jsonl`, `validation.py` rejects it for a single file.
- `launcher.py:79-80` "rather than running degraded": after a child's death its
  GPU stays idle until the other child's job has ended.

## 6. Proofs

Every theorem holds for any values of the constants that satisfy the modules'
assumptions (`ConstantAssumption`, `ClockAssumption`, `CatalogueAssumption`,
`RegistryAssumption`, `ExecutionAssumption`, `ThresholdAssumption`): any number
of jobs, workers, rows, runs, files and attempts, and any bound on mishaps,
moves and time. Where a result needs a condition on the environment, the theorem states
it as a hypothesis, and the last column says what happens without it.

| Module | Theorem | Statement | Hypothesis |
|---|---|---|---|
| `JobPipelineProofs` | `TypeCorrect` | `Spec => []TypeOK` | |
| | `Invariance` | `Spec => []Inv` | |
| | `UpdateIsAtomic` | `Spec => []CheckedRowStays` | |
| | `CompletedIsBacked` | `Spec => []CompletedHasArtifact` | |
| | `PipelineRefines` | `Spec => RefinesLifecycle` | |
| | `EndedStaysEnded` | `Spec => TerminalIsFinal` | |
| `QueueProofs` | `QueuedIsFindable` | `Spec => []NeverStranded` | no death at `HandSteps`; without it: `CrashedClaim` |
| `OneExecutorProofs` | `OneExecutes` | `Spec => []OneExecutor` | `Calm` |
| | `CalmQueuesOnce` | `Spec => []SingleEntry` | `Calm` |
| `StatusPollProofs` | `PollIsPipeline` | `PollSpec => Spec` | |
| | `ReclaimsOnlyOld` | `Spec => NeverFalselyReclaimed` | `OneWorker`; without it: `FalseReclaim` |
| | `ExpiryMeansEnded` | `PollSpec => []ExpiresOnlyEnded` | `OneWorker`, `"raise"` not in `Faults` |
| | `ToldMeansEnded` | `PollSpec => []ToldEnded` | the same |
| | `AnswersAreTrue` | `PollSpec => AnswerWasTrue` | the same; not true without either |
| | `QueuedOnce` | `Spec => []SingleEntry` | `OneWorker`, `"enqueue"` not in `Slow` |
| `WorkerPodProofs` | `PodInvariance` | `PodSpec => []Inv` | |
| | `PodFindable` | `PodSpec => []NeverStranded` | no death at `HandSteps` |
| | `PodRefines` | `PodSpec => RefinesLifecycle` | |
| | `StoppingWaits` | `PodSpec => StopFinishesJob` | |
| `ExecutionProofs` | `ExecInvariance` | `ExecSpec => []ExecInv` | |
| | `TypeCorrect` | `ExecSpec => []TypeOK` | |
| | `ReadyRowsComplete` | `Spec => []ReadyIsComplete` | |
| | `ReadyStaysComplete` | `ExecSpec => []ReadyIsComplete` | |
| | `TrainsOnWhole` | `ExecSpec => []TrainedOnWhole` | |
| | `FormatsAgree` | `ExecSpec => []RejectedEarly` | |
| | `AdapterOfOne` | `ExecSpec => []OneTraining` | `Overlap = FALSE` |
| `ModelRegistryProofs` | `Invariance` | `Spec => []Inv` | |
| | `TypeCorrect` | `Spec => []TypeOK` | |
| | `LastDefaultStands` | `Spec => []LatestIsDefault` | |
| | `DefaultStays` | `Spec => DefaultNeverLost` | |
| | `RejectsExactlyOversized` | `Spec => []OversizedIsRejected` | `TightMax = WorkerMax`; not true without it |
| | `CachedWasChecked` | `Spec => []OversizedNeverCached` | |
| `CatalogueProofs` | `WalkInvariance` | `Spec => []WalkInv` | |
| | `MissesExplained` | `Spec => []SkipsBounded` | |
| | `RepeatsExplained` | `Spec => []RepeatsBounded` | |

### The pipeline

The inductive invariant of `JobPipelineProofs` is

    Inv == TypeOK /\ CheckedRowStays /\ RowExists /\ UploadedFirst
           /\ CompletedHasArtifact

`CheckedRowStays` is what makes a commit a legal move although check and write
are two steps: the row lock keeps the status that was checked. `UploadedFirst`
says that a worker past its upload has uploaded, without which
`CompletedHasArtifact` is not preserved by `MarkCompleted` and
`PublishCompleted`. `RowExists` says that a job in execution has a row, which
the refinement needs for `Produce`. Each action has a step of its own, with one
sub-step per conjunct. The refinement follows from `Inv` step by step, and
`EndedStaysEnded` from the refinement, because no move of `JobLifecycle` leaves
a terminal status.

`LREM` is a recursive function over a list. What it returns is proved by least
counterexample (`LeastNatural`, `ScanExists`, `LremScan`): a list of ids, all of
the old ones but one (`LremElements`), with no id more often than before
(`LremOnce`). The same facts are proved of LPUSH and of the pop
(`LpushElements`, `LpushOnce`, `PopElements`, `PopOnce`).

### The lists

`QueueInv` adds three facts to `Inv`. `Findable`: a queued job that is listed in
`jobs:processing` is in `jobs:queue` or held at a step of `HandSteps`, the steps
at which a worker is the only one to know of a queued job. `DequeuedEnded`: a
cancelled job's LREM comes after its row has ended, so the LREM never takes the
entry of an active job. `ListedHasRow`: an id is listed or selected only once it
has a row. `HandSteps` is `fetch`, `start`, `pubq` and `requeue`, and, if a
failing `mark_running` is considered, the way from there to the ack.

With one worker (`QueuedOnce`) the invariant is `SoloInv`. `WorkerLists` says
where the ids are that the worker holds or has selected, which with one worker
nobody else can change: the orphans it is about to push are in neither list, as
its two LRANGEs found. `KnownPushed` says that a job whose LPUSH is still to
come is in nobody's hands. The worker may die anywhere, and every other fault
may strike.

With several workers two reconcilers can select the same orphan, so
`SingleEntry` and `OneExecutor` depend on there being no orphans. `Calm` says so
in terms of the environment: nobody dies with a job in hand, no phase outlasts
its window, and of the faults only the reply of an LPUSH may be lost. Each part
is needed: on one job and two workers TLC finds both properties violated as soon
as a worker may die with a job in hand, the enqueue or a phase of an execution
may be slow, or one of the faults `lpush`, `api` and `raise` is admitted. `Healthy`
also checks them without any crash; the theorems admit deaths of workers that
have no job in hand. The invariant `CalmInv` says that a job in execution is its
worker's alone (`Relies`), is in `jobs:processing`, is not queued and is about
to be pushed by nobody; that a queued job is in a list from its LPUSH on
(`QueuedIsListed`), so that an orphan check which reads the two lists one after
the other does not take it for lost while a claim moves it from one to the
other; that a running job is renewed in time (`RunningIsHeld`), so that nobody
recovers it; and that an active job has one entry in one list (`OneEntry`).

### The pod

A stop, a reap and a loss of the pod are deaths of children at certain steps
(`GoDown`): `PodSteps` shows that every step of the pod is a step of the pipeline
or such deaths, and that a child told to stop goes down only at the test of the
loop. `Inv` and `QueueInv` are then preserved, and the refinement and
`StopFinishesJob` follow.

### The poll

`PollIsPipeline` makes every theorem about the pipeline hold while it is polled.
`ReclaimsOnlyOld` rests on `StaleIsOld`: what the only worker has selected as
stale stays so, since nobody else renews it. `ToldMeansEnded` rests on
`RowFollows` (a worker past `mark_running` executes a row that is running or has
ended, one past `mark_completed` or `mark_failed` a row that has ended),
`HashEnded` (what the hash says has ended has, and only its key expires) and
`PollTells` (a poll goes on to the hash only for a row that was active, so its
answer says ended only if the hash does).
`AnswersAreTrue` follows the dates. `HashClock`: no hash is dated in the future
(`CutToSecond`), so a row written at or after a publish is not older than the
hash, and a hash that is later than its row was published after it and says what
the row says, unless the row has ended. That a publish says so (`PublishesTruth`)
is `RowFollows` for an execution and `ResetInHand` for the reconciler. `PollSees`
carries the fact from the read of the row to the answer. It assumes nothing of
how far time advances, only that it does not go back. Without either hypothesis
TLC finds a counterexample: a failed `mark_running` publishes "failed" for a row
that is queued, and a second worker publishes for a job it has lost.

### The catalogue

`WalkInv` counts: the rows that were given and are ahead of the client, together
with the repeats so far, are no more than the arrivals; the rows that were kept,
are behind and were not given are no more than the departures. An arrival moves
at most one row from behind to ahead, a departure at most one back
(`ArrivalBeyond`, `DepartureBelow`), because ranks are different
(`RankInjective`). A short page is the last one because no rank is left out
(`BelowFull`, `ShortIsLast`).

### The registries and the execution

`ReadyIsComplete` is proved with `ActivatesWhole`: a run that is past its upload
has all files in Garage, and nobody deletes objects. A job keeps the path of its
dataset, so a replaced row does it no harm: if the row was ready, the files were
there, and stay (`PickedWhole`, `ListsWhole`). `OneTraining` needs that at most one attempt is alive (`OneAlive`) and that what
it has uploaded is its own (`OwnUploads`).

For the defaults the invariant says that at most one run has written a default
it has not committed, and that every committed default is among the rows that
run has cleared and holds (`DefaultsAlone`); likewise the row a run has inserted
is nobody else's (`InsertsAlone`). `Scans` says that a run holds no row
before its clearing UPDATE and all those of its snapshot after it.
These are safety facts, and hold whichever run the detector fails. `Checked` ties
the verdict to the size and to the worker's threshold, `HintedUnsupported` the
stored hint to the script's.

### Only model-checked

Liveness (`EventuallySettled`, `StopsAsUnit`, `EveryRunEnds`) is out of the
prover's reach.

## 7. Not modelled

- How a checksum is computed (`checksum_file`, `checksum_directory`): the models
  take the version as a name of the content. See section 5 for where it is not.
- `JobStore.Update` without a status: no handler calls it.
- Request validation beyond the listings' parameters, configuration, health,
  middleware, JSON, logging and the process entry: no state beyond their inputs,
  or pure I/O. What the configuration sets (timeouts, GPUs) are constants.
- The tests' `StubTrainer` and `StubExecutor`, and the Protocol classes.
- What training computes, and the GPU smoke test.
- Redis losing its data, and clocks that disagree.
- `auth` and `resume-builder`, which have no code.

## 8. Plan

1. Done: `JobStatus`, `JobLifecycle`, `JobPipeline` with its proofs,
   `WorkerPod`, `StatusPoll`, `Catalogue`, `DatasetRegistry`, `Execution`,
   `ModelRegistry`.
2. Done: the proofs of section 6, which cover every safety property the runs
   check.
3. Next: what several workers still guarantee once one of them has died with a
   job in hand, which `Calm` excludes: a bound on how often a job is listed and
   executed, in place of `OneExecutor` and `SingleEntry`, which then fail.
