# TileForge: TLA+ models, checks and proofs

TileForge estimates tilings for ML accelerators. Its web process (Next.js)
accepts *jobs*; worker processes (`scripts/worker.ts`) run them: the analytical
estimator, the artifacts, SCALE-Sim and IREE as external commands, or the
training of an "estimator suite" in a child process. Everything the processes
share is files (and, optionally, one SQLite database) in a workspace directory:
there is no server, no message queue and no lock manager. Around the jobs are a
page that shows them, and the computations whose results the page shows: tile
search, design sweep, sample collection, training, validation.

Three kinds of module follow from that:

* **the queue and the store** (`JobQueue`, `SqliteQueue`, `JobStages`): processes
  that read and overwrite the same small files. Detailed models with crashes,
  fairness, an abstract specification, and most of the proofs;
* **the services** around them (`EstimatePool` to `StoreViews`): thread pools,
  external tools, caches, the active model, the page. One run, `services`;
* **the computations** (`TileSearch` to `ResidualForest`): the control and the
  set-level meaning of what the estimators compute. One run, `algorithms`.

Paths below are those of the repository; `PROJECT.json` maps every definition to
the lines it stands for.

## 1. Inventory

| component | where | state | operations | correct when |
|---|---|---|---|---|
| state machine | `src/lib/stateMachine.ts` | none | `canTransition` | stored statuses only move along the table |
| job queue | `src/server/jobStore.ts`, `workerRunner.ts`, `scripts/worker.ts`, `run-claimed-job.ts` | `job.json`, `job.lock` per job; `active`, `scheduling` per worker; the record each run holds | create, cancel, delete, claim, lock, steal, run, retry, recover, reap a child | one execution of a job at a time; training alone; attempts bounded; every job settles |
| SQLite store | `src/server/sqliteStore.ts`, `dbMigrations.ts` | a row per job: status column, JSON column written at most every 15 s | save, read, select, count | column and JSON agree where the claim loop relies on it |
| stages and artifacts | `workerRunner.ts`, `artifactIntegrity.ts` | files, markers, warnings, manifest | write, run a tool, skip, reuse, verify, retry | the report tells what the summaries tell; the manifest certifies what is listed |
| atomic writes, estimate cache | `atomic.ts`, `lib/cache.ts` | temporary files, entries | write and rename, fall back | no reader sees half a file; a lost entry costs a computation only |
| worker threads, external commands | `workerThreadPool.ts`, `computePool.ts`, `threadedEstimate.ts`, `externalCommand.ts` | threads, processes, timers | start, collect, kill | one answer, and only after everything ended |
| tool results | `workerRunner.ts`, `externalToolCandidates.ts`, `scaleSimReport.ts`, `validationEvidence.ts` | output directories, parsed layers | try commands, match layers, report, feed back | a report is the tool's own, a layer the operator's own |
| active suite, suite training jobs | `activeEstimatorSuite.ts`, `api/estimator-suite` | model and metadata files, payload | submit in two saves, train, activate, clear | the metadata names the model beside it; a job trains what was submitted |
| lists and views | `jobStore.ts`, `sqliteStore.ts`, `api/jobs/**`, `app/page.tsx` | caches with an age, requests under way, the displayed state | list, page, stream, clean up, migrate | the view catches up; the user sees own writes; the cleanup spares what lives |
| TPU comparison | `lib/tpuBenchmark.ts`, `api/tpu`, `scripts/tpu-simple.ts` | a package, measurements, a comparison | prepare, run, upload, compare | a comparison is of what is shown |
| tile search, analytical estimators | `lib/estimator.ts`, `topk.ts`, `pruning.ts`, `fullLayerEstimator.ts`, ... | heaps, reservoir | prune, estimate, keep | the best tile is found; cycles answer to sizes |
| samples, suite training, learned models | `lib/estimatorSuite*.ts`, `learnedEstimator.ts`, ... | tables of samples, splits, weights, trees | plan, collect, import, train, blend, predict | a number is judged on rows its model had not seen |
| design sweep, validation, tiling experiment | `designSpace.ts`, `purposeGate.ts`, `validation*.ts`, `scripts/*.ts` | rows, verdicts, runbook | sweep, rank, judge, execute | ranked first is better; better evidence never hurts |

**How they interact.** The web process and every worker call the same
`jobStore.ts`, each with its own in-memory caches; a job is one record that all
of them read and write as a whole. A worker lists the queued jobs, reads one
again, creates `job.lock` with the exclusive `wx` flag, saves the record as
running and runs it on its in-memory copy. A cancel is a flag another process
writes into the same record; the run looks for it at three checkpoints. A lock
is stolen when its pid is dead or its file is old; a running record that nobody
has saved for too long is failed by whichever worker looks. A training job runs
in a child process, which its parent reaps and which survives the parent.
Finished jobs become samples, samples a suite, the active suite corrects the
estimates of later jobs, and the gate tells what these may be used for.

**Two modes.** SQLite is the primary store unless `TILEFORGE_DISABLE_SQLITE=1`;
then every save also updates a row, and readers, the claim loop and the limits
go by rows. `JobQueue` models the file mode in detail, `SqliteQueue` what the
rows add to it; `JobStages` is the same in both.

**What is hard.** Interleavings of whole-record saves; a lock that is removed by
path and never by owner; time limits that stand in for liveness of a process;
crashes between two file operations; retries into a directory nobody empties;
answers that arrive late or out of order; rows that are joined by names. The
hazard list in `PROJECT.json` has them with their lines and properties.

## 2. Modules

### The queue and the store

| module | what it is |
|---|---|
| `JobStatus` | statuses, terminal statuses, `CanTransition` |
| `JobLifecycle` | the abstract specification: what a job's life looks like to a reader |
| `JobQueue` | the queue: web process, workers, training children, files, time |
| `MCJobQueue` | constants and symmetry for TLC (`queue_*.cfg`) |
| `JobQueueProofs` | its proofs: types, the lock argument, training alone, any number of workers without faults; one worker at a time with crashes and restarts, and the refinement of `JobLifecycle` |
| `SqliteStore`, `SqliteQueue`, `MCSqliteQueue`, `SqliteProofs` | the store with its throttle, the queue composed with it, instances, proofs |
| `JobStages`, `MCJobStages`, `JobStagesProofs` | the stages of a run, instances, proofs |
| `AtomicRegister`, `AtomicFile` | the register `atomicWriteFile` promises, and the function as it is (proofs: `ServicesProofs`) |

#### JobQueue and the code

State: `file[j]` is `job.json` (status, cancelRequested, attempts; `NoRec` when
there is no file), `age[j]` the time since `updatedAt` in the classes the code
tells apart (fresh, over the 30 s grace of a dead lock, over the timeout + 30 s).
`lock[j]` is the pid in `job.lock`, `lockOld[j]` whether its mtime is over the
limit. `proc[w]`, `sched[w]` and `run[w][j]`, `stage`, `mem` are a worker process,
its scheduler (the `scheduling` flag makes it sequential), and its runs with the
record each holds in memory. `web` and `webRec` are a cancel request between its
read and its write. `acked` and `robbed` are ghosts used by properties only. A
restarted worker is a new element of `Workers`: it has a new pid.

Atomicity: a read or a write of a file is one step; reads that follow each
other are one step, and so are writes of one record without a read in between.
A save replaces the record (`atomicWriteFile` renames; `AtomicFile` justifies it).

| actions | code |
|---|---|
| `Submit`, `CancelRead`, `CancelSave`, `Delete` | `createJob`, `requestCancel`, `deleteJob` |
| `ClaimList`, `ClaimRead`, `ClaimNone`, `ClaimSave` | `startAvailableJobs`, `claimQueuedJob` |
| `LockCreate`, `LockInspect`, `LockRemove`, `LockRecreate`, `LockResave` | `acquireJobLock` |
| `RecoverRead`, `RecoverRelease`, `RecoverSave` | `recoverStaleRunningJobs` |
| `RunSpawn` | `run-claimed-job.ts` |
| `RunBegin` .. `RunFinish`, `RunCheck`, `RunCancelled` | `runJob`, `runJobOnce`, `throwIfCancelled` |
| `RunFail`, `RunRelease` | catch and finally of `runJob` |
| `ReapRead`, `ReapSave`, `ReapRelease` | `runClaimedTrainingJobInChild` after a failed child |
| `Start`, `Crash`, `CrashChild`, `RecordAges`, `LockAges` | processes and time |

Abstractions: stages carry no data (a stage saves, or throws); a failed artifact
check is the status failed without a retry; `succeeded_with_warnings` stands with
`succeeded`; `--once`, `run-next.ts` and the forced recovery script are not
modelled; writes do not fail. Definitions whose comment begins "Fault:", here and
everywhere, are plausible bugs the properties were tried against; those of the
mutants in `PROJECT.json` are tried on every check.

`Implements` is `JobLifecycle!Spec` under `status <- Status`, `attempts <-
Attempts`, `holders <- HeldBy`: with nobody cancelling or deleting, the locks,
scans, steals, children and recoveries add nothing the abstract queue could not
do: wait, be in one worker's hands, attempt a bounded number of times, settle.

#### SqliteStore, SqliteQueue and the code

`file[j]` is `job.json` with the status in `job.summary.json`; `row[j].status` is
the status column and `row[j].json` the JSON column. `saveJob` is two steps:
`Save` replaces the files and leaves the record in `pending[p][j]`, `Mirror`
(`saveJobSqlite`) updates the row: the status column always, the JSON column when
the record is terminal or this process has not written it within the interval
(`recent[p][j]` is the younger entry of `lastFullJsonWriteByJob`; `TimePasses`
ends it at any time). `SqliteQueue` maps `claimQueuedJob`,
`recoverStaleRunningJobs`, `runJob`, `requestCancel` and `createJob` to `Claim*`,
`Recover*`, `Run*`, `Cancel*` and `Submit`. It is coarser than `JobQueue` where
that has the detail: taking the lock is one step, a recovery looks and acts in
one, stages have no counter, nothing is deleted, a live run is never taken for
dead. `TornSaves` allows a crash between the two halves of a save.

#### JobStages and the code

One job of a fixed kind, measurement mode and skip setting, alone with its
directory. `disk` maps each file to which attempt wrote it and what it says of
SCALE-Sim and IREE; `listed` is `job.artifacts`, `marked` the `*.done.json`
markers, `manifest` the hashes of `artifact_integrity.json`, `warned` says that
`job.warnings` is not empty. `pc` goes through `runJobOnce` with one step per
file written; `Throw` may end any step with an exception. `Begin` .. `Catch` are
`runJob`, `writeArtifacts`, `runScaleSimForJob`, `runIreeForJob`,
`appendExternalReport`, `refreshIntegrityManifest`, `verifyRequiredArtifacts` and
the catches. `BigLogs` names the logs that may exceed
`TILEFORGE_EXTERNAL_KEEP_REPORT_MAX_BYTES` and are then pruned.

#### AtomicFile and the code

`AtomicFile` has one step per file operation of `atomicWriteFile`: create the
temporary file, fill it, sync, rename (which may fail and is retried), the
direct write as a fallback, the clean-up, whose rm may fail unheard, and a crash
anywhere. The register of
`AtomicRegister` changes at one instant between call and return; where the
fallback is allowed (`Degraded`) a write under way may leave it torn, as the
comment in `atomic.ts` admits.

### The services (`MCServices`, run `services`)

Each behaviour is about one `part`; the other parts keep their initial state.
`ServicesProofs` has the proofs of all of them, `StoreViewsProofs` those of
`StoreViews`, which are as long as the rest together.

| module | part | state and actions | code |
|---|---|---|---|
| `AtomicFile` | file | above | `atomic.ts` |
| `EstimateCache` | cache | entries, temporary files with whose data may be in them, the step of each job's estimate | `lib/cache.ts`, `runJobOnce` |
| `EstimatePool` | pool | tasks, threads with what they have still to say, outstanding answers | `threadedEstimate.ts`, `computePool.ts`, `workerThreadPool.ts` |
| `ExternalTool` | tool | the child, its timers, log and report, over attempts and candidates | `externalCommand.ts`, `runCommandCandidates` |
| `ActiveModel` | active | model and metadata files, half-written ones included, POSTs and GETs under way, the route's cache, the panel that posts, asks and shows | `activeEstimatorSuite.ts`, `api/estimator-suite`, `page.tsx` |
| `SuiteTraining` | training | the record on disk and in both processes, the payload's files, whether it asks for the activation, the attempt | `api/estimator-suite`, `runEstimatorSuiteTrainingJob` |
| `JobListing` | listing | summary, page and route caches, shared scans, jobs put back by a retry, the browser's requests and whether it polls | `jobStore.ts`, `api/jobs`, `page.tsx` |
| `LiveStream` | live | server side of a stream, events under way, the job shown | `api/jobs/[id]/events`, `page.tsx` |
| `Workbench` | page | selected and shown page, busy flags, modes, requests with the state of their rendering | `page.tsx` |
| `TpuBenchmark` | tpu, simple | packages, uploads, calls, runners with their time, comparisons | `lib/tpuBenchmark.ts`, `api/tpu`, `tpu-simple.ts` |
| `StoreViews` | walks, names, cleanup, schema | files and rows with their times of creation, last save and end, walks under way, snapshots, migrations | `jobStore.ts`, `sqliteStore.ts`, `dbMigrations.ts` |

### The computations (`MCAlgorithms`, run `algorithms`)

`AlgorithmsProofs` has the proofs about search, samples, plan, suite, policy, evidence
and tools, `TilingProofs` those about the experiment, and `OrderProofs` what they and
those of `StoreViews` need of sorted finite sets, of heaps, of samples, of sums and folds.

| module | part | what it is | code |
|---|---|---|---|
| `TopKHeap`, `TileSearch` | search | pruning, the two heaps and the reservoir item by item, Pareto front, per-request cache of shapes | `topk.ts`, `estimator.ts`, `pruning.ts` |
| `Accelerator` | array | cycles of a layer and of a tile policy, traffic, roofs, and what the artifacts derive from the ranked tiles | `fullLayerEstimator.ts`, `memoryTraffic.ts`, `roofline.ts`, `tilingStrategy.ts`, `compilerHints.ts`, ... |
| `DesignSpace` | design | sweep of all seven axes, deduplication, scores, knees, selection and its expansion | `designSpace.ts` |
| `SamplingPlan` | plan | the stride through all combinations, tiles of a pick, what is queued | `estimatorSamplingPlan.ts` |
| `SampleCollection` | samples | measurements of jobs with any shapes, arrays and run names, rows of the table, collect, save, import | `estimatorSuiteJobSamples.ts`, `estimatorSuiteDataset.ts` |
| `SuiteData` | data | CSV lines written and read, aliases of columns, scopes, readiness, profiles | `estimatorSuiteDataset.ts`, `estimatorSuiteArtifacts.ts`, `calibration.ts`, ... |
| `ScopePolicy` | policy | what a suite is trained on, labelled as, and may correct | `estimatorSuiteTrainingPolicy.ts`, `estimatorSuiteApply.ts`, `activeEstimatorSuite.ts` |
| `TrainSuite` | suite | which samples each model, error, weight and calibration has seen | `trainEstimatorSuite` |
| `SuiteBlend` | blend | the arithmetic of it: blends, scores, weights, domain guard, trends, neighbours, regimes | `estimatorSuite.ts` |
| `ResidualForest` | forest | division of the rows, growth of trees, predictions, comparison, other targets, features | `learnedEstimator.ts`, `neuralResidualEstimator.ts`, `directNeuralEstimator.ts`, `multiTargetEstimator.ts` |
| `PurposeGate`, `ValidationRun` | evidence | confidence, risks, verdicts, plan; the runbook executed step by step | `purposeGate.ts`, `validation*.ts`, `scripts/validation-execute.ts`, ... |
| `TilingExperiment`, `TilingProofs` | tiling | plan, units of a tile, failing commands, oracle, totals, TPU bench; its invariant | `scripts/tiling-experiment.ts`, `tpu_matmul_bench.py` |
| `ToolResults` | tools | commands, left-over output, layers and operators, reports, ledger, limits | `workerRunner.ts`, `scaleSimReport.ts`, ... |

Numbers are small and whole: shares are hundredths, logarithms of cycles quarter
or whole doublings, and each module's header names its scale. Rounding of the
code is kept where a property depends on it (factors of the sweep, shares,
percentages). A random generator's draws are free choices.

## 3. Runs

All configurations set `CHECK_DEADLOCK FALSE`: when every job has settled, or a
computation is done, the system really stops.

| run | instance | shows |
|---|---|---|
| `queue_two_workers` | 3 live workers (symmetric), an ordinary and a training job, 2 attempts, 2 checkpoints, no faults | `TypeOK`, `LockGuards`, `ExclusiveRun`, `NeverRobbed`, `TrainingExclusive`, `LockNotLeaked` |
| `queue_restart` | one worker at a time, one crash anywhere, 3 jobs of which one trains, 2 attempts, limit 2 | `ParallelLimit`, `RunningIsOwned`, `LawfulTransitions`, `AttemptsCounted`, `Implements` |
| `queue_settles` | an ordinary and a training job, 2 attempts, 2 incarnations, a cancel, a delete, a crash of a worker or a child | `EverySettles` (fair) |
| `sqlite_restart` | 2 workers at once, 2 jobs, 1 attempt (the default), throttled JSON, a crash outside a save | `TypeOK`, `RunningIsRecoverable`, `TerminalIsReadable`, `EverySettles` (fair) |
| `sqlite_full_json` | interval 0, 2 jobs, 2 attempts, 3 incarnations, 2 crashes, a cancel, torn saves of one job | `QueuedIsNewest`, `AttemptsCounted` |
| `stages_retries` | every kind, mode and skip setting, 3 attempts, any step may throw, either log may be pruned | `TypeOK`, `Certified`, `ReportIsTrue`, `SkippedIsWarned`, `ListedIsOnDisk`, `DoneIsFinal` |
| `services` | every part of the services with two of each actor (three jobs for the cache, four tasks for the pool) | `ServicesTypeOK`, `WorkersSound`, `FilesSound`, `ModelsSound`, `ViewsSound`, `AtomicWrites`, `WorkEnds`, `ViewsCatchUp` (fair) |
| `algorithms` | every computation on a small instance | `AlgorithmsTypeOK`, `SearchSound`, `SamplesSound`, `SuiteSound`, `NumbersSound`, `EvidenceSound`, `CollectionStable` |
| `queue_bug_cancel_lost` | 1 worker, 1 job, a cancel | counterexample to `CancelStopsRun` |
| `queue_bug_double_run` | 3 workers, 1 job, a crash | counterexample to `ExclusiveRun` |
| `sqlite_bug_retry` | 1 worker, 1 job, 2 attempts, throttled JSON | counterexample to `EverySettles` |
| `runbook_bug_demo` | the instance of `algorithms` | counterexample to `InputsAreOwn` |

The properties of `services` and `algorithms` are conjunctions, one conjunct per
question and guarded by its part:

| property | part: conjuncts |
|---|---|
| `WorkersSound` | pool: an answer is complete, and counts exactly what is outstanding; tool: one tool at a time, the report read is its own; tpu: only a runner that ended by itself is answered well |
| `FilesSound` | file: a temporary file that is left has a failed rm, a failed sync or a crash behind it, and after a success only a failed rm of the fallback; cache: an entry is damaged only while it is written, or where writers overlapped with answers of two lengths or one died, and every attempt that was lost is paid for |
| `ModelsSound` | active: after an undisturbed activation or clearing the metadata names the model beside it, and the panel that posted it shows it; training: what was submitted is what is trained, a job that succeeded left its model, active if and only if that was asked for |
| `ViewsSound` | listing: own writes are seen, no more jobs wait for their first attempt than the quota allows; live: the job shown is watched; page: what is submitted is what is previewed, a poll is skipped only while one is under way; tpu: a join is of one's own shape, ranks are fair; walks, names, cleanup, schema: no walk misses a job, names differ, the cleanup removes nothing that lives or has ended since its cutoff, and whoever opens the database finds its tables |
| `WorkEnds` | pool, tool, training, tpu: an answer, whatever the threads, tools and runners do |
| `ViewsCatchUp` | listing, live, page: the view is finally that of the store, where the browser goes on polling |
| `SearchSound` | search: the heap keeps the best at every moment, the best tile beats all, the front is one, names are the shape's own |
| `SamplesSound` | samples: a row never has a measurement of the other target, one of another shape only from a run of its name, and that of its own array and layer as far as no job can be mistaken for its own; after a collection every measurement is in a row, in one where one job is about it; plan: no combination twice, no room unused, empty only without values |
| `CollectionStable` | samples: collecting again changes and adds rows only of ids several measurements bear; an import returns rows of its files, one of each id and source |
| `SuiteSound` | suite: what calibrates, what judges stack, trees and residual networks and what gives the weights of the splits was predicted by models that had not seen the row; what they had seen enters only the error of the direct network and the weights optimized last; unknown hardware is guarded; policy: full-layer cycles are corrected by a model of full-layer samples, or of all where all were asked for (then mostly of full-layer ones), an estimate tells its scope |
| `NumbersSound` | array: work is done, larger is slower, roofs hold, traffic covers the layer, alternatives and hints agree; design: one row of every request of an axis, whose factor gives the request back where one size is scaled and is on no side of it otherwise, better ranked first, one knee, a diverse selection; data: rows survive their files, readiness is fair; blend: weights win, blends lie between, unknown samples are tempered, trends help; forest: every row finds its leaf, answers stay in the range of what was measured, a model is recommended only if it is better somewhere, targets are of what was measured; tiling (`TilingSound`): units are the shape, speedups compare alike, totals are of all entries; tools: the layers of a report are the operators' own, reports agree, feedback is of what was measured |
| `EvidenceSound` | evidence: a SCALE-Sim result and a compile that are no worse lower no verdict, the plan covers every gap and the operators of high risk it looks at, the runbook obeys its options and reports no command twice; tools: an answer is what the last command that began to write has left, every candidate is tried once and counted, the limits of time are sane; tiling (`MeasuredSound`): tiles fit, rows tell what was measured, the oracle is the fastest of its tiles, results are whole, a TPU that goes away loses at most one sample |

**Bounds.** A lock has at most one holder and one contender that matter, so two workers
show every race on one job and three that a third changes nothing; two attempts are the
least with a retry, two checkpoints the least with a save between them; a second crash
adds the crash of the recovering worker, and a third incarnation the one that cleans up
after both. The third attempt of a stage inherits from an attempt which inherited
itself. Two writers of a file are every race of a rename; three jobs of one cache entry
are a loser that loses again; two streams, pages or browsers are the old one and the new
one; a backlog of one is a late event. Three POSTs are one of the panel's and two that
meet, and one GET at a time (`MaxGets`) is enough to keep a mixture; one job put back
(`MaxPutBacks`) fills the queue beside the quota. Four tiles and a heap of two make the
heap sink to either side; seven samples give every split a test and a training side, and
leave one without a measurement; the thresholds of the suite (8, 24, 40, 80, ... rows)
are constants set just inside the instance, so that both sides occur, except where the
arithmetic of a threshold is itself the question (`RowCounts`, `Spread`: the real
numbers). The jobs of a collection (`JobSetups`, 12 pairs of requests) are one about a
shape on an array and one about the same shape, another or both, on that array or on
another, with one run name or with their own; the swept request has an array that is not
square, two shapes and no bandwidth; `MaxRiskOps` is 1 where the code has 12, so that an
estimate of three operators has some the plan does not look at; the inputs of an
experiment name sizes beside the grid (`InputGrid`). `MaxAttempts`, `Checkpoints`,
`MaxCrashes`, `MaxOps`, `MaxAsks`, `MaxChanges`, `MaxFaults`, `MaxWinners` and the like
bound the model only, and each is named in the CONSTANTS of its module.

Runs that end in a counterexample are disagreements between the code and what
the repository says of it (quotes under "findings" in `PROJECT.json`). The same
properties hold where the cause is absent: `ExclusiveRun` without overlapping
steals, `EverySettles` with one attempt or without the throttle.

**Fairness.** `JobQueue`: weak fairness of each worker's scheduler and runs (a
live process goes on; the 2 s interval and the completion callbacks start the
scheduler again), of `Start` (whoever operates the worker restarts it), of time,
and of a cancel that was read. `SqliteQueue`: the same, weak fairness of the
second half of a save, and strong fairness of `RunFinish`, because its runs
alternate between stages and checkpoints without a counter while a real run has
finitely many. `MCServices`: `PoolFairness` (the event loop, and threads that end
somehow), `ToolFairness` (the runner and its timers, nothing of the tool),
`ListingFairness` (the interval timer polls while the user has not switched it off, and
ages pass), `TrainingFairness`
(the request is answered, the worker polls), `LiveFairness` (the job settles
some day, which is `EverySettles`; the server ticks; the network delivers),
`PageFairness` (the interval timer, and a server that answers some request),
`TpuFairness` (requests are served or time out; nothing of a runner). Nothing is
assumed about crashes, about which candidate is tried, about stages succeeding, or
about the user.

## 4. Proofs

For every set of workers and jobs and every value of the constants (assumptions
`SetsAssumption`, `BoundsAssumption`):

* `JobQueueProofs!TypeCorrect`: `TypeOK` is inductive as it stands.
* `LockGuardsAlways`: whoever claims or executes a job is named by its lock
  file, unless the lock was removed while somebody relied on it. Not inductive
  alone: starting a process could turn a leftover run into an execution;
  `LockInv` adds `ProcInv` (a process that is not up has an idle scheduler and no
  runs but its training children). The argument is one lemma, `GuardedStep`:
  nobody comes to rely on a lock without owning it, and a lock changes only when
  nobody relies on it or the job becomes robbed.
* `ExclusiveUnlessRobbedAlways`, `NeverRobbedExclusive`: two executions of one
  job always have a removed lock behind them. The five ways a lock can be removed
  are the only places to look for a double execution.
* `FaultlessNeverRobbed`, `FaultlessExclusive`, `FaultlessLockNotLeaked`,
  `FaultlessRunningIsOwned`: under `NoFaults` (nothing crashes, looks old, is
  cancelled or deleted; retries and failing children remain) job.lock alone gives
  exclusion, however many workers there are. The invariant, `CalmInv`, ties each
  lock to exactly one claim or run (`Owned`, `Owner`), keeps a worker from claiming
  what it runs (`OneRole`), ties the stored status to the stage of the run
  (`Recorded`, `RunningHeld`), and closes the paths that need a fault.
* `SoloImplements`: under `OneAtATime` every step of the queue is a step of
  `JobLifecycle` or a stutter, through any number of crashes and restarts, with
  training children that outlive their worker, locks that grow old, steals and
  recoveries. `OneAtATime`, which `queue_restart.cfg` satisfies, says three things,
  and TLC has a counterexample without each. *One worker at a time*: a candidate is
  read before its lock is created and not read again, so that with two workers, even
  without any fault, one may claim with a record the other has already run. *Runs
  that save often enough*: a run is silent for less than the grace period of a dead
  lock if workers die, for less than the whole limit if not; a child silent for
  longer is recovered while it works. *Nobody cancels or deletes*: those saves
  write back old records. The invariant `SoloInv` says where the records of
  the one live worker, of its surviving children and of the file agree: who has a job
  in hand has in memory what the file says (`InStep`), a job is in one hand (`Apart`),
  and what the claim loop has read is still so (`Listed`).
* From the same invariant: `SoloExclusive`, `SoloLawful`, `SoloAttempts`, and
  `SoloParallelLimit` (`Room`: a claim loop that found room has kept it, since only
  runs end meanwhile). `SoloRunningIsOwned` adds at most one crash: with two,
  the second may hit the recovering worker between the removal of the lock and the
  save, and the running job, without a lock, waits for the whole time limit.
* `TrainingExclusiveAlways`: unconditional. `SoloInv` says that a worker running
  a training job has no other run, and that a scheduler in the middle of a list
  decided with the runs it still has: only runs end meanwhile, since the
  `scheduling` flag makes it the only one to start any.

For the SQLite mode: `SqliteProofs!TypeCorrect`; `TerminalIsReadableAlways` (a terminal
column has a terminal JSON of the same status; `StoreStep` reduces every step to one of
the store's three). With interval 0 and one worker at a time, through any crashes:
`UnthrottledQueuedIsNewest` (torn saves and cancels included) and `UnthrottledAttempts`
(torn saves of cancellable jobs only). Their invariant `PlainInv` says that outside a
save column, JSON and file are one record, that one save at a time is under way, of the
file's record, and that the scheduler and the runs of the one worker hold that record.
With the throttle the first and the last are false (section 5); that a running job can
be recovered then is checked by `sqlite_restart` only.

For any number of attempts (`StagesAssumption`): `TypeCorrect`, `CertifiedAlways`,
`ReportIsTrueAlways`, `SkippedIsWarnedAlways`, `DoneIsFinalAlways` and, for whichever logs
are pruned, `ListedIsOnDiskAlways`. None is inductive alone: `OverInv` (success
is the last thing that happens), `DoneInv` (no step writes the summary of a done
stage), `OutcomeInv` (what the run knows of a tool is what its summary and marker
say, also when reused), `ReportInv`, `WarnInv` and `ListInv` carry them.

For the services (`ServicesProofs`), with any number of writers, tries, tasks,
threads, commands, runs, jobs, requests, pages, streams, packages and measurements,
and the assumptions each module names: `FilesAreSound`, `WorkersAreSound`,
`ModelsAreSound`, `ViewsAreSound` and `PartsKeepShape` are all the safety properties
of the run `services`. Each part has an invariant (`FileInv`, `CacheInv`, ...) with
three lemmas, that it holds initially, that the steps of the part keep it, and what
it says; since no two parts share a variable, `ServicesInv` is their conjunction.
The parts that took an argument:

* *file*: `FileIsARegister`, `FilesAreRegisters`: `atomicWriteFile` implements the
  register, the strict one without the fallback; the invariant says which temporary
  file each step of a write finds, and that nobody is in the fallback unless it is
  allowed. `TemporariesAreExplained` says what is on disk then, with an rm that may fail.
* *cache*: whose data may be in a file since it was emptied is kept with it; a file that
  is not whole has a writer at it or unequal data in it (`EntryIsWhole`).
* *pool*: the count of active threads is the number of those not heard yet
  (`CountOfOwing`), until the pool fails; afterwards it is only too large.
* *active*: a request that has met no other is alone with the files it touches, so
  that what it has written so far is there (`AloneUndisturbed`, `UndisturbedComes`);
  of requests that overlap `MetaNamesModel` promises nothing. A panel that was alone with
  its POST (`alone`) gets its GET from the files or from an answer kept since.
* *listing*: with SQLite nothing is scanned, so that only the answer kept by the
  route can be old, and that one is dropped after the write and before the refresh;
  only a submission adds to the jobs that wait for their first attempt.
* *tpu*: a measurement is joined with a prediction of its own shape
  (`JoinedWith`), and ranks follow from measured and predicted times being compared
  crosswise, which is a weak order as the times are positive (`CrosswiseOrder`);
  that a comparison is of what is shown needs the fits of both the panel's calls and
  the records of the simple runner (`TpuInv`).
* *walks, names, cleanup*: three invariants over one shape (`StoreShape`) of rows,
  files and calls. Lists are sorted finite sets: `PlacesAreTaken` and `SortedFacts`
  say that every place is taken once and in order. Names are given by a recursive
  search for a free number; that it ends is shown by the least number of a finite
  set's complement (`LeastNumber`), which needs no induction. `WalksMissNothing`
  promises less than it once did: the proof attempt showed that a walk by cursor may
  also miss a job if of two jobs created at one time one is deleted *during* the
  walk, so its condition is about the walk's whole history (`tied`).
* *dashboards*: the lists are put together from pieces, and what a group shows is
  counted from the beginning of its piece (`DashboardsAreSound`), for the files'
  dashboard and the rows' alike.
* *schema*: whoever has opened the database finds the tables of its migrations,
  however many open it at a time and fail half-way.

For the computations (`AlgorithmsProofs`), with any numbers of jobs, samples,
workloads, axes, tiles, operators and limits (measured errors and regrets are numbers,
`EvidenceAssumption`, and limits whole seconds, `TimeLimitsAssumption`):

* *policy*: `CyclesAreFullLayer` and `ScopeIsTold`: the model in use was trained on a
  data set that has changed since, so the invariant keeps, with every model on disk
  and with the active one, how its samples, its scope and its policy file belong
  together. A model that was asked to take all samples may correct full-layer cycles
  though it is mixed, and the theorem bounds by how much.
* *samples*: `SamplesAreSound`, `CollectionKeeps`. A collection, a merge and an import
  are sequences picked from others by sets of places (`AtPlaces`); the lemmas
  `CollectedFacts`, `MergeFacts` and `DedupedFacts` say which rows they have, and
  `CollectInv` that rows, saved rows and measurements agree, and that what is settled
  has been merged (`MergedIsSettled`). Nothing is assumed of the jobs: where they can be
  mistaken for one another the theorems say which rows keep their own measurement.
* *plan*: `PlansAreFull`. `StrideComesBack` is the number theory of the stride: the
  least number of strides that comes back to the start divides the number of
  combinations, and what is left of it would divide both. Digits tell numbers apart
  (`DigitsTell`), so that picks below the number of combinations differ
  (`CombosDiffer`); the invariant gives every row of a plan by its place.
* *search*: `SearchesAreSound`, and `HeapsHoldTheBest` for every moment of it. That a
  loop of exchanges comes to its end is `WalksSettle`: a recursive function exists
  (by the least number where it would not) and settles because the item's place
  goes one way. An item that rises breaks the order only above itself (`UpInv`), one
  that sinks only below (`DownInv`), so that a heap is left with the same items
  (`PushTopFacts`), and what it lets go of is worse than all it keeps (`PushHolds`). The
  invariant adds which tiles have been estimated, from which the best tile, the
  front, the heat map and the names follow.
* *evidence*: `GatesAreSound`. A verdict adds up what each source, SCALE-Sim or compile,
  is worth and takes the least of several scores, so better evidence helps if each term
  grows (`ConfidenceGrows`, `HardwareGrows`, `TilingGrows`, put together in `GateGrows`;
  `LeastOfMore` for the minimum). The plan is a finite set of tasks put in order
  (`PlanFacts`), so that a task for a gap (`PlanCovers`) is in it and the most urgent
  one first; that the order is total rests on the tasks of one kind having different
  names or operators (`PlannedFacts`), and so does that no command is reported twice. An
  operator beyond those the plan looks at has as many at least as risky before it
  (`RiskiestCount`). The invariant of an execution, `RecordsObey`, says of each record
  what the options allowed, and what a stop did to those behind it.
* *tools*: `ToolsAnswerForThemselves`. Candidates are the elements of a sequence, each
  once, which is a fold; `FoldsExist` shows by the least number where it would not that
  the function a fold is defined by exists, and `DistinctIsApart` follows it to the
  result. The invariant counts the candidates that failed and says whose output may
  lie there while they are tried (`TryingKnown`), also where a command is credited with
  what is not its own.
* *tiling* (`TilingProofs`): `MeasurementsAreTrue`, for any targets and shapes of at
  least one row, column and element and any estimates and cycles that are numbers on the
  tiles within a shape (`TilingAssumption`). Candidates and units are put in order by keys
  of several numbers; that each place is taken once needs the keys to differ
  (`NumbersOfTile`: two tiles of equal height, width and volume are equal), and then the
  first candidate is the best that fits (`RankedFacts`). A tile's time is a fold, of
  which `TimesRun` makes a running sum, so that the invariant `MeasureInv` can say after
  every unit what has been measured of the tile at hand, and that the best so far is the
  best of those before it (`BetterIsBest`); `BenchInv` follows the rows of the benchmark
  to the disk. With the three: `EvidenceIsSound`.
* *suite*: `SuitesAreHonest`, and with the policy `SuitesAreSound`. Every fold keeps
  that it holds out what its kind says (`SplitFacts`), the trained suite that its rows
  are those of the folds and its buckets of what those rows are of; what it is judged and
  weighed by is read off the rows when it is put together.

TLC checked every invariant before it was proved. Only model-checked:

* all liveness (`EverySettles`, `WorkEnds`, `ViewsCatchUp`): fairness and `ENABLED`
  are out of the prover's reach;
* `NumbersSound`, `AlgorithmsTypeOK`: what sums over grids and trees and recursive
  functions compute for every input needs induction over data, and much of it is about
  the numbers of the instance (a root or a power that must not vanish); the types of the
  parts whose soundness is proved are proved with it;
* `RunningIsRecoverable`, and the queue with several workers *and*
  crashes, where exclusion is false and its counterexample a run.

## 5. Known issues

Beyond the four counterexamples. First, properties that fail when the
configuration is changed as follows:

| property | configuration | what happens |
|---|---|---|
| `Implements`, `AttemptsCounted` | `queue_two_workers` | a claim with a record read before the lock: attempts go back |
| `TrainingAlone` | `queue_restart` | a training child outlives its worker; the restarted one, which looks into its own map (`worker.ts:103`), runs other jobs beside it |
| `CancelledNotRequeued` | `queue_settles` | the catch of `runJob` looks for "cancelled" in a Korean message (`workerRunner.ts:94-101`): the cancelled job is queued again while attempts are left |
| `LawfulTransitions` | `queue_restart` with a cancellable job | a cancel writes back a record read before the run finished: a final status is left |
| `RecoversOnlyAbandoned` | `queue_restart` with `SilentAge = 2` | a run that saves nothing for its timeout plus 30 s is failed while it is alive |
| `DeletedStaysDeleted` | `queue_settles` | the next save of a run or a cancel creates the deleted job again |
| `AttemptsCounted` | `sqlite_restart` with 3 attempts and no crash | a job is claimed again from an older JSON; failed attempts repeat one number |
| `RunningIsRecoverable` | `sqlite_restart` with torn saves, or 3 workers and 2 crashes | a row takes a slot of the parallel limit for ever; or the throttled claim after a steal is invisible to the recovery |
| `ListedIsOnDisk` with no log excepted | `stages_retries` | a pruned log stays listed (`workerRunner.ts:1076`), and every refresh of the manifest throws, so that the job fails in all its attempts |

Then, what was met while modelling and is described by the models or excluded
from their properties. None has a run of its own.

*Jobs and store.*
- A cancel answered within 15 s of the last full write is missing from the JSON column
  that checkpoints read (SQLite with the default interval).
- An rm that fails leaves a temporary file without a word (`atomic.ts:70`). Writers of one
  cache entry whose answers differ in length, as those of threads and of the fallback do
  (`computePool.ts:88-91`), may leave an entry nobody can parse; it costs a computation.
- Retries put jobs back beside a full queue (`workerRunner.ts:98-109`): more may be queued
  than the quota allows. The cleanup deletes a job that ended before its cutoff even if a
  cancel has saved it since (`finishedAt ?? updatedAt`).
- SQLite mirror of logs and stages is unguarded, so a busy database ends
  `updateProgress` before the save; `deleteJobSqlite` goes on after a failed
  statement; `getSqliteDb` assigns the handle before migrating, so that a failed
  migration leaves it in use.
- The file dashboard keeps room for ended jobs, the SQLite one lets a long queue push
  them out and omits `skipped_external_tool`. Jobs created in bulk share `createdAt`, so
  a walk by cursor may miss some; a deleted cursor restarts it. Concurrent creations, or
  more than 1000 jobs, may share a name. `compactJobForList` applied twice loses its
  counts. The `[id]` route does not drop the cached list.
- A stream may enqueue after its close; a training job's payload may be overtaken;
  reported progress of a training goes back; `project.json` is not written atomically.

*Estimates.*
- The worker-thread path calls `estimateForShape` without `req.scaleSim` and
  without summary fields, and is cached under the same key. A repeated shape keeps
  the first one's names. The Pareto front is relative to a pool of at least 64.
- The refill factor 1.95 holds for 12 to 20 folds only, so a larger N can be
  faster (`LargerIsSlower` excludes it). Traffic's DRAM writes disagree with the
  full layer's; the roofline assumes a bandwidth of 100 when the estimator assumes
  none; alternatives compare a tile's utilization with a full layer's.
- The benchmark plan's duplicates differ by variant name, and the array-matched
  variant is "low" risk even when it overflows.
- A knee search may pick a flat start, contrary to `designSpace.ts:57-58`; the
  dram row of factor 1 has speedup 1 by decree. `requestForDesignSweepRow` does not
  reproduce the request of a row whose axis scales unequal sizes (arrays that are not
  square, several shapes), and a plan may then ask for one request under two factors.

*Samples and suites.*
- `normalizeRow` gives every row an id, so rows without ids are never duplicates; rows
  of equal id, scope and source but other hardware are dropped by an import; jobs that
  share a shape id on several arrays, as those of a sweep do, overwrite each other's
  measurement (last wins), and each collection then adds rows again; `measuredSource` is
  kept when `measuredCycles` is replaced; a shape without a layer of its own gets
  another's, which only a tile-policy row tells; rows of a plan never match; a range
  without positive values makes a plan empty.
- "All" with a full-layer majority is applied to full-layer cycles, against
  `estimatorSuiteTrainingPolicy.ts:172` and `estimatorSuiteApply.ts:252`.
- `coprimeStride` collapses to 1 for six combinations; fewer tiles than topK
  underfill a plan; minimum counts of buckets count rows, not distinct samples.
- In-sample numbers: the validation of stack, adaptive weights and calibration are of
  the rows these were fitted to (though predicted out of fold); the direct average and a
  fifth of the weights are of rows the kept models have seen; the multi-target metrics,
  whose baseline compares cycles with bytes. A bucket's stored validation belongs to its
  local weights, not to the blend it keeps. A split kind may be listed twice.
- A diverged network scores 0 error, since NaN predictions are dropped; elsewhere
  NaN is kept and poisons the weights. Weights with only a direct part and no direct
  prediction collapse to one cycle. The averaged default sums to 0.85 without a
  direct model. The analytical model is judged by another score than the rest. A
  sample without a bandwidth always is dram-bound. Neighbours of a built
  calibration always reach their minimum.
- `compareResidualEstimators` admits 40 rows, but with a validation fraction
  of 0.5 leaves its network fewer than the 24 it demands, and throws; its baseline
  percentiles are all the mean. A tile estimated with the forest is neither of the
  two scopes the forest was trained on. Utilizations up to one percent are read as
  fractions.
- CSV rows are split inside quotes; a cell of quotes only is doubled; a blank first
  alias is taken for 0, so rows of merged files under another alias are dropped.

*Evidence and tools.*
- `npm run benchmark:iree`, `validation:plan` and `validation:execute` of the
  runbook are not in `package.json`; the benchmark passes `--correctness-checked`
  unchecked; `--top-k` is ignored, so regret never comes from the plan;
  `run-scalesim` writes where the gate never reads; the refresh omits the risk
  register; "blocked" is overwritten by runtime evidence.
- Operators beyond the twelve riskiest get no task of their own, however risky.
- Tool output directories are never emptied, so a command that ends with 0 and
  writes nothing is credited with what a candidate before it, or an earlier attempt, has
  left; SCALE-Sim's candidates stop at
  one that ends with 0 without a report. Layers are matched by inclusion of names
  (conv1 takes conv10's). The full report says "applied" where the summary does not.
- The TPU route and `tpu-simple.ts` call `run_on_tpu.py` with options
  `tpu_matmul_bench.py` does not know; its results cannot be imported; duplicate
  keys share ranks; dtypes are ignored; after a timeout the runner only gets SIGTERM.
- The experiment's totals compare sums over different shapes when entries were
  skipped; two shapes may share a directory; the oracle always minimises cycles.

*Page.* A late list of an earlier page stays when auto-refresh is off; changing the
list closes the live stream but leaves "connected"; a GET in the middle of an activation
keeps the mixture of two models for ten seconds, which the panel then gets as its answer;
its own answer may come late and undo an activation elsewhere, and it asks again only when
mounted or used (`page.tsx:330`); errors count as created jobs; presets in flight are
cached for 30 s from before a save.

## 6. Not modelled

- the gradient descent of the networks and all floating-point values (a network's
  output is any number; trees, blends and scores are modelled on small integers);
- charts, tables, wording, markdown reports, and the panels under
  `src/components/workbench`: what they change lives in `page.tsx`;
- the events log, `.env` editing, downloads and settings routes; presets, one-shot
  scripts (`run-next.ts`, `recover-running-jobs.ts`, `clean-jobs.ts`, `cache-clean.ts`);
- modules nothing at this commit calls: `externalJobRunners.ts`,
  `estimatorSuiteTrainingRunner.ts`, `jobExecutionGuards.ts`, `externalReport.ts`,
  `estimatorSuiteCalibration.ts`, `estimatorSuiteStacking.ts`,
  `estimatorSuiteDomain.ts`, `designSpaceScoring.ts` and the hooks
  `useWorkbench*`. `jobArtifactWriter.ts` and `validationEvidence.ts` have no caller
  either but carry behaviour the tests rely on, and are modelled as what a caller
  would get;
- hazards without a property, each with its reason under "hazards" in `PROJECT.json`:
  a deleted job created again by a save (`jobStore.ts:221`), a crash that leaves an empty
  lock (`:477`), a torn save counted for ever (the row of the table above), a candidate
  read before its lock where several workers or cancels are (`:348`), a live run taken for
  dead (`:375`), a cancelled job queued again (`workerRunner.ts:94`), a second crash in the
  middle of a recovery (`:387`) or right after a steal (`:487`).
