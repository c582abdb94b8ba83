# Verification of the etcd backup operator

TLA+ models of the backup controller in `src/pkg/controller/backup-operator/`
and of the Azure blob writer in `src/pkg/backup/writer/abs_writer.go`, TLC
runs on small instances, and TLAPS proofs of their central invariants for
every value of the constants.

## The system

The backup operator reconciles `EtcdBackup` resources. Its parts and how they
interact:

| Part | Code | Role |
|---|---|---|
| Informer and indexer | client-go (not under `src/`) | keeps a lagging local copy of each resource; every add/update/delete event calls `queue.Add(key)` |
| Rate-limited work queue | client-go | deduplicates keys, never hands one key to two workers, re-adds it after a backoff (`AddRateLimited`) |
| Worker | `sync.go` `runWorker`, `processNextItem`, `processItem`, `handleErr` | takes a key and reconciles the cached object: deletion, terminal one-shot, periodic (re)start, one-shot backup |
| Schedule registry | `operator.go` `backupRunnerStore` (`sync.Map` UID → `BackupRunner{spec, cancelFunc}`) | the only state shared between the worker and the runners |
| Periodic runner | `sync.go` `periodicRunnerFunc` | one goroutine per periodic resource: on each tick it re-fetches the object by name, backs it up, writes the status, and resets its ticker if the interval changed |
| Backup executor | `sync.go` `handleBackup`, `validate` | validates the spec and runs the storage handler under a timeout |
| API server | generated clientset | `Get`/`Update` with resourceVersion conflicts; the finalizer `backup-operator-periodic` keeps a deleted object until it is removed |
| Azure blob writer | `src/pkg/backup/writer/abs_writer.go` | stages blocks, then commits the block list |

Hard behaviours in this code:
- the cache lags the API server;
- updates fail, both on conflicts and transiently;
- the worker and any number of runner goroutines interleave;
- a `select` over `ctx.Done()` and the ticker picks either branch when both are ready;
- the process may restart, and the registry lives only in memory;
- the user may edit or delete a resource at any point.

## Modules

- `BackupOperator.tla` models the whole controller for one resource name: the
  worker, the queue, the registry, the runner goroutines, the user, the API
  server and the informer.
  - State:
    - `obj` and `rev`: the API server's object and its resource version;
    - `used`: UIDs already given to an incarnation of the name;
    - `cache`: the indexer;
    - `queue`: for the one key, the flags queued/dirty/processing/waiting and the `NumRequeues` count;
    - `worker`: idle, or running a one-shot backup of `eb`;
    - `registry`: `backupRunnerStore`;
    - `runners`: one record per goroutine (UID, phase, cancelled, ticker period, fetched object, backup result);
    - `nextRunner`: the next goroutine id;
    - the bound counters `ticks`, `edits` and `crashes`;
    - `panicked`: the process died of a panic.
  - Actions:
    - One action per branch of `processItem`: `ProcessAbsent`, `ProcessDeletion`, `ProcessTerminal`, `ProcessPeriodic`, `ProcessUnchanged`, `ProcessOneShot`/`OneShotFinish`. Each includes `queue.Get`, `handleErr` and `queue.Done`.
    - One action per step of the runner loop: `RunnerExit` (the `ctx.Done()` branch), `RunnerTick` (ticker plus re-fetch with retries), `RunnerBackup`, `RunnerReport`, `RunnerDrift`.
    - Environment steps: `Create`, `EditSpec`, `Delete`, `InformerSync`, `RateLimitedAdd`, `Crash`.
  - An `Update` succeeds only against the current resourceVersion, and it may also fail at any time. An object being deleted goes away when its last finalizer is removed (`Commit`).
  - A restart (`Restart`) loses the runners, the registry and the worker. The informer then re-lists and enqueues the key.
  - `Resync` is the informer's periodic resync: it re-delivers the cached object, an in-place write of the worker included. The informer is built outside `src/`, so a resync may happen but gets no fairness.
  - `Commit` models the API server: an Update that changes nothing is not written and keeps the resourceVersion.
- `AbsWriter.tla` models the Azure blob writer `abs_writer.go` together with the service it calls and the callers that share it.
  - State:
    - `path` and `input`: each Write's path and the length of its snapshot stream;
    - `wr`: each Write's local state: program point, bytes consumed, the buffer's `n`, whether `readErr` was EOF, the body position of `readSeekNopCloser`, the measured ContentLength, the SDK's try count, and `blockIDs`. The length that Write returns from `GetProperties` is not modelled;
    - `staged` and `blob`: the service's uncommitted blocks and committed block list per key;
    - `listed` and `deletes`: the retention pass's last listing and the deletes it made.
  - Actions:
    - `Open`: ParseBucketAndKey plus the container's GetProperties.
    - `Read`: one `io.ReadFull`. It yields 0 bytes (EOF: break), a short chunk (ErrUnexpectedEOF) or a full one, or a stream error that ends Write.
    - `StageBlock` and `RetryStage`: the request goes through `readSeekNopCloser`. It is measured with `Seek(0, SeekEnd)`, rewound with `Seek(0, SeekStart)`, read to EOF, retried by the SDK, and possibly stored even when its answer is lost.
    - `CommitBlockList`: commits, discards the other uncommitted blocks of the key, refuses an id the service no longer has, or commits with its answer lost.
    - `GetProperties`, and the retention pass's `List` and `Delete`.
  - Bytes are abstract: a block is a range of one writer's stream.
- `AtomicBlobStore.tla` is what the Writer interface promises: a Write puts the whole stream in one step or fails, possibly after the put. `AbsWriter` refines it through `INSTANCE AtomicBlobStore WITH`:
  - the committed blobs are the store;
  - a Write waiting on GetProperties has put its blob.
- `PeriodicSchedule.tla` adds real time for one periodic resource. It keeps what decides when the resource is backed up.
  - State:
    - `now`: a clock of `Q` steps per second;
    - `interval` and `lastExec`: the API server's interval and `LastExecutionDate`, whole seconds as `metav1.Time` keeps them;
    - `cache`: the informer's copy of those two;
    - `finalized` and `stored`: the finalizer, and the spec in `backupRunnerStore`;
    - `runners`: each goroutine's ticker period and next tick, the one tick its channel keeps, its failed `Get`s and the end of its 1 s sleep;
    - `panicAt`: when a cancelled runner's failing `Get`s end in the nil dereference;
    - history for the properties: `lastFire`, `fireSpec`, `late`, and each runner's `spec` and `stale`.
  - Actions:
    - `Reconcile` and `ReconcileFail`: the periodic branch of `processItem`, with the finalizer Update succeeding or failing. `InitialDuration` is lines 99-130: `int64(d.Seconds())` truncates toward zero, and a non-positive result gives the full interval.
    - `Tick`, `Take`, `TakeFail`, `Retry`, `RetryFail`: the ticker and the loop of `periodicRunnerFunc`. `Backup` is handleBackup, `reportBackupStatus` (whose Update may be lost) and the drift reset.
    - `Edit`, `Sync` (the informer catches up), `Crash`, `Panic` and `Advance`.
  - `Advance` never passes a due tick, a waiting tick, the end of a sleep or a panic: ready goroutines run at once.
  - A backup and an API call take no time. Get failures stay below the fifth, whose panic the `runner_panic` run shows.
- `MC_BackupOperator.tla` gives the model values and the symmetry on UIDs. It also gives the one-UID instance of the liveness runs, which has no symmetry.
- `MC_AbsWriter.tla` gives two Writes, two keys and the symmetry on Writes.
- `BackupOperatorProofs.tla`, `BackupOperatorDeletion.tla`, `AbsWriterProofs.tla` and `AbsWriterRefinement.tla` hold the TLAPS proofs.

Data is abstracted to what the properties distinguish:
- a spec is (policy present, interval);
- a status is none/ok/failed;
- in `BackupOperator`, time is abstracted: the first ticker period is any value in `1..interval` (`InitialDurations`). `PeriodicSchedule` computes it from the clock.

## Runs

| Run | cfg | Expect | Checks |
|---|---|---|---|
| ops_safety | `MC_BackupOperator.cfg` | pass | `TypeOK`, `RegistryTracksRunners` (no UID has two live uncancelled runners: every live runner is the one stored for its UID), `DeletionSafety` (a live runner always belongs to the object stored under the name: the finalizer keeps the object until its runner is cancelled), `DeletionInv` (the inductive invariant of the `DeletionSafety` proof, described under Proofs) |
| runner_panic | `MC_BackupOperator_panic.cfg` | violation | `NoPanic` |
| oneshot_overlap | `MC_BackupOperator_overlap.cfg` | violation | `NoOverlappingBackups` |
| ops_liveness | `MC_BackupOperator_live.cfg` | pass | `RunnersStop`: once an incarnation is deleted or marked for deletion, every runner goroutine started for it eventually ends |
| oneshot_status | `MC_BackupOperator_oneshot.cfg` | violation | `OneShotReported`: a one-shot resource without status eventually has one |
| abs_upload | `MC_AbsWriter.cfg` | pass | `TypeOK`, `CommittedBlobsWhole` (a committed blob is exactly the whole stream of the Write that committed it), `WholeInv` (the inductive invariant of the proof), `AtomicUpload` (the refinement of `AtomicBlobStore`) |
| schedule_spacing | `MC_PeriodicSchedule.cfg` | pass | `ScheduleTypeOK` (with positive intervals, the truncated first period and every ticker period stay positive), `BackupSpacing` (two backups are at least the smaller of their schedules' intervals less 2 s apart, unless the earlier one was late after a failed re-fetch or the later one is the first of a runner armed from a stale `LastExecutionDate`) |
| first_fire_boundary | `MC_PeriodicSchedule_boundary.cfg` | violation | `FirstFireOnBoundary`: a runner armed before `CreationTimestamp + interval` for a resource that never ran fires by that boundary |

The bounds are:
- two UIDs, so a resource can be deleted and recreated under the same name;
- two runner ids, so a runner can be replaced;
- intervals {0, 1, 2}, so an interval can change, and a policy can get interval 0: `processItem` then treats the resource as one-shot, while a runner still running reaches `time.NewTicker(0)` in its drift check;
- one retry (`MaxRetries = 1`), so a key can be both requeued and dropped;
- one tick in the whole run, a single budget shared by all runners (a runner can still be replaced, drift, panic and outlive its resource), one spec edit and one crash.

ops_liveness uses:
- one UID and one interval, without symmetry (TLC's liveness check needs none);
- two runner ids, two ticks (a global budget), one edit and one crash.

It explores 57 thousand states. With `deletePeriodicBackupRunner` deleting without `cancelFunc`, TLC finds a runner that ends its ticks uncancelled and outlives the deletion forever.

abs_upload uses:
- chunks of 2 bytes and streams of 0 to 4 bytes. Empty streams, exact multiples and a short last chunk all occur, so every break of the read loop is taken.
- three tries per request, two retention deletes, and two Writes that may share a key.

It explores 111 thousand states.

schedule_spacing uses:
- intervals {3, 4} and half-second clock steps, so that fractions of a second are truncated and a 2 s slack is not vacuous;
- 12 s of time, which is room for two or three backups;
- two edits, one crash and two failed re-fetches.

It explores 1.2 million states in about 20 s. With a slack of 1 s instead of 2 s, TLC finds `BackupSpacing` violated, so the 2 s is needed. Without the `late` exemption or the `stale` exemption, TLC finds early backups: the traces are in the hazards of `PROJECT.json`. first_fire_boundary needs no faults at all.

ops_safety explores 1.7 million distinct states in about 80 s.
Each of its properties is broken by a mutant of the code:
- `handleErr` without the `NumRequeues < maxRetries` test breaks `TypeOK`;
- `deletePeriodicBackupRunner` that deletes without calling `cancelFunc` breaks `RegistryTracksRunners`;
- never adding the finalizer breaks `DeletionSafety` and `DeletionInv`;
- the same `deletePeriodicBackupRunner` without `cancelFunc` breaks `RunnersStop`;
- taking `n` as `len(buf)` breaks `AbsWriter`'s `TypeOK`;
- the EOF test moved before `StageBlock` (a short last chunk is never staged) breaks `CommittedBlobsWhole` and `WholeInv`;
- block ids that repeat within one upload break `AtomicUpload`;
- `diff < 0` instead of `diff <= 0` in the first period (a zero ticker period) breaks `ScheduleTypeOK`;
- `processItem` without the cancel of the stored runner breaks `BackupSpacing`.

The bounds end every behaviour, so deadlock is not checked.

### Fairness

`LiveSpec == Spec /\ Fairness`. Its conditions and their justification:
- Weak fairness of `Worker`: `runWorker` loops on `processNextItem` for as long as the process lives.
- Weak fairness of `InformerSync`, `RateLimitedAdd` and each runner goroutine: the informer delivers every change (spec: external watch events enqueue the key), the rate limiter's timer expires, and the runner goroutines keep running.
- Strong fairness of a worker step that writes (`Worker /\ rev' # rev`): the API server does not fail forever an Update that is sent again and again against the current version. Transient failures and conflicts stay possible any finite number of times.
- The user, crashes and `Resync` get no fairness. The informer and its resync period are set up outside `src/`.

The runs do not claim that a deletion completes. After `maxRetries` consecutive failures, `handleErr` drops the key (`sync.go:310`), as spec 4.1 intends. Nothing under `src/` enqueues a dropped key again, so a deletion whose finalizer Update kept failing stays Terminating until another event. `RunnersStop` holds all the same: the deletion branch cancels the runner before that Update, and a cancelled runner exits at its select, or dies in the panic of a failed fetch.

### Findings

- **Runner panic** (`sync.go:250`). When the tick's `Get` fails, the runner goes on with the empty object that `Get` returns. The fetch can fail because of:
  - `NotFound` after a deletion;
  - a context cancelled while the ticker fired;
  - five transient errors.

  The drift check then dereferences its nil `BackupPolicy`. A spec edited to drop the policy does the same. An interval edited to 0 makes `time.NewTicker` panic at line 257. Either panic ends the operator process. TLC's trace: create a periodic backup, start its runner, tick with a failed fetch, report, drift check.
- **Periodic runner survives a switch to one-shot** (`sync.go:140`). The one-shot branch never cancels the stored runner. A resource edited from periodic to one-shot is then backed up by the worker and by the old runner at once. The spec says a resource has at most one live runner.

- **A lost one-shot status is never re-reported** (`sync.go:265`). `reportBackupStatus` writes the status into the indexer's own object before the Update. When the Update fails:
  - the failure is only logged;
  - `processItem` returns nil, because the one-shot branch shadows `err` (`sync.go:147`);
  - every later delivery of the unchanged object (a resync, when the informer has one) finds the status in the cache and takes the terminal branch.

  The status reaches the API server only after a restart. Spec 4.5 says the next reconciliation re-reports a lost status write. TLC's trace: create, process, one failed Update, then resyncs forever, each one taking the terminal branch.
- **The first backup misses its boundary by a whole interval** (`sync.go:107`). `processItem` truncates the time left until `CreationTimestamp + interval` to whole seconds. When less than a second is left, the result is 0, and the non-positive branch arms a ticker of the full interval. That happens when the first `processItem` runs late: after a restart, after failed finalizer Updates, or behind a slow queue. The first backup then comes up to one interval late. Spec 4.3 and 5 (initial-fire alignment) say the first fire lands on the boundary. TLC's trace: interval 2, the reconcile at 1.5 s, first tick armed for 3.5 s. Line 117 does the same from `LastExecutionDate`.

## Proofs

`BackupOperatorProofs.tla` proves two theorems, for every set of UIDs and every bound:
- `TypeCorrect == Spec => []TypeOK`: `TypeOK` is inductive by itself.
  - `InitType` and `TypeNext` prove it, with one step per action.
  - Lemmas about the record updates the code makes support them: `QueueType`, `CommitType`, `DeleteRunnerType`, `RestartType` and others.
- `RegistryCorrect == Spec => []RegistryTracksRunners`. `RegistryTracksRunners` is not inductive alone: a start at a runner id already in use would break it. The inductive invariant is `RegistryInv == TypeOK /\ FreshRunnerIds /\ RegistryTracksRunners`, where `FreshRunnerIds` says that ids at or above `nextRunner` are unused. TLC checks `RegistryInv` on the ops_safety instance. The argument uses one lemma per kind of step:
  - `StoppedFacts`: `deletePeriodicBackupRunner(u)` cancels exactly the stored runner of `u`. So any runner it leaves alive serves another UID.
  - `StartRegistry`: a start goes to a fresh id and is stored under its UID.
  - `StopRegistry`: deletion or a failed finalizer update removes the entry after the cancel.
  - `RunnerStepRegistry`: a runner's own step keeps its UID and never revives it.
  - `RestartRegistry`: after a restart no runner is alive.
  - `FrameRegistry`: all other steps leave runners and the registry alone.

The proofs assume only `ConstAssumption`:
- the set of UIDs is finite and non-empty;
- the intervals are natural numbers;
- the bounds are natural numbers.

They also use `NoValueAssumption`: the "no object" and "no entry" values are distinct from real ones.

`BackupOperatorDeletion.tla` proves, under the same two assumptions:
- `DeletionInvCorrect == Spec => []DeletionInv`;
- `DeletionCorrect == Spec => []DeletionSafety`: no live, uncancelled runner goroutine outlives its resource.

`DeletionSafety` is far from inductive. A runner stays alive only while its store entry exists. The entry is dropped only by the deletion branch of `processItem`, and that branch runs on the informer's cache, which may be stale. The argument rests on the resource version: `Update` is a compare-and-swap on `rv`, and every write makes a new version. The inductive invariant `DeletionInv` (in `BackupOperator.tla`, checked by ops_safety) has these conjuncts:
- `RegistryInv`, the invariant behind `RegistryTracksRunners`;
- `CopiesCurrent`: each copy the operator holds is no newer than the stored version. A copy at the current version is the stored object up to its status. The copies are the cache, the one-shot worker's `eb` and each runner's `latestEb`. `WorkerMatchesCache` adds that the worker's `eb` is the cache whenever their versions agree;
- `DeletingKeepsFinalizer`: a deleting object in the store still has its finalizer;
- `CachedFinalizerHeld`: a cached object with the finalizer and no deletion timestamp means the stored object has that UID and the finalizer;
- `RegistryHeld`: every store entry is for the stored object's UID, and that object has the finalizer.

There is one lemma per action, and each lemma proves `ObjInv` (`DeletionInv` without `RegistryInv`).
- `DeletionObj`: the Update that drops the finalizer succeeds only when the cache is current, so the stored object is deleting and goes. Every other entry was for its UID.
- `PeriodicObj`: a successful finalizer Update finds the stored object without the finalizer, so no entry was stored. When the cache already shows the finalizer, `CachedFinalizerHeld` backs the new entry.
- `OneShotFinishObj` and `ReportObj`: a status Update changes only the status. It cannot remove the object, because a deleting object keeps its finalizer.
- `CreateObj`, `EditSpecObj`, `DeleteObj`, `InformerSyncObj`, `RestartObj`, `OneShotStartObj`, `RunnerObj` and `FrameObj` cover the rest.
- They rest on `CommitCases`, the three outcomes of an Update, and on `BumpCopies`: after a new version, only the stored object is current.

`AbsWriterProofs.tla` proves, for every chunk size, stream length, retry budget, set of writers and set of keys:
- `WholeCorrect == Spec => []CommittedBlobsWhole`: a committed blob is exactly the whole stream of the Write that committed it.
- `WriterTypeCorrect == Spec => []TypeOK`.

`CommittedBlobsWhole` is not inductive alone: a commit copies whatever blocks are staged under the listed ids. The inductive invariant `WholeInv` (in `AbsWriter.tla`) adds two conjuncts. TLC checks `WholeInv` on the abs_upload instance.
- `WriteProgress(w)` covers the loop's own state:
  - after j staged blocks, `blockIDs` is (w, 1) .. (w, j);
  - the position is j chunks, plus the chunk being staged;
  - the chunk being staged is what `io.ReadFull` returns there;
  - a Write reaches `CommitBlockList` only with `NumChunks(len)` ids.
- `StagedBlocksRight`: every staged block (w, i) sits under w's path and holds piece i of w's stream.

The argument has one lemma per action:
- `ReadStep`: at EOF the ids already cover the stream. This rests on the arithmetic lemmas `ReadEOF`, `NumChunksExact` and `NumChunksShort`.
- `AttemptStep`: `StageBlockStep` and `RetryStageStep` reduce to it. The SDK measures the body with `Seek(0, SeekEnd)` and rewinds it to 0 (`SeekFacts`), so every try sends the whole chunk. Any block it stores, on success or on a failed try, is the next piece (`PieceNext`, `StagedPut`).
- `CommitStep`: each `CHOOSE` over the staged blocks finds piece i, so the committed list equals `Stream(w, len)`.
- `OpenStep`, `GetPropertiesStep`, `ListStep`, `DeleteStep` and `FailStep`.

The proofs use only `WriterAssumption`: the chunk size and `MaxTries` are positive, and the bounds are natural numbers.

`AbsWriterRefinement.tla` proves two more theorems under the same assumption:
- `WholeInvCorrect == Spec => []WholeInv`;
- `UploadRefinement == Spec => AtomicUpload`: the writer implements `AtomicBlobStore`.

The refinement follows the usual pattern: `RefInit` shows `Init => Store!Init`, and every step, taken in a state satisfying `WholeInv`, is a step or a stutter of the atomic store.
- `LoopRef` covers `Open`, `Read`, `StageBlock` and `RetryStage`. Each is a stutter (`InternalStep`), or a failed `Return` from writing (`FailWriting`). `AttemptPc` shows that one StageBlock try touches only its own Write.
- `CommitRef`: a commit that takes effect is the atomic `Put`, whether its answer arrives (`props`) or is lost (`failed`). `CommitContent` shows the committed list is `Stream(w, len)` by `WholeInv`. A refused commit is a failed `Return`.
- `PropsRef`: `GetProperties` is the `Return` from put to done or failed.
- `RetentionRef`: `List` is a stutter and the retention pass's `Delete` is the store's `Delete`.

Writing this proof exposed a precedence slip in `AtomicBlobStore`'s `Next`. It had put `Delete` inside `\E w \in Writers`, so with no writers the store could not delete. `Next` now lists the writers' steps and `Delete` as two disjuncts.

Left to TLC:
- `PeriodicSchedule`'s `ScheduleTypeOK`. It holds there because `ScheduleAssumption` makes every interval positive; the interval-0 edit is modelled in `BackupOperator`, where `runner_panic` reaches it;
- `PeriodicSchedule`'s `BackupSpacing`. The spacing bound rests on the arithmetic of two truncations across restarts, and its inductive form needs the history of every runner's base;
- liveness (out of TLAPS's reach);
- the violations above.

## Not modelled, and the plan

- In the blob writer:
  - `List` reads the committed blobs in one step, while the real pager reads page after page.
  - The retention pass's choice of the oldest blobs (in `handleABS`, not under `src/`) is abstracted to deleting any listed blob.
- Planned:
  - an abstract registry specification refined by `BackupOperator`.
- Not modelled, because they have no state of their own:
  - the blob reader and the client factory (pure I/O);
  - the generated clientset;
  - the cluster operator's `main.go` (leader election and flags, whose only effect here is a crash).
