--------------------------- MODULE BackupOperator ---------------------------
(***************************************************************************)
(* The backup operator's reconciliation engine for one EtcdBackup key      *)
(* (namespace/name), as written in                                         *)
(*   src/pkg/controller/backup-operator/sync.go and operator.go.           *)
(*                                                                         *)
(* Actors and the state each keeps:                                        *)
(*   - the API server: the object stored under the key (obj), whose        *)
(*     incarnation is told apart by its UID, and the resource version      *)
(*     counter (rev) that makes Update an optimistic compare-and-swap;     *)
(*   - the informer: a cache of obj that lags behind it and enqueues the   *)
(*     key on every change it delivers;                                    *)
(*   - the rate-limited work queue of client-go, reduced to one key;       *)
(*   - the worker running processNextItem / processItem / handleErr;       *)
(*   - the registry backupRunnerStore: UID -> (spec, cancelFunc);          *)
(*   - the goroutines of periodicRunnerFunc, one per started runner;       *)
(*   - the user, who creates, edits and deletes the object;                *)
(*   - the process itself, which may crash (leader election lost, a        *)
(*     panic) and restarts with empty memory.                              *)
(*                                                                         *)
(* Time is abstracted away: a runner's ticker may fire whenever the        *)
(* runner waits in its select, and every API call may fail transiently.    *)
(***************************************************************************)
EXTENDS Naturals, FiniteSets

CONSTANTS
    UIDs,        \* the incarnations the key can have (delete + re-create)
    Intervals,   \* values of spec.BackupPolicy.BackupIntervalInSecond
    NoObj,       \* "no object": GetByKey returns !exists, Get is NotFound
    NoEntry,     \* backupRunnerStore.Load returns !exists
    MaxRetries,  \* maxRetries of sync.go (15 in the code)
    MaxRunners,  \* bound: runner goroutines started in one behaviour
    MaxTicks,    \* bound: ticker fires in one behaviour
    MaxEdits,    \* bound: spec edits by the user
    MaxCrashes   \* bound: process crashes not caused by a panic

ASSUME ConstAssumption ==
    /\ IsFiniteSet(UIDs) /\ UIDs # {}
    /\ Intervals \subseteq Nat
    /\ MaxRetries \in Nat /\ MaxRunners \in Nat /\ MaxTicks \in Nat
    /\ MaxEdits \in Nat /\ MaxCrashes \in Nat

(***************************************************************************)
(* Data.  A BackupSpec is reduced to what the reconciler and the runner    *)
(* look at: whether BackupPolicy is nil and BackupIntervalInSecond.        *)
(* Status is "none" (empty), "ok" (Succeeded) or "failed" (Reason set).    *)
(***************************************************************************)
Specs == {[hasPolicy |-> FALSE, interval |-> 0]}
            \cup [hasPolicy : {TRUE}, interval : Intervals]

Statuses == {"none", "ok", "failed"}

Objects == [uid : UIDs, spec : Specs, deleting : BOOLEAN, fin : BOOLEAN,
            status : Statuses, rv : Nat]

RunnerIds == 1 .. MaxRunners

Phases == {"none", "idle", "backup", "report", "drift", "dead"}

Runners == [uid : UIDs, phase : Phases, cancelled : BOOLEAN, dur : Nat,
            latest : Objects \cup {NoObj}, result : {"ok", "failed"}]

Entries == [id : RunnerIds, spec : Specs]

ASSUME NoValueAssumption == NoObj \notin Objects /\ NoEntry \notin Entries

VARIABLES
    obj,         \* the object the API server stores under the key
    rev,         \* the API server's last resource version
    used,        \* UIDs already given to an incarnation
    cache,       \* the informer's copy of obj (indexer.GetByKey)
    queue,       \* the work queue's state for the key
    worker,      \* the worker: idle, or running a one-shot backup of eb
    registry,    \* backupRunnerStore
    runners,     \* the periodicRunnerFunc goroutines
    nextRunner,  \* id of the next runner goroutine
    ticks, edits, crashes,
    panicked     \* the process has died of a panic

vars == <<obj, rev, used, cache, queue, worker, registry, runners,
          nextRunner, ticks, edits, crashes, panicked>>

-----------------------------------------------------------------------------
(* isPeriodicBackup (not under src/): BackupPolicy != nil && interval != 0 *)
isPeriodicBackup(s) == s.hasPolicy /\ s.interval # 0

(* A runner goroutine that is alive and whose context is not cancelled.    *)
Active(r) == runners[r].phase \notin {"none", "dead"} /\ ~runners[r].cancelled

(***************************************************************************)
(* API server.  Update(ctx, o) succeeds only if o.rv is the stored rv      *)
(* (optimistic concurrency); it may also fail for transient reasons, which *)
(* callers model as a disjunct that leaves obj alone.  An Update that     *)
(* changes nothing is not written and keeps the resourceVersion.  An       *)
(* object that is being deleted and loses its last finalizer is removed.   *)
(***************************************************************************)
Writable(base) == obj # NoObj /\ obj.rv = base.rv

Commit(new) ==
    IF new = obj THEN UNCHANGED <<obj, rev>>
    ELSE /\ rev' = rev + 1
         /\ obj' = IF new.deleting /\ ~new.fin THEN NoObj
                   ELSE [new EXCEPT !.rv = rev + 1]

(***************************************************************************)
(* The client-go rate-limiting work queue, for one key.  queued: the key   *)
(* is in the FIFO; dirty: it was added and not yet handed out; processing: *)
(* a worker holds it; waiting: AddRateLimited's timer is pending;          *)
(* requeues: the rate limiter's failure count (NumRequeues).               *)
(***************************************************************************)
QueueStates == [queued : BOOLEAN, dirty : BOOLEAN, processing : BOOLEAN,
                waiting : BOOLEAN, requeues : 0 .. MaxRetries]

QAdd(q) == IF q.dirty THEN q
           ELSE [q EXCEPT !.dirty = TRUE, !.queued = ~q.processing]

QDone(q) == [q EXCEPT !.processing = FALSE, !.queued = q.dirty]

(* Mutant of handleErr: the NumRequeues(key) < maxRetries test dropped.    *)
handleErrUnbounded(q, ok) ==
    IF ok THEN [q EXCEPT !.requeues = 0]
    ELSE [q EXCEPT !.waiting = TRUE, !.requeues = @ + 1]

(* handleErr: Forget on success, AddRateLimited while NumRequeues <        *)
(* maxRetries, else Forget and drop the key.                               *)
handleErr(q, ok) ==
    IF ok \/ q.requeues >= MaxRetries THEN [q EXCEPT !.requeues = 0]
    ELSE [q EXCEPT !.waiting = TRUE, !.requeues = @ + 1]

(* Mutant of deletePeriodicBackupRunner: Delete without cancelFunc().     *)
deleteWithoutCancel(u) == runners

(* deletePeriodicBackupRunner(uid): cancel the stored runner, delete it.   *)
deletePeriodicBackupRunner(u) ==
    IF registry[u] = NoEntry THEN runners
    ELSE [runners EXCEPT ![registry[u].id].cancelled = TRUE]

(* Mutant of NeedFinalizer: the finalizer is never added.                 *)
NeverAddFinalizer(eb) == FALSE

(* addFinalizerOfPeriodicBackupIfNeed: an Update is sent only when the    *)
(* object lacks the backup-operator-periodic finalizer.                    *)
NeedFinalizer(eb) == ~eb.fin

(* removeFinalizerOfPeriodicBackup: the copy sent by its Update.           *)
removeFinalizerOfPeriodicBackup(eb) == [eb EXCEPT !.fin = FALSE]

(* reportBackupStatus: the object with the outcome written into it.        *)
reportBackupStatus(eb, res) == [eb EXCEPT !.status = res]

(* handleBackup: validate, then the storage handler under a timeout        *)
(* derived from the caller's context; a cancelled context makes it fail.   *)
(* The outcome of the snapshot and upload is otherwise open.               *)
handleBackup(cancelled) == IF cancelled THEN {"failed"} ELSE {"ok", "failed"}

(* isChanged(eb): no runner stored for the UID, or a different spec.       *)
isChanged(eb) ==
    IF registry[eb.uid] = NoEntry THEN TRUE ELSE registry[eb.uid].spec # eb.spec

(* The first ticker period computed in processItem: what is left of the    *)
(* interval since creation or the last execution, truncated to whole       *)
(* seconds, or the full interval when that is <= 0.  Time is abstract, so  *)
(* any value in 1..interval.                                               *)
InitialDurations(s) == 1 .. s.interval

(* A goroutine that has returned keeps nothing but the UID it served.      *)
Dead(rr) == [rr EXCEPT !.phase = "dead", !.cancelled = FALSE, !.dur = 0,
                       !.latest = NoObj, !.result = "ok"]

(* What a process restart leaves: no runner, an empty registry, and an     *)
(* informer whose first List fills the cache and enqueues the key.         *)
Restart ==
    /\ runners' = [r \in RunnerIds |->
                     IF runners[r].phase = "none" THEN runners[r]
                     ELSE Dead(runners[r])]
    /\ registry' = [u \in UIDs |-> NoEntry]
    /\ worker' = [phase |-> "idle", eb |-> NoObj]
    /\ cache' = obj
    /\ queue' = [queued |-> obj # NoObj, dirty |-> obj # NoObj,
                 processing |-> FALSE, waiting |-> FALSE, requeues |-> 0]

-----------------------------------------------------------------------------
(***************************************************************************)
(* The user and the API server.                                            *)
(***************************************************************************)
Create(u, s) ==
    /\ obj = NoObj
    /\ u \notin used
    /\ used' = used \cup {u}
    /\ rev' = rev + 1
    /\ obj' = [uid |-> u, spec |-> s, deleting |-> FALSE, fin |-> FALSE,
               status |-> "none", rv |-> rev + 1]
    /\ UNCHANGED <<cache, queue, worker, registry, runners, nextRunner,
                   ticks, edits, crashes, panicked>>

EditSpec(s) ==
    /\ obj # NoObj /\ ~obj.deleting
    /\ edits < MaxEdits /\ s # obj.spec
    /\ edits' = edits + 1
    /\ rev' = rev + 1
    /\ obj' = [obj EXCEPT !.spec = s, !.rv = rev + 1]
    /\ UNCHANGED <<used, cache, queue, worker, registry, runners, nextRunner,
                   ticks, crashes, panicked>>

(* Delete sets the deletion timestamp; with no finalizer left the object   *)
(* goes at once.                                                           *)
Delete ==
    /\ obj # NoObj /\ ~obj.deleting
    /\ Commit([obj EXCEPT !.deleting = TRUE])
    /\ UNCHANGED <<used, cache, queue, worker, registry, runners, nextRunner,
                   ticks, edits, crashes, panicked>>

(* The informer delivers the latest version: the cache catches up and the  *)
(* add/update/delete handler calls queue.Add(key).  A cache that differs   *)
(* from obj only by an in-place write of the worker (same rv) gets no      *)
(* event.                                                                  *)
InformerSync ==
    /\ cache # obj
    /\ IF cache = NoObj \/ obj = NoObj THEN TRUE ELSE cache.rv # obj.rv
    /\ cache' = obj
    /\ queue' = QAdd(queue)
    /\ UNCHANGED <<obj, rev, used, worker, registry, runners, nextRunner,
                   ticks, edits, crashes, panicked>>

(* The delay chosen by AddRateLimited expires: the key is added again.     *)
RateLimitedAdd ==
    /\ queue.waiting
    /\ queue' = QAdd([queue EXCEPT !.waiting = FALSE])
    /\ UNCHANGED <<obj, rev, used, cache, worker, registry, runners,
                   nextRunner, ticks, edits, crashes, panicked>>

(* The informer's periodic resync re-delivers every cached object as an  *)
(* update event: queue.Add(key) with the cache as it is, an in-place write *)
(* of the worker included.                                                 *)
Resync ==
    /\ cache # NoObj
    /\ queue' = QAdd(queue)
    /\ UNCHANGED <<obj, rev, used, cache, worker, registry, runners,
                   nextRunner, ticks, edits, crashes, panicked>>

-----------------------------------------------------------------------------
(***************************************************************************)
(* The worker: processNextItem takes the key (queue.Get) and runs          *)
(* processItem on the cached object, then handleErr and queue.Done.  Each  *)
(* action below is one branch of processItem; Got is the queue after Get. *)
(***************************************************************************)
Got == [queue EXCEPT !.queued = FALSE, !.dirty = FALSE, !.processing = TRUE]

CanGet == worker.phase = "idle" /\ queue.queued

(* GetByKey: !exists -> return nil.                                        *)
ProcessAbsent ==
    /\ CanGet /\ cache = NoObj
    /\ queue' = QDone(handleErr(Got, TRUE))
    /\ UNCHANGED <<obj, rev, used, cache, worker, registry, runners,
                   nextRunner, ticks, edits, crashes, panicked>>

(* DeletionTimestamp set: deletePeriodicBackupRunner, then                 *)
(* removeFinalizerOfPeriodicBackup; its Update's error is returned.        *)
ProcessDeletion ==
    /\ CanGet /\ cache # NoObj /\ cache.deleting
    /\ runners' = deletePeriodicBackupRunner(cache.uid)
    /\ registry' = [registry EXCEPT ![cache.uid] = NoEntry]
    /\ \/ /\ Writable(cache)
          /\ Commit(removeFinalizerOfPeriodicBackup(cache))
          /\ queue' = QDone(handleErr(Got, TRUE))
       \/ /\ UNCHANGED <<obj, rev>>
          /\ queue' = QDone(handleErr(Got, FALSE))
    /\ UNCHANGED <<used, cache, worker, nextRunner, ticks, edits, crashes,
                   panicked>>

(* Not periodic and a status already there: return nil.                    *)
ProcessTerminal ==
    /\ CanGet /\ cache # NoObj /\ ~cache.deleting
    /\ ~isPeriodicBackup(cache.spec) /\ cache.status # "none"
    /\ queue' = QDone(handleErr(Got, TRUE))
    /\ UNCHANGED <<obj, rev, used, cache, worker, registry, runners,
                   nextRunner, ticks, edits, crashes, panicked>>

(* Periodic and isChanged: stop the stored runner, add the finalizer if    *)
(* the cached object lacks it (an error is returned, with the old runner   *)
(* already gone), start a runner goroutine and Store it.                   *)
ProcessPeriodic ==
    /\ CanGet /\ cache # NoObj /\ ~cache.deleting
    /\ isPeriodicBackup(cache.spec) /\ isChanged(cache)
    /\ LET stopped == deletePeriodicBackupRunner(cache.uid)
           Start ==
             /\ nextRunner \in RunnerIds
             /\ \E d \in InitialDurations(cache.spec) :
                  runners' = [stopped EXCEPT ![nextRunner] =
                                [uid |-> cache.uid, phase |-> "idle",
                                 cancelled |-> FALSE, dur |-> d,
                                 latest |-> NoObj, result |-> "ok"]]
             /\ nextRunner' = nextRunner + 1
             /\ registry' = [registry EXCEPT ![cache.uid] =
                                [id |-> nextRunner, spec |-> cache.spec]]
             /\ queue' = QDone(handleErr(Got, TRUE))
       IN \/ /\ ~NeedFinalizer(cache)
             /\ Start
             /\ UNCHANGED <<obj, rev>>
          \/ /\ NeedFinalizer(cache) /\ Writable(cache)
             /\ Commit([cache EXCEPT !.fin = TRUE])
             /\ Start
          \/ /\ NeedFinalizer(cache)
             /\ runners' = stopped
             /\ registry' = [registry EXCEPT ![cache.uid] = NoEntry]
             /\ queue' = QDone(handleErr(Got, FALSE))
             /\ UNCHANGED <<obj, rev, nextRunner>>
    /\ UNCHANGED <<used, cache, worker, ticks, edits, crashes, panicked>>

(* Periodic and the stored runner has the same spec: return nil.           *)
ProcessUnchanged ==
    /\ CanGet /\ cache # NoObj /\ ~cache.deleting
    /\ isPeriodicBackup(cache.spec) /\ ~isChanged(cache)
    /\ queue' = QDone(handleErr(Got, TRUE))
    /\ UNCHANGED <<obj, rev, used, cache, worker, registry, runners,
                   nextRunner, ticks, edits, crashes, panicked>>

(* Not periodic and no status: the worker starts handleBackup(nil, ...).   *)
ProcessOneShot ==
    /\ CanGet /\ cache # NoObj /\ ~cache.deleting
    /\ ~isPeriodicBackup(cache.spec) /\ cache.status = "none"
    /\ worker' = [phase |-> "oneshot", eb |-> cache]
    /\ queue' = Got
    /\ UNCHANGED <<obj, rev, used, cache, registry, runners, nextRunner,
                   ticks, edits, crashes, panicked>>

(* handleBackup returns; reportBackupStatus writes the status into eb,     *)
(* which is the indexer's own object (no DeepCopy), so the cache changes   *)
(* whatever the Update does, as long as the informer has not replaced it.  *)
(* The backup's error is shadowed: processItem returns nil.                *)
OneShotFinish ==
    /\ worker.phase = "oneshot"
    /\ \E res \in handleBackup(FALSE) :
         LET eb == reportBackupStatus(worker.eb, res) IN
         /\ cache' = IF cache # NoObj /\ cache.rv = eb.rv THEN eb ELSE cache
         /\ \/ Writable(eb) /\ Commit(eb)
            \/ UNCHANGED <<obj, rev>>
    /\ worker' = [phase |-> "idle", eb |-> NoObj]
    /\ queue' = QDone(handleErr(queue, TRUE))
    /\ UNCHANGED <<used, registry, runners, nextRunner, ticks, edits,
                   crashes, panicked>>

-----------------------------------------------------------------------------
(***************************************************************************)
(* periodicRunnerFunc.  "idle" is the select on ctx.Done() and t.C; when   *)
(* both are ready Go picks either, so a cancelled runner may still take a  *)
(* tick.  A tick re-fetches the object by name (Get, up to 5 attempts;     *)
(* NotFound only breaks the retry loop), runs handleBackup when the fetch  *)
(* succeeded, reports the status and then compares the ticker period with  *)
(* the fetched interval.                                                   *)
(***************************************************************************)
RunnerExit(r) ==
    /\ runners[r].phase = "idle" /\ runners[r].cancelled
    /\ runners' = [runners EXCEPT ![r] = Dead(@)]
    /\ UNCHANGED <<obj, rev, used, cache, queue, worker, registry,
                   nextRunner, ticks, edits, crashes, panicked>>

(* t.C fires; the Get with the runner's ctx fails when ctx is cancelled or *)
(* nothing is stored under the name, and may fail five times in a row.     *)
(* It returns whatever incarnation is stored under the name.               *)
RunnerTick(r) ==
    /\ runners[r].phase = "idle"
    /\ ticks < MaxTicks
    /\ ticks' = ticks + 1
    /\ \/ /\ ~runners[r].cancelled /\ obj # NoObj
          /\ runners' = [runners EXCEPT ![r].phase = "backup",
                                        ![r].latest = obj]
       \/ runners' = [runners EXCEPT ![r].phase = "report",
                                     ![r].latest = NoObj]
    /\ UNCHANGED <<obj, rev, used, cache, queue, worker, registry,
                   nextRunner, edits, crashes, panicked>>

(* handleBackup(&ctx, &latestEb.Spec, true, ...): fails if ctx is          *)
(* cancelled, otherwise succeeds or fails.                                 *)
RunnerBackup(r) ==
    /\ runners[r].phase = "backup"
    /\ \E res \in handleBackup(runners[r].cancelled) :
         runners' = [runners EXCEPT ![r].phase = "report", ![r].result = res]
    /\ UNCHANGED <<obj, rev, used, cache, queue, worker, registry,
                   nextRunner, ticks, edits, crashes, panicked>>

(* reportBackupStatus(ctx, bs, err, latestEb): Update of the fetched       *)
(* object with the new status.  After a failed fetch latestEb is the empty *)
(* object Get returns, and the Update fails.                               *)
RunnerReport(r) ==
    /\ runners[r].phase = "report"
    /\ LET eb == runners[r].latest IN
       \/ /\ eb # NoObj /\ ~runners[r].cancelled /\ Writable(eb)
          /\ Commit(reportBackupStatus(eb, runners[r].result))
       \/ UNCHANGED <<obj, rev>>
    /\ runners' = [runners EXCEPT ![r].phase = "drift"]
    /\ UNCHANGED <<used, cache, queue, worker, registry, nextRunner, ticks,
                   edits, crashes, panicked>>

(* currentDuration != latestEb.Spec.BackupPolicy.BackupIntervalInSecond:   *)
(* reading the interval dereferences BackupPolicy, nil on the empty object *)
(* of a failed fetch and on a spec without policy; time.NewTicker panics   *)
(* on a non-positive period.  A panic in the goroutine ends the process.   *)
DriftPanics(r) ==
    LET eb == runners[r].latest IN
    IF eb = NoObj THEN TRUE
    ELSE ~eb.spec.hasPolicy
         \/ (eb.spec.interval # runners[r].dur /\ eb.spec.interval = 0)

RunnerDrift(r) ==
    /\ runners[r].phase = "drift"
    /\ \/ /\ DriftPanics(r)
          /\ Restart
          /\ panicked' = TRUE
          /\ UNCHANGED <<obj, rev, used, nextRunner, ticks, edits, crashes>>
       \/ /\ ~DriftPanics(r)
          /\ runners' = [runners EXCEPT ![r].phase = "idle",
                                        ![r].dur = runners[r].latest.spec.interval,
                                        ![r].latest = NoObj, ![r].result = "ok"]
          /\ UNCHANGED <<obj, rev, used, cache, queue, worker, registry,
                         nextRunner, ticks, edits, crashes, panicked>>

(* The process dies for a reason of its own (logrus.Fatalf on lost leader  *)
(* election, eviction) and is restarted.                                   *)
Crash ==
    /\ crashes < MaxCrashes
    /\ crashes' = crashes + 1
    /\ Restart
    /\ UNCHANGED <<obj, rev, used, nextRunner, ticks, edits, panicked>>

-----------------------------------------------------------------------------
Init ==
    /\ obj = NoObj
    /\ rev = 0
    /\ used = {}
    /\ cache = NoObj
    /\ queue = [queued |-> FALSE, dirty |-> FALSE, processing |-> FALSE,
                waiting |-> FALSE, requeues |-> 0]
    /\ worker = [phase |-> "idle", eb |-> NoObj]
    /\ registry = [u \in UIDs |-> NoEntry]
    /\ runners = [r \in RunnerIds |->
                    [uid |-> CHOOSE u \in UIDs : TRUE, phase |-> "none",
                     cancelled |-> FALSE, dur |-> 0, latest |-> NoObj,
                     result |-> "ok"]]
    /\ nextRunner = 1
    /\ ticks = 0 /\ edits = 0 /\ crashes = 0
    /\ panicked = FALSE

Environment ==
    \/ \E u \in UIDs, s \in Specs : Create(u, s)
    \/ \E s \in Specs : EditSpec(s)
    \/ Delete
    \/ InformerSync
    \/ RateLimitedAdd
    \/ Resync
    \/ Crash

Worker ==
    \/ ProcessAbsent \/ ProcessDeletion \/ ProcessTerminal
    \/ ProcessPeriodic \/ ProcessUnchanged \/ ProcessOneShot
    \/ OneShotFinish

Runner(r) ==
    RunnerExit(r) \/ RunnerTick(r) \/ RunnerBackup(r)
    \/ RunnerReport(r) \/ RunnerDrift(r)

Next == Environment \/ Worker \/ \E r \in RunnerIds : Runner(r)

Spec == Init /\ [][Next]_vars

(***************************************************************************)
(* Fairness.  The worker goroutine (runWorker loops on processNextItem),   *)
(* the informer, the rate limiter's timer and every runner goroutine keep  *)
(* taking steps while they can.  The informer's resync is not fair: the    *)
(* code under src/ configures none.  The API server is                     *)
(* not down forever: an Update the worker can make succeed (its base is    *)
(* current) and that is tried again and again eventually succeeds.  The    *)
(* user and crashes get no fairness.                                       *)
(***************************************************************************)
Fairness ==
    /\ WF_vars(Worker)
    /\ SF_vars(Worker /\ rev' # rev)
    /\ WF_vars(InformerSync)
    /\ WF_vars(RateLimitedAdd)
    /\ \A r \in RunnerIds : WF_vars(Runner(r))

LiveSpec == Spec /\ Fairness

-----------------------------------------------------------------------------
TypeOK ==
    /\ obj \in Objects \cup {NoObj}
    /\ rev \in Nat
    /\ used \subseteq UIDs
    /\ cache \in Objects \cup {NoObj}
    /\ queue \in QueueStates
    /\ worker \in [phase : {"idle"}, eb : {NoObj}]
                  \cup [phase : {"oneshot"}, eb : Objects]
    /\ registry \in [UIDs -> Entries \cup {NoEntry}]
    /\ runners \in [RunnerIds -> Runners]
    /\ nextRunner \in 1 .. MaxRunners + 1
    /\ ticks \in 0 .. MaxTicks /\ edits \in 0 .. MaxEdits
    /\ crashes \in 0 .. MaxCrashes
    /\ panicked \in BOOLEAN

(***************************************************************************)
(* No double scheduling (deletePeriodicBackupRunner before every start):   *)
(* every runner goroutine that is alive and not cancelled is the one       *)
(* backupRunnerStore holds for its UID, so a UID never has two.            *)
(***************************************************************************)
RegistryTracksRunners ==
    \A r \in RunnerIds :
        Active(r) => /\ registry[runners[r].uid] # NoEntry
                     /\ registry[runners[r].uid].id = r

(* Runner ids at or above nextRunner have not been given to a goroutine.  *)
FreshRunnerIds ==
    \A r \in RunnerIds : r >= nextRunner => runners[r].phase = "none"

(* The inductive invariant behind RegistryTracksRunners.                   *)
RegistryInv == TypeOK /\ FreshRunnerIds /\ RegistryTracksRunners

(***************************************************************************)
(* Deletion safety (the backup-operator-periodic finalizer): a runner that *)
(* is alive and not cancelled belongs to the object stored under the key,  *)
(* so no runner outlives the deletion of its resource.                     *)
(***************************************************************************)
DeletionSafety ==
    \A r \in RunnerIds : Active(r) => obj # NoObj /\ obj.uid = runners[r].uid

(***************************************************************************)
(* Why no runner outlives its resource.  Update is a compare-and-swap on   *)
(* the resource version, and the API server gives every write a new one,   *)
(* so a copy the operator holds (the informer's cache, the one-shot's eb,  *)
(* a runner's latestEb) that carries the current version is the stored    *)
(* object, up to a status written in place.  Only the worker's deletion   *)
(* branch removes the finalizer, from a cached copy that is deleting, and  *)
(* it clears that UID's entry first.  Hence every entry of                 *)
(* backupRunnerStore belongs to the stored object, which has the          *)
(* finalizer, and RegistryTracksRunners gives DeletionSafety.              *)
(***************************************************************************)
SameVersion(c, d) ==
    /\ c.uid = d.uid /\ c.spec = d.spec
    /\ c.deleting = d.deleting /\ c.fin = d.fin /\ c.rv = d.rv

(* A copy is no newer than the API server, and at the current version it  *)
(* is the stored object.                                                   *)
CopyCurrent(c) ==
    c # NoObj => /\ c.rv <= rev
                 /\ c.rv = rev => obj # NoObj /\ SameVersion(c, obj)

(* The one-shot's eb and the cache, when at one version, agree.            *)
WorkerMatchesCache ==
    (worker.phase = "oneshot" /\ cache # NoObj /\ cache.rv = worker.eb.rv)
        => SameVersion(cache, worker.eb)

(* A cached copy that has the finalizer and is not deleting names the      *)
(* stored object, which still has the finalizer.                           *)
CachedFinalizerHeld ==
    (cache # NoObj /\ cache.fin /\ ~cache.deleting)
        => obj # NoObj /\ obj.uid = cache.uid /\ obj.fin

(* Every entry of backupRunnerStore belongs to the stored object, which    *)
(* has the finalizer.                                                      *)
RegistryHeld ==
    \A u \in UIDs :
        registry[u] # NoEntry => obj # NoObj /\ obj.uid = u /\ obj.fin

(* The stored object carries the latest version, and every copy the      *)
(* operator holds is current or older, agreeing with it when current.      *)
CopiesCurrent ==
    /\ obj # NoObj => obj.rv = rev
    /\ CopyCurrent(cache)
    /\ worker.phase = "oneshot" => CopyCurrent(worker.eb)
    /\ \A r \in RunnerIds : CopyCurrent(runners[r].latest)
    /\ WorkerMatchesCache

(* A deleting object keeps the finalizer: one without it is removed at    *)
(* once.                                                                   *)
DeletingKeepsFinalizer == obj # NoObj /\ obj.deleting => obj.fin

(***************************************************************************)
(* The inductive invariant behind DeletionSafety: the registry's own       *)
(* invariant, the version facts above, and every runner store entry held  *)
(* by the finalizer of the stored object.                                  *)
(***************************************************************************)
DeletionInv ==
    /\ RegistryInv
    /\ CopiesCurrent
    /\ DeletingKeepsFinalizer
    /\ CachedFinalizerHeld
    /\ RegistryHeld

(***************************************************************************)
(* The operator process never panics (the runner's re-fetch and period    *)
(* check of periodicRunnerFunc).                                           *)
(***************************************************************************)
NoPanic == ~panicked

(***************************************************************************)
(* No resource is backed up by two executions at once: a runner that is    *)
(* not cancelled and the worker's one-shot handleBackup never run for the  *)
(* same UID together.                                                      *)
(***************************************************************************)
NoOverlappingBackups ==
    \A r \in RunnerIds :
        (Active(r) /\ runners[r].phase = "backup" /\ worker.phase = "oneshot")
            => runners[r].uid # worker.eb.uid

(***************************************************************************)
(* No orphaned runner (spec, deletion safety: the entry is cancelled and   *)
(* removed, no background task remains): once the incarnation u is gone    *)
(* from the API server or marked for deletion, every periodicRunnerFunc    *)
(* goroutine started for u eventually ends, through processItem's          *)
(* deletion branch and deletePeriodicBackupRunner's cancelFunc, stale     *)
(* caches, a failed finalizer Update and dropped keys notwithstanding.     *)
(***************************************************************************)
RunnersOf(u) ==
    {r \in RunnerIds : runners[r].phase \notin {"none", "dead"}
                       /\ runners[r].uid = u}

Gone(u) == u \in used /\ ~(obj # NoObj /\ obj.uid = u /\ ~obj.deleting)

RunnersStop == \A u \in UIDs : Gone(u) ~> RunnersOf(u) = {}

(***************************************************************************)
(* A one-shot backup's status reaches the API server (spec 4.5: a lost     *)
(* status write is not fatal, the next reconciliation re-reports): a       *)
(* resource without a periodic policy and without a status eventually has *)
(* a status, or is deleted or edited.                                      *)
(***************************************************************************)
OneShotPending ==
    /\ obj # NoObj /\ ~obj.deleting
    /\ ~isPeriodicBackup(obj.spec) /\ obj.status = "none"

OneShotReported == OneShotPending ~> ~OneShotPending
=============================================================================
