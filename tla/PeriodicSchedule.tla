-------------------------- MODULE PeriodicSchedule --------------------------
(***************************************************************************)
(* When the periodic backups of one EtcdBackup resource happen, in real    *)
(* time (src/pkg/controller/backup-operator/sync.go).                      *)
(*                                                                         *)
(* processItem starts a runner when the cached spec differs from the one   *)
(* in backupRunnerStore (isChanged): it cancels the stored runner, adds    *)
(* the finalizer, computes the first ticker period from CreationTimestamp *)
(* or, once the resource has run, from Status.LastExecutionDate, and      *)
(* starts periodicRunnerFunc.  On every tick the runner re-fetches the     *)
(* resource (retrying a failed Get after a 1 s sleep), takes the backup,   *)
(* reports the status (which sets LastExecutionDate) and, when its period  *)
(* is not the spec's interval, replaces the ticker by one of the interval. *)
(*                                                                         *)
(* Time is a clock of Q steps per second.  CreationTimestamp and the      *)
(* stored LastExecutionDate are whole seconds (metav1.Time has second     *)
(* precision on the wire); the remaining time is truncated to whole       *)
(* seconds by int64(d.Seconds()).  A backup and an API call take no time. *)
(* A Go ticker keeps one undelivered tick and drops the others.  The      *)
(* informer's copy of the resource is some earlier state of the API       *)
(* server's.  BackupOperator models the same code without time; this      *)
(* module keeps one resource and what decides when it is backed up.      *)
(***************************************************************************)
EXTENDS Integers, FiniteSets

CONSTANTS
    Intervals,       \* BackupIntervalInSecond values the user sets (> 0)
    Q,               \* clock steps per second
    MaxTime,         \* bound: seconds of the behaviour
    MaxEdits,        \* bound: spec edits
    MaxCrashes,      \* bound: operator restarts
    MaxGetFailures   \* bound: failed re-fetches of a tick

(* The retry loop of the tick tries the Get retryLimit times.             *)
RetryLimit == 5

ASSUME ScheduleAssumption ==
    /\ Intervals \subseteq Nat \ {0} /\ Intervals # {}
    /\ Q \in Nat \ {0} /\ MaxTime \in Nat \ {0}
    /\ MaxEdits \in Nat /\ MaxCrashes \in Nat
    /\ MaxGetFailures \in 0 .. RetryLimit - 1

VARIABLES
    now,        \* the wall clock, in steps of 1/Q second
    interval,   \* Spec.BackupPolicy.BackupIntervalInSecond on the API server
    lastExec,   \* Status.LastExecutionDate on the API server, in seconds
    cache,      \* the informer's copy: [interval, lastExec]
    finalized,  \* the resource carries the periodic-backup finalizer
    stored,     \* the spec interval in backupRunnerStore, or NoSpec
    runners,    \* live runner goroutines (see Runner)
    panicAt,    \* when a cancelled runner's failing Gets end in a panic
    lastFire,   \* clock time of the last backup, or Never
    fireSpec,   \* the interval whose schedule that backup followed
    late,       \* that backup came after a failed re-fetch
    getFails, edits, crashes

vars == <<now, interval, lastExec, cache, finalized, stored, runners,
          panicAt, lastFire, fireSpec, late, getFails, edits, crashes>>

Created == 0

ZeroTime == -1

NoSpec == 0

Never == -1

(* A runner: its ticker's period (currentDuration, in seconds; positive,   *)
(* as time.NewTicker panics on 0) and next tick, whether a tick waits in   *)
(* the ticker's channel, how many Gets of the current tick failed and     *)
(* when its 1 s sleep ends.  Two history                                  *)
(* fields: spec, the interval whose schedule the current ticker follows,  *)
(* and stale, whether the runner was started, and has not fired since,    *)
(* from a LastExecutionDate that was not the last backup's.               *)
Runner == [period : Nat \ {0}, next : Nat, pending : BOOLEAN,
           tries : 0 .. RetryLimit, resume : Nat \cup {Never},
           spec : Intervals, stale : BOOLEAN]

Earlier(a, b) == IF a = Never THEN b
                 ELSE IF b = Never \/ a <= b THEN a ELSE b

-----------------------------------------------------------------------------
(* int64(d.Seconds()) for a duration of d clock steps: truncates toward   *)
(* zero.                                                                  *)
TruncSeconds(d) == IF d >= 0 THEN d \div Q ELSE -((-d) \div Q)

(***************************************************************************)
(* The first ticker period (sync.go:99-130), from the informer's copy:     *)
(* the whole seconds until base + interval, base being CreationTimestamp   *)
(* while LastExecutionDate IsZero and LastExecutionDate after; the full    *)
(* interval when that is not positive.                                     *)
(***************************************************************************)
(* Mutant of InitialDuration: the non-positive test made negative only.   *)
InitialDurationZero ==
    LET base == IF cache.lastExec = ZeroTime THEN Created ELSE cache.lastExec
        diff == TruncSeconds((base + cache.interval) * Q - now)
    IN  IF diff < 0 THEN cache.interval ELSE diff

InitialDuration ==
    LET base == IF cache.lastExec = ZeroTime THEN Created ELSE cache.lastExec
        diff == TruncSeconds((base + cache.interval) * Q - now)
    IN  IF diff <= 0 THEN cache.interval ELSE diff

NewRunner == [period |-> InitialDuration, next |-> now + InitialDuration * Q,
              pending |-> FALSE, tries |-> 0, resume |-> Never,
              spec |-> cache.interval,
              stale |-> IF lastFire = Never THEN cache.lastExec # ZeroTime
                        ELSE cache.lastExec # lastFire \div Q]

(***************************************************************************)
(* When the runners cancelled by deletePeriodicBackupRunner panic.  Get    *)
(* fails at once on a cancelled context: a runner asleep after k failed    *)
(* Gets fails the other RetryLimit - k, sleeping 1 s after each, then      *)
(* the drift check reads the nil BackupPolicy of the empty object Get     *)
(* returned (sync.go:250).  An idle runner with a                         *)
(* tick waiting may take the tick (select picks at random) and do the     *)
(* same, or see ctx.Done and return.                                       *)
(***************************************************************************)
Doom(r) == IF r.tries > 0 THEN {r.resume + (RetryLimit - r.tries) * Q}
           ELSE IF r.pending THEN {now + RetryLimit * Q, Never}
           ELSE {Never}

CancelRunners ==
    /\ \E p \in IF runners = {} THEN {Never} ELSE UNION {Doom(r) : r \in runners} :
            panicAt' = Earlier(panicAt, p)

(* Mutant of Reconcile: the cancel of the old runner dropped.             *)
ReconcileKeepOld ==
    /\ cache.interval # stored
    /\ panicAt' = panicAt
    /\ runners' = runners \cup {NewRunner}
    /\ stored' = cache.interval
    /\ finalized' = TRUE
    /\ UNCHANGED <<now, interval, lastExec, cache, lastFire, fireSpec, late,
                   getFails, edits, crashes>>

(* processItem's periodic branch when isChanged: cancel the stored runner, *)
(* add the finalizer if it is missing, start periodicRunnerFunc with the  *)
(* first period and store the spec.                                       *)
Reconcile ==
    /\ cache.interval # stored
    /\ CancelRunners
    /\ runners' = {NewRunner}
    /\ stored' = cache.interval
    /\ finalized' = TRUE
    /\ UNCHANGED <<now, interval, lastExec, cache, lastFire, fireSpec, late,
                   getFails, edits, crashes>>

(* The same, when the finalizer's Update fails: the old runner is already *)
(* cancelled and out of the store, and processItem returns the error.     *)
ReconcileFail ==
    /\ cache.interval # stored
    /\ ~finalized
    /\ CancelRunners
    /\ runners' = {} /\ stored' = NoSpec
    /\ UNCHANGED <<now, interval, lastExec, cache, finalized, lastFire,
                   fireSpec, late, getFails, edits, crashes>>

(* The ticker of runner r ticks; a tick already waiting is kept and this  *)
(* one dropped.                                                            *)
Tick(r) ==
    /\ now = r.next
    /\ runners' = (runners \ {r}) \cup
                    {[r EXCEPT !.pending = TRUE, !.next = @ + r.period * Q]}
    /\ UNCHANGED <<now, interval, lastExec, cache, finalized, stored, panicAt,
                   lastFire, fireSpec, late, getFails, edits, crashes>>

(***************************************************************************)
(* The tick's Get has succeeded (sync.go:236-258): handleBackup,           *)
(* reportBackupStatus, whose Update may fail and leave LastExecutionDate   *)
(* as it was, and the drift check, which replaces a ticker whose period    *)
(* is not the latest interval (its waiting tick goes with it).  r is the   *)
(* runner before the tick was taken, s after.                              *)
(***************************************************************************)
Drift(s) ==
    IF s.period # interval
    THEN [period |-> interval, next |-> now + interval * Q,
          pending |-> FALSE, tries |-> 0, resume |-> Never,
          spec |-> interval, stale |-> FALSE]
    ELSE [s EXCEPT !.tries = 0, !.resume = Never, !.stale = FALSE]

Backup(r, s) ==
    /\ lastExec' \in {now \div Q, lastExec}
    /\ lastFire' = now
    /\ fireSpec' = s.spec
    /\ late' = (r.tries > 0)
    /\ runners' = (runners \ {r}) \cup {Drift(s)}
    /\ UNCHANGED <<now, interval, cache, finalized, stored, panicAt,
                   getFails, edits, crashes>>

(* The runner takes the waiting tick and its first Get succeeds.          *)
Take(r) ==
    /\ r.pending /\ r.tries = 0
    /\ Backup(r, [r EXCEPT !.pending = FALSE])

(* The runner takes the waiting tick and its first Get fails: sleep 1 s.  *)
TakeFail(r) ==
    /\ r.pending /\ r.tries = 0
    /\ getFails < MaxGetFailures
    /\ getFails' = getFails + 1
    /\ runners' = (runners \ {r}) \cup
                    {[r EXCEPT !.pending = FALSE, !.tries = 1,
                               !.resume = now + Q]}
    /\ UNCHANGED <<now, interval, lastExec, cache, finalized, stored, panicAt,
                   lastFire, fireSpec, late, edits, crashes>>

(* After the sleep, the Get is tried again and succeeds.                  *)
Retry(r) ==
    /\ r.tries > 0 /\ now = r.resume
    /\ Backup(r, r)

(* After the sleep, the Get fails again: sleep 1 s more.                  *)
RetryFail(r) ==
    /\ r.tries > 0 /\ now = r.resume
    /\ r.tries + 1 < RetryLimit
    /\ getFails < MaxGetFailures
    /\ getFails' = getFails + 1
    /\ runners' = (runners \ {r}) \cup
                    {[r EXCEPT !.tries = @ + 1, !.resume = now + Q]}
    /\ UNCHANGED <<now, interval, lastExec, cache, finalized, stored, panicAt,
                   lastFire, fireSpec, late, edits, crashes>>

(* The user edits the interval on the API server.                         *)
Edit ==
    /\ edits < MaxEdits
    /\ \E i \in Intervals \ {interval} : interval' = i
    /\ edits' = edits + 1
    /\ UNCHANGED <<now, lastExec, cache, finalized, stored, runners, panicAt,
                   lastFire, fireSpec, late, getFails, crashes>>

(* The informer catches up with the API server.                           *)
Sync ==
    /\ cache # [interval |-> interval, lastExec |-> lastExec]
    /\ cache' = [interval |-> interval, lastExec |-> lastExec]
    /\ UNCHANGED <<now, interval, lastExec, finalized, stored, runners,
                   panicAt, lastFire, fireSpec, late, getFails, edits, crashes>>

(* The process restarts: runners and backupRunnerStore are gone and the   *)
(* informer lists the resource afresh.                                    *)
Restart ==
    /\ runners' = {} /\ stored' = NoSpec /\ panicAt' = Never
    /\ cache' = [interval |-> interval, lastExec |-> lastExec]
    /\ UNCHANGED <<now, interval, lastExec, finalized, lastFire, fireSpec,
                   late, getFails, edits>>

Crash ==
    /\ crashes < MaxCrashes
    /\ crashes' = crashes + 1
    /\ Restart

(* A cancelled runner's last Get has failed: the operator panics.         *)
Panic ==
    /\ now = panicAt
    /\ crashes' = crashes
    /\ Restart

(* Time passes, but never beyond a tick, a waiting tick, the end of a     *)
(* sleep or a panic: goroutines that are ready run at once.               *)
Advance ==
    /\ now < MaxTime * Q
    /\ \A r \in runners :
          /\ now < r.next
          /\ ~(r.pending /\ r.tries = 0)
          /\ r.tries > 0 => now < r.resume
    /\ panicAt = Never \/ now < panicAt
    /\ now' = now + 1
    /\ UNCHANGED <<interval, lastExec, cache, finalized, stored, runners,
                   panicAt, lastFire, fireSpec, late, getFails, edits, crashes>>

(* The resource is created during second 0 of the clock, never run.       *)
Init ==
    /\ now \in 0 .. Q - 1
    /\ interval \in Intervals
    /\ lastExec = ZeroTime
    /\ cache = [interval |-> interval, lastExec |-> lastExec]
    /\ finalized = FALSE
    /\ stored = NoSpec /\ runners = {} /\ panicAt = Never
    /\ lastFire = Never /\ fireSpec = NoSpec /\ late = FALSE
    /\ getFails = 0 /\ edits = 0 /\ crashes = 0

Next ==
    \/ Reconcile
    \/ ReconcileFail
    \/ \E r \in runners : Tick(r) \/ Take(r) \/ TakeFail(r)
                          \/ Retry(r) \/ RetryFail(r)
    \/ Edit
    \/ Sync
    \/ Crash
    \/ Panic
    \/ Advance

Spec == Init /\ [][Next]_vars

-----------------------------------------------------------------------------
(* Every variable keeps its type.                                         *)
ScheduleTypeOK ==
    /\ now \in 0 .. MaxTime * Q
    /\ interval \in Intervals
    /\ lastExec \in {ZeroTime} \cup (0 .. MaxTime)
    /\ cache \in [interval : Intervals, lastExec : {ZeroTime} \cup (0 .. MaxTime)]
    /\ finalized \in BOOLEAN
    /\ stored \in {NoSpec} \cup Intervals
    /\ runners \subseteq Runner
    /\ panicAt \in {Never} \cup Nat
    /\ lastFire \in {Never} \cup (0 .. MaxTime * Q)
    /\ fireSpec \in {NoSpec} \cup Intervals
    /\ late \in BOOLEAN
    /\ getFails \in 0 .. MaxGetFailures
    /\ edits \in 0 .. MaxEdits /\ crashes \in 0 .. MaxCrashes

(***************************************************************************)
(* Restarts, spec edits, lost status writes, a stale informer copy and the *)
(* two truncations to whole seconds never make the operator back a         *)
(* resource up again sooner than the smaller of the intervals whose        *)
(* schedules the last backup and this one follow, less 2 s, unless the     *)
(* last backup was itself late after a failed re-fetch (the ticker kept    *)
(* its schedule while the runner slept) or this is the first backup of a   *)
(* runner started from a LastExecutionDate that was not the last backup's *)
(* (its status write was lost or the informer had not seen it).           *)
(***************************************************************************)
BackupSpacing ==
    [][\A r \in runners :
          (Take(r) \/ Retry(r)) =>
              \/ lastFire = Never
              \/ late
              \/ r.stale
              \/ now - lastFire > (IF fireSpec < r.spec THEN fireSpec
                                   ELSE r.spec) * Q - 2 * Q]_vars

(***************************************************************************)
(* Spec 4.3/5 (initial-fire alignment): a runner started for a resource    *)
(* that never ran, before CreationTimestamp + interval, first fires at     *)
(* that boundary, not a full interval later.                              *)
(***************************************************************************)
FirstFireOnBoundary ==
    [][(Reconcile /\ cache.lastExec = ZeroTime
                  /\ now < (Created + cache.interval) * Q)
         => \A r \in runners' : r.next <= (Created + cache.interval) * Q]_vars
=============================================================================
