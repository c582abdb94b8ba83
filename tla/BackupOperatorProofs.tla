------------------------ MODULE BackupOperatorProofs ------------------------
(***************************************************************************)
(* Proofs about BackupOperator for every value of its constants: the type  *)
(* invariant, and that backupRunnerStore holds every live, uncancelled     *)
(* runner goroutine (no double scheduling of a UID).                       *)
(***************************************************************************)
EXTENDS BackupOperator, TLAPS

(* The numeric bounds are natural numbers.                                *)
LEMMA BoundsNat ==
    /\ Intervals \subseteq Nat
    /\ MaxRetries \in Nat /\ MaxRunners \in Nat /\ MaxTicks \in Nat
    /\ MaxEdits \in Nat /\ MaxCrashes \in Nat
  BY ConstAssumption

USE BoundsNat

(* Every queue operation keeps the queue's state well typed.             *)
LEMMA QAddType ==
    ASSUME NEW q \in QueueStates PROVE QAdd(q) \in QueueStates
  <1>1. CASE q.dirty
    BY <1>1 DEF QAdd
  <1>2. CASE ~q.dirty
    BY <1>2 DEF QAdd, QueueStates
  <1>3. QED
    BY <1>1, <1>2

LEMMA HandleErrType ==
    ASSUME NEW q \in QueueStates, NEW ok \in BOOLEAN
    PROVE  handleErr(q, ok) \in QueueStates
  <1>1. CASE ok \/ q.requeues >= MaxRetries
    BY <1>1 DEF handleErr, QueueStates
  <1>2. CASE ~(ok \/ q.requeues >= MaxRetries)
    <2>1. ~ok /\ q.requeues < MaxRetries
      BY <1>2 DEF QueueStates
    <2>2. q.requeues + 1 \in 0 .. MaxRetries
      BY <2>1 DEF QueueStates
    <2>3. [q EXCEPT !.waiting = TRUE, !.requeues = q.requeues + 1] \in QueueStates
      BY <2>2 DEF QueueStates
    <2>4. QED
      BY <1>2, <2>3 DEF handleErr
  <1>3. QED
    BY <1>1, <1>2

LEMMA QDoneType ==
    ASSUME NEW q \in QueueStates PROVE QDone(q) \in QueueStates
  BY DEF QDone, QueueStates

(* The queue after Get, after Get + handleErr + Done, and after the rate   *)
(* limiter's delay.                                                        *)
LEMMA QueueType ==
    ASSUME NEW q \in QueueStates, NEW ok \in BOOLEAN
    PROVE  /\ QAdd(q) \in QueueStates
           /\ QDone(handleErr(q, ok)) \in QueueStates
           /\ [q EXCEPT !.queued = FALSE, !.dirty = FALSE,
                        !.processing = TRUE] \in QueueStates
           /\ QDone(handleErr([q EXCEPT !.queued = FALSE, !.dirty = FALSE,
                                        !.processing = TRUE], ok)) \in QueueStates
           /\ QAdd([q EXCEPT !.waiting = FALSE]) \in QueueStates
  <1>1. [q EXCEPT !.queued = FALSE, !.dirty = FALSE, !.processing = TRUE]
          \in QueueStates
    BY DEF QueueStates
  <1>2. [q EXCEPT !.waiting = FALSE] \in QueueStates
    BY DEF QueueStates
  <1>3. QED
    BY <1>1, <1>2, QAddType, HandleErrType, QDoneType

(* Commit leaves a well-typed object, or none.                             *)
LEMMA CommitType ==
    ASSUME NEW new \in Objects, rev \in Nat, Commit(new)
    PROVE  obj' \in Objects \cup {NoObj} /\ rev' \in Nat
  BY DEF Commit, Objects

(* The runners a restart leaves, and a returned goroutine, are typed.      *)
LEMMA DeadType ==
    ASSUME NEW rr \in Runners
    PROVE  Dead(rr) \in Runners
  BY DEF Dead, Runners, Phases

(* Create: the API server stores a fresh object.                          *)
LEMMA CreateType ==
    ASSUME TypeOK, NEW u \in UIDs, NEW s \in Specs, Create(u, s)
    PROVE  TypeOK'
  <1>1. rev \in Nat /\ used \subseteq UIDs
    BY DEF TypeOK
  <1>2. /\ obj' = [uid |-> u, spec |-> s, deleting |-> FALSE, fin |-> FALSE,
                   status |-> "none", rv |-> rev + 1]
        /\ rev' = rev + 1 /\ used' = used \cup {u}
        /\ UNCHANGED <<cache, queue, worker, registry, runners, nextRunner,
                       ticks, edits, crashes, panicked>>
    BY DEF Create
  <1>3. obj' \in Objects
    BY <1>1, <1>2 DEF Objects, Statuses
  <1>4. QED
    BY <1>1, <1>2, <1>3 DEF TypeOK

(* The record updates the operations make keep objects and runners typed. *)
LEMMA CancelType ==
    ASSUME NEW rr \in Runners PROVE [rr EXCEPT !.cancelled = TRUE] \in Runners
  BY DEF Runners

LEMMA EditType ==
    ASSUME NEW o \in Objects, NEW s \in Specs, NEW n \in Nat
    PROVE  [o EXCEPT !.spec = s, !.rv = n] \in Objects
  BY DEF Objects

LEMMA ReportType ==
    ASSUME NEW rr \in Runners, NEW res \in {"ok", "failed"}
    PROVE  [rr EXCEPT !.phase = "report", !.result = res] \in Runners
  BY DEF Runners, Phases

(* Every spec's interval is a natural number.                             *)
LEMMA SpecInterval ==
    ASSUME NEW sp \in Specs PROVE sp.interval \in Nat
  <1>1. CASE sp = [hasPolicy |-> FALSE, interval |-> 0]
    BY <1>1
  <1>2. CASE sp \in [hasPolicy : {TRUE}, interval : Intervals]
    <2>1. sp.interval \in Intervals
      BY <1>2
    <2>2. QED
      BY <2>1, BoundsNat
  <1>3. QED
    BY <1>1, <1>2 DEF Specs

LEMMA FinType ==
    ASSUME NEW o \in Objects PROVE [o EXCEPT !.fin = TRUE] \in Objects
  BY DEF Objects

(* EditSpec: the user changes the spec of a live object.                   *)
LEMMA EditSpecType ==
    ASSUME TypeOK, NEW s \in Specs, EditSpec(s)
    PROVE  TypeOK'
  <1>1. obj \in Objects /\ rev \in Nat /\ edits \in 0 .. MaxEdits
    BY DEF TypeOK, EditSpec
  <1>2. /\ obj' = [obj EXCEPT !.spec = s, !.rv = rev + 1]
        /\ rev' = rev + 1 /\ edits' = edits + 1 /\ edits < MaxEdits
        /\ UNCHANGED <<used, cache, queue, worker, registry, runners,
                       nextRunner, ticks, crashes, panicked>>
    BY DEF EditSpec
  <1>3. obj' \in Objects
    <2>1. rev + 1 \in Nat
      BY <1>1
    <2>2. [obj EXCEPT !.spec = s, !.rv = rev + 1] \in Objects
      BY <1>1, <2>1, EditType
    <2>3. QED
      BY <1>2, <2>2
  <1>4. edits' \in 0 .. MaxEdits
    BY <1>1, <1>2
  <1>5. QED
    BY <1>1, <1>2, <1>3, <1>4 DEF TypeOK

(* deletePeriodicBackupRunner only sets the cancelled flag of a runner.   *)
LEMMA DeleteRunnerType ==
    ASSUME runners \in [RunnerIds -> Runners],
           registry \in [UIDs -> Entries \cup {NoEntry}],
           NEW u \in UIDs
    PROVE  deletePeriodicBackupRunner(u) \in [RunnerIds -> Runners]
  <1>1. CASE registry[u] = NoEntry
    BY <1>1 DEF deletePeriodicBackupRunner
  <1>2. CASE registry[u] # NoEntry
    <2>1. registry[u].id \in RunnerIds
      BY <1>2 DEF Entries
    <2>2. [runners[registry[u].id] EXCEPT !.cancelled = TRUE] \in Runners
      BY <2>1, CancelType
    <2>3. QED
      BY <1>2, <2>1, <2>2 DEF deletePeriodicBackupRunner
  <1>3. QED
    BY <1>1, <1>2

(* A restart leaves well-typed runners, registry, worker, cache, queue.   *)
LEMMA RestartType ==
    ASSUME TypeOK, Restart
    PROVE  /\ runners' \in [RunnerIds -> Runners]
           /\ registry' \in [UIDs -> Entries \cup {NoEntry}]
           /\ worker' \in [phase : {"idle"}, eb : {NoObj}]
                           \cup [phase : {"oneshot"}, eb : Objects]
           /\ cache' \in Objects \cup {NoObj}
           /\ queue' \in QueueStates
  <1>1. runners \in [RunnerIds -> Runners] /\ obj \in Objects \cup {NoObj}
    BY DEF TypeOK
  <1>2. \A r \in RunnerIds :
           (IF runners[r].phase = "none" THEN runners[r]
            ELSE Dead(runners[r])) \in Runners
    BY <1>1, DeadType
  <1>3. runners' \in [RunnerIds -> Runners]
    BY <1>2 DEF Restart
  <1>4. queue' \in QueueStates
    <2>1. (obj # NoObj) \in BOOLEAN
      BY Zenon
    <2>2. QED
      BY <2>1 DEF Restart, QueueStates
  <1>5. QED
    BY <1>1, <1>3, <1>4 DEF Restart

(* The initial state is well typed.                                      *)
LEMMA InitType == Init => TypeOK
  <1> SUFFICES ASSUME Init PROVE TypeOK
    OBVIOUS
  <1>1. queue \in QueueStates
    BY DEF Init, QueueStates
  <1>2. (CHOOSE u \in UIDs : TRUE) \in UIDs
    BY ConstAssumption
  <1>3. runners \in [RunnerIds -> Runners]
    BY <1>2 DEF Init, Runners, Phases
  <1>4. registry \in [UIDs -> Entries \cup {NoEntry}]
    BY DEF Init
  <1>5. /\ obj = NoObj /\ rev = 0 /\ used = {} /\ cache = NoObj
        /\ worker = [phase |-> "idle", eb |-> NoObj]
        /\ nextRunner = 1 /\ ticks = 0 /\ edits = 0 /\ crashes = 0
        /\ panicked = FALSE
    BY DEF Init
  <1>6. panicked \in BOOLEAN
    BY <1>5, Zenon
  <1>7. QED
    BY <1>1, <1>3, <1>4, <1>5, <1>6 DEF TypeOK

(* Every step of Next keeps the state well typed.                        *)
LEMMA TypeNext == TypeOK /\ [Next]_vars => TypeOK'
  <1> SUFFICES ASSUME TypeOK, [Next]_vars PROVE TypeOK'
    OBVIOUS
  <1> USE DEF TypeOK
  <1>1. ASSUME NEW u \in UIDs, NEW s \in Specs, Create(u, s) PROVE TypeOK'
    BY <1>1, CreateType
  <1>2. ASSUME NEW s \in Specs, EditSpec(s) PROVE TypeOK'
    BY <1>2, EditSpecType
  <1>3. CASE Delete
    <2>1. obj \in Objects /\ Commit([obj EXCEPT !.deleting = TRUE])
      BY <1>3 DEF Delete
    <2>2. [obj EXCEPT !.deleting = TRUE] \in Objects
      BY <2>1 DEF Objects
    <2>3. QED
      BY <1>3, <2>1, <2>2, CommitType DEF Delete
  <1>4. CASE InformerSync
    BY <1>4, QueueType DEF InformerSync
  <1>5. CASE RateLimitedAdd
    BY <1>5, QueueType DEF RateLimitedAdd
  <1>6. CASE Crash
    <2>1. /\ Restart /\ crashes < MaxCrashes /\ crashes' = crashes + 1
          /\ UNCHANGED <<obj, rev, used, nextRunner, ticks, edits, panicked>>
      BY <1>6 DEF Crash
    <2>2. QED
      BY <2>1, RestartType
  <1>7. CASE ProcessAbsent
    BY <1>7, QueueType DEF ProcessAbsent, Got
  <1>8. CASE ProcessDeletion
    <2>1. cache \in Objects
      BY <1>8 DEF ProcessDeletion
    <2>2. removeFinalizerOfPeriodicBackup(cache) \in Objects
      BY <2>1 DEF removeFinalizerOfPeriodicBackup, Objects
    <2>3. deletePeriodicBackupRunner(cache.uid) \in [RunnerIds -> Runners]
      <3>1. cache.uid \in UIDs
        BY <2>1 DEF Objects
      <3>2. QED
        BY <3>1, DeleteRunnerType
    <2>4. obj' \in Objects \cup {NoObj} /\ rev' \in Nat
      BY <1>8, <2>2, CommitType DEF ProcessDeletion
    <2>5. registry' \in [UIDs -> Entries \cup {NoEntry}]
      BY <1>8, <2>1 DEF ProcessDeletion, Objects
    <2>6. QED
      BY <1>8, <2>3, <2>4, <2>5, QueueType DEF ProcessDeletion, Got
  <1>9. CASE ProcessTerminal
    BY <1>9, QueueType DEF ProcessTerminal, Got
  <1>10. CASE ProcessPeriodic
    <2> DEFINE stopped == deletePeriodicBackupRunner(cache.uid)
               New(d) == [uid |-> cache.uid, phase |-> "idle",
                          cancelled |-> FALSE, dur |-> d, latest |-> NoObj,
                          result |-> "ok"]
               Start ==
                 /\ nextRunner \in RunnerIds
                 /\ \E d \in InitialDurations(cache.spec) :
                      runners' = [stopped EXCEPT ![nextRunner] = New(d)]
                 /\ nextRunner' = nextRunner + 1
                 /\ registry' = [registry EXCEPT ![cache.uid] =
                                    [id |-> nextRunner, spec |-> cache.spec]]
                 /\ queue' = QDone(handleErr(Got, TRUE))
    <2>1. /\ cache \in Objects
          /\ \/ Start /\ UNCHANGED <<obj, rev>>
             \/ Commit([cache EXCEPT !.fin = TRUE]) /\ Start
             \/ /\ runners' = stopped
                /\ registry' = [registry EXCEPT ![cache.uid] = NoEntry]
                /\ queue' = QDone(handleErr(Got, FALSE))
                /\ UNCHANGED <<obj, rev, nextRunner>>
          /\ UNCHANGED <<used, cache, worker, ticks, edits, crashes, panicked>>
      BY <1>10 DEF ProcessPeriodic
    <2>2. cache.spec \in Specs /\ cache.uid \in UIDs
      BY <2>1 DEF Objects
    <2>3. stopped \in [RunnerIds -> Runners]
      BY <2>2, DeleteRunnerType
    <2>4. ASSUME Start
          PROVE  /\ runners' \in [RunnerIds -> Runners]
                 /\ nextRunner' \in 1 .. MaxRunners + 1
                 /\ registry' \in [UIDs -> Entries \cup {NoEntry}]
                 /\ queue' \in QueueStates
      <3>1. PICK d \in InitialDurations(cache.spec) :
              runners' = [stopped EXCEPT ![nextRunner] = New(d)]
        BY <2>4
      <3>2. d \in Nat
        BY <2>2, SpecInterval DEF InitialDurations
      <3>3. New(d) \in Runners
        BY <2>2, <3>2 DEF Runners, Phases
      <3>4. [id |-> nextRunner, spec |-> cache.spec] \in Entries
        BY <2>2, <2>4 DEF Entries
      <3>5. runners' \in [RunnerIds -> Runners]
        BY <2>3, <2>4, <3>1, <3>3
      <3>6. nextRunner' \in 1 .. MaxRunners + 1
        BY <2>4 DEF RunnerIds
      <3>7. registry' \in [UIDs -> Entries \cup {NoEntry}]
        BY <2>2, <2>4, <3>4
      <3>8. queue' \in QueueStates
        BY <2>4, QueueType DEF Got
      <3>9. QED
        BY <3>5, <3>6, <3>7, <3>8
    <2>5. CASE Start /\ UNCHANGED <<obj, rev>>
      BY <2>1, <2>4, <2>5
    <2>6. CASE Commit([cache EXCEPT !.fin = TRUE]) /\ Start
      <3>1. [cache EXCEPT !.fin = TRUE] \in Objects
        BY <2>1, FinType
      <3>2. QED
        BY <2>1, <2>4, <2>6, <3>1, CommitType
    <2>7. CASE /\ runners' = stopped
               /\ registry' = [registry EXCEPT ![cache.uid] = NoEntry]
               /\ queue' = QDone(handleErr(Got, FALSE))
               /\ UNCHANGED <<obj, rev, nextRunner>>
      BY <2>1, <2>2, <2>3, <2>7, QueueType DEF Got
    <2>8. QED
      BY <2>1, <2>5, <2>6, <2>7
  <1>11. CASE ProcessUnchanged
    BY <1>11, QueueType DEF ProcessUnchanged, Got
  <1>12. CASE ProcessOneShot
    BY <1>12, QueueType DEF ProcessOneShot, Got
  <1>13. CASE OneShotFinish
    <2>1. worker.eb \in Objects
      BY <1>13 DEF OneShotFinish
    <2>2. \A res \in handleBackup(FALSE) :
             reportBackupStatus(worker.eb, res) \in Objects
      BY <2>1 DEF reportBackupStatus, handleBackup, Objects, Statuses
    <2>3. obj' \in Objects \cup {NoObj} /\ rev' \in Nat
      BY <1>13, <2>2, CommitType DEF OneShotFinish
    <2>4. cache' \in Objects \cup {NoObj}
      BY <1>13, <2>2 DEF OneShotFinish
    <2>5. QED
      BY <1>13, <2>3, <2>4, QueueType DEF OneShotFinish
  <1>14. ASSUME NEW r \in RunnerIds, RunnerExit(r) PROVE TypeOK'
    BY <1>14, DeadType DEF RunnerExit
  <1>15. ASSUME NEW r \in RunnerIds, RunnerTick(r) PROVE TypeOK'
    BY <1>15 DEF RunnerTick, Runners, Phases
  <1>16. ASSUME NEW r \in RunnerIds, RunnerBackup(r) PROVE TypeOK'
    <2>1. runners[r] \in Runners
      OBVIOUS
    <2>2. PICK res \in handleBackup(runners[r].cancelled) :
            runners' = [runners EXCEPT ![r].phase = "report",
                                       ![r].result = res]
      BY <1>16 DEF RunnerBackup
    <2>3. res \in {"ok", "failed"}
      BY DEF handleBackup
    <2>4. [runners[r] EXCEPT !.phase = "report", !.result = res] \in Runners
      BY <2>1, <2>3, ReportType
    <2>5. runners' \in [RunnerIds -> Runners]
      BY <2>2, <2>4
    <2>6. UNCHANGED <<obj, rev, used, cache, queue, worker, registry,
                      nextRunner, ticks, edits, crashes, panicked>>
      BY <1>16 DEF RunnerBackup
    <2>7. QED
      BY <2>5, <2>6
  <1>17. ASSUME NEW r \in RunnerIds, RunnerReport(r) PROVE TypeOK'
    <2>1. runners[r].latest \in Objects =>
            reportBackupStatus(runners[r].latest, runners[r].result) \in Objects
      BY DEF reportBackupStatus, Runners, Objects, Statuses
    <2>2. obj' \in Objects \cup {NoObj} /\ rev' \in Nat
      BY <1>17, <2>1, CommitType DEF RunnerReport, Runners
    <2>3. QED
      BY <1>17, <2>2 DEF RunnerReport, Runners, Phases
  <1>18. ASSUME NEW r \in RunnerIds, RunnerDrift(r) PROVE TypeOK'
    <2>1. CASE DriftPanics(r)
      <3>1. /\ Restart /\ panicked' = TRUE
            /\ UNCHANGED <<obj, rev, used, nextRunner, ticks, edits, crashes>>
        BY <1>18, <2>1 DEF RunnerDrift
      <3>2. panicked' \in BOOLEAN
        BY <3>1, Zenon
      <3>3. QED
        BY <3>1, <3>2, RestartType
    <2>2. CASE ~DriftPanics(r)
      <3>1. runners[r].latest \in Objects
        BY <2>2 DEF DriftPanics, Runners
      <3>2. runners[r].latest.spec.interval \in Nat
        <4>1. runners[r].latest.spec \in Specs
          BY <3>1 DEF Objects
        <4>2. QED
          BY <4>1, SpecInterval
      <3>3. QED
        BY <1>18, <2>2, <3>2 DEF RunnerDrift, Runners, Phases
    <2>3. QED
      BY <2>1, <2>2
  <1>19. CASE UNCHANGED vars
    BY <1>19 DEF vars
  <1>20. CASE Resync
    BY <1>20, QueueType DEF Resync
  <1>21. QED
    BY <1>1, <1>2, <1>3, <1>4, <1>5, <1>6, <1>7, <1>8, <1>9, <1>10, <1>11,
       <1>12, <1>13, <1>14, <1>15, <1>16, <1>17, <1>18, <1>19, <1>20
    DEF Next, Environment, Worker, Runner

(***************************************************************************)
(* The type invariant: every variable of the operator keeps the type the  *)
(* Go code gives it (queue counters within maxRetries, runner ids within  *)
(* the pool, the worker holding an object exactly while it runs a         *)
(* one-shot backup).                                                      *)
(***************************************************************************)
THEOREM TypeCorrect == Spec => []TypeOK
  BY InitType, TypeNext, PTL DEF Spec

-----------------------------------------------------------------------------
(***************************************************************************)
(* backupRunnerStore.  The lemmas below take the registry invariant        *)
(* through the three kinds of step that touch runners or the store:        *)
(* deletePeriodicBackupRunner, the start of a runner, and a runner's own   *)
(* step; a restart leaves no live runner at all.                           *)
(***************************************************************************)

(* A goroutine that returns keeps its UID and is no longer alive.          *)
LEMMA DeadFields ==
    ASSUME NEW rr \in Runners
    PROVE  Dead(rr).phase = "dead" /\ Dead(rr).uid = rr.uid
  BY DEF Dead, Runners

(* Cancelling a runner's context changes nothing else about it.          *)
LEMMA CancelFields ==
    ASSUME NEW rr \in Runners
    PROVE  LET c == [rr EXCEPT !.cancelled = TRUE] IN
           c.phase = rr.phase /\ c.uid = rr.uid /\ c.cancelled
  BY DEF Runners

(* Steps that leave runners, the store and the id counter alone.          *)
LEMMA FrameRegistry ==
    ASSUME FreshRunnerIds, RegistryTracksRunners,
           UNCHANGED <<registry, runners, nextRunner>>
    PROVE  FreshRunnerIds' /\ RegistryTracksRunners'
  BY DEF FreshRunnerIds, RegistryTracksRunners, Active

(* After a restart no runner is alive, and unused ids stay unused.        *)
LEMMA RestartRegistry ==
    ASSUME TypeOK, FreshRunnerIds, Restart, nextRunner' = nextRunner
    PROVE  FreshRunnerIds' /\ RegistryTracksRunners'
  <1>1. ASSUME NEW r \in RunnerIds
        PROVE  /\ runners'[r].phase \in {"none", "dead"}
               /\ runners[r].phase = "none" => runners'[r] = runners[r]
    <2>1. runners[r] \in Runners
      BY DEF TypeOK
    <2>2. CASE runners[r].phase = "none"
      BY <2>2 DEF Restart
    <2>3. CASE runners[r].phase # "none"
      BY <2>1, <2>3, DeadFields DEF Restart
    <2>4. QED
      BY <2>2, <2>3
  <1>2. FreshRunnerIds'
    BY <1>1 DEF FreshRunnerIds
  <1>3. RegistryTracksRunners'
    BY <1>1 DEF RegistryTracksRunners, Active
  <1>4. QED
    BY <1>2, <1>3

(* deletePeriodicBackupRunner(u) cancels the one runner stored for u, so   *)
(* a runner it leaves alive was alive before and serves another UID.       *)
LEMMA StoppedFacts ==
    ASSUME TypeOK, RegistryTracksRunners, NEW u \in UIDs, NEW r \in RunnerIds
    PROVE  LET st == deletePeriodicBackupRunner(u) IN
           /\ st[r].phase = runners[r].phase
           /\ st[r].uid = runners[r].uid
           /\ (st[r].phase \notin {"none", "dead"} /\ ~st[r].cancelled)
                  => Active(r) /\ runners[r].uid # u
  <1>1. runners[r] \in Runners
    BY DEF TypeOK
  <1>2. CASE registry[u] = NoEntry
    BY <1>2 DEF deletePeriodicBackupRunner, RegistryTracksRunners, Active
  <1>3. CASE registry[u] # NoEntry
    <2>1. registry[u].id \in RunnerIds
      BY <1>3 DEF TypeOK, Entries
    <2>2. CASE r = registry[u].id
      <3>1. deletePeriodicBackupRunner(u)[r]
              = [runners[r] EXCEPT !.cancelled = TRUE]
        BY <1>3, <2>2 DEF deletePeriodicBackupRunner, TypeOK
      <3>2. QED
        BY <1>1, <3>1, CancelFields
    <2>3. CASE r # registry[u].id
      BY <1>3, <2>1, <2>3
      DEF deletePeriodicBackupRunner, RegistryTracksRunners, Active
    <2>4. QED
      BY <2>2, <2>3
  <1>4. QED
    BY <1>2, <1>3

(* ProcessDeletion, and ProcessPeriodic when adding the finalizer fails:   *)
(* the stored runner is cancelled and its entry deleted.                   *)
LEMMA StopRegistry ==
    ASSUME TypeOK, FreshRunnerIds, RegistryTracksRunners, NEW u \in UIDs,
           runners' = deletePeriodicBackupRunner(u),
           registry' = [registry EXCEPT ![u] = NoEntry],
           nextRunner' = nextRunner
    PROVE  FreshRunnerIds' /\ RegistryTracksRunners'
  <1>1. FreshRunnerIds'
    BY StoppedFacts DEF FreshRunnerIds
  <1>2. ASSUME NEW r \in RunnerIds, Active(r)'
        PROVE  /\ registry'[runners'[r].uid] # NoEntry
               /\ registry'[runners'[r].uid].id = r
    <2>1. Active(r) /\ runners[r].uid # u /\ runners'[r].uid = runners[r].uid
      BY <1>2, StoppedFacts DEF Active
    <2>2. runners[r].uid \in UIDs
      BY DEF TypeOK, Runners
    <2>3. registry'[runners[r].uid] = registry[runners[r].uid]
      BY <2>1, <2>2 DEF TypeOK
    <2>4. QED
      BY <2>1, <2>3 DEF RegistryTracksRunners
  <1>3. QED
    BY <1>1, <1>2 DEF RegistryTracksRunners

(* ProcessPeriodic: deletePeriodicBackupRunner, then a new goroutine under *)
(* the next id, stored for its UID.                                        *)
LEMMA StartRegistry ==
    ASSUME TypeOK, FreshRunnerIds, RegistryTracksRunners, NEW u \in UIDs,
           NEW sp \in Specs, NEW nr \in Runners, nr.uid = u,
           nextRunner \in RunnerIds,
           runners' = [deletePeriodicBackupRunner(u) EXCEPT ![nextRunner] = nr],
           registry' = [registry EXCEPT ![u] = [id |-> nextRunner, spec |-> sp]],
           nextRunner' = nextRunner + 1
    PROVE  FreshRunnerIds' /\ RegistryTracksRunners'
  <1> DEFINE st == deletePeriodicBackupRunner(u)
  <1>1. st \in [RunnerIds -> Runners]
    BY DeleteRunnerType DEF TypeOK
  <1>2. ASSUME NEW r \in RunnerIds, r # nextRunner PROVE runners'[r] = st[r]
    BY <1>1, <1>2
  <1>3. FreshRunnerIds'
    <2>1. SUFFICES ASSUME NEW r \in RunnerIds, r >= nextRunner + 1
                   PROVE  runners'[r].phase = "none"
      BY DEF FreshRunnerIds
    <2>2. r # nextRunner /\ r >= nextRunner
      BY <2>1 DEF RunnerIds
    <2>3. QED
      BY <2>2, <1>2, StoppedFacts DEF FreshRunnerIds
  <1>4. ASSUME NEW r \in RunnerIds, Active(r)'
        PROVE  /\ registry'[runners'[r].uid] # NoEntry
               /\ registry'[runners'[r].uid].id = r
    <2>1. CASE r = nextRunner
      <3>1. runners'[r] = nr
        BY <1>1, <2>1
      <3>2. [id |-> nextRunner, spec |-> sp] # NoEntry
        <4>1. [id |-> nextRunner, spec |-> sp] \in Entries
          BY DEF Entries
        <4>2. QED
          BY <4>1, NoValueAssumption
      <3>3. QED
        BY <2>1, <3>1, <3>2 DEF TypeOK
    <2>2. CASE r # nextRunner
      <3>1. Active(r) /\ runners[r].uid # u /\ runners'[r].uid = runners[r].uid
        BY <1>2, <1>4, <2>2, StoppedFacts DEF Active
      <3>2. runners[r].uid \in UIDs
        BY DEF TypeOK, Runners
      <3>3. registry'[runners[r].uid] = registry[runners[r].uid]
        BY <3>1, <3>2 DEF TypeOK
      <3>4. QED
        BY <3>1, <3>3 DEF RegistryTracksRunners
    <2>3. QED
      BY <2>1, <2>2
  <1>5. QED
    BY <1>3, <1>4 DEF RegistryTracksRunners

(* A runner's own step: it keeps its UID, does not revive, and is alive    *)
(* afterwards only if it was alive before.                                 *)
LEMMA RunnerStepRegistry ==
    ASSUME FreshRunnerIds, RegistryTracksRunners, NEW r \in RunnerIds,
           runners[r].phase # "none",
           \A q \in RunnerIds : q # r => runners'[q] = runners[q],
           runners'[r].phase # "none", runners'[r].uid = runners[r].uid,
           Active(r)' => Active(r),
           UNCHANGED <<registry, nextRunner>>
    PROVE  FreshRunnerIds' /\ RegistryTracksRunners'
  <1>1. FreshRunnerIds'
    BY DEF FreshRunnerIds
  <1>2. ASSUME NEW q \in RunnerIds, Active(q)'
        PROVE  /\ registry'[runners'[q].uid] # NoEntry
               /\ registry'[runners'[q].uid].id = q
    <2>1. CASE q = r
      BY <1>2, <2>1 DEF RegistryTracksRunners
    <2>2. CASE q # r
      <3>1. runners'[q] = runners[q]
        BY <2>2
      <3>2. Active(q)
        BY <1>2, <3>1 DEF Active
      <3>3. QED
        BY <3>1, <3>2 DEF RegistryTracksRunners
    <2>3. QED
      BY <2>1, <2>2
  <1>3. QED
    BY <1>1, <1>2 DEF RegistryTracksRunners

(* The step relation keeps the registry invariant.                         *)
LEMMA RegistryNext == RegistryInv /\ [Next]_vars => RegistryInv'
  <1> SUFFICES ASSUME RegistryInv, [Next]_vars
               PROVE  FreshRunnerIds' /\ RegistryTracksRunners'
    BY TypeNext DEF RegistryInv
  <1> USE DEF RegistryInv
  <1>1. CASE \/ \E u \in UIDs, s \in Specs : Create(u, s)
             \/ \E s \in Specs : EditSpec(s)
             \/ Delete \/ InformerSync \/ RateLimitedAdd \/ Resync
             \/ ProcessAbsent \/ ProcessTerminal \/ ProcessUnchanged
             \/ ProcessOneShot \/ OneShotFinish \/ UNCHANGED vars
    <2>1. UNCHANGED <<registry, runners, nextRunner>>
      BY <1>1 DEF Create, EditSpec, Delete, InformerSync, RateLimitedAdd,
                  Resync,
                  ProcessAbsent, ProcessTerminal, ProcessUnchanged,
                  ProcessOneShot, OneShotFinish, vars
    <2>2. QED
      BY <2>1, FrameRegistry
  <1>2. CASE Crash
    BY <1>2, RestartRegistry DEF Crash
  <1>3. CASE ProcessDeletion
    <2>1. cache.uid \in UIDs
      BY <1>3 DEF ProcessDeletion, TypeOK, Objects
    <2>2. QED
      BY <1>3, <2>1, StopRegistry DEF ProcessDeletion
  <1>4. CASE ProcessPeriodic
    <2> DEFINE stopped == deletePeriodicBackupRunner(cache.uid)
               New(d) == [uid |-> cache.uid, phase |-> "idle",
                          cancelled |-> FALSE, dur |-> d, latest |-> NoObj,
                          result |-> "ok"]
               Start ==
                 /\ nextRunner \in RunnerIds
                 /\ \E d \in InitialDurations(cache.spec) :
                      runners' = [stopped EXCEPT ![nextRunner] = New(d)]
                 /\ nextRunner' = nextRunner + 1
                 /\ registry' = [registry EXCEPT ![cache.uid] =
                                    [id |-> nextRunner, spec |-> cache.spec]]
    <2>1. /\ cache \in Objects
          /\ \/ Start
             \/ /\ runners' = stopped
                /\ registry' = [registry EXCEPT ![cache.uid] = NoEntry]
                /\ nextRunner' = nextRunner
      BY <1>4 DEF ProcessPeriodic, TypeOK
    <2>2. cache.spec \in Specs /\ cache.uid \in UIDs
      BY <2>1 DEF Objects
    <2>3. CASE Start
      <3>1. PICK d \in InitialDurations(cache.spec) :
              runners' = [stopped EXCEPT ![nextRunner] = New(d)]
        BY <2>3
      <3>2. New(d) \in Runners
        BY <2>2, SpecInterval DEF InitialDurations, Runners, Phases
      <3>3. QED
        BY <2>2, <2>3, <3>1, <3>2, StartRegistry
    <2>4. CASE ~Start
      BY <2>1, <2>2, <2>4, StopRegistry
    <2>5. QED
      BY <2>3, <2>4
  <1>5. ASSUME NEW r \in RunnerIds, Runner(r)
        PROVE  FreshRunnerIds' /\ RegistryTracksRunners'
    <2>1. runners[r] \in Runners
      BY DEF TypeOK
    <2>2. CASE RunnerExit(r)
      <3>1. /\ runners'[r] = Dead(runners[r]) /\ runners[r].phase = "idle"
            /\ \A q \in RunnerIds : q # r => runners'[q] = runners[q]
        BY <2>2 DEF RunnerExit, TypeOK
      <3>2. QED
        BY <2>1, <2>2, <3>1, DeadFields, RunnerStepRegistry
        DEF RunnerExit, Active
    <2>3. CASE RunnerTick(r)
      <3>1. /\ runners'[r].phase \in {"backup", "report"}
            /\ runners'[r].uid = runners[r].uid
            /\ runners'[r].cancelled = runners[r].cancelled
            /\ runners[r].phase = "idle"
            /\ \A q \in RunnerIds : q # r => runners'[q] = runners[q]
        BY <2>1, <2>3 DEF RunnerTick, Runners, TypeOK
      <3>2. QED
        BY <2>3, <3>1, RunnerStepRegistry DEF RunnerTick, Active
    <2>4. CASE RunnerBackup(r)
      <3>1. /\ runners'[r].phase = "report"
            /\ runners'[r].uid = runners[r].uid
            /\ runners'[r].cancelled = runners[r].cancelled
            /\ runners[r].phase = "backup"
            /\ \A q \in RunnerIds : q # r => runners'[q] = runners[q]
        BY <2>1, <2>4 DEF RunnerBackup, Runners, TypeOK
      <3>2. QED
        BY <2>4, <3>1, RunnerStepRegistry DEF RunnerBackup, Active
    <2>5. CASE RunnerReport(r)
      <3>1. /\ runners'[r].phase = "drift"
            /\ runners'[r].uid = runners[r].uid
            /\ runners'[r].cancelled = runners[r].cancelled
            /\ runners[r].phase = "report"
            /\ \A q \in RunnerIds : q # r => runners'[q] = runners[q]
        BY <2>1, <2>5 DEF RunnerReport, Runners, TypeOK
      <3>2. QED
        BY <2>5, <3>1, RunnerStepRegistry DEF RunnerReport, Active
    <2>6. CASE RunnerDrift(r) /\ DriftPanics(r)
      BY <2>6, RestartRegistry DEF RunnerDrift
    <2>7. CASE RunnerDrift(r) /\ ~DriftPanics(r)
      <3>1. /\ runners'[r].phase = "idle"
            /\ runners'[r].uid = runners[r].uid
            /\ runners'[r].cancelled = runners[r].cancelled
            /\ runners[r].phase = "drift"
            /\ \A q \in RunnerIds : q # r => runners'[q] = runners[q]
            /\ UNCHANGED <<registry, nextRunner>>
        BY <2>1, <2>7 DEF RunnerDrift, Runners, TypeOK
      <3>2. QED
        BY <3>1, RunnerStepRegistry DEF Active
    <2>8. QED
      BY <1>5, <2>2, <2>3, <2>4, <2>5, <2>6, <2>7 DEF Runner
  <1>6. QED
    BY <1>1, <1>2, <1>3, <1>4, <1>5 DEF Next, Environment, Worker

(* Initially no runner goroutine exists.                                   *)
LEMMA InitRegistry == Init => RegistryInv
  <1> SUFFICES ASSUME Init PROVE RegistryInv
    OBVIOUS
  <1>1. \A r \in RunnerIds : runners[r].phase = "none"
    BY DEF Init
  <1>2. QED
    BY <1>1, InitType DEF RegistryInv, FreshRunnerIds, RegistryTracksRunners,
                          Active

(***************************************************************************)
(* No double scheduling, for every number of UIDs, runners and retries:    *)
(* every periodicRunnerFunc goroutine that is alive and not cancelled is   *)
(* the one backupRunnerStore holds for its UID, because processItem calls  *)
(* deletePeriodicBackupRunner before it starts and stores a new runner.    *)
(***************************************************************************)
THEOREM RegistryCorrect == Spec => []RegistryTracksRunners
  <1>1. Spec => []RegistryInv
    BY InitRegistry, RegistryNext, PTL DEF Spec
  <1>2. QED
    BY <1>1, PTL DEF RegistryInv

=============================================================================
