----------------------- MODULE BackupOperatorDeletion -----------------------
(***************************************************************************)
(* Deletion safety of the backup operator for every value of its          *)
(* constants: no live, uncancelled runner goroutine outlives the deletion *)
(* of its EtcdBackup resource.  The argument rests on the resource         *)
(* version: the API server's compare-and-swap Update makes every copy the  *)
(* operator holds at the current version the stored object, so the        *)
(* worker's deletion branch, which alone removes the finalizer, clears the *)
(* store entry of the very object it lets go.                              *)
(***************************************************************************)
EXTENDS BackupOperatorProofs

(* A copy c is no newer than version n and is the object o when current.  *)
CC(c, o, n) ==
    c # NoObj => /\ c.rv <= n
                 /\ c.rv = n => o # NoObj /\ SameVersion(c, o)

(* What an Update does to the stored object: nothing when the object sent *)
(* is the stored one, otherwise a new version, or the object's removal    *)
(* when it is deleting and has no finalizer left.                          *)
LEMMA CommitCases ==
    ASSUME NEW new \in Objects, rev \in Nat, Commit(new)
    PROVE  \/ new = obj /\ obj' = obj /\ rev' = rev
           \/ /\ new # obj /\ rev' = rev + 1
              /\ new.deleting /\ ~new.fin /\ obj' = NoObj
           \/ /\ new # obj /\ rev' = rev + 1
              /\ ~(new.deleting /\ ~new.fin)
              /\ obj' = [new EXCEPT !.rv = rev + 1]
              /\ obj' \in Objects /\ obj' # NoObj /\ obj'.rv = rev'
              /\ obj'.uid = new.uid /\ obj'.spec = new.spec
              /\ obj'.deleting = new.deleting /\ obj'.fin = new.fin
  <1>1. CASE new = obj
    BY <1>1 DEF Commit
  <1>2. CASE new # obj /\ new.deleting /\ ~new.fin
    BY <1>2 DEF Commit
  <1>3. CASE new # obj /\ ~(new.deleting /\ ~new.fin)
    <2>1. rev' = rev + 1 /\ obj' = [new EXCEPT !.rv = rev + 1]
      BY <1>3 DEF Commit
    <2>2. obj' \in Objects
      BY <2>1 DEF Objects
    <2>3. obj' # NoObj
      BY <2>2, NoValueAssumption
    <2>4. QED
      BY <1>3, <2>1, <2>2, <2>3 DEF Objects
  <1>4. QED
    BY <1>1, <1>2, <1>3

(* A copy that the step leaves alone stays current or older when the API  *)
(* server moves to a new version.                                          *)
LEMMA CopyBump ==
    ASSUME NEW c, NEW o0, NEW o, NEW n \in Nat, CC(c, o0, n),
           c \in Objects \cup {NoObj}
    PROVE  CC(c, o, n + 1)
  BY NoValueAssumption DEF CC, Objects

(* SameVersion is an equivalence on objects.                               *)
LEMMA SameVersionEq ==
    ASSUME NEW a \in Objects, NEW b \in Objects, NEW c \in Objects
    PROVE  /\ SameVersion(a, a)
           /\ SameVersion(a, b) => SameVersion(b, a)
           /\ SameVersion(a, b) /\ SameVersion(b, c) => SameVersion(a, c)
  BY DEF SameVersion

(* A status written in place keeps the version.                            *)
LEMMA StatusVersion ==
    ASSUME NEW a \in Objects, NEW st \in Statuses
    PROVE  /\ reportBackupStatus(a, st) \in Objects
           /\ SameVersion(reportBackupStatus(a, st), a)
  BY DEF reportBackupStatus, Objects, SameVersion

(* A copy no newer than version n is not current at version n + 1.       *)
LEMMA OlderCC ==
    ASSUME NEW c \in Objects \cup {NoObj}, NEW o, NEW n \in Nat,
           c # NoObj => c.rv <= n
    PROVE  CC(c, o, n + 1)
  BY NoValueAssumption DEF CC, Objects

(* A copy that differs from a current one by its status only is current.  *)
LEMMA SameCC ==
    ASSUME NEW c \in Objects, NEW d \in Objects, NEW o, NEW n,
           SameVersion(c, d), CC(d, o, n)
    PROVE  CC(c, o, n)
  BY NoValueAssumption DEF CC, SameVersion

(* The stored object is current.                                           *)
LEMMA ObjCC ==
    ASSUME obj \in Objects \cup {NoObj}, rev \in Nat, obj # NoObj => obj.rv = rev
    PROVE  CC(obj, obj, rev)
  BY DEF CC, SameVersion, Objects

(* Every copy the operator holds is at most the current version.          *)
LEMMA CopiesOld ==
    ASSUME TypeOK, CopiesCurrent
    PROVE  /\ cache # NoObj => cache.rv <= rev
           /\ worker.phase = "oneshot" => worker.eb.rv <= rev
           /\ \A r \in RunnerIds :
                runners[r].latest # NoObj => runners[r].latest.rv <= rev
  <1>1. /\ CopyCurrent(cache)
        /\ worker.phase = "oneshot" => CopyCurrent(worker.eb)
        /\ \A r \in RunnerIds : CopyCurrent(runners[r].latest)
    BY DEF CopiesCurrent
  <1>2. cache # NoObj => cache.rv <= rev
    BY <1>1 DEF CopyCurrent
  <1>3. worker.phase = "oneshot" => worker.eb.rv <= rev
    <2>1. worker.phase = "oneshot" => worker.eb # NoObj
      BY NoValueAssumption DEF TypeOK
    <2>2. QED
      BY <1>1, <2>1 DEF CopyCurrent
  <1>4. ASSUME NEW r \in RunnerIds, runners[r].latest # NoObj
        PROVE  runners[r].latest.rv <= rev
    BY <1>1, <1>4 DEF CopyCurrent
  <1>5. QED
    BY <1>2, <1>3, <1>4

(* After a write that makes a new version, the copies the step leaves no  *)
(* newer than the old version are all out of date, and only the stored    *)
(* object is current.                                                      *)
LEMMA BumpCopies ==
    ASSUME TypeOK', rev \in Nat, rev' = rev + 1,
           obj' # NoObj => obj'.rv = rev',
           cache' # NoObj => cache'.rv <= rev,
           worker'.phase = "oneshot" => worker'.eb.rv <= rev,
           \A r \in RunnerIds :
               runners'[r].latest # NoObj => runners'[r].latest.rv <= rev,
           WorkerMatchesCache'
    PROVE  CopiesCurrent'
  <1>1. /\ cache' \in Objects \cup {NoObj}
        /\ worker'.phase = "oneshot" => worker'.eb \in Objects
        /\ \A r \in RunnerIds : runners'[r].latest \in Objects \cup {NoObj}
    BY DEF TypeOK, Runners
  <1>2. CC(cache', obj', rev')
    BY <1>1, OlderCC
  <1>3. worker'.phase = "oneshot" => CC(worker'.eb, obj', rev')
    BY <1>1, OlderCC
  <1>4. \A r \in RunnerIds : CC(runners'[r].latest, obj', rev')
    BY <1>1, OlderCC
  <1>5. QED
    BY <1>2, <1>3, <1>4 DEF CopiesCurrent, CopyCurrent, CC

(* DeletionInv without the registry's own invariant, proved on its own.    *)
ObjInv ==
    /\ CopiesCurrent /\ DeletingKeepsFinalizer
    /\ CachedFinalizerHeld /\ RegistryHeld

(* A step that leaves the object, the version, the cache, the worker, the  *)
(* store and every runner's fetched copy alone keeps ObjInv.               *)
LEMMA FrameObj ==
    ASSUME ObjInv, UNCHANGED <<obj, rev, cache, worker, registry>>,
           \A r \in RunnerIds : runners'[r].latest = runners[r].latest
    PROVE  ObjInv'
  BY DEF ObjInv, CopiesCurrent, CopyCurrent, WorkerMatchesCache,
         DeletingKeepsFinalizer, CachedFinalizerHeld, RegistryHeld

(* Create: nothing was stored, so no entry or cached finalizer refers to   *)
(* an object, and every copy is older than the new version.                *)
LEMMA CreateObj ==
    ASSUME TypeOK, ObjInv, NEW u \in UIDs, NEW s \in Specs, Create(u, s)
    PROVE  ObjInv'
  <1>1. /\ obj = NoObj /\ rev \in Nat /\ rev' = rev + 1
        /\ obj' = [uid |-> u, spec |-> s, deleting |-> FALSE, fin |-> FALSE,
                   status |-> "none", rv |-> rev + 1]
        /\ UNCHANGED <<cache, worker, registry, runners>>
    BY DEF Create, TypeOK
  <1>2. obj' \in Objects
    BY <1>1 DEF Objects, Statuses
  <1>3. obj' # NoObj /\ obj'.rv = rev' /\ ~obj'.deleting
    BY <1>1, <1>2, NoValueAssumption
  <1>4. /\ CC(cache, obj, rev) /\ (worker.phase = "oneshot" => CC(worker.eb, obj, rev))
        /\ \A r \in RunnerIds : CC(runners[r].latest, obj, rev)
    BY DEF ObjInv, CopiesCurrent, CopyCurrent, CC
  <1>5. /\ cache \in Objects \cup {NoObj}
        /\ worker.phase = "oneshot" => worker.eb \in Objects
        /\ \A r \in RunnerIds : runners[r].latest \in Objects \cup {NoObj}
    BY DEF TypeOK, Runners
  <1>6. /\ CC(cache, obj', rev') /\ (worker.phase = "oneshot" => CC(worker.eb, obj', rev'))
        /\ \A r \in RunnerIds : CC(runners[r].latest, obj', rev')
    BY <1>1, <1>4, <1>5, CopyBump
  <1>7. CopiesCurrent'
    BY <1>1, <1>3, <1>6 DEF CopiesCurrent, CopyCurrent, CC, WorkerMatchesCache,
                            ObjInv
  <1>8. ~(cache # NoObj /\ cache.fin /\ ~cache.deleting)
        /\ \A v \in UIDs : registry[v] = NoEntry
    BY <1>1 DEF ObjInv, CachedFinalizerHeld, RegistryHeld
  <1>9. QED
    BY <1>1, <1>3, <1>7, <1>8 DEF ObjInv, DeletingKeepsFinalizer,
                                  CachedFinalizerHeld, RegistryHeld

(* EditSpec: a new version of the same object, still not deleting.         *)
LEMMA EditSpecObj ==
    ASSUME TypeOK, TypeOK', ObjInv, NEW s \in Specs, EditSpec(s)
    PROVE  ObjInv'
  <1>1. /\ obj \in Objects /\ ~obj.deleting /\ rev' = rev + 1
        /\ obj' = [obj EXCEPT !.spec = s, !.rv = rev + 1]
        /\ UNCHANGED <<cache, worker, registry, runners>>
    BY DEF EditSpec, TypeOK
  <1>2. /\ obj' \in Objects /\ obj'.rv = rev' /\ ~obj'.deleting
        /\ obj'.uid = obj.uid /\ obj'.fin = obj.fin
    BY <1>1, EditType DEF Objects, TypeOK
  <1>5. obj' # NoObj
    BY <1>2, NoValueAssumption
  <1>3. CopiesCurrent'
    BY <1>1, <1>2, <1>5, CopiesOld, BumpCopies DEF ObjInv, CopiesCurrent,
                                            WorkerMatchesCache, TypeOK
  <1>4. QED
    BY <1>1, <1>2, <1>3, <1>5 DEF ObjInv, DeletingKeepsFinalizer,
                            CachedFinalizerHeld, RegistryHeld

(* Delete: the deletion timestamp is set.  With no finalizer the object   *)
(* goes, and then nothing holds a finalizer of it; otherwise the new       *)
(* version keeps its UID and its finalizer.                                *)
LEMMA DeleteObj ==
    ASSUME TypeOK, TypeOK', ObjInv, Delete
    PROVE  ObjInv'
  <1> DEFINE new == [obj EXCEPT !.deleting = TRUE]
  <1>1. /\ obj \in Objects /\ ~obj.deleting /\ rev \in Nat
        /\ Commit(new) /\ UNCHANGED <<cache, worker, registry, runners>>
    BY DEF Delete, TypeOK
  <1>2. new \in Objects /\ new # obj /\ new.deleting
        /\ new.uid = obj.uid /\ new.fin = obj.fin
    BY <1>1 DEF Objects
  <1>3. rev' = rev + 1 /\ (obj' # NoObj => obj'.rv = rev')
    BY <1>1, <1>2, CommitCases
  <1>4. CopiesCurrent'
    BY <1>1, <1>3, CopiesOld, BumpCopies DEF ObjInv, CopiesCurrent,
                                            WorkerMatchesCache, TypeOK
  <1>5. CASE ~obj.fin
    <2>1. obj' = NoObj
      BY <1>1, <1>2, <1>5, CommitCases
    <2>2. ~(cache # NoObj /\ cache.fin /\ ~cache.deleting)
          /\ \A u \in UIDs : registry[u] = NoEntry
      BY <1>5 DEF ObjInv, CachedFinalizerHeld, RegistryHeld
    <2>3. QED
      BY <1>1, <1>4, <2>1, <2>2 DEF ObjInv, DeletingKeepsFinalizer,
                                    CachedFinalizerHeld, RegistryHeld
  <1>6. CASE obj.fin
    <2>1. obj' = [new EXCEPT !.rv = rev + 1]
      BY <1>1, <1>2, <1>6, CommitCases
    <2>2. obj' # NoObj /\ obj'.uid = obj.uid /\ obj'.fin
      BY <1>1, <1>2, <1>6, CommitCases
    <2>3. QED
      BY <1>1, <1>4, <2>2 DEF ObjInv, DeletingKeepsFinalizer,
                              CachedFinalizerHeld, RegistryHeld
  <1>7. QED
    BY <1>5, <1>6

(* InformerSync: the cache becomes the stored object.                      *)
LEMMA InformerSyncObj ==
    ASSUME TypeOK, ObjInv, InformerSync
    PROVE  ObjInv'
  <1>1. cache' = obj /\ UNCHANGED <<obj, rev, worker, registry, runners>>
    BY DEF InformerSync
  <1>2. CC(obj, obj, rev)
    BY ObjCC DEF ObjInv, CopiesCurrent, TypeOK
  <1>3. (worker.phase = "oneshot" /\ obj # NoObj /\ obj.rv = worker.eb.rv)
            => SameVersion(obj, worker.eb)
    <2>1. SUFFICES ASSUME worker.phase = "oneshot", obj # NoObj,
                          obj.rv = worker.eb.rv
                   PROVE  SameVersion(obj, worker.eb)
      OBVIOUS
    <2>2. obj \in Objects /\ worker.eb \in Objects /\ obj.rv = rev
      BY <2>1 DEF TypeOK, ObjInv, CopiesCurrent
    <2>3. SameVersion(worker.eb, obj)
      BY <2>1, <2>2, NoValueAssumption DEF ObjInv, CopiesCurrent, CopyCurrent
    <2>4. QED
      BY <2>2, <2>3, SameVersionEq
  <1>4. CopiesCurrent'
    BY <1>1, <1>2, <1>3 DEF ObjInv, CopiesCurrent, CopyCurrent, CC,
                            WorkerMatchesCache
  <1>5. QED
    BY <1>1, <1>4 DEF ObjInv, DeletingKeepsFinalizer, CachedFinalizerHeld,
                      RegistryHeld

(* A restart leaves a cache filled from the stored object, an idle worker, *)
(* an empty store, and goroutines that have returned and fetched nothing.  *)
LEMMA RestartObj ==
    ASSUME TypeOK, ObjInv, Restart, UNCHANGED <<obj, rev>>
    PROVE  ObjInv'
  <1>1. /\ cache' = obj /\ worker' = [phase |-> "idle", eb |-> NoObj]
        /\ \A u \in UIDs : registry'[u] = NoEntry
    BY DEF Restart
  <1>2. ASSUME NEW r \in RunnerIds
        PROVE  CC(runners'[r].latest, obj', rev')
    <2>1. runners[r] \in Runners
      BY DEF TypeOK
    <2>2. CASE runners[r].phase = "none"
      BY <2>2 DEF Restart, ObjInv, CopiesCurrent, CopyCurrent, CC
    <2>3. CASE runners[r].phase # "none"
      <3>1. runners'[r].latest = NoObj
        BY <2>1, <2>3 DEF Restart, Dead, Runners
      <3>2. QED
        BY <3>1 DEF CC
    <2>4. QED
      BY <2>2, <2>3
  <1>3. CC(obj, obj, rev)
    BY ObjCC DEF ObjInv, CopiesCurrent, TypeOK
  <1>4. CopiesCurrent'
    BY <1>1, <1>2, <1>3 DEF ObjInv, CopiesCurrent, CopyCurrent, CC,
                            WorkerMatchesCache
  <1>5. QED
    BY <1>1, <1>4 DEF ObjInv, DeletingKeepsFinalizer, CachedFinalizerHeld,
                      RegistryHeld

(* ProcessOneShot: the worker's eb is the cached object itself.            *)
LEMMA OneShotStartObj ==
    ASSUME TypeOK, ObjInv, ProcessOneShot
    PROVE  ObjInv'
  <1>1. /\ cache \in Objects /\ worker' = [phase |-> "oneshot", eb |-> cache]
        /\ UNCHANGED <<obj, rev, cache, registry, runners>>
    BY NoValueAssumption DEF ProcessOneShot, TypeOK
  <1>2. SameVersion(cache, cache)
    BY <1>1, SameVersionEq
  <1>3. CopiesCurrent'
    BY <1>1, <1>2 DEF ObjInv, CopiesCurrent, CopyCurrent, WorkerMatchesCache
  <1>4. QED
    BY <1>1, <1>3 DEF ObjInv, DeletingKeepsFinalizer, CachedFinalizerHeld,
                      RegistryHeld

(* Cancelling the stored runner leaves every goroutine's fetched copy.     *)
LEMMA StopLatest ==
    ASSUME TypeOK, NEW u \in UIDs, NEW r \in RunnerIds
    PROVE  deletePeriodicBackupRunner(u)[r].latest = runners[r].latest
  <1>1. CASE registry[u] = NoEntry
    BY <1>1 DEF deletePeriodicBackupRunner
  <1>2. CASE registry[u] # NoEntry
    <2>1. registry[u].id \in RunnerIds /\ runners[registry[u].id] \in Runners
      BY <1>2 DEF TypeOK, Entries
    <2>2. QED
      BY <1>2, <2>1 DEF deletePeriodicBackupRunner, TypeOK, Runners
  <1>3. QED
    BY <1>1, <1>2

(* ProcessDeletion.  The Update that drops the finalizer succeeds only on  *)
(* the current version, which the cache then is: the stored object is      *)
(* deleting, so it goes, and every store entry was for its UID.            *)
LEMMA DeletionObj ==
    ASSUME TypeOK, TypeOK', ObjInv, ProcessDeletion
    PROVE  ObjInv'
  <1>1. /\ cache \in Objects /\ cache.deleting /\ cache.uid \in UIDs
        /\ registry' = [registry EXCEPT ![cache.uid] = NoEntry]
        /\ runners' = deletePeriodicBackupRunner(cache.uid)
        /\ UNCHANGED <<cache, worker>>
    BY NoValueAssumption DEF ProcessDeletion, TypeOK, Objects
  <1>2. \A r \in RunnerIds : runners'[r].latest = runners[r].latest
    BY <1>1, StopLatest
  <1>3. \A u \in UIDs : registry'[u] # NoEntry => registry[u] # NoEntry
    BY <1>1 DEF TypeOK
  <1>4. CASE Writable(cache) /\ Commit(removeFinalizerOfPeriodicBackup(cache))
    <2>1. obj \in Objects /\ obj.rv = cache.rv /\ obj.rv = rev
      BY <1>4 DEF Writable, TypeOK, ObjInv, CopiesCurrent
    <2>2. SameVersion(cache, obj)
      BY <1>1, <2>1, NoValueAssumption DEF ObjInv, CopiesCurrent, CopyCurrent
    <2>3. obj.deleting /\ obj.fin /\ obj.uid = cache.uid
      BY <1>1, <2>1, <2>2, NoValueAssumption, Zenon
      DEF SameVersion, ObjInv, DeletingKeepsFinalizer
    <2> DEFINE new == removeFinalizerOfPeriodicBackup(cache)
    <2>4. new \in Objects /\ new # obj /\ new.deleting /\ ~new.fin
      BY <1>1, <2>3 DEF removeFinalizerOfPeriodicBackup, Objects
    <2>5. obj' = NoObj /\ rev' = rev + 1
      BY <1>4, <2>4, CommitCases DEF TypeOK
    <2>6. \A u \in UIDs : registry'[u] = NoEntry
      BY <1>1, <2>3 DEF ObjInv, RegistryHeld, TypeOK
    <2>7. CopiesCurrent'
      BY <1>1, <1>2, <2>5, CopiesOld, BumpCopies
      DEF ObjInv, CopiesCurrent, WorkerMatchesCache, TypeOK
    <2>8. QED
      BY <1>1, <2>5, <2>6, <2>7 DEF ObjInv, DeletingKeepsFinalizer,
                                    CachedFinalizerHeld, RegistryHeld
  <1>5. CASE UNCHANGED <<obj, rev>>
    <2>1. CopiesCurrent'
      BY <1>1, <1>2, <1>5 DEF ObjInv, CopiesCurrent, CopyCurrent,
                              WorkerMatchesCache
    <2>2. QED
      BY <1>1, <1>3, <1>5, <2>1 DEF ObjInv, DeletingKeepsFinalizer,
                                    CachedFinalizerHeld, RegistryHeld
  <1>6. QED
    BY <1>4, <1>5 DEF ProcessDeletion

(* ProcessPeriodic.  The finalizer is added, when the cache lacks it, by   *)
(* an Update that succeeds only on the current version: the stored object  *)
(* then had no finalizer, so no entry was stored, and the new version has  *)
(* the UID of the entry the step stores.  When the cache has the finalizer *)
(* and no deletion, CachedFinalizerHeld says the store holds it too.       *)
LEMMA PeriodicObj ==
    ASSUME TypeOK, TypeOK', ObjInv, ProcessPeriodic
    PROVE  ObjInv'
  <1> DEFINE stopped == deletePeriodicBackupRunner(cache.uid)
             New(d) == [uid |-> cache.uid, phase |-> "idle",
                        cancelled |-> FALSE, dur |-> d, latest |-> NoObj,
                        result |-> "ok"]
             entry == [id |-> nextRunner, spec |-> cache.spec]
             Start ==
               /\ nextRunner \in RunnerIds
               /\ \E d \in InitialDurations(cache.spec) :
                    runners' = [stopped EXCEPT ![nextRunner] = New(d)]
               /\ registry' = [registry EXCEPT ![cache.uid] = entry]
  <1>1. /\ cache \in Objects /\ ~cache.deleting /\ cache.uid \in UIDs
        /\ UNCHANGED <<cache, worker>>
        /\ \/ cache.fin /\ Start /\ UNCHANGED <<obj, rev>>
           \/ ~cache.fin /\ Writable(cache)
              /\ Commit([cache EXCEPT !.fin = TRUE]) /\ Start
           \/ /\ runners' = stopped
              /\ registry' = [registry EXCEPT ![cache.uid] = NoEntry]
              /\ UNCHANGED <<obj, rev>>
    BY NoValueAssumption DEF ProcessPeriodic, NeedFinalizer, TypeOK, Objects
  <1>2. stopped \in [RunnerIds -> Runners]
    BY <1>1, DeleteRunnerType DEF TypeOK
  <1>3. \A r \in RunnerIds :
            runners'[r].latest = NoObj \/ runners'[r].latest = runners[r].latest
    <2>1. CASE Start
      <3>1. PICK d \in InitialDurations(cache.spec) :
              runners' = [stopped EXCEPT ![nextRunner] = New(d)]
        BY <2>1
      <3>2. QED
        BY <1>1, <1>2, <2>1, <3>1, StopLatest
    <2>2. CASE runners' = stopped
      BY <1>1, <2>2, StopLatest
    <2>3. QED
      BY <1>1, <2>1, <2>2
  <1>4. \A u \in UIDs : u # cache.uid => registry'[u] = registry[u]
    <2>1. CASE Start
      BY <2>1 DEF TypeOK
    <2>2. CASE registry' = [registry EXCEPT ![cache.uid] = NoEntry]
      BY <2>2 DEF TypeOK
    <2>3. QED
      BY <1>1, <2>1, <2>2
  <1>5. CASE cache.fin /\ Start /\ UNCHANGED <<obj, rev>>
    <2>1. obj # NoObj /\ obj.uid = cache.uid /\ obj.fin
      BY <1>1, <1>5, NoValueAssumption, Zenon DEF ObjInv, CachedFinalizerHeld
    <2>2. CopiesCurrent'
      BY <1>1, <1>3, <1>5 DEF ObjInv, CopiesCurrent, CopyCurrent,
                              WorkerMatchesCache
    <2>3. RegistryHeld'
      BY <1>4, <1>5, <2>1 DEF ObjInv, RegistryHeld, TypeOK
    <2>4. QED
      BY <1>1, <1>5, <2>2, <2>3 DEF ObjInv, DeletingKeepsFinalizer,
                                    CachedFinalizerHeld
  <1>6. CASE ~cache.fin /\ Writable(cache)
             /\ Commit([cache EXCEPT !.fin = TRUE]) /\ Start
    <2>1. obj \in Objects /\ obj.rv = cache.rv /\ obj.rv = rev
      BY <1>6 DEF Writable, TypeOK, ObjInv, CopiesCurrent
    <2>2. SameVersion(cache, obj)
      BY <1>1, <2>1, NoValueAssumption DEF ObjInv, CopiesCurrent, CopyCurrent
    <2>3. ~obj.fin /\ obj.uid = cache.uid
      BY <1>6, <2>2, Zenon DEF SameVersion
    <2> DEFINE new == [cache EXCEPT !.fin = TRUE]
    <2>4. new \in Objects /\ new # obj /\ ~new.deleting /\ new.fin
          /\ new.uid = cache.uid
      BY <1>1, <2>3 DEF Objects
    <2>5. /\ rev' = rev + 1 /\ obj' # NoObj /\ obj'.rv = rev'
          /\ obj'.uid = cache.uid /\ obj'.fin /\ ~obj'.deleting
      BY <1>6, <2>4, CommitCases DEF TypeOK
    <2>6. \A u \in UIDs : u # cache.uid => registry'[u] = NoEntry
      BY <1>4, <2>3 DEF ObjInv, RegistryHeld
    <2>7. CopiesCurrent'
      <3>1. \A r \in RunnerIds :
                runners'[r].latest # NoObj => runners'[r].latest.rv <= rev
        BY <1>3, CopiesOld DEF ObjInv
      <3>2. QED
        BY <1>1, <2>5, <3>1, CopiesOld, BumpCopies
        DEF ObjInv, CopiesCurrent, WorkerMatchesCache, TypeOK
    <2>8. QED
      BY <1>1, <1>6, <2>5, <2>6, <2>7 DEF ObjInv, DeletingKeepsFinalizer,
                                          CachedFinalizerHeld, RegistryHeld
  <1>7. CASE /\ runners' = stopped
             /\ registry' = [registry EXCEPT ![cache.uid] = NoEntry]
             /\ UNCHANGED <<obj, rev>>
    <2>1. CopiesCurrent'
      BY <1>1, <1>3, <1>7 DEF ObjInv, CopiesCurrent, CopyCurrent,
                              WorkerMatchesCache
    <2>2. RegistryHeld'
      BY <1>4, <1>7 DEF ObjInv, RegistryHeld, TypeOK
    <2>3. QED
      BY <1>1, <1>7, <2>1, <2>2 DEF ObjInv, DeletingKeepsFinalizer,
                                    CachedFinalizerHeld
  <1>8. QED
    BY <1>1, <1>5, <1>6, <1>7

(* OneShotFinish.  The status is written into the worker's eb, which the   *)
(* cache still is when the versions agree (WorkerMatchesCache): the cache  *)
(* keeps its version, UID, finalizer and deletion.  The Update succeeds    *)
(* only on the current version, and then changes nothing but the status: *)
(* the object cannot go, since a deleting object keeps its finalizer.      *)
LEMMA OneShotFinishObj ==
    ASSUME TypeOK, TypeOK', ObjInv, OneShotFinish
    PROVE  ObjInv'
  <1>1. PICK res \in handleBackup(FALSE) :
          LET eb == reportBackupStatus(worker.eb, res) IN
          /\ cache' = IF cache # NoObj /\ cache.rv = eb.rv THEN eb ELSE cache
          /\ \/ Writable(eb) /\ Commit(eb)
             \/ UNCHANGED <<obj, rev>>
    BY DEF OneShotFinish
  <1> DEFINE eb == reportBackupStatus(worker.eb, res)
  <1>2. /\ worker.phase = "oneshot" /\ worker.eb \in Objects
        /\ worker' = [phase |-> "idle", eb |-> NoObj]
        /\ UNCHANGED <<registry, runners>>
    BY DEF OneShotFinish, TypeOK
  <1>3. eb \in Objects /\ SameVersion(eb, worker.eb)
    <2>1. res \in Statuses
      BY DEF handleBackup, Statuses
    <2>2. QED
      BY <1>2, <2>1, StatusVersion
  <1>4. \/ cache' = cache
        \/ cache' = eb /\ cache \in Objects /\ SameVersion(eb, cache)
    <2>1. CASE cache # NoObj /\ cache.rv = eb.rv
      <3>1. cache \in Objects /\ cache.rv = worker.eb.rv
        BY <1>3, <2>1 DEF TypeOK, SameVersion
      <3>2. SameVersion(cache, worker.eb)
        BY <1>2, <2>1, <3>1 DEF ObjInv, CopiesCurrent, WorkerMatchesCache
      <3>3. QED
        BY <1>1, <1>2, <1>3, <2>1, <3>1, <3>2, SameVersionEq
    <2>2. QED
      BY <1>1, <2>1
  <1>5. CC(cache', obj, rev)
    <2>1. CC(cache, obj, rev)
      BY DEF ObjInv, CopiesCurrent, CopyCurrent, CC
    <2>2. QED
      BY <1>3, <1>4, <2>1, SameCC
  <1>6. (cache' # NoObj /\ cache'.fin /\ ~cache'.deleting)
            => obj # NoObj /\ obj.uid = cache'.uid /\ obj.fin
    <2>1. CASE cache' = cache
      BY <2>1 DEF ObjInv, CachedFinalizerHeld
    <2>2. CASE cache' = eb /\ cache \in Objects /\ SameVersion(eb, cache)
      <3>1. cache # NoObj
        BY <2>2, NoValueAssumption
      <3>2. QED
        BY <2>2, <3>1, Zenon DEF ObjInv, CachedFinalizerHeld, SameVersion
    <2>3. QED
      BY <1>4, <2>1, <2>2
  <1>7. CASE UNCHANGED <<obj, rev>>
    <2>1. CopiesCurrent'
      BY <1>2, <1>5, <1>7 DEF ObjInv, CopiesCurrent, CopyCurrent, CC,
                              WorkerMatchesCache
    <2>2. QED
      BY <1>2, <1>6, <1>7, <2>1 DEF ObjInv, DeletingKeepsFinalizer,
                                    CachedFinalizerHeld, RegistryHeld
  <1>8. CASE Writable(eb) /\ Commit(eb) /\ eb # obj
    <2>1. obj \in Objects /\ obj.rv = eb.rv /\ obj.rv = rev
      BY <1>8 DEF Writable, TypeOK, ObjInv, CopiesCurrent
    <2>2. SameVersion(worker.eb, obj)
      BY <1>2, <1>3, <2>1, NoValueAssumption
      DEF ObjInv, CopiesCurrent, CopyCurrent, SameVersion
    <2>3. SameVersion(eb, obj)
      BY <1>2, <1>3, <2>1, <2>2, SameVersionEq
    <2>4. ~(eb.deleting /\ ~eb.fin)
      BY <2>1, <2>3, NoValueAssumption, Zenon
      DEF SameVersion, ObjInv, DeletingKeepsFinalizer
    <2>5. /\ rev' = rev + 1 /\ obj' # NoObj /\ obj'.rv = rev'
          /\ obj'.uid = obj.uid /\ obj'.fin = obj.fin
          /\ obj'.deleting = obj.deleting
      <3>1. rev \in Nat
        BY DEF TypeOK
      <3>2. /\ rev' = rev + 1 /\ obj' # NoObj /\ obj'.rv = rev'
            /\ obj'.uid = eb.uid /\ obj'.fin = eb.fin
            /\ obj'.deleting = eb.deleting
        BY <1>3, <1>8, <2>4, <3>1, CommitCases
      <3>3. QED
        BY <2>3, <3>2 DEF SameVersion
    <2>6. cache' # NoObj => cache'.rv <= rev
      BY <1>5, <2>1 DEF CC
    <2>7. CopiesCurrent'
      <3>1. \A r \in RunnerIds :
                runners'[r].latest # NoObj => runners'[r].latest.rv <= rev
        BY <1>2, CopiesOld DEF ObjInv
      <3>2. WorkerMatchesCache'
        BY <1>2 DEF WorkerMatchesCache
      <3>3. rev \in Nat /\ worker'.phase # "oneshot"
        BY <1>2 DEF TypeOK
      <3>4. QED
        BY <2>5, <2>6, <3>1, <3>2, <3>3, BumpCopies
    <2>8. QED
      BY <1>2, <1>6, <2>1, <2>5, <2>7, NoValueAssumption
      DEF ObjInv, DeletingKeepsFinalizer, CachedFinalizerHeld, RegistryHeld
  <1>9. QED
    <2>1. CASE Writable(eb) /\ Commit(eb) /\ eb = obj
      BY <1>3, <2>1, <1>7 DEF Commit
    <2>2. QED
      BY <1>1, <1>7, <1>8, <2>1

(* A step of runner goroutines that only drops a fetched copy or fetches   *)
(* the stored object keeps ObjInv.                                         *)
LEMMA RunnerFrameObj ==
    ASSUME TypeOK, ObjInv, UNCHANGED <<obj, rev, cache, worker, registry>>,
           \A q \in RunnerIds : \/ runners'[q].latest = runners[q].latest
                                \/ runners'[q].latest = NoObj
                                \/ runners'[q].latest = obj
    PROVE  ObjInv'
  <1>1. CC(obj, obj, rev)
    BY ObjCC DEF ObjInv, CopiesCurrent, TypeOK
  <1>2. \A q \in RunnerIds : CC(runners'[q].latest, obj, rev)
    BY <1>1 DEF ObjInv, CopiesCurrent, CopyCurrent, CC
  <1>3. QED
    BY <1>2 DEF ObjInv, CopiesCurrent, CopyCurrent, CC, WorkerMatchesCache,
                DeletingKeepsFinalizer, CachedFinalizerHeld, RegistryHeld

(* RunnerReport: the Update of the fetched copy with the outcome succeeds  *)
(* only on the current version and changes the status alone.               *)
LEMMA ReportObj ==
    ASSUME TypeOK, TypeOK', ObjInv, NEW r \in RunnerIds, RunnerReport(r)
    PROVE  ObjInv'
  <1> DEFINE eb == runners[r].latest
             new == reportBackupStatus(eb, runners[r].result)
  <1>1. /\ runners[r] \in Runners
        /\ runners' = [runners EXCEPT ![r].phase = "drift"]
        /\ UNCHANGED <<cache, worker, registry>>
        /\ \/ eb # NoObj /\ Writable(eb) /\ Commit(new)
           \/ UNCHANGED <<obj, rev>>
    BY DEF RunnerReport, TypeOK
  <1>2. \A q \in RunnerIds : runners'[q].latest = runners[q].latest
    BY <1>1 DEF TypeOK
  <1>3. CASE UNCHANGED <<obj, rev>>
    BY <1>1, <1>2, <1>3, RunnerFrameObj
  <1>4. CASE eb # NoObj /\ Writable(eb) /\ Commit(new) /\ new # obj
    <2>1. eb \in Objects /\ runners[r].result \in Statuses
      BY <1>1, <1>4 DEF Runners, Statuses
    <2>2. new \in Objects /\ SameVersion(new, eb)
      BY <2>1, StatusVersion
    <2>3. obj \in Objects /\ obj.rv = eb.rv /\ obj.rv = rev /\ rev \in Nat
      BY <1>4 DEF Writable, TypeOK, ObjInv, CopiesCurrent
    <2>4. SameVersion(eb, obj)
      BY <1>4, <2>3 DEF ObjInv, CopiesCurrent, CopyCurrent
    <2>5. SameVersion(new, obj)
      BY <2>1, <2>2, <2>3, <2>4, SameVersionEq
    <2>6. ~(new.deleting /\ ~new.fin)
      BY <2>3, <2>5, NoValueAssumption, Zenon
      DEF SameVersion, ObjInv, DeletingKeepsFinalizer
    <2>7. /\ rev' = rev + 1 /\ obj' # NoObj /\ obj'.rv = rev'
          /\ obj'.uid = obj.uid /\ obj'.fin = obj.fin
          /\ obj'.deleting = obj.deleting
      <3>1. /\ rev' = rev + 1 /\ obj' # NoObj /\ obj'.rv = rev'
            /\ obj'.uid = new.uid /\ obj'.fin = new.fin
            /\ obj'.deleting = new.deleting
        BY <1>4, <2>2, <2>3, <2>6, CommitCases
      <3>2. QED
        BY <2>5, <3>1 DEF SameVersion
    <2>8. CopiesCurrent'
      <3>1. /\ cache # NoObj => cache.rv <= rev
            /\ worker.phase = "oneshot" => worker.eb.rv <= rev
            /\ \A q \in RunnerIds :
                 runners'[q].latest # NoObj => runners'[q].latest.rv <= rev
        BY <1>2, CopiesOld DEF ObjInv
      <3>2. WorkerMatchesCache'
        BY <1>1 DEF ObjInv, CopiesCurrent, WorkerMatchesCache
      <3>3. QED
        BY <1>1, <2>3, <2>7, <3>1, <3>2, BumpCopies
    <2>9. QED
      BY <1>1, <2>3, <2>7, <2>8, NoValueAssumption
      DEF ObjInv, DeletingKeepsFinalizer, CachedFinalizerHeld, RegistryHeld
  <1>5. QED
    <2>1. CASE eb # NoObj /\ Writable(eb) /\ Commit(new) /\ new = obj
      BY <1>3, <2>1 DEF Commit
    <2>2. QED
      BY <1>1, <1>3, <1>4, <2>1

(* The steps of a runner goroutine keep ObjInv: it fetches the stored     *)
(* object, drops its copy, or reports; a panic restarts the process.       *)
LEMMA RunnerObj ==
    ASSUME TypeOK, TypeOK', ObjInv, NEW r \in RunnerIds, Runner(r)
    PROVE  ObjInv'
  <1>1. runners[r] \in Runners
    BY DEF TypeOK
  <1>2. CASE RunnerExit(r)
    <2>1. \A q \in RunnerIds : runners'[q].latest = runners[q].latest
                                 \/ runners'[q].latest = NoObj
      BY <1>1, <1>2 DEF RunnerExit, Dead, Runners, TypeOK
    <2>2. QED
      BY <1>2, <2>1, RunnerFrameObj DEF RunnerExit
  <1>3. CASE RunnerTick(r)
    <2>1. \A q \in RunnerIds : \/ runners'[q].latest = runners[q].latest
                                 \/ runners'[q].latest = NoObj
                                 \/ runners'[q].latest = obj
      <3>1. CASE runners' = [runners EXCEPT ![r].phase = "backup",
                                            ![r].latest = obj]
        BY <3>1 DEF TypeOK
      <3>2. CASE runners' = [runners EXCEPT ![r].phase = "report",
                                            ![r].latest = NoObj]
        BY <3>2 DEF TypeOK
      <3>3. QED
        BY <1>3, <3>1, <3>2 DEF RunnerTick
    <2>2. QED
      BY <1>3, <2>1, RunnerFrameObj DEF RunnerTick
  <1>4. CASE RunnerBackup(r)
    <2>1. \A q \in RunnerIds : runners'[q].latest = runners[q].latest
      BY <1>4 DEF RunnerBackup, TypeOK
    <2>2. QED
      BY <1>4, <2>1, RunnerFrameObj DEF RunnerBackup
  <1>5. CASE RunnerReport(r)
    BY <1>5, ReportObj
  <1>6. CASE RunnerDrift(r) /\ DriftPanics(r)
    BY <1>6, RestartObj DEF RunnerDrift
  <1>7. CASE RunnerDrift(r) /\ ~DriftPanics(r)
    <2>1. /\ runners' = [runners EXCEPT ![r].phase = "idle",
                           ![r].dur = runners[r].latest.spec.interval,
                           ![r].latest = NoObj, ![r].result = "ok"]
          /\ UNCHANGED <<obj, rev, cache, worker, registry>>
      BY <1>7 DEF RunnerDrift
    <2>2. \A q \in RunnerIds : runners'[q].latest = runners[q].latest
                                 \/ runners'[q].latest = NoObj
      BY <2>1 DEF TypeOK
    <2>3. QED
      BY <2>1, <2>2, RunnerFrameObj
  <1>8. QED
    BY <1>2, <1>3, <1>4, <1>5, <1>6, <1>7 DEF Runner

(* Every step of the system keeps ObjInv.                                  *)
LEMMA ObjNext ==
    ASSUME TypeOK, TypeOK', ObjInv, [Next]_vars
    PROVE  ObjInv'
  <1>1. CASE \E u \in UIDs, s \in Specs : Create(u, s)
    BY <1>1, CreateObj
  <1>2. CASE \E s \in Specs : EditSpec(s)
    BY <1>2, EditSpecObj
  <1>3. CASE Delete
    BY <1>3, DeleteObj
  <1>4. CASE InformerSync
    BY <1>4, InformerSyncObj
  <1>5. CASE \/ RateLimitedAdd \/ Resync \/ ProcessAbsent
             \/ ProcessTerminal \/ ProcessUnchanged \/ UNCHANGED vars
    BY <1>5, FrameObj DEF RateLimitedAdd, Resync, ProcessAbsent,
                          ProcessTerminal, ProcessUnchanged, vars
  <1>6. CASE Crash
    BY <1>6, RestartObj DEF Crash
  <1>7. CASE ProcessDeletion
    BY <1>7, DeletionObj
  <1>8. CASE ProcessPeriodic
    BY <1>8, PeriodicObj
  <1>9. CASE ProcessOneShot
    BY <1>9, OneShotStartObj
  <1>10. CASE OneShotFinish
    BY <1>10, OneShotFinishObj
  <1>11. CASE \E r \in RunnerIds : Runner(r)
    BY <1>11, RunnerObj
  <1>12. QED
    BY <1>1, <1>2, <1>3, <1>4, <1>5, <1>6, <1>7, <1>8, <1>9, <1>10, <1>11
    DEF Next, Environment, Worker

(* DeletionInv is inductive.                                               *)
LEMMA DeletionNext == DeletionInv /\ [Next]_vars => DeletionInv'
  <1> SUFFICES ASSUME DeletionInv, [Next]_vars PROVE DeletionInv'
    OBVIOUS
  <1>1. RegistryInv' /\ TypeOK /\ TypeOK'
    BY RegistryNext DEF DeletionInv, RegistryInv
  <1>2. ObjInv'
    BY <1>1, ObjNext DEF DeletionInv, ObjInv
  <1>3. QED
    BY <1>1, <1>2 DEF DeletionInv, ObjInv

(* Initially nothing is stored, cached or fetched.                         *)
LEMMA InitDeletion == Init => DeletionInv
  <1> SUFFICES ASSUME Init PROVE DeletionInv
    OBVIOUS
  <1>1. RegistryInv
    BY InitRegistry
  <1>2. /\ obj = NoObj /\ cache = NoObj /\ worker.phase = "idle"
        /\ \A u \in UIDs : registry[u] = NoEntry
        /\ \A r \in RunnerIds : runners[r].latest = NoObj
    BY DEF Init
  <1>3. QED
    BY <1>1, <1>2 DEF DeletionInv, CopiesCurrent, CopyCurrent,
                      WorkerMatchesCache, DeletingKeepsFinalizer,
                      CachedFinalizerHeld, RegistryHeld

(* The inductive invariant holds in every reachable state: every copy of  *)
(* the resource the operator holds is stale or the stored object up to its *)
(* status, and every store entry and every finalizer the cache shows is   *)
(* backed by a stored object of that UID that still has its finalizer.     *)
THEOREM DeletionInvCorrect == Spec => []DeletionInv
  <1>1. Init => DeletionInv
    BY InitDeletion
  <1>2. DeletionInv /\ [Next]_vars => DeletionInv'
    BY DeletionNext
  <1>3. QED
    BY <1>1, <1>2, PTL DEF Spec

(* No runner goroutine outlives its resource: a runner that is alive and   *)
(* not cancelled serves the UID of the stored object, for every number of  *)
(* UIDs, runners, retries, ticks, edits and crashes.                       *)
THEOREM DeletionCorrect == Spec => []DeletionSafety
  <1>1. DeletionInv => DeletionSafety
    <2> SUFFICES ASSUME DeletionInv, NEW r \in RunnerIds, Active(r)
                 PROVE  obj # NoObj /\ obj.uid = runners[r].uid
      BY DEF DeletionSafety
    <2>1. registry[runners[r].uid] # NoEntry /\ runners[r].uid \in UIDs
      BY DEF DeletionInv, RegistryInv, RegistryTracksRunners, TypeOK, Runners
    <2>2. QED
      BY <2>1 DEF DeletionInv, RegistryHeld
  <1>2. QED
    BY <1>1, DeletionInvCorrect, PTL
=============================================================================
