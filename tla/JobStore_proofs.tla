--------------------------- MODULE JobStore_proofs ---------------------------
(***************************************************************************)
(* Proof that cleanup spares the staging directories of living creations,  *)
(* for any jobs, callers and faults.                                       *)
(***************************************************************************)
EXTENDS JobStore, TLAPS

(* The step of p keeps the invariant for p, and leaves every other caller  *)
(* its place, its identifiers, the lock of the staging directory it works  *)
(* in and, if it fills that directory, what is in it.                      *)
Filling == {"manifest", "job", "rename"}

Fits(p) == Placed(p) /\ Guarded(p) /\ Spared(p)

Frame(p) ==
    /\ fresh' \subseteq fresh
    /\ \A q \in Procs \ {p} :
          /\ pc'[q] = pc[q] /\ job'[q] = job[q] /\ todo'[q] = todo[q]
          /\ pc[q] \in Staging => stageLock'[job[q]] = stageLock[job[q]]
          /\ pc[q] \in Filling => stage'[job[q]] = stage[job[q]]

Good(p) == TypeOK' /\ Untouched' /\ Fits(p)' /\ Alone(p)' /\ Frame(p)

(* What is good for p keeps the invariant for everybody.                   *)
LEMMA GoodStep ==
    ASSUME IStore, NEW p \in Procs, Good(p)
    PROVE  IStore'
<1>1. ASSUME NEW q \in Procs \ {p}
      PROVE  Fits(q)'
  BY <1>1 DEF IStore, Good, Frame, Fits, Placed, Guarded, Spared,
              StagingIsSpared, Staging, Filling, Visiting
<1>2. ASSUME NEW q \in Procs \ {p}
      PROVE  Alone(q)'
  BY <1>2 DEF IStore, Good, Frame, Alone
<1> QED
  BY <1>1, <1>2 DEF Good, IStore, Fits, StagingIsSpared

(* Freeing the locks of p keeps their type and everybody else's locks.     *)
LEMMA FreedLocks ==
    ASSUME NEW lock \in [Jobs -> Procs \cup {Nobody}], NEW p \in Procs
    PROVE  /\ Freed(lock, p) \in [Jobs -> Procs \cup {Nobody}]
           /\ \A j \in Jobs : lock[j] # p => Freed(lock, p)[j] = lock[j]
           /\ \A j \in Jobs : lock[j] = Nobody => Freed(lock, p)[j] = Nobody
BY DEF Freed

(* When p frees its stage locks, those of others and of identifiers that   *)
(* were not drawn stay what they are.                                      *)
LEMMA FreedStageLocks ==
    ASSUME IStore, NEW p \in Procs, stageLock' = Freed(stageLock, p)
    PROVE  /\ \A j \in Jobs : stageLock[j] # p => stageLock'[j] = stageLock[j]
           /\ \A j \in fresh : stageLock[j] = Nobody /\ stageLock'[j] = stageLock[j]
<1>1. stageLock \in [Jobs -> Procs \cup {Nobody}] /\ fresh \subseteq Jobs
  BY DEF IStore, TypeOK
<1>2. \A j \in fresh : stageLock[j] = Nobody
  BY DEF IStore, Untouched
<1> QED
  BY <1>1, <1>2, FreedLocks

(* A call of p that ends, whatever it leaves of a directory that is not    *)
(* another creation's, is good.                                            *)
LEMMA ReturnIsGood ==
    ASSUME IStore, NEW p \in Procs, NEW how \in {"done", "missing", "corrupt"},
           Return(p, how), UNCHANGED fresh, stale' \subseteq Jobs,
           stage' \in [Jobs -> SUBSET Entries],
           dir' \in [Jobs -> SUBSET Entries], faults' \in Nat,
           \A j \in Jobs \ {job[p]} : stage'[j] = stage[j] /\ dir'[j] = dir[j],
           stage' = stage \/ pc[p] \in Staging \cup {"unstage"}
    PROVE  Good(p)
<1> USE DEF Return, Goto
<1>1. TypeOK'
  BY FreedLocks DEF IStore, TypeOK, Labels
<1>2. ASSUME NEW j \in fresh
      PROVE  /\ stage'[j] = {} /\ dir'[j] = {}
             /\ stageLock'[j] = Nobody
             /\ \A q \in Procs : job'[q] # j
  <2>1. /\ j \in Jobs /\ j # job[p]
        /\ stage[j] = {} /\ dir[j] = {} /\ stageLock[j] = Nobody
        /\ \A q \in Procs : job[q] # j
    BY DEF IStore, TypeOK, Untouched
  <2>2. stageLock'[j] = Nobody
    BY <2>1, FreedLocks DEF IStore, TypeOK
  <2>3. \A q \in Procs : job'[q] # j
    BY <2>1, StoreConstantsOK DEF IStore, TypeOK
  <2> QED
    BY <2>1, <2>2, <2>3
<1>3. Fits(p)'
  BY DEF IStore, TypeOK, Fits, Placed, Guarded, Spared, Staging, Visiting
<1>4. Alone(p)'
  BY DEF IStore, TypeOK, Alone, Creating
<1>5. Frame(p)
  <2>1. ASSUME NEW q \in Procs \ {p}, pc[q] \in Staging
        PROVE  stageLock'[job[q]] = stageLock[job[q]]
    <3>1. job[q] \in Jobs /\ stageLock[job[q]] = q
      BY <2>1 DEF IStore, Placed, Guarded, Staging
    <3> QED
      BY <3>1, FreedLocks DEF IStore, TypeOK
  <2>2. ASSUME NEW q \in Procs \ {p}, pc[q] \in Filling
        PROVE  stage'[job[q]] = stage[job[q]]
    <3>1. job[q] \in Jobs /\ stageLock[job[q]] = q
      BY <2>2 DEF IStore, Placed, Guarded, Staging, Filling
    <3>2. ASSUME pc[p] \in Staging \cup {"unstage"}
          PROVE  job[p] # job[q]
      BY <2>2, <3>1, <3>2 DEF IStore, Guarded, Alone, Creating, Filling
    <3> QED
      BY <3>1, <3>2
  <2> QED
    BY <2>1, <2>2 DEF IStore, TypeOK, Frame
<1> QED
  BY <1>1, <1>2, <1>3, <1>4, <1>5 DEF Good, Untouched

(* A step of p to another place, which touches no staging directory but    *)
(* the one it works in, and no lock but a free one and its own.            *)
Onward(p) ==
    /\ fresh' = fresh
    /\ \A j \in fresh : /\ stage'[j] = stage[j] /\ dir'[j] = dir[j]
                        /\ stageLock'[j] = stageLock[j]
    /\ \A j \in Jobs : stage'[j] = stage[j]
                       \/ (job[p] = j /\ pc[p] \in Staging)
    /\ \A j \in Jobs : stageLock'[j] = stageLock[j]
                       \/ stageLock[j] \in {p, Nobody}
    /\ \A q \in Procs \ {p} : /\ pc'[q] = pc[q] /\ job'[q] = job[q]
                              /\ todo'[q] = todo[q]
    /\ job'[p] \notin fresh
    /\ pc'[p] \in Creating => pc[p] \in Creating /\ job'[p] = job[p]

(* Such a step is good. *)
LEMMA OnwardIsGood ==
    ASSUME IStore, NEW p \in Procs, TypeOK', Fits(p)', Onward(p)
    PROVE  Good(p)
<1> USE DEF Onward
<1>1. Untouched'
  BY DEF IStore, TypeOK, Untouched
<1>2. ASSUME NEW q \in Procs \ {p}, pc[q] \in Staging
      PROVE  /\ stage'[job[q]] = stage[job[q]]
             /\ stageLock'[job[q]] = stageLock[job[q]]
  <2>1. job[q] \in Jobs /\ stageLock[job[q]] = q
    BY <1>2 DEF IStore, Placed, Guarded, Staging
  <2>2. pc[p] \in Staging => job[p] # job[q]
    BY <2>1 DEF IStore, Guarded
  <2> QED
    BY <2>1, <2>2, StoreConstantsOK
<1>3. Frame(p)
  BY <1>2 DEF Frame, Filling, Staging
<1>4. Alone(p)'
  BY DEF IStore, Alone
<1> QED
  BY <1>1, <1>3, <1>4 DEF Good

(* Nobody is at an identifier that was not drawn.                          *)
LEMMA DrawnFirst ==
    ASSUME IStore, NEW p \in Procs
    PROVE  job[p] \notin fresh
BY DEF IStore, Untouched

(* A step of p that changes nothing but its place is good, if it does not  *)
(* enter a staging directory.                                              *)
LEMMA ProceedIsGood ==
    ASSUME IStore, NEW p \in Procs, NEW label \in Labels, Proceed(p, label),
           UNCHANGED files, label \notin Staging,
           label \in Creating => pc[p] \in Creating,
           label \notin {"idle", "clean", "list"} => job[p] \in Jobs,
           label \in Visiting => pc[p] \in Visiting
    PROVE  Good(p)
<1> USE DEF Proceed, Goto, files, locks
<1>1. TypeOK'
  BY DEF IStore, TypeOK
<1>2. Fits(p)'
  BY DEF IStore, TypeOK, Fits, Placed, Guarded, Spared, Staging
<1>3. \A q \in Procs \ {p} : /\ pc'[q] = pc[q] /\ job'[q] = job[q]
                             /\ todo'[q] = todo[q]
  BY DEF IStore, TypeOK
<1>4. fresh' = fresh /\ stage' = stage /\ dir' = dir /\ stageLock' = stageLock
  OBVIOUS
<1>5. job'[p] \notin fresh
  BY DrawnFirst
<1>6. Onward(p)
  BY <1>3, <1>4, <1>5 DEF Onward
<1> QED
  BY <1>1, <1>2, <1>6, OnwardIsGood

-----------------------------------------------------------------------------
(* The calls start.                                                        *)
LEMMA StartIsGood ==
    ASSUME IStore, NEW p \in Procs, Start(p)
    PROVE  Good(p)
<1> USE DEF Goto, files, locks, Labels, Staging, Visiting, Creating
<1>1. ASSUME NEW c \in Calls, StartCleaning(p, c)
      PROVE  Good(p)
  <2>1. Staged \subseteq Jobs \ fresh
    BY DEF Staged, IStore, Untouched
  <2>2. TypeOK'
    BY <1>1, <2>1 DEF StartCleaning, IStore, TypeOK
  <2>3. Fits(p)'
    BY <1>1, <2>1 DEF StartCleaning, IStore, TypeOK, Fits, Placed, Guarded, Spared
  <2>4. Onward(p)
    BY <1>1, DrawnFirst DEF Onward, StartCleaning, IStore, TypeOK
  <2> QED
    BY <2>2, <2>3, <2>4, OnwardIsGood
<1>2. ASSUME NEW c \in Calls, NEW j \in Jobs, StartOn(p, c, j)
      PROVE  Good(p)
  <2>1. j \notin fresh
    BY <1>2 DEF StartOn, Visible, IStore, Untouched
  <2>2. TypeOK'
    BY <1>2 DEF StartOn, IStore, TypeOK
  <2>3. Fits(p)'
    BY <1>2 DEF StartOn, IStore, TypeOK, Fits, Placed, Guarded, Spared
  <2>4. Onward(p)
    BY <1>2, <2>1, DrawnFirst DEF Onward, StartOn, IStore, TypeOK
  <2> QED
    BY <2>1, <2>2, <2>3, <2>4, OnwardIsGood
<1> QED
  BY <1>1, <1>2 DEF Start

(* Cleanup: a directory is removed under its lock only.                    *)
LEMMA CleaningIsGood ==
    ASSUME IStore, NEW p \in Procs,
           \/ \E j \in Jobs : CleanNext(p, j)
           \/ CleanStat(p) \/ CleanStatRaises(p) \/ CleanLock(p) \/ CleanRemove(p)
    PROVE  Good(p)
<1> USE DEF Goto, files, locks, Labels, Staging, Visiting, Creating
<1>1. ASSUME NEW j \in Jobs, CleanNext(p, j)
      PROVE  Good(p)
  <2>1. j \notin fresh
    BY <1>1 DEF CleanNext, IStore, Placed
  <2>2. TypeOK'
    BY <1>1 DEF CleanNext, IStore, TypeOK
  <2>3. Fits(p)'
    BY <1>1 DEF CleanNext, IStore, TypeOK, Fits, Placed, Guarded, Spared
  <2>4. Onward(p)
    BY <1>1, <2>1, DrawnFirst DEF Onward, CleanNext, IStore, TypeOK
  <2> QED
    BY <2>1, <2>2, <2>3, <2>4, OnwardIsGood
<1>2. CASE CleanStat(p)
  BY <1>2, ProceedIsGood DEF CleanStat, IStore, Placed
<1>3. CASE CleanStatRaises(p)
  BY <1>3, ReturnIsGood DEF CleanStatRaises, IStore, TypeOK
<1>4. CASE CleanLock(p)
  <2>1. CASE stageLock[job[p]] = Nobody
    <3>1. job[p] \in Jobs \ fresh
      BY <1>4 DEF CleanLock, IStore, Placed, Untouched
    <3>2. TypeOK'
      BY <1>4, <2>1, <3>1 DEF CleanLock, Take, IStore, TypeOK
    <3>3. Fits(p)'
      BY <1>4, <2>1, <3>1 DEF CleanLock, Take, IStore, TypeOK, Fits, Placed, Guarded, Spared
    <3>4. Onward(p)
      BY <1>4, <2>1, <3>1, DrawnFirst DEF Onward, CleanLock, Take, IStore, TypeOK
    <3> QED
      BY <3>1, <3>2, <3>3, <3>4, OnwardIsGood
  <2>2. CASE stageLock[job[p]] # Nobody
    BY <1>4, <2>2, ProceedIsGood DEF CleanLock
  <2> QED
    BY <2>1, <2>2
<1>5. CASE CleanRemove(p)
  <2>1. job[p] \in Jobs \ fresh
    BY <1>5 DEF CleanRemove, IStore, Placed, Untouched
  <2>2. TypeOK'
    BY <1>5, <2>1, FreedLocks DEF CleanRemove, IStore, TypeOK
  <2>3. Fits(p)'
    BY <1>5 DEF CleanRemove, IStore, TypeOK, Fits, Placed, Guarded, Spared
  <2>4. /\ \A j \in Jobs : stageLock[j] # p => stageLock'[j] = stageLock[j]
        /\ \A j \in fresh : stageLock[j] = Nobody /\ stageLock'[j] = stageLock[j]
    BY <1>5, FreedStageLocks DEF CleanRemove
  <2>5. \A j \in Jobs \ {job[p]} : stage'[j] = stage[j]
    BY <1>5 DEF CleanRemove, IStore, TypeOK
  <2>6. /\ fresh' = fresh /\ dir' = dir
        /\ \A q \in Procs \ {p} : /\ pc'[q] = pc[q] /\ job'[q] = job[q]
                                  /\ todo'[q] = todo[q]
        /\ job'[p] \notin fresh
    BY <1>5, DrawnFirst DEF CleanRemove, IStore, TypeOK
  <2>7. Onward(p)
    BY <1>5, <2>1, <2>4, <2>5, <2>6 DEF Onward, CleanRemove, IStore, TypeOK
  <2> QED
    BY <2>2, <2>3, <2>7, OnwardIsGood
<1> QED
  BY <1>1, <1>2, <1>3, <1>4, <1>5

-----------------------------------------------------------------------------
(* A creation draws an identifier nobody has touched and takes its lock.   *)
LEMMA CreateStageIsGood ==
    ASSUME IStore, NEW p \in Procs, NEW k \in Jobs, CreateStage(p, k)
    PROVE  Good(p)
<1> USE DEF CreateStage, Goto, Take, files, locks, Labels, Staging, Visiting
<1>1. /\ k \in Jobs /\ k \in fresh
      /\ stage[k] = {} /\ dir[k] = {} /\ stageLock[k] = Nobody
      /\ \A q \in Procs : job[q] # k
  BY DEF IStore, Untouched
<1>2. TypeOK'
  BY <1>1 DEF IStore, TypeOK, Entries
<1>3. \A j \in Jobs \ {k} : /\ stage'[j] = stage[j] /\ dir'[j] = dir[j]
                            /\ stageLock'[j] = stageLock[j]
  BY DEF IStore, TypeOK
<1>4. /\ \A q \in Procs \ {p} : /\ pc'[q] = pc[q] /\ job'[q] = job[q]
                                /\ todo'[q] = todo[q]
      /\ job'[p] = k /\ k \notin fresh' /\ fresh' \subseteq fresh
  BY DEF IStore, TypeOK
<1>5. Untouched'
  BY <1>1, <1>3, <1>4 DEF IStore, TypeOK, Untouched
<1>6. Fits(p)'
  BY <1>1 DEF IStore, TypeOK, Fits, Placed, Guarded, Spared
<1>7. ASSUME NEW q \in Procs \ {p}, pc[q] \in Staging
      PROVE  /\ stage'[job[q]] = stage[job[q]]
             /\ stageLock'[job[q]] = stageLock[job[q]]
  BY <1>1, <1>3, <1>7 DEF IStore, Placed
<1>8. Alone(p)'
  BY <1>1, <1>4 DEF Alone
<1> QED
  BY <1>2, <1>4, <1>5, <1>6, <1>7, <1>8 DEF Good, Frame, Filling

(* A creation goes on under its lock, or fails and is removed.             *)
LEMMA CreatingIsGood ==
    ASSUME IStore, NEW p \in Procs,
           \/ WriteManifest(p) \/ WriteJob(p) \/ Rename(p) \/ Unstage(p)
           \/ Sync(p)
           \/ AppendCreated(p) \/ AppendToParent(p)
    PROVE  Good(p)
<1> USE DEF Goto, files, locks, Labels, Staging, Visiting, Creating
<1>1. CASE WriteManifest(p)
  <2>1. job[p] \in Jobs \ fresh
    BY <1>1, DrawnFirst DEF WriteManifest, StageFile, IStore, Placed
  <2>2. TypeOK'
    BY <1>1, <2>1 DEF WriteManifest, StageFile, Proceed, IStore, TypeOK, Entries, Whole
  <2>3. Fits(p)'
    BY <1>1, <2>1 DEF WriteManifest, StageFile, Proceed, IStore, TypeOK, Fits, Placed,
                     Guarded, Spared, StagingIsSpared, Whole
  <2>4. Onward(p)
    BY <1>1, <2>1 DEF WriteManifest, StageFile, Proceed, Onward, IStore, TypeOK
  <2> QED
    BY <2>2, <2>3, <2>4, OnwardIsGood
<1>2. CASE WriteJob(p)
  <2>1. job[p] \in Jobs \ fresh
    BY <1>2, DrawnFirst DEF WriteJob, StageFile, IStore, Placed
  <2>2. TypeOK'
    BY <1>2, <2>1 DEF WriteJob, StageFile, Proceed, IStore, TypeOK, Entries, Whole
  <2>3. Fits(p)'
    BY <1>2, <2>1 DEF WriteJob, StageFile, Proceed, IStore, TypeOK, Fits, Placed,
                     Guarded, Spared, StagingIsSpared, Whole
  <2>4. Onward(p)
    BY <1>2, <2>1 DEF WriteJob, StageFile, Proceed, Onward, IStore, TypeOK
  <2> QED
    BY <2>2, <2>3, <2>4, OnwardIsGood
<1>3. CASE Rename(p)
  <2>1. job[p] \in Jobs \ fresh
    BY <1>3, DrawnFirst DEF Rename, StageFile, IStore, Placed
  <2>2. TypeOK'
    BY <1>3, <2>1 DEF Rename, StageFile, Proceed, IStore, TypeOK, Entries, Whole
  <2>3. Fits(p)'
    BY <1>3, <2>1 DEF Rename, StageFile, Proceed, IStore, TypeOK, Fits, Placed,
                     Guarded, Spared, StagingIsSpared, Whole
  <2>4. Onward(p)
    BY <1>3, <2>1 DEF Rename, StageFile, Proceed, Onward, IStore, TypeOK
  <2> QED
    BY <2>2, <2>3, <2>4, OnwardIsGood
<1>4. CASE Sync(p)
  <2>1. job[p] \in Jobs \ fresh
    BY <1>4, DrawnFirst DEF Sync, IStore, Placed
  <2>2. TypeOK'
    BY <1>4, FreedLocks DEF Sync, IStore, TypeOK
  <2>3. Fits(p)'
    BY <1>4, <2>1 DEF Sync, IStore, TypeOK, Fits, Placed, Guarded, Spared
  <2>4. /\ \A j \in Jobs : stageLock[j] # p => stageLock'[j] = stageLock[j]
        /\ \A j \in fresh : stageLock[j] = Nobody /\ stageLock'[j] = stageLock[j]
    BY <1>4, FreedStageLocks DEF Sync
  <2>5. /\ fresh' = fresh /\ stage' = stage /\ dir' = dir
        /\ \A q \in Procs \ {p} : /\ pc'[q] = pc[q] /\ job'[q] = job[q]
                                  /\ todo'[q] = todo[q]
        /\ job'[p] \notin fresh /\ job' = job /\ pc[p] \in Creating
    BY <1>4, DrawnFirst DEF Sync, IStore, TypeOK
  <2>6. Onward(p)
    BY <2>4, <2>5 DEF Onward
  <2> QED
    BY <2>2, <2>3, <2>6, OnwardIsGood
<1>5. CASE AppendCreated(p)
  <2>1. job[p] \in Jobs \ fresh
    BY <1>5, DrawnFirst DEF AppendCreated, IStore, Placed
  <2>2. dir' \in [Jobs -> SUBSET Entries]
    BY <1>5 DEF AppendCreated, Logged, Entries, IStore, TypeOK
  <2>3. \A j \in Jobs \ {job[p]} : stage'[j] = stage[j] /\ dir'[j] = dir[j]
    BY <1>5 DEF AppendCreated, IStore, TypeOK
  <2>4. CASE call[p] = "retry"
    <3>1. TypeOK'
      BY <1>5, <2>2, <2>4 DEF AppendCreated, Proceed, IStore, TypeOK
    <3>2. Fits(p)'
      BY <1>5, <2>1, <2>4 DEF AppendCreated, Proceed, IStore, TypeOK, Fits,
                              Placed, Guarded, Spared
    <3>3. Onward(p)
      BY <1>5, <2>1, <2>3, <2>4 DEF AppendCreated, Proceed, Onward, IStore, TypeOK
    <3> QED
      BY <3>1, <3>2, <3>3, OnwardIsGood
  <2>5. CASE call[p] # "retry"
    BY <1>5, <2>2, <2>3, <2>5, ReturnIsGood DEF AppendCreated, IStore, TypeOK
  <2> QED
    BY <2>4, <2>5
<1>6. CASE AppendToParent(p)
  BY <1>6, ReturnIsGood DEF AppendToParent, IStore, TypeOK
<1>7. CASE Unstage(p)
  <2>1. job[p] \in Jobs
    BY <1>7 DEF Unstage, IStore, Placed
  <2>2. /\ stage' \in [Jobs -> SUBSET Entries]
        /\ \A j \in Jobs \ {job[p]} : stage'[j] = stage[j]
    BY <1>7, <2>1 DEF Unstage, IStore, TypeOK
  <2> QED
    BY <1>7, <2>2, ReturnIsGood DEF Unstage, IStore, TypeOK
<1> QED
  BY <1>1, <1>2, <1>3, <1>4, <1>5, <1>6, <1>7

(* A removal touches the entries of its own job only.                      *)
LEMMA RemovingIsGood ==
    ASSUME IStore, NEW p \in Procs,
           \/ RemoveLock(p) \/ RemoveScan(p) \/ RemoveDir(p)
           \/ \E e \in Entries : RemoveEntry(p, e)
    PROVE  Good(p)
<1> USE DEF Goto, Take, files, locks, Labels, Staging, Visiting, Creating
<1>1. CASE RemoveLock(p)
  <2>1. job[p] \in Jobs \ fresh
    BY <1>1, DrawnFirst DEF RemoveLock, IStore, Placed
  <2>2. TypeOK'
    BY <1>1, <2>1 DEF RemoveLock, IStore, TypeOK, Entries
  <2>3. Fits(p)'
    BY <1>1, <2>1 DEF RemoveLock, IStore, TypeOK, Fits, Placed, Guarded, Spared
  <2>4. Onward(p)
    BY <1>1, <2>1 DEF RemoveLock, Onward, IStore, TypeOK, Untouched
  <2> QED
    BY <2>2, <2>3, <2>4, OnwardIsGood
<1>2. CASE RemoveScan(p)
  <2>1. job[p] \in Jobs \ fresh
    BY <1>2, DrawnFirst DEF RemoveScan, IStore, Placed
  <2>2. TypeOK'
    BY <1>2, <2>1 DEF RemoveScan, IStore, TypeOK, Entries
  <2>3. Fits(p)'
    BY <1>2, <2>1 DEF RemoveScan, IStore, TypeOK, Fits, Placed, Guarded, Spared
  <2>4. Onward(p)
    BY <1>2, <2>1 DEF RemoveScan, Onward, IStore, TypeOK, Untouched
  <2> QED
    BY <2>2, <2>3, <2>4, OnwardIsGood
<1>3. CASE RemoveDir(p)
  <2>1. job[p] \in Jobs
    BY <1>3 DEF RemoveDir, IStore, Placed
  <2>2. /\ dir' \in [Jobs -> SUBSET Entries]
        /\ \A j \in Jobs \ {job[p]} : dir'[j] = dir[j]
    BY <1>3, <2>1 DEF RemoveDir, Entries, IStore, TypeOK
  <2> QED
    BY <1>3, <2>2, ReturnIsGood DEF RemoveDir, IStore, TypeOK
<1>4. ASSUME NEW e \in Entries, RemoveEntry(p, e)
      PROVE  Good(p)
  <2>1. job[p] \in Jobs \ fresh
    BY <1>4, DrawnFirst DEF RemoveEntry, IStore, Placed
  <2>2. TypeOK'
    BY <1>4, <2>1 DEF RemoveEntry, IStore, TypeOK, Entries
  <2>3. Fits(p)'
    BY <1>4, <2>1 DEF RemoveEntry, IStore, TypeOK, Fits, Placed, Guarded, Spared
  <2>4. Onward(p)
    BY <1>4, <2>1 DEF RemoveEntry, Onward, IStore, TypeOK, Untouched
  <2> QED
    BY <2>2, <2>3, <2>4, OnwardIsGood
<1> QED
  BY <1>1, <1>2, <1>3, <1>4

(* A listing visits jobs that have been created.                           *)
LEMMA ListingIsGood ==
    ASSUME IStore, NEW p \in Procs,
           \/ \E j \in Jobs : ListNext(p, j)
           \/ ListScan(p) \/ ListExists(p) \/ ListLoad(p) \/ ListDone(p)
    PROVE  Good(p)
<1> USE DEF Goto, files, locks, Labels, Staging, Visiting, Creating
<1>1. ASSUME NEW j \in Jobs, ListNext(p, j)
      PROVE  Good(p)
  <2>1. j \notin fresh
    BY <1>1 DEF ListNext, IStore, Placed
  <2>2. TypeOK'
    BY <1>1 DEF ListNext, IStore, TypeOK
  <2>3. Fits(p)'
    BY <1>1 DEF ListNext, IStore, TypeOK, Fits, Placed, Guarded, Spared
  <2>4. Onward(p)
    BY <1>1, <2>1 DEF ListNext, Onward, IStore, TypeOK
  <2> QED
    BY <2>2, <2>3, <2>4, OnwardIsGood
<1>2. CASE ListScan(p)
  <2>1. Visible \subseteq Jobs \ fresh
    BY DEF Visible, IStore, Untouched
  <2>2. TypeOK'
    BY <1>2, <2>1 DEF ListScan, IStore, TypeOK
  <2>3. Fits(p)'
    BY <1>2, <2>1 DEF ListScan, IStore, TypeOK, Fits, Placed, Guarded, Spared
  <2>4. Onward(p)
    BY <1>2, DrawnFirst DEF ListScan, Onward, IStore, TypeOK
  <2> QED
    BY <2>2, <2>3, <2>4, OnwardIsGood
<1>3. CASE ListExists(p)
  <2>1. CASE Whole \subseteq dir[job[p]]
    BY <1>3, <2>1, ProceedIsGood DEF ListExists, IStore, Placed
  <2>2. CASE ~(Whole \subseteq dir[job[p]])
    BY <1>3, <2>2, ReturnIsGood DEF ListExists, IStore, TypeOK
  <2> QED
    BY <2>1, <2>2
<1>4. CASE ListLoad(p)
  <2>1. CASE dir[job[p]] = {} \/ Whole \subseteq dir[job[p]]
    BY <1>4, <2>1, ProceedIsGood DEF ListLoad, IStore, Placed
  <2>2. CASE ~(dir[job[p]] = {} \/ Whole \subseteq dir[job[p]])
    BY <1>4, <2>2, ReturnIsGood DEF ListLoad, IStore, TypeOK
  <2> QED
    BY <2>1, <2>2
<1>5. CASE ListDone(p)
  BY <1>5, ReturnIsGood DEF ListDone, IStore, TypeOK
<1> QED
  BY <1>1, <1>2, <1>3, <1>4, <1>5

(* Updates and reads of events name a job that has been created.           *)
LEMMA UpdatingIsGood ==
    ASSUME IStore, NEW p \in Procs,
           \/ UpdateLock(p) \/ UpdateSave(p) \/ UpdateAppend(p)
           \/ EventsExist(p) \/ EventsLock(p) \/ GiveUp(p)
    PROVE  Good(p)
<1> USE DEF Goto, Take, files, locks, Labels, Staging, Visiting, Creating
<1>1. CASE UpdateLock(p)
  <2>1. CASE Whole \subseteq dir[job[p]]
    <3>1. job[p] \in Jobs \ fresh
      BY <1>1, DrawnFirst DEF UpdateLock, IStore, Placed
    <3>2. TypeOK'
      BY <1>1, <2>1, <3>1 DEF UpdateLock, IStore, TypeOK
    <3>3. Fits(p)'
      BY <1>1, <2>1, <3>1 DEF UpdateLock, IStore, TypeOK, Fits, Placed, Guarded, Spared
    <3>4. Onward(p)
      BY <1>1, <2>1, <3>1 DEF UpdateLock, Onward, IStore, TypeOK
    <3> QED
      BY <3>2, <3>3, <3>4, OnwardIsGood
  <2>2. CASE ~(Whole \subseteq dir[job[p]])
    BY <1>1, <2>2, ReturnIsGood DEF UpdateLock, IStore, TypeOK
  <2> QED
    BY <2>1, <2>2
<1>2. CASE UpdateSave(p)
  <2>1. CASE "job" \in dir[job[p]]
    BY <1>2, <2>1, ProceedIsGood DEF UpdateSave, IStore, Placed
  <2>2. CASE ~("job" \in dir[job[p]])
    BY <1>2, <2>2, ReturnIsGood DEF UpdateSave, IStore, TypeOK
  <2> QED
    BY <2>1, <2>2
<1>3. CASE UpdateAppend(p)
  <2>1. job[p] \in Jobs
    BY <1>3 DEF UpdateAppend, IStore, Placed
  <2>2. /\ dir' \in [Jobs -> SUBSET Entries]
        /\ \A j \in Jobs \ {job[p]} : dir'[j] = dir[j]
    BY <1>3, <2>1 DEF UpdateAppend, Logged, Entries, IStore, TypeOK
  <2> QED
    BY <1>3, <2>2, ReturnIsGood DEF UpdateAppend, IStore, TypeOK
<1>4. CASE EventsExist(p)
  <2>1. CASE "log" \in dir[job[p]]
    BY <1>4, <2>1, ProceedIsGood DEF EventsExist, IStore, Placed
  <2>2. CASE ~("log" \in dir[job[p]])
    BY <1>4, <2>2, ReturnIsGood DEF EventsExist, IStore, TypeOK
  <2> QED
    BY <2>1, <2>2
<1>5. CASE EventsLock(p)
  <2>1. job[p] \in Jobs
    BY <1>5 DEF EventsLock, IStore, Placed
  <2>2. /\ dir' \in [Jobs -> SUBSET Entries]
        /\ \A j \in Jobs \ {job[p]} : dir'[j] = dir[j]
    BY <1>5, <2>1 DEF EventsLock, Entries, IStore, TypeOK
  <2> QED
    BY <1>5, <2>2, ReturnIsGood DEF EventsLock, IStore, TypeOK
<1>6. CASE GiveUp(p)
  BY <1>6, ReturnIsGood DEF GiveUp, IStore, TypeOK
<1> QED
  BY <1>1, <1>2, <1>3, <1>4, <1>5, <1>6

(* Faults spare the directories of others.                                 *)
LEMMA FaultIsGood ==
    ASSUME IStore, NEW p \in Procs, Fault(p)
    PROVE  Good(p)
<1> USE DEF Goto, files, locks, Labels, Staging, Visiting, Creating
<1>1. faults' \in Nat
  BY DEF Fault, IStore, TypeOK
<1>2. CASE StageFails(p)
  <2>1. job[p] \in Jobs \ fresh
    BY <1>2, DrawnFirst DEF StageFails, IStore, Placed
  <2>2. TypeOK'
    BY <1>1, <1>2, FreedLocks DEF StageFails, IStore, TypeOK
  <2>3. Fits(p)'
    BY <1>2, <2>1 DEF StageFails, IStore, TypeOK, Fits, Placed, Guarded, Spared
  <2>4. /\ \A j \in Jobs : stageLock[j] # p => stageLock'[j] = stageLock[j]
        /\ \A j \in fresh : stageLock[j] = Nobody /\ stageLock'[j] = stageLock[j]
    BY <1>2, FreedStageLocks DEF StageFails
  <2>5. /\ fresh' = fresh /\ stage' = stage /\ dir' = dir
        /\ \A q \in Procs \ {p} : /\ pc'[q] = pc[q] /\ job'[q] = job[q]
                                  /\ todo'[q] = todo[q]
        /\ job'[p] \notin fresh /\ job' = job /\ pc[p] \in Creating
    BY <1>2, DrawnFirst DEF StageFails, IStore, TypeOK
  <2>6. Onward(p)
    BY <2>4, <2>5 DEF Onward
  <2> QED
    BY <2>2, <2>3, <2>6, OnwardIsGood
<1>3. CASE SyncFails(p)
  <2>1. job[p] \in Jobs \ fresh
    BY <1>3, DrawnFirst DEF SyncFails, IStore, Placed
  <2>2. TypeOK'
    BY <1>1, <1>3, FreedLocks DEF SyncFails, IStore, TypeOK
  <2>3. Fits(p)'
    BY <1>3, <2>1 DEF SyncFails, IStore, TypeOK, Fits, Placed, Guarded, Spared
  <2>4. /\ \A j \in Jobs : stageLock[j] # p => stageLock'[j] = stageLock[j]
        /\ \A j \in fresh : stageLock[j] = Nobody /\ stageLock'[j] = stageLock[j]
    BY <1>3, FreedStageLocks DEF SyncFails
  <2>5. /\ fresh' = fresh /\ stage' = stage /\ dir' = dir
        /\ \A q \in Procs \ {p} : /\ pc'[q] = pc[q] /\ job'[q] = job[q]
                                  /\ todo'[q] = todo[q]
        /\ job'[p] \notin fresh /\ job' = job /\ pc[p] \in Creating
    BY <1>3, DrawnFirst DEF SyncFails, IStore, TypeOK
  <2>6. Onward(p)
    BY <2>4, <2>5 DEF Onward
  <2> QED
    BY <2>2, <2>3, <2>6, OnwardIsGood
<1>4. CASE AppendFails(p)
  <2>1. job[p] \in Jobs \ fresh
    BY <1>4, DrawnFirst DEF AppendFails, IStore, Placed
  <2>2. TypeOK'
    BY <1>1, <1>4 DEF AppendFails, IStore, TypeOK
  <2>3. Fits(p)'
    BY <1>4, <2>1 DEF AppendFails, IStore, TypeOK, Fits, Placed, Guarded, Spared
  <2>4. Onward(p)
    BY <1>4, <2>1 DEF AppendFails, Onward, IStore, TypeOK
  <2> QED
    BY <2>2, <2>3, <2>4, OnwardIsGood
<1>5. CASE Crash(p)
  BY <1>1, <1>5, ReturnIsGood DEF Crash, IStore, TypeOK
<1> QED
  BY <1>2, <1>3, <1>4, <1>5 DEF Fault

-----------------------------------------------------------------------------
(* An empty store satisfies the invariant.                                 *)
LEMMA InitIStore == Init => IStore
BY StoreConstantsOK
   DEF Init, IStore, TypeOK, Untouched, Placed, Guarded, StagingIsSpared,
       Spared, Alone, Labels, Staging, Visiting, Creating

(* Every step of a caller is good for it.                                  *)
LEMMA StepIsGood ==
    ASSUME IStore, NEW p \in Procs, Start(p) \/ Step(p) \/ Fault(p)
    PROVE  Good(p)
BY StartIsGood, CleaningIsGood, CreateStageIsGood, CreatingIsGood,
   RemovingIsGood, ListingIsGood, UpdatingIsGood, FaultIsGood DEF Step

(* Every step keeps the invariant.                                         *)
LEMMA NextIStore == IStore /\ [Next]_vars => IStore'
<1> SUFFICES ASSUME IStore, [Next]_vars PROVE IStore'
  OBVIOUS
<1>1. ASSUME NEW p \in Procs, Start(p) \/ Step(p) \/ Fault(p)
      PROVE  IStore'
  BY <1>1, StepIsGood, GoodStep
<1>2. ASSUME NEW j \in Jobs, Age(j)
      PROVE  IStore'
  BY <1>2 DEF Age, locks, IStore, TypeOK, Untouched, Placed, Guarded, Alone,
              StagingIsSpared, Spared
<1>3. CASE UNCHANGED vars
  BY <1>3 DEF vars, IStore, TypeOK, Untouched, Placed, Guarded, Alone,
              StagingIsSpared, Spared
<1> QED
  BY <1>1, <1>2, <1>3 DEF Next

(* IStore is an inductive invariant.                                       *)
THEOREM StoreInvariance == Spec => []IStore
BY InitIStore, NextIStore, PTL DEF Spec

(* Whatever callers create, clean, list and remove, whoever dies, and      *)
(* however long a creation is stalled: it finds its staging directory as   *)
(* it left it (JobStore._cleanup_stale_staging_dirs).                      *)
THEOREM CreationsKeepTheirStaging == Spec => []StagingIsSpared
<1>1. IStore => StagingIsSpared
  BY DEF IStore
<1> QED
  BY <1>1, StoreInvariance, PTL

-----------------------------------------------------------------------------
(* Jobs are whole, if no sync fails and nobody dies (each leaves a job that *)
(* is removed without its lock, or half) and no events are read (a reader  *)
(* makes the directory of a removed job again).                            *)
OrderlyRemovals == {"sync", "crash"} \cap FaultKinds = {} /\ "events" \notin Calls

(* Where a caller relies on the directory of its job.                      *)
Relying == {"save", "log", "sync", "append", "parent", "discard", "rmscan",
            "unlink", "evexists", "evlock"}

(* What a step of p may do to the directories of jobs and their locks.     *)
LocksStay(p) ==
    \A j \in Jobs : jobLock[j] \notin {p, Nobody} => jobLock'[j] = jobLock[j]

OnlyOwn(p) == \A j \in Jobs \ {job[p]} : dir'[j] = dir[j]

Changes(p) ==
    \/ dir' = dir /\ pc[p] # "unlink"
    \/ pc[p] \in Creating \ {"unlink"} /\ Whole \subseteq dir'[job[p]]
    \/ pc[p] = "log" /\ dir[job[p]] \subseteq dir'[job[p]]
    \/ pc[p] = "unlink" /\ \/ dir'[job[p]] = {}
                           \/ pc'[p] = "unlink" /\ job'[p] = job[p]

(* Then whoever else relies on a directory still may.                      *)
LEMMA OthersKeep ==
    ASSUME IStore, IWhole, NEW p \in Procs, Good(p), LocksStay(p), OnlyOwn(p), Changes(p),
           NEW q \in Procs \ {p}
    PROVE  Keeps(q)'
<1>1. /\ pc'[q] = pc[q] /\ job'[q] = job[q] /\ todo'[q] = todo[q]
      /\ Keeps(q) /\ Keeps(p) /\ Placed(q) /\ Placed(p) /\ Alone(p)
  BY DEF Good, Frame, IStore, IWhole
<1>2. CASE pc[q] \notin Relying
  BY <1>1, <1>2 DEF Keeps, Relying
<1>3. CASE pc[q] \in Relying
  <2>1. job[q] \in Jobs
    BY <1>1, <1>3 DEF Placed, Relying
  <2>2. pc[q] \in {"save", "log", "rmscan", "unlink"} =>
            /\ jobLock[job[q]] = q
            /\ jobLock'[job[q]] = q
    BY <1>1, <2>1, StoreConstantsOK DEF Keeps, LocksStay
  <2>3. CASE job[p] # job[q]
    <3>1. dir'[job[q]] = dir[job[q]]
      BY <2>1, <2>3 DEF OnlyOwn
    <3> QED
      BY <1>1, <2>2, <3>1 DEF Keeps
  <2>4. CASE job[p] = job[q]
    <3>1. CASE dir' = dir
      BY <1>1, <2>2, <3>1 DEF Keeps
    <3>2. CASE pc[p] \in Creating \ {"unlink"} /\ Whole \subseteq dir'[job[p]]
      <4>1. pc[q] \notin Creating
        BY <1>1, <2>4, <3>2 DEF Alone
      <4> QED
        BY <1>1, <2>2, <2>4, <3>2, <4>1 DEF Keeps, Creating
    <3>3. CASE pc[p] = "log" /\ dir[job[p]] \subseteq dir'[job[p]]
      <4>1. pc[q] \notin {"save", "log", "rmscan", "unlink"}
        BY <1>1, <2>2, <2>4, <3>3 DEF Keeps
      <4> QED
        BY <1>1, <2>4, <3>3, <4>1 DEF Keeps
    <3>4. CASE pc[p] = "unlink"
      <4>1. pc[q] \notin {"save", "log", "rmscan", "unlink"}
        BY <1>1, <2>2, <2>4, <3>4 DEF Keeps
      <4>2. pc[q] \notin Creating
        BY <1>1, <2>4, <3>4 DEF Alone, Creating
      <4> QED
        BY <1>1, <4>1, <4>2 DEF Keeps, Creating
    <3> QED
      BY <3>1, <3>2, <3>3, <3>4 DEF Changes
  <2> QED
    BY <2>3, <2>4
<1> QED
  BY <1>2, <1>3

(* And every job others see is whole or being removed.                     *)
LEMMA JobsStayWhole ==
    ASSUME IStore, IWhole, NEW p \in Procs, Good(p), OnlyOwn(p), Changes(p)
    PROVE  VisibleIsWhole'
<1> SUFFICES ASSUME NEW j \in Jobs, dir'[j] # {}
             PROVE  Whole \subseteq dir'[j] \/ BeingRemoved(j)'
  BY DEF VisibleIsWhole, Visible
<1>1. \A q \in Procs \ {p} : pc'[q] = pc[q] /\ job'[q] = job[q]
  BY DEF Good, Frame
<1>2. Keeps(p) /\ VisibleIsWhole
  BY DEF IWhole
<1>3. CASE dir'[j] = dir[j] /\ pc[p] # "unlink"
  <2>1. Whole \subseteq dir[j] \/ BeingRemoved(j)
    BY <1>2, <1>3 DEF VisibleIsWhole, Visible
  <2>2. BeingRemoved(j) => BeingRemoved(j)'
    BY <1>1, <1>3 DEF BeingRemoved
  <2> QED
    BY <1>3, <2>1, <2>2
<1>4. CASE j # job[p] /\ pc[p] = "unlink"
  <2>1. dir'[j] = dir[j]
    BY <1>4 DEF OnlyOwn
  <2>2. Whole \subseteq dir[j] \/ BeingRemoved(j)
    BY <1>2, <2>1 DEF VisibleIsWhole, Visible
  <2>3. BeingRemoved(j) => BeingRemoved(j)'
    BY <1>1, <1>4 DEF BeingRemoved
  <2> QED
    BY <2>1, <2>2, <2>3
<1>5. CASE j = job[p] /\ pc[p] = "unlink"
  BY <1>5 DEF Changes, BeingRemoved, Creating
<1>6. CASE j # job[p] /\ pc[p] # "unlink"
  BY <1>3, <1>6 DEF OnlyOwn
<1>7. CASE j = job[p] /\ pc[p] # "unlink" /\ dir' # dir
  BY <1>2, <1>7 DEF Changes, Keeps
<1> QED
  BY <1>3, <1>4, <1>5, <1>6, <1>7

(* So a step of p that keeps its own place keeps the invariant.            *)
LEMMA WholeStep ==
    ASSUME IStore, IWhole, NEW p \in Procs, Good(p), Keeps(p)', LocksStay(p),
           OnlyOwn(p), Changes(p)
    PROVE  IWhole'
BY OthersKeep, JobsStayWhole DEF IWhole

(* A call that ends with the directories as they are.                      *)
LEMMA ReturnsKeepWhole ==
    ASSUME IStore, IWhole, NEW p \in Procs, NEW how, Return(p, how), Good(p),
           dir' = dir, pc[p] # "unlink"
    PROVE  IWhole'
<1>1. pc'[p] = "idle"
  BY DEF Return, Goto, IStore, TypeOK
<1>2. Keeps(p)'
  BY <1>1 DEF Keeps
<1>3. LocksStay(p)
  BY FreedLocks DEF Return, LocksStay, IStore, TypeOK
<1> QED
  BY <1>2, <1>3, WholeStep DEF OnlyOwn, Changes

(* A step to a place where p relies on no directory.                       *)
LEMMA ElsewhereKeepsWhole ==
    ASSUME IStore, IWhole, NEW p \in Procs, Good(p), UNCHANGED <<dir, jobLock>>,
           pc[p] # "unlink", pc'[p] \notin Relying
    PROVE  IWhole'
<1>1. Keeps(p)'
  BY DEF Keeps, Relying
<1> QED
  BY <1>1, WholeStep DEF LocksStay, OnlyOwn, Changes

(* Creations, until their job is visible, and cleanup.                     *)
LEMMA CreationsKeepWhole ==
    ASSUME OrderlyRemovals, IStore, IWhole, NEW p \in Procs,
           \/ Start(p)
           \/ \E j \in Jobs : CleanNext(p, j) \/ CreateStage(p, j)
           \/ CleanStat(p) \/ CleanStatRaises(p) \/ CleanLock(p) \/ CleanRemove(p)
           \/ WriteManifest(p) \/ WriteJob(p) \/ Unstage(p) \/ StageFails(p)
    PROVE  Good(p) => IWhole'
<1> SUFFICES ASSUME Good(p) PROVE IWhole'
  OBVIOUS
<1> USE DEF Goto, Relying, files, locks
<1>1. pc \in [Procs -> Labels]
  BY DEF IStore, TypeOK
<1>2. CASE Start(p)
  <2>1. ASSUME NEW c \in Calls, StartCleaning(p, c) PROVE IWhole'
    BY <1>1, <2>1, ElsewhereKeepsWhole DEF StartCleaning
  <2>2. ASSUME NEW c \in Calls \cap {"update", "events"}, NEW j \in Jobs, StartOn(p, c, j)
        PROVE  IWhole'
    <3>1. c = "update"
      BY DEF OrderlyRemovals
    <3> QED
      BY <1>1, <2>2, <3>1, ElsewhereKeepsWhole DEF StartOn
  <2> QED
    BY <1>2, <2>1, <2>2 DEF Start
<1>3. ASSUME NEW j \in Jobs, CleanNext(p, j) PROVE IWhole'
  BY <1>1, <1>3, ElsewhereKeepsWhole DEF CleanNext
<1>4. ASSUME NEW j \in Jobs, CreateStage(p, j) PROVE IWhole'
  BY <1>1, <1>4, ElsewhereKeepsWhole DEF CreateStage
<1>5. CASE CleanStat(p)
  BY <1>1, <1>5, ElsewhereKeepsWhole DEF CleanStat, Proceed
<1>6. CASE CleanStatRaises(p)
  BY <1>6, ReturnsKeepWhole DEF CleanStatRaises
<1>7. CASE CleanLock(p)
  BY <1>1, <1>7, ElsewhereKeepsWhole DEF CleanLock, Proceed
<1>8. CASE CleanRemove(p)
  BY <1>1, <1>8, ElsewhereKeepsWhole DEF CleanRemove
<1>9. CASE WriteManifest(p) \/ WriteJob(p)
  BY <1>1, <1>9, ElsewhereKeepsWhole DEF WriteManifest, WriteJob, StageFile, Proceed
<1>10. CASE Unstage(p)
  BY <1>10, ReturnsKeepWhole DEF Unstage
<1>11. CASE StageFails(p)
  BY <1>1, <1>11, ElsewhereKeepsWhole DEF StageFails
<1> QED
  BY <1>2, <1>3, <1>4, <1>5, <1>6, <1>7, <1>8, <1>9, <1>10, <1>11

(* A creation whose job is visible: it stays whole, or is removed under    *)
(* its lock.                                                               *)
LEMMA VisibleCreationsKeepWhole ==
    ASSUME IStore, IWhole, NEW p \in Procs, Good(p),
           \/ Rename(p) \/ Sync(p) \/ AppendCreated(p) \/ AppendToParent(p)
           \/ AppendFails(p)
    PROVE  IWhole'
<1> USE DEF Goto, files, locks
<1>1. /\ pc \in [Procs -> Labels] /\ dir \in [Jobs -> SUBSET Entries]
      /\ Placed(p) /\ Spared(p) /\ Keeps(p)
  BY DEF IStore, TypeOK, StagingIsSpared, IWhole
<1>2. CASE Rename(p)
  <2>1. /\ pc[p] = "rename" /\ pc'[p] = "sync" /\ job[p] \in Jobs /\ job' = job
        /\ jobLock' = jobLock /\ stage[job[p]] = {"dir"} \cup Whole
        /\ dir' = [dir EXCEPT ![job[p]] = stage[job[p]]]
    BY <1>1, <1>2 DEF Rename, Proceed, Placed, Spared
  <2>2. dir'[job[p]] = {"dir"} \cup Whole /\ OnlyOwn(p)
    BY <1>1, <2>1 DEF OnlyOwn
  <2>3. Keeps(p)'
    BY <2>1, <2>2 DEF Keeps
  <2>4. Changes(p) /\ LocksStay(p)
    BY <2>1, <2>2 DEF Changes, Creating, LocksStay
  <2> QED
    BY <2>2, <2>3, <2>4, WholeStep
<1>3. CASE Sync(p)
  <2>1. Keeps(p)'
    BY <1>1, <1>3 DEF Sync, Keeps
  <2> QED
    BY <1>3, <2>1, WholeStep DEF Sync, LocksStay, OnlyOwn, Changes
<1>4. CASE AppendCreated(p)
  <2>1. /\ pc[p] = "append" /\ job[p] \in Jobs
        /\ dir' = [dir EXCEPT ![job[p]] = Logged(@)]
    BY <1>1, <1>4 DEF AppendCreated, Placed
  <2>2. dir'[job[p]] = Logged(dir[job[p]]) /\ OnlyOwn(p)
    BY <1>1, <2>1 DEF OnlyOwn
  <2>3. {"dir"} \cup Whole \subseteq dir'[job[p]]
    BY <1>1, <2>1, <2>2 DEF Keeps, Logged
  <2>4. Changes(p)
    BY <2>1, <2>3 DEF Changes, Creating
  <2>5. CASE Proceed(p, "parent")
    <3>1. Keeps(p)' /\ LocksStay(p)
      BY <1>1, <2>3, <2>5 DEF Proceed, Keeps, LocksStay
    <3> QED
      BY <2>2, <2>4, <3>1, WholeStep
  <2>6. CASE Return(p, "done")
    <3>1. pc'[p] = "idle"
      BY <1>1, <2>6 DEF Return
    <3>2. LocksStay(p)
      BY <2>6, FreedLocks DEF Return, LocksStay, IStore, TypeOK
    <3>3. Keeps(p)'
      BY <3>1 DEF Keeps
    <3> QED
      BY <2>2, <2>4, <3>2, <3>3, WholeStep
  <2> QED
    BY <1>4, <2>5, <2>6 DEF AppendCreated
<1>5. CASE AppendToParent(p)
  BY <1>5, ReturnsKeepWhole DEF AppendToParent
<1>6. CASE AppendFails(p)
  <2>1. Keeps(p)'
    BY <1>1, <1>6 DEF AppendFails, Keeps
  <2> QED
    BY <1>6, <2>1, WholeStep DEF AppendFails, LocksStay, OnlyOwn, Changes
<1> QED
  BY <1>2, <1>3, <1>4, <1>5, <1>6

(* A removal, entry by entry.                                              *)
LEMMA RemovalsKeepWhole ==
    ASSUME IStore, IWhole, NEW p \in Procs, Good(p),
           \/ RemoveLock(p) \/ RemoveScan(p) \/ RemoveDir(p)
           \/ \E e \in Entries : RemoveEntry(p, e)
    PROVE  IWhole'
<1> USE DEF Goto, files, locks
<1>1. /\ pc \in [Procs -> Labels] /\ dir \in [Jobs -> SUBSET Entries]
      /\ todo \in [Procs -> SUBSET (Jobs \cup Entries)]
      /\ jobLock \in [Jobs -> Procs \cup {Nobody}]
      /\ Placed(p) /\ Keeps(p)
  BY DEF IStore, TypeOK, IWhole
<1>2. CASE RemoveLock(p)
  <2>1. /\ pc[p] = "discard" /\ pc'[p] = "rmscan" /\ job[p] \in Jobs
        /\ jobLock[job[p]] = Nobody /\ jobLock' = [jobLock EXCEPT ![job[p]] = p]
        /\ dir' = dir /\ job' = job
    BY <1>1, <1>2 DEF RemoveLock, Take, Placed
  <2>2. Keeps(p)' /\ LocksStay(p)
    BY <1>1, <2>1 DEF Keeps, LocksStay
  <2> QED
    BY <2>1, <2>2, WholeStep DEF OnlyOwn, Changes
<1>3. CASE RemoveScan(p)
  <2>1. /\ pc[p] = "rmscan" /\ pc'[p] = "unlink" /\ todo'[p] = dir[job[p]] \ {"dir"}
        /\ dir' = dir /\ job' = job /\ jobLock' = jobLock
    BY <1>1, <1>3 DEF RemoveScan
  <2>2. Keeps(p)'
    BY <1>1, <2>1 DEF Keeps
  <2> QED
    BY <2>1, <2>2, WholeStep DEF LocksStay, OnlyOwn, Changes
<1>4. ASSUME NEW e \in Entries, RemoveEntry(p, e) PROVE IWhole'
  <2>1. /\ pc[p] = "unlink" /\ e \in todo[p] /\ job[p] \in Jobs
        /\ pc' = pc /\ job' = job /\ jobLock' = jobLock
        /\ todo'[p] = todo[p] \ {e}
        /\ dir'[job[p]] = dir[job[p]] \ {e}
        /\ OnlyOwn(p)
    BY <1>1, <1>4 DEF RemoveEntry, Placed, OnlyOwn
  <2>2. Keeps(p)'
    BY <1>1, <2>1 DEF Keeps
  <2> QED
    BY <2>1, <2>2, WholeStep DEF LocksStay, Changes
<1>5. CASE RemoveDir(p)
  <2>1. pc[p] = "unlink" /\ todo[p] = {} /\ job[p] \in Jobs /\ pc'[p] = "idle"
    BY <1>1, <1>5 DEF RemoveDir, Return, Placed
  <2>2. dir[job[p]] = {"dir"}
    BY <1>1, <2>1 DEF Keeps
  <2>3. dir'[job[p]] = {} /\ OnlyOwn(p)
    BY <1>1, <1>5, <2>1, <2>2 DEF RemoveDir, OnlyOwn
  <2>4. Keeps(p)'
    BY <2>1 DEF Keeps
  <2>5. LocksStay(p)
    BY <1>1, <1>5, FreedLocks DEF RemoveDir, Return, LocksStay
  <2> QED
    BY <2>1, <2>3, <2>4, <2>5, WholeStep DEF Changes
<1> QED
  BY <1>2, <1>3, <1>4, <1>5

(* Listings and updates.                                                   *)
LEMMA UsesKeepWhole ==
    ASSUME IStore, IWhole, NEW p \in Procs, Good(p),
           \/ \E j \in Jobs : ListNext(p, j)
           \/ ListScan(p) \/ ListExists(p) \/ ListLoad(p) \/ ListDone(p)
           \/ UpdateLock(p) \/ UpdateSave(p) \/ UpdateAppend(p)
           \/ EventsExist(p) \/ EventsLock(p) \/ GiveUp(p)
    PROVE  IWhole'
<1> USE DEF Goto, files, locks
<1>1. /\ pc \in [Procs -> Labels] /\ dir \in [Jobs -> SUBSET Entries]
      /\ jobLock \in [Jobs -> Procs \cup {Nobody}]
      /\ Placed(p) /\ Keeps(p)
  BY DEF IStore, TypeOK, IWhole
<1>2. ASSUME NEW j \in Jobs, ListNext(p, j) PROVE IWhole'
  BY <1>1, <1>2, ElsewhereKeepsWhole DEF ListNext, Relying
<1>3. CASE ListScan(p)
  BY <1>1, <1>3, ElsewhereKeepsWhole DEF ListScan, Relying
<1>4. CASE ListExists(p)
  <2>1. CASE Proceed(p, "load") /\ UNCHANGED files
    BY <1>1, <1>4, <2>1, ElsewhereKeepsWhole DEF ListExists, Proceed, Relying
  <2>2. CASE Return(p, "corrupt") /\ UNCHANGED files
    BY <1>4, <2>2, ReturnsKeepWhole DEF ListExists
  <2> QED
    BY <1>4, <2>1, <2>2 DEF ListExists
<1>5. CASE ListLoad(p)
  <2>1. CASE Proceed(p, "list") /\ UNCHANGED files
    BY <1>1, <1>5, <2>1, ElsewhereKeepsWhole DEF ListLoad, Proceed, Relying
  <2>2. CASE Return(p, "corrupt") /\ UNCHANGED files
    BY <1>5, <2>2, ReturnsKeepWhole DEF ListLoad
  <2> QED
    BY <1>5, <2>1, <2>2 DEF ListLoad
<1>6. CASE ListDone(p)
  BY <1>6, ReturnsKeepWhole DEF ListDone
<1>7. CASE UpdateLock(p)
  <2>1. CASE Whole \subseteq dir[job[p]]
    <3>1. /\ pc[p] = "lock" /\ pc'[p] = "save" /\ job[p] \in Jobs
          /\ jobLock[job[p]] = Nobody /\ jobLock' = [jobLock EXCEPT ![job[p]] = p]
          /\ dir' = dir /\ job' = job
      BY <1>1, <1>7, <2>1 DEF UpdateLock, Take, Placed
    <3>2. Keeps(p)' /\ LocksStay(p)
      BY <1>1, <2>1, <3>1 DEF Keeps, LocksStay
    <3> QED
      BY <3>1, <3>2, WholeStep DEF OnlyOwn, Changes
  <2>2. CASE ~(Whole \subseteq dir[job[p]])
    BY <1>7, <2>2, ReturnsKeepWhole DEF UpdateLock
  <2> QED
    BY <2>1, <2>2
<1>8. CASE UpdateSave(p)
  <2>1. CASE Proceed(p, "log") /\ UNCHANGED files
    <3>1. Keeps(p)'
      BY <1>1, <1>8, <2>1 DEF UpdateSave, Proceed, Keeps
    <3> QED
      BY <1>8, <2>1, <3>1, WholeStep DEF UpdateSave, Proceed, LocksStay, OnlyOwn, Changes
  <2>2. CASE Return(p, "done") /\ UNCHANGED files
    BY <1>8, <2>2, ReturnsKeepWhole DEF UpdateSave
  <2> QED
    BY <1>8, <2>1, <2>2 DEF UpdateSave
<1>9. CASE UpdateAppend(p)
  <2>1. /\ pc[p] = "log" /\ job[p] \in Jobs /\ pc'[p] = "idle"
        /\ dir'[job[p]] = Logged(dir[job[p]]) /\ OnlyOwn(p)
    BY <1>1, <1>9 DEF UpdateAppend, Return, Placed, OnlyOwn
  <2>2. Changes(p)
    BY <2>1 DEF Changes, Logged
  <2>3. Keeps(p)'
    BY <2>1 DEF Keeps
  <2>4. LocksStay(p)
    BY <1>1, <1>9, FreedLocks DEF UpdateAppend, Return, LocksStay
  <2> QED
    BY <2>1, <2>2, <2>3, <2>4, WholeStep
<1>10. ~EventsExist(p) /\ ~EventsLock(p)
  BY <1>1 DEF EventsExist, EventsLock, Keeps
<1>11. CASE GiveUp(p)
  BY <1>11, ReturnsKeepWhole DEF GiveUp
<1> QED
  BY <1>2, <1>3, <1>4, <1>5, <1>6, <1>7, <1>8, <1>9, <1>10, <1>11

(* Every step keeps it.                                                    *)
LEMMA NextIWhole ==
    ASSUME OrderlyRemovals, IStore, IWhole, [Next]_vars
    PROVE  IWhole'
<1>1. ASSUME NEW p \in Procs, Start(p) \/ Step(p) \/ Fault(p)
      PROVE  IWhole'
  <2>1. Good(p)
    BY <1>1, StepIsGood
  <2>2. ~SyncFails(p) /\ ~Crash(p)
    BY DEF OrderlyRemovals, SyncFails, Crash
  <2> QED
    BY <1>1, <2>1, <2>2, CreationsKeepWhole, VisibleCreationsKeepWhole, RemovalsKeepWhole,
       UsesKeepWhole DEF Step, Fault
<1>2. ASSUME NEW j \in Jobs, Age(j)
      PROVE  IWhole'
  BY <1>2 DEF Age, locks, IWhole, VisibleIsWhole, Visible, BeingRemoved, Keeps
<1>3. CASE UNCHANGED vars
  BY <1>3 DEF vars, IWhole, VisibleIsWhole, Visible, BeingRemoved, Keeps
<1> QED
  BY <1>1, <1>2, <1>3 DEF Next

(* VisibleIsWhole: however creations, retries, removals, updates and       *)
(* listings interleave and whatever writes fail before the rename or in    *)
(* the log, a job others can see has its job.json and manifest.json, or is *)
(* just being removed under its lock (JobStore.remove).                    *)
THEOREM VisibleJobsAreWhole ==
    ASSUME OrderlyRemovals
    PROVE  Spec => []VisibleIsWhole
<1>1. Init => IWhole
  BY DEF Init, IWhole, VisibleIsWhole, Visible, Keeps
<1>2. IStore /\ IWhole /\ [Next]_vars => IWhole'
  BY NextIWhole
<1>3. IWhole => VisibleIsWhole
  BY DEF IWhole
<1> QED
  BY <1>1, <1>2, <1>3, StoreInvariance, PTL DEF Spec
=============================================================================
