------------------------------ MODULE JobStore ------------------------------
(***************************************************************************)
(* The directory of jobs that every process of FECreator shares: creation  *)
(* through a staging directory and a rename, removal of a job whose        *)
(* creation failed, cleanup of stale staging directories, listing, and the *)
(* updates and event reads of other callers.                               *)
(*                                                                         *)
(* A directory is the set of its entries, "dir" itself included, so that   *)
(* an absent one is {}.  Directories are read and removed entry by entry,  *)
(* as the file system lets the code do; locks are held by name.            *)
(***************************************************************************)
EXTENDS FiniteSets, Naturals

CONSTANTS
    Jobs,        (* job identifiers (uuid4: never drawn twice)               *)
    NoJob,       (* the job of a caller that is at none                      *)
    Procs,       (* callers: threads and processes                           *)
    Nobody,      (* the holder of a free lock                                *)
    Calls,       (* the calls this instance lets callers make                *)
    FaultKinds,  (* what may go wrong, see Fault                             *)
    MaxFaults    (* bound on what goes wrong in a behaviour                  *)

ASSUME StoreConstantsOK ==
    /\ Nobody \notin Procs /\ NoJob \notin Jobs
    /\ Calls \subseteq {"create", "retry", "list", "update", "events"}
    /\ FaultKinds \subseteq {"write", "sync", "append", "crash"}
    /\ MaxFaults \in Nat

VARIABLES
    fresh,              (* identifiers not drawn yet                         *)
    stage, dir,         (* entries of .tmp-<job> and of <job>                *)
    stale,              (* staging directories untouched for 300 s           *)
    stageLock, jobLock, (* holders of the two locks of each job              *)
    pc, call, job, todo,(* what each caller does, on which job, what is left *)
    result,             (* whether the last call of each met a surprise     *)
    faults

files == <<fresh, stage, dir, stale>>
locks == <<stageLock, jobLock>>
vars == <<fresh, stage, dir, stale, stageLock, jobLock,
          pc, call, job, todo, result, faults>>

Whole == {"manifest", "job"}
Entries == {"dir", "manifest", "job", "log", "loglock"}

Labels == {"idle", "clean", "stat", "cleanlock", "cleanrm",
           "manifest", "job", "rename", "unstage", "sync", "append", "parent",
           "discard", "rmscan", "unlink", "list", "exists", "load",
           "lock", "save", "log", "evexists", "evlock"}

TypeOK ==
    /\ fresh \subseteq Jobs /\ stale \subseteq Jobs
    /\ stage \in [Jobs -> SUBSET Entries] /\ dir \in [Jobs -> SUBSET Entries]
    /\ stageLock \in [Jobs -> Procs \cup {Nobody}]
    /\ jobLock \in [Jobs -> Procs \cup {Nobody}]
    /\ pc \in [Procs -> Labels]
    /\ call \in [Procs -> Calls \cup {"none"}]
    /\ job \in [Procs -> Jobs \cup {NoJob}]
    /\ todo \in [Procs -> SUBSET (Jobs \cup Entries)]
    /\ result \in [Procs -> {"done", "missing", "corrupt"}]
    /\ faults \in Nat

Init ==
    /\ fresh = Jobs
    /\ stage = [j \in Jobs |-> {}] /\ dir = [j \in Jobs |-> {}]
    /\ stale = {}
    /\ stageLock = [j \in Jobs |-> Nobody] /\ jobLock = [j \in Jobs |-> Nobody]
    /\ pc = [p \in Procs |-> "idle"] /\ call = [p \in Procs |-> "none"]
    /\ job = [p \in Procs |-> NoJob]
    /\ todo = [p \in Procs |-> {}]
    /\ result = [p \in Procs |-> "done"]
    /\ faults = 0

-----------------------------------------------------------------------------
Goto(p, label)   == pc' = [pc EXCEPT ![p] = label]
Take(lock, j, p) == [lock EXCEPT ![j] = p]
(* Mutant: a lock outlives the call or the process that held it. *)
NotFreed(lock, p) == lock

Freed(lock, p)   == [j \in Jobs |-> IF lock[j] = p THEN Nobody ELSE lock[j]]

(* The call of p ends and leaves its locks. *)
Return(p, how) ==
    /\ Goto(p, "idle")
    /\ call' = [call EXCEPT ![p] = "none"]
    /\ todo' = [todo EXCEPT ![p] = {}]
    /\ result' = [result EXCEPT ![p] = how]
    /\ stageLock' = Freed(stageLock, p)
    /\ jobLock' = Freed(jobLock, p)
    /\ job' = [job EXCEPT ![p] = NoJob]

(* p goes on to label, on the same job, with its locks. *)
Proceed(p, label) ==
    Goto(p, label) /\ UNCHANGED <<locks, call, job, todo, result, faults>>

Visible == {j \in Jobs : dir[j] # {}}
Staged  == {j \in Jobs : stage[j] # {}}

(* Bound: a creation starts while there is an identifier left for it. *)
Cleaning(p) == pc[p] \in {"clean", "stat", "cleanlock", "cleanrm"}
IdentifierLeft ==
    Cardinality({q \in Procs : call[q] # "list" /\ Cleaning(q)})
        < Cardinality(fresh)

(* Creation and listing first clean up, over the staging directories of    *)
(* that moment; an update or a read of events names a job it has seen.     *)
StartCleaning(p, c) ==
    /\ pc[p] = "idle"
    /\ c \in {"create", "retry"} => IdentifierLeft
    /\ call' = [call EXCEPT ![p] = c]
    /\ Goto(p, "clean")
    /\ todo' = [todo EXCEPT ![p] = Staged]
    /\ UNCHANGED <<files, locks, job, result, faults>>

StartOn(p, c, j) ==
    /\ pc[p] = "idle"
    /\ j \in Visible
    /\ call' = [call EXCEPT ![p] = c]
    /\ Goto(p, IF c = "update" THEN "lock" ELSE "evexists")
    /\ job' = [job EXCEPT ![p] = j]
    /\ UNCHANGED <<files, locks, todo, result, faults>>

-----------------------------------------------------------------------------
(* _cleanup_stale_staging_dirs, one directory after the other.             *)

(* is_dir(): a directory published or removed meanwhile is skipped. *)
CleanNext(p, j) ==
    /\ pc[p] = "clean"
    /\ j \in todo[p]
    /\ todo' = [todo EXCEPT ![p] = @ \ {j}]
    /\ job' = [job EXCEPT ![p] = j]
    /\ IF stage[j] = {} THEN UNCHANGED pc ELSE Goto(p, "stat")
    /\ UNCHANGED <<files, locks, call, result, faults>>

(* stat(): raises if it went away since; a young directory is left alone. *)
CleanStat(p) ==
    /\ pc[p] = "stat"
    /\ stage[job[p]] # {}
    /\ Proceed(p, IF job[p] \in stale THEN "cleanlock" ELSE "clean")
    /\ UNCHANGED files

CleanStatRaises(p) ==
    /\ pc[p] = "stat"
    /\ stage[job[p]] = {}
    /\ Return(p, "missing")
    /\ UNCHANGED <<files, faults>>

(* Mutant: a stale directory is removed without its lock. *)
CleanUnlocked(p) ==
    /\ pc[p] = "cleanlock"
    /\ Proceed(p, "cleanrm")
    /\ UNCHANGED files

CleanLock(p) ==
    /\ pc[p] = "cleanlock"
    /\ IF stageLock[job[p]] = Nobody
       THEN /\ stageLock' = Take(stageLock, job[p], p)
            /\ Goto(p, "cleanrm")
            /\ UNCHANGED <<jobLock, call, job, todo, result, faults>>
       ELSE Proceed(p, "clean")
    /\ UNCHANGED files

(* rmtree(ignore_errors=True) of a directory nobody else writes to, and    *)
(* the lock is released.                                                   *)
CleanRemove(p) ==
    /\ pc[p] = "cleanrm"
    /\ stage' = [stage EXCEPT ![job[p]] = {}]
    /\ stale' = stale \ {job[p]}
    /\ stageLock' = Freed(stageLock, p)
    /\ Goto(p, "clean")
    /\ UNCHANGED <<fresh, dir, jobLock, call, job, todo, result, faults>>

-----------------------------------------------------------------------------
(* JobStore.create and JobService.create_job.                              *)

(* Mutant: the staging directory is made without its lock. *)
CreateStageUnlocked(p, j) ==
    /\ pc[p] = "clean" /\ todo[p] = {} /\ call[p] \in {"create", "retry"}
    /\ j \in fresh
    /\ fresh' = fresh \ {j}
    /\ job' = [job EXCEPT ![p] = j]
    /\ stage' = [stage EXCEPT ![j] = {"dir"}]
    /\ Goto(p, "manifest")
    /\ UNCHANGED <<dir, stale, stageLock, jobLock, call, todo, result, faults>>

(* A new identifier, its stage lock, the staging directory. *)
CreateStage(p, j) ==
    /\ pc[p] = "clean" /\ todo[p] = {} /\ call[p] \in {"create", "retry"}
    /\ j \in fresh
    /\ fresh' = fresh \ {j}
    /\ job' = [job EXCEPT ![p] = j]
    /\ stageLock' = Take(stageLock, j, p)
    /\ stage' = [stage EXCEPT ![j] = {"dir"}]
    /\ Goto(p, "manifest")
    /\ UNCHANGED <<dir, stale, jobLock, call, todo, result, faults>>

(* Each write touches the directory: it is not stale any more. *)
StageFile(p, label, file, next) ==
    /\ pc[p] = label
    /\ stage' = [stage EXCEPT ![job[p]] = @ \cup {"dir", file}]
    /\ stale' = stale \ {job[p]}
    /\ Proceed(p, next)
    /\ UNCHANGED <<fresh, dir>>

WriteManifest(p) == StageFile(p, "manifest", "manifest", "job")

WriteJob(p) == StageFile(p, "job", "job", "rename")

Rename(p) ==
    /\ pc[p] = "rename"
    /\ dir' = [dir EXCEPT ![job[p]] = stage[job[p]]]
    /\ stage' = [stage EXCEPT ![job[p]] = {}]
    /\ stale' = stale \ {job[p]}
    /\ Proceed(p, "sync")
    /\ UNCHANGED fresh

(* A creation that failed removes what it staged, without the lock. *)
Unstage(p) ==
    /\ pc[p] = "unstage"
    /\ stage' = [stage EXCEPT ![job[p]] = {}]
    /\ stale' = stale \ {job[p]}
    /\ Return(p, "done")
    /\ UNCHANGED <<fresh, dir, faults>>

(* The new entry is synced and the stage lock released. *)
Sync(p) ==
    /\ pc[p] = "sync"
    /\ stageLock' = Freed(stageLock, p)
    /\ Goto(p, "append")
    /\ UNCHANGED <<files, jobLock, call, job, todo, result, faults>>

(* An append makes the directory, the sidecar lock and the log. *)
Logged(entries) == entries \cup {"dir", "loglock", "log"}

(* The "created" event.  A retry also has its parent's event to append. *)
AppendCreated(p) ==
    /\ pc[p] = "append"
    /\ dir' = [dir EXCEPT ![job[p]] = Logged(@)]
    /\ IF call[p] = "retry" THEN Proceed(p, "parent")
                            ELSE Return(p, "done") /\ UNCHANGED faults
    /\ UNCHANGED <<fresh, stage, stale>>

AppendToParent(p) ==
    /\ pc[p] = "parent"
    /\ Return(p, "done")
    /\ UNCHANGED <<files, faults>>

(* Mutant: a job is removed without its lock. *)
RemoveUnlocked(p) ==
    /\ pc[p] = "discard"
    /\ Proceed(p, "rmscan")
    /\ UNCHANGED files

(* JobStore.remove takes the job lock. *)
RemoveLock(p) ==
    /\ pc[p] = "discard"
    /\ jobLock[job[p]] = Nobody
    /\ jobLock' = Take(jobLock, job[p], p)
    /\ Goto(p, "rmscan")
    /\ UNCHANGED <<files, stageLock, call, job, todo, result, faults>>

(* rmtree: a listing, the removal of what it found, and of the directory,  *)
(* which must be empty then.                                               *)
RemoveScan(p) ==
    /\ pc[p] = "rmscan"
    /\ Goto(p, "unlink")
    /\ todo' = [todo EXCEPT ![p] = dir[job[p]] \ {"dir"}]
    /\ UNCHANGED <<files, locks, call, job, result, faults>>

RemoveEntry(p, e) ==
    /\ pc[p] = "unlink"
    /\ e \in todo[p]
    /\ dir' = [dir EXCEPT ![job[p]] = @ \ {e}]
    /\ todo' = [todo EXCEPT ![p] = @ \ {e}]
    /\ UNCHANGED <<fresh, stage, stale, locks, pc, call, job, result, faults>>

RemoveDir(p) ==
    /\ pc[p] = "unlink"
    /\ todo[p] = {}
    /\ dir' = IF dir[job[p]] = {"dir"} THEN [dir EXCEPT ![job[p]] = {}] ELSE dir
    /\ Return(p, "done")
    /\ UNCHANGED <<fresh, stage, stale, faults>>

-----------------------------------------------------------------------------
(* JobStore.list, over the entries of the moment it starts.                *)

ListScan(p) ==
    /\ pc[p] = "clean" /\ todo[p] = {} /\ call[p] = "list"
    /\ Goto(p, "list")
    /\ todo' = [todo EXCEPT ![p] = Visible]
    /\ UNCHANGED <<files, locks, call, job, result, faults>>

(* is_dir(). *)
ListNext(p, j) ==
    /\ pc[p] = "list"
    /\ j \in todo[p]
    /\ todo' = [todo EXCEPT ![p] = @ \ {j}]
    /\ job' = [job EXCEPT ![p] = j]
    /\ IF dir[j] = {} THEN UNCHANGED pc ELSE Goto(p, "exists")
    /\ UNCHANGED <<files, locks, call, result, faults>>

(* job.json and manifest.json must exist, says a look without the lock. *)
ListExists(p) ==
    /\ pc[p] = "exists"
    /\ IF Whole \subseteq dir[job[p]]
       THEN Proceed(p, "load")
       ELSE Return(p, "corrupt") /\ UNCHANGED faults
    /\ UNCHANGED files

(* Under the job lock, a job that is gone is skipped. *)
ListLoad(p) ==
    /\ pc[p] = "load"
    /\ jobLock[job[p]] = Nobody
    /\ IF dir[job[p]] = {} \/ Whole \subseteq dir[job[p]]
       THEN Proceed(p, "list")
       ELSE Return(p, "corrupt") /\ UNCHANGED faults
    /\ UNCHANGED files

ListDone(p) ==
    /\ pc[p] = "list" /\ todo[p] = {}
    /\ Return(p, "done")
    /\ UNCHANGED <<files, faults>>

-----------------------------------------------------------------------------
(* Another caller's transaction on a job it knows, and a read of its       *)
(* events, which takes no job lock.                                        *)

UpdateLock(p) ==
    /\ pc[p] = "lock"
    /\ jobLock[job[p]] = Nobody
    /\ IF Whole \subseteq dir[job[p]]
       THEN /\ jobLock' = Take(jobLock, job[p], p)
            /\ Goto(p, "save")
            /\ UNCHANGED <<stageLock, call, job, todo, result, faults>>
       ELSE Return(p, "done") /\ UNCHANGED faults
    /\ UNCHANGED files

UpdateSave(p) ==
    /\ pc[p] = "save"
    /\ IF "job" \in dir[job[p]]
       THEN Proceed(p, "log")
       ELSE Return(p, "done") /\ UNCHANGED faults
    /\ UNCHANGED files

UpdateAppend(p) ==
    /\ pc[p] = "log"
    /\ dir' = [dir EXCEPT ![job[p]] = Logged(@)]
    /\ Return(p, "done")
    /\ UNCHANGED <<fresh, stage, stale, faults>>

(* read_jsonl: no log, no lock... *)
EventsExist(p) ==
    /\ pc[p] = "evexists"
    /\ IF "log" \in dir[job[p]]
       THEN Proceed(p, "evlock")
       ELSE Return(p, "done") /\ UNCHANGED faults
    /\ UNCHANGED files

(* ...else the sidecar lock is opened, its directory made if need be. *)
EventsLock(p) ==
    /\ pc[p] = "evlock"
    /\ dir' = [dir EXCEPT ![job[p]] = @ \cup {"dir", "loglock"}]
    /\ Return(p, "done")
    /\ UNCHANGED <<fresh, stage, stale, faults>>

-----------------------------------------------------------------------------
(* Contention, time and faults.                                            *)

(* The deadline of the job lock passes. *)
GiveUp(p) ==
    /\ pc[p] \in {"discard", "load", "lock"}
    /\ jobLock[job[p]] # Nobody
    /\ Return(p, "done")
    /\ UNCHANGED <<files, faults>>

(* 300 s pass without a write to a staging directory. *)
Age(j) ==
    /\ stage[j] # {}
    /\ j \notin stale
    /\ stale' = stale \cup {j}
    /\ UNCHANGED <<fresh, stage, dir, locks, pc, call, job, todo, result, faults>>

(* A write to the staging directory raises: the stage lock is released.    *)
StageFails(p) ==
    /\ "write" \in FaultKinds
    /\ pc[p] \in {"manifest", "job", "rename"}
    /\ stageLock' = Freed(stageLock, p)
    /\ Goto(p, "unstage")
    /\ UNCHANGED <<files, jobLock, call, job, todo, result>>

(* The sync after the rename raises: the lock is released, then the        *)
(* visible job is removed without its job lock.                            *)
SyncFails(p) ==
    /\ "sync" \in FaultKinds
    /\ pc[p] = "sync"
    /\ stageLock' = Freed(stageLock, p)
    /\ Goto(p, "rmscan")
    /\ UNCHANGED <<files, jobLock, call, job, todo, result>>

(* The append to the new log, or a retry's append to its parent's, raises. *)
AppendFails(p) ==
    /\ "append" \in FaultKinds
    /\ pc[p] \in {"append", "parent"}
    /\ Goto(p, "discard")
    /\ UNCHANGED <<files, locks, call, job, todo, result>>

(* The process dies; the operating system drops its locks. *)
Crash(p) ==
    /\ "crash" \in FaultKinds
    /\ pc[p] # "idle"
    /\ Return(p, "done")
    /\ UNCHANGED files

Fault(p) ==
    /\ faults < MaxFaults
    /\ faults' = faults + 1
    /\ StageFails(p) \/ SyncFails(p) \/ AppendFails(p) \/ Crash(p)

-----------------------------------------------------------------------------
Start(p) ==
    \/ \E c \in Calls \cap {"create", "retry", "list"} : StartCleaning(p, c)
    \/ \E c \in Calls \cap {"update", "events"}, j \in Jobs : StartOn(p, c, j)

Step(p) ==
    \/ \E j \in Jobs : CleanNext(p, j) \/ CreateStage(p, j) \/ ListNext(p, j)
    \/ CleanStat(p) \/ CleanStatRaises(p) \/ CleanLock(p) \/ CleanRemove(p)
    \/ WriteManifest(p) \/ WriteJob(p) \/ Rename(p) \/ Unstage(p) \/ Sync(p)
    \/ AppendCreated(p) \/ AppendToParent(p)
    \/ RemoveLock(p) \/ RemoveScan(p) \/ RemoveDir(p)
    \/ \E e \in Entries : RemoveEntry(p, e)
    \/ ListScan(p) \/ ListExists(p) \/ ListLoad(p) \/ ListDone(p)
    \/ UpdateLock(p) \/ UpdateSave(p) \/ UpdateAppend(p)
    \/ EventsExist(p) \/ EventsLock(p)
    \/ GiveUp(p)

Next ==
    \/ \E p \in Procs : Start(p) \/ Step(p) \/ Fault(p)
    \/ \E j \in Jobs : Age(j)

Spec == Init /\ [][Next]_vars

(* Every wait has a deadline, so calls go on; time passes; and the store   *)
(* stays in use: a caller that can list again and again does so.           *)
FairSpec ==
    /\ Spec
    /\ \A p \in Procs : WF_vars(Step(p)) /\ SF_vars(StartCleaning(p, "list"))
    /\ \A j \in Jobs : WF_vars(Age(j))

-----------------------------------------------------------------------------
(* A creation finds its staging directory as it left it, however long it   *)
(* was stalled: cleanup takes only what nobody works on.                   *)
Spared(p) ==
    /\ pc[p] = "manifest" => stage[job[p]] = {"dir"}
    /\ pc[p] = "job" => stage[job[p]] = {"dir", "manifest"}
    /\ pc[p] = "rename" => stage[job[p]] = {"dir"} \cup Whole

StagingIsSpared == \A p \in Procs : Spared(p)

BeingRemoved(j) ==
    \E p \in Procs : job[p] = j /\ pc[p] = "unlink"

(* A visible job directory holds job.json and manifest.json from its first *)
(* moment to its removal: no creation, update or read ever leaves half of  *)
(* a job behind, which would be reported as corrupt forever.               *)
VisibleIsWhole ==
    \A j \in Visible : Whole \subseteq dir[j] \/ BeingRemoved(j)

(* What a creation that died has staged is eventually removed.             *)
StagingIsReclaimed == \A j \in Jobs : stage[j] # {} ~> stage[j] = {}

-----------------------------------------------------------------------------
(* The inductive invariant behind StagingIsSpared.                         *)

(* An identifier that was not drawn yet has no directory, no lock and      *)
(* nobody at it.                                                           *)
Untouched ==
    \A j \in fresh :
        /\ stage[j] = {} /\ dir[j] = {}
        /\ stageLock[j] = Nobody
        /\ \A p \in Procs : job[p] # j

(* A caller is at a job where its step needs one, and what it has still to *)
(* visit are jobs that have been created.                                  *)
Visiting == {"clean", "stat", "cleanlock", "cleanrm", "list", "exists", "load"}

Placed(p) ==
    /\ pc[p] \notin {"idle", "clean", "list"} => job[p] \in Jobs
    /\ pc[p] \in Visiting => todo[p] \subseteq Jobs \ fresh

(* Whoever works in a staging directory holds its lock.                    *)
Staging == {"manifest", "job", "rename", "sync", "cleanrm"}

Guarded(p) == pc[p] \in Staging => stageLock[job[p]] = p

(* No two callers are at the creation, or the removal, of one job.         *)
Creating == {"manifest", "job", "rename", "unstage", "sync", "append", "parent",
             "discard", "rmscan", "unlink"}

Alone(p) ==
    \A q \in Procs \ {p} :
        pc[p] \in Creating /\ pc[q] \in Creating => job[p] # job[q]

(* All of it together; what TLC checks before it is proved.                 *)
IStore ==
    /\ TypeOK
    /\ Untouched
    /\ \A p \in Procs : Placed(p) /\ Guarded(p) /\ Alone(p)
    /\ StagingIsSpared

-----------------------------------------------------------------------------
(* What VisibleIsWhole rests on when no sync fails, nobody dies in a       *)
(* removal and no events are read: whoever writes to a job or removes it   *)
(* holds its lock or is still creating it, and finds it whole.             *)
Keeps(p) ==
    /\ pc[p] \in {"save", "log", "rmscan", "unlink"} => jobLock[job[p]] = p
    /\ pc[p] \in {"save", "log"} => Whole \subseteq dir[job[p]]
    /\ pc[p] \in {"sync", "append", "parent", "discard", "rmscan"} =>
          {"dir"} \cup Whole \subseteq dir[job[p]]
    /\ pc[p] = "unlink" => dir[job[p]] = {"dir"} \cup todo[p] /\ "dir" \notin todo[p]
    /\ pc[p] \notin {"evexists", "evlock"}

IWhole == VisibleIsWhole /\ \A p \in Procs : Keeps(p)
=============================================================================
