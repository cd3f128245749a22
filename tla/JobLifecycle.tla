---------------------------- MODULE JobLifecycle ----------------------------
(***************************************************************************)
(* The life of one FECreator job as its callers drive it: every call of    *)
(* FeCreatorApp that changes the job (planning, source submission, build,  *)
(* review, finalization, retry, cancellation), run concurrently by the     *)
(* threads and processes in Procs over one job directory.                  *)
(*                                                                         *)
(* Every change of the job goes through the same transaction of JobService *)
(* (transition_path_while_job_locked, record_event): under the job lock it *)
(* runs a hook that publishes artifacts, saves job.json, appends to the    *)
(* event log, and compensates when one of these raises.  The module models *)
(* that transaction step by step, and each call as the reads, locks and    *)
(* transactions it performs, so that two calls interleave wherever the     *)
(* code lets them: between an unlocked read and the transaction built on   *)
(* it, and while a build runs its provider without the job lock.           *)
(*                                                                         *)
(* Files are modelled by their presence.  The nested locks of the event    *)
(* log, the approval log and the lineage graph are held for one write each *)
(* and are not separate steps; failing to get one is a fault of the write. *)
(***************************************************************************)
EXTENDS JobModel

CONSTANTS
    Procs,           (* callers: threads of the server, CLI and MCP processes *)
    Nobody,          (* the holder of a free lock                             *)
    Calls,           (* the calls this instance lets callers make             *)
    ManualProvider,  (* TRUE if the manifest names the provider "manual"      *)
    MaxEvents,       (* record budget of the event log (MAX_JSONL_RECORDS)    *)
    FaultKinds,      (* what may go wrong, see the Fault actions              *)
    MaxFaults        (* bound on what goes wrong in a behaviour               *)

(* What the calls are, and what may go wrong: "clean", a write raises       *)
(* without effect; "late", its rename took effect and the directory fsync   *)
(* after it raises; "cleanup", a compensating removal raises; "crash", the  *)
(* process dies.                                                            *)
AllCalls == {"plan", "submit", "build", "approve", "reject", "retry",
             "finalize", "cancel"}

ASSUME ConstantsOK ==
    /\ Nobody \notin Procs
    /\ Calls \subseteq AllCalls
    /\ ManualProvider \in BOOLEAN
    /\ MaxEvents \in Nat \ {0}
    /\ FaultKinds \subseteq {"clean", "late", "cleanup", "crash"}
    /\ MaxFaults \in Nat

-----------------------------------------------------------------------------
(* Operations and what they publish. *)

(* A build is four operations: it claims the job, marks it failed while    *)
(* the claim still holds the lock, or runs the provider and then publishes *)
(* the candidate or marks the job failed.                                  *)
BuildOps == {"build", "claim_failed", "publish", "mark_failed"}
Ops      == AllCalls \cup BuildOps

(* The artifacts the hook of an operation writes, in its order; "child" is *)
(* the replacement job of a retry.                                         *)
Publishes(op) ==
    CASE op = "submit"   -> <<"submitted">>
      [] op = "publish"  -> <<"candidate", "snapshot", "candidate_node">>
      [] op = "approve"  -> <<"approved">>
      [] op = "reject"   -> <<"rejected">>
      [] op = "retry"    -> <<"child">>
      [] op = "finalize" -> <<"package", "report", "lineage_file", "bundle",
                              "export_node">>
      [] OTHER           -> <<>>

(* The order in which a rollback hook removes what was published: equal    *)
(* rank, one removal (candidate.json lives in the candidate directory).    *)
UndoRank(a) ==
    CASE a \in {"candidate", "snapshot", "export_node"} -> 1
      [] a \in {"candidate_node", "bundle"}             -> 2
      [] a = "lineage_file"                             -> 3
      [] a = "report"                                   -> 4
      [] OTHER                                          -> 5

(* Artifacts written by a rename followed by an fsync inside one call: the *)
(* caller's "published" flag is set only after both.                       *)
FlaggedAfterSync == {"snapshot", "candidate_node", "export_node",
                     "approved", "rejected"}

Notes(op) ==
    CASE op = "submit"  -> <<Note("sources_submitted")>>
      [] op = "approve" -> <<Note("review_approved")>>
      [] op = "reject"  -> <<Note("review_rejected")>>
      [] op = "retry"   -> <<Note("retry_created")>>
      [] OTHER          -> <<>>

-----------------------------------------------------------------------------
(* The transitions each caller chooses from the state it read. *)

SourcesTarget(op) ==
    IF op = "submit" \/ ManualProvider THEN "waiting_for_sources"
                                       ELSE "waiting_for_provider"

(* FeCreatorApp._transition_steps. *)
AppPlan(s, target) ==
    IF s = "created" THEN <<"planning", target>> ELSE <<target>>

(* ReviewedAssetPlugin._transition_steps. *)
ToProcessing(s) ==
    CASE s = "processing" -> <<>>
      [] s = "created"    -> <<"planning", "processing">>
      [] OTHER            -> <<"processing">>

ToReview(s) ==
    IF s = "waiting_for_review"
    THEN <<>> ELSE ToProcessing(s) \o <<"waiting_for_review">>

ToFailed(s) ==
    IF s = "created" THEN <<"planning", "failed">> ELSE <<"failed">>

(* FeCreatorApp takes all its steps in one transaction, a build takes each *)
(* in a transaction of its own.                                            *)
FirstPath(op, plan) == IF op \in BuildOps THEN <<Head(plan)>> ELSE plan
Rest(op, plan)      == IF op \in BuildOps THEN Tail(plan) ELSE <<>>

-----------------------------------------------------------------------------
VARIABLES
    state, revision,   (* job.json                                          *)
    log,               (* events.jsonl                                      *)
    disk,              (* the artifacts present, in the job or in lineage/  *)
    children,          (* how many replacement jobs a retry has created     *)
    submitter,         (* whose files submitted/ holds                      *)
    lock, lease,       (* holders of the job lock and of the build lease    *)
    pc, task,          (* what each caller is doing, and its transaction    *)
    accepted,          (* callers whose last call, a submission, succeeded  *)
    faults             (* how much has gone wrong                           *)

jobVars == <<state, revision, log, disk, children, submitter>>
vars == <<state, revision, log, disk, children, submitter,
          lock, lease, pc, task, accepted, faults>>

Labels == {"idle", "lease", "provider", "read", "reread", "approval", "lock",
           "hook", "save", "append", "undo"}

(* A transaction: the operation, the states still to enter (none for a     *)
(* bare event), the artifacts still to publish, those flagged as           *)
(* published, whether job.json was saved, and what it was.                 *)
Tasks == [op    : Ops \cup {"none"},
          plan  : Seq(States),
          todo  : Seq(Artifacts \cup {"child"}),
          done  : SUBSET (Artifacts \cup {"child"}),
          saved : BOOLEAN,
          prev  : [state : States, revision : Nat]]

NoTask == [op |-> "none", plan |-> <<>>, todo |-> <<>>, done |-> {},
           saved |-> FALSE, prev |-> [state |-> "created", revision |-> 0]]

TypeOK ==
    /\ state \in States
    /\ revision \in Nat
    /\ log \in Seq(Events)
    /\ disk \subseteq Artifacts
    /\ children \in Nat
    /\ submitter \in Procs \cup {Nobody}
    /\ lock \in Procs \cup {Nobody}
    /\ lease \in Procs \cup {Nobody}
    /\ pc \in [Procs -> Labels]
    /\ task \in [Procs -> Tasks]
    /\ accepted \subseteq Procs
    /\ faults \in Nat

(* JobStore.create and the "created" event of JobService.create_job. *)
Init ==
    /\ state = "created"
    /\ revision = 1
    /\ log = <<Note("created")>>
    /\ disk = {}
    /\ children = 0
    /\ submitter = Nobody
    /\ lock = Nobody
    /\ lease = Nobody
    /\ pc = [p \in Procs |-> "idle"]
    /\ task = [p \in Procs |-> NoTask]
    /\ accepted = {}
    /\ faults = 0

-----------------------------------------------------------------------------
Goto(p, label)   == pc' = [pc EXCEPT ![p] = label]
SetTask(p, t)    == task' = [task EXCEPT ![p] = t]

(* Mutant: a call that ends keeps the build lease. *)
ReturnWithLease(p) ==
    /\ Goto(p, "idle")
    /\ SetTask(p, NoTask)
    /\ lock' = IF lock = p THEN Nobody ELSE lock
    /\ UNCHANGED lease

(* The call of p ends, in success or by an exception: its locks are freed. *)
Return(p) ==
    /\ Goto(p, "idle")
    /\ SetTask(p, NoTask)
    /\ lock' = IF lock = p THEN Nobody ELSE lock
    /\ lease' = IF lease = p THEN Nobody ELSE lease

(* Success of the call of p, remembered when it submitted sources. *)
Accept(p) ==
    accepted' = IF task[p].op = "submit" THEN accepted \cup {p} ELSE accepted

FirstLabel ==
    [plan |-> "reread", submit |-> "read", finalize |-> "read",
     build |-> "lease", approve |-> "lock", reject |-> "lock",
     retry |-> "lock", cancel |-> "lock"]

FirstPlan(call) ==
    CASE call = "reject" -> <<"failed">>
      [] call = "cancel" -> <<"cancelled">>
      [] OTHER           -> <<>>

StartCall(p, call) ==
    /\ pc[p] = "idle"
    /\ Goto(p, FirstLabel[call])
    /\ SetTask(p, [NoTask EXCEPT !.op = call, !.plan = FirstPlan(call)])
    /\ accepted' = accepted \ {p}
    /\ UNCHANGED <<jobVars, lock, lease, faults>>

-----------------------------------------------------------------------------
(* Reads that a call bases its transaction on.  JobStore.load takes the job *)
(* lock and releases it: the state may change before the lock is retaken.   *)

Reading(p, label, ops) ==
    /\ pc[p] = label
    /\ task[p].op \in ops
    /\ lock = Nobody

(* submit_sources: in waiting_for_sources it only records an event. *)
SubmitReads(p) ==
    /\ Reading(p, "read", {"submit"})
    /\ Goto(p, IF state = "waiting_for_sources" THEN "lock" ELSE "reread")
    /\ UNCHANGED <<jobVars, lock, lease, task, accepted, faults>>

(* FeCreatorApp._transition_job: the path is chosen from a second read... *)
ChooseSourcesPath(p) ==
    /\ Reading(p, "reread", {"plan", "submit"})
    /\ state # SourcesTarget(task[p].op)
    /\ SetTask(p, [task[p] EXCEPT
                     !.plan = AppPlan(state, SourcesTarget(task[p].op))])
    /\ Goto(p, "lock")
    /\ UNCHANGED <<jobVars, lock, lease, accepted, faults>>

(* ...and a job already in the target state is returned as it is. *)
NothingToTransition(p) ==
    /\ Reading(p, "reread", {"plan", "submit"})
    /\ state = SourcesTarget(task[p].op)
    /\ Accept(p)
    /\ Return(p)
    /\ UNCHANGED <<jobVars, faults>>

(* finalize_job checks the state and loads the candidate... *)
FinalizeReads(p) ==
    /\ Reading(p, "read", {"finalize"})
    /\ IF state = "waiting_for_review" /\ {"candidate", "snapshot"} \subseteq disk
       THEN Goto(p, "approval") /\ UNCHANGED <<task, lock, lease>>
       ELSE Return(p)
    /\ UNCHANGED <<jobVars, accepted, faults>>

(* Mutant: the approval log is not consulted. *)
FinalizeUnapproved(p) ==
    /\ pc[p] = "approval"
    /\ "candidate_node" \in disk
    /\ SetTask(p, [task[p] EXCEPT !.plan = <<"validating", "completed">>])
    /\ Goto(p, "lock")
    /\ UNCHANGED <<jobVars, lock, lease, accepted, faults>>

(* ...then reads the approval log, which the job lock does not guard. *)
FinalizeFindsApproval(p) ==
    /\ pc[p] = "approval"
    /\ {"approved", "candidate_node"} \subseteq disk
    /\ SetTask(p, [task[p] EXCEPT !.plan = <<"validating", "completed">>])
    /\ Goto(p, "lock")
    /\ UNCHANGED <<jobVars, lock, lease, accepted, faults>>

(* No approval, or the target specification rejects the candidate now. *)
FinalizeRefused(p) ==
    /\ pc[p] = "approval"
    /\ Return(p)
    /\ UNCHANGED <<jobVars, accepted, faults>>

(* _mark_job_failed_if_possible leaves a job in review or cancelled alone, *)
(* and plans the failure from a second read.                               *)
MarkFailedReads(p) ==
    /\ Reading(p, "read", {"mark_failed"})
    /\ IF state \in {"waiting_for_review", "cancelled"}
       THEN Return(p)
       ELSE Goto(p, "reread") /\ UNCHANGED <<task, lock, lease>>
    /\ UNCHANGED <<jobVars, accepted, faults>>

MarkFailedChoosesPath(p) ==
    /\ Reading(p, "reread", {"mark_failed"})
    /\ IF state = "failed"
       THEN Return(p)
       ELSE /\ SetTask(p, [task[p] EXCEPT !.plan = ToFailed(state)])
            /\ Goto(p, "lock")
            /\ UNCHANGED <<lock, lease>>
    /\ UNCHANGED <<jobVars, accepted, faults>>

(* _path_lock: the deadline passes while another caller holds the lock. *)
GiveUp(p) ==
    /\ pc[p] \in {"read", "reread", "lock"}
    /\ lock # Nobody
    /\ Return(p)
    /\ UNCHANGED <<jobVars, accepted, faults>>

-----------------------------------------------------------------------------
(* A build: lease, claim, provider. *)

(* Mutant: builds do not exclude each other. *)
ShareLease(p) ==
    /\ pc[p] = "lease"
    /\ lease' = p
    /\ Goto(p, "lock")
    /\ UNCHANGED <<jobVars, lock, task, accepted, faults>>

AcquireLease(p) ==
    /\ pc[p] = "lease"
    /\ lease = Nobody
    /\ lease' = p
    /\ Goto(p, "lock")
    /\ UNCHANGED <<jobVars, lock, task, accepted, faults>>

LeaseRefused(p) ==
    /\ pc[p] = "lease"
    /\ lease # Nobody
    /\ Return(p)
    /\ UNCHANGED <<jobVars, accepted, faults>>

AfterHook(plan) == IF plan = <<>> THEN "append" ELSE "save"

(* The transaction that takes the first path of plan: the hook belongs to  *)
(* the last one.                                                           *)
IsLast(op, plan) == plan = <<>> \/ Rest(op, plan) = <<>>

NewTask(op, plan, s, r) ==
    [op |-> op, plan |-> plan,
     todo |-> IF IsLast(op, plan) THEN Publishes(op) ELSE <<>>,
     done |-> {}, saved |-> FALSE, prev |-> [state |-> s, revision |-> r]]

FirstStep(t) == IF t.todo = <<>> THEN AfterHook(t.plan) ELSE "hook"

Enter(p, op, plan, s, r) ==
    /\ lock' = p
    /\ SetTask(p, NewTask(op, plan, s, r))
    /\ Goto(p, FirstStep(NewTask(op, plan, s, r)))

Claiming(p) == Reading(p, "lock", {"build"})

ClaimRefused(p) ==
    /\ Claiming(p)
    /\ state \notin Claimable
    /\ Return(p)
    /\ UNCHANGED <<jobVars, accepted, faults>>

Claim(p) ==
    /\ Claiming(p)
    /\ state \in Claimable \ {"processing"}
    /\ Enter(p, "build", ToProcessing(state), state, revision)
    /\ UNCHANGED <<jobVars, lease, accepted, faults>>

(* A processing job whose lease was free is claimed without a transition. *)
ClaimStranded(p) ==
    /\ Claiming(p)
    /\ state = "processing"
    /\ Goto(p, "provider")
    /\ UNCHANGED <<jobVars, lock, lease, task, accepted, faults>>

(* The pinned reference pack or the provider cannot be found. *)
ClaimLookupFails(p) ==
    /\ Claiming(p)
    /\ state \in Claimable
    /\ Enter(p, "claim_failed", ToFailed(state), state, revision)
    /\ UNCHANGED <<jobVars, lease, accepted, faults>>

(* The provider ran and a valid candidate is staged.  The manual provider  *)
(* has nothing to deliver before sources are submitted.                    *)
ProviderDelivers(p) ==
    /\ pc[p] = "provider"
    /\ ManualProvider => "submitted" \in disk
    /\ SetTask(p, [NoTask EXCEPT !.op = "publish"])
    /\ Goto(p, "lock")
    /\ UNCHANGED <<jobVars, lock, lease, accepted, faults>>

(* The provider refuses or raises, or the candidate package is invalid. *)
ProviderFails(p) ==
    /\ pc[p] = "provider"
    /\ SetTask(p, [NoTask EXCEPT !.op = "mark_failed"])
    /\ Goto(p, "read")
    /\ UNCHANGED <<jobVars, lock, lease, accepted, faults>>

-----------------------------------------------------------------------------
(* The transaction of JobService, under the job lock. *)

(* A publication re-plans from the state it finds under the lock. *)
PlanAtLock(p) ==
    IF task[p].op = "publish" THEN ToReview(state) ELSE task[p].plan

(* Mutants: the log is not searched for a retry; a rejection looks only    *)
(* for an earlier rejection.                                               *)
NeverRetried == FALSE
NotRejected  == "rejected" \notin disk

Retried == \E i \in 1 .. Len(log) : log[i] = Note("retry_created")
Undecided == disk \cap Decisions = {}

(* What the hooks check before they write anything. *)
HookAdmits(op) ==
    /\ op = "submit" => "submitted" \notin disk
    /\ op = "publish" => "candidate" \notin disk
    /\ op \in {"approve", "reject"} => /\ state = "waiting_for_review"
                                        /\ Undecided
    /\ op = "finalize" => disk \cap FinalFiles = {}
    /\ op = "retry" => /\ state = "failed"
                       /\ {"candidate", "snapshot", "rejected"} \subseteq disk
                       /\ ~Retried

(* Mutant: the path chosen from an earlier read is not validated again. *)
AdmittedUnchecked(p) == HookAdmits(task[p].op)

Admitted(p) ==
    LET plan == PlanAtLock(p)
    IN  /\ plan # <<>> => Legal(state, FirstPath(task[p].op, plan))
        /\ HookAdmits(task[p].op)

TransactionOps == {"plan", "submit", "approve", "reject", "retry", "finalize",
                   "cancel", "publish", "mark_failed"}

(* Mutant: job.json is saved before the artifacts are published. *)
BeginSavesFirst(p) ==
    LET plan == PlanAtLock(p)
    IN  /\ Reading(p, "lock", TransactionOps)
        /\ Admitted(p)
        /\ Enter(p, task[p].op, plan, state, revision)
        /\ state' = IF plan = <<>> THEN state ELSE Target(plan)
        /\ UNCHANGED <<revision, log, disk, children, submitter, lease,
                       accepted, faults>>

Begin(p) ==
    /\ Reading(p, "lock", TransactionOps)
    /\ Admitted(p)
    /\ Enter(p, task[p].op, PlanAtLock(p), state, revision)
    /\ UNCHANGED <<jobVars, lease, accepted, faults>>

(* The transition is not allowed from the state found, or the hook raises  *)
(* before it writes; a staged candidate or upload is dropped.              *)
Refuse(p) ==
    /\ Reading(p, "lock", TransactionOps)
    /\ ~Admitted(p)
    /\ Return(p)
    /\ UNCHANGED <<jobVars, accepted, faults>>

(* before_persist: the artifacts appear one by one. *)
PublishNext(p) ==
    LET a == Head(task[p].todo)
        t == [task[p] EXCEPT !.todo = Tail(@), !.done = @ \cup {a}]
    IN  /\ pc[p] = "hook"
        /\ a \notin disk
        /\ disk' = IF a = "child" THEN disk ELSE disk \cup {a}
        /\ children' = IF a = "child" THEN children + 1 ELSE children
        /\ submitter' = IF a = "submitted" THEN p ELSE submitter
        /\ SetTask(p, t)
        /\ Goto(p, FirstStep(t))
        /\ UNCHANGED <<state, revision, log, lock, lease, accepted, faults>>

(* An artifact of an interrupted publication is in the way. *)
PublishClash(p) ==
    /\ pc[p] = "hook"
    /\ Head(task[p].todo) \in disk
    /\ Goto(p, "undo")
    /\ UNCHANGED <<jobVars, lock, lease, task, accepted, faults>>

SavedState(t) == Target(FirstPath(t.op, t.plan))

(* JobStore._save_locked. *)
Save(p) ==
    /\ pc[p] = "save"
    /\ state' = SavedState(task[p])
    /\ revision' = revision + 1
    /\ SetTask(p, [task[p] EXCEPT !.saved = TRUE])
    /\ Goto(p, "append")
    /\ UNCHANGED <<log, disk, children, submitter, lock, lease, accepted,
                   faults>>

NewEvents(t) ==
    (IF t.plan = <<>> THEN <<>>
     ELSE TransitionEvents(t.prev.state, FirstPath(t.op, t.plan)))
    \o Notes(t.op)

WithinBudget(t) == Len(log) + Len(NewEvents(t)) <= MaxEvents

AppendEvents(p) ==
    /\ pc[p] = "append"
    /\ WithinBudget(task[p])
    /\ log' = log \o NewEvents(task[p])

(* EventLog.append_many succeeds; a build step with a path left to take    *)
(* goes on to its next transaction without releasing the job lock.         *)
CommitAndContinue(p) ==
    /\ AppendEvents(p)
    /\ ~IsLast(task[p].op, task[p].plan)
    /\ Enter(p, task[p].op, Rest(task[p].op, task[p].plan), state, revision)
    /\ UNCHANGED <<state, revision, disk, children, submitter, lease,
                   accepted, faults>>

(* The claim is complete: the job lock is released, the lease kept. *)
CommitClaim(p) ==
    /\ AppendEvents(p)
    /\ IsLast(task[p].op, task[p].plan)
    /\ task[p].op = "build"
    /\ lock' = Nobody
    /\ SetTask(p, [NoTask EXCEPT !.op = "build"])
    /\ Goto(p, "provider")
    /\ UNCHANGED <<state, revision, disk, children, submitter, lease,
                   accepted, faults>>

Commit(p) ==
    /\ AppendEvents(p)
    /\ IsLast(task[p].op, task[p].plan)
    /\ task[p].op # "build"
    /\ Accept(p)
    /\ Return(p)
    /\ UNCHANGED <<state, revision, disk, children, submitter, faults>>

(* The log refuses to grow beyond its budget. *)
BudgetExceeded(p) ==
    /\ pc[p] = "append"
    /\ ~WithinBudget(task[p])
    /\ Goto(p, "undo")
    /\ UNCHANGED <<jobVars, lock, lease, task, accepted, faults>>

(* The rollback hook removes what its flags say was published. *)
NextUndone(t) == {a \in t.done : \A b \in t.done : UndoRank(a) <= UndoRank(b)}

(* Mutants: a rollback leaves the export, or the candidate, in the lineage. *)
RemovalKeepsExport(t) == NextUndone(t) \ {"export_node"}

RemovalKeepsCandidateNode(t) ==
    (NextUndone(t) \ {"candidate_node"})
        \cup (IF "candidate" \in t.done THEN {"snapshot"} ELSE {})

Removal(t) ==
    NextUndone(t) \cup (IF "candidate" \in t.done THEN {"snapshot"} ELSE {})

(* Mutant: a flag is not reset, and its removal repeated. *)
UndoNextForgets(p) ==
    /\ pc[p] = "undo"
    /\ task[p].done # {}
    /\ disk' = disk \ Removal(task[p])
    /\ children' = IF "child" \in NextUndone(task[p]) THEN children - 1
                                                     ELSE children
    /\ UNCHANGED <<state, revision, log, submitter, lock, lease, pc, task,
                   accepted, faults>>

UndoNext(p) ==
    /\ pc[p] = "undo"
    /\ task[p].done # {}
    /\ disk' = disk \ Removal(task[p])
    /\ children' = IF "child" \in NextUndone(task[p]) THEN children - 1
                                                     ELSE children
    /\ submitter' = IF "submitted" \in NextUndone(task[p]) THEN Nobody
                                                          ELSE submitter
    /\ SetTask(p, [task[p] EXCEPT !.done = @ \ NextUndone(task[p])])
    /\ UNCHANGED <<state, revision, log, lock, lease, pc, accepted, faults>>

(* Mutant: the transition is not taken back. *)
NotRestored(t) == [state |-> state, revision |-> revision]

(* Then job.json is put back if it had been saved, and the call raises; a  *)
(* claim that failed this way marks its job failed under the same lock.    *)
Restored(t) == IF t.saved THEN t.prev ELSE [state |-> state, revision |-> revision]

RestoreJob(p) ==
    /\ pc[p] = "undo"
    /\ task[p].done = {}
    /\ state' = Restored(task[p]).state
    /\ revision' = Restored(task[p]).revision
    /\ UNCHANGED <<log, disk, children, submitter, accepted, faults>>

RestoreAndRaise(p) ==
    /\ RestoreJob(p)
    /\ task[p].op # "build"
    /\ Return(p)

RestoreAndMarkFailed(p) ==
    /\ RestoreJob(p)
    /\ task[p].op = "build"
    /\ Enter(p, "claim_failed", ToFailed(state'), state', revision')
    /\ UNCHANGED lease

-----------------------------------------------------------------------------
(* Faults. *)

(* A write raises without effect. *)
WriteFails(p) ==
    /\ "clean" \in FaultKinds
    /\ pc[p] \in {"hook", "save", "append"}
    /\ Goto(p, "undo")
    /\ UNCHANGED <<jobVars, lock, lease, task, accepted>>

(* A write raises after its rename: the effect is there, the flag is not. *)
HookFailsLate(p) ==
    LET a == Head(task[p].todo)
    IN  /\ "late" \in FaultKinds
        /\ pc[p] = "hook"
        /\ a \in FlaggedAfterSync \ disk
        /\ disk' = disk \cup {a}
        /\ Goto(p, "undo")
        /\ UNCHANGED <<state, revision, log, children, submitter, lock, lease,
                       task, accepted>>

SaveFailsLate(p) ==
    /\ "late" \in FaultKinds
    /\ pc[p] = "save"
    /\ state' = SavedState(task[p])
    /\ revision' = revision + 1
    /\ Goto(p, "undo")
    /\ UNCHANGED <<log, disk, children, submitter, lock, lease, task, accepted>>

AppendFailsLate(p) ==
    /\ "late" \in FaultKinds
    /\ AppendEvents(p)
    /\ Goto(p, "undo")
    /\ UNCHANGED <<state, revision, disk, children, submitter, lock, lease,
                   task, accepted>>

(* A removal raises: the final publication goes on with the others, every  *)
(* other hook gives up, and job.json is restored all the same.             *)
UndoFails(p) ==
    /\ "cleanup" \in FaultKinds
    /\ pc[p] = "undo"
    /\ task[p].done # {}
    /\ SetTask(p, [task[p] EXCEPT !.done =
                     IF task[p].op = "finalize" THEN @ \ NextUndone(task[p])
                                                ELSE {}])
    /\ UNCHANGED <<jobVars, lock, lease, pc, accepted>>

(* The process of p dies: the operating system drops its locks. *)
Crash(p) ==
    /\ "crash" \in FaultKinds
    /\ pc[p] # "idle"
    /\ Return(p)
    /\ UNCHANGED <<jobVars, accepted>>

Fault(p) ==
    /\ faults < MaxFaults
    /\ faults' = faults + 1
    /\ \/ WriteFails(p)
       \/ HookFailsLate(p)
       \/ SaveFailsLate(p)
       \/ AppendFailsLate(p)
       \/ UndoFails(p)
       \/ Crash(p)

-----------------------------------------------------------------------------
(* What a caller does between two calls of its own choosing. *)

ReadStep(p) ==
    \/ SubmitReads(p)
    \/ ChooseSourcesPath(p)
    \/ NothingToTransition(p)
    \/ FinalizeReads(p)
    \/ FinalizeFindsApproval(p)
    \/ FinalizeRefused(p)
    \/ MarkFailedReads(p)
    \/ MarkFailedChoosesPath(p)
    \/ GiveUp(p)

BuildStep(p) ==
    \/ AcquireLease(p)
    \/ LeaseRefused(p)
    \/ ClaimRefused(p)
    \/ Claim(p)
    \/ ClaimStranded(p)
    \/ ClaimLookupFails(p)
    \/ ProviderDelivers(p)
    \/ ProviderFails(p)

TransactionStep(p) ==
    \/ Begin(p)
    \/ Refuse(p)
    \/ PublishNext(p)
    \/ PublishClash(p)
    \/ Save(p)
    \/ CommitAndContinue(p)
    \/ CommitClaim(p)
    \/ Commit(p)
    \/ BudgetExceeded(p)
    \/ UndoNext(p)
    \/ RestoreAndRaise(p)
    \/ RestoreAndMarkFailed(p)

Step(p) == ReadStep(p) \/ BuildStep(p) \/ TransactionStep(p)

Next == \E p \in Procs :
            \/ \E call \in Calls : StartCall(p, call)
            \/ Step(p)
            \/ Fault(p)

Spec == Init /\ [][Next]_vars

(* Every wait in the code has a deadline (locks, leases, providers), so a  *)
(* call that is not killed keeps taking steps.                             *)
FairSpec == Spec /\ \A p \in Procs : WF_vars(Step(p))
=============================================================================
