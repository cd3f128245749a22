------------------------- MODULE JobArtifacts_proofs -------------------------
(***************************************************************************)
(* Proofs about the artifacts and the log of a job: what a step shows to   *)
(* others, and what follows when faults are clean, or crashes alone.       *)
(***************************************************************************)
EXTENDS JobArtifacts, JobLifecycle_proofs, WellFoundedInduction

-----------------------------------------------------------------------------
(* Sequences as sets, and what each operation publishes. *)

(* The elements of a sequence are its head and those of its tail. *)
LEMMA ElementsSplit ==
    ASSUME NEW S, NEW s \in Seq(S), s # <<>>
    PROVE  /\ Elements(s) = {Head(s)} \cup Elements(Tail(s))
           /\ Head(s) \in Elements(s)
<1>1. Len(s) \in Nat /\ Len(s) >= 1 /\ Len(Tail(s)) = Len(s) - 1
  OBVIOUS
<1>2. \A i \in 1 .. Len(Tail(s)) : Tail(s)[i] = s[i + 1]
  OBVIOUS
<1>3. Head(s) = s[1]
  OBVIOUS
<1>4. ASSUME NEW x \in Elements(s)
      PROVE  x = Head(s) \/ x \in Elements(Tail(s))
  <2>1. PICK i \in 1 .. Len(s) : x = s[i]
    BY DEF Elements
  <2>2. CASE i # 1
    <3>1. i - 1 \in 1 .. Len(Tail(s)) /\ Tail(s)[i - 1] = s[i]
      BY <1>1, <1>2, <2>1, <2>2
    <3> QED
      BY <2>1, <3>1 DEF Elements
  <2> QED
    BY <1>3, <2>1, <2>2
<1>5. ASSUME NEW x \in Elements(Tail(s))
      PROVE  x \in Elements(s)
  <2>1. PICK i \in 1 .. Len(Tail(s)) : x = Tail(s)[i]
    BY DEF Elements
  <2>2. i + 1 \in 1 .. Len(s) /\ s[i + 1] = x
    BY <1>1, <1>2, <2>1
  <2> QED
    BY <2>2 DEF Elements
<1>6. Head(s) \in Elements(s)
  BY <1>1, <1>3 DEF Elements
<1> QED
  BY <1>4, <1>5, <1>6

(* An empty sequence has no elements. *)
LEMMA ElementsOfNone == Elements(<<>>) = {}
BY DEF Elements

(* What each operation publishes, as a set. *)
LEMMA PublishedSets ==
    /\ Published("submit") = {"submitted"}
    /\ Published("publish") = Candidate
    /\ Published("approve") = {"approved"}
    /\ Published("reject") = {"rejected"}
    /\ Published("retry") = {"child"}
    /\ Published("finalize") = Final
    /\ \A op : op \notin {"submit", "publish", "approve", "reject", "retry",
                          "finalize"} => Published(op) = {} /\ Publishes(op) = <<>>
<1>1. \A a : Elements(<<a>>) = {a}
  BY DEF Elements
<1>2. Elements(<<"candidate", "snapshot", "candidate_node">>) = Candidate
  <2>1. PICK s : s = <<"candidate", "snapshot", "candidate_node">>
    OBVIOUS
  <2>2. Len(s) = 3 /\ s[1] = "candidate" /\ s[2] = "snapshot" /\ s[3] = "candidate_node"
    BY <2>1
  <2>3. \A i \in 1 .. Len(s) : i = 1 \/ i = 2 \/ i = 3
    BY <2>2
  <2> QED
    BY <2>1, <2>2, <2>3 DEF Elements, Candidate
<1>3. Elements(<<"package", "report", "lineage_file", "bundle", "export_node">>) = Final
  <2>1. PICK s : s = <<"package", "report", "lineage_file", "bundle", "export_node">>
    OBVIOUS
  <2>2. /\ Len(s) = 5 /\ s[1] = "package" /\ s[2] = "report" /\ s[3] = "lineage_file"
        /\ s[4] = "bundle" /\ s[5] = "export_node"
    BY <2>1
  <2>3. \A i \in 1 .. Len(s) : i = 1 \/ i = 2 \/ i = 3 \/ i = 4 \/ i = 5
    BY <2>2
  <2> QED
    BY <2>1, <2>2, <2>3 DEF Elements, Final, FinalFiles
<1> QED
  BY <1>1, <1>2, <1>3, ElementsOfNone DEF Published, Publishes

(* Everything an operation publishes is an artifact, or the replacement.   *)
LEMMA PublishedAreArtifacts ==
    ASSUME NEW op
    PROVE  Published(op) \ {"child"} \subseteq Artifacts
BY PublishedSets DEF Artifacts, Candidate, Final, Decisions

-----------------------------------------------------------------------------
(* The parts of a step of p, as in JobLifecycle_proofs: p keeps the        *)
(* invariant for itself, touches the stores only under the lock, and has   *)
(* one of the effects.                                                     *)

Untouched(p) == UNCHANGED <<revision, disk, log>> \/ lock = p

FitsArtifacts(p) == Publishing(p) /\ Guarded(p) /\ Chosen(p)

GoodArtifacts(p) ==
    /\ SnapshotIsInside'
    /\ FitsArtifacts(p)'
    /\ Untouched(p)
    /\ Effect(p)

(* The invariants, for one caller. *)
LEMMA Known ==
    ASSUME IInv, IArtifacts, NEW p \in Procs
    PROVE  /\ TaskFits(p) /\ JobFits(p) /\ PathFits(p) /\ Relied(p)
           /\ Publishing(p) /\ Guarded(p) /\ Chosen(p)
           /\ task[p] \in Tasks /\ pc[p] \in Labels
           /\ lock = p <=> pc[p] \in Transacting
           /\ lease = p <=> task[p].op \in BuildOps /\ pc[p] # "lease"
BY DEF IInv, IArtifacts, TypeOK, LocksAreHeld

(* A caller that has ended its call relies on nothing. *)
LEMMA EndedFits ==
    ASSUME NEW p \in Procs, pc[p] = "idle", task[p] = NoTask
    PROVE  FitsArtifacts(p)
BY DEF FitsArtifacts, Publishing, Guarded, Chosen, Transacting, NoTask

(* Outside of its transactions nobody shows anything. *)
LEMMA UnseenOutside ==
    ASSUME IInv, NEW p \in Procs, pc[p] \notin Transacting,
           lock' \in {lock, Nobody}, lock' # lock => lock = p,
           UNCHANGED jobVars,
           \A q \in Procs \ {p} : task'[q] = task[q] /\ pc'[q] = pc[q]
    PROVE  Unseen
<1>1. lock # p /\ lock' = lock /\ lock \in Procs \cup {Nobody}
  BY DEF IInv, LocksAreHeld, TypeOK
<1>2. CASE lock = Nobody
  BY <1>1, <1>2 DEF Unseen, visible, VisibleState, VisibleRevision, VisibleDisk,
                    VisibleChildren, InTransaction, jobVars
<1>3. CASE lock # Nobody
  <2>1. task'[lock] = task[lock]
    BY <1>1, <1>3
  <2> QED
    BY <1>1, <2>1 DEF Unseen, visible, VisibleState, VisibleRevision, VisibleDisk,
                      VisibleChildren, InTransaction, jobVars
<1> QED
  BY <1>2, <1>3

(* A call that ends outside of a transaction. *)
LEMMA ReturnsUnseen ==
    ASSUME IInv, IArtifacts, NEW p \in Procs, pc[p] \notin Transacting,
           Return(p), UNCHANGED jobVars
    PROVE  GoodArtifacts(p)
<1>1. /\ pc'[p] = "idle" /\ task'[p] = NoTask
      /\ \A q \in Procs \ {p} : task'[q] = task[q] /\ pc'[q] = pc[q]
  BY ReturnFits
<1>2. Unseen
  BY <1>1, UnseenOutside DEF Return
<1>3. FitsArtifacts(p)'
  BY <1>1 DEF FitsArtifacts, Publishing, Guarded, Chosen, Transacting, NoTask
<1> QED
  BY <1>2, <1>3 DEF GoodArtifacts, Effect, Untouched, IArtifacts, SnapshotIsInside, jobVars

(* What a caller outside of a transaction must have chosen. *)
ChoiceFits(t, label) ==
    /\ t.op = "submit" => t.plan = <<>> \/ Target(t.plan) = "waiting_for_sources"
    /\ t.op \in {"publish", "mark_failed"} =>
          VisibleState \in {"processing", "cancelled"}
    /\ t.op = "publish" => t.plan = <<>>
    /\ t.op = "mark_failed" => t.plan \in {<<>>, <<"failed">>}
    /\ t.op = "finalize" /\ label = "lock" => t.plan # <<>>

(* A call that goes on outside of any transaction. *)
LEMMA GoesOnUnseen ==
    ASSUME IInv, IArtifacts, NEW p \in Procs, pc[p] \notin Transacting,
           NEW t \in Tasks, NEW label \in Labels \ Transacting,
           Goto(p, label), SetTask(p, t), UNCHANGED <<jobVars, lock>>,
           ChoiceFits(t, label)
    PROVE  GoodArtifacts(p)
<1>1. /\ pc'[p] = label /\ task'[p] = t
      /\ \A q \in Procs \ {p} : task'[q] = task[q] /\ pc'[q] = pc[q]
  BY DEF Goto, SetTask, IInv, TypeOK
<1>2. Unseen
  BY <1>1, UnseenOutside
<1>3. VisibleState' = VisibleState
  BY <1>2 DEF Unseen, visible
<1>4. FitsArtifacts(p)'
  BY <1>1, <1>3 DEF FitsArtifacts, Publishing, Guarded, Chosen, ChoiceFits, Transacting
<1> QED
  BY <1>2, <1>4 DEF GoodArtifacts, Effect, Untouched, IArtifacts, SnapshotIsInside, jobVars

(* The same with the task p has. *)
LEMMA GoesOnward ==
    ASSUME IInv, IArtifacts, NEW p \in Procs, pc[p] \notin Transacting,
           NEW label \in Labels \ Transacting, label # "lock" \/ task[p].op # "finalize",
           Goto(p, label), UNCHANGED <<jobVars, lock, task>>
    PROVE  GoodArtifacts(p)
<1>1. SetTask(p, task[p]) /\ task[p] \in Tasks
  BY DEF SetTask, IInv, TypeOK
<1>2. ChoiceFits(task[p], label)
  BY Known DEF Chosen, ChoiceFits
<1> QED
  BY <1>1, <1>2, GoesOnUnseen

(* A new call. *)
LEMMA StartCallArtifacts ==
    ASSUME IInv, IArtifacts, NEW p \in Procs, NEW call \in Calls, StartCall(p, call)
    PROVE  GoodArtifacts(p)
<1>1. /\ call \in AllCalls
      /\ FirstLabel[call] \in {"reread", "read", "lease", "lock"}
      /\ call = "finalize" => FirstLabel[call] = "read"
  BY ConstantsOK DEF AllCalls, FirstLabel
<1>2. FirstPlan(call) \in Plans(call) /\ (call = "submit" => FirstPlan(call) = <<>>)
  BY <1>1 DEF AllCalls, FirstPlan, Plans
<1>3. FirstPlan(call) \in Seq(States) /\ call \in Ops /\ NoTask \in Tasks
  BY <1>1, <1>2, PlansAreTyped, NoTaskIsTyped DEF Ops
<1>4. PICK t : t = [NoTask EXCEPT !.op = call, !.plan = FirstPlan(call)]
  OBVIOUS
<1>5. t \in Tasks /\ t.op = call /\ t.plan = FirstPlan(call)
  BY <1>3, <1>4 DEF Tasks, NoTask
<1>6. ChoiceFits(t, FirstLabel[call])
  BY <1>1, <1>2, <1>5 DEF ChoiceFits, AllCalls
<1>7. FirstLabel[call] \in Labels \ Transacting /\ pc[p] \notin Transacting
  BY <1>1 DEF StartCall, Labels, Transacting
<1> QED
  BY <1>4, <1>5, <1>6, <1>7, GoesOnUnseen DEF StartCall

(* All reads. *)
LEMMA ReadStepArtifacts ==
    ASSUME IInv, IArtifacts, NEW p \in Procs, ReadStep(p)
    PROVE  GoodArtifacts(p)
<1>1. CASE SubmitReads(p)
  BY <1>1, GoesOnward DEF SubmitReads, Reading, Labels, Transacting
<1>2. CASE ChooseSourcesPath(p)
  <2>1. /\ pc[p] \notin Transacting /\ task[p].op \in {"plan", "submit"}
        /\ task[p] \in Tasks
    BY <1>2, Known DEF ChooseSourcesPath, Reading, Transacting
  <2>2. PICK plan : plan = AppPlan(state, SourcesTarget(task[p].op))
    OBVIOUS
  <2>3. /\ plan \in Plans(task[p].op)
        /\ plan = <<SourcesTarget(task[p].op)>>
              \/ plan = <<"planning", SourcesTarget(task[p].op)>>
    BY <2>1, <2>2 DEF AppPlan, SourcesTarget, Plans
  <2>4. plan \in Seq(States)
    BY <2>3, PlansAreTyped
  <2>5. Target(plan) = SourcesTarget(task[p].op)
    BY <2>3 DEF Target
  <2>6. PICK t : t = [task[p] EXCEPT !.plan = plan]
    OBVIOUS
  <2>7. t \in Tasks /\ t.op = task[p].op /\ t.plan = plan
    BY <2>1, <2>4, <2>6 DEF Tasks
  <2>8. ChoiceFits(t, "lock")
    BY <2>1, <2>5, <2>7 DEF ChoiceFits, SourcesTarget
  <2> QED
    BY <1>2, <2>1, <2>2, <2>6, <2>7, <2>8, GoesOnUnseen
       DEF ChooseSourcesPath, Labels, Transacting
<1>3. CASE NothingToTransition(p)
  BY <1>3, ReturnsUnseen DEF NothingToTransition, Reading, Transacting
<1>4. CASE FinalizeReads(p)
  <2>1. CASE Return(p)
    BY <1>4, <2>1, ReturnsUnseen DEF FinalizeReads, Reading, Transacting
  <2>2. CASE ~Return(p)
    BY <1>4, <2>2, GoesOnward DEF FinalizeReads, Reading, Labels, Transacting
  <2> QED
    BY <2>1, <2>2
<1>5. CASE FinalizeFindsApproval(p)
  <2>1. /\ pc[p] \notin Transacting /\ task[p].op = "finalize"
        /\ task[p] \in Tasks
    BY <1>5, Known DEF FinalizeFindsApproval, Transacting, TaskFits
  <2>2. PICK plan : plan = <<"validating", "completed">>
    OBVIOUS
  <2>3. plan \in Seq(States) /\ plan # <<>>
    BY <2>2 DEF States
  <2>4. PICK t : t = [task[p] EXCEPT !.plan = plan]
    OBVIOUS
  <2>5. t \in Tasks /\ t.op = task[p].op /\ t.plan = plan
    BY <2>1, <2>3, <2>4 DEF Tasks
  <2>6. ChoiceFits(t, "lock")
    BY <2>1, <2>3, <2>5 DEF ChoiceFits
  <2> QED
    BY <1>5, <2>1, <2>2, <2>4, <2>5, <2>6, GoesOnUnseen
       DEF FinalizeFindsApproval, Labels, Transacting
<1>6. CASE FinalizeRefused(p)
  BY <1>6, ReturnsUnseen DEF FinalizeRefused, Transacting
<1>7. CASE MarkFailedReads(p)
  <2>1. CASE Return(p)
    BY <1>7, <2>1, ReturnsUnseen DEF MarkFailedReads, Reading, Transacting
  <2>2. CASE ~Return(p)
    BY <1>7, <2>2, GoesOnward DEF MarkFailedReads, Reading, Labels, Transacting
  <2> QED
    BY <2>1, <2>2
<1>8. CASE MarkFailedChoosesPath(p)
  <2>1. CASE state = "failed"
    BY <1>8, <2>1, ReturnsUnseen DEF MarkFailedChoosesPath, Reading, Transacting
  <2>2. CASE state # "failed"
    <3>1. /\ pc[p] \notin Transacting /\ task[p].op = "mark_failed"
          /\ task[p] \in Tasks /\ VisibleState = state
          /\ VisibleState \in {"processing", "cancelled"}
      BY <1>8, Known, VisibleUnlocked DEF MarkFailedChoosesPath, Reading, Transacting, Chosen
    <3>2. ToFailed(state) = <<"failed">>
      BY <3>1 DEF ToFailed
    <3>3. <<"failed">> \in Seq(States)
      BY DEF States
    <3>4. PICK t : t = [task[p] EXCEPT !.plan = ToFailed(state)]
      OBVIOUS
    <3>5. t \in Tasks /\ t.op = task[p].op /\ t.plan = <<"failed">>
      BY <3>1, <3>2, <3>3, <3>4 DEF Tasks
    <3>6. ChoiceFits(t, "lock")
      BY <3>1, <3>5 DEF ChoiceFits
    <3> QED
      BY <1>8, <2>2, <3>1, <3>4, <3>5, <3>6, GoesOnUnseen
         DEF MarkFailedChoosesPath, Labels, Transacting
  <2> QED
    BY <2>1, <2>2
<1>9. CASE GiveUp(p)
  BY <1>9, ReturnsUnseen DEF GiveUp, Transacting
<1> QED
  BY <1>1, <1>2, <1>3, <1>4, <1>5, <1>6, <1>7, <1>8, <1>9 DEF ReadStep

-----------------------------------------------------------------------------
(* Transactions begin. *)

(* What an operation has checked when it opens its transaction on s.       *)
OpensOn(op, plan, s) ==
    /\ op = "submit" =>
          /\ "submitted" \notin disk
          /\ plan = <<>> \/ Target(plan) = "waiting_for_sources"
    /\ op = "publish" =>
          "candidate" \notin disk /\ plan = <<"waiting_for_review">> /\ s = "processing"
    /\ op = "mark_failed" =>
          s \in {"processing", "cancelled"} /\ plan \in {<<>>, <<"failed">>}
    /\ op \in {"approve", "reject"} => s = "waiting_for_review" /\ Undecided
    /\ op = "finalize" =>
          s = "waiting_for_review" /\ plan # <<>> /\ disk \cap FinalFiles = {}
    /\ op = "retry" => s = "failed" /\ ~Retried
    /\ op = "claim_failed" => s \in Claimable

(* An open transaction has published nothing; others see what it found.    *)
LEMMA EnterShows ==
    ASSUME IInv, IArtifacts, NEW p \in Procs, NEW op \in Ops, NEW plan \in Plans(op),
           NEW s \in States, NEW r \in Nat, state' = s, revision' = r,
           Enter(p, op, plan, s, r), disk' = disk, children' = children,
           IsLast(op, plan) \/ Publishes(op) = <<>>,
           op = "retry" => log' = log,
           OpensOn(op, plan, s)
    PROVE  /\ SnapshotIsInside'
           /\ FitsArtifacts(p)'
           /\ VisibleState' = s /\ VisibleRevision' = r
           /\ VisibleDisk' = disk /\ VisibleChildren' = children
           /\ lock' = p
<1>1. PICK t : t = NewTask(op, plan, s, r)
  OBVIOUS
<1>2. /\ t.op = op /\ t.plan = plan /\ t.done = {} /\ t.saved = FALSE
      /\ t.prev.state = s /\ t.prev.revision = r /\ t.todo = Publishes(op)
  BY <1>1 DEF NewTask
<1>3. /\ task'[p] = t /\ pc'[p] = FirstStep(t) /\ lock' = p
  BY <1>1 DEF Enter, Goto, SetTask, IInv, TypeOK
<1>4. /\ FirstStep(t) \in {"hook", "save", "append"}
      /\ FirstStep(t) # "hook" => t.todo = <<>>
  BY DEF FirstStep, AfterHook
<1>5. VisibleState' = s /\ VisibleRevision' = r
      /\ VisibleDisk' = disk /\ VisibleChildren' = children
  BY <1>2, <1>3, ConstantsOK DEF VisibleState, VisibleRevision, VisibleDisk,
                                 VisibleChildren, InTransaction
<1>6. op = "retry" => ~Retried'
  BY DEF OpensOn, Retried
<1>7. Publishing(p)'
  BY <1>2, <1>3, <1>4, <1>6 DEF Publishing, Published
<1>8. Guarded(p)'
  BY <1>2, <1>3, <1>4, <1>5 DEF Guarded, OpensOn, Undecided
<1>9. Chosen(p)'
  BY <1>2, <1>3, <1>4, <1>5 DEF Chosen, OpensOn, Transacting
<1>10. SnapshotIsInside'
  BY DEF IArtifacts, SnapshotIsInside
<1> QED
  BY <1>3, <1>5, <1>7, <1>8, <1>9, <1>10 DEF FitsArtifacts

(* A transaction opened on a free lock. *)
LEMMA OpensUnseen ==
    ASSUME IInv, IArtifacts, NEW p \in Procs, NEW op \in Ops, NEW plan \in Plans(op),
           Enter(p, op, plan, state, revision), lock = Nobody, UNCHANGED jobVars,
           IsLast(op, plan) \/ Publishes(op) = <<>>,
           OpensOn(op, plan, state)
    PROVE  GoodArtifacts(p)
<1>1. PICK s \in States, r \in Nat : s = state /\ r = revision
  BY DEF IInv, TypeOK
<1>2. state' = s /\ revision' = r /\ disk' = disk /\ children' = children /\ log' = log
  BY <1>1 DEF jobVars
<1>3. /\ SnapshotIsInside'
      /\ FitsArtifacts(p)'
      /\ VisibleState' = s /\ VisibleRevision' = r
      /\ VisibleDisk' = disk /\ VisibleChildren' = children
  BY <1>1, <1>2, EnterShows
<1>4. Unseen
  BY <1>1, <1>2, <1>3 DEF Unseen, visible, VisibleState, VisibleRevision, VisibleDisk,
                          VisibleChildren, InTransaction
<1> QED
  BY <1>2, <1>3, <1>4 DEF GoodArtifacts, Effect, Untouched, jobVars

(* A publication is admitted from processing only, with one step to take.  *)
LEMMA PublicationsAreDirect ==
    ASSUME NEW s \in {"processing", "cancelled"},
           Legal(s, FirstPath("publish", ToReview(s)))
    PROVE  s = "processing" /\ ToReview(s) = <<"waiting_for_review">>
<1>1. CASE s = "processing"
  BY <1>1 DEF ToReview, ToProcessing
<1>2. CASE s = "cancelled"
  <2>1. ToReview(s) \in Plans("publish") /\ s \in Terminal /\ s \in States
    BY <1>2, PlansOfAPublication DEF Terminal, States
  <2>2. ToReview(s) # <<>>
    <3>1. PICK q, r : q = <<"processing">> /\ r = <<"waiting_for_review">>
      OBVIOUS
    <3>2. Len(q \o r) = 2
      BY <3>1
    <3> QED
      BY <1>2, <3>1, <3>2 DEF ToReview, ToProcessing
  <2> QED
    BY <2>1, <2>2, PathsAreTyped, TerminalsEnd
<1> QED
  BY <1>1, <1>2

(* A path of one step is the last of its plan. *)
LEMMA SinglesAreLast ==
    ASSUME NEW op, NEW s
    PROVE  IsLast(op, <<s>>) /\ IsLast(op, <<>>)
<1>1. Tail(<<s>>) = <<>>
  OBVIOUS
<1> QED
  BY <1>1 DEF IsLast, Rest

(* A transaction that is admitted. *)
LEMMA BeginArtifacts ==
    ASSUME IInv, IArtifacts, NEW p \in Procs, Begin(p)
    PROVE  GoodArtifacts(p)
<1>1. /\ pc[p] = "lock" /\ task[p].op \in TransactionOps /\ lock = Nobody
      /\ Admitted(p) /\ state \in States /\ VisibleState = state
      /\ TaskFits(p) /\ Relied(p) /\ Chosen(p)
  BY Known, VisibleUnlocked DEF Begin, Reading, IInv, TypeOK
<1>2. PICK op, plan : op = task[p].op /\ plan = PlanAtLock(p)
  OBVIOUS
<1>3. /\ plan \in Plans(op)
      /\ plan # <<>> => Legal(state, FirstPath(op, plan))
      /\ HookAdmits(op)
  BY <1>1, <1>2, PlansOfAPublication DEF PlanAtLock, TaskFits, Admitted
<1>4. op \in Ops /\ Enter(p, op, plan, state, revision) /\ UNCHANGED jobVars
  BY <1>1, <1>2 DEF Begin, TransactionOps, Ops, AllCalls, BuildOps
<1>5. CASE op = "publish"
  <2>1. state \in {"processing", "cancelled"} /\ plan = ToReview(state)
    BY <1>1, <1>2, <1>5 DEF Chosen, PlanAtLock
  <2>2. plan # <<>>
    <3>1. CASE state = "processing"
      BY <2>1, <3>1 DEF ToReview, ToProcessing
    <3>2. CASE state = "cancelled"
      <4>1. PICK q, r : q = <<"processing">> /\ r = <<"waiting_for_review">>
        OBVIOUS
      <4>2. Len(q \o r) = 2
        BY <4>1
      <4> QED
        BY <2>1, <3>2, <4>1, <4>2 DEF ToReview, ToProcessing
    <3> QED
      BY <2>1, <3>1, <3>2
  <2>3. state = "processing" /\ plan = <<"waiting_for_review">>
    BY <1>3, <1>5, <2>1, <2>2, PublicationsAreDirect
  <2>4. OpensOn(op, plan, state)
    BY <1>3, <1>5, <2>3 DEF OpensOn, HookAdmits
  <2>5. IsLast(op, plan)
    BY <2>3, SinglesAreLast
  <2> QED
    BY <1>1, <1>3, <1>4, <2>4, <2>5, OpensUnseen
<1>6. CASE op = "mark_failed"
  <2>1. OpensOn(op, plan, state)
    BY <1>1, <1>2, <1>6 DEF OpensOn, Chosen, PlanAtLock
  <2>2. Publishes(op) = <<>>
    BY <1>6, PublishedSets
  <2> QED
    BY <1>1, <1>3, <1>4, <2>1, <2>2, OpensUnseen
<1>7. CASE op = "finalize"
  <2>1. plan # <<>> /\ VisibleState \in {"waiting_for_review"} \cup Terminal
    BY <1>1, <1>2, <1>7 DEF Chosen, PlanAtLock, Relied
  <2>2. state = "waiting_for_review"
    BY <1>1, <1>3, <2>1, PathsAreTyped, TerminalsEnd
  <2>3. OpensOn(op, plan, state)
    BY <1>3, <1>7, <2>1, <2>2 DEF OpensOn, HookAdmits
  <2>4. IsLast(op, plan)
    BY <1>7 DEF IsLast, Rest, BuildOps
  <2> QED
    BY <1>1, <1>3, <1>4, <2>3, <2>4, OpensUnseen
<1>8. CASE op \in {"plan", "submit", "approve", "reject", "retry", "cancel"}
  <2>1. plan = task[p].plan
    BY <1>2, <1>8 DEF PlanAtLock
  <2>2. OpensOn(op, plan, state)
    BY <1>1, <1>2, <1>3, <1>8, <2>1 DEF OpensOn, HookAdmits, Chosen
  <2>3. IsLast(op, plan)
    BY <1>8 DEF IsLast, Rest, BuildOps
  <2> QED
    BY <1>1, <1>3, <1>4, <2>2, <2>3, OpensUnseen
<1> QED
  BY <1>1, <1>2, <1>5, <1>6, <1>7, <1>8 DEF TransactionOps

(* All steps of a build outside its transactions, and its claims. *)
LEMMA BuildStepArtifacts ==
    ASSUME IInv, IArtifacts, NEW p \in Procs, BuildStep(p)
    PROVE  GoodArtifacts(p)
<1>1. CASE AcquireLease(p)
  <2>1. task[p].op = "build"
    BY <1>1, Known DEF AcquireLease, TaskFits
  <2> QED
    BY <1>1, <2>1, GoesOnward DEF AcquireLease, Labels, Transacting
<1>2. CASE LeaseRefused(p)
  BY <1>2, ReturnsUnseen DEF LeaseRefused, Transacting
<1>3. CASE ClaimRefused(p)
  BY <1>3, ReturnsUnseen DEF ClaimRefused, Claiming, Reading, Transacting
<1>4. CASE Claim(p)
  <2>1. state \in Claimable /\ state # "processing" /\ lock = Nobody
    BY <1>4 DEF Claim, Claiming, Reading
  <2>2. PICK plan : plan = ToProcessing(state)
    OBVIOUS
  <2>3. plan \in Plans("build") /\ "build" \in Ops
    BY <2>1, <2>2, PlansOfABuild DEF Ops, BuildOps
  <2>4. OpensOn("build", plan, state) /\ Publishes("build") = <<>>
    BY PublishedSets DEF OpensOn
  <2> QED
    BY <1>4, <2>1, <2>2, <2>3, <2>4, OpensUnseen DEF Claim
<1>5. CASE ClaimStranded(p)
  BY <1>5, GoesOnward DEF ClaimStranded, Claiming, Reading, Labels, Transacting
<1>6. CASE ClaimLookupFails(p)
  <2>1. state \in Claimable /\ lock = Nobody
    BY <1>6 DEF ClaimLookupFails, Claiming, Reading
  <2>2. PICK plan : plan = ToFailed(state)
    OBVIOUS
  <2>3. plan \in Plans("claim_failed") /\ "claim_failed" \in Ops
    BY <2>1, <2>2, PlansOfABuild DEF Ops, BuildOps
  <2>4. OpensOn("claim_failed", plan, state) /\ Publishes("claim_failed") = <<>>
    BY <2>1, PublishedSets DEF OpensOn
  <2> QED
    BY <1>6, <2>1, <2>2, <2>3, <2>4, OpensUnseen DEF ClaimLookupFails
<1>7. CASE ProviderDelivers(p)
  <2>1. pc[p] \notin Transacting /\ VisibleState \in {"processing", "cancelled"}
    BY <1>7, Known DEF ProviderDelivers, Transacting, Relied
  <2>2. PICK t : t = [NoTask EXCEPT !.op = "publish"]
    OBVIOUS
  <2>3. t.op = "publish" /\ t.plan = <<>>
    BY <2>2 DEF NoTask
  <2>4. t \in Tasks
    BY <2>2, NoTaskIsTyped DEF Tasks, Ops, BuildOps
  <2>5. ChoiceFits(t, "lock")
    BY <2>1, <2>3 DEF ChoiceFits
  <2> QED
    BY <1>7, <2>1, <2>2, <2>4, <2>5, GoesOnUnseen
       DEF ProviderDelivers, Labels, Transacting
<1>8. CASE ProviderFails(p)
  <2>1. pc[p] \notin Transacting /\ VisibleState \in {"processing", "cancelled"}
    BY <1>8, Known DEF ProviderFails, Transacting, Relied
  <2>2. PICK t : t = [NoTask EXCEPT !.op = "mark_failed"]
    OBVIOUS
  <2>3. t.op = "mark_failed" /\ t.plan = <<>>
    BY <2>2 DEF NoTask
  <2>4. t \in Tasks
    BY <2>2, NoTaskIsTyped DEF Tasks, Ops, BuildOps
  <2>5. ChoiceFits(t, "read")
    BY <2>1, <2>3 DEF ChoiceFits
  <2> QED
    BY <1>8, <2>1, <2>2, <2>4, <2>5, GoesOnUnseen
       DEF ProviderFails, Labels, Transacting
<1> QED
  BY <1>1, <1>2, <1>3, <1>4, <1>5, <1>6, <1>7, <1>8 DEF BuildStep

-----------------------------------------------------------------------------
(* Inside a transaction. *)

(* What others see while a transaction of p is open: the job before it.    *)
LEMMA ShownInside ==
    ASSUME IInv, IArtifacts, NEW p \in Procs, pc[p] \in Transacting
    PROVE  /\ VisibleState = task[p].prev.state
           /\ VisibleRevision = task[p].prev.revision
           /\ VisibleDisk = disk \ task[p].done
           /\ VisibleChildren = IF "child" \in task[p].done THEN children - 1
                                                            ELSE children
           /\ lock = p /\ lock # Nobody
<1>1. lock = p /\ lock # Nobody
  BY ConstantsOK DEF IInv, LocksAreHeld
<1>2. Publishing(p)
  BY DEF IArtifacts
<1> QED
  BY <1>1, <1>2 DEF Publishing, VisibleState, VisibleRevision, VisibleDisk,
                    VisibleChildren, InTransaction

(* What p may be doing next inside its transaction.                        *)
FitsInside(t, label) ==
    /\ t.done \subseteq Published(t.op)
    /\ t.done \ {"child"} \subseteq disk'
    /\ label # "undo" => t.done \cup Elements(t.todo) = Published(t.op)
    /\ label \in {"save", "append"} => t.todo = <<>>
    /\ {"candidate", "snapshot"} \cap t.done = {"candidate"} => "snapshot" \notin disk'
    /\ label = "hook" /\ t.op # "finalize" =>
          \/ "candidate" \in t.done
          \/ t.todo = Publishes(t.op) /\ t.done = {}
    /\ state' = IF t.saved THEN SavedState(t) ELSE t.prev.state
    /\ revision' = IF t.saved THEN t.prev.revision + 1 ELSE t.prev.revision

(* A step inside a transaction that publishes, or takes back, only what    *)
(* the task says, is not seen.                                             *)
LEMMA InsideUnseen ==
    ASSUME IInv, IArtifacts, NEW p \in Procs, pc[p] \in Transacting,
           NEW t \in Tasks, NEW label \in Transacting,
           Goto(p, label), SetTask(p, t), lock' = lock, log' = log,
           t.op = task[p].op, t.plan = task[p].plan, t.prev = task[p].prev,
           label # "undo" => pc[p] # "undo",
           SnapshotIsInside', FitsInside(t, label),
           disk' \ t.done = disk \ task[p].done,
           (IF "child" \in t.done THEN children' - 1 ELSE children') = VisibleChildren
    PROVE  GoodArtifacts(p)
<1>1. /\ pc'[p] = label /\ task'[p] = t /\ lock = p /\ lock' = p /\ p # Nobody
  BY ShownInside DEF Goto, SetTask, IInv, TypeOK
<1>2. /\ VisibleState = task[p].prev.state /\ VisibleRevision = task[p].prev.revision
      /\ VisibleDisk = disk \ task[p].done
  BY ShownInside
<1>3. /\ VisibleState' = VisibleState /\ VisibleRevision' = VisibleRevision
      /\ VisibleDisk' = VisibleDisk /\ VisibleChildren' = VisibleChildren
  <2>1. state' = IF t.saved THEN SavedState(t) ELSE t.prev.state
    BY DEF FitsInside
  <2>2. revision' = IF t.saved THEN t.prev.revision + 1 ELSE t.prev.revision
    BY DEF FitsInside
  <2>3. InTransaction'
    BY <1>1 DEF InTransaction
  <2> QED
    BY <1>1, <1>2, <2>1, <2>2, <2>3
       DEF VisibleState, VisibleRevision, VisibleDisk, VisibleChildren
<1>4. Unseen
  BY <1>3 DEF Unseen, visible
<1>5. Publishing(p)'
  <2>1. Publishing(p) /\ (Retried' <=> Retried)
    BY DEF IArtifacts, Retried
  <2>2. task[p].op = "retry" => ~Retried'
    BY <2>1 DEF Publishing
  <2> QED
    BY <1>1, <2>2 DEF Publishing, FitsInside
<1>6. Guarded(p)'
  <2>1. Guarded(p) /\ (label \in {"hook", "save", "append"} => pc[p] \in {"hook", "save", "append"})
    BY DEF IArtifacts, Transacting
  <2> QED
    BY <1>1, <1>3, <2>1 DEF Guarded
<1>7. Chosen(p)'
  <2>1. Chosen(p)
    BY DEF IArtifacts
  <2> QED
    BY <1>1, <1>3, <2>1 DEF Chosen
<1> QED
  BY <1>1, <1>4, <1>5, <1>6, <1>7 DEF GoodArtifacts, Effect, Untouched, FitsArtifacts

(* A transaction gives up. *)
LEMMA GivesUpUnseen ==
    ASSUME IInv, IArtifacts, NEW p \in Procs, pc[p] \in {"hook", "save", "append"},
           Goto(p, "undo"), UNCHANGED <<jobVars, lock, task>>
    PROVE  GoodArtifacts(p)
<1>1. pc[p] \in Transacting /\ "undo" \in Transacting
  BY DEF Transacting
<1>2. SetTask(p, task[p]) /\ task[p] \in Tasks
  BY DEF SetTask, IInv, TypeOK
<1>3. SnapshotIsInside' /\ log' = log /\ disk' = disk /\ children' = children
  BY DEF IArtifacts, SnapshotIsInside, jobVars
<1>4. Publishing(p)
  BY DEF IArtifacts
<1>5. FitsInside(task[p], "undo")
  BY <1>1, <1>3, <1>4 DEF Publishing, FitsInside, jobVars
<1>6. (IF "child" \in task[p].done THEN children' - 1 ELSE children') = VisibleChildren
  BY <1>1, <1>3, ShownInside
<1> QED
  BY <1>1, <1>2, <1>3, <1>5, <1>6, InsideUnseen

(* An artifact is published. *)
LEMMA PublishNextArtifacts ==
    ASSUME IInv, IArtifacts, NEW p \in Procs, PublishNext(p)
    PROVE  GoodArtifacts(p)
<1>1. /\ pc[p] = "hook" /\ pc[p] \in Transacting /\ task[p].todo # <<>>
      /\ Publishing(p) /\ task[p] \in Tasks /\ ~task[p].saved
      /\ disk \subseteq Artifacts /\ children \in Nat /\ SnapshotIsInside
  BY Known DEF PublishNext, Transacting, TaskFits, JobFits, IArtifacts, IInv, TypeOK
<1>2. PICK a, t : /\ a = Head(task[p].todo)
                  /\ t = [task[p] EXCEPT !.todo = Tail(@), !.done = @ \cup {a}]
  OBVIOUS
<1>3. /\ t.op = task[p].op /\ t.plan = task[p].plan /\ t.prev = task[p].prev
      /\ t.todo = Tail(task[p].todo) /\ t.done = task[p].done \cup {a} /\ ~t.saved
  BY <1>1, <1>2 DEF Tasks
<1>4. /\ Elements(task[p].todo) = {a} \cup Elements(t.todo)
      /\ a \in Published(t.op) /\ a \in Artifacts \cup {"child"}
  <2>1. task[p].todo \in Seq(Artifacts \cup {"child"})
    BY <1>1 DEF Tasks
  <2>2. Elements(task[p].todo) = {a} \cup Elements(Tail(task[p].todo))
    BY <1>1, <1>2, <2>1, ElementsSplit
  <2>3. task[p].done \cup Elements(task[p].todo) = Published(task[p].op)
    BY <1>1 DEF Publishing
  <2>4. a \in Artifacts \cup {"child"}
    BY <1>1, <1>2, <2>1
  <2> QED
    BY <1>3, <2>2, <2>3, <2>4
<1>5. t \in Tasks
  <2>1. Tail(task[p].todo) \in Seq(Artifacts \cup {"child"})
    BY <1>1 DEF Tasks
  <2> QED
    BY <1>1, <1>2, <1>4, <2>1 DEF Tasks
<1>6. /\ a \notin disk
      /\ disk' = IF a = "child" THEN disk ELSE disk \cup {a}
      /\ children' = IF a = "child" THEN children + 1 ELSE children
      /\ SetTask(p, t) /\ Goto(p, FirstStep(t))
      /\ UNCHANGED <<state, revision, log, lock>>
  BY <1>2 DEF PublishNext
<1>7. "child" \notin disk
  BY <1>1 DEF Artifacts, Candidate, Final, FinalFiles, Decisions
<1>8. t.op = "publish" => a = "candidate" \/ "candidate" \in task[p].done
  <2>1. CASE t.op = "publish" /\ task[p].todo = Publishes(t.op)
    BY <1>2, <2>1 DEF Publishes
  <2> QED
    BY <1>1, <1>3, <2>1 DEF Publishing
<1>9. a \in {"candidate", "snapshot"} => t.op = "publish"
  BY <1>4, PublishedSets DEF Candidate, Final, FinalFiles
<1>10. SnapshotIsInside'
  <2>1. CASE a = "snapshot"
    <3>1. "candidate" \in task[p].done
      BY <1>8, <1>9, <2>1
    <3>2. "candidate" \in disk
      BY <1>1, <3>1 DEF Publishing
    <3> QED
      BY <1>6, <3>2 DEF SnapshotIsInside
  <2>2. CASE a # "snapshot"
    BY <1>1, <1>6, <2>2 DEF SnapshotIsInside
  <2> QED
    BY <2>1, <2>2
<1>11. a = "child" => task[p].done = {} /\ t.op = "retry"
  <2>1. a = "child" => t.op = "retry"
    BY <1>4, PublishedSets DEF Candidate, Final, FinalFiles
  <2>2. a = "child" => "candidate" \notin task[p].done
    BY <1>1, <1>3, <2>1, PublishedSets DEF Publishing
  <2> QED
    BY <1>1, <1>3, <2>1, <2>2 DEF Publishing
<1>12. FirstStep(t) \in {"hook", "save", "append"} /\ FirstStep(t) \in Transacting
  BY DEF FirstStep, AfterHook, Transacting
<1>13. FirstStep(t) = "hook" <=> t.todo # <<>>
  BY DEF FirstStep, AfterHook
<1>14. FirstStep(t) = "hook" /\ t.op # "finalize" => "candidate" \in t.done
  <2> SUFFICES ASSUME t.todo # <<>>, t.op # "finalize", "candidate" \notin task[p].done
               PROVE  "candidate" \in t.done
    BY <1>3, <1>13
  <2>1. task[p].todo = Publishes(t.op)
    BY <1>1, <1>3 DEF Publishing
  <2>2. t.op = "publish"
    <3>1. CASE t.op \in {"submit", "approve", "reject", "retry"}
      BY <1>3, <2>1, <3>1 DEF Publishes
    <3>2. CASE t.op \notin {"submit", "approve", "reject", "retry", "publish", "finalize"}
      BY <1>1, <2>1, <3>2, PublishedSets
    <3> QED
      BY <3>1, <3>2
  <2> QED
    BY <1>3, <1>8, <2>2
<1>15. FitsInside(t, FirstStep(t))
  <2>1. t.done \subseteq Published(t.op)
    BY <1>1, <1>3, <1>4 DEF Publishing
  <2>2. t.done \ {"child"} \subseteq disk'
    BY <1>1, <1>3, <1>6 DEF Publishing
  <2>3. t.done \cup Elements(t.todo) = Published(t.op)
    BY <1>1, <1>3, <1>4 DEF Publishing
  <2>4. {"candidate", "snapshot"} \cap t.done = {"candidate"} => "snapshot" \notin disk'
    <3>1. CASE a = "candidate"
      BY <1>1, <1>6, <3>1 DEF SnapshotIsInside
    <3>2. CASE a = "snapshot"
      BY <1>3, <3>2
    <3>3. CASE a \notin {"candidate", "snapshot"}
      BY <1>1, <1>3, <1>6, <3>3 DEF Publishing
    <3> QED
      BY <3>1, <3>2, <3>3
  <2>5. state = task[p].prev.state /\ revision = task[p].prev.revision
    BY <1>1 DEF Publishing
  <2> QED
    BY <1>3, <1>6, <1>12, <1>13, <1>14, <2>1, <2>2, <2>3, <2>4, <2>5 DEF FitsInside
<1>16. disk' \ t.done = disk \ task[p].done
  BY <1>3, <1>6, <1>7
<1>17. (IF "child" \in t.done THEN children' - 1 ELSE children') = VisibleChildren
  <2>1. VisibleChildren = IF "child" \in task[p].done THEN children - 1 ELSE children
    BY <1>1, ShownInside
  <2> QED
    BY <1>1, <1>3, <1>6, <1>11, <2>1
<1> QED
  BY <1>1, <1>3, <1>5, <1>6, <1>10, <1>12, <1>15, <1>16, <1>17, InsideUnseen

(* job.json is saved. *)
LEMMA SaveArtifacts ==
    ASSUME IInv, IArtifacts, NEW p \in Procs, Save(p)
    PROVE  GoodArtifacts(p)
<1>1. /\ pc[p] = "save" /\ pc[p] \in Transacting /\ "append" \in Transacting
      /\ Publishing(p) /\ task[p] \in Tasks /\ ~task[p].saved /\ SnapshotIsInside
  BY Known DEF Save, Transacting, JobFits, IArtifacts
<1>2. PICK t : t = [task[p] EXCEPT !.saved = TRUE]
  OBVIOUS
<1>3. /\ t.op = task[p].op /\ t.plan = task[p].plan /\ t.prev = task[p].prev
      /\ t.todo = task[p].todo /\ t.done = task[p].done /\ t.saved /\ t \in Tasks
  BY <1>1, <1>2 DEF Tasks
<1>4. /\ SetTask(p, t) /\ Goto(p, "append") /\ state' = SavedState(task[p])
      /\ revision' = revision + 1 /\ UNCHANGED <<log, disk, children, lock>>
  BY <1>2 DEF Save
<1>5. SavedState(t) = SavedState(task[p])
  BY <1>3 DEF SavedState
<1>6. FitsInside(t, "append")
  BY <1>1, <1>3, <1>4, <1>5 DEF Publishing, FitsInside
<1>7. SnapshotIsInside'
  BY <1>1, <1>4 DEF SnapshotIsInside
<1>8. (IF "child" \in t.done THEN children' - 1 ELSE children') = VisibleChildren
  BY <1>1, <1>3, <1>4, ShownInside
<1> QED
  BY <1>1, <1>3, <1>4, <1>6, <1>7, <1>8, InsideUnseen

-----------------------------------------------------------------------------
(* A rollback. *)

(* What is removed first: a candidate with its snapshot, and nothing that  *)
(* the transaction has not published.                                      *)
LEMMA Removals ==
    ASSUME IInv, IArtifacts, NEW p \in Procs, pc[p] = "undo", task[p].done # {}
    PROVE  /\ NextUndone(task[p]) \subseteq task[p].done
           /\ Removal(task[p]) \cap disk \subseteq task[p].done
           /\ NextUndone(task[p]) \subseteq Removal(task[p])
           /\ "candidate" \in task[p].done =>
                 {"candidate", "snapshot"} \subseteq Removal(task[p])
           /\ Removal(task[p]) \cap task[p].done \subseteq NextUndone(task[p])
           /\ "child" \in task[p].done => task[p].done = {"child"}
<1>1. Publishing(p) /\ pc[p] \in Transacting
  BY Known DEF Transacting
<1>2. NextUndone(task[p]) \subseteq task[p].done
  BY DEF NextUndone
<1>3. ASSUME "candidate" \in task[p].done
      PROVE  {"candidate", "snapshot"} \cap task[p].done \subseteq NextUndone(task[p])
  <2>1. \A b : 1 <= UndoRank(b)
    BY DEF UndoRank
  <2>2. UndoRank("candidate") = 1 /\ UndoRank("snapshot") = 1
    BY DEF UndoRank
  <2> QED
    BY <2>1, <2>2 DEF NextUndone
<1>4. "candidate" \in task[p].done /\ "snapshot" \in disk => "snapshot" \in task[p].done
  BY <1>1 DEF Publishing
<1>5. "child" \in task[p].done => task[p].done = {"child"}
  BY <1>1, PublishedSets DEF Publishing, Candidate, Final, FinalFiles
<1> QED
  BY <1>2, <1>3, <1>4, <1>5 DEF Removal

(* A removal. *)
LEMMA UndoNextArtifacts ==
    ASSUME IInv, IArtifacts, NEW p \in Procs, UndoNext(p)
    PROVE  GoodArtifacts(p)
<1>1. /\ pc[p] = "undo" /\ pc[p] \in Transacting /\ "undo" \in Transacting
      /\ task[p].done # {} /\ Publishing(p) /\ task[p] \in Tasks /\ SnapshotIsInside
  BY Known DEF UndoNext, Transacting, IArtifacts
<1>2. PICK t : t = [task[p] EXCEPT !.done = @ \ NextUndone(task[p])]
  OBVIOUS
<1>3. /\ t.op = task[p].op /\ t.plan = task[p].plan /\ t.prev = task[p].prev
      /\ t.done = task[p].done \ NextUndone(task[p]) /\ t.saved = task[p].saved
      /\ t \in Tasks
  BY <1>1, <1>2 DEF Tasks
<1>4. /\ SetTask(p, t) /\ Goto(p, "undo") /\ disk' = disk \ Removal(task[p])
      /\ children' = IF "child" \in NextUndone(task[p]) THEN children - 1 ELSE children
      /\ UNCHANGED <<state, revision, log, lock>>
  <2>1. Goto(p, "undo")
    BY <1>1 DEF UndoNext, Goto, IInv, TypeOK
  <2> QED
    BY <1>2, <2>1 DEF UndoNext
<1>5. /\ NextUndone(task[p]) \subseteq task[p].done
      /\ Removal(task[p]) \cap disk \subseteq task[p].done
      /\ NextUndone(task[p]) \subseteq Removal(task[p])
      /\ "candidate" \in task[p].done =>
            {"candidate", "snapshot"} \subseteq Removal(task[p])
      /\ Removal(task[p]) \cap task[p].done \subseteq NextUndone(task[p])
      /\ "child" \in task[p].done => task[p].done = {"child"}
  BY <1>1, Removals
<1>6. "candidate" \in Removal(task[p]) /\ "candidate" \in disk => "candidate" \in task[p].done
  BY <1>5
<1>7. SnapshotIsInside'
  BY <1>1, <1>4, <1>5, <1>6 DEF SnapshotIsInside
<1>8. SavedState(t) = SavedState(task[p])
  BY <1>3 DEF SavedState
<1>9. FitsInside(t, "undo")
  <2>1. t.done \subseteq Published(t.op) /\ t.done \ {"child"} \subseteq disk'
    BY <1>1, <1>3, <1>4, <1>5 DEF Publishing
  <2>2. {"candidate", "snapshot"} \cap t.done = {"candidate"} => "snapshot" \notin disk'
    BY <1>3, <1>4, <1>5
  <2> QED
    BY <1>1, <1>3, <1>4, <1>8, <2>1, <2>2 DEF Publishing, FitsInside
<1>10. disk' \ t.done = disk \ task[p].done
  BY <1>3, <1>4, <1>5
<1>11. "child" \in NextUndone(task[p]) <=> "child" \in task[p].done
  <2>1. ASSUME "child" \in task[p].done
        PROVE  NextUndone(task[p]) = {"child"}
    BY <1>5, <2>1 DEF NextUndone, UndoRank
  <2> QED
    BY <1>5, <2>1
<1>12. (IF "child" \in t.done THEN children' - 1 ELSE children') = VisibleChildren
  BY <1>1, <1>3, <1>4, <1>11, ShownInside
<1> QED
  BY <1>1, <1>3, <1>4, <1>7, <1>9, <1>10, <1>12, InsideUnseen

(* A removal that raises: what it leaves is seen from now on. *)
LEMMA UndoFailsArtifacts ==
    ASSUME IInv, IArtifacts, NEW p \in Procs, UndoFails(p)
    PROVE  GoodArtifacts(p)
<1>1. /\ pc[p] = "undo" /\ pc[p] \in Transacting /\ "cleanup" \in FaultKinds
      /\ task[p].done # {} /\ Publishing(p) /\ task[p] \in Tasks /\ SnapshotIsInside
      /\ Guarded(p) /\ Chosen(p)
  BY Known DEF UndoFails, Transacting, IArtifacts
<1>2. PICK t : t = [task[p] EXCEPT !.done =
                       IF task[p].op = "finalize" THEN @ \ NextUndone(task[p]) ELSE {}]
  OBVIOUS
<1>3. /\ t.op = task[p].op /\ t.plan = task[p].plan /\ t.prev = task[p].prev
      /\ t.todo = task[p].todo /\ t.done \subseteq task[p].done /\ t.saved = task[p].saved
      /\ t.op # "finalize" => t.done = {}
  BY <1>1, <1>2 DEF Tasks
<1>4. /\ task'[p] = t /\ pc' = pc /\ lock' = lock /\ lock = p /\ p # Nobody
      /\ UNCHANGED <<state, revision, log, disk, children>>
  BY <1>1, <1>2, ShownInside DEF UndoFails, SetTask, IInv, TypeOK, jobVars
<1>5. /\ VisibleState = task[p].prev.state /\ VisibleDisk = disk \ task[p].done
      /\ task[p].done \ {"child"} \subseteq Published(task[p].op) \ {"child"}
      /\ "child" \notin disk
  <2>1. "child" \notin disk
    BY DEF IInv, TypeOK, Artifacts, Candidate, Final, FinalFiles, Decisions
  <2> QED
    BY <1>1, <2>1, ShownInside DEF Publishing
<1>6. SavedState(t) = SavedState(task[p])
  BY <1>3 DEF SavedState
<1>7. VisibleState' = VisibleState /\ VisibleDisk' = disk \ t.done
  <2>1. InTransaction'
    BY <1>4 DEF InTransaction
  <2> QED
    BY <1>1, <1>3, <1>4, <1>5, <1>6, <2>1 DEF VisibleState, VisibleDisk, Publishing
<1>8. LeavesBehind(p)
  BY <1>1, <1>3, <1>4, <1>5, <1>7 DEF LeavesBehind, LeavesPart
<1>9. Publishing(p)'
  <2>1. "candidate" \notin t.done
    BY <1>1, <1>3, PublishedSets DEF Publishing, Final, FinalFiles
  <2>2. task[p].op = "retry" => ~Retried'
    BY <1>1, <1>4 DEF Publishing, Retried
  <2> QED
    BY <1>1, <1>3, <1>4, <1>6, <2>1, <2>2 DEF Publishing
<1>10. Guarded(p)'
  BY <1>1, <1>4 DEF Guarded
<1>11. Chosen(p)'
  BY <1>1, <1>3, <1>4, <1>7 DEF Chosen
<1>12. SnapshotIsInside'
  BY <1>1, <1>4 DEF SnapshotIsInside
<1> QED
  BY <1>4, <1>8, <1>9, <1>10, <1>11, <1>12 DEF GoodArtifacts, Effect, Untouched, FitsArtifacts

-----------------------------------------------------------------------------
(* Transactions end. *)

(* Once the lock is released, others see the job as it is. *)
LEMMA ReturnShows ==
    ASSUME IInv, NEW p \in Procs, pc[p] \in Transacting, Return(p)
    PROVE  /\ VisibleState' = state' /\ VisibleRevision' = revision'
           /\ VisibleDisk' = disk' /\ VisibleChildren' = children'
           /\ FitsArtifacts(p)' /\ lock = p
<1>1. lock = p /\ lock' = Nobody
  BY DEF IInv, LocksAreHeld, Return
<1>2. pc'[p] = "idle" /\ task'[p] = NoTask
  BY ReturnFits
<1>3. FitsArtifacts(p)'
  BY <1>2 DEF FitsArtifacts, Publishing, Guarded, Chosen, Transacting, NoTask
<1> QED
  BY <1>1, <1>3 DEF VisibleState, VisibleRevision, VisibleDisk, VisibleChildren,
                    InTransaction

(* What an append that succeeds makes visible. *)
LEMMA AppendCommits ==
    ASSUME IInv, IArtifacts, NEW p \in Procs, AppendEvents(p),
           VisibleState' = state, VisibleRevision' = revision,
           VisibleDisk' = disk, VisibleChildren' = children
    PROVE  Commits(p)
<1>1. /\ pc[p] = "append" /\ pc[p] \in Transacting /\ Publishing(p) /\ JobFits(p)
      /\ task[p] \in Tasks /\ children \in Nat
  BY Known DEF AppendEvents, Transacting, IInv, TypeOK
<1>2. task[p].todo = <<>>
  BY <1>1 DEF Publishing
<1>3. task[p].done = Published(task[p].op)
  BY <1>1, <1>2, ElementsOfNone DEF Publishing
<1>4. "child" \notin disk
  BY DEF IInv, TypeOK, Artifacts, Candidate, Final, FinalFiles, Decisions
<1>5. /\ VisibleState = task[p].prev.state /\ VisibleRevision = task[p].prev.revision
      /\ VisibleDisk = disk \ task[p].done
      /\ VisibleChildren = IF "child" \in task[p].done THEN children - 1 ELSE children
  BY <1>1, ShownInside
<1>6. disk = VisibleDisk \cup (Published(task[p].op) \ {"child"})
  BY <1>1, <1>3, <1>4, <1>5 DEF Publishing
<1>7. children = IF "child" \in Published(task[p].op)
                 THEN VisibleChildren + 1 ELSE VisibleChildren
  BY <1>1, <1>3, <1>5
<1>8. state = IF task[p].plan = <<>> THEN VisibleState ELSE SavedState(task[p])
  BY <1>1, <1>5 DEF JobFits
<1>9. revision = IF task[p].plan = <<>> THEN VisibleRevision ELSE VisibleRevision + 1
  BY <1>1, <1>5 DEF JobFits, Publishing
<1> QED
  BY <1>6, <1>7, <1>8, <1>9 DEF Commits, AppendEvents

(* A transaction commits and its call ends. *)
LEMMA CommitArtifacts ==
    ASSUME IInv, IArtifacts, NEW p \in Procs, Commit(p)
    PROVE  GoodArtifacts(p)
<1>1. pc[p] \in Transacting /\ Return(p) /\ SnapshotIsInside /\ AppendEvents(p)
      /\ UNCHANGED <<state, revision, disk, children>>
  BY DEF Commit, AppendEvents, Transacting, IArtifacts
<1>2. Commits(p)
  BY <1>1, ReturnShows, AppendCommits
<1> QED
  BY <1>1, <1>2, ReturnShows DEF GoodArtifacts, Effect, Untouched, SnapshotIsInside

(* A claim commits, and the provider is run. *)
LEMMA CommitClaimArtifacts ==
    ASSUME IInv, IArtifacts, NEW p \in Procs, CommitClaim(p)
    PROVE  GoodArtifacts(p)
<1>1. /\ SnapshotIsInside /\ AppendEvents(p) /\ lock' = Nobody
      /\ UNCHANGED <<state, revision, disk, children>>
      /\ pc[p] \in Transacting
  BY DEF CommitClaim, AppendEvents, Transacting, IArtifacts
<1>2. PICK t : t = [NoTask EXCEPT !.op = "build"]
  OBVIOUS
<1>3. t.op = "build" /\ t.plan = <<>>
  BY <1>2 DEF NoTask
<1>4. task'[p] = t /\ pc'[p] = "provider"
  BY <1>2 DEF CommitClaim, Goto, SetTask, IInv, TypeOK
<1>5. FitsArtifacts(p)'
  BY <1>3, <1>4 DEF FitsArtifacts, Publishing, Guarded, Chosen, Transacting
<1>6. /\ VisibleState' = state /\ VisibleRevision' = revision
      /\ VisibleDisk' = disk /\ VisibleChildren' = children
  BY <1>1 DEF VisibleState, VisibleRevision, VisibleDisk, VisibleChildren, InTransaction
<1>7. Commits(p)
  BY <1>1, <1>6, AppendCommits
<1>8. lock = p
  BY <1>1, ShownInside
<1> QED
  BY <1>1, <1>5, <1>7, <1>8 DEF GoodArtifacts, Effect, Untouched, SnapshotIsInside

(* A build step commits and goes on to the next. *)
LEMMA CommitAndContinueArtifacts ==
    ASSUME IInv, IArtifacts, NEW p \in Procs, CommitAndContinue(p)
    PROVE  GoodArtifacts(p)
<1>1. /\ AppendEvents(p) /\ pc[p] \in Transacting /\ pc[p] = "append"
      /\ ~IsLast(task[p].op, task[p].plan)
      /\ UNCHANGED <<state, revision, disk, children>>
      /\ TaskFits(p) /\ JobFits(p) /\ Chosen(p) /\ task[p] \in Tasks
  BY Known DEF CommitAndContinue, AppendEvents, Transacting
<1>2. PICK op, plan : op = task[p].op /\ plan = Rest(task[p].op, task[p].plan)
  OBVIOUS
<1>3. task[p].plan # <<>> /\ plan # <<>> /\ task[p].plan \in Plans(op)
  BY <1>1, <1>2 DEF IsLast, TaskFits
<1>4. op \in BuildOps /\ plan \in Plans(op) /\ Head(task[p].plan) \in {"planning", "processing"}
  BY <1>2, <1>3, PlansContinue
<1>5. op \in {"build", "claim_failed"}
  <2>1. op # "publish"
    BY <1>1, <1>2, SinglesAreLast DEF Chosen
  <2>2. op # "mark_failed"
    BY <1>1, <1>2, SinglesAreLast DEF Chosen
  <2> QED
    BY <1>4, <2>1, <2>2 DEF BuildOps
<1>6. state = Head(task[p].plan)
  <2>1. SavedState(task[p]) = Head(task[p].plan)
    BY <1>2, <1>4, LegalSteps DEF SavedState, FirstPath
  <2> QED
    BY <1>1, <1>3, <2>1 DEF JobFits
<1>7. PICK s \in States, r \in Nat : s = state /\ r = revision
  BY DEF IInv, TypeOK
<1>8. Publishes(op) = <<>> /\ OpensOn(op, plan, s) /\ op \in Ops
  BY <1>4, <1>5, <1>6, <1>7, PublishedSets DEF OpensOn, Claimable, Ops, BuildOps
<1>9. Enter(p, op, plan, s, r)
  BY <1>2, <1>7 DEF CommitAndContinue
<1>10. /\ SnapshotIsInside' /\ FitsArtifacts(p)'
       /\ VisibleState' = s /\ VisibleRevision' = r
       /\ VisibleDisk' = disk /\ VisibleChildren' = children
  BY <1>1, <1>4, <1>5, <1>7, <1>8, <1>9, EnterShows
<1>11. Commits(p)
  BY <1>1, <1>7, <1>10, AppendCommits
<1>12. lock = p
  BY <1>1, ShownInside
<1> QED
  BY <1>10, <1>11, <1>12 DEF GoodArtifacts, Effect, Untouched

(* job.json as a rollback leaves it is the job others saw all along. *)
LEMMA RestoreShows ==
    ASSUME IInv, IArtifacts, NEW p \in Procs, RestoreJob(p)
    PROVE  /\ pc[p] \in Transacting
           /\ state' = VisibleState /\ revision' = VisibleRevision
           /\ disk' = VisibleDisk /\ children' = VisibleChildren /\ log' = log
           /\ disk' = disk /\ children' = children
           /\ state' = task[p].prev.state /\ revision' = task[p].prev.revision
<1>1. pc[p] \in Transacting /\ Publishing(p) /\ task[p].done = {}
  BY Known DEF RestoreJob, Transacting
<1>2. /\ VisibleState = task[p].prev.state
      /\ VisibleRevision = task[p].prev.revision
      /\ VisibleDisk = disk
      /\ VisibleChildren = children
  BY <1>1, ShownInside
<1>3. state' = task[p].prev.state /\ revision' = task[p].prev.revision
  BY <1>1 DEF RestoreJob, Restored, Publishing
<1> QED
  BY <1>1, <1>2, <1>3 DEF RestoreJob

(* The rollback is complete, and the call raises. *)
LEMMA RestoreAndRaiseArtifacts ==
    ASSUME IInv, IArtifacts, NEW p \in Procs, RestoreAndRaise(p)
    PROVE  GoodArtifacts(p)
<1>1. /\ RestoreJob(p) /\ Return(p) /\ SnapshotIsInside
  BY DEF RestoreAndRaise, IArtifacts
<1>2. Unseen
  BY <1>1, RestoreShows, ReturnShows DEF Unseen, visible
<1> QED
  BY <1>1, <1>2, RestoreShows, ReturnShows
     DEF GoodArtifacts, Effect, Untouched, SnapshotIsInside

(* The rollback of a claim is complete, and the job is marked failed. *)
LEMMA RestoreAndMarkFailedArtifacts ==
    ASSUME IInv, IArtifacts, NEW p \in Procs, RestoreAndMarkFailed(p)
    PROVE  GoodArtifacts(p)
<1>1. RestoreJob(p) /\ pc[p] \in Transacting /\ task[p].op = "build" /\ PathFits(p)
  BY Known, RestoreShows DEF RestoreAndMarkFailed
<1>2. /\ state' = VisibleState /\ revision' = VisibleRevision
      /\ disk' = VisibleDisk /\ children' = VisibleChildren /\ log' = log
      /\ disk' = disk /\ children' = children
      /\ state' = task[p].prev.state /\ revision' = task[p].prev.revision
  BY <1>1, RestoreShows
<1>3. PICK s, r : s = state' /\ r = revision'
  OBVIOUS
<1>4. s \in Claimable /\ s \in States /\ r \in Nat
  BY <1>1, <1>2, <1>3, Inside DEF PathFits
<1>5. PICK plan : plan = ToFailed(s)
  OBVIOUS
<1>6. plan \in Plans("claim_failed") /\ "claim_failed" \in Ops
  BY <1>4, <1>5, PlansOfABuild DEF Ops, BuildOps
<1>7. Publishes("claim_failed") = <<>> /\ OpensOn("claim_failed", plan, s)
  BY <1>4, PublishedSets DEF OpensOn
<1>8. Enter(p, "claim_failed", plan, s, r)
  BY <1>3, <1>5 DEF RestoreAndMarkFailed
<1>9. /\ SnapshotIsInside' /\ FitsArtifacts(p)'
      /\ VisibleState' = s /\ VisibleRevision' = r
      /\ VisibleDisk' = disk /\ VisibleChildren' = children
  BY <1>2, <1>3, <1>4, <1>6, <1>7, <1>8, EnterShows
<1>10. Unseen
  BY <1>2, <1>3, <1>9 DEF Unseen, visible
<1>11. lock = p
  BY <1>1, ShownInside
<1> QED
  BY <1>9, <1>10, <1>11 DEF GoodArtifacts, Effect, Untouched

-----------------------------------------------------------------------------
(* Faults. *)

(* The process dies: what its transaction has published so far is seen.    *)
LEMMA CrashArtifacts ==
    ASSUME IInv, IArtifacts, NEW p \in Procs, Crash(p)
    PROVE  GoodArtifacts(p)
<1>1. CASE pc[p] \notin Transacting
  BY <1>1, ReturnsUnseen DEF Crash
<1>2. CASE pc[p] \in Transacting
  <2>1. /\ Return(p) /\ Publishing(p) /\ SnapshotIsInside
        /\ UNCHANGED <<state, revision, log, disk, children>>
    BY <1>2, Known DEF Crash, IArtifacts, jobVars
  <2>2. VisibleDisk = disk \ task[p].done /\ "child" \notin disk
    <3>1. "child" \notin disk
      BY DEF IInv, TypeOK, Artifacts, Candidate, Final, FinalFiles, Decisions
    <3> QED
      BY <1>2, <3>1, ShownInside
  <2>3. task[p].done \subseteq Published(task[p].op)
    BY <1>2, <2>1 DEF Publishing
  <2>4. pc[p] = "append" => task[p].done = Published(task[p].op)
    BY <1>2, <2>1, ElementsOfNone DEF Publishing
  <2>5. disk = VisibleDisk \cup (task[p].done \ {"child"})
    BY <1>2, <2>1, <2>2 DEF Publishing
  <2>6. VisibleState' = state /\ VisibleDisk' = disk /\ FitsArtifacts(p)' /\ lock = p
    BY <1>2, <2>1, ReturnShows
  <2>7. Dies(p)
    BY <1>2, <2>1, <2>3, <2>4, <2>5, <2>6 DEF Dies, LeavesPart, Crash
  <2> QED
    BY <2>1, <2>6, <2>7 DEF GoodArtifacts, Effect, Untouched, SnapshotIsInside
<1> QED
  BY <1>1, <1>2

(* All faults but the late ones. *)
LEMMA FaultArtifacts ==
    ASSUME NoLateFaults, IInv, IArtifacts, NEW p \in Procs, Fault(p)
    PROVE  GoodArtifacts(p)
<1>1. CASE WriteFails(p)
  BY <1>1, GivesUpUnseen DEF WriteFails
<1>2. CASE UndoFails(p)
  BY <1>2, UndoFailsArtifacts
<1>3. CASE Crash(p)
  BY <1>3, CrashArtifacts
<1> QED
  BY <1>1, <1>2, <1>3 DEF Fault, NoLateFaults, HookFailsLate, SaveFailsLate, AppendFailsLate

(* All steps of a transaction. *)
LEMMA TransactionStepArtifacts ==
    ASSUME IInv, IArtifacts, NEW p \in Procs, TransactionStep(p)
    PROVE  GoodArtifacts(p)
<1>1. CASE Begin(p)
  BY <1>1, BeginArtifacts
<1>2. CASE Refuse(p)
  BY <1>2, ReturnsUnseen DEF Refuse, Reading, Transacting
<1>3. CASE PublishNext(p)
  BY <1>3, PublishNextArtifacts
<1>4. CASE PublishClash(p)
  BY <1>4, GivesUpUnseen DEF PublishClash
<1>5. CASE Save(p)
  BY <1>5, SaveArtifacts
<1>6. CASE CommitAndContinue(p)
  BY <1>6, CommitAndContinueArtifacts
<1>7. CASE CommitClaim(p)
  BY <1>7, CommitClaimArtifacts
<1>8. CASE Commit(p)
  BY <1>8, CommitArtifacts
<1>9. CASE BudgetExceeded(p)
  BY <1>9, GivesUpUnseen DEF BudgetExceeded
<1>10. CASE UndoNext(p)
  BY <1>10, UndoNextArtifacts
<1>11. CASE RestoreAndRaise(p)
  BY <1>11, RestoreAndRaiseArtifacts
<1>12. CASE RestoreAndMarkFailed(p)
  BY <1>12, RestoreAndMarkFailedArtifacts
<1> QED
  BY <1>1, <1>2, <1>3, <1>4, <1>5, <1>6, <1>7, <1>8, <1>9, <1>10, <1>11, <1>12
     DEF TransactionStep

(* Every step is good for its caller, in both respects. *)
StepOf(p) ==
    \/ \E call \in Calls : StartCall(p, call)
    \/ Step(p)
    \/ Fault(p)

(* Whatever a caller does is good for it and its artifacts.               *)
LEMMA StepsAreGood ==
    ASSUME NoLateFaults, IInv, IArtifacts, NEW p \in Procs, StepOf(p)
    PROVE  Good(p) /\ GoodArtifacts(p)
<1>1. CASE \E call \in Calls : StartCall(p, call)
  BY <1>1, StartCallIsGood, StartCallArtifacts
<1>2. CASE ReadStep(p)
  BY <1>2, ReadStepIsGood, ReadStepArtifacts
<1>3. CASE BuildStep(p)
  BY <1>3, BuildStepIsGood, BuildStepArtifacts
<1>4. CASE TransactionStep(p)
  BY <1>4, TransactionStepIsGood, TransactionStepArtifacts
<1>5. CASE Fault(p)
  BY <1>5, FaultIsGood, FaultArtifacts
<1> QED
  BY <1>1, <1>2, <1>3, <1>4, <1>5 DEF Step, StepOf

(* A step of the system is the step of one caller.                         *)
LEMMA SomebodySteps == Next => \E p \in Procs : StepOf(p)
BY DEF Next, StepOf

-----------------------------------------------------------------------------
(* The steps of p against what another caller relies on. *)

(* Only a cancellation moves the job of a running build. *)
LEMMA BuildsAreLeftAlone ==
    ASSUME IInv, NEW p \in Procs, NEW q \in Procs \ {p}, Good(p),
           task[q].op \in BuildOps, pc[q] # "lease",
           VisibleState = "processing", VisibleState' # VisibleState
    PROVE  VisibleState' = "cancelled"
<1>1. lease = q /\ (task[p].op \notin BuildOps \/ pc[p] = "lease")
  BY DEF IInv, LocksAreHeld
<1>2. VisibleMove(p)
  BY DEF Good
<1>3. pc[p] \in Transacting /\ Relied(p) /\ task[p].op # "reject" /\ task[p].op # "finalize"
  BY <1>2, MovesAreLegal DEF Relied, Terminal
<1>4. task[p].op \notin BuildOps
  BY <1>1, <1>3 DEF Transacting
<1> QED
  BY <1>2, <1>3, <1>4, MovesAreLegal, MovesFromProcessing

(* A step of p disturbs the transaction of no other caller. *)
LEMMA OthersFitArtifacts ==
    ASSUME IInv, IArtifacts, NEW p \in Procs, NEW q \in Procs \ {p},
           Good(p), GoodArtifacts(p)
    PROVE  FitsArtifacts(q)'
<1>1. /\ task'[q] = task[q] /\ pc'[q] = pc[q]
      /\ Publishing(q) /\ Guarded(q) /\ Chosen(q) /\ TaskFits(q)
  BY Known DEF Good, Frame
<1>2. CASE pc[q] \in Transacting
  <2>1. lock = q /\ lock' = q /\ q # Nobody
    BY <1>1, <1>2, ConstantsOK DEF IInv, LocksAreHeld, Good
  <2>2. UNCHANGED <<state, revision, disk, log, children>>
    BY <2>1 DEF Good, Frame, GoodArtifacts, Untouched
  <2>3. VisibleState' = VisibleState /\ VisibleDisk' = VisibleDisk
    BY <1>1, <2>1, <2>2 DEF VisibleState, VisibleDisk, InTransaction
  <2>4. Retried' <=> Retried
    BY <2>2 DEF Retried
  <2>5. Publishing(q)'
    BY <1>1, <2>2, <2>4 DEF Publishing
  <2>6. Guarded(q)'
    BY <1>1, <2>3 DEF Guarded
  <2>7. Chosen(q)'
    BY <1>1, <2>3 DEF Chosen
  <2> QED
    BY <2>5, <2>6, <2>7 DEF FitsArtifacts
<1>3. CASE pc[q] \notin Transacting
  <2>1. Publishing(q)' /\ Guarded(q)'
    BY <1>1, <1>3 DEF Publishing, Guarded, Transacting
  <2>2. ASSUME task[q].op \in {"publish", "mark_failed"}
        PROVE  VisibleState' \in {"processing", "cancelled"}
    <3>1. VisibleState \in {"processing", "cancelled"}
      BY <1>1, <2>2 DEF Chosen
    <3>2. CASE VisibleState = "cancelled"
      BY <3>2, MovesAreLegal DEF Good, Terminal
    <3>3. CASE VisibleState = "processing"
      BY <1>1, <2>2, <3>3, BuildsAreLeftAlone DEF TaskFits, BuildOps
    <3> QED
      BY <3>1, <3>2, <3>3
  <2>3. Chosen(q)'
    BY <1>1, <2>2 DEF Chosen
  <2> QED
    BY <2>1, <2>3 DEF FitsArtifacts
<1> QED
  BY <1>2, <1>3

(* Every step keeps what open transactions rely on. *)
LEMMA NextIArtifacts ==
    ASSUME NoLateFaults, IInv, IArtifacts, [Next]_vars
    PROVE  IArtifacts'
<1>1. CASE Next
  <2>1. PICK p \in Procs : Good(p) /\ GoodArtifacts(p)
    BY <1>1, StepsAreGood, SomebodySteps
  <2>2. \A q \in Procs \ {p} : FitsArtifacts(q)'
    BY <2>1, OthersFitArtifacts
  <2> QED
    BY <2>1, <2>2 DEF GoodArtifacts, FitsArtifacts, IArtifacts
<1>2. CASE UNCHANGED vars
  BY <1>2 DEF vars, IArtifacts, SnapshotIsInside, Publishing, Guarded, Chosen,
              VisibleState, VisibleDisk, InTransaction, Retried
<1> QED
  BY <1>1, <1>2

(* The job as it is created. *)
LEMMA InitArtifacts ==
    ASSUME Init
    PROVE  /\ IArtifacts
           /\ VisibleState = "created" /\ VisibleRevision = 1
           /\ VisibleDisk = {} /\ VisibleChildren = 0
<1>1. \A p \in Procs : FitsArtifacts(p)
  BY EndedFits DEF Init
<1>2. SnapshotIsInside
  BY DEF Init, SnapshotIsInside
<1> QED
  BY <1>1, <1>2 DEF FitsArtifacts, IArtifacts, Init, VisibleState, VisibleRevision,
                    VisibleDisk, VisibleChildren, InTransaction

(* What an open transaction has published, and what its hook has checked,  *)
(* as long as writes that raise have no effect.                            *)
THEOREM TransactionsAreTracked ==
    ASSUME NoLateFaults
    PROVE  Spec => [](IInv /\ IArtifacts)
<1>1. Init => IInv /\ IArtifacts
  BY InitIInv, InitArtifacts
<1>2. (IInv /\ IArtifacts) /\ [Next]_vars => (IInv /\ IArtifacts)'
  BY NextIInv, NextIArtifacts
<1> QED
  BY <1>1, <1>2, PTL DEF Spec

-----------------------------------------------------------------------------
(* What a transaction appends to the log. *)

(* The events of a path of one state. *)
LEMMA SingleEvents ==
    ASSUME NEW s, NEW t, s # t
    PROVE  TransitionEvents(s, <<t>>) = <<Transition(s, t)>>
<1>1. PICK e : e = <<t>>
  OBVIOUS
<1>2. Entered(s, e) = e /\ Len(e) = 1 /\ e[1] = t
  BY <1>1 DEF Entered
<1>3. Trail(s, e)[1] = s
  BY <1>1, <1>2 DEF Trail
<1>4. TransitionEvents(s, e) = [i \in 1 .. 1 |-> Transition(s, t)]
  <2>1. TransitionEvents(s, e) =
            [i \in 1 .. 1 |-> Transition(Trail(s, e)[i], e[i])]
    BY <1>2 DEF TransitionEvents
  <2>2. \A i \in 1 .. 1 : i = 1
    OBVIOUS
  <2> QED
    BY <1>2, <1>3, <2>1, <2>2
<1>5. <<Transition(s, t)>> = [i \in 1 .. 1 |-> Transition(s, t)]
  OBVIOUS
<1> QED
  BY <1>1, <1>4, <1>5

(* The events of a path of two states, the first of which may be skipped.  *)
LEMMA PairEvents ==
    ASSUME NEW s, NEW u, NEW t, u # t
    PROVE  /\ s = u => TransitionEvents(s, <<u, t>>) = <<Transition(s, t)>>
           /\ s # u => TransitionEvents(s, <<u, t>>) =
                           <<Transition(s, u), Transition(u, t)>>
<1>1. ASSUME s = u
      PROVE  TransitionEvents(s, <<u, t>>) = <<Transition(s, t)>>
  <2>1. Entered(s, <<u, t>>) = <<t>> /\ Entered(s, <<t>>) = <<t>>
    BY <1>1 DEF Entered
  <2>2. TransitionEvents(s, <<u, t>>) = TransitionEvents(s, <<t>>)
    BY <2>1 DEF TransitionEvents, Trail
  <2> QED
    BY <1>1, <2>2, SingleEvents
<1>2. ASSUME s # u
      PROVE  TransitionEvents(s, <<u, t>>) = <<Transition(s, u), Transition(u, t)>>
  <2>1. PICK e : e = <<u, t>>
    OBVIOUS
  <2>2. Entered(s, e) = e /\ Len(e) = 2 /\ e[1] = u /\ e[2] = t
    BY <1>2, <2>1 DEF Entered
  <2>3. Trail(s, e)[1] = s /\ Trail(s, e)[2] = u
    BY <2>1, <2>2 DEF Trail
  <2>4. TransitionEvents(s, e) =
            [i \in 1 .. 2 |-> Transition(Trail(s, e)[i], e[i])]
    BY <2>2 DEF TransitionEvents
  <2>5. PICK f : f = <<Transition(s, u), Transition(u, t)>>
    OBVIOUS
  <2>6. f = [i \in 1 .. 2 |-> f[i]] /\ f[1] = Transition(s, u) /\ f[2] = Transition(u, t)
    BY <2>5
  <2>7. \A i \in 1 .. 2 : f[i] = Transition(Trail(s, e)[i], e[i])
    <3>1. \A i \in 1 .. 2 : i = 1 \/ i = 2
      OBVIOUS
    <3> QED
      BY <2>2, <2>3, <2>6, <3>1
  <2>8. f = [i \in 1 .. 2 |-> Transition(Trail(s, e)[i], e[i])]
    BY <2>6, <2>7
  <2> QED
    BY <2>1, <2>4, <2>5, <2>8
<1> QED
  BY <1>1, <1>2

(* Short sequences appended one element at a time. *)
LEMMA ConcatSteps ==
    ASSUME NEW S, NEW l \in Seq(S), NEW a \in S, NEW b \in S
    PROVE  /\ l \o <<>> = l
           /\ l \o <<a>> = Append(l, a)
           /\ l \o <<a, b>> = Append(Append(l, a), b)
<1>1. l \o <<>> = l
  OBVIOUS
<1>2. l \o <<a>> = Append(l, a)
  OBVIOUS
<1>3. l \o <<a, b>> = Append(Append(l, a), b)
  OBVIOUS
<1> QED
  BY <1>1, <1>2, <1>3

(* Events appended one batch after another.                                *)
LEMMA ConcatAssociates ==
    ASSUME NEW S, NEW l \in Seq(S), NEW m \in Seq(S), NEW n \in Seq(S)
    PROVE  l \o (m \o n) = (l \o m) \o n
OBVIOUS

-----------------------------------------------------------------------------
(* What a transaction that commits has done, operation by operation. *)

Moves(op, s, t) ==
    /\ op \notin {"approve", "retry"}
    /\ op # "finalize" =>
          \/ t \in AllowedTransitions[s]
          \/ s = "created" /\ t \in {"waiting_for_provider", "waiting_for_sources"}
    /\ op = "plan" => t \in {"waiting_for_provider", "waiting_for_sources"}
    /\ op = "submit" => t = "waiting_for_sources"
    /\ op = "build" => s \in Claimable /\ t \in {"planning", "processing"}
    /\ op = "claim_failed" => s \in Claimable /\ t \in {"planning", "failed"}
    /\ op = "mark_failed" => s = "processing" /\ t = "failed"
    /\ op = "publish" => s = "processing" /\ t = "waiting_for_review"
    /\ op = "reject" => s = "waiting_for_review" /\ t = "failed"
    /\ op = "finalize" => s = "waiting_for_review" /\ t = "completed"
    /\ op = "cancel" => t = "cancelled"
    /\ op \in {"plan", "submit", "build", "claim_failed", "mark_failed", "publish",
               "reject", "finalize", "cancel"}

Stays(op) == op \notin {"publish", "reject", "finalize", "cancel", "build"}

(* The transitions a move logs: its own, or by way of another state.       *)
Through(s, t) ==
    IF s = "waiting_for_review" THEN "validating" ELSE "planning"

MoveEvents(s, t, e) ==
    \/ e = <<Transition(s, t)>>
    \/ /\ e = <<Transition(s, Through(s, t)), Transition(Through(s, t), t)>>
       /\ \/ s = "created" /\ t \in {"waiting_for_provider", "waiting_for_sources"}
          \/ s = "waiting_for_review" /\ t = "completed"

(* The path of a committing transaction. *)
LEMMA PathsMove ==
    ASSUME NEW op, NEW plan \in Plans(op), plan # <<>>,
           NEW s \in States, Legal(s, FirstPath(op, plan)),
           op = "build" => s \in Claimable,
           op = "claim_failed" => s \in Claimable,
           op = "reject" => s = "waiting_for_review",
           op = "finalize" => s = "waiting_for_review",
           op = "submit" => Target(plan) = "waiting_for_sources",
           op = "publish" => plan = <<"waiting_for_review">> /\ s = "processing",
           op = "mark_failed" => plan = <<"failed">> /\ s = "processing"
    PROVE  /\ Moves(op, s, Target(FirstPath(op, plan)))
           /\ MoveEvents(s, Target(FirstPath(op, plan)),
                         TransitionEvents(s, FirstPath(op, plan)))
           /\ Target(FirstPath(op, plan)) \in States
<1>1. ASSUME NEW t \in States, FirstPath(op, plan) = <<t>>
      PROVE  /\ t \in AllowedTransitions[s] /\ Target(FirstPath(op, plan)) = t
             /\ MoveEvents(s, t, TransitionEvents(s, FirstPath(op, plan)))
  BY <1>1, LegalSteps, SingleEvents DEF MoveEvents
<1>2. CASE op \in {"plan", "submit"}
  <2>1. FirstPath(op, plan) = plan
    BY <1>2 DEF FirstPath, BuildOps
  <2>2. CASE \E t \in {"waiting_for_provider", "waiting_for_sources"} : plan = <<t>>
    <3>1. PICK t \in {"waiting_for_provider", "waiting_for_sources"} : plan = <<t>>
      BY <2>2
    <3>2. t \in States
      BY DEF States
    <3> QED
      BY <1>1, <1>2, <2>1, <3>1, <3>2 DEF Moves
  <2>3. CASE \E t \in {"waiting_for_provider", "waiting_for_sources"} :
                 plan = <<"planning", t>>
    <3>1. PICK t \in {"waiting_for_provider", "waiting_for_sources"} :
              plan = <<"planning", t>>
      BY <2>3
    <3>2. t \in States /\ t # "planning" /\ Target(plan) = t
      BY <3>1 DEF States, Target
    <3>3. CASE s = "planning"
      <4>1. t \in AllowedTransitions[s]
        BY <3>3 DEF AllowedTransitions
      <4>2. MoveEvents(s, t, TransitionEvents(s, plan))
        BY <3>1, <3>2, <3>3, PairEvents DEF MoveEvents
      <4> QED
        BY <1>2, <2>1, <3>2, <4>1, <4>2 DEF Moves
    <3>4. CASE s # "planning"
      <4>1. "planning" \in AllowedTransitions[s]
        BY <2>1, <3>1, <3>4, LegalPairs
      <4>2. s = "created"
        BY <4>1 DEF AllowedTransitions, States
      <4>3. MoveEvents(s, t, TransitionEvents(s, plan))
        BY <3>1, <3>2, <4>2, PairEvents DEF MoveEvents, Through
      <4> QED
        BY <1>2, <2>1, <3>2, <4>2, <4>3 DEF Moves
    <3> QED
      BY <3>3, <3>4
  <2> QED
    BY <1>2, <2>2, <2>3 DEF Plans
<1>3. CASE op \in BuildOps
  <2>1. FirstPath(op, plan) = <<Head(plan)>> /\ Head(plan) \in States
    BY <1>3, PlansAreTyped DEF FirstPath
  <2>2. /\ Head(plan) \in AllowedTransitions[s]
        /\ Target(FirstPath(op, plan)) = Head(plan)
        /\ MoveEvents(s, Head(plan), TransitionEvents(s, FirstPath(op, plan)))
    BY <1>1, <2>1
  <2>3. op = "build" => Head(plan) \in {"planning", "processing"}
    BY DEF Plans
  <2>4. op = "claim_failed" => Head(plan) \in {"planning", "failed"}
    BY DEF Plans
  <2>5. op = "mark_failed" => Head(plan) = "failed"
    OBVIOUS
  <2>6. op = "publish" => Head(plan) = "waiting_for_review"
    OBVIOUS
  <2> QED
    BY <1>3, <2>1, <2>2, <2>3, <2>4, <2>5, <2>6 DEF Moves, BuildOps
<1>4. CASE op \in {"reject", "cancel"}
  <2>1. PICK t \in {"failed", "cancelled"} :
            FirstPath(op, plan) = <<t>> /\ (op = "reject" <=> t = "failed")
    BY <1>4 DEF FirstPath, BuildOps, Plans
  <2>2. t \in States
    BY DEF States
  <2> QED
    BY <1>1, <1>4, <2>1, <2>2 DEF Moves
<1>5. CASE op = "finalize"
  <2>1. FirstPath(op, plan) = <<"validating", "completed">>
    BY <1>5 DEF FirstPath, BuildOps, Plans
  <2>2. Target(FirstPath(op, plan)) = "completed"
    BY <2>1 DEF Target
  <2>3. MoveEvents(s, "completed", TransitionEvents(s, FirstPath(op, plan)))
    BY <1>5, <2>1, PairEvents DEF MoveEvents, Through
  <2> QED
    BY <1>5, <2>2, <2>3 DEF Moves, States
<1> QED
  BY <1>2, <1>3, <1>4, <1>5 DEF Plans, BuildOps

(* What an operation is about to commit. *)
LEMMA Pending ==
    ASSUME IInv, IArtifacts, NEW p \in Procs, pc[p] = "append"
    PROVE  /\ Guarded(p) /\ task[p].op \in Ops \cup {"none"}
           /\ VisibleState \in States /\ state \in States
           /\ VisibleState = task[p].prev.state
           /\ log \in Seq(Events) /\ Notes(task[p].op) \in Seq(Events)
           /\ \/ /\ task[p].plan = <<>> /\ Stays(task[p].op)
                 /\ state = VisibleState
                 /\ NewEvents(task[p]) = Notes(task[p].op)
              \/ /\ task[p].plan # <<>>
                 /\ state = SavedState(task[p])
                 /\ Moves(task[p].op, VisibleState, state)
                 /\ \E e \in Seq(Events) :
                       /\ MoveEvents(VisibleState, state, e)
                       /\ NewEvents(task[p]) = e \o Notes(task[p].op)
<1>1. /\ pc[p] \in Transacting
      /\ TaskFits(p) /\ JobFits(p) /\ PathFits(p) /\ Guarded(p) /\ Chosen(p)
      /\ task[p] \in Tasks /\ log \in Seq(Events) /\ state \in States
  BY Known DEF Transacting, IInv, TypeOK
<1>2. VisibleState = task[p].prev.state /\ VisibleState \in States
  BY <1>1, ShownInside, Inside
<1>3. PICK op, plan : op = task[p].op /\ plan = task[p].plan
  OBVIOUS
<1>4. plan \in Plans(op) /\ op \in Ops \cup {"none"} /\ Notes(op) \in Seq(Events)
  BY <1>1, <1>3, NotesAreTyped DEF TaskFits, Tasks
<1>5. NewEvents(task[p]) =
          (IF plan = <<>> THEN <<>> ELSE TransitionEvents(VisibleState, FirstPath(op, plan)))
          \o Notes(op)
  BY <1>2, <1>3 DEF NewEvents
<1>6. CASE plan = <<>>
  <2>1. Stays(op)
    <3>1. op \notin {"publish", "finalize", "build"}
      <4>1. <<"waiting_for_review">> # <<>>
        OBVIOUS
      <4> QED
        BY <1>1, <1>3, <1>6, <4>1 DEF Chosen, PathFits
    <3>2. op \notin {"reject", "cancel"}
      BY <1>4, <1>6 DEF Plans
    <3> QED
      BY <3>1, <3>2 DEF Stays
  <2>2. NewEvents(task[p]) = Notes(op)
    BY <1>4, <1>5, <1>6
  <2>3. state = VisibleState
    BY <1>1, <1>2, <1>3, <1>6 DEF JobFits
  <2> QED
    BY <1>1, <1>2, <1>3, <1>4, <1>6, <2>1, <2>2, <2>3
<1>7. CASE plan # <<>>
  <2>1. PICK path : path = FirstPath(op, plan)
    OBVIOUS
  <2>2. Legal(VisibleState, path) /\ path \in Seq(States) /\ path # <<>>
    BY <1>1, <1>2, <1>3, <1>4, <1>7, <2>1, PathsAreTyped DEF PathFits
  <2>3. /\ op = "build" => VisibleState \in Claimable
        /\ op = "claim_failed" => VisibleState \in Claimable
        /\ op \in {"reject", "finalize"} => VisibleState = "waiting_for_review"
    BY <1>1, <1>2, <1>3 DEF PathFits, Guarded
  <2>4. op = "submit" => Target(plan) = "waiting_for_sources"
    BY <1>1, <1>3, <1>7 DEF Chosen
  <2>5. op \in {"publish", "mark_failed"} => VisibleState = "processing"
    <3>1. op \in {"publish", "mark_failed"} => VisibleState \in {"processing", "cancelled"}
      BY <1>1, <1>3 DEF Chosen
    <3> QED
      BY <2>2, <3>1, TerminalsEnd DEF Terminal
  <2>6. /\ op = "publish" => plan = <<"waiting_for_review">>
        /\ op = "mark_failed" => plan = <<"failed">>
    BY <1>1, <1>3, <1>7 DEF Chosen
  <2>7. /\ Moves(op, VisibleState, Target(path))
        /\ MoveEvents(VisibleState, Target(path), TransitionEvents(VisibleState, path))
        /\ Target(path) \in States
    BY <1>2, <1>4, <1>7, <2>1, <2>2, <2>3, <2>4, <2>5, <2>6, PathsMove
  <2>8. state = Target(path) /\ state = SavedState(task[p])
    BY <1>1, <1>3, <1>7, <2>1 DEF JobFits, SavedState
  <2>9. TransitionEvents(VisibleState, path) \in Seq(Events)
    BY <1>2, <2>2, EventsAreTyped
  <2>10. NewEvents(task[p]) = TransitionEvents(VisibleState, path) \o Notes(op)
    BY <1>5, <1>7, <2>1
  <2> QED
    BY <1>1, <1>2, <1>3, <1>4, <1>7, <2>7, <2>8, <2>9, <2>10
<1> QED
  BY <1>6, <1>7

(* The state after a commit is the one on disk before it. *)
LEMMA CommitsShowState ==
    ASSUME IInv, IArtifacts, NEW p \in Procs, Commits(p)
    PROVE  VisibleState' = state
<1>1. pc[p] = "append"
  BY DEF Commits
<1> QED
  BY <1>1, Pending DEF Commits

-----------------------------------------------------------------------------
(* A job under review or completed has its artifacts. *)

(* Which operations lead there. *)
LEMMA MovesIntoReview ==
    ASSUME NEW op, NEW s \in States, NEW t \in States, Moves(op, s, t)
    PROVE  /\ t = "waiting_for_review" <=> op = "publish"
           /\ t = "completed" <=> op = "finalize"
           /\ op = "publish" => s = "processing"
           /\ op = "finalize" => s = "waiting_for_review"
           /\ s \notin Terminal
BY DEF Moves, AllowedTransitions, Terminal, States

(* What is seen of the artifacts only grows, and a commit brings those of  *)
(* the state it leads to.                                                  *)
LEMMA PendingBacks ==
    ASSUME IInv, IArtifacts, IBacked, NEW p \in Procs, pc[p] = "append",
           NEW D, D = VisibleDisk \cup (Published(task[p].op) \ {"child"})
    PROVE  /\ state \in {"waiting_for_review", "completed"} => Candidate \subseteq D
           /\ state = "completed" => Final \subseteq D
<1>1. "child" \notin Candidate /\ "child" \notin Final
  BY DEF Candidate, Final, FinalFiles
<1>2. CASE state = VisibleState
  BY <1>2 DEF IBacked
<1>3. CASE Moves(task[p].op, VisibleState, state)
  <2>1. VisibleState \in States /\ state \in States
    BY Pending
  <2>2. CASE task[p].op = "publish"
    BY <1>1, <1>3, <2>1, <2>2, MovesIntoReview, PublishedSets
  <2>3. CASE task[p].op = "finalize"
    BY <1>1, <1>3, <2>1, <2>3, MovesIntoReview, PublishedSets DEF IBacked
  <2>4. CASE task[p].op \notin {"publish", "finalize"}
    BY <1>3, <2>1, <2>4, MovesIntoReview
  <2> QED
    BY <2>2, <2>3, <2>4
<1> QED
  BY <1>2, <1>3, Pending

(* A crash in a transaction shows the state it had saved, which happens    *)
(* only after its last artifact.                                           *)
LEMMA EffectsBack ==
    ASSUME IInv, IArtifacts, IBacked, NEW p \in Procs, Effect(p),
           "crash" \in FaultKinds /\ pc[p] = "undo" => ~task[p].saved
    PROVE  IBacked'
<1>1. CASE Unseen
  BY <1>1 DEF Unseen, visible, IBacked
<1>2. CASE Commits(p)
  <2>1. pc[p] = "append" /\ VisibleState' = state
        /\ VisibleDisk' = VisibleDisk \cup (Published(task[p].op) \ {"child"})
    BY <1>2, CommitsShowState DEF Commits
  <2> QED
    BY <2>1, PendingBacks DEF IBacked
<1>3. CASE LeavesBehind(p)
  BY <1>3 DEF LeavesBehind, LeavesPart, IBacked
<1>4. CASE Dies(p)
  <2>1. CASE pc[p] = "append"
    <3>1. VisibleState' = state
          /\ VisibleDisk' = VisibleDisk \cup (Published(task[p].op) \ {"child"})
      BY <1>4, <2>1 DEF Dies
    <3> QED
      BY <2>1, <3>1, PendingBacks DEF IBacked
  <2>2. CASE pc[p] # "append"
    <3>1. pc[p] \in Transacting /\ ~task[p].saved
      BY <1>4, <2>2, Known DEF Dies, JobFits, Transacting
    <3>2. lock = p /\ VisibleState = state
      BY <3>1, ShownInside DEF VisibleState
    <3> QED
      BY <1>4, <3>2 DEF Dies, LeavesPart, IBacked
  <2> QED
    BY <2>1, <2>2
<1> QED
  BY <1>1, <1>2, <1>3, <1>4 DEF Effect

(* Whenever writes fail without effect and removals fail, a job under      *)
(* review or completed has all its files: JobService publishes before it   *)
(* saves, and restores job.json even when its rollback is incomplete.      *)
THEOREM ReviewedJobsAreBacked ==
    ASSUME NoLateFaults, "crash" \notin FaultKinds
    PROVE  Spec => []StateIsBacked
<1>1. Init => IBacked
  BY InitArtifacts DEF IBacked
<1>2. IInv /\ IArtifacts /\ IBacked /\ [Next]_vars => IBacked'
  <2> SUFFICES ASSUME IInv, IArtifacts, IBacked, [Next]_vars
               PROVE  IBacked'
    OBVIOUS
  <2>1. CASE Next
    <3>1. PICK p \in Procs : StepOf(p)
      BY <2>1, SomebodySteps
    <3> QED
      BY <3>1, StepsAreGood, EffectsBack DEF GoodArtifacts
  <2>2. CASE UNCHANGED vars
    BY <2>2 DEF vars, IBacked, VisibleState, VisibleDisk, InTransaction
  <2> QED
    BY <2>1, <2>2
<1>3. IBacked => StateIsBacked
  BY DEF IBacked, StateIsBacked, CompletionIsWhole, VisibleDisk
<1> QED
  BY <1>1, <1>2, <1>3, TransactionsAreTracked, PTL DEF Spec

-----------------------------------------------------------------------------
(* Crashes alone. *)

(* Every move takes the job up the ranks, a step for each event it logs.   *)
LEMMA MovesClimb ==
    ASSUME NEW op, NEW s \in States, NEW t \in States, NEW e \in Seq(Events),
           Moves(op, s, t), MoveEvents(s, t, e)
    PROVE  /\ Len(e) <= Rank[t] - Rank[s] /\ Rank[s] < Rank[t]
           /\ Rank[s] \in 0 .. 7 /\ Rank[t] \in 0 .. 7
<1>1. Len(e) \in {1, 2}
  BY DEF MoveEvents
<1>2. Len(e) = 2 => \/ s = "created" /\ t \in {"waiting_for_provider", "waiting_for_sources"}
                    \/ s = "waiting_for_review" /\ t = "completed"
  BY DEF MoveEvents
<1>3. Rank[s] \in 0 .. 7 /\ Rank[t] \in 0 .. 7
  BY DEF States, Rank
<1>4. Rank[s] < Rank[t]
  <2>1. CASE op = "finalize"
    BY <2>1 DEF Moves, Rank
  <2>2. CASE op # "finalize" /\ t \in AllowedTransitions[s]
    BY <2>2 DEF Moves, Rank, AllowedTransitions, States, Claimable
  <2>3. CASE s = "created" /\ t \in {"waiting_for_provider", "waiting_for_sources"}
    BY <2>3 DEF Rank
  <2> QED
    BY <2>1, <2>2, <2>3 DEF Moves
<1>5. Len(e) = 2 => Rank[s] + 2 <= Rank[t]
  BY <1>2 DEF Rank
<1>6. PICK n \in {1, 2}, a \in 0 .. 7, b \in 0 .. 7 :
          n = Len(e) /\ a = Rank[s] /\ b = Rank[t]
  BY <1>1, <1>3
<1>7. a < b /\ (n = 2 => a + 2 <= b)
  BY <1>4, <1>5, <1>6
<1>8. n <= b - a
  BY <1>7
<1> QED
  BY <1>3, <1>4, <1>6, <1>8

(* What a pending commit appends is counted by the state it leads to and   *)
(* by the artifact it records.                                             *)
LEMMA PendingIsShort ==
    ASSUME IInv, IArtifacts, NEW p \in Procs, pc[p] = "append"
    PROVE  /\ Len(NewEvents(task[p])) \in Nat
           /\ Len(NewEvents(task[p])) <=
                 Rank[state] - Rank[VisibleState] + Len(Notes(task[p].op))
           /\ Rank[state] \in 0 .. 7 /\ Rank[VisibleState] \in 0 .. 7
           /\ Len(log) \in Nat /\ Len(Notes(task[p].op)) \in {0, 1}
<1>1. /\ VisibleState \in States /\ state \in States
      /\ log \in Seq(Events) /\ Notes(task[p].op) \in Seq(Events)
  BY Pending
<1>2. Rank[state] \in 0 .. 7 /\ Rank[VisibleState] \in 0 .. 7
  BY <1>1 DEF States, Rank
<1>3. Len(Notes(task[p].op)) \in {0, 1}
  BY DEF Notes
<1>4. CASE state = VisibleState /\ NewEvents(task[p]) = Notes(task[p].op)
  BY <1>1, <1>2, <1>3, <1>4
<1>5. CASE /\ Moves(task[p].op, VisibleState, state)
           /\ \E e \in Seq(Events) : /\ MoveEvents(VisibleState, state, e)
                                     /\ NewEvents(task[p]) = e \o Notes(task[p].op)
  <2>1. PICK e \in Seq(Events) : /\ MoveEvents(VisibleState, state, e)
                                 /\ NewEvents(task[p]) = e \o Notes(task[p].op)
    BY <1>5
  <2>2. Len(e) <= Rank[state] - Rank[VisibleState]
    BY <1>1, <1>5, <2>1, MovesClimb
  <2>3. Len(NewEvents(task[p])) = Len(e) + Len(Notes(task[p].op)) /\ Len(e) \in Nat
    BY <1>1, <2>1
  <2>4. PICK n \in Nat, k \in {0, 1}, a \in 0 .. 7, b \in 0 .. 7 :
            /\ n = Len(e) /\ k = Len(Notes(task[p].op))
            /\ a = Rank[VisibleState] /\ b = Rank[state]
    BY <1>2, <1>3, <2>3
  <2>5. n <= b - a /\ Len(NewEvents(task[p])) = n + k
    BY <2>2, <2>3, <2>4
  <2>6. n + k <= b - a + k /\ n + k \in Nat
    BY <2>5
  <2> QED
    BY <1>1, <1>2, <1>3, <2>4, <2>5, <2>6
<1> QED
  BY <1>4, <1>5, Pending

(* A bare event marks an artifact that was not there, or the one retry.    *)
LEMMA PendingNotes ==
    ASSUME IInv, IArtifacts, NEW p \in Procs, pc[p] = "append"
    PROVE  /\ task[p].op = "submit" => Mark("submitted") = 0
           /\ task[p].op = "approve" => Mark("approved") = 0
           /\ task[p].op = "reject" => Mark("rejected") = 0
           /\ task[p].op = "retry" => ~Retried
           /\ task[p].op \notin {"submit", "approve", "reject", "retry"} =>
                 Len(Notes(task[p].op)) = 0
<1>1. Guarded(p) /\ Publishing(p)
  BY Known
<1>2. /\ task[p].op = "submit" => "submitted" \notin VisibleDisk
      /\ task[p].op \in {"approve", "reject"} => VisibleDisk \cap Decisions = {}
  BY <1>1 DEF Guarded
<1>3. task[p].op = "retry" => ~Retried
  BY <1>1 DEF Publishing, Transacting
<1>4. task[p].op \notin {"submit", "approve", "reject", "retry"} => Notes(task[p].op) = <<>>
  BY DEF Notes
<1> QED
  BY <1>2, <1>3, <1>4 DEF Mark, Decisions

(* The terms of LogIsShort. *)
Marks == Mark("submitted") + Mark("approved") + Mark("rejected")
             + (IF Retried THEN 1 ELSE 0)

(* Each of them counts at most one event.                                  *)
LEMMA MarksAreFour ==
    /\ Mark("submitted") \in {0, 1} /\ Mark("approved") \in {0, 1}
    /\ Mark("rejected") \in {0, 1} /\ (IF Retried THEN 1 ELSE 0) \in {0, 1}
    /\ Marks \in 0 .. 4
BY DEF Mark, Marks

(* With a budget of LongestLog the log never refuses an event. *)
LEMMA PendingIsWithinBudget ==
    ASSUME CrashFaults, IInv, IArtifacts, LogIsShort, NEW p \in Procs, pc[p] = "append"
    PROVE  WithinBudget(task[p])
<1>1. PICK n \in Nat, k \in {0, 1}, a \in 0 .. 7, b \in 0 .. 7, len \in Nat, m \in 0 .. 4 :
          /\ n = Len(NewEvents(task[p])) /\ k = Len(Notes(task[p].op))
          /\ a = Rank[VisibleState] /\ b = Rank[state] /\ len = Len(log) /\ m = Marks
  BY PendingIsShort, MarksAreFour
<1>2. n <= b - a + k
  BY <1>1, PendingIsShort
<1>3. len <= 1 + a + m
  <2>1. PICK x \in {0, 1}, y \in {0, 1}, z \in {0, 1}, r \in {0, 1} :
            /\ x = Mark("submitted") /\ y = Mark("approved") /\ z = Mark("rejected")
            /\ r = IF Retried THEN 1 ELSE 0
    BY MarksAreFour
  <2>2. len <= 1 + a + x + y + z + r /\ m = x + y + z + r
    BY <1>1, <2>1 DEF LogIsShort, Marks
  <2> QED
    BY <2>2
<1>4. m + k <= 4
  <2>1. PICK x \in {0, 1}, y \in {0, 1}, z \in {0, 1}, r \in {0, 1} :
            /\ x = Mark("submitted") /\ y = Mark("approved") /\ z = Mark("rejected")
            /\ r = IF Retried THEN 1 ELSE 0
    BY MarksAreFour
  <2>2. m = x + y + z + r
    BY <1>1, <2>1 DEF Marks
  <2>3. k = 0 \/ x = 0 \/ y = 0 \/ z = 0 \/ r = 0
    BY <1>1, <2>1, PendingNotes
  <2> QED
    BY <2>2, <2>3
<1>5. len + n <= 12
  BY <1>2, <1>3, <1>4
<1>6. MaxEvents \in Nat /\ 12 <= MaxEvents
  BY ConstantsOK DEF CrashFaults, LongestLog
<1> QED
  BY <1>1, <1>5, <1>6 DEF WithinBudget

(* Marks stay. *)
LEMMA MarksStay ==
    ASSUME VisibleDisk \subseteq VisibleDisk', Retried => Retried', NEW a
    PROVE  /\ Mark(a)' \in {0, 1} /\ Mark(a) <= Mark(a)'
           /\ (IF Retried' THEN 1 ELSE 0) \in {0, 1}
           /\ (IF Retried THEN 1 ELSE 0) <= (IF Retried' THEN 1 ELSE 0)
           /\ a \in VisibleDisk' => Mark(a)' = 1
BY DEF Mark

(* A retry is remembered. *)
LEMMA CommitsKeepRetried ==
    ASSUME IInv, IArtifacts, NEW p \in Procs, Commits(p)
    PROVE  /\ Retried => Retried'
           /\ task[p].op = "retry" => Retried'
<1>1. /\ log \in Seq(Events) /\ Notes(task[p].op) \in Seq(Events)
      /\ NewEvents(task[p]) \in Seq(Events)
      /\ log' = log \o NewEvents(task[p])
  BY Pending, Known, NewEventsAreTyped DEF Commits, TaskFits
<1>2. ASSUME Retried
      PROVE  Retried'
  <2>1. PICK i \in 1 .. Len(log) : log[i] = Note("retry_created")
    BY <1>2 DEF Retried
  <2>2. i \in 1 .. Len(log') /\ log'[i] = log[i]
    BY <1>1
  <2> QED
    BY <2>1, <2>2 DEF Retried
<1>3. ASSUME task[p].op = "retry"
      PROVE  Retried'
  <2>1. NewEvents(task[p]) = <<Note("retry_created")>>
    BY <1>3, Pending DEF Commits, Moves, Notes
  <2>2. Len(log) + 1 \in 1 .. Len(log') /\ log'[Len(log) + 1] = Note("retry_created")
    BY <1>1, <2>1
  <2> QED
    BY <2>2 DEF Retried
<1> QED
  BY <1>2, <1>3

(* A commit logs no more than it marks. *)
LEMMA CommitsStayShort ==
    ASSUME IInv, IArtifacts, LogIsShort, NEW p \in Procs, Commits(p)
    PROVE  LogIsShort'
<1>1. pc[p] = "append" /\ VisibleState' = state
      /\ VisibleDisk' = VisibleDisk \cup (Published(task[p].op) \ {"child"})
      /\ log' = log \o NewEvents(task[p])
  BY CommitsShowState DEF Commits
<1>2. PICK n \in Nat, k \in {0, 1}, a \in 0 .. 7, b \in 0 .. 7, len \in Nat :
          /\ n = Len(NewEvents(task[p])) /\ k = Len(Notes(task[p].op))
          /\ a = Rank[VisibleState] /\ b = Rank[state] /\ len = Len(log)
  BY <1>1, PendingIsShort
<1>3. PICK x \in {0, 1}, y \in {0, 1}, z \in {0, 1}, r \in {0, 1} :
          /\ x = Mark("submitted") /\ y = Mark("approved") /\ z = Mark("rejected")
          /\ r = IF Retried THEN 1 ELSE 0
  BY MarksAreFour
<1>4. (Retried => Retried') /\ VisibleDisk \subseteq VisibleDisk'
  BY <1>1, CommitsKeepRetried
<1>5. PICK xx \in {0, 1}, yy \in {0, 1}, zz \in {0, 1}, rr \in {0, 1} :
          /\ xx = Mark("submitted")' /\ yy = Mark("approved")' /\ zz = Mark("rejected")'
          /\ rr = IF Retried' THEN 1 ELSE 0
  BY <1>4, MarksStay
<1>6. x <= xx /\ y <= yy /\ z <= zz /\ r <= rr
  BY <1>3, <1>4, <1>5, MarksStay
<1>7. k = 0 \/ x < xx \/ y < yy \/ z < zz \/ r < rr
  <2>1. CASE task[p].op = "submit"
    BY <1>1, <1>3, <1>5, <2>1, PendingNotes, PublishedSets DEF Mark
  <2>2. CASE task[p].op = "approve"
    BY <1>1, <1>3, <1>5, <2>2, PendingNotes, PublishedSets DEF Mark
  <2>3. CASE task[p].op = "reject"
    BY <1>1, <1>3, <1>5, <2>3, PendingNotes, PublishedSets DEF Mark
  <2>4. CASE task[p].op = "retry"
    BY <1>1, <1>3, <1>5, <2>4, PendingNotes, CommitsKeepRetried
  <2>5. CASE task[p].op \notin {"submit", "approve", "reject", "retry"}
    BY <1>1, <1>2, <2>5, PendingNotes
  <2> QED
    BY <2>1, <2>2, <2>3, <2>4, <2>5
<1>8. n <= b - a + k /\ len <= 1 + a + x + y + z + r
  BY <1>1, <1>2, <1>3, PendingIsShort DEF LogIsShort
<1>9. len + n <= 1 + b + xx + yy + zz + rr
  BY <1>6, <1>7, <1>8
<1>10. Len(log') = len + n
  <2>1. log \in Seq(Events) /\ NewEvents(task[p]) \in Seq(Events)
    BY <1>1, Pending, Known, NewEventsAreTyped DEF TaskFits
  <2> QED
    BY <1>1, <1>2, <2>1
<1> QED
  BY <1>1, <1>2, <1>5, <1>9, <1>10 DEF LogIsShort

(* A caller that dies is seen in a state no lower than before. *)
LEMMA DeathsStayShort ==
    ASSUME IInv, IArtifacts, LogIsShort, NEW p \in Procs, Dies(p),
           pc[p] = "undo" => ~task[p].saved
    PROVE  LogIsShort'
<1>1. /\ pc[p] \in Transacting /\ VisibleState' = state /\ log' = log
      /\ VisibleDisk \subseteq VisibleDisk' /\ log \in Seq(Events)
  BY DEF Dies, LeavesPart, IInv, TypeOK
<1>2. Rank[VisibleState] \in 0 .. 7 /\ Rank[state] \in 0 .. 7 /\ Rank[VisibleState] <= Rank[state]
  <2>1. CASE pc[p] = "append"
    <3>1. VisibleState \in States /\ state \in States
      BY <2>1, Pending
    <3>2. CASE state = VisibleState
      BY <3>1, <3>2 DEF States, Rank
    <3>3. CASE /\ Moves(task[p].op, VisibleState, state)
               /\ \E e \in Seq(Events) : MoveEvents(VisibleState, state, e)
      <4>1. PICK e \in Seq(Events) : MoveEvents(VisibleState, state, e)
        BY <3>3
      <4>2. /\ Rank[VisibleState] \in 0 .. 7 /\ Rank[state] \in 0 .. 7
            /\ Rank[VisibleState] < Rank[state]
        BY <3>1, <3>3, <4>1, MovesClimb
      <4> QED
        BY <4>2
    <3> QED
      BY <2>1, <3>2, <3>3, Pending
  <2>2. CASE pc[p] # "append"
    <3>1. ~task[p].saved
      BY <1>1, <2>2, Known DEF JobFits, Transacting
    <3>2. VisibleState = state /\ state \in States
      BY <1>1, <3>1, ShownInside DEF VisibleState, IInv, TypeOK
    <3> QED
      BY <3>2 DEF States, Rank
  <2> QED
    BY <2>1, <2>2
<1>3. Retried' <=> Retried
  BY <1>1 DEF Retried
<1>4. PICK a \in 0 .. 7, b \in 0 .. 7, len \in Nat :
          a = Rank[VisibleState] /\ b = Rank[state] /\ len = Len(log) /\ a <= b
  BY <1>1, <1>2
<1>5. PICK x \in {0, 1}, y \in {0, 1}, z \in {0, 1}, r \in {0, 1} :
          /\ x = Mark("submitted") /\ y = Mark("approved") /\ z = Mark("rejected")
          /\ r = IF Retried THEN 1 ELSE 0
  BY MarksAreFour
<1>6. PICK xx \in {0, 1}, yy \in {0, 1}, zz \in {0, 1}, rr \in {0, 1} :
          /\ xx = Mark("submitted")' /\ yy = Mark("approved")' /\ zz = Mark("rejected")'
          /\ rr = IF Retried' THEN 1 ELSE 0
          /\ x <= xx /\ y <= yy /\ z <= zz /\ r <= rr
  BY <1>1, <1>3, <1>5, MarksStay
<1>7. len <= 1 + a + x + y + z + r
  BY <1>4, <1>5 DEF LogIsShort
<1>8. a <= b /\ x <= xx /\ y <= yy /\ z <= zz /\ r <= rr
  BY <1>4, <1>6
<1>9. len <= 1 + b + xx + yy + zz + rr
  BY <1>7, <1>8
<1> QED
  BY <1>1, <1>4, <1>6, <1>9 DEF LogIsShort

(* The log stays short. *)
LEMMA EffectsStayShort ==
    ASSUME CrashFaults, IInv, IArtifacts, LogIsShort, NEW p \in Procs, Effect(p),
           pc[p] = "undo" => ~task[p].saved
    PROVE  LogIsShort'
<1>1. CASE Unseen
  <2>1. VisibleState' = VisibleState /\ VisibleDisk' = VisibleDisk /\ log' = log
    BY <1>1 DEF Unseen, visible
  <2>2. Retried' <=> Retried
    BY <2>1 DEF Retried
  <2> QED
    BY <2>1, <2>2 DEF LogIsShort, Mark
<1>2. CASE Commits(p)
  BY <1>2, CommitsStayShort
<1>3. CASE Dies(p)
  BY <1>3, DeathsStayShort
<1> QED
  BY <1>1, <1>2, <1>3 DEF Effect, LeavesBehind, CrashFaults

(* Who approves has nothing to take back but the approval. *)
LEMMA ApprovalsAreSingle ==
    ASSUME IInv, IArtifacts, NEW p \in Procs, pc[p] = "hook"
    PROVE  "approved" \notin task[p].done /\ ~task[p].saved
<1>1. Publishing(p) /\ JobFits(p) /\ pc[p] \in Transacting
  BY Known DEF Transacting
<1>2. ASSUME "approved" \in task[p].done
      PROVE  FALSE
  <2>1. task[p].op = "approve"
    BY <1>1, <1>2, PublishedSets
       DEF Publishing, Candidate, Final, FinalFiles
  <2>2. "candidate" \notin task[p].done
    BY <1>1, <2>1, PublishedSets DEF Publishing
  <2> QED
    BY <1>1, <1>2, <2>1, <2>2 DEF Publishing
<1> QED
  BY <1>1, <1>2 DEF JobFits

(* A rollback begins where an artifact stands in the way, if neither the   *)
(* log is full nor a write fails.                                          *)
LEMMA RollbacksBegin ==
    ASSUME CrashFaults, IInv, IArtifacts, LogIsShort, NEW p \in Procs, StepOf(p),
           pc'[p] = "undo"
    PROVE  \/ pc[p] = "hook" /\ task' = task
           \/ UndoNext(p)
<1>1. pc \in [Procs -> Labels]
  BY DEF IInv, TypeOK
<1>2. \A label : Goto(p, label) => label = "undo"
  BY <1>1 DEF Goto
<1>3. ~Return(p)
  BY <1>2 DEF Return
<1>4. ASSUME NEW op, NEW plan, NEW s, NEW r, Enter(p, op, plan, s, r)
      PROVE  FALSE
  <2>1. Goto(p, FirstStep(NewTask(op, plan, s, r)))
    BY <1>4 DEF Enter
  <2> QED
    BY <1>2, <2>1 DEF FirstStep, AfterHook
<1>5. CASE \E call \in Calls : StartCall(p, call)
  <2>1. PICK call \in Calls : StartCall(p, call)
    BY <1>5
  <2>2. FirstLabel[call] # "undo"
    BY ConstantsOK DEF FirstLabel, AllCalls
  <2> QED
    BY <1>2, <2>1, <2>2 DEF StartCall
<1>6. CASE ReadStep(p)
  BY <1>2, <1>3, <1>6
     DEF ReadStep, SubmitReads, ChooseSourcesPath, NothingToTransition, FinalizeReads,
         FinalizeFindsApproval, FinalizeRefused, MarkFailedReads,
         MarkFailedChoosesPath, GiveUp
<1>7. CASE BuildStep(p)
  BY <1>2, <1>3, <1>4, <1>7
     DEF BuildStep, AcquireLease, LeaseRefused, ClaimRefused, Claim, ClaimStranded,
         ClaimLookupFails, ProviderDelivers, ProviderFails
<1>8. CASE TransactionStep(p)
  <2>1. CASE PublishClash(p)
    BY <2>1 DEF PublishClash
  <2>2. CASE BudgetExceeded(p)
    BY <2>2, PendingIsWithinBudget DEF BudgetExceeded
  <2>3. CASE PublishNext(p)
    BY <1>2, <2>3 DEF PublishNext, FirstStep, AfterHook
  <2>4. CASE \/ Begin(p) \/ Refuse(p) \/ Save(p) \/ CommitAndContinue(p)
             \/ CommitClaim(p) \/ Commit(p) \/ RestoreAndRaise(p) \/ RestoreAndMarkFailed(p)
    BY <1>2, <1>3, <1>4, <2>4
       DEF Begin, Refuse, Save, CommitAndContinue, CommitClaim, Commit,
           RestoreAndRaise, RestoreAndMarkFailed
  <2> QED
    BY <1>8, <2>1, <2>2, <2>3, <2>4 DEF TransactionStep
<1>9. CASE Fault(p)
  BY <1>3, <1>9 DEF Fault, CrashFaults, WriteFails, HookFailsLate, SaveFailsLate,
                    AppendFailsLate, UndoFails, Crash
<1> QED
  BY <1>5, <1>6, <1>7, <1>8, <1>9 DEF StepOf, Step

(* Only a removal takes an artifact away. *)
LEMMA OnlyRemovalsRemove ==
    ASSUME NEW p \in Procs, StepOf(p)
    PROVE  disk \subseteq disk' \/ UndoNext(p)
<1>1. CASE \E call \in Calls : StartCall(p, call)
  BY <1>1 DEF StartCall, jobVars
<1>2. CASE ReadStep(p)
  BY <1>2
     DEF ReadStep, SubmitReads, ChooseSourcesPath, NothingToTransition, FinalizeReads,
         FinalizeFindsApproval, FinalizeRefused, MarkFailedReads,
         MarkFailedChoosesPath, GiveUp, jobVars
<1>3. CASE BuildStep(p)
  BY <1>3
     DEF BuildStep, AcquireLease, LeaseRefused, ClaimRefused, Claim, ClaimStranded,
         ClaimLookupFails, ProviderDelivers, ProviderFails, jobVars
<1>4. CASE TransactionStep(p)
  BY <1>4
     DEF TransactionStep, Begin, Refuse, PublishNext, PublishClash, Save,
         CommitAndContinue, CommitClaim, Commit, BudgetExceeded, RestoreAndRaise,
         RestoreAndMarkFailed, RestoreJob, jobVars
<1>5. CASE Fault(p)
  BY <1>5
     DEF Fault, WriteFails, HookFailsLate, SaveFailsLate, AppendFailsLate, UndoFails,
         Crash, jobVars
<1> QED
  BY <1>1, <1>2, <1>3, <1>4, <1>5 DEF StepOf, Step

(* A finalization that is about to publish has found the approval.         *)
LEMMA FinalizationsFindApproval ==
    ASSUME IInv, NEW p \in Procs, StepOf(p),
           task'[p].op = "finalize", pc'[p] \in {"lock"} \cup Transacting
    PROVE  \/ FinalizeFindsApproval(p)
           \/ task[p].op = "finalize" /\ pc[p] \in {"lock"} \cup Transacting
<1>1. pc \in [Procs -> Labels] /\ task \in [Procs -> Tasks] /\ TaskFits(p)
  BY DEF IInv, TypeOK
<1>2. ~Return(p)
  BY <1>1, ReturnFits DEF Transacting
<1>3. \A label : Goto(p, label) => label \in {"lock"} \cup Transacting
  BY <1>1 DEF Goto
<1>4. \A t : SetTask(p, t) => t.op = "finalize"
  BY <1>1 DEF SetTask
<1>5. CASE \E call \in Calls : StartCall(p, call)
  <2>1. PICK call \in Calls : StartCall(p, call)
    BY <1>5
  <2>2. PICK t : t = [NoTask EXCEPT !.op = call, !.plan = FirstPlan(call)]
    OBVIOUS
  <2>3. SetTask(p, t) /\ t.op = call
    BY <2>1, <2>2 DEF StartCall, NoTask
  <2>4. call = "finalize" => FirstLabel[call] = "read"
    BY DEF FirstLabel
  <2> QED
    BY <1>3, <1>4, <2>1, <2>3, <2>4 DEF StartCall, Transacting
<1>6. CASE ReadStep(p)
  <2>1. CASE SubmitReads(p) \/ FinalizeReads(p) \/ MarkFailedReads(p)
    BY <1>1, <1>2, <1>3, <2>1
       DEF SubmitReads, FinalizeReads, MarkFailedReads, Reading, Transacting
  <2>2. CASE ChooseSourcesPath(p)
    BY <1>1, <1>4, <2>2 DEF ChooseSourcesPath, Reading, Tasks
  <2>3. CASE MarkFailedChoosesPath(p)
    <3>1. PICK t : t = [task[p] EXCEPT !.plan = ToFailed(state)]
      OBVIOUS
    <3>2. SetTask(p, t)
      BY <1>2, <2>3, <3>1 DEF MarkFailedChoosesPath
    <3>3. t.op = task[p].op
      BY <1>1, <3>1 DEF Tasks
    <3> QED
      BY <1>4, <2>3, <3>2, <3>3 DEF MarkFailedChoosesPath, Reading
  <2>4. CASE NothingToTransition(p) \/ FinalizeRefused(p) \/ GiveUp(p)
    BY <1>2, <2>4 DEF NothingToTransition, FinalizeRefused, GiveUp
  <2> QED
    BY <1>6, <2>1, <2>2, <2>3, <2>4 DEF ReadStep
<1>7. CASE BuildStep(p)
  <2>1. CASE AcquireLease(p)
    BY <1>1, <2>1 DEF AcquireLease, TaskFits
  <2>2. CASE ClaimStranded(p)
    BY <2>2 DEF ClaimStranded, Claiming, Reading
  <2>3. CASE Claim(p) \/ ClaimLookupFails(p)
    BY <1>4, <2>3 DEF Claim, ClaimLookupFails, Enter, NewTask
  <2>4. CASE ProviderDelivers(p) \/ ProviderFails(p)
    BY <1>4, <2>4 DEF ProviderDelivers, ProviderFails, NoTask
  <2>5. CASE LeaseRefused(p) \/ ClaimRefused(p)
    BY <1>2, <2>5 DEF LeaseRefused, ClaimRefused
  <2> QED
    BY <1>7, <2>1, <2>2, <2>3, <2>4, <2>5 DEF BuildStep
<1>8. CASE TransactionStep(p)
  <2>1. CASE Begin(p)
    BY <1>4, <2>1 DEF Begin, Reading, Enter, NewTask
  <2>2. CASE CommitAndContinue(p)
    BY <1>4, <2>2 DEF CommitAndContinue, AppendEvents, Enter, NewTask, Transacting
  <2>3. CASE PublishNext(p)
    <3>1. PICK t : /\ t = [task[p] EXCEPT !.todo = Tail(@),
                                           !.done = @ \cup {Head(task[p].todo)}]
                   /\ SetTask(p, t)
      BY <2>3 DEF PublishNext
    <3>2. t.op = task[p].op
      BY <1>1, <3>1 DEF Tasks
    <3> QED
      BY <1>4, <2>3, <3>1, <3>2 DEF PublishNext, Transacting
  <2>4. CASE Save(p)
    BY <1>1, <1>4, <2>4 DEF Save, Transacting, Tasks
  <2>5. CASE UndoNext(p)
    BY <1>1, <1>4, <2>5 DEF UndoNext, Transacting, Tasks
  <2>6. CASE RestoreAndMarkFailed(p)
    BY <1>4, <2>6 DEF RestoreAndMarkFailed, Enter, NewTask
  <2>7. CASE PublishClash(p) \/ BudgetExceeded(p)
    BY <2>7 DEF PublishClash, BudgetExceeded, Transacting
  <2>8. CASE CommitClaim(p)
    BY <1>4, <2>8 DEF CommitClaim, NoTask
  <2>9. CASE Refuse(p) \/ Commit(p) \/ RestoreAndRaise(p)
    BY <1>2, <2>9 DEF Refuse, Commit, RestoreAndRaise
  <2> QED
    BY <1>8, <2>1, <2>2, <2>3, <2>4, <2>5, <2>6, <2>7, <2>8, <2>9 DEF TransactionStep
<1>9. CASE Fault(p)
  <2>1. CASE WriteFails(p) \/ HookFailsLate(p) \/ SaveFailsLate(p) \/ AppendFailsLate(p)
    BY <2>1 DEF WriteFails, HookFailsLate, SaveFailsLate, AppendFailsLate,
                AppendEvents, Transacting
  <2>2. CASE UndoFails(p)
    BY <1>1, <1>4, <2>2 DEF UndoFails, Transacting, Tasks
  <2>3. CASE Crash(p)
    BY <1>2, <2>3 DEF Crash
  <2> QED
    BY <1>9, <2>1, <2>2, <2>3 DEF Fault
<1> QED
  BY <1>5, <1>6, <1>7, <1>8, <1>9 DEF StepOf, Step

(* An approval stays, and a finalization that found it goes on. *)
LEMMA ApprovalsStay ==
    ASSUME CrashFaults, IInv, IArtifacts, ICrash, NEW p \in Procs, StepOf(p)
    PROVE  /\ "approved" \in disk => "approved" \in disk'
           /\ ApprovalIsSeen(p)'
<1>1. LogIsShort /\ ApprovalIsSeen(p) /\ task \in [Procs -> Tasks]
  BY DEF ICrash, IInv, TypeOK
<1>2. "approved" \in disk => "approved" \in disk'
  <2>1. CASE UndoNext(p)
    <3>1. pc[p] = "undo" /\ task[p].done # {} /\ disk' = disk \ Removal(task[p])
      BY <2>1 DEF UndoNext
    <3>2. "approved" \notin task[p].done
      BY <1>1, <3>1 DEF ApprovalIsSeen
    <3> QED
      BY <3>1, <3>2, Removals
  <2> QED
    BY <2>1, OnlyRemovalsRemove
<1>3. ASSUME task'[p].op = "finalize", pc'[p] \in {"lock"} \cup Transacting
      PROVE  "approved" \in disk'
  <2>1. CASE FinalizeFindsApproval(p)
    BY <2>1 DEF FinalizeFindsApproval, jobVars
  <2>2. CASE task[p].op = "finalize" /\ pc[p] \in {"lock"} \cup Transacting
    BY <1>1, <1>2, <2>2 DEF ApprovalIsSeen
  <2> QED
    BY <1>3, <2>1, <2>2, FinalizationsFindApproval
<1>4. ASSUME pc'[p] = "undo"
      PROVE  ~task'[p].saved /\ "approved" \notin task'[p].done
  <2>1. CASE pc[p] = "hook" /\ task' = task
    BY <2>1, ApprovalsAreSingle
  <2>2. CASE UndoNext(p)
    <3>1. pc[p] = "undo" /\ task[p] \in Tasks
          /\ task'[p] = [task[p] EXCEPT !.done = @ \ NextUndone(task[p])]
      BY <1>1, <2>2 DEF UndoNext, SetTask
    <3>2. task'[p].saved = task[p].saved /\ task'[p].done \subseteq task[p].done
      BY <3>1 DEF Tasks
    <3> QED
      BY <1>1, <3>1, <3>2 DEF ApprovalIsSeen
  <2> QED
    BY <1>1, <1>4, <2>1, <2>2, RollbacksBegin
<1> QED
  BY <1>2, <1>3, <1>4 DEF ApprovalIsSeen

(* A completed job is seen with its approval. *)
LEMMA EffectsApproved ==
    ASSUME CrashFaults, IInv, IArtifacts, ICrash, NEW p \in Procs, Effect(p)
    PROVE  VisibleState' = "completed" => "approved" \in VisibleDisk'
<1>1. CASE Unseen
  BY <1>1 DEF Unseen, visible, ICrash
<1>2. ASSUME pc[p] = "append", VisibleState' = state, VisibleDisk \subseteq VisibleDisk',
             state = "completed"
      PROVE  "approved" \in VisibleDisk'
  <2>1. CASE state = VisibleState
    BY <1>2, <2>1 DEF ICrash
  <2>2. CASE Moves(task[p].op, VisibleState, state)
    <3>1. task[p].op = "finalize"
      BY <1>2, <2>2, Pending, MovesIntoReview
    <3>2. "approved" \in disk
      BY <1>2, <3>1 DEF ICrash, ApprovalIsSeen, Transacting
    <3>3. "approved" \notin task[p].done
      <4>1. Publishing(p)
        BY Known
      <4> QED
        BY <1>2, <3>1, <4>1, PublishedSets DEF Publishing, Transacting, Final, FinalFiles
    <3>4. VisibleDisk = disk \ task[p].done
      BY <1>2, ShownInside DEF Transacting
    <3> QED
      BY <1>2, <3>2, <3>3, <3>4
  <2> QED
    BY <1>2, <2>1, <2>2, Pending
<1>3. CASE Commits(p)
  BY <1>2, <1>3, CommitsShowState DEF Commits
<1>4. CASE Dies(p)
  <2>1. CASE pc[p] = "append"
    BY <1>2, <1>4, <2>1 DEF Dies, LeavesPart
  <2>2. CASE pc[p] # "append"
    <3>1. pc[p] \in Transacting /\ ~task[p].saved
      BY <1>4, <2>2, Known DEF Dies, JobFits, Transacting, ICrash, ApprovalIsSeen
    <3>2. VisibleState = state
      BY <3>1, ShownInside DEF VisibleState
    <3> QED
      BY <1>4, <3>2 DEF Dies, LeavesPart, ICrash
  <2> QED
    BY <2>1, <2>2
<1> QED
  BY <1>1, <1>3, <1>4 DEF Effect, LeavesBehind, CrashFaults

(* Every step keeps the invariant for crashes. *)
LEMMA NextICrash ==
    ASSUME CrashFaults, IInv, IArtifacts, ICrash, [Next]_vars
    PROVE  ICrash'
<1>1. CASE Next
  <2>1. PICK p \in Procs : StepOf(p)
    BY <1>1, SomebodySteps
  <2>2. NoLateFaults
    BY DEF CrashFaults, NoLateFaults
  <2>3. Good(p) /\ GoodArtifacts(p)
    BY <2>1, <2>2, StepsAreGood
  <2>4. pc[p] = "undo" => ~task[p].saved
    BY DEF ICrash, ApprovalIsSeen
  <2>5. IBacked'
    BY <2>3, <2>4, EffectsBack DEF GoodArtifacts, ICrash
  <2>6. LogIsShort'
    BY <2>3, <2>4, EffectsStayShort DEF GoodArtifacts, ICrash
  <2>7. (VisibleState = "completed" => "approved" \in VisibleDisk)'
    BY <2>3, EffectsApproved DEF GoodArtifacts
  <2>8. ("approved" \in disk => "approved" \in disk') /\ ApprovalIsSeen(p)'
    BY <2>1, ApprovalsStay
  <2>9. ASSUME NEW q \in Procs \ {p}
        PROVE  ApprovalIsSeen(q)'
    <3>1. task'[q] = task[q] /\ pc'[q] = pc[q] /\ ApprovalIsSeen(q)
      BY <2>3 DEF Good, Frame, ICrash
    <3> QED
      BY <2>8, <3>1 DEF ApprovalIsSeen
  <2> QED
    BY <2>5, <2>6, <2>7, <2>8, <2>9 DEF ICrash
<1>2. CASE UNCHANGED vars
  <2>1. UNCHANGED <<log, disk, pc, task>> /\ VisibleState' = VisibleState
        /\ VisibleDisk' = VisibleDisk
    BY <1>2 DEF vars, VisibleState, VisibleDisk, InTransaction
  <2>2. Retried' <=> Retried
    BY <2>1 DEF Retried
  <2> QED
    BY <2>1, <2>2 DEF ICrash, IBacked, LogIsShort, Mark, ApprovalIsSeen
<1> QED
  BY <1>1, <1>2

(* A new job is backed, and its log has one event.                         *)
LEMMA InitICrash ==
    ASSUME Init
    PROVE  ICrash
<1>1. /\ VisibleState = "created" /\ VisibleDisk = {} /\ log = <<Note("created")>>
      /\ \A p \in Procs : pc[p] = "idle" /\ task[p] = NoTask
  BY InitArtifacts DEF Init
<1>2. Len(log) = 1 /\ log[1] # Note("retry_created")
  BY <1>1 DEF Note
<1>3. ~Retried
  BY <1>2 DEF Retried
<1>4. LogIsShort
  <2>1. Mark("submitted") = 0 /\ Mark("approved") = 0 /\ Mark("rejected") = 0
    BY <1>1 DEF Mark
  <2>2. Rank[VisibleState] = 0
    BY <1>1 DEF Rank
  <2> QED
    BY <1>2, <1>3, <2>1, <2>2 DEF LogIsShort
<1>5. \A p \in Procs : ApprovalIsSeen(p)
  BY <1>1 DEF ApprovalIsSeen, Transacting, NoTask
<1> QED
  BY <1>1, <1>4, <1>5 DEF ICrash, IBacked

(* The invariant of the runs that crash but whose writes succeed.          *)
LEMMA CrashInvariance ==
    ASSUME CrashFaults
    PROVE  Spec => [](IInv /\ IArtifacts /\ ICrash)
<1>1. NoLateFaults
  BY DEF CrashFaults, NoLateFaults
<1>2. Init => ICrash
  BY InitICrash
<1>3. IInv /\ IArtifacts /\ ICrash /\ [Next]_vars => ICrash'
  BY NextICrash
<1>4. Spec => [](IInv /\ IArtifacts)
  BY <1>1, TransactionsAreTracked
<1> QED
  BY <1>2, <1>3, <1>4, PTL DEF Spec

(* However many callers die between two of their writes, a job under       *)
(* review or completed has all its files: transactions publish, then save  *)
(* job.json, then log (transition_path_while_job_locked).                  *)
THEOREM CrashesLeaveJobsBacked ==
    ASSUME CrashFaults
    PROVE  Spec => []StateIsBacked
<1>1. ICrash => StateIsBacked
  BY DEF ICrash, IBacked, StateIsBacked, CompletionIsWhole, VisibleDisk
<1> QED
  BY <1>1, CrashInvariance, PTL

(* A completed job was approved, although finalize_job reads the approval  *)
(* outside the job lock, long before it publishes, and callers may die in  *)
(* between.                                                                *)
THEOREM CompletedJobsAreApproved ==
    ASSUME CrashFaults
    PROVE  Spec => []OnlyApprovedCompletes
<1>1. ICrash => OnlyApprovedCompletes
  BY DEF ICrash, OnlyApprovedCompletes, VisibleDisk
<1> QED
  BY <1>1, CrashInvariance, PTL

(* The log never grows beyond LongestLog events. *)
THEOREM LogsStayShort ==
    ASSUME CrashFaults
    PROVE  Spec => [](Len(log) <= LongestLog)
<1>1. IInv /\ LogIsShort => Len(log) <= LongestLog
  <2> SUFFICES ASSUME IInv, LogIsShort
               PROVE  Len(log) <= LongestLog
    OBVIOUS
  <2>1. log \in Seq(Events) /\ VisibleState \in States
    <3>1. \A p \in Procs : task[p] \in Tasks
      BY DEF IInv, TypeOK
    <3> QED
      BY <3>1 DEF IInv, TypeOK, VisibleState, InTransaction, Tasks
  <2>2. Rank[VisibleState] \in 0 .. 7
    BY <2>1 DEF States, Rank
  <2>3. PICK len \in Nat, a \in 0 .. 7 : len = Len(log) /\ a = Rank[VisibleState]
    BY <2>1, <2>2
  <2>4. PICK x \in {0, 1}, y \in {0, 1}, z \in {0, 1}, r \in {0, 1} :
            /\ x = Mark("submitted") /\ y = Mark("approved") /\ z = Mark("rejected")
            /\ r = IF Retried THEN 1 ELSE 0
    BY MarksAreFour
  <2>5. len <= 1 + a + x + y + z + r
    BY <2>3, <2>4 DEF LogIsShort
  <2>6. len <= 12
    BY <2>5
  <2> QED
    BY <2>3, <2>6 DEF LongestLog
<1> QED
  BY <1>1, CrashInvariance, PTL DEF ICrash

-----------------------------------------------------------------------------
(* What one more event says of a log. *)

Noted(l, k)   == \E i \in 1 .. Len(l) : l[i].kind = k
Reached(l, s) == \E i \in 1 .. Len(l) : l[i].to = s

(* The events before an appended one are where they were. *)
LEMMA AppendedEvents ==
    ASSUME NEW l \in Seq(Events), NEW e \in Events, NEW m, m = Append(l, e)
    PROVE  /\ m \in Seq(Events) /\ Len(l) \in Nat
           /\ Len(m) = Len(l) + 1
           /\ m[Len(l) + 1] = e
           /\ \A i \in 1 .. Len(l) : m[i] = l[i]
           /\ \A i \in 1 .. Len(m) : i \in 1 .. Len(l) \/ i = Len(l) + 1
OBVIOUS

(* What a log notes and reaches. *)
LEMMA AppendsAreNoted ==
    ASSUME NEW l \in Seq(Events), NEW e \in Events, NEW m, m = Append(l, e)
    PROVE  /\ m \in Seq(Events)
           /\ \A k : Noted(m, k) <=> Noted(l, k) \/ e.kind = k
           /\ \A s : Reached(m, s) <=> Reached(l, s) \/ e.to = s
<1>1. /\ m \in Seq(Events) /\ Len(l) \in Nat /\ Len(m) = Len(l) + 1 /\ m[Len(l) + 1] = e
      /\ \A i \in 1 .. Len(l) : m[i] = l[i] /\ i \in 1 .. Len(m)
      /\ \A i \in 1 .. Len(m) : i \in 1 .. Len(l) \/ i = Len(l) + 1
      /\ Len(l) + 1 \in 1 .. Len(m)
  BY AppendedEvents
<1>2. \A k : Noted(m, k) <=> Noted(l, k) \/ e.kind = k
  BY <1>1 DEF Noted
<1>3. \A s : Reached(m, s) <=> Reached(l, s) \/ e.to = s
  BY <1>1 DEF Reached
<1> QED
  BY <1>1, <1>2, <1>3

(* LoggedIn, step by step. *)
LEMMA LoggedSteps ==
    ASSUME NEW l \in Seq(Events), NEW i \in 1 .. Len(l)
    PROVE  LoggedIn(l, i) = IF IsTransition(l[i]) THEN l[i].to ELSE LoggedIn(l, i - 1)
<1> DEFINE B(j) == {k \in 1 .. j : IsTransition(l[k])}
           Last(j) == CHOOSE k \in B(j) : \A n \in B(j) : n <= k
<1>1. \A j : LoggedIn(l, j) = IF B(j) = {} THEN "created" ELSE l[Last(j)].to
  BY DEF LoggedIn
<1>2. i \in Nat /\ i >= 1 /\ Len(l) \in Nat
  OBVIOUS
<1>3. CASE IsTransition(l[i])
  <2>1. i \in B(i) /\ \A n \in B(i) : n <= i
    BY <1>2, <1>3
  <2>2. Last(i) = i
    <3>1. Last(i) \in B(i) /\ \A n \in B(i) : n <= Last(i)
      BY <2>1
    <3> HIDE DEF Last
    <3>2. i <= Last(i) /\ Last(i) <= i /\ Last(i) \in Nat
      BY <2>1, <3>1
    <3> QED
      BY <1>2, <3>2
  <2> QED
    BY <1>1, <1>3, <2>1, <2>2
<1>4. CASE ~IsTransition(l[i])
  <2>1. \A k : k \in 1 .. i <=> k \in 1 .. (i - 1) \/ k = i
    BY <1>2
  <2>2. \A k : k \in B(i) <=> k \in B(i - 1)
    BY <1>4, <2>1
  <2>3. B(i) = B(i - 1)
    BY <2>2
  <2>4. Last(i) = Last(i - 1)
    BY <2>3
  <2> QED
    BY <1>1, <1>4, <2>3, <2>4
<1> QED
  BY <1>3, <1>4

(* A bounded set of numbers has a largest one. *)
LEMMA LargestNumber ==
    ASSUME NEW n \in Nat, NEW S, S \subseteq 1 .. n, S # {}
    PROVE  \E m \in S : \A k \in S : k <= m
<1>1. PICK R : R = OpToRel(<, Nat)
  OBVIOUS
<1>2. IsWellFoundedOn(R, Nat)
  BY <1>1, NatLessThanWellFounded
<1>3. PICK T : T = {n - m : m \in S}
  OBVIOUS
<1>4. T \subseteq Nat /\ T # {}
  <2>1. \A m \in S : n - m \in Nat
    OBVIOUS
  <2> QED
    BY <1>3, <2>1
<1>5. PICK x \in T : \A y \in T : ~ (<<y, x>> \in R)
  BY <1>2, <1>4, WFMin
<1>6. \A y \in T : ~ (y < x)
  BY <1>1, <1>4, <1>5 DEF OpToRel
<1>7. PICK m \in S : x = n - m
  BY <1>3, <1>5
<1>8. \A k \in S : ~ (n - k < n - m)
  BY <1>3, <1>6, <1>7
<1> QED
  BY <1>7, <1>8

(* Logs with the same first events lead to the same state. *)
LEMMA LoggedPrefix ==
    ASSUME NEW l, NEW m, NEW i \in Nat, \A j \in 1 .. i : m[j] = l[j]
    PROVE  LoggedIn(m, i) = LoggedIn(l, i)
<1>1. PICK b : b = {j \in 1 .. i : IsTransition(l[j])}
  OBVIOUS
<1>2. {j \in 1 .. i : IsTransition(m[j])} = b
  <2>1. \A j \in 1 .. i : IsTransition(m[j]) <=> IsTransition(l[j])
    BY DEF IsTransition
  <2> QED
    BY <1>1, <2>1
<1>3. CASE b = {}
  BY <1>1, <1>2, <1>3 DEF LoggedIn
<1>4. CASE b # {}
  <2>1. PICK c : c = CHOOSE j \in b : \A k \in b : k <= j
    OBVIOUS
  <2>2. LoggedIn(m, i) = m[c].to /\ LoggedIn(l, i) = l[c].to
    BY <1>1, <1>2, <1>4, <2>1 DEF LoggedIn
  <2>3. \E j \in b : \A k \in b : k <= j
    BY <1>1, <1>4, LargestNumber
  <2>4. c \in b
    BY <2>1, <2>3
  <2> QED
    BY <1>1, <2>2, <2>4
<1> QED
  BY <1>3, <1>4

(* One more event, and the log still replays. *)
LEMMA AppendsReplay ==
    ASSUME NEW l \in Seq(Events), NEW s, Replays(l, s), NEW e \in Events,
           NEW m, m = Append(l, e)
    PROVE  /\ ~IsTransition(e) => Replays(m, s)
           /\ IsTransition(e) /\ e.from = s => Replays(m, e.to)
<1>1. /\ m \in Seq(Events) /\ Len(l) \in Nat
      /\ Len(m) = Len(l) + 1
      /\ m[Len(l) + 1] = e
      /\ \A i \in 1 .. Len(l) : m[i] = l[i]
      /\ \A i \in 1 .. Len(m) : i \in 1 .. Len(l) \/ i = Len(l) + 1
  BY AppendedEvents
<1>2. ASSUME NEW i \in 0 .. Len(l)
      PROVE  LoggedIn(m, i) = LoggedIn(l, i)
  <2>1. i \in Nat /\ \A j \in 1 .. i : j \in 1 .. Len(l)
    BY <1>1
  <2>2. \A j \in 1 .. i : m[j] = l[j]
    BY <1>1, <2>1
  <2> QED
    BY <2>1, <2>2, LoggedPrefix
<1>3. LoggedIn(m, Len(m)) = IF IsTransition(e) THEN e.to ELSE s
  <2>1. Len(m) \in 1 .. Len(m) /\ Len(m) - 1 = Len(l) /\ Len(l) \in 0 .. Len(l)
    BY <1>1
  <2>2. LoggedIn(m, Len(l)) = s
    BY <1>2, <2>1 DEF Replays
  <2> QED
    BY <1>1, <2>1, <2>2, LoggedSteps
<1>4. ASSUME NEW i \in 1 .. Len(l), IsTransition(m[i])
      PROVE  m[i].from = LoggedIn(m, i - 1)
  <2>1. i - 1 \in 0 .. Len(l)
    BY <1>1
  <2> QED
    BY <1>1, <1>2, <1>4, <2>1 DEF Replays
<1>5. (Len(l) + 1) - 1 = Len(l) /\ LoggedIn(m, Len(l)) = s
  BY <1>1, <1>2 DEF Replays
<1> QED
  BY <1>1, <1>3, <1>4, <1>5 DEF Replays

(* The events of a move. *)
LEMMA MovesAreLogged ==
    ASSUME NEW l \in Seq(Events), NEW s \in States, NEW t \in States,
           NEW e \in Seq(Events), MoveEvents(s, t, e), Replays(l, s),
           NEW m, m = l \o e
    PROVE  /\ m \in Seq(Events)
           /\ Replays(m, t)
           /\ \A k \in NoteKinds : Noted(m, k) <=> Noted(l, k)
           /\ Reached(m, "waiting_for_review") <=>
                 Reached(l, "waiting_for_review") \/ t = "waiting_for_review"
           /\ Reached(m, "completed") <=> Reached(l, "completed") \/ t = "completed"
<1>1. ASSUME NEW a \in States, NEW b \in States
      PROVE  /\ Transition(a, b) \in Events /\ IsTransition(Transition(a, b))
             /\ Transition(a, b).kind \notin NoteKinds
             /\ Transition(a, b).from = a /\ Transition(a, b).to = b
  BY DEF Transition, Events, IsTransition, NoteKinds
<1>2. CASE e = <<Transition(s, t)>>
  <2>1. PICK f \in Events : f = Transition(s, t)
    BY <1>1
  <2>2. /\ IsTransition(f) /\ f.kind \notin NoteKinds /\ f.from = s /\ f.to = t
    BY <1>1, <2>1
  <2>3. m = Append(l, f)
    BY <1>2, <2>1, ConcatSteps
  <2>4. m \in Seq(Events) /\ Replays(m, t)
    BY <2>2, <2>3, AppendsAreNoted, AppendsReplay
  <2>5. /\ \A k : Noted(m, k) <=> Noted(l, k) \/ f.kind = k
        /\ \A x : Reached(m, x) <=> Reached(l, x) \/ f.to = x
    BY <2>3, AppendsAreNoted
  <2> QED
    BY <2>2, <2>4, <2>5
<1>3. CASE /\ e = <<Transition(s, Through(s, t)), Transition(Through(s, t), t)>>
           /\ \/ s = "created" /\ t \in {"waiting_for_provider", "waiting_for_sources"}
              \/ s = "waiting_for_review" /\ t = "completed"
  <2>1. PICK u \in {"planning", "validating"} : u = Through(s, t)
    BY DEF Through
  <2>2. u \in States
    BY <2>1 DEF States
  <2>3. PICK f \in Events, g \in Events : f = Transition(s, u) /\ g = Transition(u, t)
    BY <1>1, <2>2
  <2>4. /\ IsTransition(f) /\ f.kind \notin NoteKinds /\ f.from = s /\ f.to = u
        /\ IsTransition(g) /\ g.kind \notin NoteKinds /\ g.from = u /\ g.to = t
    BY <1>1, <2>2, <2>3
  <2>5. PICK n : n = Append(l, f)
    OBVIOUS
  <2>6. m = Append(n, g)
    BY <1>3, <2>1, <2>3, <2>5, ConcatSteps
  <2>7. n \in Seq(Events) /\ Replays(n, u)
    <3>1. n \in Seq(Events)
      BY <2>5, AppendsAreNoted
    <3>2. Replays(n, u)
      BY <2>4, <2>5, AppendsReplay
    <3> QED
      BY <3>1, <3>2
  <2>8. m \in Seq(Events) /\ Replays(m, t)
    BY <2>4, <2>6, <2>7, AppendsReplay, AppendsAreNoted
  <2>9. /\ \A k : Noted(n, k) <=> Noted(l, k) \/ f.kind = k
        /\ \A x : Reached(n, x) <=> Reached(l, x) \/ f.to = x
    BY <2>5, AppendsAreNoted
  <2>10. /\ \A k : Noted(m, k) <=> Noted(n, k) \/ g.kind = k
         /\ \A x : Reached(m, x) <=> Reached(n, x) \/ g.to = x
    BY <2>6, <2>7, AppendsAreNoted
  <2> QED
    BY <2>1, <2>4, <2>8, <2>9, <2>10
<1> QED
  BY <1>2, <1>3 DEF MoveEvents

(* The bare event of an operation. *)
LEMMA NotesAreLogged ==
    ASSUME NEW l \in Seq(Events), NEW s, Replays(l, s), NEW op, NEW m, m = l \o Notes(op)
    PROVE  /\ m \in Seq(Events)
           /\ Replays(m, s)
           /\ Noted(m, "sources_submitted") <=> Noted(l, "sources_submitted") \/ op = "submit"
           /\ Noted(m, "review_approved") <=> Noted(l, "review_approved") \/ op = "approve"
           /\ Noted(m, "review_rejected") <=> Noted(l, "review_rejected") \/ op = "reject"
           /\ Noted(m, "retry_created") <=> Noted(l, "retry_created") \/ op = "retry"
           /\ \A x \in States : Reached(m, x) <=> Reached(l, x)
<1>1. ASSUME NEW k \in NoteKinds, Notes(op) = <<Note(k)>>
      PROVE  /\ m \in Seq(Events) /\ Replays(m, s)
             /\ \A j : Noted(m, j) <=> Noted(l, j) \/ j = k
             /\ \A x \in States : Reached(m, x) <=> Reached(l, x)
  <2>1. PICK f \in Events : f = Note(k)
    BY DEF Events
  <2>2. ~IsTransition(f) /\ f.kind = k /\ f.to = "none" /\ "none" \notin States
    BY <2>1 DEF Note, IsTransition, NoteKinds, States
  <2>3. m = Append(l, f)
    BY <1>1, <2>1, ConcatSteps
  <2>4. m \in Seq(Events) /\ Replays(m, s)
    BY <2>2, <2>3, AppendsAreNoted, AppendsReplay
  <2>5. /\ \A j : Noted(m, j) <=> Noted(l, j) \/ f.kind = j
        /\ \A x : Reached(m, x) <=> Reached(l, x) \/ f.to = x
    BY <2>3, AppendsAreNoted
  <2> QED
    BY <2>2, <2>4, <2>5
<1>2. CASE op = "submit"
  BY <1>1, <1>2 DEF Notes, NoteKinds
<1>3. CASE op = "approve"
  BY <1>1, <1>3 DEF Notes, NoteKinds
<1>4. CASE op = "reject"
  BY <1>1, <1>4 DEF Notes, NoteKinds
<1>5. CASE op = "retry"
  BY <1>1, <1>5 DEF Notes, NoteKinds
<1>6. CASE op \notin {"submit", "approve", "reject", "retry"}
  <2>1. Notes(op) = <<>>
    BY <1>6 DEF Notes
  <2>2. m = l
    BY <2>1
  <2> QED
    BY <1>6, <2>2
<1> QED
  BY <1>2, <1>3, <1>4, <1>5, <1>6

(* What a commit writes to the log. *)
LEMMA CommitsAreLogged ==
    ASSUME IInv, IArtifacts, NEW p \in Procs, Commits(p), Replays(log, VisibleState)
    PROVE  /\ log \in Seq(Events) /\ log' \in Seq(Events)
           /\ Replays(log', VisibleState')
           /\ Noted(log', "sources_submitted") <=>
                 Noted(log, "sources_submitted") \/ task[p].op = "submit"
           /\ Noted(log', "review_approved") <=>
                 Noted(log, "review_approved") \/ task[p].op = "approve"
           /\ Noted(log', "review_rejected") <=>
                 Noted(log, "review_rejected") \/ task[p].op = "reject"
           /\ Noted(log', "retry_created") <=>
                 Noted(log, "retry_created") \/ task[p].op = "retry"
           /\ Reached(log', "waiting_for_review") <=>
                 Reached(log, "waiting_for_review") \/ task[p].op = "publish"
           /\ Reached(log', "completed") <=>
                 Reached(log, "completed") \/ task[p].op = "finalize"
<1>1. /\ log \in Seq(Events) /\ Notes(task[p].op) \in Seq(Events)
      /\ VisibleState \in States /\ state \in States
      /\ VisibleState' = state /\ log' = log \o NewEvents(task[p])
  BY Pending, CommitsShowState DEF Commits
<1>2. "waiting_for_review" \in States /\ "completed" \in States
  BY DEF States
<1>3. CASE /\ Stays(task[p].op) /\ state = VisibleState
           /\ NewEvents(task[p]) = Notes(task[p].op)
  <2>1. task[p].op # "publish" /\ task[p].op # "finalize"
    BY <1>3 DEF Stays
  <2>2. PICK l, m, o, s : l = log /\ m = log' /\ o = task[p].op /\ s = VisibleState
    OBVIOUS
  <2>3. l \in Seq(Events) /\ Replays(l, s) /\ m = l \o Notes(o) /\ VisibleState' = s
    BY <1>1, <1>3, <2>2
  <2>4. /\ m \in Seq(Events)
        /\ Replays(m, s)
        /\ Noted(m, "sources_submitted") <=> Noted(l, "sources_submitted") \/ o = "submit"
        /\ Noted(m, "review_approved") <=> Noted(l, "review_approved") \/ o = "approve"
        /\ Noted(m, "review_rejected") <=> Noted(l, "review_rejected") \/ o = "reject"
        /\ Noted(m, "retry_created") <=> Noted(l, "retry_created") \/ o = "retry"
        /\ \A x \in States : Reached(m, x) <=> Reached(l, x)
    BY <2>3, NotesAreLogged
  <2> QED
    BY <1>2, <2>1, <2>2, <2>3, <2>4
<1>4. CASE /\ Moves(task[p].op, VisibleState, state)
           /\ \E e \in Seq(Events) : /\ MoveEvents(VisibleState, state, e)
                                     /\ NewEvents(task[p]) = e \o Notes(task[p].op)
  <2>1. PICK e \in Seq(Events) : /\ MoveEvents(VisibleState, state, e)
                                 /\ NewEvents(task[p]) = e \o Notes(task[p].op)
    BY <1>4
  <2>2. PICK l, n, o, s, t : /\ l = log /\ n = log' /\ o = task[p].op
                             /\ s = VisibleState /\ t = state
    OBVIOUS
  <2>3. PICK m : m = l \o e
    OBVIOUS
  <2>4. /\ l \in Seq(Events) /\ Notes(o) \in Seq(Events)
        /\ s \in States /\ t \in States
        /\ Replays(l, s) /\ MoveEvents(s, t, e)
        /\ n = l \o (e \o Notes(o))
        /\ VisibleState' = t
    BY <1>1, <2>1, <2>2
  <2>5. /\ m \in Seq(Events)
        /\ Replays(m, t)
        /\ \A k \in NoteKinds : Noted(m, k) <=> Noted(l, k)
        /\ Reached(m, "waiting_for_review") <=>
              Reached(l, "waiting_for_review") \/ t = "waiting_for_review"
        /\ Reached(m, "completed") <=> Reached(l, "completed") \/ t = "completed"
    <3>1. e \in Seq(Events)
      BY <2>1
    <3>2. l \in Seq(Events) /\ s \in States /\ t \in States
      BY <2>4
    <3>3. MoveEvents(s, t, e) /\ Replays(l, s)
      BY <2>4
    <3> QED
      BY <2>3, <3>1, <3>2, <3>3, MovesAreLogged
  <2>6. n = m \o Notes(o)
    BY <2>1, <2>3, <2>4, ConcatAssociates
  <2>7. /\ t = "waiting_for_review" <=> o = "publish"
        /\ t = "completed" <=> o = "finalize"
    BY <1>1, <1>4, <2>2, MovesIntoReview
  <2>8. /\ n \in Seq(Events)
        /\ Replays(n, t)
        /\ Noted(n, "sources_submitted") <=> Noted(m, "sources_submitted") \/ o = "submit"
        /\ Noted(n, "review_approved") <=> Noted(m, "review_approved") \/ o = "approve"
        /\ Noted(n, "review_rejected") <=> Noted(m, "review_rejected") \/ o = "reject"
        /\ Noted(n, "retry_created") <=> Noted(m, "retry_created") \/ o = "retry"
        /\ \A x \in States : Reached(n, x) <=> Reached(m, x)
    BY <2>5, <2>6, NotesAreLogged
  <2>9. /\ "sources_submitted" \in NoteKinds /\ "review_approved" \in NoteKinds
        /\ "review_rejected" \in NoteKinds /\ "retry_created" \in NoteKinds
    BY DEF NoteKinds
  <2>10. /\ Reached(n, "waiting_for_review") <=>
               Reached(l, "waiting_for_review") \/ o = "publish"
         /\ Reached(n, "completed") <=> Reached(l, "completed") \/ o = "finalize"
    BY <1>2, <2>5, <2>7, <2>8
  <2>11. /\ Noted(n, "sources_submitted") <=> Noted(l, "sources_submitted") \/ o = "submit"
         /\ Noted(n, "review_approved") <=> Noted(l, "review_approved") \/ o = "approve"
         /\ Noted(n, "review_rejected") <=> Noted(l, "review_rejected") \/ o = "reject"
         /\ Noted(n, "retry_created") <=> Noted(l, "retry_created") \/ o = "retry"
    BY <2>5, <2>8, <2>9
  <2> QED
    BY <2>2, <2>4, <2>8, <2>10, <2>11
<1> QED
  BY <1>1, <1>3, <1>4, Pending DEF Commits

(* A retry is recorded as the one event of its kind. *)
LEMMA RetriesAreNoted ==
    ASSUME NEW l \in Seq(Events)
    PROVE  Noted(l, "retry_created") <=>
              \E i \in 1 .. Len(l) : l[i] = Note("retry_created")
<1>1. \A i \in 1 .. Len(l) : l[i] \in Events
  OBVIOUS
<1>2. \A e \in Events : e.kind = "retry_created" <=> e = Note("retry_created")
  BY DEF Events, Note, Transition, NoteKinds
<1> QED
  BY <1>1, <1>2 DEF Noted

-----------------------------------------------------------------------------
(* Who publishes an artifact. *)
LEMMA PublishedOnlyBy ==
    ASSUME NEW op
    PROVE  /\ "candidate" \in Published(op) <=> op = "publish"
           /\ "package" \in Published(op) <=> op = "finalize"
           /\ "submitted" \in Published(op) <=> op = "submit"
           /\ "approved" \in Published(op) <=> op = "approve"
           /\ "rejected" \in Published(op) <=> op = "reject"
           /\ "child" \in Published(op) <=> op = "retry"
           /\ op = "publish" \/ Candidate \cap Published(op) = {}
           /\ op = "finalize" \/ Final \cap Published(op) = {}
<1>1. CASE op = "submit"
  BY <1>1, PublishedSets DEF Candidate, Final, FinalFiles
<1>2. CASE op = "publish"
  BY <1>2, PublishedSets DEF Candidate, Final, FinalFiles
<1>3. CASE op = "approve"
  BY <1>3, PublishedSets DEF Candidate, Final, FinalFiles
<1>4. CASE op = "reject"
  BY <1>4, PublishedSets DEF Candidate, Final, FinalFiles
<1>5. CASE op = "retry"
  BY <1>5, PublishedSets DEF Candidate, Final, FinalFiles
<1>6. CASE op = "finalize"
  BY <1>6, PublishedSets DEF Candidate, Final, FinalFiles
<1>7. CASE op \notin {"submit", "publish", "approve", "reject", "retry", "finalize"}
  BY <1>7, PublishedSets
<1> QED
  BY <1>1, <1>2, <1>3, <1>4, <1>5, <1>6, <1>7

(* A commit publishes its artifacts and logs them together. *)
LEMMA CommitsMatchLog ==
    ASSUME IInv, IArtifacts, IClean, NEW p \in Procs, Commits(p)
    PROVE  ArtifactsMatchLog'
<1>1. PICK o : o = task[p].op
  OBVIOUS
<1>2. Replays(log, VisibleState) /\ ArtifactsMatchLog
  BY DEF IClean
<1>3. /\ log \in Seq(Events) /\ log' \in Seq(Events)
      /\ Noted(log', "sources_submitted") <=> Noted(log, "sources_submitted") \/ o = "submit"
      /\ Noted(log', "review_approved") <=> Noted(log, "review_approved") \/ o = "approve"
      /\ Noted(log', "review_rejected") <=> Noted(log, "review_rejected") \/ o = "reject"
      /\ Noted(log', "retry_created") <=> Noted(log, "retry_created") \/ o = "retry"
      /\ Reached(log', "waiting_for_review") <=>
            Reached(log, "waiting_for_review") \/ o = "publish"
      /\ Reached(log', "completed") <=> Reached(log, "completed") \/ o = "finalize"
  BY <1>1, <1>2, CommitsAreLogged
<1>4. /\ VisibleDisk' = VisibleDisk \cup (Published(o) \ {"child"})
      /\ VisibleChildren' = IF "child" \in Published(o)
                            THEN VisibleChildren + 1 ELSE VisibleChildren
  BY <1>1 DEF Commits
<1>5. /\ "candidate" \in VisibleDisk' <=> "candidate" \in VisibleDisk \/ o = "publish"
      /\ "package" \in VisibleDisk' <=> "package" \in VisibleDisk \/ o = "finalize"
      /\ "submitted" \in VisibleDisk' <=> "submitted" \in VisibleDisk \/ o = "submit"
      /\ "approved" \in VisibleDisk' <=> "approved" \in VisibleDisk \/ o = "approve"
      /\ "rejected" \in VisibleDisk' <=> "rejected" \in VisibleDisk \/ o = "reject"
  BY <1>4, PublishedOnlyBy
<1>6. \A k : HasNote(k) = Noted(log, k) /\ HasReached(k) = Reached(log, k)
  BY DEF HasNote, HasReached, Noted, Reached
<1>7. \A k : HasNote(k)' = Noted(log', k) /\ HasReached(k)' = Reached(log', k)
  BY DEF HasNote, HasReached, Noted, Reached
<1>8. /\ Retried <=> Noted(log, "retry_created")
      /\ Retried' <=> Noted(log', "retry_created")
  BY <1>3, RetriesAreNoted DEF Retried
<1>9. /\ o = "retry" => ~Retried
      /\ Retried' <=> Retried \/ o = "retry"
  <2>1. pc[p] = "append" /\ Publishing(p)
    BY Known DEF Commits
  <2> QED
    BY <1>1, <1>3, <1>8, <2>1 DEF Publishing, Transacting
<1>10. VisibleChildren' = IF Retried' THEN 1 ELSE 0
  <2>1. VisibleChildren = IF Retried THEN 1 ELSE 0
    BY <1>2 DEF ArtifactsMatchLog
  <2>2. CASE o = "retry"
    BY <1>4, <1>9, <2>1, <2>2, PublishedOnlyBy
  <2>3. CASE o # "retry"
    BY <1>4, <1>9, <2>1, <2>3, PublishedOnlyBy
  <2> QED
    BY <2>2, <2>3
<1>11. /\ "candidate" \in VisibleDisk <=> Reached(log, "waiting_for_review")
       /\ "package" \in VisibleDisk <=> Reached(log, "completed")
       /\ "submitted" \in VisibleDisk <=> Noted(log, "sources_submitted")
       /\ "approved" \in VisibleDisk <=> Noted(log, "review_approved")
       /\ "rejected" \in VisibleDisk <=> Noted(log, "review_rejected")
  BY <1>2, <1>6 DEF ArtifactsMatchLog
<1>12. /\ "candidate" \in VisibleDisk' <=> Reached(log', "waiting_for_review")
       /\ "package" \in VisibleDisk' <=> Reached(log', "completed")
       /\ "submitted" \in VisibleDisk' <=> Noted(log', "sources_submitted")
       /\ "approved" \in VisibleDisk' <=> Noted(log', "review_approved")
       /\ "rejected" \in VisibleDisk' <=> Noted(log', "review_rejected")
  BY <1>3, <1>5, <1>11
<1> QED
  BY <1>7, <1>10, <1>12 DEF ArtifactsMatchLog

(* A decided job goes nowhere but where its decision allows, and a         *)
(* published one stays reviewed or completed.                              *)
LEMMA CommitsMatchState ==
    ASSUME IInv, IArtifacts, IClean, NEW p \in Procs, Commits(p)
    PROVE  DecisionsMatchState' /\ OutputsMatchState'
<1>1. PICK o, s, t, C, D :
          /\ o = task[p].op /\ s = VisibleState /\ t = state
          /\ C = VisibleDisk /\ D = VisibleDisk'
  OBVIOUS
<1>2. /\ VisibleState' = t
      /\ D = C \cup (Published(o) \ {"child"})
      /\ pc[p] = "append"
  BY <1>1, CommitsShowState DEF Commits
<1>3. /\ s \in States /\ t \in States
      /\ \/ Stays(o) /\ t = s
         \/ Moves(o, s, t)
  BY <1>1, <1>2, Pending
<1>4. /\ o \in {"approve", "reject"} =>
            s = "waiting_for_review" /\ "approved" \notin C /\ "rejected" \notin C
  <2>1. Guarded(p) /\ VisibleState = task[p].prev.state
    BY <1>2, Pending
  <2> QED
    BY <1>1, <1>2, <2>1 DEF Guarded, Decisions
<1>5. /\ "rejected" \in C => s = "failed" /\ "approved" \notin C
      /\ "approved" \in C => s \in {"waiting_for_review", "completed", "cancelled"}
  BY <1>1 DEF IClean, DecisionsMatchState
<1>6. /\ Candidate \subseteq C \/ Candidate \cap C = {}
      /\ Final \subseteq C \/ Final \cap C = {}
      /\ Candidate \cap C # {} => s \in Reviewed
      /\ Final \cap C # {} => s = "completed"
  BY <1>1 DEF IClean, OutputsMatchState
<1>7. /\ s \in Terminal => t = s
      /\ s = "waiting_for_review" =>
            t \in {"waiting_for_review", "failed", "completed", "cancelled"}
      /\ s = "waiting_for_review" /\ t = "failed" => o = "reject"
      /\ o = "approve" => t = s
      /\ o = "reject" => t = "failed"
      /\ o = "publish" => t = "waiting_for_review"
      /\ o = "finalize" => t = "completed"
  BY <1>3 DEF Stays, Moves, AllowedTransitions, Terminal, Claimable
<1>8. /\ "approved" \in D <=> "approved" \in C \/ o = "approve"
      /\ "rejected" \in D <=> "rejected" \in C \/ o = "reject"
  BY <1>2, PublishedOnlyBy
<1>9. /\ "rejected" \in D => t = "failed" /\ "approved" \notin D
      /\ "approved" \in D => t \in {"waiting_for_review", "completed", "cancelled"}
  <2>1. CASE o = "approve"
    BY <1>4, <1>5, <1>7, <1>8, <2>1
  <2>2. CASE o = "reject"
    BY <1>4, <1>5, <1>7, <1>8, <2>2
  <2>3. CASE o \notin {"approve", "reject"}
    BY <1>5, <1>7, <1>8, <2>3 DEF Terminal
  <2> QED
    BY <2>1, <2>2, <2>3
<1>10. /\ Candidate \subseteq D \/ Candidate \cap D = {}
       /\ Candidate \cap D # {} => t \in Reviewed
  <2>1. CASE o = "publish"
    <3>1. Candidate \subseteq D
      BY <1>2, <2>1, PublishedSets DEF Candidate
    <3> QED
      BY <1>7, <2>1, <3>1 DEF Reviewed
  <2>2. CASE o # "publish"
    <3>1. Candidate \cap D = Candidate \cap C
      BY <1>2, <2>2, PublishedOnlyBy
    <3>2. s \in Reviewed => t \in Reviewed
      BY <1>7 DEF Reviewed, Terminal
    <3> QED
      BY <1>6, <3>1, <3>2
  <2> QED
    BY <2>1, <2>2
<1>11. /\ Final \subseteq D \/ Final \cap D = {}
       /\ Final \cap D # {} => t = "completed"
  <2>1. CASE o = "finalize"
    <3>1. Final \subseteq D
      BY <1>2, <2>1, PublishedSets DEF Final, FinalFiles
    <3> QED
      BY <1>7, <2>1, <3>1
  <2>2. CASE o # "finalize"
    <3>1. Final \cap D = Final \cap C
      BY <1>2, <2>2, PublishedOnlyBy
    <3>2. s = "completed" => t = "completed"
      BY <1>7 DEF Terminal
    <3> QED
      BY <1>6, <3>1, <3>2
  <2> QED
    BY <2>1, <2>2
<1> QED
  BY <1>1, <1>2, <1>9, <1>10, <1>11 DEF DecisionsMatchState, OutputsMatchState

(* What nobody sees changes nothing. *)
LEMMA UnseenStaysClean ==
    ASSUME IClean, Unseen
    PROVE  IClean'
<1>1. /\ VisibleState' = VisibleState /\ VisibleDisk' = VisibleDisk
      /\ VisibleChildren' = VisibleChildren /\ log' = log
  BY DEF Unseen, visible
<1>2. ArtifactsMatchLog'
  BY <1>1 DEF IClean, ArtifactsMatchLog, HasNote, HasReached, Retried
<1>3. DecisionsMatchState' /\ OutputsMatchState'
  BY <1>1 DEF IClean, DecisionsMatchState, OutputsMatchState
<1>4. Replays(log', VisibleState')
  BY <1>1 DEF IClean
<1> QED
  BY <1>2, <1>3, <1>4 DEF IClean

(* Without crashes and failing removals a step is invisible or commits.    *)
LEMMA EffectsStayClean ==
    ASSUME CleanFaults, IInv, IArtifacts, IClean, NEW p \in Procs, Effect(p)
    PROVE  IClean'
<1>1. CASE Commits(p)
  <2>1. Replays(log, VisibleState)
    BY DEF IClean
  <2>2. Replays(log', VisibleState')
    BY <1>1, <2>1, CommitsAreLogged
  <2> QED
    BY <1>1, <2>2, CommitsMatchLog, CommitsMatchState DEF IClean
<1>2. ~LeavesBehind(p) /\ ~Dies(p)
  BY DEF CleanFaults, LeavesBehind, Dies
<1> QED
  BY <1>1, <1>2, UnseenStaysClean DEF Effect

(* A step of anybody, or none. *)
LEMMA NextIClean ==
    ASSUME CleanFaults, IInv, IArtifacts, IClean, [Next]_vars
    PROVE  IClean'
<1>1. NoLateFaults
  BY DEF CleanFaults, NoLateFaults
<1>2. CASE Next
  <2>1. PICK p \in Procs : StepOf(p)
    BY <1>2, SomebodySteps
  <2>2. Effect(p)
    BY <1>1, <2>1, StepsAreGood DEF GoodArtifacts
  <2> QED
    BY <2>2, EffectsStayClean
<1>3. CASE UNCHANGED vars
  <2>1. Unseen
    BY <1>3 DEF vars, jobVars, Unseen, visible, VisibleState, VisibleRevision,
                VisibleDisk, VisibleChildren, InTransaction
  <2> QED
    BY <2>1, UnseenStaysClean
<1> QED
  BY <1>2, <1>3

(* A new job. *)
LEMMA InitIClean ==
    ASSUME Init
    PROVE  IClean
<1>1. /\ VisibleState = "created" /\ VisibleDisk = {} /\ VisibleChildren = 0
  BY InitArtifacts
<1>2. PICK l : l = log
  OBVIOUS
<1>3. /\ Len(l) = 1 /\ l[1] = Note("created") /\ log = l
      /\ \A i \in 1 .. Len(l) : i = 1
  BY <1>2 DEF Init
<1>4. \A i \in 1 .. Len(l) : /\ ~IsTransition(l[i]) /\ l[i].kind = "created"
                             /\ l[i].to = "none"
  BY <1>3 DEF Note, IsTransition
<1>5. ArtifactsMatchLog
  <2>1. \A k \in NoteKinds \ {"created"} : ~HasNote(k)
    BY <1>3, <1>4 DEF HasNote
  <2>2. \A s \in States : ~HasReached(s)
    BY <1>3, <1>4 DEF HasReached, States
  <2>3. ~Retried
    <3>1. PICK e : e = Note("retry_created")
      OBVIOUS
    <3>2. e.kind = "retry_created"
      BY <3>1 DEF Note
    <3>3. \A i \in 1 .. Len(log) : log[i] # e
      BY <1>3, <1>4, <3>2
    <3> QED
      BY <3>1, <3>3 DEF Retried
  <2>4. /\ {"sources_submitted", "review_approved", "review_rejected"}
               \subseteq NoteKinds \ {"created"}
        /\ {"waiting_for_review", "completed"} \subseteq States
    BY DEF NoteKinds, States
  <2>5. /\ ~HasNote("sources_submitted") /\ ~HasNote("review_approved")
        /\ ~HasNote("review_rejected")
        /\ ~HasReached("waiting_for_review") /\ ~HasReached("completed")
    BY <2>1, <2>2, <2>4
  <2> QED
    BY <1>1, <2>3, <2>5 DEF ArtifactsMatchLog
<1>6. DecisionsMatchState /\ OutputsMatchState
  BY <1>1 DEF DecisionsMatchState, OutputsMatchState
<1>7. Replays(log, VisibleState)
  <2>1. {j \in 1 .. Len(l) : IsTransition(l[j])} = {}
    BY <1>4
  <2>2. LoggedIn(l, Len(l)) = "created"
    BY <2>1 DEF LoggedIn
  <2> QED
    BY <1>1, <1>3, <1>4, <2>2 DEF Replays
<1> QED
  BY <1>5, <1>6, <1>7 DEF IClean

(* While nothing but writes without effect fails, the artifacts and the    *)
(* log tell the same story, and so does the state.                         *)
LEMMA CleanInvariance ==
    ASSUME CleanFaults
    PROVE  Spec => [](IInv /\ IArtifacts /\ IClean)
<1>1. NoLateFaults
  BY DEF CleanFaults, NoLateFaults
<1>2. Init => IClean
  BY InitIClean
<1>3. IInv /\ IArtifacts /\ IClean /\ [Next]_vars => IClean'
  BY NextIClean
<1>4. Spec => [](IInv /\ IArtifacts)
  BY <1>1, TransactionsAreTracked
<1> QED
  BY <1>2, <1>3, <1>4, PTL DEF Spec

(* FailedCallsLeaveNoTrace: while writes that fail have no effect, every   *)
(* group of artifacts is there completely, exactly when the log says that  *)
(* the call that publishes it succeeded.                                   *)
THEOREM FailedCallsAreUndone ==
    ASSUME CleanFaults
    PROVE  Spec => []FailedCallsLeaveNoTrace
<1>1. IInv /\ IArtifacts /\ IClean => FailedCallsLeaveNoTrace
  <2> SUFFICES ASSUME IInv, IClean, ~InTransaction
               PROVE  /\ OutputsAreWhole
                      /\ "candidate" \in disk <=> HasReached("waiting_for_review")
                      /\ "package" \in disk <=> HasReached("completed")
                      /\ "submitted" \in disk <=> HasNote("sources_submitted")
                      /\ "approved" \in disk <=> HasNote("review_approved")
                      /\ "rejected" \in disk <=> HasNote("review_rejected")
                      /\ children > 0 <=> HasNote("retry_created")
    BY DEF FailedCallsLeaveNoTrace
  <2>1. VisibleDisk = disk /\ VisibleChildren = children
    BY DEF VisibleDisk, VisibleChildren, InTransaction
  <2>2. OutputsAreWhole
    BY <2>1 DEF IClean, OutputsMatchState, OutputsAreWhole, Together
  <2>3. Retried <=> HasNote("retry_created")
    <3>1. log \in Seq(Events)
      BY DEF IInv, TypeOK
    <3> QED
      BY <3>1, RetriesAreNoted DEF Retried, HasNote, Noted
  <2> QED
    BY <2>1, <2>2, <2>3 DEF IClean, ArtifactsMatchLog
<1>2. Spec => [](IInv /\ IArtifacts /\ IClean)
  BY CleanInvariance
<1> QED
  BY <1>1, <1>2, PTL

(* DecisionAgreesWithState: a rejected job has failed and was not approved,*)
(* and an approved one never fails, whatever the build, the reviewers and  *)
(* the finalization read before they acted.                                *)
THEOREM DecisionsExclude ==
    ASSUME CleanFaults
    PROVE  Spec => []DecisionAgreesWithState
<1>1. IInv /\ IArtifacts /\ IClean => DecisionAgreesWithState
  BY DEF IClean, DecisionsMatchState, DecisionAgreesWithState, VisibleState,
         VisibleDisk, InTransaction
<1>2. Spec => [](IInv /\ IArtifacts /\ IClean)
  BY CleanInvariance
<1> QED
  BY <1>1, <1>2, PTL

(* RetriedOnce: in every state, also while a retry is under way, there is  *)
(* at most one replacement of a job.                                       *)
THEOREM RetriesAreSingle ==
    ASSUME CleanFaults
    PROVE  Spec => []RetriedOnce
<1>1. IInv /\ IArtifacts /\ IClean => RetriedOnce
  <2> SUFFICES ASSUME IInv, IArtifacts, IClean
               PROVE  children <= 1
    BY DEF RetriedOnce
  <2>1. VisibleChildren = (IF Retried THEN 1 ELSE 0) /\ children \in Nat
    BY DEF IClean, ArtifactsMatchLog, IInv, TypeOK
  <2>2. CASE InTransaction /\ "child" \in task[lock].done
    <3>1. PICK p \in Procs : lock = p
      BY <2>2 DEF InTransaction, IInv, TypeOK
    <3>2. pc[p] \in Transacting /\ Publishing(p) /\ "child" \in task[p].done
      BY <2>2, <3>1, Known
    <3>3. task[p].op = "retry" /\ task[p].done \subseteq Published(task[p].op)
      BY <3>2, PublishedOnlyBy DEF Publishing
    <3>4. ~Retried
      BY <3>2, <3>3 DEF Publishing
    <3> QED
      BY <2>1, <2>2, <3>4 DEF VisibleChildren
  <2>3. CASE ~(InTransaction /\ "child" \in task[lock].done)
    BY <2>1, <2>3 DEF VisibleChildren
  <2> QED
    BY <2>2, <2>3
<1>2. Spec => [](IInv /\ IArtifacts /\ IClean)
  BY CleanInvariance
<1> QED
  BY <1>1, <1>2, PTL

(* StrandedIsRebuildable: nothing of an earlier build is in the way of the *)
(* next one when a job was left in processing.                             *)
THEOREM StrandedBuildsLeaveNothing ==
    ASSUME CleanFaults
    PROVE  Spec => []StrandedIsRebuildable
<1>1. IInv /\ IArtifacts /\ IClean => StrandedIsRebuildable
  BY DEF IClean, OutputsMatchState, Reviewed, StrandedIsRebuildable, VisibleState,
         VisibleDisk, InTransaction
<1>2. Spec => [](IInv /\ IArtifacts /\ IClean)
  BY CleanInvariance
<1> QED
  BY <1>1, <1>2, PTL

(* LogReplaysToState: the log leads to the state on disk, transition by    *)
(* transition, whatever was compensated on the way.                        *)
THEOREM LogsReplay ==
    ASSUME CleanFaults
    PROVE  Spec => []LogReplaysToState
<1>1. IInv /\ IArtifacts /\ IClean => LogReplaysToState
  <2> SUFFICES ASSUME IClean, ~InTransaction
               PROVE  /\ LoggedState(Len(log)) = state
                      /\ \A i \in 1 .. Len(log) :
                            IsTransition(log[i]) => log[i].from = LoggedState(i - 1)
    BY DEF LogReplaysToState
  <2>1. VisibleState = state
    BY DEF VisibleState, InTransaction
  <2>2. \A i : LoggedState(i) = LoggedIn(log, i)
    BY DEF LoggedState, LoggedIn
  <2> QED
    BY <2>1, <2>2 DEF IClean, Replays
<1>2. Spec => [](IInv /\ IArtifacts /\ IClean)
  BY CleanInvariance
<1> QED
  BY <1>1, <1>2, PTL
-----------------------------------------------------------------------------
(***************************************************************************)
(* The detailed job implements its contract: while nothing fails, every    *)
(* step of a call is invisible to whoever honours the job lock, or it is   *)
(* one step of JobContract.                                                *)
(***************************************************************************)

(* A commit that keeps the state and one that moves the job, as the        *)
(* contract sees them.                                                     *)
Kept(o) ==
    /\ VisibleState' = VisibleState
    /\ VisibleRevision' = VisibleRevision
    /\ VisibleDisk' = VisibleDisk \cup (Published(o) \ {"child"})

Moved(o) ==
    /\ VisibleState' \in States
    /\ Moves(o, VisibleState, VisibleState')
    /\ VisibleRevision' = VisibleRevision + 1
    /\ VisibleDisk' = VisibleDisk \cup (Published(o) \ {"child"})

(* A commit is one or the other. *)
LEMMA CommitsKeepOrMove ==
    ASSUME IInv, IArtifacts, NEW p \in Procs, Commits(p)
    PROVE  /\ VisibleState \in States
           /\ (Stays(task[p].op) /\ Kept(task[p].op)) \/ Moved(task[p].op)
<1>1. /\ pc[p] = "append"
      /\ VisibleState' = state
      /\ VisibleRevision' = IF task[p].plan = <<>> THEN VisibleRevision
                                                   ELSE VisibleRevision + 1
      /\ VisibleDisk' = VisibleDisk \cup (Published(task[p].op) \ {"child"})
  BY CommitsShowState DEF Commits
<1>2. /\ VisibleState \in States /\ state \in States
      /\ \/ task[p].plan = <<>> /\ Stays(task[p].op) /\ state = VisibleState
         \/ task[p].plan # <<>> /\ Moves(task[p].op, VisibleState, state)
  BY <1>1, Pending
<1> QED
  BY <1>1, <1>2 DEF Kept, Moved

(* What the contract asks before a job moves. *)
LEMMA CommitsAreDue ==
    ASSUME IInv, IArtifacts, ICrash, IClean, NEW p \in Procs, Commits(p)
    PROVE  /\ task[p].op = "submit" => "submitted" \notin VisibleDisk
           /\ task[p].op = "publish" => VisibleDisk \cap Candidate = {}
           /\ task[p].op \in {"approve", "reject"} =>
                 VisibleState = "waiting_for_review" /\ VisibleDisk \cap Decisions = {}
           /\ task[p].op = "finalize" =>
                 "approved" \in VisibleDisk /\ VisibleDisk \cap Final = {}
<1>1. /\ pc[p] = "append" /\ pc[p] \in Transacting
      /\ Guarded(p) /\ Publishing(p)
      /\ VisibleState = task[p].prev.state
      /\ VisibleDisk = disk \ task[p].done
  BY Known, Pending, ShownInside DEF Commits, Transacting
<1>2. OutputsMatchState /\ ApprovalIsSeen(p)
  BY DEF ICrash, IClean
<1>3. /\ task[p].op = "submit" => "submitted" \notin VisibleDisk
      /\ task[p].op \in {"approve", "reject"} =>
            VisibleState = "waiting_for_review" /\ VisibleDisk \cap Decisions = {}
  BY <1>1 DEF Guarded
<1>4. task[p].op = "publish" => VisibleDisk \cap Candidate = {}
  BY <1>1, <1>2 DEF Guarded, OutputsMatchState, Candidate
<1>5. ASSUME task[p].op = "finalize"
      PROVE  "approved" \in VisibleDisk /\ VisibleDisk \cap Final = {}
  <2>1. VisibleDisk \cap Final = {}
    BY <1>1, <1>2, <1>5 DEF Guarded, OutputsMatchState, Final, FinalFiles
  <2>2. "approved" \in disk
    BY <1>1, <1>2, <1>5 DEF ApprovalIsSeen
  <2>3. "approved" \notin task[p].done
    BY <1>1, <1>5, PublishedOnlyBy DEF Publishing
  <2> QED
    BY <1>1, <2>1, <2>2, <2>3
<1> QED
  BY <1>3, <1>4, <1>5

(* A commit is a step of the contract, or invisible to it (a retry, and a  *)
(* call that finds the job where it wants it).                             *)
LEMMA CommitsFollowContract ==
    ASSUME IInv, IArtifacts, ICrash, IClean, NEW p \in Procs, Commits(p)
    PROVE  [Contract!Next]_(Contract!contractVars)
<1>1. PICK o : o = task[p].op
  OBVIOUS
<1>2. VisibleState \in States /\ ((Stays(o) /\ Kept(o)) \/ Moved(o))
  BY <1>1, CommitsKeepOrMove
<1>3. /\ o = "submit" => "submitted" \notin VisibleDisk
      /\ o = "publish" => VisibleDisk \cap Candidate = {}
      /\ o \in {"approve", "reject"} =>
            VisibleState = "waiting_for_review" /\ VisibleDisk \cap Decisions = {}
      /\ o = "finalize" => "approved" \in VisibleDisk /\ VisibleDisk \cap Final = {}
  BY <1>1, CommitsAreDue
<1>4. ASSUME o \notin {"submit", "publish", "approve", "reject", "finalize"}
      PROVE  Published(o) \ {"child"} = {}
  BY <1>4, PublishedSets
<1>5. CASE Stays(o) /\ Kept(o)
  <2>1. CASE o = "submit"
    <3>1. Contract!Submit
      BY <1>3, <1>5, <2>1, PublishedSets DEF Kept, Contract!Submit
    <3> QED
      BY <3>1 DEF Contract!Next
  <2>2. CASE o = "approve"
    <3>1. Contract!Approve
      BY <1>3, <1>5, <2>2, PublishedSets
         DEF Kept, Contract!Approve, Contract!Undecided, Contract!Decisions, Decisions
    <3> QED
      BY <3>1 DEF Contract!Next
  <2>3. CASE o \notin {"submit", "approve"}
    <3>1. VisibleDisk' = VisibleDisk
      BY <1>4, <1>5, <2>3 DEF Kept, Stays
    <3> QED
      BY <1>5, <3>1 DEF Kept, Contract!contractVars
  <2> QED
    BY <2>1, <2>2, <2>3
<1>6. CASE Moved(o)
  <2> DEFINE s == VisibleState
             t == VisibleState'
  <2>1. /\ s \in States /\ t \in States /\ Moves(o, s, t)
    BY <1>2, <1>6 DEF Moved
  <2>2. ASSUME NEW froms, s \in froms
        PROVE  Contract!Move(froms, t, Published(o) \ {"child"})
    BY <1>6, <2>2 DEF Moved, Contract!Move
  <2>3. Contract!States = States /\ Contract!AllowedTransitions = AllowedTransitions
    BY DEF Contract!States, States, Contract!AllowedTransitions, AllowedTransitions
  <2>4. ASSUME t \in AllowedTransitions[s]
        PROVE  s \in Contract!Before(t)
    BY <2>1, <2>3, <2>4 DEF Contract!Before
  <2> HIDE DEF s, t
  <2>5. CASE o = "plan"
    <3>1. t \in {"waiting_for_provider", "waiting_for_sources"}
      BY <2>1, <2>5 DEF Moves
    <3>2. s \in Contract!Before(t) \cup {"created"}
      BY <2>1, <2>4, <2>5 DEF Moves
    <3>3. Contract!Move(Contract!Before(t) \cup {"created"}, t, {})
      BY <1>4, <2>2, <2>5, <3>2
    <3>4. Contract!Plan
      BY <3>1, <3>3 DEF Contract!Plan
    <3> QED
      BY <3>4 DEF Contract!Next
  <2>6. CASE o = "submit"
    <3>1. t = "waiting_for_sources"
      BY <2>1, <2>6 DEF Moves
    <3>2. s \in Contract!Before(t) \cup {"created"}
      BY <2>1, <2>4, <2>6 DEF Moves
    <3>3. Contract!Move(Contract!Before(t) \cup {"created"}, t, {"submitted"})
      <4>1. Published(o) \ {"child"} = {"submitted"}
        BY <2>6, PublishedSets
      <4> QED
        BY <2>2, <3>2, <4>1
    <3>4. Contract!Submit
      BY <1>3, <2>6, <3>1, <3>3 DEF Contract!Submit
    <3> QED
      BY <3>4 DEF Contract!Next
  <2>7. CASE o \in {"build", "claim_failed"}
    <3>1. /\ s \in Claimable /\ t \in AllowedTransitions[s]
          /\ t \in {"planning", "processing", "failed"}
      BY <2>1, <2>7 DEF Moves
    <3>2. /\ s \in Contract!Before(t)
          /\ s # "waiting_for_review" /\ s # "validating"
      BY <2>4, <3>1 DEF Claimable
    <3>3. Published(o) \ {"child"} = {}
      BY <1>4, <2>7
    <3>4. CASE t = "planning"
      <4>1. Contract!Move(Contract!Before(t) \cup {"created"}, t, {})
        BY <2>2, <3>2, <3>3
      <4>2. Contract!Plan
        BY <3>4, <4>1 DEF Contract!Plan
      <4> QED
        BY <4>2 DEF Contract!Next
    <3>5. CASE t = "processing"
      <4>1. Contract!Move(Contract!Before(t) \ {"waiting_for_review"}, t, {})
        BY <2>2, <3>2, <3>3
      <4>2. Contract!Process
        BY <3>5, <4>1 DEF Contract!Process
      <4> QED
        BY <4>2 DEF Contract!Next
    <3>6. CASE t = "failed"
      <4>1. Contract!Move(Contract!Before(t) \ {"waiting_for_review", "validating"}, t, {})
        BY <2>2, <3>2, <3>3
      <4>2. Contract!Fail
        BY <3>6, <4>1 DEF Contract!Fail
      <4> QED
        BY <4>2 DEF Contract!Next
    <3> QED
      BY <3>1, <3>4, <3>5, <3>6
  <2>8. CASE o = "mark_failed"
    <3>1. s = "processing" /\ t = "failed" /\ t \in AllowedTransitions[s]
      BY <2>1, <2>8 DEF Moves, AllowedTransitions
    <3>2. s \in Contract!Before(t) \ {"waiting_for_review", "validating"}
      BY <2>4, <3>1
    <3>3. Published(o) \ {"child"} = {}
      BY <1>4, <2>8
    <3>4. Contract!Move(Contract!Before(t) \ {"waiting_for_review", "validating"}, t, {})
      BY <2>2, <3>2, <3>3
    <3>5. Contract!Fail
      BY <3>1, <3>4 DEF Contract!Fail
    <3> QED
      BY <3>5 DEF Contract!Next
  <2>9. CASE o = "publish"
    <3>1. s = "processing" /\ t = "waiting_for_review"
      BY <2>1, <2>9 DEF Moves
    <3>2. /\ Published(o) \ {"child"} = Contract!Candidate
          /\ VisibleDisk \cap Contract!Candidate = {}
      BY <1>3, <2>9, PublishedSets DEF Candidate, Contract!Candidate
    <3>3. Contract!Move({"processing"}, t, Contract!Candidate)
      BY <2>2, <3>1, <3>2
    <3>4. Contract!Propose
      BY <3>1, <3>2, <3>3 DEF Contract!Propose
    <3> QED
      BY <3>4 DEF Contract!Next
  <2>10. CASE o = "reject"
    <3>1. s = "waiting_for_review" /\ t = "failed"
      BY <2>1, <2>10 DEF Moves
    <3>2. Published(o) \ {"child"} = {"rejected"} /\ Contract!Undecided
      BY <1>3, <2>10, PublishedSets DEF Contract!Undecided, Contract!Decisions, Decisions
    <3>3. Contract!Move({"waiting_for_review"}, t, {"rejected"})
      BY <2>2, <3>1, <3>2
    <3>4. Contract!Reject
      BY <3>1, <3>2, <3>3 DEF Contract!Reject
    <3> QED
      BY <3>4 DEF Contract!Next
  <2>11. CASE o = "finalize"
    <3>1. s = "waiting_for_review" /\ t = "completed"
      BY <2>1, <2>11 DEF Moves
    <3>2. /\ Published(o) \ {"child"} = Contract!Final
          /\ "approved" \in VisibleDisk /\ VisibleDisk \cap Contract!Final = {}
      BY <1>3, <2>11, PublishedSets
         DEF Final, FinalFiles, Contract!Final, Contract!FinalFiles
    <3>3. Contract!Move({"waiting_for_review"}, t, Contract!Final)
      BY <2>2, <3>1, <3>2
    <3>4. Contract!Finalize
      BY <3>1, <3>2, <3>3 DEF Contract!Finalize
    <3> QED
      BY <3>4 DEF Contract!Next
  <2>12. CASE o = "cancel"
    <3>1. t = "cancelled" /\ t \in AllowedTransitions[s]
      BY <2>1, <2>12 DEF Moves
    <3>2. Published(o) \ {"child"} = {}
      BY <1>4, <2>12
    <3>3. Contract!Move(Contract!Before(t), t, {})
      BY <2>2, <2>4, <3>1, <3>2
    <3>4. Contract!Cancel
      BY <3>1, <3>3 DEF Contract!Cancel
    <3> QED
      BY <3>4 DEF Contract!Next
  <2> QED
    BY <2>1, <2>5, <2>6, <2>7, <2>8, <2>9, <2>10, <2>11, <2>12 DEF Moves
<1> QED
  BY <1>2, <1>5, <1>6

(* Without faults a step is invisible or commits. *)
LEMMA StepsFollowContract ==
    ASSUME NoFaults, IInv, IArtifacts, ICrash, IClean, [Next]_vars
    PROVE  [Contract!Next]_(Contract!contractVars)
<1>1. NoLateFaults
  BY DEF NoFaults, NoLateFaults
<1>2. CASE Next
  <2>1. PICK p \in Procs : StepOf(p)
    BY <1>2, SomebodySteps
  <2>2. Effect(p)
    BY <1>1, <2>1, StepsAreGood DEF GoodArtifacts
  <2>3. Unseen \/ Commits(p)
    BY <2>2 DEF Effect, LeavesBehind, Dies, NoFaults
  <2>4. CASE Unseen
    BY <2>4 DEF Unseen, visible, Contract!contractVars
  <2> QED
    BY <2>3, <2>4, CommitsFollowContract
<1>3. CASE UNCHANGED vars
  BY <1>3 DEF vars, jobVars, VisibleState, VisibleRevision, VisibleDisk,
              InTransaction, Contract!contractVars
<1> QED
  BY <1>2, <1>3

(* CallsAreAtomic: a job with all its interleavings and stale reads is a   *)
(* job of the contract, for every number of callers, while nothing fails.  *)
THEOREM JobImplementsContract ==
    ASSUME NoFaults
    PROVE  Spec => CallsAreAtomic
<1>1. CleanFaults /\ CrashFaults
  BY DEF NoFaults, CleanFaults, CrashFaults
<1>2. Init => Contract!Init
  BY InitArtifacts DEF Contract!Init
<1>3. IInv /\ IArtifacts /\ ICrash /\ IClean /\ [Next]_vars
          => [Contract!Next]_(Contract!contractVars)
  BY StepsFollowContract
<1>4. Spec => [](IInv /\ IArtifacts /\ ICrash)
  BY <1>1, CrashInvariance
<1>5. Spec => [](IInv /\ IArtifacts /\ IClean)
  BY <1>1, CleanInvariance
<1> QED
  BY <1>2, <1>3, <1>4, <1>5, PTL DEF Spec, CallsAreAtomic, Contract!Spec
=============================================================================
