------------------------ MODULE JobLifecycle_proofs ------------------------
(***************************************************************************)
(* Proofs about JobLifecycle, for any callers, event budget and faults.    *)
(***************************************************************************)
EXTENDS JobInvariant, SequenceTheorems, TLAPS

-----------------------------------------------------------------------------
(* Plans and paths. *)

(* A plan is one of at most three states. *)
LEMMA PlanKinds ==
    ASSUME NEW op, NEW plan \in Plans(op)
    PROVE  \/ plan = <<>>
           \/ \E s \in States : plan = <<s>>
           \/ \E s, t \in States : plan = <<s, t>>
           \/ \E s, t, u \in States : plan = <<s, t, u>>
BY DEF Plans, States

(* A plan is a sequence of states, and one that is not empty has a first   *)
(* state and a target.                                                     *)
LEMMA PlansAreTyped ==
    ASSUME NEW op, NEW plan \in Plans(op)
    PROVE  /\ plan \in Seq(States)
           /\ plan # <<>> => Head(plan) \in States /\ Target(plan) \in States
<1>1. CASE plan = <<>>
  BY <1>1
<1>2. ASSUME NEW s \in States, plan = <<s>>
      PROVE  plan \in Seq(States) /\ Head(plan) \in States /\ Target(plan) \in States
  BY <1>2 DEF Target
<1>3. ASSUME NEW s \in States, NEW t \in States, plan = <<s, t>>
      PROVE  plan \in Seq(States) /\ Head(plan) \in States /\ Target(plan) \in States
  BY <1>3 DEF Target
<1>4. ASSUME NEW s \in States, NEW t \in States, NEW u \in States,
             plan = <<s, t, u>>
      PROVE  plan \in Seq(States) /\ Head(plan) \in States /\ Target(plan) \in States
  BY <1>4 DEF Target
<1> QED
  BY PlanKinds, <1>1, <1>2, <1>3, <1>4

(* A path of one state is legal if the table allows it and the job is not  *)
(* there yet.                                                              *)
LEMMA LegalSteps ==
    ASSUME NEW s, NEW t
    PROVE  /\ Target(<<t>>) = t
           /\ Legal(s, <<t>>) <=> s # t /\ t \in AllowedTransitions[s]
BY DEF Target, Legal, Entered, Trail

(* A legal path of two states takes two transitions of the table. *)
LEMMA LegalPairs ==
    ASSUME NEW s, NEW t, NEW u, s # t
    PROVE  /\ Target(<<t, u>>) = u
           /\ Legal(s, <<t, u>>) => /\ t \in AllowedTransitions[s]
                                    /\ u \in AllowedTransitions[t]
BY DEF Target, Legal, Entered, Trail

(* A path leads to a state. *)
LEMMA PathsAreTyped ==
    ASSUME NEW op, NEW plan \in Plans(op), plan # <<>>
    PROVE  /\ FirstPath(op, plan) \in Seq(States)
           /\ FirstPath(op, plan) # <<>>
           /\ Target(FirstPath(op, plan)) \in States
<1>1. plan \in Seq(States) /\ Head(plan) \in States /\ Target(plan) \in States
  BY PlansAreTyped
<1>2. CASE op \in BuildOps
  BY <1>1, <1>2 DEF FirstPath, Target
<1>3. CASE op \notin BuildOps
  BY <1>1, <1>3 DEF FirstPath
<1> QED
  BY <1>2, <1>3

(* What is left of a plan is a plan. *)
LEMMA PlansContinue ==
    ASSUME NEW op, NEW plan \in Plans(op), plan # <<>>, Rest(op, plan) # <<>>
    PROVE  /\ op \in BuildOps
           /\ Rest(op, plan) \in Plans(op)
           /\ Head(plan) \in {"planning", "processing"}
           /\ Head(Rest(op, plan)) \in AllowedTransitions[Head(plan)]
           /\ Head(Rest(op, plan)) # Head(plan)
<1>1. op \in BuildOps /\ Tail(plan) # <<>> /\ Rest(op, plan) = Tail(plan)
  BY DEF Rest
<1>1a. ASSUME NEW s, plan = <<s>>
      PROVE  FALSE
  <2>1. Tail(plan) = <<>>
    BY <1>1a
  <2> QED
    BY <1>1, <2>1
<1>2. CASE op = "build"
  <2>1. plan = <<"planning", "processing">>
    BY <1>2, <1>1a DEF Plans
  <2>2. Tail(plan) = <<"processing">> /\ Head(plan) = "planning"
    BY <2>1
  <2>3. Tail(plan) \in Plans(op)
    BY <1>2, <2>2 DEF Plans
  <2>4. Head(Tail(plan)) = "processing"
    BY <2>1
  <2> QED
    BY <1>1, <2>2, <2>3, <2>4 DEF AllowedTransitions
<1>3. CASE op \in {"claim_failed", "mark_failed"}
  <2>1. plan = <<"planning", "failed">>
    BY <1>1a, <1>3 DEF Plans
  <2>2. Tail(plan) = <<"failed">> /\ Head(plan) = "planning"
    BY <2>1
  <2>3. Tail(plan) \in Plans(op)
    BY <1>3, <2>2 DEF Plans
  <2>4. Head(Tail(plan)) = "failed"
    BY <2>1
  <2> QED
    BY <1>1, <2>2, <2>3, <2>4 DEF AllowedTransitions
<1>4. CASE op = "publish" /\ plan = <<"processing", "waiting_for_review">>
  <2>1. Tail(plan) = <<"waiting_for_review">> /\ Head(plan) = "processing"
    BY <1>4
  <2>2. Tail(plan) \in Plans(op)
    BY <1>4, <2>1 DEF Plans
  <2>3. Head(Tail(plan)) = "waiting_for_review"
    BY <1>4
  <2> QED
    BY <1>1, <2>1, <2>2, <2>3 DEF AllowedTransitions
<1>5. CASE op = "publish" /\ plan = <<"planning", "processing", "waiting_for_review">>
  <2>1. Tail(plan) = <<"processing", "waiting_for_review">> /\ Head(plan) = "planning"
    BY <1>5
  <2>2. Tail(plan) \in Plans(op)
    BY <1>5, <2>1 DEF Plans
  <2>3. Head(Tail(plan)) = "processing"
    BY <1>5
  <2> QED
    BY <1>1, <2>1, <2>2, <2>3 DEF AllowedTransitions
<1>6. op = "publish" => \/ plan = <<"processing", "waiting_for_review">>
                        \/ plan = <<"planning", "processing", "waiting_for_review">>
  BY <1>1a DEF Plans
<1> QED
  BY <1>1, <1>2, <1>3, <1>4, <1>5, <1>6 DEF BuildOps

(* Hooks publish artifacts or a replacement job. *)
LEMMA PublishesAreTyped ==
    ASSUME NEW op
    PROVE  Publishes(op) \in Seq(Artifacts \cup {"child"})
<1> DEFINE A == Artifacts \cup {"child"}
<1>1. /\ <<>> \in Seq(A)
      /\ <<"submitted">> \in Seq(A)
      /\ <<"approved">> \in Seq(A)
      /\ <<"rejected">> \in Seq(A)
      /\ <<"child">> \in Seq(A)
      /\ <<"candidate", "snapshot", "candidate_node">> \in Seq(A)
  BY DEF Artifacts, Candidate, Decisions
<1>2. <<"package", "report", "lineage_file", "bundle", "export_node">> \in Seq(A)
  BY DEF Artifacts, Final, FinalFiles
<1> QED
  BY <1>1, <1>2 DEF Publishes

(* Operations record events of the log. *)
LEMMA NotesAreTyped ==
    ASSUME NEW op
    PROVE  Notes(op) \in Seq(Events)
<1>1. \A k \in NoteKinds : <<Note(k)>> \in Seq(Events)
  BY DEF Events
<1>2. <<>> \in Seq(Events)
  OBVIOUS
<1> QED
  BY <1>1, <1>2 DEF Notes, NoteKinds

(* The events of a path are transitions between states. *)
LEMMA EventsAreTyped ==
    ASSUME NEW s \in States, NEW path \in Seq(States), path # <<>>
    PROVE  TransitionEvents(s, path) \in Seq(Events)
<1> DEFINE entered == Entered(s, path)
<1>1. entered \in Seq(States) /\ Trail(s, path) \in Seq(States)
  BY DEF Entered, Trail
<1>2. Len(Trail(s, path)) = Len(entered) + 1
  BY <1>1 DEF Trail
<1>3. \A i \in 1 .. Len(entered) :
         Trail(s, path)[i] \in States /\ entered[i] \in States
  BY <1>1, <1>2
<1>4. \A i \in 1 .. Len(entered) :
         Transition(Trail(s, path)[i], entered[i]) \in Events
  BY <1>3 DEF Events
<1>5. TransitionEvents(s, path) \in [1 .. Len(entered) -> Events]
  BY <1>4 DEF TransitionEvents
<1>6. Len(entered) \in Nat
  BY <1>1
<1> QED
  BY <1>5, <1>6

(* A new transaction is a task that keeps its operation, plan and          *)
(* previous state.                                                         *)
LEMMA NewTasksAreTyped ==
    ASSUME NEW op \in Ops, NEW plan \in Plans(op), NEW s \in States, NEW r \in Nat
    PROVE  /\ NewTask(op, plan, s, r) \in Tasks
           /\ NewTask(op, plan, s, r).op = op
           /\ NewTask(op, plan, s, r).plan = plan
           /\ NewTask(op, plan, s, r).done = {}
           /\ NewTask(op, plan, s, r).saved = FALSE
           /\ NewTask(op, plan, s, r).prev.state = s
BY PlansAreTyped, PublishesAreTyped DEF NewTask, Tasks

(* What a transaction appends are events. *)
LEMMA NewEventsAreTyped ==
    ASSUME NEW t \in Tasks, t.plan \in Plans(t.op)
    PROVE  NewEvents(t) \in Seq(Events)
<1>1. Notes(t.op) \in Seq(Events)
  BY NotesAreTyped
<1>2. t.plan # <<>> => TransitionEvents(t.prev.state, FirstPath(t.op, t.plan)) \in Seq(Events)
  BY PathsAreTyped, EventsAreTyped DEF Tasks
<1> QED
  BY <1>1, <1>2 DEF NewEvents

-----------------------------------------------------------------------------
(* The task of an idle caller is a task. *)
LEMMA NoTaskIsTyped == NoTask \in Tasks /\ NoTask.plan \in Plans(NoTask.op)
BY DEF NoTask, Tasks, Plans, States

(* A job that has just been created satisfies the invariant. *)
LEMMA InitIInv == Init => IInv
<1> SUFFICES ASSUME Init PROVE IInv
  OBVIOUS
<1>1. NoTask \in Tasks /\ NoTask.plan \in Plans(NoTask.op)
  BY NoTaskIsTyped
<1>2. TypeOK
  BY <1>1, ConstantsOK DEF Init, TypeOK, States, Events, Note, NoteKinds, Labels
<1>3. LocksAreHeld
  BY ConstantsOK DEF Init, LocksAreHeld, Transacting, NoTask, BuildOps
<1>4. \A p \in Procs : TaskFits(p) /\ JobFits(p) /\ PathFits(p) /\ Relied(p)
  BY <1>1 DEF Init, TaskFits, JobFits, PathFits, Relied, Transacting, NoTask
<1> QED
  BY <1>2, <1>3, <1>4 DEF IInv

-----------------------------------------------------------------------------
(* The parts of a step of p: it keeps the invariant for p, and moves what  *)
(* others see at most along the path of an open transaction of p.          *)

Fits(p) == TaskFits(p) /\ JobFits(p) /\ PathFits(p)

Frame(p) ==
    /\ \A q \in Procs \ {p} : task'[q] = task[q] /\ pc'[q] = pc[q]
    /\ (state' = state /\ children' = children) \/ lock = p

VisibleMove(p) ==
    \/ VisibleState' = VisibleState
    \/ /\ lock = p
       /\ task[p].plan # <<>>
       /\ VisibleState = task[p].prev.state
       /\ VisibleState' = SavedState(task[p])

Good(p) ==
    /\ TypeOK'
    /\ LocksAreHeld'
    /\ Fits(p)'
    /\ Relied(p)'
    /\ Frame(p)
    /\ VisibleMove(p)

(* A step within the frame of p disturbs the tasks of no other caller. *)
LEMMA OthersFit ==
    ASSUME IInv, NEW p \in Procs, NEW q \in Procs \ {p}, Frame(p)
    PROVE  Fits(q)'
<1>1. task'[q] = task[q] /\ pc'[q] = pc[q]
  BY DEF Frame
<1>2. TaskFits(q) /\ JobFits(q) /\ PathFits(q)
  BY DEF IInv
<1>3. CASE state' = state /\ children' = children
  BY <1>1, <1>2, <1>3 DEF Fits, TaskFits, JobFits, PathFits
<1>4. CASE lock = p
  <2>1. pc[q] \notin Transacting
    BY <1>4 DEF IInv, LocksAreHeld
  <2>2. task[q].done = {}
    BY <1>2, <2>1 DEF TaskFits
  <2> QED
    BY <1>1, <1>2, <2>1, <2>2 DEF Fits, TaskFits, JobFits, PathFits, Transacting
<1> QED
  BY <1>3, <1>4 DEF Frame

(* A caller that returns holds no lock, and its empty task fits. *)
LEMMA ReturnFits ==
    ASSUME IInv, NEW p \in Procs, Return(p)
    PROVE  /\ lock' \in Procs \cup {Nobody}
           /\ lease' \in Procs \cup {Nobody}
           /\ pc' \in [Procs -> Labels]
           /\ task' \in [Procs -> Tasks]
           /\ LocksAreHeld'
           /\ Fits(p)'
           /\ Relied(p)'
           /\ pc'[p] = "idle" /\ task'[p] = NoTask
           /\ \A q \in Procs \ {p} : task'[q] = task[q] /\ pc'[q] = pc[q]
<1> USE DEF Return, Goto, SetTask
<1>1. NoTask \in Tasks /\ NoTask.plan \in Plans(NoTask.op)
  BY NoTaskIsTyped
<1>2. /\ lock' \in Procs \cup {Nobody}
      /\ lease' \in Procs \cup {Nobody}
      /\ pc' \in [Procs -> Labels]
      /\ task' \in [Procs -> Tasks]
      /\ \A q \in Procs \ {p} : task'[q] = task[q] /\ pc'[q] = pc[q]
      /\ pc'[p] = "idle" /\ task'[p] = NoTask
  BY <1>1 DEF IInv, TypeOK, Labels
<1>3. LocksAreHeld'
  BY <1>2, ConstantsOK DEF IInv, TypeOK, LocksAreHeld, Transacting, NoTask, BuildOps
<1>4. Fits(p)' /\ Relied(p)'
  BY <1>1, <1>2 DEF Fits, TaskFits, JobFits, PathFits, Relied, Transacting, NoTask
<1> QED
  BY <1>2, <1>3, <1>4

(* A caller that enters a transaction on a free or own lock holds it,      *)
(* with a task that fits.                                                  *)
LEMMA EnterFits ==
    ASSUME IInv, NEW p \in Procs, NEW op \in Ops, NEW plan \in Plans(op),
           NEW s \in States, NEW r \in Nat, state' = s, revision' = r,
           Enter(p, op, plan, s, r),
           lock \in {p, Nobody}, lease' = lease,
           pc[p] # "lease", op \in BuildOps <=> task[p].op \in BuildOps,
           plan # <<>> => /\ Legal(s, FirstPath(op, plan))
                          /\ Target(FirstPath(op, plan)) = "processing" =>
                                s # "waiting_for_review",
           op = "reject" => s = "waiting_for_review",
           op = "build" => plan # <<>> /\ s \in Claimable
    PROVE  /\ lock' \in Procs \cup {Nobody}
           /\ pc' \in [Procs -> Labels]
           /\ task' \in [Procs -> Tasks]
           /\ LocksAreHeld'
           /\ Fits(p)'
           /\ pc'[p] \in Transacting
           /\ task'[p] = NewTask(op, plan, s, r)
           /\ VisibleState' = s
           /\ \A q \in Procs \ {p} : task'[q] = task[q] /\ pc'[q] = pc[q]
<1>1. PICK t : /\ t = NewTask(op, plan, s, r)
               /\ t \in Tasks /\ t.op = op /\ t.plan = plan /\ t.done = {}
               /\ t.saved = FALSE /\ t.prev.state = s
  <2>1. NewTask(op, plan, s, r) \in Tasks
    BY ONLY NewTasksAreTyped
  <2> QED
    BY <2>1 DEF NewTask
<1> USE DEF Enter, Goto, SetTask
<1>2. /\ FirstStep(t) \in {"hook", "save", "append"}
      /\ FirstStep(t) = "hook" => t.todo # <<>>
      /\ FirstStep(t) = "save" => t.plan # <<>>
      /\ FirstStep(t) = "append" => t.plan = <<>>
  BY DEF FirstStep, AfterHook
<1>3. /\ lock' = p
      /\ task'[p] = t /\ pc'[p] = FirstStep(t)
      /\ pc' \in [Procs -> Labels] /\ task' \in [Procs -> Tasks]
      /\ \A q \in Procs \ {p} : task'[q] = task[q] /\ pc'[q] = pc[q]
  BY <1>1, <1>2 DEF IInv, TypeOK, Labels
<1>4. LocksAreHeld'
  BY <1>1, <1>2, <1>3, ConstantsOK DEF IInv, TypeOK, LocksAreHeld, Transacting
<1>5. TaskFits(p)'
  BY <1>1, <1>2, <1>3 DEF TaskFits, Transacting
<1>6. JobFits(p)'
  BY <1>1, <1>2, <1>3 DEF JobFits
<1>7. PathFits(p)'
  BY <1>1, <1>2, <1>3 DEF PathFits, SavedState
<1>8. VisibleState' = s
  BY <1>1, <1>3, ConstantsOK DEF VisibleState, InTransaction
<1> QED
  BY <1>1, <1>2, <1>3, <1>4, <1>5, <1>6, <1>7, <1>8 DEF Fits, Transacting

(* What others see while no transaction changes hands. *)
LEMMA VisibleFrame ==
    ASSUME IInv, lock' = lock, state' = state,
           lock \in Procs => /\ task'[lock].saved = task[lock].saved
                             /\ task'[lock].prev.state = task[lock].prev.state
    PROVE  VisibleState' = VisibleState
BY DEF IInv, TypeOK, VisibleState, InTransaction

(* p is not in a transaction and stays out of one. *)
LEMMA VisibleOutside ==
    ASSUME IInv, NEW p \in Procs, pc[p] \notin Transacting,
           lock' \in {lock, Nobody}, lock = Nobody => lock' = lock,
           lock' # lock => lock = p, state' = state,
           \A q \in Procs \ {p} : task'[q] = task[q] /\ pc'[q] = pc[q]
    PROVE  VisibleState' = VisibleState
BY DEF IInv, TypeOK, LocksAreHeld, VisibleState, InTransaction

(* A call that ends outside of a transaction changes nothing others see. *)
LEMMA ReturnIsGood ==
    ASSUME IInv, NEW p \in Procs, Return(p), UNCHANGED jobVars,
           accepted' \subseteq Procs, faults' \in Nat,
           pc[p] \notin Transacting
    PROVE  Good(p)
<1>1. lock' \in {lock, Nobody} /\ (lock = Nobody => lock' = lock) /\ (lock' # lock => lock = p)
  BY DEF Return
<1>2. VisibleState' = VisibleState
  BY <1>1, ReturnFits, VisibleOutside DEF jobVars
<1> QED
  BY <1>2, ReturnFits DEF Good, Frame, VisibleMove, IInv, TypeOK, jobVars

(* p goes on outside of any transaction. *)
LEMMA OutsideIsGood ==
    ASSUME IInv, NEW p \in Procs, pc[p] \notin Transacting,
           NEW t \in Tasks, NEW label \in Labels \ (Transacting \cup {"idle"}),
           Goto(p, label), SetTask(p, t),
           UNCHANGED <<jobVars, lock, faults>>, accepted' \subseteq Procs,
           t.plan \in Plans(t.op), t.done = {},
           lease' = IF t.op \in BuildOps /\ label # "lease" THEN p ELSE lease,
           lease \in {p, Nobody} \/ lease' = lease,
           lease = p => lease' = p /\ t.op \in BuildOps /\ label # "lease",
           label \in {"lease", "provider"} => t.op = "build",
           label = "approval" => t.op = "finalize",
           t.op = "finalize" /\ label \in {"approval", "lock"} =>
               VisibleState \in {"waiting_for_review"} \cup Terminal,
           label = "provider" => VisibleState \in {"processing", "cancelled"}
    PROVE  Good(p)
<1> USE DEF Goto, SetTask, jobVars
<1>1. /\ task'[p] = t /\ pc'[p] = label
      /\ pc' \in [Procs -> Labels] /\ task' \in [Procs -> Tasks]
      /\ \A q \in Procs \ {p} : task'[q] = task[q] /\ pc'[q] = pc[q]
  BY DEF IInv, TypeOK
<1>2. TypeOK'
  BY <1>1 DEF IInv, TypeOK
<1>3. LocksAreHeld'
  <2>1. \A q \in Procs : lock' = q <=> pc'[q] \in Transacting
    BY <1>1 DEF IInv, LocksAreHeld
  <2>2. lease' = p <=> task'[p].op \in BuildOps /\ pc'[p] # "lease"
    BY <1>1
  <2>3. \A q \in Procs \ {p} : lease' = q <=> lease = q
    BY ConstantsOK
  <2>4. \A q \in Procs \ {p} : lease = q <=> task[q].op \in BuildOps /\ pc[q] # "lease"
    BY DEF IInv, LocksAreHeld
  <2> QED
    BY <1>1, <2>1, <2>2, <2>3, <2>4 DEF LocksAreHeld
<1>4. VisibleState' = VisibleState
  BY <1>1, VisibleOutside
<1>5. Fits(p)' /\ Relied(p)'
  BY <1>1, <1>4 DEF Fits, TaskFits, JobFits, PathFits, Relied, Transacting
<1> QED
  BY <1>1, <1>2, <1>3, <1>4, <1>5 DEF Good, Frame, VisibleMove

(* A new call keeps the invariant. *)
LEMMA StartCallIsGood ==
    ASSUME IInv, NEW p \in Procs, NEW call \in Calls, StartCall(p, call)
    PROVE  Good(p)
<1>1. /\ call \in AllCalls
      /\ FirstLabel[call] \in {"reread", "read", "lease", "lock"}
      /\ FirstLabel[call] = "lease" <=> call = "build"
      /\ call = "finalize" => FirstLabel[call] = "read"
      /\ call \in BuildOps => call = "build"
  BY ConstantsOK DEF AllCalls, FirstLabel, BuildOps
<1>2. FirstPlan(call) \in Plans(call)
  BY <1>1 DEF AllCalls, FirstPlan, Plans
<1>3. FirstPlan(call) \in Seq(States) /\ call \in Ops /\ NoTask \in Tasks
  BY <1>1, <1>2, PlansAreTyped, NoTaskIsTyped DEF Ops
<1>4. PICK t : t = [NoTask EXCEPT !.op = call, !.plan = FirstPlan(call)]
  OBVIOUS
<1>4a. t \in Tasks
  BY <1>3, <1>4 DEF Tasks
<1>4b. t.op = call /\ t.plan = FirstPlan(call) /\ t.done = {}
  BY <1>4 DEF NoTask
<1>5. task[p] = NoTask /\ pc[p] \notin Transacting /\ lease # p
  BY DEF StartCall, IInv, LocksAreHeld, TaskFits, Transacting, NoTask, BuildOps
<1> QED
  BY <1>1, <1>2, <1>4, <1>4a, <1>4b, <1>5, OutsideIsGood
     DEF StartCall, IInv, TypeOK, Labels, Transacting

(* p goes on outside of any transaction with the task it has. *)
LEMMA OnwardIsGood ==
    ASSUME IInv, NEW p \in Procs, pc[p] \notin Transacting,
           NEW label \in Labels \ (Transacting \cup {"idle"}),
           Goto(p, label), pc[p] # "lease",
           UNCHANGED <<jobVars, lock, lease, task, faults>>, accepted' \subseteq Procs,
           label # "lease",
           label = "provider" => task[p].op = "build",
           label = "approval" => task[p].op = "finalize",
           task[p].op = "finalize" /\ label \in {"approval", "lock"} =>
               VisibleState \in {"waiting_for_review"} \cup Terminal,
           label = "provider" => VisibleState \in {"processing", "cancelled"}
    PROVE  Good(p)
<1>1. TaskFits(p) /\ task[p] \in Tasks
  BY DEF IInv, TypeOK
<1>2. SetTask(p, task[p]) /\ task[p].done = {}
  BY <1>1 DEF SetTask, IInv, TypeOK, TaskFits
<1>3. lease = p <=> task[p].op \in BuildOps
  BY DEF IInv, LocksAreHeld
<1>4. lease' = IF task[p].op \in BuildOps /\ label # "lease" THEN p ELSE lease
  BY <1>3
<1> QED
  BY <1>1, <1>2, <1>3, <1>4, OutsideIsGood DEF TaskFits

(* Without a transaction, job.json is what others see. *)
LEMMA VisibleUnlocked ==
    ASSUME IInv, lock = Nobody
    PROVE  VisibleState = state
BY DEF VisibleState, InTransaction

(* submit_sources: the first read. *)
LEMMA SubmitReadsIsGood ==
    ASSUME IInv, NEW p \in Procs, SubmitReads(p)
    PROVE  Good(p)
<1>1. pc[p] \notin Transacting /\ pc[p] # "lease" /\ task[p].op = "submit"
  BY DEF SubmitReads, Reading, Transacting
<1>2. PICK label \in {"lock", "reread"} : Goto(p, label)
  BY DEF SubmitReads
<1> QED
  BY <1>1, <1>2, OnwardIsGood DEF SubmitReads, IInv, TypeOK, Labels, Transacting

(* _transition_job: the path is chosen from the second read. *)
LEMMA ChooseSourcesPathIsGood ==
    ASSUME IInv, NEW p \in Procs, ChooseSourcesPath(p)
    PROVE  Good(p)
<1>1. /\ pc[p] = "reread" /\ task[p].op \in {"plan", "submit"}
      /\ TaskFits(p) /\ task[p] \in Tasks
  BY DEF ChooseSourcesPath, Reading, IInv, TypeOK
<1>2. /\ task[p].done = {} /\ lease # p
      /\ task[p].op \notin BuildOps /\ pc[p] \notin Transacting
  BY <1>1 DEF TaskFits, Transacting, IInv, LocksAreHeld, BuildOps
<1> DEFINE plan == AppPlan(state, SourcesTarget(task[p].op))
<1>3. plan \in Plans(task[p].op)
  BY <1>1 DEF AppPlan, SourcesTarget, Plans
<1>4. plan \in Seq(States)
  BY <1>3, PlansAreTyped
<1>5. PICK t : t = [task[p] EXCEPT !.plan = plan]
  OBVIOUS
<1> HIDE DEF plan
<1>6. t \in Tasks /\ t.op = task[p].op /\ t.plan = plan /\ t.done = {}
  BY <1>1, <1>2, <1>4, <1>5 DEF Tasks
<1>7. SetTask(p, t) /\ Goto(p, "lock")
  BY <1>5 DEF ChooseSourcesPath, plan
<1> QED
  BY <1>1, <1>2, <1>3, <1>6, <1>7, OutsideIsGood
     DEF ChooseSourcesPath, IInv, TypeOK, Labels, Transacting

(* _transition_job: the job is there already. *)
LEMMA NothingToTransitionIsGood ==
    ASSUME IInv, NEW p \in Procs, NothingToTransition(p)
    PROVE  Good(p)
BY ReturnIsGood DEF NothingToTransition, Reading, Accept, Transacting, IInv, TypeOK

(* finalize_job: the read of the job, which finds it in review. *)
LEMMA FinalizeReadsIsGood ==
    ASSUME IInv, NEW p \in Procs, FinalizeReads(p)
    PROVE  Good(p)
<1>1. pc[p] = "read" /\ task[p].op = "finalize" /\ VisibleState = state
  BY VisibleUnlocked DEF FinalizeReads, Reading
<1>2. CASE Return(p)
  BY <1>1, <1>2, ReturnIsGood DEF FinalizeReads, Transacting, IInv, TypeOK
<1>3. CASE ~Return(p)
  BY <1>1, <1>3, OnwardIsGood
     DEF FinalizeReads, IInv, TypeOK, Labels, Transacting
<1> QED
  BY <1>2, <1>3

(* finalize_job: the approval is found; the job can only have left review  *)
(* for good.                                                               *)
LEMMA FinalizeFindsApprovalIsGood ==
    ASSUME IInv, NEW p \in Procs, FinalizeFindsApproval(p)
    PROVE  Good(p)
<1>1. /\ pc[p] = "approval" /\ task[p].op = "finalize"
      /\ TaskFits(p) /\ task[p] \in Tasks
  BY DEF FinalizeFindsApproval, IInv, TypeOK, TaskFits
<1>2. /\ task[p].done = {} /\ lease # p
      /\ task[p].op \notin BuildOps /\ pc[p] \notin Transacting
  BY <1>1 DEF TaskFits, Transacting, IInv, LocksAreHeld, BuildOps
<1>3. VisibleState \in {"waiting_for_review"} \cup Terminal
  BY <1>1 DEF IInv, Relied
<1>4. PICK plan : plan = <<"validating", "completed">>
  OBVIOUS
<1>5. plan \in Plans(task[p].op) /\ plan \in Seq(States)
  BY <1>1, <1>4, PlansAreTyped DEF Plans
<1>6. PICK t : t = [task[p] EXCEPT !.plan = plan]
  OBVIOUS
<1>7. t \in Tasks /\ t.op = task[p].op /\ t.plan = plan /\ t.done = {}
  BY <1>1, <1>2, <1>5, <1>6 DEF Tasks
<1>8. SetTask(p, t) /\ Goto(p, "lock")
  BY <1>4, <1>6 DEF FinalizeFindsApproval
<1> QED
  BY <1>1, <1>2, <1>3, <1>5, <1>7, <1>8, OutsideIsGood
     DEF FinalizeFindsApproval, IInv, TypeOK, Labels, Transacting

(* finalize_job: no approval. *)
LEMMA FinalizeRefusedIsGood ==
    ASSUME IInv, NEW p \in Procs, FinalizeRefused(p)
    PROVE  Good(p)
BY ReturnIsGood DEF FinalizeRefused, Transacting, IInv, TypeOK

(* _mark_job_failed_if_possible: the first read. *)
LEMMA MarkFailedReadsIsGood ==
    ASSUME IInv, NEW p \in Procs, MarkFailedReads(p)
    PROVE  Good(p)
<1>1. pc[p] = "read" /\ task[p].op = "mark_failed"
  BY DEF MarkFailedReads, Reading
<1>2. CASE Return(p)
  BY <1>1, <1>2, ReturnIsGood DEF MarkFailedReads, Transacting, IInv, TypeOK
<1>3. CASE ~Return(p)
  BY <1>1, <1>3, OnwardIsGood
     DEF MarkFailedReads, IInv, TypeOK, Labels, Transacting
<1> QED
  BY <1>2, <1>3

(* _mark_job_failed_if_possible: the path is chosen from the second read. *)
LEMMA MarkFailedChoosesPathIsGood ==
    ASSUME IInv, NEW p \in Procs, MarkFailedChoosesPath(p)
    PROVE  Good(p)
<1>1. /\ pc[p] = "reread" /\ task[p].op = "mark_failed"
      /\ TaskFits(p) /\ task[p] \in Tasks
  BY DEF MarkFailedChoosesPath, Reading, IInv, TypeOK
<1>2. /\ task[p].done = {} /\ lease = p
      /\ task[p].op \in BuildOps /\ pc[p] \notin Transacting
  BY <1>1 DEF TaskFits, Transacting, IInv, LocksAreHeld, BuildOps
<1>3. CASE state = "failed"
  BY <1>2, <1>3, ReturnIsGood DEF MarkFailedChoosesPath, IInv, TypeOK
<1>4. CASE state # "failed"
  <2>1. PICK plan : plan = ToFailed(state)
    OBVIOUS
  <2>2. plan \in Plans(task[p].op) /\ plan \in Seq(States)
    BY <1>1, <2>1, PlansAreTyped DEF Plans, ToFailed
  <2>3. PICK t : t = [task[p] EXCEPT !.plan = plan]
    OBVIOUS
  <2>4. t \in Tasks /\ t.op = task[p].op /\ t.plan = plan /\ t.done = {}
    BY <1>1, <1>2, <2>2, <2>3 DEF Tasks
  <2>5. SetTask(p, t) /\ Goto(p, "lock")
    BY <1>4, <2>1, <2>3 DEF MarkFailedChoosesPath
  <2> QED
    BY <1>1, <1>2, <1>4, <2>2, <2>4, <2>5, OutsideIsGood
       DEF MarkFailedChoosesPath, IInv, TypeOK, Labels, Transacting
<1> QED
  BY <1>3, <1>4

(* A caller waits for the job lock past its deadline. *)
LEMMA GiveUpIsGood ==
    ASSUME IInv, NEW p \in Procs, GiveUp(p)
    PROVE  Good(p)
BY ReturnIsGood DEF GiveUp, Transacting, IInv, TypeOK

-----------------------------------------------------------------------------
(* Builds. *)

(* A build takes the lease. *)
LEMMA AcquireLeaseIsGood ==
    ASSUME IInv, NEW p \in Procs, AcquireLease(p)
    PROVE  Good(p)
<1>1. /\ pc[p] = "lease" /\ task[p].op = "build" /\ lease # p
      /\ TaskFits(p) /\ task[p] \in Tasks
  BY DEF AcquireLease, IInv, TypeOK, TaskFits, LocksAreHeld
<1>2. SetTask(p, task[p]) /\ task[p].done = {} /\ pc[p] \notin Transacting
  BY <1>1 DEF AcquireLease, SetTask, IInv, TypeOK, TaskFits, Transacting
<1> QED
  BY <1>1, <1>2, OutsideIsGood
     DEF AcquireLease, IInv, TypeOK, TaskFits, Labels, Transacting, BuildOps

(* A build finds the lease taken. *)
LEMMA LeaseRefusedIsGood ==
    ASSUME IInv, NEW p \in Procs, LeaseRefused(p)
    PROVE  Good(p)
BY ReturnIsGood DEF LeaseRefused, Transacting, IInv, TypeOK

(* A build finds its job not claimable. *)
LEMMA ClaimRefusedIsGood ==
    ASSUME IInv, NEW p \in Procs, ClaimRefused(p)
    PROVE  Good(p)
BY ReturnIsGood DEF ClaimRefused, Claiming, Reading, Transacting, IInv, TypeOK

(* A transaction is refused before it writes. *)
LEMMA RefuseIsGood ==
    ASSUME IInv, NEW p \in Procs, Refuse(p)
    PROVE  Good(p)
BY ReturnIsGood DEF Refuse, Reading, Transacting, IInv, TypeOK

(* A build claims a processing job, which then is in processing. *)
LEMMA ClaimStrandedIsGood ==
    ASSUME IInv, NEW p \in Procs, ClaimStranded(p)
    PROVE  Good(p)
<1>1. pc[p] = "lock" /\ task[p].op = "build" /\ VisibleState = "processing"
  BY VisibleUnlocked DEF ClaimStranded, Claiming, Reading
<1> QED
  BY <1>1, OnwardIsGood DEF ClaimStranded, IInv, TypeOK, Labels, Transacting

(* The provider delivers. *)
LEMMA ProviderDeliversIsGood ==
    ASSUME IInv, NEW p \in Procs, ProviderDelivers(p)
    PROVE  Good(p)
<1>1. pc[p] = "provider" /\ pc[p] \notin Transacting /\ lease = p
  BY DEF ProviderDelivers, Transacting, IInv, TaskFits, LocksAreHeld, BuildOps
<1>2. PICK t : t = [NoTask EXCEPT !.op = "publish"]
  OBVIOUS
<1>3. t.op = "publish" /\ t.plan = <<>> /\ t.done = {}
  BY <1>2 DEF NoTask
<1>4. t \in Tasks
  BY <1>2, NoTaskIsTyped DEF Tasks, Ops, BuildOps
<1>5. t.plan \in Plans(t.op)
  BY <1>3 DEF Plans
<1> QED
  BY <1>1, <1>2, <1>3, <1>4, <1>5, OutsideIsGood
     DEF ProviderDelivers, IInv, TypeOK, Labels, Transacting, BuildOps

(* The provider fails. *)
LEMMA ProviderFailsIsGood ==
    ASSUME IInv, NEW p \in Procs, ProviderFails(p)
    PROVE  Good(p)
<1>1. pc[p] = "provider" /\ pc[p] \notin Transacting /\ lease = p
  BY DEF ProviderFails, Transacting, IInv, TaskFits, LocksAreHeld, BuildOps
<1>2. PICK t : t = [NoTask EXCEPT !.op = "mark_failed"]
  OBVIOUS
<1>3. t.op = "mark_failed" /\ t.plan = <<>> /\ t.done = {}
  BY <1>2 DEF NoTask
<1>4. t \in Tasks
  BY <1>2, NoTaskIsTyped DEF Tasks, Ops, BuildOps
<1>5. t.plan \in Plans(t.op)
  BY <1>3 DEF Plans
<1> QED
  BY <1>1, <1>2, <1>3, <1>4, <1>5, OutsideIsGood
     DEF ProviderFails, IInv, TypeOK, Labels, Transacting, BuildOps

-----------------------------------------------------------------------------
(* Transactions begin. *)

(* Entering from a free lock is good. *)
LEMMA OpenIsGood ==
    ASSUME IInv, NEW p \in Procs, NEW op \in Ops, NEW plan \in Plans(op),
           Enter(p, op, plan, state, revision), lock = Nobody,
           UNCHANGED <<jobVars, lease, accepted, faults>>,
           pc[p] # "lease", op \in BuildOps <=> task[p].op \in BuildOps,
           plan # <<>> => /\ Legal(state, FirstPath(op, plan))
                          /\ Target(FirstPath(op, plan)) = "processing" =>
                                state # "waiting_for_review",
           op = "reject" => state = "waiting_for_review",
           op = "build" => plan # <<>> /\ state \in Claimable,
           op = "finalize" => VisibleState \in {"waiting_for_review"} \cup Terminal
    PROVE  Good(p)
<1>1. state \in States /\ revision \in Nat /\ state' = state /\ revision' = revision
  BY DEF IInv, TypeOK, jobVars
<1>2. PICK s \in States, r \in Nat : s = state /\ r = revision
  BY <1>1
<1>3. /\ lock' \in Procs \cup {Nobody}
      /\ pc' \in [Procs -> Labels]
      /\ task' \in [Procs -> Tasks]
      /\ LocksAreHeld'
      /\ Fits(p)'
      /\ pc'[p] \in Transacting
      /\ task'[p] = NewTask(op, plan, s, r)
      /\ VisibleState' = s
      /\ \A q \in Procs \ {p} : task'[q] = task[q] /\ pc'[q] = pc[q]
  BY <1>1, <1>2, EnterFits
<1>4. task'[p].op = op
  BY <1>3 DEF NewTask
<1>5. VisibleState' = VisibleState
  BY <1>2, <1>3, VisibleUnlocked
<1>6. Relied(p)'
  BY <1>3, <1>4, <1>5 DEF Relied, Transacting
<1>7. TypeOK'
  BY <1>3 DEF IInv, TypeOK, jobVars
<1> QED
  BY <1>3, <1>5, <1>6, <1>7 DEF Good, Frame, VisibleMove, jobVars

(* Every way out of a claimable state is in the table. *)
LEMMA PlansOfABuild ==
    ASSUME NEW s \in Claimable
    PROVE  /\ ToProcessing(s) \in Plans("build")
           /\ ToFailed(s) \in Plans("claim_failed")
           /\ s # "processing" => Legal(s, FirstPath("build", ToProcessing(s)))
           /\ Legal(s, FirstPath("claim_failed", ToFailed(s)))
           /\ Target(FirstPath("claim_failed", ToFailed(s))) # "processing"
<1>1. CASE s = "created"
  <2>1. PICK a : a = <<"planning", "processing">>
    OBVIOUS
  <2>2. PICK b : b = <<"planning", "failed">>
    OBVIOUS
  <2>3. Head(a) = "planning" /\ Head(b) = "planning"
    BY <2>1, <2>2
  <2>4. ToProcessing(s) = a /\ ToFailed(s) = b
    BY <1>1, <2>1, <2>2 DEF ToProcessing, ToFailed
  <2>5. a \in Plans("build") /\ b \in Plans("claim_failed")
    BY <2>1, <2>2 DEF Plans
  <2>6. FirstPath("build", a) = <<"planning">> /\ FirstPath("claim_failed", b) = <<"planning">>
    BY <2>3 DEF FirstPath, BuildOps
  <2>7. Legal(s, <<"planning">>) /\ Target(<<"planning">>) = "planning"
    BY <1>1, LegalSteps DEF AllowedTransitions
  <2> QED
    BY <2>4, <2>5, <2>6, <2>7
<1>2. CASE s # "created"
  <2>1. PICK a : a = <<"processing">>
    OBVIOUS
  <2>2. PICK b : b = <<"failed">>
    OBVIOUS
  <2>3. Head(a) = "processing" /\ Head(b) = "failed"
    BY <2>1, <2>2
  <2>4. (s # "processing" => ToProcessing(s) = a) /\ ToFailed(s) = b
        /\ (s = "processing" => ToProcessing(s) = <<>>)
    BY <1>2, <2>1, <2>2 DEF ToProcessing, ToFailed
  <2>5. a \in Plans("build") /\ b \in Plans("claim_failed") /\ <<>> \in Plans("build")
    BY <2>1, <2>2 DEF Plans
  <2>6. FirstPath("build", a) = <<"processing">> /\ FirstPath("claim_failed", b) = <<"failed">>
    BY <2>3 DEF FirstPath, BuildOps
  <2>7. (s # "processing" => Legal(s, <<"processing">>))
        /\ Legal(s, <<"failed">>) /\ Target(<<"failed">>) = "failed"
    BY <1>2, LegalSteps DEF AllowedTransitions, Claimable
  <2> QED
    BY <2>4, <2>5, <2>6, <2>7
<1> QED
  BY <1>1, <1>2

(* A claim opens a legal transaction from a claimable state. *)
LEMMA ClaimIsGood ==
    ASSUME IInv, NEW p \in Procs, Claim(p)
    PROVE  Good(p)
<1>1. /\ pc[p] = "lock" /\ task[p].op = "build" /\ lock = Nobody
      /\ state \in Claimable /\ state # "processing"
      /\ state # "waiting_for_review"
  BY DEF Claim, Claiming, Reading, Claimable
<1>2. PICK plan : plan = ToProcessing(state)
  OBVIOUS
<1>3. plan \in Plans("build") /\ Legal(state, FirstPath("build", plan))
  BY <1>1, <1>2, PlansOfABuild
<1>3a. plan # <<>>
  BY <1>1, <1>2 DEF ToProcessing
<1>4. Enter(p, "build", plan, state, revision)
      /\ UNCHANGED <<jobVars, lease, accepted, faults>>
  BY <1>2 DEF Claim
<1> QED
  BY <1>1, <1>3, <1>3a, <1>4, OpenIsGood DEF Ops, BuildOps

(* A claim that fails opens the transaction that fails its job. *)
LEMMA ClaimLookupFailsIsGood ==
    ASSUME IInv, NEW p \in Procs, ClaimLookupFails(p)
    PROVE  Good(p)
<1>1. /\ pc[p] = "lock" /\ task[p].op = "build" /\ lock = Nobody
      /\ state \in Claimable /\ state # "waiting_for_review"
  BY DEF ClaimLookupFails, Claiming, Reading, Claimable
<1>2. PICK plan : plan = ToFailed(state)
  OBVIOUS
<1>3. plan \in Plans("claim_failed") /\ Legal(state, FirstPath("claim_failed", plan))
  BY <1>1, <1>2, PlansOfABuild
<1>4. Enter(p, "claim_failed", plan, state, revision)
      /\ UNCHANGED <<jobVars, lease, accepted, faults>>
  BY <1>2 DEF ClaimLookupFails
<1> QED
  BY <1>1, <1>3, <1>4, OpenIsGood DEF Ops, BuildOps

(* Two sequences of one element concatenate to the pair. *)
LEMMA OneThenOne ==
    ASSUME NEW S, NEW a \in S, NEW b \in S,
           NEW q \in Seq(S), NEW r \in Seq(S), NEW t \in Seq(S),
           q = <<a>>, r = <<b>>, t = <<a, b>>
    PROVE  q \o r = t
<1>1. /\ q \o r \in Seq(S) /\ Len(q \o r) = 2
      /\ (q \o r)[1] = a /\ (q \o r)[2] = b
  OBVIOUS
<1>2. Len(t) = 2 /\ t[1] = a /\ t[2] = b
  OBVIOUS
<1>3. \A i \in 1 .. 2 : (q \o r)[i] = t[i]
  BY <1>1, <1>2
<1> QED
  BY <1>1, <1>2, <1>3, SeqEqual

(* A pair and a sequence of one element concatenate to the triple. *)
LEMMA TwoThenOne ==
    ASSUME NEW S, NEW a \in S, NEW b \in S, NEW c \in S,
           NEW q \in Seq(S), NEW r \in Seq(S), NEW t \in Seq(S),
           q = <<a, b>>, r = <<c>>, t = <<a, b, c>>
    PROVE  q \o r = t
<1>1. /\ q \o r \in Seq(S) /\ Len(q \o r) = 3
      /\ (q \o r)[1] = a /\ (q \o r)[2] = b /\ (q \o r)[3] = c
  OBVIOUS
<1>2. Len(t) = 3 /\ t[1] = a /\ t[2] = b /\ t[3] = c
  OBVIOUS
<1>3. \A i \in 1 .. 3 : (q \o r)[i] = t[i]
  BY <1>1, <1>2
<1> QED
  BY <1>1, <1>2, <1>3, SeqEqual

(* The states a publication may still have to enter. *)
LEMMA PlansOfAPublication ==
    ASSUME NEW s \in States
    PROVE  /\ ToReview(s) \in Plans("publish")
           /\ ToReview(s) # <<>> => s # "waiting_for_review"
<1>1. CASE s = "waiting_for_review"
  BY <1>1 DEF ToReview, Plans
<1>2. CASE s = "processing"
  BY <1>2 DEF ToReview, ToProcessing, Plans
<1>3. CASE s = "created"
  <2>1. PICK q, r, t : /\ q = <<"planning", "processing">>
                       /\ r = <<"waiting_for_review">>
                       /\ t = <<"planning", "processing", "waiting_for_review">>
    OBVIOUS
  <2>2. q \in Seq(States) /\ r \in Seq(States) /\ t \in Seq(States)
    BY <2>1 DEF States
  <2>2a. {"planning", "processing", "waiting_for_review"} \subseteq States
    BY DEF States
  <2>3. q \o r = t
    BY <2>1, <2>2, <2>2a, TwoThenOne, Zenon
  <2>4. ToReview(s) = t
    BY <1>3, <2>1, <2>3 DEF ToReview, ToProcessing
  <2> QED
    BY <1>3, <2>1, <2>4 DEF Plans
<1>4. CASE s \notin {"waiting_for_review", "processing", "created"}
  <2>1. PICK q, r, t : /\ q = <<"processing">>
                       /\ r = <<"waiting_for_review">>
                       /\ t = <<"processing", "waiting_for_review">>
    OBVIOUS
  <2>2. q \in Seq(States) /\ r \in Seq(States) /\ t \in Seq(States)
    BY <2>1 DEF States
  <2>2a. {"planning", "processing", "waiting_for_review"} \subseteq States
    BY DEF States
  <2>3. q \o r = t
    BY <2>1, <2>2, <2>2a, OneThenOne, Zenon
  <2>4. ToReview(s) = t
    BY <1>4, <2>1, <2>3 DEF ToReview, ToProcessing
  <2> QED
    BY <1>4, <2>1, <2>4 DEF Plans
<1> QED
  BY <1>1, <1>2, <1>3, <1>4

(* A transaction that is admitted goes along the table. *)
LEMMA BeginIsGood ==
    ASSUME IInv, NEW p \in Procs, Begin(p)
    PROVE  Good(p)
<1>1. /\ pc[p] = "lock" /\ task[p].op \in TransactionOps /\ lock = Nobody
      /\ TaskFits(p) /\ Admitted(p) /\ state \in States
      /\ VisibleState = state /\ Relied(p)
  BY VisibleUnlocked DEF Begin, Reading, IInv, TypeOK
<1>2. PICK plan : plan = PlanAtLock(p)
  OBVIOUS
<1>3. plan \in Plans(task[p].op)
  BY <1>1, <1>2, PlansOfAPublication DEF PlanAtLock, TaskFits
<1>4. plan # <<>> => Legal(state, FirstPath(task[p].op, plan))
  BY <1>1, <1>2 DEF Admitted
<1>5. task[p].op = "reject" => state = "waiting_for_review"
  BY <1>1 DEF Admitted, HookAdmits
<1>6. task[p].op = "finalize" => VisibleState \in {"waiting_for_review"} \cup Terminal
  BY <1>1 DEF Relied
<1>7. plan # <<>> /\ Target(FirstPath(task[p].op, plan)) = "processing"
         => state # "waiting_for_review"
  <2>1. CASE task[p].op = "publish"
    BY <1>1, <1>2, <2>1, PlansOfAPublication DEF PlanAtLock
  <2>2. CASE task[p].op # "publish" /\ plan # <<>>
    BY <1>1, <1>3, <2>2 DEF TransactionOps, Plans, FirstPath, Target, BuildOps
  <2> QED
    BY <2>1, <2>2
<1> QED
  BY <1>1, <1>2, <1>3, <1>4, <1>5, <1>6, <1>7, OpenIsGood
     DEF Begin, TransactionOps, Ops, AllCalls, BuildOps

-----------------------------------------------------------------------------
(* Transactions go on and end. *)

(* A finalization completes its job. *)
LEMMA FinalizationsComplete ==
    ASSUME NEW plan \in Plans("finalize"), plan # <<>>
    PROVE  Target(FirstPath("finalize", plan)) = "completed"
<1>1. plan = <<"validating", "completed">> /\ FirstPath("finalize", plan) = plan
  BY DEF Plans, FirstPath, BuildOps
<1> QED
  BY <1>1 DEF Target

(* A step inside the transaction of p. *)
LEMMA InsideIsGood ==
    ASSUME IInv, NEW p \in Procs, lock = p,
           NEW t \in Tasks, NEW label \in Transacting,
           Goto(p, label), SetTask(p, t),
           UNCHANGED <<lock, lease, accepted>>, faults' \in Nat,
           state' \in States, revision' \in Nat, log' \in Seq(Events),
           disk' \subseteq Artifacts, children' \in Nat,
           submitter' \in Procs \cup {Nobody},
           t.op = task[p].op, t.plan = task[p].plan, t.prev = task[p].prev,
           label = "hook" => t.todo # <<>>,
           label = "save" => t.plan # <<>>,
           "child" \in t.done => children' > 0,
           label \in {"hook", "save"} => ~t.saved /\ state' = t.prev.state,
           label = "append" =>
               /\ t.saved <=> t.plan # <<>>
               /\ state' = IF t.saved THEN SavedState(t) ELSE t.prev.state,
           label = "undo" =>
               /\ t.saved => t.plan # <<>>
               /\ state' # t.prev.state => t.plan # <<>> /\ state' = SavedState(t),
           pc[p] = "undo" => t.saved = task[p].saved /\ state' = state
    PROVE  Good(p)
<1> USE DEF Goto, SetTask
<1>1. /\ task'[p] = t /\ pc'[p] = label
      /\ pc' \in [Procs -> Labels] /\ task' \in [Procs -> Tasks]
      /\ \A q \in Procs \ {p} : task'[q] = task[q] /\ pc'[q] = pc[q]
  BY DEF IInv, TypeOK, Labels, Transacting
<1>2. pc[p] \in Transacting /\ TaskFits(p) /\ JobFits(p) /\ PathFits(p) /\ Relied(p)
  BY DEF IInv, LocksAreHeld
<1>3. TypeOK'
  BY <1>1 DEF IInv, TypeOK
<1>4. LocksAreHeld'
  BY <1>1, <1>2 DEF IInv, LocksAreHeld, Transacting
<1>5. TaskFits(p)'
  BY <1>1, <1>2 DEF TaskFits, Transacting
<1>6. JobFits(p)'
  BY <1>1 DEF JobFits
<1>7. PathFits(p)'
  BY <1>1, <1>2 DEF PathFits, SavedState
<1>8. VisibleState = IF task[p].saved THEN task[p].prev.state ELSE state
  BY ConstantsOK DEF VisibleState, InTransaction
<1>9. VisibleState' = IF t.saved THEN t.prev.state ELSE state'
  BY <1>1, ConstantsOK DEF VisibleState, InTransaction
<1>10. VisibleMove(p)
  <2>1. SavedState(t) = SavedState(task[p])
    BY DEF SavedState
  <2>2. CASE pc[p] = "undo"
    BY <1>8, <1>9, <2>2 DEF VisibleMove
  <2>3. CASE pc[p] # "undo"
    <3>1. VisibleState = task[p].prev.state
      BY <1>2, <1>8, <2>3 DEF JobFits, Transacting
    <3>2. VisibleState' = t.prev.state \/ (t.plan # <<>> /\ VisibleState' = SavedState(t))
      BY <1>9 DEF Transacting
    <3> QED
      BY <2>1, <3>1, <3>2 DEF VisibleMove
  <2> QED
    BY <2>2, <2>3
<1>11. Relied(p)'
  BY <1>1, <1>2, <1>10, FinalizationsComplete
     DEF Relied, VisibleMove, TaskFits, SavedState, Transacting, Terminal
<1> QED
  BY <1>1, <1>3, <1>4, <1>5, <1>6, <1>7, <1>10, <1>11 DEF Good, Frame, Fits

(* What is known of p when its transaction is open. *)
LEMMA Inside ==
    ASSUME IInv, NEW p \in Procs, pc[p] \in Transacting
    PROVE  /\ lock = p /\ TaskFits(p) /\ JobFits(p) /\ PathFits(p) /\ Relied(p)
           /\ task[p] \in Tasks
           /\ task[p].op \in Ops \cup {"none"}
           /\ task[p].prev.state \in States /\ task[p].prev.revision \in Nat
           /\ state \in States /\ revision \in Nat /\ log \in Seq(Events)
           /\ disk \subseteq Artifacts /\ children \in Nat
           /\ submitter \in Procs \cup {Nobody}
           /\ accepted \subseteq Procs /\ faults \in Nat
           /\ task[p].plan # <<>> => SavedState(task[p]) \in States
<1>1. /\ lock = p /\ TaskFits(p) /\ JobFits(p) /\ PathFits(p) /\ Relied(p)
      /\ task[p] \in Tasks
      /\ state \in States /\ revision \in Nat /\ log \in Seq(Events)
      /\ disk \subseteq Artifacts /\ children \in Nat
      /\ submitter \in Procs \cup {Nobody}
      /\ accepted \subseteq Procs /\ faults \in Nat
  BY DEF IInv, TypeOK, LocksAreHeld
<1>2. /\ task[p].op \in Ops \cup {"none"}
      /\ task[p].prev.state \in States /\ task[p].prev.revision \in Nat
  BY <1>1 DEF Tasks
<1>3. task[p].plan # <<>> => SavedState(task[p]) \in States
  BY <1>1, PathsAreTyped DEF TaskFits, SavedState
<1> QED
  BY <1>1, <1>2, <1>3

(* A transaction that gives up before it has saved anything more. *)
LEMMA UndoIsGood ==
    ASSUME IInv, NEW p \in Procs, pc[p] \in {"hook", "save", "append"},
           Goto(p, "undo"),
           UNCHANGED <<state, revision, children, submitter, lock, lease, task,
                       accepted>>,
           faults' \in Nat, log' \in Seq(Events), disk' \subseteq Artifacts
    PROVE  Good(p)
<1>1. pc[p] \in Transacting
  BY DEF Transacting
<1>2. SetTask(p, task[p])
  BY DEF SetTask, IInv, TypeOK
<1> QED
  BY <1>1, <1>2, Inside, InsideIsGood DEF JobFits, TaskFits, Transacting

(* A hook publishes an artifact. *)
LEMMA PublishNextIsGood ==
    ASSUME IInv, NEW p \in Procs, PublishNext(p)
    PROVE  Good(p)
<1>1. pc[p] = "hook" /\ pc[p] \in Transacting
  BY DEF PublishNext, Transacting
<1>2. PICK a, t : /\ a = Head(task[p].todo)
                  /\ t = [task[p] EXCEPT !.todo = Tail(@), !.done = @ \cup {a}]
  OBVIOUS
<1>3. /\ a \in Artifacts \cup {"child"}
      /\ t \in Tasks
      /\ t.op = task[p].op /\ t.plan = task[p].plan /\ t.prev = task[p].prev
      /\ t.saved = task[p].saved /\ t.done = task[p].done \cup {a}
  <2>1. task[p] \in Tasks /\ task[p].todo # <<>>
    BY <1>1, Inside DEF TaskFits
  <2>2. a \in Artifacts \cup {"child"} /\ Tail(task[p].todo) \in Seq(Artifacts \cup {"child"})
    BY <1>2, <2>1 DEF Tasks
  <2>3. t \in Tasks
    BY <1>2, <2>1, <2>2 DEF Tasks
  <2> QED
    BY <1>2, <2>1, <2>2, <2>3 DEF Tasks
<1>4. /\ disk' = IF a = "child" THEN disk ELSE disk \cup {a}
      /\ children' = IF a = "child" THEN children + 1 ELSE children
      /\ submitter' \in Procs \cup {Nobody}
      /\ SetTask(p, t) /\ Goto(p, FirstStep(t))
      /\ UNCHANGED <<state, revision, log, lock, lease, accepted, faults>>
  BY <1>1, <1>2, Inside DEF PublishNext
<1>5. /\ FirstStep(t) \in {"hook", "save", "append"}
      /\ FirstStep(t) = "hook" => t.todo # <<>>
      /\ FirstStep(t) = "save" => t.plan # <<>>
      /\ FirstStep(t) = "append" => t.plan = <<>>
  BY DEF FirstStep, AfterHook
<1>6. PICK label \in {"hook", "save", "append"} : label = FirstStep(t)
  BY <1>5
<1>7. disk' \subseteq Artifacts /\ children' \in Nat /\ children' >= children
  BY <1>1, <1>3, <1>4, Inside
<1>8. "child" \in t.done => children' > 0
  BY <1>1, <1>3, <1>4, <1>7, Inside DEF TaskFits
<1>9. ~task[p].saved /\ state = task[p].prev.state
  BY <1>1, Inside DEF JobFits
<1> QED
  BY <1>1, <1>3, <1>4, <1>5, <1>6, <1>7, <1>8, <1>9, Inside, InsideIsGood
     DEF Transacting

(* A hook finds its artifact in the way. *)
LEMMA PublishClashIsGood ==
    ASSUME IInv, NEW p \in Procs, PublishClash(p)
    PROVE  Good(p)
BY UndoIsGood, Inside DEF PublishClash, Transacting, jobVars

(* The log refuses to grow. *)
LEMMA BudgetExceededIsGood ==
    ASSUME IInv, NEW p \in Procs, BudgetExceeded(p)
    PROVE  Good(p)
BY UndoIsGood, Inside DEF BudgetExceeded, Transacting, jobVars

(* job.json is saved: others still see what it was. *)
LEMMA SaveIsGood ==
    ASSUME IInv, NEW p \in Procs, Save(p)
    PROVE  Good(p)
<1>1. pc[p] = "save" /\ pc[p] \in Transacting
  BY DEF Save, Transacting
<1>2. PICK t : t = [task[p] EXCEPT !.saved = TRUE]
  OBVIOUS
<1>3. /\ t \in Tasks
      /\ t.op = task[p].op /\ t.plan = task[p].plan /\ t.prev = task[p].prev
      /\ t.saved = TRUE /\ t.done = task[p].done
  BY <1>1, <1>2, Inside DEF Tasks
<1>4. SavedState(t) = SavedState(task[p])
  BY <1>3 DEF SavedState
<1>5. task[p].plan # <<>> /\ state' = SavedState(t) /\ state' \in States
  BY <1>1, <1>4, Inside DEF Save, TaskFits
<1>6. SetTask(p, t) /\ Goto(p, "append")
  BY <1>2 DEF Save
<1> QED
  BY <1>1, <1>3, <1>5, <1>6, Inside, InsideIsGood DEF Save, Transacting, TaskFits

(* A compensation removes artifacts. *)
LEMMA UndoNextIsGood ==
    ASSUME IInv, NEW p \in Procs, UndoNext(p)
    PROVE  Good(p)
<1>1. pc[p] = "undo" /\ pc[p] \in Transacting
  BY DEF UndoNext, Transacting
<1>2. PICK t : t = [task[p] EXCEPT !.done = @ \ NextUndone(task[p])]
  OBVIOUS
<1>3. /\ t \in Tasks
      /\ t.op = task[p].op /\ t.plan = task[p].plan /\ t.prev = task[p].prev
      /\ t.saved = task[p].saved /\ t.done = task[p].done \ NextUndone(task[p])
  BY <1>1, <1>2, Inside DEF Tasks
<1>4. SavedState(t) = SavedState(task[p])
  BY <1>3 DEF SavedState
<1>5. SetTask(p, t) /\ Goto(p, "undo")
  BY <1>1, <1>2 DEF UndoNext, Goto, IInv, TypeOK
<1>6. NextUndone(task[p]) \subseteq task[p].done
  BY DEF NextUndone
<1>7. "child" \in task[p].done => children > 0
  BY <1>1, Inside DEF TaskFits
<1>8. /\ disk' \subseteq Artifacts /\ children' \in Nat
      /\ submitter' \in Procs \cup {Nobody}
      /\ "child" \in t.done => children' > 0
  BY <1>1, <1>3, <1>6, <1>7, Inside DEF UndoNext
<1> QED
  BY <1>1, <1>3, <1>4, <1>5, <1>8, Inside, InsideIsGood
     DEF UndoNext, JobFits, Transacting

(* A compensation fails. *)
LEMMA UndoFailsIsGood ==
    ASSUME IInv, NEW p \in Procs, UndoFails(p), faults' \in Nat
    PROVE  Good(p)
<1>1. pc[p] = "undo" /\ pc[p] \in Transacting
  BY DEF UndoFails, Transacting
<1>2. PICK t : t = [task[p] EXCEPT !.done =
                      IF task[p].op = "finalize" THEN @ \ NextUndone(task[p])
                                                 ELSE {}]
  OBVIOUS
<1>3. /\ t \in Tasks
      /\ t.op = task[p].op /\ t.plan = task[p].plan /\ t.prev = task[p].prev
      /\ t.saved = task[p].saved /\ t.done \subseteq task[p].done
  BY <1>1, <1>2, Inside DEF Tasks
<1>4. SavedState(t) = SavedState(task[p])
  BY <1>3 DEF SavedState
<1>5. SetTask(p, t) /\ Goto(p, "undo")
  BY <1>1, <1>2 DEF UndoFails, Goto, IInv, TypeOK
<1>6. "child" \in task[p].done => children > 0
  BY <1>1, Inside DEF TaskFits
<1> QED
  BY <1>1, <1>3, <1>4, <1>5, <1>6, Inside, InsideIsGood
     DEF UndoFails, JobFits, Transacting, jobVars

(* The transaction of p ends, and its locks are freed. *)
LEMMA EndIsGood ==
    ASSUME IInv, NEW p \in Procs, pc[p] \in Transacting, Return(p),
           state' \in States, revision' \in Nat, log' \in Seq(Events),
           children' \in Nat, accepted' \subseteq Procs, faults' \in Nat,
           UNCHANGED <<disk, submitter>>,
           state' \in {state, VisibleState}
    PROVE  Good(p)
<1>1. lock = p /\ JobFits(p)
  BY Inside
<1>2. VisibleState = IF task[p].saved THEN task[p].prev.state ELSE state
  BY <1>1, ConstantsOK DEF VisibleState, InTransaction
<1>3. lock' = Nobody /\ VisibleState' = state'
  BY <1>1, ReturnFits DEF Return, VisibleState, InTransaction
<1>4. VisibleMove(p)
  BY <1>1, <1>2, <1>3 DEF VisibleMove, JobFits, Transacting
<1>5. TypeOK'
  BY ReturnFits DEF IInv, TypeOK
<1> QED
  BY <1>1, <1>4, <1>5, ReturnFits DEF Good, Frame

(* The log stays a sequence of events. *)
LEMMA AppendsAreTyped ==
    ASSUME IInv, NEW p \in Procs, AppendEvents(p)
    PROVE  pc[p] = "append" /\ pc[p] \in Transacting /\ log' \in Seq(Events)
<1>1. pc[p] = "append" /\ pc[p] \in Transacting
  BY DEF AppendEvents, Transacting
<1>2. NewEvents(task[p]) \in Seq(Events) /\ log \in Seq(Events)
  BY <1>1, Inside, NewEventsAreTyped DEF TaskFits
<1> QED
  BY <1>1, <1>2 DEF AppendEvents

(* A transaction ends: others see its target. *)
LEMMA CommitIsGood ==
    ASSUME IInv, NEW p \in Procs, Commit(p)
    PROVE  Good(p)
BY AppendsAreTyped, Inside, EndIsGood DEF Commit, Accept

(* A compensated call raises: others see the job as before. *)
LEMMA RestoreAndRaiseIsGood ==
    ASSUME IInv, NEW p \in Procs, RestoreAndRaise(p)
    PROVE  Good(p)
<1>1. pc[p] = "undo" /\ pc[p] \in Transacting
  BY DEF RestoreAndRaise, RestoreJob, Transacting
<1>2. VisibleState = Restored(task[p]).state /\ Restored(task[p]).revision \in Nat
  BY <1>1, Inside, ConstantsOK DEF Restored, VisibleState, InTransaction
<1>3. VisibleState \in States
  BY <1>1, Inside, ConstantsOK DEF VisibleState, InTransaction
<1> QED
  BY <1>1, <1>2, <1>3, Inside, EndIsGood DEF RestoreAndRaise, RestoreJob

(* A caller dies: others see what is on disk, before or after its move. *)
LEMMA CrashIsGood ==
    ASSUME IInv, NEW p \in Procs, Crash(p), faults' \in Nat
    PROVE  Good(p)
<1>1. CASE pc[p] \in Transacting
  BY <1>1, Inside, EndIsGood DEF Crash, jobVars
<1>2. CASE pc[p] \notin Transacting
  BY <1>2, ReturnIsGood DEF Crash, IInv, TypeOK
<1> QED
  BY <1>1, <1>2

(* A write fails without effect. *)
LEMMA WriteFailsIsGood ==
    ASSUME IInv, NEW p \in Procs, WriteFails(p), faults' \in Nat
    PROVE  Good(p)
BY UndoIsGood, Inside DEF WriteFails, Transacting, jobVars

(* An artifact is written, its flag is not set. *)
LEMMA HookFailsLateIsGood ==
    ASSUME IInv, NEW p \in Procs, HookFailsLate(p), faults' \in Nat
    PROVE  Good(p)
<1>1. pc[p] = "hook" /\ pc[p] \in Transacting
  BY DEF HookFailsLate, Transacting
<1>2. FlaggedAfterSync \subseteq Artifacts
  BY DEF FlaggedAfterSync, Artifacts, Candidate, Final, Decisions
<1>3. disk' \subseteq Artifacts
  BY <1>1, <1>2, Inside DEF HookFailsLate
<1> QED
  BY <1>1, <1>3, UndoIsGood, Inside DEF HookFailsLate

(* The log is written, the append raises. *)
LEMMA AppendFailsLateIsGood ==
    ASSUME IInv, NEW p \in Procs, AppendFailsLate(p), faults' \in Nat
    PROVE  Good(p)
BY AppendsAreTyped, UndoIsGood, Inside DEF AppendFailsLate

(* job.json is written, the save raises. *)
LEMMA SaveFailsLateIsGood ==
    ASSUME IInv, NEW p \in Procs, SaveFailsLate(p), faults' \in Nat
    PROVE  Good(p)
<1>1. pc[p] = "save" /\ pc[p] \in Transacting
  BY DEF SaveFailsLate, Transacting
<1>2. SetTask(p, task[p]) /\ task[p].plan # <<>>
  BY <1>1, Inside DEF SaveFailsLate, SetTask, IInv, TypeOK, TaskFits
<1> QED
  BY <1>1, <1>2, Inside, InsideIsGood
     DEF SaveFailsLate, JobFits, TaskFits, Transacting

(* A build enters its next transaction under the same lock. *)
LEMMA CommitAndContinueIsGood ==
    ASSUME IInv, NEW p \in Procs, CommitAndContinue(p)
    PROVE  Good(p)
<1> DEFINE op == task[p].op
           plan == task[p].plan
<1>1. /\ pc[p] = "append" /\ pc[p] \in Transacting /\ log' \in Seq(Events)
      /\ plan # <<>> /\ Rest(op, plan) # <<>>
  BY AppendsAreTyped DEF CommitAndContinue, IsLast
<1>2. /\ lock = p /\ task[p].saved /\ state = SavedState(task[p])
      /\ plan \in Plans(op) /\ op \in Ops \cup {"none"} /\ pc[p] # "lease"
      /\ state \in States /\ revision \in Nat
  BY <1>1, Inside DEF JobFits, TaskFits
<1>3. /\ op \in BuildOps /\ Rest(op, plan) \in Plans(op)
      /\ Head(plan) \in {"planning", "processing"}
      /\ Head(Rest(op, plan)) \in AllowedTransitions[Head(plan)]
      /\ Head(Rest(op, plan)) # Head(plan)
  BY <1>1, <1>2, PlansContinue
<1>4. state = Head(plan)
  BY <1>2, <1>3, LegalSteps DEF SavedState, FirstPath
<1>5. PICK next : next = Rest(op, plan)
  OBVIOUS
<1>6. FirstPath(op, next) = <<Head(next)>>
  BY <1>3 DEF FirstPath
<1>7. /\ Legal(state, FirstPath(op, next))
      /\ state # "waiting_for_review" /\ state \in Claimable
  BY <1>3, <1>4, <1>5, <1>6, LegalSteps DEF Claimable
<1>8. op # "reject" /\ op # "finalize" /\ op \in Ops
  BY <1>3 DEF BuildOps, Ops
<1>9. PICK s \in States, r \in Nat : s = state /\ r = revision
  BY <1>2
<1>10. /\ Enter(p, op, next, s, r)
       /\ UNCHANGED <<state, revision, disk, children, submitter, lease,
                      accepted, faults>>
  BY <1>5, <1>9 DEF CommitAndContinue
<1>11. /\ pc' \in [Procs -> Labels] /\ task' \in [Procs -> Tasks]
       /\ lock' \in Procs \cup {Nobody}
       /\ LocksAreHeld' /\ Fits(p)' /\ pc'[p] \in Transacting
       /\ task'[p] = NewTask(op, next, s, r)
       /\ VisibleState' = s
       /\ \A q \in Procs \ {p} : task'[q] = task[q] /\ pc'[q] = pc[q]
  BY <1>1, <1>2, <1>3, <1>5, <1>7, <1>8, <1>9, <1>10, EnterFits
<1>12. Relied(p)'
  BY <1>8, <1>11 DEF Relied, NewTask, Transacting
<1>13. TypeOK'
  BY <1>1, <1>2, <1>10, <1>11 DEF IInv, TypeOK
<1>14. VisibleState = task[p].prev.state
  BY <1>2, ConstantsOK DEF VisibleState, InTransaction
<1> QED
  BY <1>1, <1>2, <1>9, <1>10, <1>11, <1>12, <1>13, <1>14 DEF Good, Frame, VisibleMove

(* A claim is compensated and fails its job under the same lock. *)
LEMMA RestoreAndMarkFailedIsGood ==
    ASSUME IInv, NEW p \in Procs, RestoreAndMarkFailed(p)
    PROVE  Good(p)
<1>1. pc[p] = "undo" /\ pc[p] \in Transacting /\ task[p].op = "build"
  BY DEF RestoreAndMarkFailed, RestoreJob, Transacting
<1>2. /\ lock = p /\ TaskFits(p) /\ JobFits(p) /\ PathFits(p)
      /\ state \in States /\ revision \in Nat
      /\ task[p].prev.state \in States /\ task[p].prev.revision \in Nat
  BY <1>1, Inside
<1>3. PICK s, r : s = Restored(task[p]).state /\ r = Restored(task[p]).revision
  OBVIOUS
<1>4. s = VisibleState /\ s \in States /\ r \in Nat
  BY <1>2, <1>3, ConstantsOK DEF Restored, VisibleState, InTransaction
<1>5. /\ task[p].prev.state \in Claimable
      /\ task[p].plan # <<>>
  BY <1>1, <1>2 DEF PathFits
<1>6. SavedState(task[p]) \in {"planning", "processing"}
  <2>1. task[p].plan = <<"processing">> \/ task[p].plan = <<"planning", "processing">>
    BY <1>1, <1>2, <1>5 DEF TaskFits, Plans
  <2>2. Head(task[p].plan) \in {"planning", "processing"}
    BY <2>1
  <2> QED
    BY <1>1, <2>2, LegalSteps DEF SavedState, FirstPath, BuildOps
<1>7. s \in Claimable
  BY <1>1, <1>2, <1>3, <1>5, <1>6 DEF Restored, JobFits, Claimable
<1>8. state' = s /\ revision' = r
      /\ UNCHANGED <<log, disk, children, submitter, accepted, faults, lease>>
  BY <1>3 DEF RestoreAndMarkFailed, RestoreJob
<1>9. PICK plan : plan = ToFailed(s)
  OBVIOUS
<1>10. /\ plan \in Plans("claim_failed")
       /\ Legal(s, FirstPath("claim_failed", plan))
       /\ s # "waiting_for_review"
  BY <1>7, <1>9, PlansOfABuild DEF Claimable
<1>11. Enter(p, "claim_failed", plan, s, r)
  BY <1>8, <1>9 DEF RestoreAndMarkFailed
<1>12. /\ pc' \in [Procs -> Labels] /\ task' \in [Procs -> Tasks]
       /\ lock' \in Procs \cup {Nobody}
       /\ LocksAreHeld' /\ Fits(p)' /\ pc'[p] \in Transacting
       /\ task'[p] = NewTask("claim_failed", plan, s, r)
       /\ VisibleState' = s
       /\ \A q \in Procs \ {p} : task'[q] = task[q] /\ pc'[q] = pc[q]
  BY <1>1, <1>2, <1>4, <1>8, <1>10, <1>11, EnterFits DEF Ops, BuildOps
<1>13. Relied(p)'
  BY <1>12 DEF Relied, NewTask, Transacting
<1>14. TypeOK'
  BY <1>4, <1>8, <1>12 DEF IInv, TypeOK
<1> QED
  BY <1>2, <1>4, <1>12, <1>13, <1>14 DEF Good, Frame, VisibleMove

(* A claim ends: the provider runs on a processing job. *)
LEMMA CommitClaimIsGood ==
    ASSUME IInv, NEW p \in Procs, CommitClaim(p)
    PROVE  Good(p)
<1>1. /\ pc[p] = "append" /\ pc[p] \in Transacting /\ log' \in Seq(Events)
      /\ task[p].op = "build" /\ IsLast(task[p].op, task[p].plan)
  BY AppendsAreTyped DEF CommitClaim
<1>2. /\ lock = p /\ TaskFits(p) /\ JobFits(p) /\ PathFits(p)
      /\ state \in States
  BY <1>1, Inside
<1>3. task[p].plan # <<>> /\ task[p].saved /\ state = SavedState(task[p])
  BY <1>1, <1>2 DEF PathFits, JobFits
<1>4. state = "processing"
  <2>1. CASE task[p].plan = <<"processing">>
    <3>1. Head(task[p].plan) = "processing"
      BY <2>1
    <3> QED
      BY <1>1, <1>3, <3>1, LegalSteps DEF SavedState, FirstPath, BuildOps
  <2>2. CASE task[p].plan = <<"planning", "processing">>
    <3>1. Tail(task[p].plan) # <<>>
      BY <2>2
    <3> QED
      BY <1>1, <1>3, <3>1 DEF IsLast, Rest, BuildOps
  <2> QED
    BY <1>1, <1>2, <1>3, <2>1, <2>2 DEF TaskFits, Plans
<1>5. PICK t : t = [NoTask EXCEPT !.op = "build"]
  OBVIOUS
<1>6. t.op = "build" /\ t.plan = <<>> /\ t.done = {}
  BY <1>5 DEF NoTask
<1>7. t \in Tasks
  BY <1>5, NoTaskIsTyped DEF Tasks, Ops, BuildOps
<1>8. t.plan \in Plans(t.op)
  BY <1>6 DEF Plans
<1>9. /\ task'[p] = t /\ pc'[p] = "provider" /\ lock' = Nobody
      /\ pc' \in [Procs -> Labels] /\ task' \in [Procs -> Tasks]
      /\ \A q \in Procs \ {p} : task'[q] = task[q] /\ pc'[q] = pc[q]
      /\ UNCHANGED <<state, revision, disk, children, submitter, lease,
                     accepted, faults>>
  BY <1>5, <1>7 DEF CommitClaim, Goto, SetTask, IInv, TypeOK, Labels
<1>10. TypeOK'
  BY <1>1, <1>9 DEF IInv, TypeOK
<1>11. LocksAreHeld'
  BY <1>1, <1>2, <1>6, <1>9, ConstantsOK
     DEF IInv, LocksAreHeld, Transacting, BuildOps
<1>12. VisibleState = task[p].prev.state /\ VisibleState' = state
  BY <1>2, <1>3, <1>9, ConstantsOK DEF VisibleState, InTransaction
<1>13. Fits(p)' /\ Relied(p)'
  BY <1>4, <1>6, <1>8, <1>9, <1>12
     DEF Fits, TaskFits, JobFits, PathFits, Relied, Transacting
<1> QED
  BY <1>2, <1>3, <1>9, <1>10, <1>11, <1>12, <1>13 DEF Good, Frame, VisibleMove

-----------------------------------------------------------------------------
(* Every step is good, and a good step keeps the invariant. *)

(* All reads keep the invariant. *)
LEMMA ReadStepIsGood ==
    ASSUME IInv, NEW p \in Procs, ReadStep(p)
    PROVE  Good(p)
BY SubmitReadsIsGood, ChooseSourcesPathIsGood, NothingToTransitionIsGood,
   FinalizeReadsIsGood, FinalizeFindsApprovalIsGood, FinalizeRefusedIsGood,
   MarkFailedReadsIsGood, MarkFailedChoosesPathIsGood, GiveUpIsGood
   DEF ReadStep

(* All steps of a build outside its transactions keep the invariant. *)
LEMMA BuildStepIsGood ==
    ASSUME IInv, NEW p \in Procs, BuildStep(p)
    PROVE  Good(p)
BY AcquireLeaseIsGood, LeaseRefusedIsGood, ClaimRefusedIsGood, ClaimIsGood,
   ClaimStrandedIsGood, ClaimLookupFailsIsGood, ProviderDeliversIsGood,
   ProviderFailsIsGood
   DEF BuildStep

(* All steps of a transaction keep the invariant. *)
LEMMA TransactionStepIsGood ==
    ASSUME IInv, NEW p \in Procs, TransactionStep(p)
    PROVE  Good(p)
BY BeginIsGood, RefuseIsGood, PublishNextIsGood, PublishClashIsGood, SaveIsGood,
   CommitAndContinueIsGood, CommitClaimIsGood, CommitIsGood,
   BudgetExceededIsGood, UndoNextIsGood, RestoreAndRaiseIsGood,
   RestoreAndMarkFailedIsGood
   DEF TransactionStep

(* All faults keep the invariant. *)
LEMMA FaultIsGood ==
    ASSUME IInv, NEW p \in Procs, Fault(p)
    PROVE  Good(p)
<1>1. faults' \in Nat
  BY DEF Fault, IInv, TypeOK
<1> QED
  BY <1>1, WriteFailsIsGood, HookFailsLateIsGood, SaveFailsLateIsGood,
     AppendFailsLateIsGood, UndoFailsIsGood, CrashIsGood
     DEF Fault

(* Every step is a step of one caller that keeps the invariant for it. *)
LEMMA NextIsGood ==
    ASSUME IInv, Next
    PROVE  \E p \in Procs : Good(p)
<1>1. PICK p \in Procs : \/ \E call \in Calls : StartCall(p, call)
                         \/ Step(p)
                         \/ Fault(p)
  BY DEF Next
<1> QED
  BY <1>1, StartCallIsGood, ReadStepIsGood, BuildStepIsGood,
     TransactionStepIsGood, FaultIsGood
     DEF Step

(* No legal path leaves a terminal state. *)
LEMMA TerminalsEnd ==
    ASSUME NEW s \in Terminal, NEW path \in Seq(States), path # <<>>
    PROVE  ~Legal(s, path)
<1>1. AllowedTransitions[s] = {}
  BY DEF AllowedTransitions, Terminal
<1> SUFFICES ASSUME Legal(s, path) PROVE FALSE
  OBVIOUS
<1>2. Entered(s, path) \in Seq(States) /\ Entered(s, path) # <<>>
  BY DEF Legal, Entered
<1>3. Len(Entered(s, path)) >= 1 /\ Len(Entered(s, path)) \in Nat
  BY <1>2
<1>4. Entered(s, path)[1] \in AllowedTransitions[Trail(s, path)[1]]
  BY <1>3 DEF Legal
<1>5. Trail(s, path)[1] = s
  BY <1>2 DEF Trail
<1> QED
  BY <1>1, <1>4, <1>5

(* From review a job only goes to a terminal state, or back to processing. *)
LEMMA MovesFromReview ==
    ASSUME NEW op, NEW plan \in Plans(op), plan # <<>>,
           Legal("waiting_for_review", FirstPath(op, plan)),
           Target(FirstPath(op, plan)) # "processing"
    PROVE  Target(FirstPath(op, plan)) \in Terminal
<1>1. CASE op \in BuildOps
  <2>1. Head(plan) \in {"processing", "planning", "failed", "waiting_for_review"}
    BY <1>1 DEF Plans, BuildOps
  <2>2. FirstPath(op, plan) = <<Head(plan)>>
    BY <1>1 DEF FirstPath
  <2> QED
    BY <2>1, <2>2, LegalSteps DEF AllowedTransitions, Terminal
<1>2. CASE op \in {"plan", "submit"}
  <2>1. PICK s, t \in {"planning", "waiting_for_provider", "waiting_for_sources"} :
           plan = <<s>> \/ plan = <<s, t>>
    BY <1>2 DEF Plans
  <2>2. FirstPath(op, plan) = plan
    BY <1>2 DEF FirstPath, BuildOps
  <2> QED
    BY <2>1, <2>2, LegalSteps, LegalPairs DEF AllowedTransitions
<1>3. CASE op \in {"reject", "cancel"}
  <2>1. PICK s \in {"failed", "cancelled"} : plan = <<s>>
    BY <1>3 DEF Plans
  <2>2. FirstPath(op, plan) = plan
    BY <1>3 DEF FirstPath, BuildOps
  <2> QED
    BY <2>1, <2>2, LegalSteps DEF Terminal
<1>4. CASE op = "finalize"
  BY <1>4, FinalizationsComplete DEF Terminal
<1> QED
  BY <1>1, <1>2, <1>3, <1>4 DEF Plans, BuildOps

(* Only a cancellation takes a job away from a build, unless it was in     *)
(* review.                                                                 *)
LEMMA MovesFromProcessing ==
    ASSUME NEW op, op \notin BuildOps, NEW plan \in Plans(op), plan # <<>>,
           Legal("processing", FirstPath(op, plan))
    PROVE  \/ op = "reject"
           \/ op = "finalize"
           \/ op = "cancel" /\ Target(FirstPath(op, plan)) = "cancelled"
<1>1. FirstPath(op, plan) = plan
  BY DEF FirstPath
<1>2. CASE op \in {"plan", "submit"}
  <2>1. PICK s, t \in {"planning", "waiting_for_provider", "waiting_for_sources"} :
           plan = <<s>> \/ plan = <<s, t>>
    BY <1>2 DEF Plans
  <2> QED
    BY <1>1, <2>1, LegalSteps, LegalPairs DEF AllowedTransitions
<1>3. CASE op = "cancel"
  BY <1>1, <1>3, LegalSteps DEF Plans
<1> QED
  BY <1>2, <1>3 DEF Plans, BuildOps

(* What a move says of the transaction that makes it. *)
LEMMA MovesAreLegal ==
    ASSUME IInv, NEW p \in Procs, VisibleMove(p), VisibleState' # VisibleState
    PROVE  /\ lock = p /\ pc[p] \in Transacting /\ Relied(p)
           /\ task[p].plan \in Plans(task[p].op) /\ task[p].plan # <<>>
           /\ Legal(VisibleState, FirstPath(task[p].op, task[p].plan))
           /\ VisibleState' = Target(FirstPath(task[p].op, task[p].plan))
           /\ VisibleState' = "processing" => VisibleState # "waiting_for_review"
           /\ task[p].op = "reject" => VisibleState = "waiting_for_review"
           /\ VisibleState \notin Terminal
<1>1. /\ lock = p /\ pc[p] \in Transacting /\ Relied(p)
      /\ task[p].plan \in Plans(task[p].op) /\ task[p].plan # <<>>
      /\ PathFits(p) /\ VisibleState = task[p].prev.state
      /\ VisibleState' = SavedState(task[p])
  BY DEF VisibleMove, IInv, LocksAreHeld, TaskFits
<1>2. /\ Legal(VisibleState, FirstPath(task[p].op, task[p].plan))
      /\ VisibleState' = "processing" => VisibleState # "waiting_for_review"
      /\ task[p].op = "reject" => VisibleState = "waiting_for_review"
  BY <1>1 DEF PathFits
<1>3. VisibleState \notin Terminal
  BY <1>1, <1>2, PathsAreTyped, TerminalsEnd
<1> QED
  BY <1>1, <1>2, <1>3 DEF SavedState

(* What another caller relies on survives the step of p. *)
LEMMA OthersRely ==
    ASSUME IInv, NEW p \in Procs, NEW q \in Procs \ {p}, Good(p)
    PROVE  Relied(q)'
<1>1. task'[q] = task[q] /\ pc'[q] = pc[q] /\ VisibleMove(p) /\ Relied(q)
  BY DEF Good, Frame, IInv
<1>2. CASE VisibleState' = VisibleState
  BY <1>1, <1>2 DEF Relied
<1>3. CASE VisibleState' # VisibleState
  <2>1. ASSUME VisibleState \in {"waiting_for_review"} \cup Terminal
        PROVE  VisibleState' \in Terminal
    BY <1>1, <1>3, <2>1, MovesAreLegal, MovesFromReview
  <2>2. ASSUME pc[q] = "provider"
        PROVE  VisibleState' = "cancelled"
    <3>1. lease = q /\ VisibleState = "processing"
      BY <1>1, <1>3, <2>2, MovesAreLegal
         DEF IInv, LocksAreHeld, TaskFits, Relied, BuildOps, Terminal
    <3>2. task[p].op \notin BuildOps
      BY <1>1, <1>3, <3>1, MovesAreLegal DEF IInv, LocksAreHeld, Transacting
    <3>3. task[p].op # "reject" /\ task[p].op # "finalize"
      BY <1>1, <1>3, <3>1, MovesAreLegal DEF Relied, Terminal
    <3> QED
      BY <1>1, <1>3, <3>1, <3>2, <3>3, MovesAreLegal, MovesFromProcessing
  <2> QED
    BY <1>1, <2>1, <2>2 DEF Relied
<1> QED
  BY <1>2, <1>3

(* Every step keeps the invariant. *)
LEMMA NextIInv == IInv /\ [Next]_vars => IInv'
<1> SUFFICES ASSUME IInv, [Next]_vars PROVE IInv'
  OBVIOUS
<1>1. CASE Next
  <2>1. PICK p \in Procs : Good(p)
    BY <1>1, NextIsGood
  <2>2. ASSUME NEW q \in Procs \ {p}
        PROVE  Fits(q)' /\ Relied(q)'
    BY <2>1, <2>2, OthersFit, OthersRely DEF Good
  <2> QED
    BY <2>1, <2>2 DEF IInv, Good, Fits
<1>2. CASE UNCHANGED vars
  BY <1>2 DEF vars, IInv, TypeOK, LocksAreHeld, TaskFits, JobFits, PathFits,
              Relied, VisibleState, InTransaction
<1> QED
  BY <1>1, <1>2

-----------------------------------------------------------------------------
(* The theorems. *)

(* IInv is an inductive invariant.                                         *)
THEOREM Invariance == Spec => []IInv
BY InitIInv, NextIInv, PTL DEF Spec

(* Every variable keeps its type.                                          *)
THEOREM TypesAreRight == Spec => []TypeOK
<1>1. IInv => TypeOK
  BY DEF IInv
<1> QED
  BY <1>1, Invariance, PTL

(* While a build runs its provider it alone holds the lease, and its job   *)
(* is in processing or cancelled, whatever other callers do, whichever     *)
(* writes fail and whoever dies (ReviewedAssetPlugin._build_lease).        *)
THEOREM BuildsOwnTheirJobs == Spec => []BuildOwnsItsJob
<1>1. IInv => BuildOwnsItsJob
  BY DEF IInv, BuildOwnsItsJob, LocksAreHeld, TaskFits, Relied, BuildOps
<1> QED
  BY <1>1, Invariance, PTL

(* A completed, failed or cancelled job stays so, whatever callers with    *)
(* older reads do, whichever writes fail and whoever dies                  *)
(* (JobService.transition_path_while_job_locked).                          *)
THEOREM TerminalStatesAreFinal == Spec => TerminalIsFinal
<1>1. ASSUME IInv, [Next]_vars, VisibleState \in Terminal
      PROVE  VisibleState' = VisibleState
  <2>1. CASE Next
    BY <1>1, <2>1, NextIsGood, MovesAreLegal DEF Good
  <2>2. CASE UNCHANGED vars
    BY <2>2 DEF vars, VisibleState, InTransaction
  <2> QED
    BY <1>1, <2>1, <2>2
<1> QED
  BY <1>1, Invariance, PTL DEF Spec, TerminalIsFinal
=============================================================================
