---------------------------- MODULE JobInvariant ----------------------------
(***************************************************************************)
(* The inductive invariant of JobLifecycle: who holds the locks, what the  *)
(* transaction of a caller may be, how it relates to job.json while it is  *)
(* open, and what a pending build or finalization may rely on.             *)
(***************************************************************************)
EXTENDS JobProperties

Transacting == {"hook", "save", "append", "undo"}

(* The states an operation may still have to enter.                        *)
Plans(op) ==
    CASE op \in {"plan", "submit"} ->
            {<<>>, <<"waiting_for_provider">>, <<"waiting_for_sources">>,
             <<"planning", "waiting_for_provider">>,
             <<"planning", "waiting_for_sources">>}
      [] op = "build" ->
            {<<>>, <<"processing">>, <<"planning", "processing">>}
      [] op \in {"claim_failed", "mark_failed"} ->
            {<<>>, <<"failed">>, <<"planning", "failed">>}
      [] op = "publish" ->
            {<<>>, <<"waiting_for_review">>,
             <<"processing", "waiting_for_review">>,
             <<"planning", "processing", "waiting_for_review">>}
      [] op = "reject"   -> {<<"failed">>}
      [] op = "cancel"   -> {<<"cancelled">>}
      [] op = "finalize" -> {<<>>, <<"validating", "completed">>}
      [] OTHER           -> {<<>>}

(* The job lock is held exactly by the caller whose transaction is open,   *)
(* the build lease exactly by the caller that is past acquiring it.        *)
LocksAreHeld ==
    \A p \in Procs :
        /\ lock = p <=> pc[p] \in Transacting
        /\ lease = p <=> task[p].op \in BuildOps /\ pc[p] # "lease"

(* A caller's task fits the place it has reached.                          *)
TaskFits(p) ==
    /\ task[p].plan \in Plans(task[p].op)
    /\ pc[p] = "idle" => task[p] = NoTask
    /\ pc[p] \in {"lease", "provider"} => task[p].op = "build"
    /\ pc[p] = "approval" => task[p].op = "finalize"
    /\ pc[p] = "hook" => task[p].todo # <<>>
    /\ pc[p] = "save" => task[p].plan # <<>>
    /\ task[p].done # {} => pc[p] \in Transacting
    /\ "child" \in task[p].done => children > 0

(* What job.json may be at this point of an open transaction.              *)
JobFits(p) ==
    /\ pc[p] \in {"hook", "save"} =>
          ~task[p].saved /\ state = task[p].prev.state
    /\ pc[p] = "append" =>
          /\ task[p].saved <=> task[p].plan # <<>>
          /\ state = IF task[p].saved THEN SavedState(task[p])
                                      ELSE task[p].prev.state
    /\ pc[p] = "undo" =>
          /\ task[p].saved => task[p].plan # <<>>
          /\ state # task[p].prev.state =>
                task[p].plan # <<>> /\ state = SavedState(task[p])

(* An open transaction goes along the table, a rejection from review only, *)
(* a claim from a claimable state, and none takes a job back from review   *)
(* to processing.                                                          *)
PathFits(p) ==
    pc[p] \in Transacting =>
        /\ task[p].plan # <<>> =>
              /\ Legal(task[p].prev.state, FirstPath(task[p].op, task[p].plan))
              /\ SavedState(task[p]) = "processing" =>
                    task[p].prev.state # "waiting_for_review"
        /\ task[p].op = "reject" => task[p].prev.state = "waiting_for_review"
        /\ task[p].op = "build" =>
              task[p].plan # <<>> /\ task[p].prev.state \in Claimable

(* A pending finalization has seen the job in review, which it leaves only *)
(* for good; a build that runs its provider finds its job as it left it,   *)
(* or cancelled.                                                           *)
Relied(p) ==
    /\ task[p].op = "finalize" /\ pc[p] \in {"approval", "lock"} \cup Transacting =>
          VisibleState \in {"waiting_for_review"} \cup Terminal
    /\ pc[p] = "provider" => VisibleState \in {"processing", "cancelled"}

IInv ==
    /\ TypeOK
    /\ LocksAreHeld
    /\ \A p \in Procs : TaskFits(p) /\ JobFits(p) /\ PathFits(p) /\ Relied(p)
=============================================================================
