---------------------------- MODULE JobProperties ----------------------------
(***************************************************************************)
(* What must hold of a job whatever its callers do, and the mapping of the *)
(* detailed job onto its contract.                                         *)
(***************************************************************************)
EXTENDS JobLifecycle

-----------------------------------------------------------------------------
(* What a reader that takes the job lock can see: while a transaction is   *)
(* open, the job before it.                                                *)

InTransaction == lock # Nobody

VisibleState ==
    IF InTransaction /\ task[lock].saved THEN task[lock].prev.state ELSE state

VisibleRevision ==
    IF InTransaction /\ task[lock].saved THEN task[lock].prev.revision
                                         ELSE revision

VisibleDisk == IF InTransaction THEN disk \ task[lock].done ELSE disk

Contract == INSTANCE JobContract WITH
                state <- VisibleState,
                revision <- VisibleRevision,
                disk <- VisibleDisk

(* Every call is atomic to whoever honours the job lock: a job with all    *)
(* its interleavings, reads gone stale and rollbacks is a job of the       *)
(* contract.                                                               *)
CallsAreAtomic == Contract!Spec

-----------------------------------------------------------------------------
(* While a build runs its provider without the job lock, it alone holds    *)
(* the lease, and no other call takes the job anywhere but to cancellation:*)
(* a plan or a submission chosen from a stale read cannot move it back.    *)
BuildOwnsItsJob ==
    \A p \in Procs :
        pc[p] = "provider" =>
            /\ lease = p
            /\ \A q \in Procs \ {p} : pc[q] # "provider"
            /\ VisibleState \in {"processing", "cancelled"}

(* A completed job has its whole publication: package, report, lineage,    *)
(* bundle and export node, whatever failed and whoever died meanwhile.     *)
CompletionIsWhole == VisibleState = "completed" => Final \subseteq disk

(* The same of the candidate of a job under review or completed: no crash  *)
(* of a call between two of its writes leaves a state without its files.   *)
StateIsBacked ==
    /\ CompletionIsWhole
    /\ VisibleState \in {"waiting_for_review", "completed"} =>
          Candidate \subseteq disk

(* A completed job was approved: the approval is on record.  finalize_job  *)
(* reads it outside the job lock, long before it publishes.                *)
OnlyApprovedCompletes == VisibleState = "completed" => "approved" \in disk

(* A completed, failed or cancelled job never changes again: a late        *)
(* provider result, a stale plan or a finalization that lost the race does *)
(* not revive it.                                                          *)
TerminalIsFinal ==
    [][(VisibleState \in Terminal) => (VisibleState' = VisibleState)]_vars

-----------------------------------------------------------------------------
(* The event log against the rest of the job. *)

IsTransition(e) == e.kind = "transition"
HasNote(kind) == \E i \in 1 .. Len(log) : log[i].kind = kind
HasReached(s) == \E i \in 1 .. Len(log) : log[i].to = s

(* The target of the last transition logged before position i. *)
LoggedState(i) ==
    LET before == {j \in 1 .. i : IsTransition(log[j])}
    IN  IF before = {} THEN "created"
        ELSE log[CHOOSE j \in before : \A k \in before : k <= j].to

(* Between transactions the event log replays to the state of the job:     *)
(* each transition starts where the previous one ended, and the last one   *)
(* ends in the state on disk, also after failed calls were compensated.    *)
LogReplaysToState ==
    ~InTransaction =>
        /\ LoggedState(Len(log)) = state
        /\ \A i \in 1 .. Len(log) :
              IsTransition(log[i]) => log[i].from = LoggedState(i - 1)

Together(S) == S \subseteq disk \/ S \cap disk = {}

(* Between transactions the candidate and the final publication are each   *)
(* there completely or not at all: a publication that failed halfway has   *)
(* been rolled back, in the job and in the lineage.                        *)
OutputsAreWhole == ~InTransaction => Together(Candidate) /\ Together(Final)

(* Between transactions there is no trace of a call that failed: each      *)
(* group of artifacts is there completely, exactly when the log says that  *)
(* the call that publishes it succeeded.                                   *)
FailedCallsLeaveNoTrace ==
    ~InTransaction =>
        /\ OutputsAreWhole
        /\ "candidate" \in disk <=> HasReached("waiting_for_review")
        /\ "package" \in disk <=> HasReached("completed")
        /\ "submitted" \in disk <=> HasNote("sources_submitted")
        /\ "approved" \in disk <=> HasNote("review_approved")
        /\ "rejected" \in disk <=> HasNote("review_rejected")
        /\ children > 0 <=> HasNote("retry_created")

(* Approval and rejection exclude each other and agree with the state: a   *)
(* rejected job has failed and an approved one never fails, although the   *)
(* build that proposed it, the reviewers and the finalization act on reads *)
(* made at different times.                                                *)
DecisionAgreesWithState ==
    ~InTransaction =>
        /\ "rejected" \in disk => state = "failed" /\ "approved" \notin disk
        /\ "approved" \in disk =>
              state \in {"waiting_for_review", "completed", "cancelled"}

(* A rejected job is retried once, however many callers ask. *)
RetriedOnce == children <= 1

(* A processing job that no build works on can be built again: nothing of  *)
(* an earlier attempt stands where the next candidate goes.                *)
StrandedIsRebuildable ==
    (state = "processing" /\ lock = Nobody /\ lease = Nobody) =>
        disk \cap Candidate = {}

(* A caller whose submission was accepted has its files in submitted/. *)
AcceptedSourcesAreKept == \A p \in accepted : submitter = p

-----------------------------------------------------------------------------
(* Every call comes back, and with it the job lock and the build lease:    *)
(* whatever others hold or however they die, nobody waits beyond its       *)
(* deadline and nothing is held by a caller that has no call under way.    *)
Released(p) == pc[p] = "idle" /\ lock # p /\ lease # p

EveryCallReturns == \A p \in Procs : ~Released(p) ~> Released(p)
=============================================================================
