----------------------------- MODULE JobContract -----------------------------
(***************************************************************************)
(* What a job promises to whoever reads it under its lock: every call is   *)
(* one step that moves the job along the allowed transitions and makes     *)
(* exactly the artifacts of that move appear, or nothing happened at all.  *)
(* There are no locks, hooks, rollbacks or callers here.                   *)
(***************************************************************************)
EXTENDS JobModel

VARIABLES state, revision, disk

contractVars == <<state, revision, disk>>

Init ==
    /\ state = "created"
    /\ revision = 1
    /\ disk = {}

(* One saved transition, from an allowed predecessor, with its artifacts. *)
Move(froms, target, published) ==
    /\ state \in froms
    /\ state' = target
    /\ revision' = revision + 1
    /\ disk' = disk \cup published

Before(target) == {s \in States : target \in AllowedTransitions[s]}

Undecided == disk \cap Decisions = {}

(* Planning may pass through "planning" on its way out of "created". *)
Plan == \E target \in {"planning", "waiting_for_provider",
                       "waiting_for_sources"} :
            Move(Before(target) \cup {"created"}, target, {})

(* Sources are handed over once, with the move to waiting_for_sources or,  *)
(* for a job that has been planned, on their own.                          *)
Submit ==
    /\ "submitted" \notin disk
    /\ \/ Move(Before("waiting_for_sources") \cup {"created"},
               "waiting_for_sources", {"submitted"})
       \/ disk' = disk \cup {"submitted"} /\ UNCHANGED <<state, revision>>

Process == Move(Before("processing") \ {"waiting_for_review"}, "processing", {})

(* A job has at most one review candidate. *)
Propose ==
    /\ disk \cap Candidate = {}
    /\ Move({"processing"}, "waiting_for_review", Candidate)

(* The candidate is decided once, while it is under review. *)
Approve ==
    /\ state = "waiting_for_review"
    /\ Undecided
    /\ disk' = disk \cup {"approved"}
    /\ UNCHANGED <<state, revision>>

Reject ==
    /\ Undecided
    /\ Move({"waiting_for_review"}, "failed", {"rejected"})

(* Only an approved candidate is finalized, and completely. *)
Finalize ==
    /\ "approved" \in disk
    /\ disk \cap Final = {}
    /\ Move({"waiting_for_review"}, "completed", Final)

(* A build fails its job only before there is something to review. *)
Fail == Move(Before("failed") \ {"waiting_for_review", "validating"},
             "failed", {})

Cancel == Move(Before("cancelled"), "cancelled", {})

Next ==
    \/ Plan
    \/ Submit
    \/ Process
    \/ Propose
    \/ Approve
    \/ Reject
    \/ Finalize
    \/ Fail
    \/ Cancel

Spec == Init /\ [][Next]_contractVars
=============================================================================
