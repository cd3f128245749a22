------------------------------- MODULE JobModel -------------------------------
(***************************************************************************)
(* What the modules about a job share: its states and the transitions      *)
(* JobService allows, the paths of transitions callers ask for, the        *)
(* artifacts a job leaves on disk, and the events of its log.              *)
(***************************************************************************)
EXTENDS Naturals, Sequences

-----------------------------------------------------------------------------
(* The state machine of a job. *)

States == {"created", "planning", "waiting_for_provider",
           "waiting_for_sources", "processing", "waiting_for_review",
           "validating", "completed", "failed", "cancelled"}

Terminal == {"completed", "failed", "cancelled"}

AllowedTransitions ==
    [created              |-> {"planning", "cancelled"},
     planning             |-> {"waiting_for_provider", "waiting_for_sources",
                               "processing", "failed", "cancelled"},
     waiting_for_provider |-> {"waiting_for_sources", "processing", "failed",
                               "cancelled"},
     waiting_for_sources  |-> {"processing", "failed", "cancelled"},
     processing           |-> {"waiting_for_review", "validating", "failed",
                               "cancelled"},
     waiting_for_review   |-> {"processing", "validating", "failed",
                               "cancelled"},
     validating           |-> {"waiting_for_review", "completed", "failed",
                               "cancelled"},
     completed            |-> {},
     failed               |-> {},
     cancelled            |-> {}]

(* Mutant: a candidate under review may be built over. *)
ClaimableInReview == {"created", "planning", "waiting_for_provider",
                      "waiting_for_sources", "processing", "waiting_for_review"}

(* States a build may claim; "processing" is a build that died. *)
Claimable == {"created", "planning", "waiting_for_provider",
              "waiting_for_sources", "processing"}

(* The states a path enters from s: an element equal to the current state  *)
(* is skipped.  Only the first one can be, in the paths the code builds.   *)
Entered(s, path) == IF Head(path) = s THEN Tail(path) ELSE path

Trail(s, path) == <<s>> \o Entered(s, path)

(* Mutant: the first step is not checked against the state it leaves. *)
LegalAfterFirst(s, path) ==
    /\ Entered(s, path) # <<>>
    /\ \A i \in 2 .. Len(Entered(s, path)) :
          Entered(s, path)[i] \in AllowedTransitions[Trail(s, path)[i]]

(* The path leads somewhere, along transitions of the table only. *)
Legal(s, path) ==
    /\ Entered(s, path) # <<>>
    /\ \A i \in 1 .. Len(Entered(s, path)) :
          Entered(s, path)[i] \in AllowedTransitions[Trail(s, path)[i]]

Target(path) == path[Len(path)]

-----------------------------------------------------------------------------
(* Artifacts of the job on disk, and what each transaction publishes. *)

Candidate  == {"candidate", "snapshot", "candidate_node"}
FinalFiles == {"package", "report", "lineage_file", "bundle"}
Final      == FinalFiles \cup {"export_node"}
Decisions  == {"approved", "rejected"}
Artifacts  == {"submitted"} \cup Candidate \cup Final \cup Decisions

-----------------------------------------------------------------------------
(* The event log. *)

Transition(from, to) == [kind |-> "transition", from |-> from, to |-> to]
Note(kind)           == [kind |-> kind, from |-> "none", to |-> "none"]

NoteKinds == {"created", "sources_submitted", "review_approved",
              "review_rejected", "retry_created"}

Events == {Transition(s, t) : s \in States, t \in States}
          \cup {Note(k) : k \in NoteKinds}

TransitionEvents(s, path) ==
    [i \in 1 .. Len(Entered(s, path)) |->
        Transition(Trail(s, path)[i], Entered(s, path)[i])]
=============================================================================
