------------------------------ MODULE Requests ------------------------------
(***************************************************************************)
(* One request on its way through an adapter, while everybody else goes on *)
(* using the same job and the same stores.  The adapter looks the job up,  *)
(* lets go of its lock, and only then calls the application, so the job    *)
(* that was found may have moved, been damaged or been removed when the    *)
(* call reads it again.  A build is two steps more: it claims the job and, *)
(* after its provider, publishes or fails.                                 *)
(*                                                                         *)
(* Any other call is one step: what interleaves inside it is the subject   *)
(* of JobLifecycle, which shows that each looks atomic.                    *)
(***************************************************************************)
EXTENDS Adapters, JobModel, FiniteSets

CONSTANTS ManualProvider   (* TRUE if the manifest names the provider "manual" *)

ASSUME ProviderOK == ManualProvider \in BOOLEAN

VARIABLES
    state, disk,   (* the job: its state, its artifacts (see JobModel)        *)
    health,        (* of job.json and manifest.json                           *)
    pack,          (* the pack revision the manifest pins                     *)
    parent,        (* the lineage node of the approved base it names          *)
    request        (* the request, and its answer                             *)

world == <<state, disk, health, pack, parent>>
vars  == <<world, request>>

Packs   == {"none", "unpinned", "missing", "damaged", "whole"}
Parents == {"none", "unknown", "damaged", "known"}

(* Requests by what they need: a job, which is looked up first, or not.    *)
StoreOps == DOMAIN HttpStores \cup {"list_assets", "list_specs", "list_providers",
                                    "list_jobs", "create_job", "events"}
(* Only a job persisted before pinning names a pack without a revision. *)
PacksFor(op) ==
    CASE op \in {"plan_sources", "plan_job_sources", "build"} -> Packs
      [] op = "create_job" -> Packs \ {"unpinned"}
      [] op \in {"list_reference_history", "list_reference_packs"} -> {"missing", "damaged", "whole"}
      [] OTHER -> {"none"}
LineageOps == {"get_lineage", "list_lineage_ancestors", "list_lineage_children"}
ParentsFor(op) ==
    CASE op = "create_job"     -> Parents
      [] op \in LineageOps     -> Parents \ {"none"}
      [] OTHER -> {"none"}
NoIdOps == {"list_assets", "list_specs", "list_providers", "list_jobs", "create_job",
            "list_reference_packs"}
BodyOps == {"create_job", "approve_review", "reject_review", "retry_job"}

(* What a caller may get wrong: the id, or the rest of the request.        *)
Offered == {offer \in Vias \X UNION {DOMAIN ClausesOf[via] : via \in Vias} :
                Offers(offer[1], offer[2])}
Inputs(op) == {"good"} \cup (IF op \in NoIdOps THEN {} ELSE {"bad id"})
                       \cup (IF op \in BodyOps THEN {"bad body"} ELSE {})

Refers == pack # "none"
JobMissing == health = "gone"

-----------------------------------------------------------------------------
(* What a job may become, whoever asks. *)

Move(froms, target, published) ==
    /\ state \in froms
    /\ state' = target
    /\ disk' = disk \cup published

Before(target) == {s \in States : target \in AllowedTransitions[s]}
Stays == UNCHANGED <<state, disk>>

SourcesTarget == IF ManualProvider THEN "waiting_for_sources" ELSE "waiting_for_provider"
Reaches(target) == state \in Before(target) \cup {"created", target}
Undecided == disk \cap Decisions = {}
Submittable == Reaches("waiting_for_sources") /\ "submitted" \notin disk

Plan   == \/ state = SourcesTarget /\ Stays
          \/ Move(Before(SourcesTarget) \cup {"created"}, SourcesTarget, {})
Submit == /\ Submittable
          /\ disk' = disk \cup {"submitted"}
          /\ state' = "waiting_for_sources"
(* Others made the job wait between the two reads of the submission. *)
SubmitNothing == state = "waiting_for_sources" /\ Stays
Claim  == Move(Claimable, "processing", {})
Propose == disk \cap Candidate = {} /\ Move({"processing"}, "waiting_for_review", Candidate)
Approve == Undecided /\ Move({"waiting_for_review"}, "waiting_for_review", {"approved"})
Reject  == Undecided /\ Move({"waiting_for_review"}, "failed", {"rejected"})
Finalize == /\ "approved" \in disk
            /\ disk \cap Final = {}
            /\ Move({"waiting_for_review"}, "completed", Final)
Fail   == Move(Claimable, "failed", {})
Cancel == Move(Before("cancelled"), "cancelled", {})

(* _mark_job_failed_if_possible. *)
FailIfPossible == Fail \/ (state \notin Claimable /\ Stays)

-----------------------------------------------------------------------------
(* What the application raises, from the world it finds. *)

(* JobStore.load, and every call that reads the job again. *)
LoadFails ==
    {"LockTimeoutError", "OSError"}
        \cup (IF JobMissing THEN {"FileNotFoundError"} ELSE {})
        \cup (IF health = "damaged" THEN {"JobCorruptionError"} ELSE {})
JobReadable == health = "visible"

(* A transaction of JobService may also find the event log full. *)
Unless(condition, raised) == IF condition THEN {} ELSE {raised}
TransactionFails(legal) ==
    LoadFails \cup {"JsonlBudgetError"} \cup Unless(legal, "InvalidTransitionError")

(* ReferencePackStore.get and latest, behind _reference_pack. *)
PackFails ==
    CASE pack = "none"     -> {}
      [] pack = "unpinned" -> {"UnpinnedReferencePackError"}
      [] pack = "missing"  -> {"UnknownReferencePackError", "LockTimeoutError"}
      [] pack = "damaged"  -> {"ReferencePackCorruptionError", "LockTimeoutError"}
      [] OTHER             -> {"LockTimeoutError"}

(* LineageStore.get. *)
NodeFails ==
    {"LockTimeoutError", "OSError"}
        \cup (IF parent = "unknown" THEN {"FileNotFoundError"} ELSE {})
        \cup (IF parent = "damaged" THEN {"LineageCorruptionError"} ELSE {})

(* _require_known_parent_asset tells a missing base from other files. *)
ParentFails ==
    IF parent = "none" THEN {}
    ELSE {IF raised = "FileNotFoundError" THEN "UnknownParentAssetError" ELSE raised
            : raised \in NodeFails}

CreateFails == PackFails \cup ParentFails
                   \cup {"OSError", "LockTimeoutError"}

PlanFails == TransactionFails(Reaches(SourcesTarget)) \cup PackFails
SubmitFails ==
    TransactionFails(Reaches("waiting_for_sources")) \cup {"ValueError", "FileNotFoundError"}
        \cup (IF "submitted" \in disk THEN {"FileExistsError"} ELSE {})

(* What is read from the directory of the job after JobStore.load. *)
ArtifactFails(present) ==
    LoadFails \cup {"ValueError", "PathEscapeError"} \cup Unless(present, "FileNotFoundError")
CandidateFails ==
    {"LockTimeoutError", "OSError"}
        \cup (IF "snapshot" \in disk /\ ~JobMissing THEN {"CandidateCorruptionError"}
                                                    ELSE {"FileNotFoundError"})
ApprovalsFail ==
    LoadFails \cup (IF Undecided THEN {} ELSE {"ValueError"})
DecisionFails ==
    TransactionFails(state = "waiting_for_review") \cup (IF Undecided THEN {} ELSE {"ApprovalError"})
StageFails == LoadFails \cup {"ApprovalError", "JsonlBudgetError"}

RetryFails ==
    CandidateFails
        \cup TransactionFails(state = "failed" /\ "rejected" \in disk)
        \cup {"InvalidTransitionError"}

FinalizeFails ==
    LoadFails \cup
    IF state # "waiting_for_review" THEN {"InvalidTransitionError"}
    ELSE CandidateFails \cup
         IF "approved" \in disk
         THEN {"BundleError", "LineageCorruptionError", "ExceptionGroup", "ValueError",
               "InvalidTransitionError", "JsonlBudgetError"}
         ELSE {"ApprovalError"}

(* Exceptions of an operation, its malformed inputs aside. *)
Fails(op) ==
    CASE op \in {"plan_sources", "plan_job_sources"} -> PlanFails
      [] op = "submit_sources"          -> SubmitFails
      [] op = "validate_job"            -> LoadFails \cup {"PathEscapeError", "ValueError"}
      [] op = "read_job_artifact"       -> ArtifactFails(disk \cap {"candidate", "package"} # {})
      [] op = "get_job_report"          -> ArtifactFails("report" \in disk)
      [] op \in {"list_bundle_entries", "read_bundle_file"} -> ArtifactFails("bundle" \in disk)
      [] op = "get_job_candidate"       -> CandidateFails
      [] op = "list_approval_decisions" -> ApprovalsFail
      [] op \in {"approve_review", "reject_review"} -> DecisionFails
      [] op \in {"approve", "reject"}   -> DecisionFails \cup StageFails
      [] op = "finalize_job"            -> FinalizeFails
      [] op = "retry_job"               -> RetryFails
      [] op = "cancel"                  -> TransactionFails(state \notin Terminal)
      [] op = "create_job"              -> CreateFails
      [] op = "events"                  -> LoadFails \cup {"ValueError"}
      [] op = "list_jobs"               -> {"LockTimeoutError", "JobCorruptionError", "OSError"}
      [] op = "validate"                -> {"OSError", "PathEscapeError", "ValueError"}
      [] op = "list_reference_packs"    -> {"LockTimeoutError", "OSError"}
                                           \cup (IF pack = "damaged"
                                                 THEN {"ReferencePackCorruptionError"} ELSE {})
      [] op = "list_reference_history"  -> PackFails
      [] op \in LineageOps -> NodeFails
      [] OTHER                          -> {}

(* A malformed input: what it raises instead. *)
BadInput(op, input) ==
    CASE input = "bad id" /\ op = "validate"       -> {"UnknownIdError"}
      [] input = "bad id"                          -> {"PathEscapeError", "ValueError"}
      [] input = "bad body" /\ op = "create_job"   -> {}
      [] input = "bad body"                        -> {"ValueError"}
      [] OTHER                                     -> {}

(* A call that returns, and what it did. *)
Succeeds(op) ==
    CASE op \in {"plan_sources", "plan_job_sources"} ->
            JobReadable /\ pack \in {"none", "whole"} /\ Plan
      [] op = "submit_sources" -> JobReadable /\ (Submit \/ SubmitNothing)
      [] op = "approve_review" -> JobReadable /\ Approve
      [] op = "approve"        -> JobReadable /\ (Approve \/ Stays)
      [] op = "reject_review"  -> JobReadable /\ Reject
      [] op = "reject"         -> JobReadable /\ (Reject \/ Stays)
      [] op = "finalize_job"   -> JobReadable /\ Finalize
      [] op = "retry_job"      -> JobReadable /\ state = "failed" /\ "rejected" \in disk /\ Stays
      [] op = "cancel"         -> JobReadable /\ Cancel
      [] op = "create_job"     -> pack \in {"none", "whole"} /\ parent \in {"none", "known"} /\ Stays
      [] op = "get_job_candidate" -> "snapshot" \in disk /\ ~JobMissing /\ Stays
      [] op = "list_reference_packs" -> pack # "damaged" /\ Stays
      [] op = "list_reference_history" -> pack = "whole" /\ Stays
      [] op \in LineageOps ->
            parent = "known" /\ Stays
      [] op \in {"read_job_artifact", "get_job_report", "list_bundle_entries",
                 "read_bundle_file"} ->
            JobReadable /\ (Fails(op) \cap {"FileNotFoundError"} = {}) /\ Stays
      [] op \in StoreOps \ {"events"} -> Stays
      [] OTHER -> JobReadable /\ Stays

-----------------------------------------------------------------------------
(* The steps of the request. *)

Quiet == "none"
Reset(code, raised, at) ==
    request' = [request EXCEPT !.phase = "answered", !.code = code, !.raised = raised, !.at = at]

AnswerFailure(raised) ==
    Reset(CallCode(request.via, request.op, raised, Refers), raised, "call")

(* A result that is not ok is not an exception: only the CLI tells them    *)
(* apart, by its exit code.                                                *)
AnswerResult(ok) ==
    Reset(IF ok \/ request.via # "cli" THEN "ok" ELSE "exit 2",
          IF ok THEN Quiet ELSE "result not ok", "call")

(* HTTP checks the body of a request before its route runs. *)
InvalidBody ==
    /\ request.phase = "new" /\ request.input = "bad body"
    /\ request.via = "http" \/ request.op = "create_job"
    /\ \E code \in CASE request.via = "http" -> {"INVALID_REQUEST"}
                      [] request.via = "mcp"  -> {"INVALID_MANIFEST"}
                      [] OTHER                -> {"INVALID_MANIFEST", "MANIFEST_NOT_FOUND"} :
          Reset(code, Quiet, "body")
    /\ UNCHANGED world

Lookup ==
    /\ request.phase = "new" /\ request.op \notin StoreOps
    /\ ~(request.via = "http" /\ request.input = "bad body")
    /\ \/ \E raised \in IF request.input = "bad id" THEN BadInput(request.op, "bad id")
                                                    ELSE LoadFails :
            Reset(LookupCode(request.via, request.op, raised, Refers), raised, "lookup")
       \/ /\ JobReadable /\ request.input # "bad id"
          /\ IF request.op = "get_job" THEN Reset("ok", Quiet, "call")
             ELSE request' = [request EXCEPT !.phase = "found"]
    /\ UNCHANGED world

Ready ==
    \/ request.phase = "found"
    \/ request.phase = "new" /\ request.op \in StoreOps /\ request.input # "bad body"

Call ==
    /\ Ready /\ request.op # "build"
    /\ \/ /\ \E raised \in IF request.input = "good" THEN Fails(request.op)
                           ELSE BadInput(request.op, request.input) :
                AnswerFailure(raised)
          /\ Stays
       \/ request.input = "good" /\ Succeeds(request.op) /\ AnswerResult(TRUE)
       \/ /\ request.op = "finalize_job" /\ JobReadable
          /\ state = "waiting_for_review" /\ "snapshot" \in disk /\ "approved" \notin disk
          /\ AnswerResult(FALSE)
          /\ Stays
    /\ UNCHANGED <<health, pack, parent>>

(* ReviewedAssetPlugin._claim_build: under the job lock, a pack or a       *)
(* provider that cannot be had fails the job, and a lock that times out    *)
(* while the pack is read is no exception to that.                         *)
ClaimFails == FailIfPossible

(* A job in "processing" is refused as long as its build lives. *)
ClaimRefused ==
    LoadFails \cup Unless(state \in Claimable \ {"processing"}, "InvalidTransitionError")

Build ==
    /\ Ready /\ request.op = "build"
    /\ \/ /\ \E raised \in ClaimRefused : AnswerFailure(raised)
          /\ Stays
       \/ /\ JobReadable /\ state \in Claimable
          /\ \E raised \in PackFails \cup {"UnknownIdError", "OSError"} : AnswerFailure(raised)
          /\ ClaimFails
       \/ /\ JobReadable /\ pack \in {"none", "whole"}
          /\ Claim
          /\ request' = [request EXCEPT !.phase = "building"]
    /\ UNCHANGED <<health, pack, parent>>

(* The provider has run: the job is marked failed, or the candidate is     *)
(* published, which only a job still in "processing" allows.               *)
Publish ==
    /\ request.phase = "building"
    /\ \/ JobReadable /\ Propose /\ AnswerResult(TRUE)
       \/ JobReadable /\ FailIfPossible /\ AnswerResult(FALSE)
       \/ /\ JobReadable /\ FailIfPossible
          /\ \E raised \in {"ValueError", "OSError"} : AnswerFailure(raised)
       \/ /\ \E raised \in TransactionFails(state = "processing") : AnswerFailure(raised)
          /\ Stays
    /\ UNCHANGED <<health, pack, parent>>

-----------------------------------------------------------------------------
(* Everybody else, as long as the request is open. *)

Others ==
    /\ JobReadable
    /\ Plan \/ Submit \/ Claim \/ Propose \/ Approve \/ Reject \/ Finalize \/ Fail \/ Cancel
    /\ UNCHANGED <<health, pack, parent>>

(* job.json is damaged by something outside FECreator; the operator does   *)
(* what CORRUPT_JOB says and removes the directory.                        *)
Outside ==
    /\ \/ health = "visible" /\ health' = "damaged" /\ UNCHANGED <<pack, parent>>
       \/ health = "damaged" /\ health' = "gone" /\ UNCHANGED <<pack, parent>>
       \/ pack = "missing" /\ pack' = "whole" /\ UNCHANGED <<health, parent>>
       \/ pack = "whole" /\ pack' = "damaged" /\ UNCHANGED <<health, parent>>
       \/ parent = "unknown" /\ parent' = "known" /\ UNCHANGED <<health, pack>>
       \/ parent = "known" /\ parent' \in {"unknown", "damaged"} /\ UNCHANGED <<health, pack>>
    /\ Stays

World ==
    /\ request.phase # "answered"
    /\ Others \/ Outside
    /\ UNCHANGED request

Init ==
    /\ state = "created" /\ disk = {} /\ health = "visible"
    /\ request \in UNION {{[via |-> offer[1], op |-> offer[2], input |-> input, phase |-> "new",
                            code |-> Quiet, raised |-> Quiet, at |-> Quiet]
                             : input \in Inputs(offer[2])} : offer \in Offered}
    /\ pack \in PacksFor(request.op)
    /\ parent \in ParentsFor(request.op)

Steps == InvalidBody \/ Lookup \/ Call \/ Build \/ Publish
Next == Steps \/ World
Spec == Init /\ [][Next]_vars

-----------------------------------------------------------------------------
(* Properties. *)

Answered == request.phase = "answered"
(* docs/v1-contract.md, 10 and 10a: a lock that timed out and a damaged    *)
(* job are told apart from every failure of the operation itself, and from *)
(* each other, by every adapter and in every operation.                    *)
StoreFailuresKeepTheirCode ==
    Answered => /\ request.raised = "LockTimeoutError" <=> request.code = "STORE_LOCK_TIMEOUT"
                /\ request.raised = "JobCorruptionError" <=> request.code = "CORRUPT_JOB"

(* interfaces/errors.py: adapters do not drift apart.  A failure that one  *)
(* adapter reports, another reports with the same code or not at all.      *)
AdaptersAgree ==
    Answered /\ request.at \in {"lookup", "call"} /\ request.raised \notin {Quiet, "result not ok"} =>
        \A via \in {v \in Vias \ {"ws"} : Offers(v, request.op)} :
            LET code == IF request.at = "lookup"
                        THEN LookupCode(via, request.op, request.raised, Refers)
                        ELSE CallCode(via, request.op, request.raised, Refers)
            IN  code = "escaped" \/ request.code = "escaped" \/ code = request.code

(* A refusal of the job (its state, its decision) is always answered; the  *)
(* one exception are the MCP tools for named stages.  A missing file is    *)
(* left to the caller only when a job vanished under the call, or a retry  *)
(* finds no candidate.                                                     *)
RefusalsAreAnswered ==
    request.code = "escaped" =>
        /\ request.raised # "ApprovalError"
        /\ request.raised = "InvalidTransitionError" => request.op \in {"approve", "reject"}
        /\ request.raised = "FileNotFoundError" =>
               JobMissing \/ (request.op = "retry_job" /\ "snapshot" \notin disk)

(* What makes these inductive.  An answer is that of the exception, by the *)
(* clauses of the operation that was asked for, and the pack is named or   *)
(* not as it was then; only what "build" claimed is published.             *)
AnswerIsItsOwn ==
    Answered =>
        \/ /\ request.raised = Quiet
           /\ request.code \in {"INVALID_REQUEST", "INVALID_MANIFEST", "MANIFEST_NOT_FOUND"}
        \/ request.raised \in {Quiet, "result not ok"} /\ request.code \in {"ok", "exit 2"}
        \/ /\ request.at = "call"
           /\ request.code = CallCode(request.via, request.op, request.raised, Refers)
        \/ /\ request.at = "lookup" /\ request.via # "ws"
           /\ request.code = LookupCode(request.via, request.op, request.raised, Refers)

IRequests ==
    /\ DOMAIN request = {"via", "op", "input", "phase", "code", "raised", "at"}
    /\ <<request.via, request.op>> \in Offered /\ request.input \in Inputs(request.op)
    /\ request.op = "list_reference_history" => pack # "unpinned"
    /\ request.phase = "building" => request.op = "build"
    /\ ~Answered => request.code = Quiet /\ request.at = Quiet
    /\ AnswerIsItsOwn
    /\ RefusalsAreAnswered

(* docs/v1-contract.md, 10: only a job that does not exist is unknown, and *)
(* a job that does not exist is never anything else to the lookup.         *)
MissingIsUnknown ==
    [][/\ request'.code = "UNKNOWN_JOB" /\ request.via # "ws" =>
              request.code = "UNKNOWN_JOB" \/ JobMissing \/ request.input = "bad id"
       /\ request'.at = "lookup" /\ request'.raised = "FileNotFoundError" =>
              request'.code = "UNKNOWN_JOB"]_request

(* A pack is blamed only when it is to blame, though a missing file is all *)
(* the adapter sees: or the job itself vanished after it was found.        *)
PackIsRightlyBlamed ==
    [][/\ request'.code = "UNKNOWN_REFERENCE_PACK" =>
              pack = "missing" \/ JobMissing \/ request.input = "bad id"
       /\ request'.code = "CORRUPT_REFERENCE_PACK" =>
              pack = "damaged" \/ request.op = "list_reference_packs"]_request

(* interfaces/errors.py says of a lock timeout: "retry the request         *)
(* shortly".  The request that is told so did not end the job.             *)
RetryIsPossible ==
    [][request'.code = "STORE_LOCK_TIMEOUT" /\ request.code # "STORE_LOCK_TIMEOUT" =>
           state' \notin Terminal \/ state' = state]_vars
=============================================================================
