------------------------------ MODULE Adapters ------------------------------
(***************************************************************************)
(* How the four adapters of FeCreatorApp (HTTP, MCP, CLI and the event     *)
(* WebSocket) turn an exception of the application into an answer.  Every  *)
(* operation of an adapter is the list of the except clauses around its    *)
(* call, in their order; what none of them takes reaches the boundary of   *)
(* the adapter, and what the boundary does not take escapes: a bare 500, a *)
(* traceback, a tool error without diagnostics.                            *)
(***************************************************************************)
EXTENDS Sequences, SequencesExt

Vias == {"http", "mcp", "cli", "ws"}

(* The classes an except clause naming a base class takes as well. *)
Bases(raised) ==
    {raised} \cup
    CASE raised = "LockTimeoutError"           -> {"OSError"}
      [] raised = "FileNotFoundError"          -> {"OSError"}
      [] raised = "FileExistsError"            -> {"OSError"}
      [] raised = "UnknownReferencePackError"  -> {"FileNotFoundError", "OSError"}
      [] raised = "UnknownParentAssetError"    -> {"FileNotFoundError", "OSError"}
      [] raised = "UnpinnedReferencePackError" -> {"ValueError"}
      [] raised = "JsonlBudgetError"           -> {"ValueError"}
      [] OTHER                                 -> {}

(* An except clause: the classes it names and the diagnostic it reports;   *)
(* "raise" re-raises, "by pack" blames the pack if the manifest names one. *)
On(classes, code) == [on |-> classes, code |-> code]
Takes(clause, raised) == clause.on \cap Bases(raised) # {}

Files   == {"OSError", "PathEscapeError", "ValueError"}
Reading == Files \cup {"FileNotFoundError"}
Moving  == {"InvalidTransitionError"} \cup Files
Deciding == {"ApprovalError", "InvalidTransitionError", "ValueError"}

(* Lock contention is re-raised ahead of the broad OSError clause. *)
Contended(classes, code) ==
    <<On({"LockTimeoutError"}, "raise"), On(classes, code)>>

Corrupt == On({"ReferencePackCorruptionError"}, "CORRUPT_REFERENCE_PACK")
Unknown(code) == On({"FileNotFoundError", "PathEscapeError", "ValueError"}, code)

CreateClauses ==
    <<Corrupt, On({"UnknownReferencePackError"}, "UNKNOWN_REFERENCE_PACK"),
      On({"UnknownParentAssetError"}, "UNKNOWN_LINEAGE")>>
(* Mutant: every file that cannot be read is the pack. *)
PlanClausesBroad ==
    <<On({"OSError"}, "by pack"), Corrupt>> \o Contended(Moving, "PLAN_SOURCES_FAILED")

PlanClauses ==
    <<On({"FileNotFoundError"}, "by pack"), Corrupt>>
        \o Contended(Moving, "PLAN_SOURCES_FAILED")
SubmitClauses ==
    Contended({"FileExistsError", "FileNotFoundError"} \cup Moving, "SUBMIT_SOURCES_FAILED")
BuildClauses ==
    <<Corrupt>> \o Contended({"UnknownIdError"} \cup Moving, "BUILD_ASSET_FAILED")
ValidateJobClauses == Contended({"UnknownIdError"} \cup Files, "VALIDATE_JOB_FAILED")
HistoryClauses == <<Corrupt, Unknown("UNKNOWN_REFERENCE_PACK")>>
PacksClauses ==
    Contended({"ReferencePackCorruptionError"} \cup Files, "CORRUPT_REFERENCE_PACK")
LineageClauses == <<Unknown("UNKNOWN_LINEAGE")>>

-----------------------------------------------------------------------------
(* The lookup of the job a request names, before its operation. *)

HttpKnownJob == Unknown("UNKNOWN_JOB")
(* Mutant: a job that is missing is left to the clauses of the tool. *)
McpKnownJobLoose == On({"PathEscapeError", "ValueError"}, "UNKNOWN_JOB")

McpKnownJob  == Unknown("UNKNOWN_JOB")
CliKnownJob  == Unknown("UNKNOWN_JOB")

(* The operations of an adapter are spread over several tables. *)
Together(tables) ==
    [op \in UNION {DOMAIN table : table \in tables} |->
        (CHOOSE table \in tables : op \in DOMAIN table)[op]]

-----------------------------------------------------------------------------
(* The HTTP routes. *)

HttpLookups ==
    [list_assets    |-> <<>>,
     list_specs     |-> <<>>,
     list_providers |-> <<>>,
     list_jobs      |-> <<>>,
     create_job     |-> CreateClauses,
     get_job        |-> <<>>,
     get_job_candidate |-> <<On({"FileNotFoundError"}, "CANDIDATE_NOT_FOUND")>>,
     list_approval_decisions |-> <<>>]

(* Mutant: contention while planning is an ordinary OSError. *)
HttpSourcesUnguarded ==
    [plan_job_sources |-> <<On({"FileNotFoundError"}, "by pack"), Corrupt,
                            On(Moving, "PLAN_SOURCES_FAILED")>>,
     submit_sources   |-> SubmitClauses]

(* A rejected upload carries its own code. *)
HttpSources ==
    [plan_job_sources |-> PlanClauses,
     submit_sources   |-> <<On({"UploadRejected"}, "UPLOAD_*")>> \o SubmitClauses]

HttpBuilds ==
    [build        |-> BuildClauses,
     validate_job |-> ValidateJobClauses]

HttpReads ==
    [read_job_artifact   |-> Contended(Reading, "READ_ARTIFACT_FAILED"),
     get_job_report      |-> Contended(Reading, "READ_REPORT_FAILED"),
     list_bundle_entries |-> Contended(Reading, "LIST_BUNDLE_FAILED"),
     read_bundle_file    |-> Contended(Reading, "READ_BUNDLE_FILE_FAILED")]

HttpReviews ==
    [approve_review |-> <<On(Deciding, "APPROVE_REVIEW_FAILED")>>,
     reject_review  |-> <<On(Deciding, "REJECT_REVIEW_FAILED")>>,
     finalize_job   |-> Contended({"ApprovalError"} \cup Moving, "FINALIZE_JOB_FAILED"),
     retry_job      |-> <<On(Deciding, "RETRY_JOB_FAILED")>>,
     cancel         |-> <<On({"InvalidTransitionError"}, "CANCEL_JOB_FAILED")>>]

HttpStores ==
    [validate               |-> <<On({"UnknownIdError"}, "UNKNOWN_SPEC")>>,
     list_reference_packs   |-> PacksClauses,
     list_reference_history |-> HistoryClauses,
     get_lineage            |-> LineageClauses,
     list_lineage_ancestors |-> LineageClauses,
     list_lineage_children  |-> LineageClauses]

HttpClauses ==
    Together({HttpLookups, HttpSources, HttpBuilds, HttpReads, HttpReviews, HttpStores})

-----------------------------------------------------------------------------
(* The MCP tools.  The lookup of the job is inside the same try. *)

McpLookups ==
    [list_assets    |-> <<>>,
     list_specs     |-> <<>>,
     list_providers |-> <<>>,
     list_jobs      |-> <<>>,
     create_job     |-> CreateClauses,
     get_job        |-> <<>>,
     get_job_candidate |-> <<On({"FileNotFoundError"}, "CANDIDATE_NOT_FOUND")>>,
     list_approval_decisions |-> <<>>]

McpPlanning ==
    [plan_sources     |-> PlanClauses,
     plan_job_sources |-> PlanClauses]

McpBuilds ==
    [submit_sources |-> SubmitClauses,
     build          |-> BuildClauses,
     validate       |-> <<On({"UnknownIdError"}, "UNKNOWN_SPEC")>>
                            \o Contended(Files, "VALIDATE_ASSET_FAILED"),
     validate_job   |-> ValidateJobClauses]

McpReads ==
    [read_job_artifact   |-> Contended(Reading, "READ_ARTIFACT_FAILED"),
     get_job_report      |-> Contended(Reading, "READ_REPORT_FAILED"),
     list_bundle_entries |-> Contended(Reading, "LIST_BUNDLE_FAILED"),
     read_bundle_file    |-> Contended(Reading, "READ_BUNDLE_FILE_FAILED")]

McpStores ==
    [list_reference_packs   |-> PacksClauses,
     list_reference_history |-> HistoryClauses,
     get_lineage            |-> LineageClauses,
     list_lineage_ancestors |-> LineageClauses,
     list_lineage_children  |-> LineageClauses]

(* Mutant: a refused cancellation is left to whoever called the tool. *)
McpReviewsUncaught ==
    [approve        |-> <<On({"ApprovalError", "ValueError"}, "APPROVE_STAGE_FAILED")>>,
     reject         |-> <<On({"ApprovalError", "ValueError"}, "REJECT_STAGE_FAILED")>>,
     approve_review |-> <<On(Deciding, "APPROVE_REVIEW_FAILED")>>,
     reject_review  |-> <<On(Deciding, "REJECT_REVIEW_FAILED")>>,
     finalize_job   |-> Contended({"ApprovalError"} \cup Moving, "FINALIZE_JOB_FAILED"),
     retry_job      |-> <<On(Deciding, "RETRY_JOB_FAILED")>>,
     cancel         |-> <<>>]

McpReviews ==
    [approve        |-> <<On({"ApprovalError", "ValueError"}, "APPROVE_STAGE_FAILED")>>,
     reject         |-> <<On({"ApprovalError", "ValueError"}, "REJECT_STAGE_FAILED")>>,
     approve_review |-> <<On(Deciding, "APPROVE_REVIEW_FAILED")>>,
     reject_review  |-> <<On(Deciding, "REJECT_REVIEW_FAILED")>>,
     finalize_job   |-> Contended({"ApprovalError"} \cup Moving, "FINALIZE_JOB_FAILED"),
     retry_job      |-> <<On(Deciding, "RETRY_JOB_FAILED")>>,
     cancel         |-> <<On({"InvalidTransitionError"}, "CANCEL_JOB_FAILED")>>]

McpClauses ==
    Together({McpLookups, McpPlanning, McpBuilds, McpReads, McpStores, McpReviews})

-----------------------------------------------------------------------------
(* The commands of the JSON CLI. *)

CliLookups ==
    [list_assets    |-> <<>>,
     list_specs     |-> <<>>,
     list_providers |-> <<>>,
     validate       |-> <<On({"UnknownIdError"}, "UNKNOWN_SPEC")>>,
     create_job     |-> CreateClauses,
     get_job        |-> <<>>,
     list_jobs      |-> <<>>,
     get_job_candidate |-> <<On({"FileNotFoundError"}, "CANDIDATE_NOT_FOUND")>>,
     list_approval_decisions |-> <<>>]

CliJobs ==
    [plan_job_sources    |-> PlanClauses,
     validate_job        |-> ValidateJobClauses,
     read_job_artifact   |-> Contended(Reading, "READ_ARTIFACT_FAILED"),
     get_job_report      |-> Contended(Reading, "READ_REPORT_FAILED"),
     list_bundle_entries |-> Contended(Reading, "LIST_BUNDLE_FAILED"),
     read_bundle_file    |-> Contended(Reading, "READ_BUNDLE_FILE_FAILED")]

(* Mutant: an approval that is refused is reported like a rejection. *)
CliReviewsMixedUp ==
    [approve_review |-> <<On(Deciding, "REJECT_REVIEW_FAILED")>>,
     reject_review  |-> <<On(Deciding, "REJECT_REVIEW_FAILED")>>,
     finalize_job   |-> Contended({"ApprovalError"} \cup Moving, "FINALIZE_JOB_FAILED"),
     retry_job      |-> <<On(Deciding, "RETRY_JOB_FAILED")>>,
     cancel         |-> <<On({"InvalidTransitionError"}, "CANCEL_JOB_FAILED")>>]

CliReviews ==
    [approve_review |-> <<On(Deciding, "APPROVE_REVIEW_FAILED")>>,
     reject_review  |-> <<On(Deciding, "REJECT_REVIEW_FAILED")>>,
     finalize_job   |-> Contended({"ApprovalError"} \cup Moving, "FINALIZE_JOB_FAILED"),
     retry_job      |-> <<On(Deciding, "RETRY_JOB_FAILED")>>,
     cancel         |-> <<On({"InvalidTransitionError"}, "CANCEL_JOB_FAILED")>>]

CliStores ==
    [plan_sources           |-> PlanClauses,
     submit_sources         |-> SubmitClauses,
     build                  |-> BuildClauses,
     list_reference_packs   |-> PacksClauses,
     list_reference_history |-> HistoryClauses,
     get_lineage            |-> LineageClauses,
     list_lineage_ancestors |-> LineageClauses,
     list_lineage_children  |-> LineageClauses]

CliClauses == Together({CliLookups, CliJobs, CliReviews, CliStores})

-----------------------------------------------------------------------------
(* The WebSocket reads the job and its events in one call; its codes are   *)
(* close codes: 1013, 1011 and 1008.                                       *)
WsClauses ==
    [events |-> <<On({"LockTimeoutError"}, "STORE_LOCK_TIMEOUT"),
                  On({"JobCorruptionError"}, "CORRUPT_JOB"),
                  Unknown("UNKNOWN_JOB")>>]

-----------------------------------------------------------------------------
(* The boundary of each adapter: two failures of the stores are mapped     *)
(* once, for every operation.                                              *)

HttpBoundary == <<On({"LockTimeoutError"}, "STORE_LOCK_TIMEOUT"),
                  On({"JobCorruptionError"}, "CORRUPT_JOB")>>
McpBoundary  == <<On({"LockTimeoutError"}, "STORE_LOCK_TIMEOUT"),
                  On({"JobCorruptionError"}, "CORRUPT_JOB")>>
CliBoundary  == <<On({"LockTimeoutError"}, "STORE_LOCK_TIMEOUT"),
                  On({"JobCorruptionError"}, "CORRUPT_JOB")>>

ClausesOf == [http |-> HttpClauses, mcp |-> McpClauses, cli |-> CliClauses,
              ws |-> WsClauses]
Boundary == [http |-> HttpBoundary, mcp |-> McpBoundary, cli |-> CliBoundary,
             ws |-> <<>>]
KnownJob == [http |-> HttpKnownJob, mcp |-> McpKnownJob, cli |-> CliKnownJob]

Offers(via, op) == op \in DOMAIN ClausesOf[via]

(* The code of the first clause that takes the exception. *)
FirstCode(clauses, raised) ==
    LET i == SelectInSeq(clauses, LAMBDA clause : Takes(clause, raised))
    IN  IF i = 0 THEN "raise" ELSE clauses[i].code

(* What a call that raised is answered, and what a lookup is. *)
ThroughBoundary(via, code, raised) ==
    IF code # "raise" THEN code
    ELSE LET last == FirstCode(Boundary[via], raised)
         IN  IF last = "raise" THEN "escaped" ELSE last

CallCode(via, op, raised, packed) ==
    LET code == FirstCode(ClausesOf[via][op], raised)
    IN  ThroughBoundary(via,
            IF code # "by pack" THEN code
            ELSE IF packed THEN "UNKNOWN_REFERENCE_PACK" ELSE "PLAN_SOURCES_FAILED",
            raised)

LookupCode(via, op, raised, packed) ==
    IF Takes(KnownJob[via], raised) THEN KnownJob[via].code
    ELSE IF via = "mcp" THEN CallCode(via, op, raised, packed)
    ELSE ThroughBoundary(via, "raise", raised)
=============================================================================
