--------------------------- MODULE Requests_proofs ---------------------------
(***************************************************************************)
(* That the failures of a store keep their codes in every adapter, that    *)
(* two adapters do not report one failure by two codes, that a refusal is  *)
(* answered, and that a job or a pack is blamed only when it is to blame.  *)
(*                                                                         *)
(* First the tables of except clauses are read, once: what each operation  *)
(* makes of an exception (Reported), whichever adapter offers it.  Then    *)
(* what the application may raise, and last the steps of a request.        *)
(***************************************************************************)
EXTENDS Requests, SequenceTheorems, TLAPS

-----------------------------------------------------------------------------
(* What a list of except clauses makes of an exception. *)

(* A class is a base of an exception for one of these reasons.             *)
LEMMA BasesAre ==
  ASSUME NEW raised, NEW class
  PROVE class \in Bases(raised) <=>
          \/ class = raised
          \/ /\ class = "OSError"
             /\ raised \in {"LockTimeoutError", "FileNotFoundError", "FileExistsError",
                            "UnknownReferencePackError", "UnknownParentAssetError"}
          \/ /\ class = "FileNotFoundError"
             /\ raised \in {"UnknownReferencePackError", "UnknownParentAssetError"}
          \/ /\ class = "ValueError"
             /\ raised \in {"UnpinnedReferencePackError", "JsonlBudgetError"}
BY Zenon DEF Bases

(* The exceptions an except clause that names these classes takes.         *)
Caught(classes) ==
    classes \cup
    (IF "OSError" \in classes
     THEN {"LockTimeoutError", "FileNotFoundError", "FileExistsError",
           "UnknownReferencePackError", "UnknownParentAssetError"} ELSE {}) \cup
    (IF "FileNotFoundError" \in classes
     THEN {"UnknownReferencePackError", "UnknownParentAssetError"} ELSE {}) \cup
    (IF "ValueError" \in classes
     THEN {"UnpinnedReferencePackError", "JsonlBudgetError"} ELSE {})

(* A clause takes what it catches, and reports its code.                   *)
LEMMA ClauseTakes ==
  ASSUME NEW classes, NEW code, NEW raised
  PROVE  /\ Takes(On(classes, code), raised) <=> raised \in Caught(classes)
         /\ On(classes, code).code = code
BY BasesAre DEF Takes, On, Caught

(* The least element of a set of numbers.                                  *)
LEMMA LeastIs ==
  ASSUME NEW S \in SUBSET Nat, NEW n \in S, \A m \in S : n <= m
  PROVE  Min(S) = n
<1>1. \A x \in S : (\A y \in S : x =< y) => x = n
  OBVIOUS
<1>2. \E x \in S : \A y \in S : x =< y
  OBVIOUS
<1> QED BY <1>1, <1>2 DEF Min

(* The first clause that takes an exception decides its code.              *)
LEMMA FirstTaker ==
  ASSUME NEW s, Len(s) \in Nat, NEW raised, NEW n \in 1 .. Len(s), Takes(s[n], raised),
         \A m \in 1 .. n - 1 : ~Takes(s[m], raised)
  PROVE  FirstCode(s, raised) = s[n].code
<1> DEFINE T == {i \in 1 .. Len(s) : Takes(s[i], raised)}
<1>1. n \in T /\ \A m \in T : n <= m
  OBVIOUS
<1>2. T \in SUBSET Nat
  OBVIOUS
<1>3. Min(T) = n
  BY <1>1, <1>2, LeastIs
<1>4. FirstCode(s, raised) =
        LET i == IF T # {} THEN Min(T) ELSE 0 IN IF i = 0 THEN "raise" ELSE s[i].code
  BY Zenon DEF FirstCode, SelectInSeq
<1> QED BY <1>1, <1>3, <1>4

LEMMA NoTaker ==
  ASSUME NEW s, NEW raised, \A m \in 1 .. Len(s) : ~Takes(s[m], raised)
  PROVE  FirstCode(s, raised) = "raise"
BY DEF FirstCode, SelectInSeq

(* Lists of none to four clauses, read in their order.                     *)
LEMMA OfNone ==
  ASSUME NEW raised
  PROVE  FirstCode(<<>>, raised) = "raise"
BY NoTaker

LEMMA OfOne ==
  ASSUME NEW raised, NEW a
  PROVE  FirstCode(<<a>>, raised) = IF Takes(a, raised) THEN a.code ELSE "raise"
<1> DEFINE s == <<a>>
<1>1. Len(s) = 1 /\ s[1] = a
  OBVIOUS
<1> HIDE DEF s
<1>2. CASE Takes(a, raised)
  <2>1. FirstCode(s, raised) = s[1].code
    BY <1>1, <1>2, FirstTaker
  <2> QED BY <2>1, <1>1, <1>2 DEF s
<1>3. CASE ~Takes(a, raised)
  <2>1. FirstCode(s, raised) = "raise"
    BY <1>1, <1>3, NoTaker
  <2> QED BY <2>1, <1>3 DEF s
<1> QED BY <1>2, <1>3

LEMMA OfTwo ==
  ASSUME NEW raised, NEW s, NEW a, NEW b, Len(s) = 2, s[1] = a, s[2] = b
  PROVE  FirstCode(s, raised) =
           IF Takes(a, raised) THEN a.code ELSE IF Takes(b, raised) THEN b.code ELSE "raise"
<1>1. CASE Takes(a, raised)
  BY <1>1, FirstTaker
<1>2. CASE ~Takes(a, raised) /\ Takes(b, raised)
  BY <1>2, FirstTaker
<1>3. CASE ~Takes(a, raised) /\ ~Takes(b, raised)
  BY <1>3, NoTaker
<1> QED BY <1>1, <1>2, <1>3

LEMMA OfThree ==
  ASSUME NEW raised, NEW s, NEW a, NEW b, NEW c, Len(s) = 3, s[1] = a, s[2] = b, s[3] = c
  PROVE  FirstCode(s, raised) =
           IF Takes(a, raised) THEN a.code
           ELSE IF Takes(b, raised) THEN b.code
           ELSE IF Takes(c, raised) THEN c.code ELSE "raise"
<1>1. CASE Takes(a, raised)
  BY <1>1, FirstTaker
<1>2. CASE ~Takes(a, raised) /\ Takes(b, raised)
  BY <1>2, FirstTaker
<1>3. CASE ~Takes(a, raised) /\ ~Takes(b, raised) /\ Takes(c, raised)
  <2>1. \A m \in 1 .. 3 - 1 : m = 1 \/ m = 2
    OBVIOUS
  <2> QED BY <2>1, <1>3, FirstTaker
<1>4. CASE ~Takes(a, raised) /\ ~Takes(b, raised) /\ ~Takes(c, raised)
  <2>1. \A m \in 1 .. 3 : m = 1 \/ m = 2 \/ m = 3
    OBVIOUS
  <2> QED BY <2>1, <1>4, NoTaker
<1> QED BY <1>1, <1>2, <1>3, <1>4

LEMMA OfFour ==
  ASSUME NEW raised, NEW s, NEW a, NEW b, NEW c, NEW d,
         Len(s) = 4, s[1] = a, s[2] = b, s[3] = c, s[4] = d
  PROVE  FirstCode(s, raised) =
           IF Takes(a, raised) THEN a.code
           ELSE IF Takes(b, raised) THEN b.code
           ELSE IF Takes(c, raised) THEN c.code
           ELSE IF Takes(d, raised) THEN d.code ELSE "raise"
<1>1. CASE Takes(a, raised)
  BY <1>1, FirstTaker
<1>2. CASE ~Takes(a, raised) /\ Takes(b, raised)
  BY <1>2, FirstTaker
<1>3. CASE ~Takes(a, raised) /\ ~Takes(b, raised) /\ Takes(c, raised)
  <2>1. \A m \in 1 .. 3 - 1 : m = 1 \/ m = 2
    OBVIOUS
  <2> QED BY <2>1, <1>3, FirstTaker
<1>4. CASE ~Takes(a, raised) /\ ~Takes(b, raised) /\ ~Takes(c, raised) /\ Takes(d, raised)
  <2>1. \A m \in 1 .. 4 - 1 : m = 1 \/ m = 2 \/ m = 3
    OBVIOUS
  <2> QED BY <2>1, <1>4, FirstTaker
<1>5. CASE ~Takes(a, raised) /\ ~Takes(b, raised) /\ ~Takes(c, raised) /\ ~Takes(d, raised)
  <2>1. \A m \in 1 .. 4 : m = 1 \/ m = 2 \/ m = 3 \/ m = 4
    OBVIOUS
  <2> QED BY <2>1, <1>5, NoTaker
<1> QED BY <1>1, <1>2, <1>3, <1>4, <1>5

(* Lists written as two, one after the other.                              *)
LEMMA OneAndTwo ==
  ASSUME NEW a, NEW b, NEW c
  PROVE  LET s == <<a>> \o <<b, c>>
         IN  Len(s) = 3 /\ s[1] = a /\ s[2] = b /\ s[3] = c
<1> DEFINE s == <<a>> t == <<b, c>> E == {a, b, c}
<1>1. s \in Seq(E) /\ t \in Seq(E) /\ Len(s) = 1 /\ Len(t) = 2
  OBVIOUS
<1>2. /\ Len(s \o t) = 3
      /\ \A i \in 1 .. 3 : (s \o t)[i] = IF i <= 1 THEN s[i] ELSE t[i - 1]
  BY <1>1, ConcatProperties
<1> QED BY <1>2

LEMMA TwoAndTwo ==
  ASSUME NEW a, NEW b, NEW c, NEW d
  PROVE  LET s == <<a, b>> \o <<c, d>>
         IN  Len(s) = 4 /\ s[1] = a /\ s[2] = b /\ s[3] = c /\ s[4] = d
<1> DEFINE s == <<a, b>> t == <<c, d>> E == {a, b, c, d}
<1>1. s \in Seq(E) /\ t \in Seq(E) /\ Len(s) = 2 /\ Len(t) = 2
  OBVIOUS
<1>2. /\ Len(s \o t) = 4
      /\ \A i \in 1 .. 4 : (s \o t)[i] = IF i <= 2 THEN s[i] ELSE t[i - 2]
  BY <1>1, ConcatProperties
<1> QED BY <1>2

(* The code an operation reports for an exception, list by list; "raise"   *)
(* leaves it to the boundary of the adapter.                               *)
LEMMA OneClause ==
  ASSUME NEW classes, NEW code, NEW raised
  PROVE  FirstCode(<<On(classes, code)>>, raised) =
           IF raised \in Caught(classes) THEN code ELSE "raise"
BY OfOne, ClauseTakes

LEMMA ContendedClauses ==
  ASSUME NEW classes, NEW code, NEW raised
  PROVE  FirstCode(Contended(classes, code), raised) =
           IF raised \in Caught(classes) \ {"LockTimeoutError"} THEN code ELSE "raise"
<1> DEFINE s == Contended(classes, code)
<1>1. /\ Len(s) = 2
      /\ s[1] = On({"LockTimeoutError"}, "raise") /\ s[2] = On(classes, code)
  BY DEF Contended
<1>2. raised \in Caught({"LockTimeoutError"}) <=> raised = "LockTimeoutError"
  BY DEF Caught
<1> HIDE DEF s
<1>3. FirstCode(s, raised) =
        IF Takes(s[1], raised) THEN s[1].code
        ELSE IF Takes(s[2], raised) THEN s[2].code ELSE "raise"
  BY <1>1, OfTwo
<1>4. FirstCode(s, raised) =
        IF raised \in Caught({"LockTimeoutError"}) THEN "raise"
        ELSE IF raised \in Caught(classes) THEN code ELSE "raise"
  BY <1>1, <1>3, ClauseTakes
<1> QED BY <1>2, <1>4 DEF s

LEMMA HistoryCodes ==
  ASSUME NEW raised
  PROVE  FirstCode(HistoryClauses, raised) =
           IF raised = "ReferencePackCorruptionError" THEN "CORRUPT_REFERENCE_PACK"
           ELSE IF raised \in Caught({"FileNotFoundError", "PathEscapeError", "ValueError"})
           THEN "UNKNOWN_REFERENCE_PACK" ELSE "raise"
<1>1. FirstCode(HistoryClauses, raised) =
        IF Takes(Corrupt, raised) THEN Corrupt.code
        ELSE IF Takes(Unknown("UNKNOWN_REFERENCE_PACK"), raised)
        THEN Unknown("UNKNOWN_REFERENCE_PACK").code ELSE "raise"
  BY OfTwo DEF HistoryClauses
<1>2. raised \in Caught({"ReferencePackCorruptionError"})
        <=> raised = "ReferencePackCorruptionError"
  BY DEF Caught
<1> QED BY <1>1, <1>2, ClauseTakes DEF Corrupt, Unknown

LEMMA CreateCodes ==
  ASSUME NEW raised
  PROVE  FirstCode(CreateClauses, raised) =
           IF raised = "ReferencePackCorruptionError" THEN "CORRUPT_REFERENCE_PACK"
           ELSE IF raised = "UnknownReferencePackError" THEN "UNKNOWN_REFERENCE_PACK"
           ELSE IF raised = "UnknownParentAssetError" THEN "UNKNOWN_LINEAGE" ELSE "raise"
<1> DEFINE a == Corrupt
           b == On({"UnknownReferencePackError"}, "UNKNOWN_REFERENCE_PACK")
           c == On({"UnknownParentAssetError"}, "UNKNOWN_LINEAGE")
<1>1. FirstCode(CreateClauses, raised) =
        IF Takes(a, raised) THEN a.code
        ELSE IF Takes(b, raised) THEN b.code
        ELSE IF Takes(c, raised) THEN c.code ELSE "raise"
  BY OfThree DEF CreateClauses
<1>2. /\ raised \in Caught({"ReferencePackCorruptionError"})
           <=> raised = "ReferencePackCorruptionError"
      /\ raised \in Caught({"UnknownReferencePackError"}) <=> raised = "UnknownReferencePackError"
      /\ raised \in Caught({"UnknownParentAssetError"}) <=> raised = "UnknownParentAssetError"
  BY DEF Caught
<1> QED BY <1>1, <1>2, ClauseTakes DEF Corrupt

LEMMA PlanCodes ==
  ASSUME NEW raised
  PROVE  FirstCode(PlanClauses, raised) =
           IF raised \in Caught({"FileNotFoundError"}) THEN "by pack"
           ELSE IF raised = "ReferencePackCorruptionError" THEN "CORRUPT_REFERENCE_PACK"
           ELSE IF raised \in Caught(Moving) \ {"LockTimeoutError"}
           THEN "PLAN_SOURCES_FAILED" ELSE "raise"
<1> DEFINE a == On({"FileNotFoundError"}, "by pack")
           b == Corrupt
           c == On({"LockTimeoutError"}, "raise")
           d == On(Moving, "PLAN_SOURCES_FAILED")
<1>1. /\ Len(PlanClauses) = 4 /\ PlanClauses[1] = a /\ PlanClauses[2] = b
      /\ PlanClauses[3] = c /\ PlanClauses[4] = d
  BY TwoAndTwo DEF PlanClauses, Contended
<1>2. FirstCode(PlanClauses, raised) =
        IF Takes(a, raised) THEN a.code
        ELSE IF Takes(b, raised) THEN b.code
        ELSE IF Takes(c, raised) THEN c.code
        ELSE IF Takes(d, raised) THEN d.code ELSE "raise"
  BY <1>1, OfFour
<1>3. /\ raised \in Caught({"ReferencePackCorruptionError"})
           <=> raised = "ReferencePackCorruptionError"
      /\ raised \in Caught({"LockTimeoutError"}) <=> raised = "LockTimeoutError"
  BY DEF Caught
<1> QED BY <1>2, <1>3, ClauseTakes DEF Corrupt

(* A clause and a pair of them that lets contention through.               *)
LEMMA OneThenContended ==
  ASSUME NEW first, NEW code, NEW classes, NEW other, NEW raised
  PROVE  FirstCode(<<On(first, code)>> \o Contended(classes, other), raised) =
           IF raised \in Caught(first) THEN code
           ELSE IF raised \in Caught(classes) \ {"LockTimeoutError"} THEN other ELSE "raise"
<1> DEFINE a == On(first, code)
           b == On({"LockTimeoutError"}, "raise")
           c == On(classes, other)
           s == <<a>> \o Contended(classes, other)
<1>1. Len(s) = 3 /\ s[1] = a /\ s[2] = b /\ s[3] = c
  BY OneAndTwo DEF Contended
<1>2. raised \in Caught({"LockTimeoutError"}) <=> raised = "LockTimeoutError"
  BY DEF Caught
<1>3. /\ Takes(a, raised) <=> raised \in Caught(first)
      /\ Takes(b, raised) <=> raised = "LockTimeoutError"
      /\ Takes(c, raised) <=> raised \in Caught(classes)
      /\ a.code = code /\ b.code = "raise" /\ c.code = other
  BY <1>2, ClauseTakes
<1> HIDE DEF s, a, b, c
<1>4. FirstCode(s, raised) =
        IF Takes(a, raised) THEN a.code
        ELSE IF Takes(b, raised) THEN b.code
        ELSE IF Takes(c, raised) THEN c.code ELSE "raise"
  BY <1>1, OfThree
<1> QED BY <1>3, <1>4 DEF s, a

LEMMA BuildCodes ==
  ASSUME NEW raised
  PROVE  FirstCode(BuildClauses, raised) =
           IF raised = "ReferencePackCorruptionError" THEN "CORRUPT_REFERENCE_PACK"
           ELSE IF raised \in Caught({"UnknownIdError"} \cup Moving) \ {"LockTimeoutError"}
           THEN "BUILD_ASSET_FAILED" ELSE "raise"
<1>1. raised \in Caught({"ReferencePackCorruptionError"})
        <=> raised = "ReferencePackCorruptionError"
  BY DEF Caught
<1> QED BY <1>1, OneThenContended DEF BuildClauses, Corrupt

LEMMA EventCodes ==
  ASSUME NEW raised
  PROVE  FirstCode(WsClauses["events"], raised) =
           IF raised = "LockTimeoutError" THEN "STORE_LOCK_TIMEOUT"
           ELSE IF raised = "JobCorruptionError" THEN "CORRUPT_JOB"
           ELSE IF raised \in Caught({"FileNotFoundError", "PathEscapeError", "ValueError"})
           THEN "UNKNOWN_JOB" ELSE "raise"
<1> DEFINE a == On({"LockTimeoutError"}, "STORE_LOCK_TIMEOUT")
           b == On({"JobCorruptionError"}, "CORRUPT_JOB")
           c == Unknown("UNKNOWN_JOB")
<1>1. FirstCode(WsClauses["events"], raised) =
        IF Takes(a, raised) THEN a.code
        ELSE IF Takes(b, raised) THEN b.code
        ELSE IF Takes(c, raised) THEN c.code ELSE "raise"
  BY OfThree DEF WsClauses
<1>2. /\ raised \in Caught({"LockTimeoutError"}) <=> raised = "LockTimeoutError"
      /\ raised \in Caught({"JobCorruptionError"}) <=> raised = "JobCorruptionError"
  BY DEF Caught
<1> QED BY <1>1, <1>2, ClauseTakes DEF Unknown

(* The boundary of every adapter but the WebSocket maps two exceptions.    *)
LEMMA BoundaryCodes ==
  ASSUME NEW via \in Vias, NEW raised
  PROVE  FirstCode(Boundary[via], raised) =
           IF via = "ws" THEN "raise"
           ELSE IF raised = "LockTimeoutError" THEN "STORE_LOCK_TIMEOUT"
           ELSE IF raised = "JobCorruptionError" THEN "CORRUPT_JOB" ELSE "raise"
<1> DEFINE a == On({"LockTimeoutError"}, "STORE_LOCK_TIMEOUT")
           b == On({"JobCorruptionError"}, "CORRUPT_JOB")
<1>1. Boundary[via] = IF via = "ws" THEN <<>> ELSE <<a, b>>
  BY DEF Boundary, Vias, HttpBoundary, McpBoundary, CliBoundary
<1>2. FirstCode(<<a, b>>, raised) =
        IF Takes(a, raised) THEN a.code ELSE IF Takes(b, raised) THEN b.code ELSE "raise"
  BY OfTwo
<1>3. /\ raised \in Caught({"LockTimeoutError"}) <=> raised = "LockTimeoutError"
      /\ raised \in Caught({"JobCorruptionError"}) <=> raised = "JobCorruptionError"
  BY DEF Caught
<1> QED BY <1>1, <1>2, <1>3, OfNone, ClauseTakes

-----------------------------------------------------------------------------
(* What an operation reports, whichever adapter offers it. *)

Reports(raised, classes, code, reported) ==
    reported = IF raised \in Caught(classes) THEN code ELSE "raise"
ReportsButContention(raised, classes, code, reported) ==
    reported = IF raised \in Caught(classes) \ {"LockTimeoutError"} THEN code ELSE "raise"

SilentOps == {"list_assets", "list_specs", "list_providers", "list_jobs", "get_job",
              "list_approval_decisions"}
Submitting == {"FileExistsError", "FileNotFoundError"} \cup Moving

ReportedLookup(op, raised, code) ==
    \/ op \in SilentOps /\ code = "raise"
    \/ op = "create_job" /\ code = FirstCode(CreateClauses, raised)
    \/ /\ op = "get_job_candidate"
       /\ Reports(raised, {"FileNotFoundError"}, "CANDIDATE_NOT_FOUND", code)
ReportedSources(op, raised, code) ==
    \/ op \in {"plan_sources", "plan_job_sources"} /\ code = FirstCode(PlanClauses, raised)
    \/ /\ op = "submit_sources"
       /\ \/ ReportsButContention(raised, Submitting, "SUBMIT_SOURCES_FAILED", code)
          \/ raised = "UploadRejected" /\ code = "UPLOAD_*"
ReportedBuild(op, raised, code) ==
    \/ op = "build" /\ code = FirstCode(BuildClauses, raised)
    \/ /\ op = "validate_job"
       /\ ReportsButContention(raised, {"UnknownIdError"} \cup Files, "VALIDATE_JOB_FAILED", code)
    \/ op = "validate" /\ raised = "UnknownIdError" /\ code = "UNKNOWN_SPEC"
    \/ op = "validate" /\ raised # "UnknownIdError" /\ code = "raise"
    \/ /\ op = "validate" /\ raised # "UnknownIdError"
       /\ ReportsButContention(raised, Files, "VALIDATE_ASSET_FAILED", code)
ReportedRead(op, raised, code) ==
    \/ /\ op = "read_job_artifact"
       /\ ReportsButContention(raised, Reading, "READ_ARTIFACT_FAILED", code)
    \/ /\ op = "get_job_report"
       /\ ReportsButContention(raised, Reading, "READ_REPORT_FAILED", code)
    \/ /\ op = "list_bundle_entries"
       /\ ReportsButContention(raised, Reading, "LIST_BUNDLE_FAILED", code)
    \/ /\ op = "read_bundle_file"
       /\ ReportsButContention(raised, Reading, "READ_BUNDLE_FILE_FAILED", code)
ReportedReview(op, raised, code) ==
    \/ op = "approve_review" /\ Reports(raised, Deciding, "APPROVE_REVIEW_FAILED", code)
    \/ op = "reject_review" /\ Reports(raised, Deciding, "REJECT_REVIEW_FAILED", code)
    \/ op = "retry_job" /\ Reports(raised, Deciding, "RETRY_JOB_FAILED", code)
    \/ op = "cancel" /\ Reports(raised, {"InvalidTransitionError"}, "CANCEL_JOB_FAILED", code)
    \/ /\ op = "finalize_job"
       /\ ReportsButContention(raised, {"ApprovalError"} \cup Moving, "FINALIZE_JOB_FAILED", code)
    \/ /\ op = "approve"
       /\ Reports(raised, {"ApprovalError", "ValueError"}, "APPROVE_STAGE_FAILED", code)
    \/ /\ op = "reject"
       /\ Reports(raised, {"ApprovalError", "ValueError"}, "REJECT_STAGE_FAILED", code)
ReportedStore(op, raised, code) ==
    \/ /\ op = "list_reference_packs"
       /\ ReportsButContention(raised, {"ReferencePackCorruptionError"} \cup Files,
                               "CORRUPT_REFERENCE_PACK", code)
    \/ op = "list_reference_history" /\ code = FirstCode(HistoryClauses, raised)
    \/ /\ op \in LineageOps
       /\ Reports(raised, {"FileNotFoundError", "PathEscapeError", "ValueError"},
                  "UNKNOWN_LINEAGE", code)

Reported(op, raised, code) ==
    \/ ReportedLookup(op, raised, code) \/ ReportedSources(op, raised, code)
    \/ ReportedBuild(op, raised, code)  \/ ReportedRead(op, raised, code)
    \/ ReportedReview(op, raised, code) \/ ReportedStore(op, raised, code)

(* An operation of tables put together is an operation of one of them.     *)
LEMMA InOneTable ==
  ASSUME NEW tables, NEW op \in DOMAIN Together(tables)
  PROVE  \E table \in tables : op \in DOMAIN table /\ Together(tables)[op] = table[op]
<1>1. \E table \in tables : op \in DOMAIN table
  BY DEF Together
<1>2. Together(tables)[op] = (CHOOSE table \in tables : op \in DOMAIN table)[op]
  BY DEF Together
<1> QED BY <1>1, <1>2

(* The tables of each kind. *)
LEMMA LookupTables ==
  ASSUME NEW table \in {HttpLookups, McpLookups}, NEW op \in DOMAIN table, NEW raised
  PROVE  ReportedLookup(op, raised, FirstCode(table[op], raised))
<1>1. CASE op \in SilentOps
  <2>1. table[op] = <<>>
    BY <1>1 DEF HttpLookups, McpLookups, SilentOps
  <2> QED BY <1>1, <2>1, OfNone DEF ReportedLookup
<1>2. CASE op = "create_job"
  BY <1>2 DEF HttpLookups, McpLookups, ReportedLookup
<1>3. CASE op = "get_job_candidate"
  <2>1. table[op] = <<On({"FileNotFoundError"}, "CANDIDATE_NOT_FOUND")>>
    BY <1>3 DEF HttpLookups, McpLookups
  <2> QED BY <1>3, <2>1, OneClause DEF ReportedLookup, Reports
<1> QED BY <1>1, <1>2, <1>3 DEF HttpLookups, McpLookups, SilentOps

LEMMA ReadTables ==
  ASSUME NEW table \in {HttpReads, McpReads}, NEW op \in DOMAIN table, NEW raised
  PROVE  ReportedRead(op, raised, FirstCode(table[op], raised))
<1>1. CASE op = "read_job_artifact"
  BY <1>1, ContendedClauses DEF HttpReads, McpReads, ReportedRead, ReportsButContention
<1>2. CASE op = "get_job_report"
  BY <1>2, ContendedClauses DEF HttpReads, McpReads, ReportedRead, ReportsButContention
<1>3. CASE op = "list_bundle_entries"
  BY <1>3, ContendedClauses DEF HttpReads, McpReads, ReportedRead, ReportsButContention
<1>4. CASE op = "read_bundle_file"
  BY <1>4, ContendedClauses DEF HttpReads, McpReads, ReportedRead, ReportsButContention
<1> QED BY <1>1, <1>2, <1>3, <1>4 DEF HttpReads, McpReads

LEMMA SubmitReported ==
  ASSUME NEW raised,
         NEW list \in {SubmitClauses, <<On({"UploadRejected"}, "UPLOAD_*")>> \o SubmitClauses}
  PROVE  ReportedSources("submit_sources", raised, FirstCode(list, raised))
<1>1. CASE list = SubmitClauses
  BY <1>1, ContendedClauses
  DEF SubmitClauses, ReportedSources, ReportsButContention, Submitting
<1>2. CASE list = <<On({"UploadRejected"}, "UPLOAD_*")>> \o SubmitClauses
  <2>1. raised \in Caught({"UploadRejected"}) <=> raised = "UploadRejected"
    BY DEF Caught
  <2>2. FirstCode(list, raised) =
          IF raised \in Caught({"UploadRejected"}) THEN "UPLOAD_*"
          ELSE IF raised \in Caught(Submitting) \ {"LockTimeoutError"}
          THEN "SUBMIT_SOURCES_FAILED" ELSE "raise"
    BY <1>2, OneThenContended DEF SubmitClauses, Submitting
  <2> QED BY <2>1, <2>2 DEF ReportedSources, ReportsButContention
<1> QED BY <1>1, <1>2

LEMMA SourceTables ==
  ASSUME NEW table \in {HttpSources, McpPlanning}, NEW op \in DOMAIN table, NEW raised
  PROVE  ReportedSources(op, raised, FirstCode(table[op], raised))
<1>1. CASE op \in {"plan_sources", "plan_job_sources"}
  <2>1. table[op] = PlanClauses
    BY <1>1 DEF HttpSources, McpPlanning
  <2> QED BY <1>1, <2>1 DEF ReportedSources
<1>2. CASE op = "submit_sources"
  <2>1. table[op] = <<On({"UploadRejected"}, "UPLOAD_*")>> \o SubmitClauses
    BY <1>2 DEF HttpSources, McpPlanning
  <2> QED BY <1>2, <2>1, SubmitReported
<1> QED BY <1>1, <1>2 DEF HttpSources, McpPlanning

(* A specification is validated by one clause, or by MCP by three.         *)
LEMMA ValidateReported ==
  ASSUME NEW raised,
         NEW list \in {<<On({"UnknownIdError"}, "UNKNOWN_SPEC")>>,
                       <<On({"UnknownIdError"}, "UNKNOWN_SPEC")>>
                           \o Contended(Files, "VALIDATE_ASSET_FAILED")}
  PROVE  ReportedBuild("validate", raised, FirstCode(list, raised))
<1>1. raised \in Caught({"UnknownIdError"}) <=> raised = "UnknownIdError"
  BY DEF Caught
<1>2. CASE list = <<On({"UnknownIdError"}, "UNKNOWN_SPEC")>>
  BY <1>1, <1>2, OneClause DEF ReportedBuild
<1>3. CASE list = <<On({"UnknownIdError"}, "UNKNOWN_SPEC")>>
                      \o Contended(Files, "VALIDATE_ASSET_FAILED")
  <2>1. FirstCode(list, raised) =
          IF raised \in Caught({"UnknownIdError"}) THEN "UNKNOWN_SPEC"
          ELSE IF raised \in Caught(Files) \ {"LockTimeoutError"}
          THEN "VALIDATE_ASSET_FAILED" ELSE "raise"
    BY <1>3, OneThenContended
  <2> QED BY <1>1, <2>1 DEF ReportedBuild, ReportsButContention
<1> QED BY <1>2, <1>3

LEMMA ValidateJobReported ==
  ASSUME NEW raised
  PROVE  ReportedBuild("validate_job", raised, FirstCode(ValidateJobClauses, raised))
BY ContendedClauses DEF ValidateJobClauses, ReportedBuild, ReportsButContention

LEMMA BuildTables ==
  ASSUME NEW table \in {HttpBuilds, McpBuilds}, NEW op \in DOMAIN table, NEW raised
  PROVE  Reported(op, raised, FirstCode(table[op], raised))
<1>1. CASE op = "build"
  BY <1>1 DEF HttpBuilds, McpBuilds, ReportedBuild, Reported
<1>2. CASE op = "validate_job"
  BY <1>2, ValidateJobReported DEF HttpBuilds, McpBuilds, Reported
<1>3. CASE op = "validate"
  <2>1. table[op] = <<On({"UnknownIdError"}, "UNKNOWN_SPEC")>>
                        \o Contended(Files, "VALIDATE_ASSET_FAILED")
    BY <1>3 DEF HttpBuilds, McpBuilds
  <2> QED BY <1>3, <2>1, ValidateReported DEF Reported
<1>4. CASE op = "submit_sources"
  BY <1>4, SubmitReported DEF HttpBuilds, McpBuilds, Reported
<1> QED BY <1>1, <1>2, <1>3, <1>4 DEF HttpBuilds, McpBuilds

LEMMA ReviewTables ==
  ASSUME NEW table \in {HttpReviews, McpReviews, CliReviews}, NEW op \in DOMAIN table, NEW raised
  PROVE  ReportedReview(op, raised, FirstCode(table[op], raised))
<1> USE DEF HttpReviews, McpReviews, CliReviews, ReportedReview, Reports
<1>1. CASE op = "approve_review"
  BY <1>1, OneClause
<1>2. CASE op = "reject_review"
  BY <1>2, OneClause
<1>3. CASE op = "retry_job"
  BY <1>3, OneClause
<1>4. CASE op = "cancel"
  BY <1>4, OneClause
<1>5. CASE op = "finalize_job"
  BY <1>5, ContendedClauses DEF ReportsButContention
<1>6. CASE op = "approve"
  BY <1>6, OneClause
<1>7. CASE op = "reject"
  BY <1>7, OneClause
<1> QED BY <1>1, <1>2, <1>3, <1>4, <1>5, <1>6, <1>7

LEMMA StoreReported ==
  ASSUME NEW raised
  PROVE  /\ ReportedStore("list_reference_packs", raised, FirstCode(PacksClauses, raised))
         /\ ReportedStore("list_reference_history", raised, FirstCode(HistoryClauses, raised))
         /\ \A op \in LineageOps : ReportedStore(op, raised, FirstCode(LineageClauses, raised))
<1>1. FirstCode(LineageClauses, raised) =
        IF raised \in Caught({"FileNotFoundError", "PathEscapeError", "ValueError"})
        THEN "UNKNOWN_LINEAGE" ELSE "raise"
  BY OneClause DEF LineageClauses, Unknown
<1> QED BY <1>1, ContendedClauses
        DEF ReportedStore, PacksClauses, ReportsButContention, Reports

LEMMA StoreTables ==
  ASSUME NEW table \in {HttpStores, McpStores}, NEW op \in DOMAIN table, NEW raised
  PROVE  Reported(op, raised, FirstCode(table[op], raised))
<1>1. CASE op = "validate"
  BY <1>1, ValidateReported DEF HttpStores, McpStores, Reported
<1>2. CASE op = "list_reference_packs"
  BY <1>2, StoreReported DEF HttpStores, McpStores, Reported
<1>3. CASE op = "list_reference_history"
  BY <1>3, StoreReported DEF HttpStores, McpStores, Reported
<1>4. CASE op \in LineageOps
  <2>1. table[op] = LineageClauses
    BY <1>4 DEF HttpStores, McpStores, LineageOps
  <2> QED BY <1>4, <2>1, StoreReported DEF Reported
<1> QED BY <1>1, <1>2, <1>3, <1>4 DEF HttpStores, McpStores, LineageOps

LEMMA CommandTables ==
  ASSUME NEW table \in {CliLookups, CliJobs, CliStores}, NEW op \in DOMAIN table, NEW raised
  PROVE  Reported(op, raised, FirstCode(table[op], raised))
<1>1. CASE table = CliLookups
  <2>1. CASE op \in SilentOps
    <3>1. table[op] = <<>>
      BY <1>1, <2>1 DEF CliLookups, SilentOps
    <3> QED BY <2>1, <3>1, OfNone DEF ReportedLookup, Reported
  <2>2. CASE op = "create_job"
    BY <1>1, <2>2 DEF CliLookups, ReportedLookup, Reported
  <2>3. CASE op = "get_job_candidate"
    <3>1. table[op] = <<On({"FileNotFoundError"}, "CANDIDATE_NOT_FOUND")>>
      BY <1>1, <2>3 DEF CliLookups
    <3> QED BY <2>3, <3>1, OneClause DEF ReportedLookup, Reports, Reported
  <2>4. CASE op = "validate"
    BY <1>1, <2>4, ValidateReported DEF CliLookups, Reported
  <2> QED BY <1>1, <2>1, <2>2, <2>3, <2>4 DEF CliLookups, SilentOps
<1>2. CASE table = CliJobs
  <2>1. CASE op = "plan_job_sources"
    BY <1>2, <2>1 DEF CliJobs, ReportedSources, Reported
  <2>2. CASE op = "validate_job"
    BY <1>2, <2>2, ValidateJobReported DEF CliJobs, Reported
  <2>3. CASE op \in DOMAIN HttpReads
    <3>1. table[op] = HttpReads[op]
      BY <1>2, <2>3 DEF CliJobs, HttpReads
    <3> QED BY <2>3, <3>1, ReadTables DEF Reported
  <2> QED BY <1>2, <2>1, <2>2, <2>3 DEF CliJobs, HttpReads
<1>3. CASE table = CliStores
  <2>1. CASE op = "plan_sources"
    BY <1>3, <2>1 DEF CliStores, ReportedSources, Reported
  <2>2. CASE op = "submit_sources"
    BY <1>3, <2>2, SubmitReported DEF CliStores, Reported
  <2>3. CASE op = "build"
    BY <1>3, <2>3 DEF CliStores, ReportedBuild, Reported
  <2>4. CASE op = "list_reference_packs"
    BY <1>3, <2>4, StoreReported DEF CliStores, Reported
  <2>5. CASE op = "list_reference_history"
    BY <1>3, <2>5, StoreReported DEF CliStores, Reported
  <2>6. CASE op \in LineageOps
    <3>1. table[op] = LineageClauses
      BY <1>3, <2>6 DEF CliStores, LineageOps
    <3> QED BY <2>6, <3>1, StoreReported DEF Reported
  <2> QED BY <1>3, <2>1, <2>2, <2>3, <2>4, <2>5, <2>6 DEF CliStores, LineageOps
<1> QED BY <1>1, <1>2, <1>3

(* Whatever HTTP, MCP or the CLI offers reports what Reported says.        *)
LEMMA EveryOperationReports ==
  ASSUME NEW via \in Vias \ {"ws"}, NEW op, Offers(via, op), NEW raised
  PROVE  Reported(op, raised, FirstCode(ClausesOf[via][op], raised))
<1>1. CASE via = "http"
  <2> DEFINE tables == {HttpLookups, HttpSources, HttpBuilds, HttpReads, HttpReviews, HttpStores}
  <2>1. ClausesOf[via] = Together(tables)
    BY <1>1 DEF ClausesOf, HttpClauses
  <2>2. PICK table \in tables : op \in DOMAIN table /\ ClausesOf[via][op] = table[op]
    BY <2>1, InOneTable DEF Offers
  <2> QED BY <2>2, LookupTables, SourceTables, BuildTables, ReadTables, ReviewTables,
             StoreTables DEF Reported
<1>2. CASE via = "mcp"
  <2> DEFINE tables == {McpLookups, McpPlanning, McpBuilds, McpReads, McpStores, McpReviews}
  <2>1. ClausesOf[via] = Together(tables)
    BY <1>2 DEF ClausesOf, McpClauses
  <2>2. PICK table \in tables : op \in DOMAIN table /\ ClausesOf[via][op] = table[op]
    BY <2>1, InOneTable DEF Offers
  <2> QED BY <2>2, LookupTables, SourceTables, BuildTables, ReadTables, ReviewTables,
             StoreTables DEF Reported
<1>3. CASE via = "cli"
  <2> DEFINE tables == {CliLookups, CliJobs, CliReviews, CliStores}
  <2>1. ClausesOf[via] = Together(tables)
    BY <1>3 DEF ClausesOf, CliClauses
  <2>2. PICK table \in tables : op \in DOMAIN table /\ ClausesOf[via][op] = table[op]
    BY <2>1, InOneTable DEF Offers
  <2> QED BY <2>2, CommandTables, ReviewTables DEF Reported
<1> QED BY <1>1, <1>2, <1>3 DEF Vias

-----------------------------------------------------------------------------
(* What follows for the code of an answer. *)

(* Contention and a damaged job are left to the boundary by every clause,  *)
(* and none reports their codes, or one that stands for an escape.         *)
LEMMA StoresAreLeftToTheBoundary ==
  ASSUME NEW op, NEW raised, NEW code, Reported(op, raised, code)
  PROVE  /\ code \notin {"STORE_LOCK_TIMEOUT", "CORRUPT_JOB", "escaped"}
         /\ raised \in {"LockTimeoutError", "JobCorruptionError"} => code = "raise"
<1>1. CASE ReportedLookup(op, raised, code)
  BY <1>1, CreateCodes DEF ReportedLookup, Reports, Caught
<1>2. CASE ReportedSources(op, raised, code)
  BY <1>2, PlanCodes
  DEF ReportedSources, ReportsButContention, Caught, Moving, Files, Submitting
<1>3. CASE ReportedBuild(op, raised, code)
  BY <1>3, BuildCodes DEF ReportedBuild, ReportsButContention, Caught, Moving, Files
<1>4. CASE ReportedRead(op, raised, code)
  BY <1>4 DEF ReportedRead, ReportsButContention, Caught, Reading, Files
<1>5. CASE ReportedReview(op, raised, code)
  BY <1>5 DEF ReportedReview, Reports, ReportsButContention, Caught, Deciding, Moving, Files
<1>6. CASE ReportedStore(op, raised, code)
  BY <1>6, HistoryCodes DEF ReportedStore, Reports, ReportsButContention, Caught, Files
<1> QED BY <1>1, <1>2, <1>3, <1>4, <1>5, <1>6 DEF Reported

(* Two adapters report the same, if both report anything.                  *)
LEMMA ReportsAgree ==
  ASSUME NEW op, NEW raised, NEW code, NEW other,
         Reported(op, raised, code), Reported(op, raised, other)
  PROVE  code = other \/ code = "raise" \/ other = "raise"
<1> USE DEF Reported, ReportedLookup, ReportedSources, ReportedBuild, ReportedRead,
            ReportedReview, ReportedStore, Reports, ReportsButContention, SilentOps, LineageOps
<1>1. CASE op \in SilentOps \cup {"create_job", "get_job_candidate"}
  BY <1>1
<1>2. CASE op \in {"plan_sources", "plan_job_sources"}
  BY <1>2
<1>3. CASE op = "submit_sources"
  BY <1>3 DEF Caught, Submitting, Moving, Files
<1>4. CASE op \in {"build", "validate_job", "validate"}
  BY <1>4
<1>5. CASE op \in DOMAIN HttpReads
  BY <1>5 DEF HttpReads
<1>6. CASE op \in DOMAIN McpReviews
  BY <1>6 DEF McpReviews
<1>7. CASE op \in {"list_reference_packs", "list_reference_history"} \cup LineageOps
  BY <1>7
<1> QED BY <1>1, <1>2, <1>3, <1>4, <1>5, <1>6, <1>7 DEF HttpReads, McpReviews

(* A diagnostic that names the pack is resolved; what nothing takes meets  *)
(* the boundary.                                                           *)
Resolved(code, packed) ==
    IF code # "by pack" THEN code
    ELSE IF packed THEN "UNKNOWN_REFERENCE_PACK" ELSE "PLAN_SOURCES_FAILED"
AtBoundary(raised) ==
    IF raised = "LockTimeoutError" THEN "STORE_LOCK_TIMEOUT"
    ELSE IF raised = "JobCorruptionError" THEN "CORRUPT_JOB" ELSE "escaped"

LEMMA CallCodes ==
  ASSUME NEW via \in Vias \ {"ws"}, NEW op, Offers(via, op), NEW raised, NEW packed
  PROVE  \E code : /\ Reported(op, raised, code)
                   /\ CallCode(via, op, raised, packed) =
                        IF code = "raise" THEN AtBoundary(raised) ELSE Resolved(code, packed)
<1> DEFINE code == FirstCode(ClausesOf[via][op], raised)
<1>1. Reported(op, raised, code)
  BY EveryOperationReports
<1>2. FirstCode(Boundary[via], raised) =
        IF raised = "LockTimeoutError" THEN "STORE_LOCK_TIMEOUT"
        ELSE IF raised = "JobCorruptionError" THEN "CORRUPT_JOB" ELSE "raise"
  BY BoundaryCodes
<1>3. CallCode(via, op, raised, packed) =
        ThroughBoundary(via, Resolved(code, packed), raised)
  BY DEF CallCode, Resolved
<1> HIDE DEF code
<1>4. CallCode(via, op, raised, packed) =
        IF code = "raise" THEN AtBoundary(raised) ELSE Resolved(code, packed)
  BY <1>2, <1>3 DEF ThroughBoundary, Resolved, AtBoundary
<1> QED BY <1>1, <1>4

(* The WebSocket offers the events of a job, and has no boundary.          *)
LEMMA EventCallCodes ==
  ASSUME NEW op, Offers("ws", op), NEW raised, NEW packed
  PROVE  /\ op = "events"
         /\ CallCode("ws", op, raised, packed) =
              IF raised = "LockTimeoutError" THEN "STORE_LOCK_TIMEOUT"
              ELSE IF raised = "JobCorruptionError" THEN "CORRUPT_JOB"
              ELSE IF raised \in Caught({"FileNotFoundError", "PathEscapeError", "ValueError"})
              THEN "UNKNOWN_JOB" ELSE "escaped"
<1>1. op = "events" /\ ClausesOf["ws"][op] = WsClauses["events"]
  BY DEF Offers, ClausesOf, WsClauses
<1>2. FirstCode(Boundary["ws"], raised) = "raise"
  BY BoundaryCodes DEF Vias
<1>3. FirstCode(ClausesOf["ws"][op], raised) =
        IF raised = "LockTimeoutError" THEN "STORE_LOCK_TIMEOUT"
        ELSE IF raised = "JobCorruptionError" THEN "CORRUPT_JOB"
        ELSE IF raised \in Caught({"FileNotFoundError", "PathEscapeError", "ValueError"})
        THEN "UNKNOWN_JOB" ELSE "raise"
  BY <1>1, EventCodes
<1> QED BY <1>1, <1>2, <1>3 DEF CallCode, ThroughBoundary

(* The lookup of a job takes what says that it is not there.               *)
LEMMA LookupCodes ==
  ASSUME NEW via \in Vias \ {"ws"}, NEW op, NEW raised, NEW packed
  PROVE  LookupCode(via, op, raised, packed) =
           IF raised \in Caught({"FileNotFoundError", "PathEscapeError", "ValueError"})
           THEN "UNKNOWN_JOB"
           ELSE IF via = "mcp" THEN CallCode(via, op, raised, packed) ELSE AtBoundary(raised)
<1>1. KnownJob[via] = Unknown("UNKNOWN_JOB")
  BY DEF KnownJob, Vias, HttpKnownJob, McpKnownJob, CliKnownJob
<1>2. /\ Takes(KnownJob[via], raised)
           <=> raised \in Caught({"FileNotFoundError", "PathEscapeError", "ValueError"})
      /\ KnownJob[via].code = "UNKNOWN_JOB"
  BY <1>1, ClauseTakes DEF Unknown
<1>3. FirstCode(Boundary[via], raised) =
        IF raised = "LockTimeoutError" THEN "STORE_LOCK_TIMEOUT"
        ELSE IF raised = "JobCorruptionError" THEN "CORRUPT_JOB" ELSE "raise"
  BY BoundaryCodes
<1> QED BY <1>2, <1>3 DEF LookupCode, ThroughBoundary, AtBoundary

(* The codes of the two failures of a store, and of nothing else.          *)
Kept(raised, code) ==
    /\ raised = "LockTimeoutError" <=> code = "STORE_LOCK_TIMEOUT"
    /\ raised = "JobCorruptionError" <=> code = "CORRUPT_JOB"

LEMMA CallsKeepTheCodes ==
  ASSUME NEW via \in Vias, NEW op, Offers(via, op), NEW raised, NEW packed
  PROVE  Kept(raised, CallCode(via, op, raised, packed))
<1>1. CASE via = "ws"
  BY <1>1, EventCallCodes DEF Kept
<1>2. CASE via # "ws"
  <2>1. PICK code : /\ Reported(op, raised, code)
                    /\ CallCode(via, op, raised, packed) =
                         IF code = "raise" THEN AtBoundary(raised) ELSE Resolved(code, packed)
    BY <1>2, CallCodes
  <2> QED BY <2>1, StoresAreLeftToTheBoundary DEF AtBoundary, Resolved, Kept
<1> QED BY <1>1, <1>2

LEMMA LookupsKeepTheCodes ==
  ASSUME NEW via \in Vias \ {"ws"}, NEW op, Offers(via, op), NEW raised, NEW packed
  PROVE  Kept(raised, LookupCode(via, op, raised, packed))
<1>1. raised \in Caught({"FileNotFoundError", "PathEscapeError", "ValueError"})
        => raised \notin {"LockTimeoutError", "JobCorruptionError"}
  BY DEF Caught
<1> QED BY <1>1, LookupCodes, CallsKeepTheCodes DEF Kept, AtBoundary

(* The codes of one exception agree between two adapters.                  *)
LEMMA CallsAgree ==
  ASSUME NEW via \in Vias \ {"ws"}, NEW other \in Vias \ {"ws"}, NEW op,
         Offers(via, op), Offers(other, op), NEW raised, NEW packed
  PROVE  \/ CallCode(via, op, raised, packed) = CallCode(other, op, raised, packed)
         \/ "escaped" \in {CallCode(via, op, raised, packed), CallCode(other, op, raised, packed)}
<1>1. PICK code : /\ Reported(op, raised, code)
                  /\ CallCode(via, op, raised, packed) =
                       IF code = "raise" THEN AtBoundary(raised) ELSE Resolved(code, packed)
  BY CallCodes
<1>2. PICK two : /\ Reported(op, raised, two)
                 /\ CallCode(other, op, raised, packed) =
                      IF two = "raise" THEN AtBoundary(raised) ELSE Resolved(two, packed)
  BY CallCodes
<1>3. code = two \/ code = "raise" \/ two = "raise"
  BY <1>1, <1>2, ReportsAgree
<1>4. raised \in {"LockTimeoutError", "JobCorruptionError"} => code = "raise" /\ two = "raise"
  BY <1>1, <1>2, StoresAreLeftToTheBoundary
<1> QED BY <1>1, <1>2, <1>3, <1>4 DEF AtBoundary

LEMMA LookupsAgree ==
  ASSUME NEW via \in Vias \ {"ws"}, NEW other \in Vias \ {"ws"}, NEW op,
         Offers(via, op), Offers(other, op), NEW raised, NEW packed
  PROVE  \/ LookupCode(via, op, raised, packed) = LookupCode(other, op, raised, packed)
         \/ "escaped" \in {LookupCode(via, op, raised, packed),
                           LookupCode(other, op, raised, packed)}
<1>1. /\ Kept(raised, LookupCode(via, op, raised, packed))
      /\ Kept(raised, LookupCode(other, op, raised, packed))
  BY LookupsKeepTheCodes
<1>2. CASE raised \in {"LockTimeoutError", "JobCorruptionError"}
  BY <1>1, <1>2 DEF Kept
<1>3. CASE raised \notin {"LockTimeoutError", "JobCorruptionError"}
  BY <1>3, LookupCodes DEF AtBoundary, Vias
<1> QED BY <1>2, <1>3

-----------------------------------------------------------------------------
(* What the calls may raise, in the terms of the refusals. *)

(* The operations that may refuse for want of a decision, or in the state  *)
(* of the job, and those that report that a file is missing.               *)
DecidingOps == {"approve_review", "reject_review", "approve", "reject", "finalize_job"}
MovingOps   == DecidingOps \cup {"plan_sources", "plan_job_sources", "submit_sources",
                                 "retry_job", "cancel", "build"}
MissingOps  == {"plan_sources", "plan_job_sources", "submit_sources", "build", "validate_job",
                "get_job_candidate", "finalize_job", "events", "list_reference_packs",
                "list_reference_history"} \cup DOMAIN HttpReads \cup LineageOps

(* The set of each operation, one reason at a time. *)
LEMMA FailsAre ==
  ASSUME NEW op, NEW raised \in Fails(op)
  PROVE  \/ op \in {"plan_sources", "plan_job_sources"} /\ raised \in PlanFails
         \/ op = "submit_sources" /\ raised \in SubmitFails
         \/ op = "validate_job" /\ raised \in LoadFails \cup {"PathEscapeError", "ValueError"}
         \/ /\ op \in {"read_job_artifact", "get_job_report", "list_bundle_entries",
                       "read_bundle_file"}
            /\ \E present : raised \in ArtifactFails(present)
         \/ op = "get_job_candidate" /\ raised \in CandidateFails
         \/ op = "list_approval_decisions" /\ raised \in ApprovalsFail
         \/ op \in {"approve_review", "reject_review"} /\ raised \in DecisionFails
         \/ op \in {"approve", "reject"} /\ raised \in DecisionFails \cup StageFails
         \/ op = "finalize_job" /\ raised \in FinalizeFails
         \/ op = "retry_job" /\ raised \in RetryFails
         \/ op = "cancel" /\ raised \in TransactionFails(state \notin Terminal)
         \/ op = "create_job" /\ raised \in CreateFails
         \/ op = "events" /\ raised \in LoadFails \cup {"ValueError"}
         \/ op = "list_jobs" /\ raised \in {"LockTimeoutError", "JobCorruptionError", "OSError"}
         \/ op = "validate" /\ raised \in {"OSError", "PathEscapeError", "ValueError"}
         \/ /\ op = "list_reference_packs"
            /\ raised \in {"LockTimeoutError", "OSError", "ReferencePackCorruptionError"}
         \/ op = "list_reference_history" /\ raised \in PackFails
         \/ op \in LineageOps /\ raised \in NodeFails
<1>1. Fails(op) =
        IF op \in {"plan_sources", "plan_job_sources"} THEN PlanFails
        ELSE IF op = "submit_sources" THEN SubmitFails
        ELSE IF op = "validate_job" THEN LoadFails \cup {"PathEscapeError", "ValueError"}
        ELSE IF op = "read_job_artifact" THEN ArtifactFails(disk \cap {"candidate", "package"} # {})
        ELSE IF op = "get_job_report" THEN ArtifactFails("report" \in disk)
        ELSE IF op \in {"list_bundle_entries", "read_bundle_file"}
             THEN ArtifactFails("bundle" \in disk)
        ELSE IF op = "get_job_candidate" THEN CandidateFails
        ELSE IF op = "list_approval_decisions" THEN ApprovalsFail
        ELSE IF op \in {"approve_review", "reject_review"} THEN DecisionFails
        ELSE IF op \in {"approve", "reject"} THEN DecisionFails \cup StageFails
        ELSE IF op = "finalize_job" THEN FinalizeFails
        ELSE IF op = "retry_job" THEN RetryFails
        ELSE IF op = "cancel" THEN TransactionFails(state \notin Terminal)
        ELSE IF op = "create_job" THEN CreateFails
        ELSE IF op = "events" THEN LoadFails \cup {"ValueError"}
        ELSE IF op = "list_jobs" THEN {"LockTimeoutError", "JobCorruptionError", "OSError"}
        ELSE IF op = "validate" THEN {"OSError", "PathEscapeError", "ValueError"}
        ELSE IF op = "list_reference_packs"
             THEN {"LockTimeoutError", "OSError"}
                      \cup (IF pack = "damaged" THEN {"ReferencePackCorruptionError"} ELSE {})
        ELSE IF op = "list_reference_history" THEN PackFails
        ELSE IF op \in LineageOps THEN NodeFails ELSE {}
  BY Zenon DEF Fails, LineageOps
<1> QED BY <1>1

LEMMA PackFailsAre ==
  ASSUME NEW raised \in PackFails
  PROVE  \/ raised = "UnpinnedReferencePackError" /\ pack = "unpinned"
         \/ raised = "UnknownReferencePackError" /\ pack = "missing"
         \/ raised = "ReferencePackCorruptionError" /\ pack = "damaged"
         \/ raised = "LockTimeoutError"
BY Zenon DEF PackFails

LEMMA BadInputIs ==
  ASSUME NEW op, NEW input, NEW raised \in BadInput(op, input)
  PROVE  \/ input = "bad id" /\ raised \in {"UnknownIdError", "PathEscapeError", "ValueError"}
         \/ input = "bad body" /\ raised = "ValueError"
BY Zenon DEF BadInput

(* Which operations may refuse, miss a file, or blame a pack, and when.    *)
LEMMA FailsFacts ==
  ASSUME NEW op, NEW raised \in Fails(op)
  PROVE  /\ raised = "ApprovalError" => op \in DecidingOps
         /\ raised = "InvalidTransitionError" => op \in MovingOps
         /\ raised = "FileNotFoundError" =>
              \/ JobMissing \/ op \in MissingOps
              \/ op = "retry_job" /\ "snapshot" \notin disk
         /\ raised = "ReferencePackCorruptionError" =>
              pack = "damaged" \/ op = "list_reference_packs"
         /\ op \in {"plan_sources", "plan_job_sources"} /\ raised \in Caught({"FileNotFoundError"})
              => pack = "missing" \/ JobMissing
         /\ op = "create_job" /\ raised = "UnknownReferencePackError" => pack = "missing"
         /\ (/\ op = "list_reference_history"
             /\ raised \in Caught({"FileNotFoundError", "PathEscapeError", "ValueError"}))
              => pack \in {"missing", "unpinned"}
<1> USE DEF DecidingOps, MovingOps, MissingOps, LineageOps, HttpReads, Caught
<1>1. \A legal : \A r \in TransactionFails(legal) :
        /\ r \in LoadFails \cup {"JsonlBudgetError", "InvalidTransitionError"}
  BY DEF TransactionFails, Unless
<1>2. \A r \in LoadFails : /\ r \in {"LockTimeoutError", "OSError", "FileNotFoundError",
                                    "JobCorruptionError"}
                           /\ r = "FileNotFoundError" => JobMissing
  BY DEF LoadFails
<1>3. \A r \in CandidateFails :
        /\ r \in {"LockTimeoutError", "OSError", "CandidateCorruptionError", "FileNotFoundError"}
        /\ r = "FileNotFoundError" => JobMissing \/ "snapshot" \notin disk
  BY DEF CandidateFails
<1>4. CASE op \in {"plan_sources", "plan_job_sources"} /\ raised \in PlanFails
  BY <1>4, <1>1, <1>2, PackFailsAre DEF PlanFails
<1>5. CASE op = "submit_sources" /\ raised \in SubmitFails
  BY <1>5, <1>1, <1>2 DEF SubmitFails
<1>6. CASE op = "validate_job" /\ raised \in LoadFails \cup {"PathEscapeError", "ValueError"}
  BY <1>6, <1>2
<1>7. CASE /\ op \in {"read_job_artifact", "get_job_report", "list_bundle_entries",
                      "read_bundle_file"}
           /\ \E present : raised \in ArtifactFails(present)
  BY <1>7, <1>2 DEF ArtifactFails, Unless
<1>8. CASE op = "get_job_candidate" /\ raised \in CandidateFails
  BY <1>8, <1>3
<1>9. CASE op = "list_approval_decisions" /\ raised \in ApprovalsFail
  BY <1>9, <1>2 DEF ApprovalsFail
<1>10. CASE op \in {"approve_review", "reject_review"} /\ raised \in DecisionFails
  BY <1>10, <1>1, <1>2 DEF DecisionFails
<1>11. CASE op \in {"approve", "reject"} /\ raised \in DecisionFails \cup StageFails
  BY <1>11, <1>1, <1>2 DEF DecisionFails, StageFails
<1>12. CASE op = "finalize_job" /\ raised \in FinalizeFails
  BY <1>12, <1>2, <1>3 DEF FinalizeFails
<1>13. CASE op = "retry_job" /\ raised \in RetryFails
  BY <1>13, <1>1, <1>2, <1>3 DEF RetryFails
<1>14. CASE op = "cancel" /\ raised \in TransactionFails(state \notin Terminal)
  BY <1>14, <1>1, <1>2
<1>15. CASE op = "create_job" /\ raised \in CreateFails
  <2>1. raised \in ParentFails => raised \notin {"FileNotFoundError", "ApprovalError",
            "InvalidTransitionError", "ReferencePackCorruptionError", "UnknownReferencePackError"}
    BY DEF ParentFails, NodeFails
  <2> QED BY <1>15, <2>1, PackFailsAre DEF CreateFails
<1>16. CASE \/ op = "events" /\ raised \in LoadFails \cup {"ValueError"}
            \/ op = "list_jobs" /\ raised \in {"LockTimeoutError", "JobCorruptionError", "OSError"}
            \/ op = "validate" /\ raised \in {"OSError", "PathEscapeError", "ValueError"}
  BY <1>16, <1>2
<1>17. CASE /\ op = "list_reference_packs"
            /\ raised \in {"LockTimeoutError", "OSError", "ReferencePackCorruptionError"}
  BY <1>17
<1>18. CASE op = "list_reference_history" /\ raised \in PackFails
  BY <1>18, PackFailsAre
<1>19. CASE op \in LineageOps /\ raised \in NodeFails
  BY <1>19 DEF NodeFails
<1> QED
  BY <1>4, <1>5, <1>6, <1>7, <1>8, <1>9, <1>10, <1>11, <1>12, <1>13, <1>14, <1>15, <1>16,
     <1>17, <1>18, <1>19, FailsAre

(* What no clause takes is no refusal those operations make.               *)
LEMMA NothingTakes ==
  ASSUME NEW op, NEW raised, Reported(op, raised, "raise")
  PROVE  /\ raised = "ApprovalError" => op \notin DecidingOps
         /\ raised = "InvalidTransitionError" => op \notin MovingOps \ {"approve", "reject"}
         /\ raised = "FileNotFoundError" => op \notin MissingOps
<1> USE DEF DecidingOps, MovingOps, MissingOps, HttpReads, LineageOps, SilentOps, Caught
<1>1. CASE ReportedLookup(op, raised, "raise")
  BY <1>1 DEF ReportedLookup, Reports
<1>2. CASE ReportedSources(op, raised, "raise")
  BY <1>2, PlanCodes DEF ReportedSources, ReportsButContention, Submitting, Moving, Files
<1>3. CASE ReportedBuild(op, raised, "raise")
  BY <1>3, BuildCodes DEF ReportedBuild, ReportsButContention, Moving, Files
<1>4. CASE ReportedRead(op, raised, "raise")
  BY <1>4 DEF ReportedRead, ReportsButContention, Reading, Files
<1>5. CASE ReportedReview(op, raised, "raise")
  BY <1>5 DEF ReportedReview, Reports, ReportsButContention, Deciding, Moving, Files
<1>6. CASE ReportedStore(op, raised, "raise")
  BY <1>6, HistoryCodes DEF ReportedStore, Reports, ReportsButContention, Files
<1> QED BY <1>1, <1>2, <1>3, <1>4, <1>5, <1>6 DEF Reported

(* The codes that blame the job or a pack, and what they are about.        *)
LEMMA Blames ==
  ASSUME NEW op, NEW raised, NEW code, Reported(op, raised, code)
  PROVE  /\ code # "UNKNOWN_JOB"
         /\ code = "by pack" =>
              /\ op \in {"plan_sources", "plan_job_sources"}
              /\ raised \in Caught({"FileNotFoundError"})
         /\ code = "UNKNOWN_REFERENCE_PACK" =>
              \/ op = "create_job" /\ raised = "UnknownReferencePackError"
              \/ /\ op = "list_reference_history"
                 /\ raised \in Caught({"FileNotFoundError", "PathEscapeError", "ValueError"})
         /\ code = "CORRUPT_REFERENCE_PACK" =>
              raised = "ReferencePackCorruptionError" \/ op = "list_reference_packs"
<1>1. CASE ReportedLookup(op, raised, code)
  BY <1>1, CreateCodes DEF ReportedLookup, Reports
<1>2. CASE ReportedSources(op, raised, code)
  BY <1>2, PlanCodes DEF ReportedSources, ReportsButContention
<1>3. CASE ReportedBuild(op, raised, code)
  BY <1>3, BuildCodes DEF ReportedBuild, ReportsButContention
<1>4. CASE ReportedRead(op, raised, code)
  BY <1>4 DEF ReportedRead, ReportsButContention
<1>5. CASE ReportedReview(op, raised, code)
  BY <1>5 DEF ReportedReview, Reports, ReportsButContention
<1>6. CASE ReportedStore(op, raised, code)
  BY <1>6, HistoryCodes DEF ReportedStore, Reports, ReportsButContention
<1> QED BY <1>1, <1>2, <1>3, <1>4, <1>5, <1>6 DEF Reported

(* The same of the code of a call and of a lookup.                         *)
LEMMA CallsBlame ==
  ASSUME NEW via \in Vias, NEW op, Offers(via, op), NEW raised, NEW packed
  PROVE  LET code == CallCode(via, op, raised, packed)
         IN  /\ code = "escaped" =>
                  /\ raised = "ApprovalError" => op \notin DecidingOps
                  /\ raised = "InvalidTransitionError" =>
                       op \notin MovingOps \ {"approve", "reject"}
                  /\ raised = "FileNotFoundError" => op \notin MissingOps
             /\ code = "UNKNOWN_JOB" => via = "ws"
             /\ code = "UNKNOWN_REFERENCE_PACK" =>
                  \/ /\ op \in {"plan_sources", "plan_job_sources"}
                     /\ raised \in Caught({"FileNotFoundError"})
                  \/ op = "create_job" /\ raised = "UnknownReferencePackError"
                  \/ /\ op = "list_reference_history"
                     /\ raised \in Caught({"FileNotFoundError", "PathEscapeError", "ValueError"})
             /\ code = "CORRUPT_REFERENCE_PACK" =>
                  raised = "ReferencePackCorruptionError" \/ op = "list_reference_packs"
<1>1. CASE via = "ws"
  <2>1. "FileNotFoundError" \in Caught({"FileNotFoundError", "PathEscapeError", "ValueError"})
    BY DEF Caught
  <2>2. "events" \notin MovingOps /\ "events" \notin DecidingOps
    BY DEF MovingOps, DecidingOps
  <2> QED BY <1>1, <2>1, <2>2, EventCallCodes
<1>2. CASE via # "ws"
  <2>1. PICK code : /\ Reported(op, raised, code)
                    /\ CallCode(via, op, raised, packed) =
                         IF code = "raise" THEN AtBoundary(raised) ELSE Resolved(code, packed)
    BY <1>2, CallCodes
  <2>2. code = "raise" =>
          /\ raised = "ApprovalError" => op \notin DecidingOps
          /\ raised = "InvalidTransitionError" => op \notin MovingOps \ {"approve", "reject"}
          /\ raised = "FileNotFoundError" => op \notin MissingOps
    BY <2>1, NothingTakes
  <2>3. code # "escaped"
    BY <2>1, StoresAreLeftToTheBoundary
  <2>4. /\ code # "UNKNOWN_JOB"
        /\ code = "by pack" =>
              /\ op \in {"plan_sources", "plan_job_sources"}
              /\ raised \in Caught({"FileNotFoundError"})
        /\ code = "UNKNOWN_REFERENCE_PACK" =>
              \/ op = "create_job" /\ raised = "UnknownReferencePackError"
              \/ /\ op = "list_reference_history"
                 /\ raised \in Caught({"FileNotFoundError", "PathEscapeError", "ValueError"})
        /\ code = "CORRUPT_REFERENCE_PACK" =>
              raised = "ReferencePackCorruptionError" \/ op = "list_reference_packs"
    BY <2>1, Blames
  <2>5. CASE code = "raise"
    <3>1. CallCode(via, op, raised, packed) \in {"STORE_LOCK_TIMEOUT", "CORRUPT_JOB", "escaped"}
      BY <2>1, <2>5 DEF AtBoundary
    <3> QED BY <2>2, <2>5, <3>1
  <2>6. CASE code = "by pack"
    <3>1. CallCode(via, op, raised, packed) \in {"UNKNOWN_REFERENCE_PACK", "PLAN_SOURCES_FAILED"}
      BY <2>1, <2>6 DEF Resolved
    <3> QED BY <2>4, <2>6, <3>1
  <2>7. CASE code \notin {"raise", "by pack"}
    <3>1. CallCode(via, op, raised, packed) = code
      BY <2>1, <2>7 DEF Resolved
    <3> QED BY <2>3, <2>4, <3>1
  <2> QED BY <2>5, <2>6, <2>7
<1> QED BY <1>1, <1>2

-----------------------------------------------------------------------------
(* The steps of a request preserve IRequests. *)

RequestFields == {"via", "op", "input", "phase", "code", "raised", "at"}

LEMMA OfferedRequest ==
  ASSUME <<request.via, request.op>> \in Offered
  PROVE  request.via \in Vias /\ Offers(request.via, request.op)
BY DEF Offered

(* An answer changes what it answers and nothing else. *)
LEMMA Answering ==
  ASSUME DOMAIN request = RequestFields, NEW code, NEW raised, NEW at, Reset(code, raised, at)
  PROVE  /\ DOMAIN request' = RequestFields
         /\ request'.via = request.via /\ request'.op = request.op
         /\ request'.input = request.input
         /\ request'.phase = "answered" /\ request'.code = code
         /\ request'.raised = raised /\ request'.at = at
BY DEF Reset, RequestFields

LEMMA ResultAnswered ==
  ASSUME IRequests, NEW ok, AnswerResult(ok), pack' = pack
  PROVE  IRequests'
<1>1. DOMAIN request = RequestFields
  BY DEF IRequests, RequestFields
<1>2. PICK code \in {"ok", "exit 2"}, raised \in {Quiet, "result not ok"} :
        Reset(code, raised, "call")
  BY DEF AnswerResult
<1>3. /\ DOMAIN request' = RequestFields
      /\ request'.via = request.via /\ request'.op = request.op
      /\ request'.input = request.input
      /\ request'.phase = "answered" /\ request'.code = code
      /\ request'.raised = raised /\ request'.at = "call"
  BY <1>1, <1>2, Answering
<1>4. code \notin {"escaped"}
  OBVIOUS
<1> QED BY <1>3, <1>4 DEF IRequests, RequestFields, AnswerIsItsOwn, RefusalsAreAnswered, Answered

LEMMA FailureAnswered ==
  ASSUME IRequests, NEW raised, AnswerFailure(raised), UNCHANGED <<health, pack>>,
         raised = "ApprovalError" => request.op \in DecidingOps,
         raised = "InvalidTransitionError" => request.op \in MovingOps,
         raised = "FileNotFoundError" =>
           \/ JobMissing \/ request.op \in MissingOps
           \/ request.op = "retry_job" /\ "snapshot" \notin disk'
  PROVE  IRequests'
<1> DEFINE code == CallCode(request.via, request.op, raised, Refers)
<1>1. /\ DOMAIN request = RequestFields /\ request.via \in Vias
      /\ Offers(request.via, request.op)
  BY OfferedRequest DEF IRequests, RequestFields
<1>2. code = "escaped" =>
        /\ raised # "ApprovalError"
        /\ raised = "InvalidTransitionError" => request.op \in {"approve", "reject"}
        /\ raised = "FileNotFoundError" => request.op \notin MissingOps
  BY <1>1, CallsBlame
<1>3. Reset(code, raised, "call")
  BY DEF AnswerFailure
<1> HIDE DEF code
<1>4. /\ DOMAIN request' = RequestFields
      /\ request'.via = request.via /\ request'.op = request.op
      /\ request'.input = request.input
      /\ request'.phase = "answered" /\ request'.code = code
      /\ request'.raised = raised /\ request'.at = "call"
  BY <1>1, <1>3, Answering
<1>5. RefusalsAreAnswered'
  BY <1>2, <1>4 DEF RefusalsAreAnswered, JobMissing
<1>6. AnswerIsItsOwn'
  BY <1>4 DEF AnswerIsItsOwn, Refers, code
<1> QED BY <1>4, <1>5, <1>6 DEF IRequests, RequestFields, Answered

LEMMA InvalidBodyStep ==
  ASSUME IRequests, InvalidBody
  PROVE  IRequests'
<1>1. PICK code \in {"INVALID_REQUEST", "INVALID_MANIFEST", "MANIFEST_NOT_FOUND"} :
        Reset(code, Quiet, "body")
  BY Zenon DEF InvalidBody
<1>2. DOMAIN request = RequestFields
  BY DEF IRequests, RequestFields
<1>3. /\ DOMAIN request' = RequestFields
      /\ request'.via = request.via /\ request'.op = request.op
      /\ request'.input = request.input
      /\ request'.phase = "answered" /\ request'.code = code
      /\ request'.raised = Quiet /\ request'.at = "body"
  BY <1>1, <1>2, Answering
<1>4. UNCHANGED world
  BY DEF InvalidBody
<1> QED BY <1>3, <1>4
        DEF IRequests, RequestFields, AnswerIsItsOwn, RefusalsAreAnswered, Answered, world

(* A lookup: the exception is that of a bad id, or of the job.             *)
LEMMA LookupRaises ==
  ASSUME NEW op, NEW input,
         NEW raised \in IF input = "bad id" THEN BadInput(op, "bad id") ELSE LoadFails
  PROVE  /\ raised \notin {"ApprovalError", "InvalidTransitionError"}
         /\ raised \in Caught({"FileNotFoundError", "PathEscapeError", "ValueError"}) =>
              input = "bad id" \/ JobMissing
         /\ raised # "UnknownReferencePackError" /\ raised # "ReferencePackCorruptionError"
BY BadInputIs DEF LoadFails, Caught

LEMMA LookupStep ==
  ASSUME IRequests, Lookup
  PROVE  IRequests'
<1>1. /\ DOMAIN request = RequestFields /\ request.via \in Vias
      /\ Offers(request.via, request.op)
  BY OfferedRequest DEF IRequests, RequestFields
<1>2. request.via # "ws"
  BY <1>1, EventCallCodes DEF Lookup, StoreOps
<1>3. UNCHANGED world
  BY DEF Lookup
<1>4. ASSUME NEW raised \in IF request.input = "bad id" THEN BadInput(request.op, "bad id")
                            ELSE LoadFails,
             Reset(LookupCode(request.via, request.op, raised, Refers), raised, "lookup")
      PROVE  IRequests'
  <2> DEFINE code == LookupCode(request.via, request.op, raised, Refers)
  <2>1. /\ DOMAIN request' = RequestFields
        /\ request'.via = request.via /\ request'.op = request.op
        /\ request'.input = request.input
        /\ request'.phase = "answered" /\ request'.code = code
        /\ request'.raised = raised /\ request'.at = "lookup"
    BY <1>1, <1>4, Answering
  <2>2. raised = "FileNotFoundError" => code # "escaped"
    BY <1>1, <1>2, LookupCodes DEF Caught
  <2> HIDE DEF code
  <2>3. RefusalsAreAnswered'
    BY <2>1, <2>2, LookupRaises DEF RefusalsAreAnswered
  <2>4. AnswerIsItsOwn'
    BY <1>2, <1>3, <2>1 DEF AnswerIsItsOwn, Refers, world, code
  <2> QED BY <1>3, <2>1, <2>3, <2>4 DEF IRequests, RequestFields, Answered, world
<1>5. CASE Reset("ok", Quiet, "call")
  <2>1. AnswerResult(TRUE)
    BY <1>5 DEF AnswerResult
  <2> QED BY <1>3, <2>1, ResultAnswered DEF world
<1>6. CASE request' = [request EXCEPT !.phase = "found"] /\ request.phase = "new"
  <2>1. /\ DOMAIN request' = RequestFields
        /\ request'.via = request.via /\ request'.op = request.op
        /\ request'.input = request.input
        /\ request'.phase = "found" /\ request'.code = request.code
        /\ request'.at = request.at
    BY <1>1, <1>6 DEF RequestFields
  <2> QED BY <1>3, <1>6, <2>1
          DEF IRequests, RequestFields, AnswerIsItsOwn, RefusalsAreAnswered, Answered, world, Quiet
<1> QED BY <1>4, <1>5, <1>6 DEF Lookup

LEMMA CallRaises ==
  ASSUME IRequests,
         NEW raised \in IF request.input = "good" THEN Fails(request.op)
                        ELSE BadInput(request.op, request.input)
  PROVE  /\ raised = "ApprovalError" => request.op \in DecidingOps
         /\ raised = "InvalidTransitionError" => request.op \in MovingOps
         /\ raised = "FileNotFoundError" =>
              \/ JobMissing \/ request.op \in MissingOps
              \/ request.op = "retry_job" /\ "snapshot" \notin disk
BY FailsFacts, BadInputIs

LEMMA CallStep ==
  ASSUME IRequests, Call
  PROVE  IRequests'
<1>1. UNCHANGED <<health, pack>>
  BY DEF Call
<1>2. ASSUME NEW raised \in IF request.input = "good" THEN Fails(request.op)
                            ELSE BadInput(request.op, request.input),
             AnswerFailure(raised), Stays
      PROVE  IRequests'
  BY <1>1, <1>2, CallRaises, FailureAnswered DEF Stays
<1>3. ASSUME NEW ok, AnswerResult(ok) PROVE IRequests'
  BY <1>1, <1>3, ResultAnswered
<1> QED BY <1>2, <1>3 DEF Call

LEMMA BuildStep ==
  ASSUME IRequests, Build
  PROVE  IRequests'
<1>1. UNCHANGED <<health, pack>> /\ request.op = "build"
  BY DEF Build
<1>2. "build" \in MovingOps /\ "build" \in MissingOps
  BY DEF MovingOps, MissingOps
<1>3. ASSUME NEW raised, AnswerFailure(raised), raised # "ApprovalError"
      PROVE  IRequests'
  BY <1>1, <1>2, <1>3, FailureAnswered
<1>4. ASSUME NEW raised \in ClaimRefused
      PROVE  raised # "ApprovalError"
  BY <1>4 DEF ClaimRefused, LoadFails, Unless
<1>5. ASSUME NEW raised \in PackFails \cup {"UnknownIdError", "OSError"}
      PROVE  raised # "ApprovalError"
  BY <1>5, PackFailsAre
<1>6. CASE request' = [request EXCEPT !.phase = "building"] /\ Ready
  <2>1. /\ DOMAIN request' = RequestFields
        /\ request'.via = request.via /\ request'.op = request.op
        /\ request'.input = request.input
        /\ request'.phase = "building" /\ request'.code = request.code
        /\ request'.at = request.at
        /\ request.phase # "answered"
    BY <1>6 DEF RequestFields, IRequests, Ready
  <2> QED BY <1>1, <2>1
          DEF IRequests, RequestFields, AnswerIsItsOwn, RefusalsAreAnswered, Answered, Quiet
<1> QED BY <1>3, <1>4, <1>5, <1>6 DEF Build

LEMMA PublishStep ==
  ASSUME IRequests, Publish
  PROVE  IRequests'
<1>1. UNCHANGED <<health, pack>> /\ request.op = "build"
  BY DEF Publish, IRequests
<1>2. "build" \in MovingOps /\ "build" \in MissingOps
  BY DEF MovingOps, MissingOps
<1>3. ASSUME NEW raised, AnswerFailure(raised), raised # "ApprovalError"
      PROVE  IRequests'
  BY <1>1, <1>2, <1>3, FailureAnswered
<1>4. ASSUME NEW raised \in TransactionFails(state = "processing")
      PROVE  raised # "ApprovalError"
  BY <1>4 DEF TransactionFails, LoadFails, Unless
<1>5. ASSUME NEW ok, AnswerResult(ok) PROVE IRequests'
  BY <1>1, <1>5, ResultAnswered
<1> QED BY <1>3, <1>4, <1>5 DEF Publish

(* Everybody else moves while the request is open, and has no answer of it *)
(* to spoil; a pack that is there or was lost was pinned.                  *)
LEMMA WorldStep ==
  ASSUME IRequests, World
  PROVE  IRequests'
<1>1. request' = request /\ request.phase # "answered"
  BY DEF World
<1>2. pack' = "unpinned" => pack = "unpinned"
  BY DEF World, Others, Outside
<1>3. request.code # "escaped"
  BY <1>1 DEF IRequests, Answered, Quiet
<1> QED BY <1>1, <1>2, <1>3 DEF IRequests, AnswerIsItsOwn, RefusalsAreAnswered, Answered

LEMMA InitRequests == Init => IRequests
<1> SUFFICES ASSUME Init PROVE IRequests
  OBVIOUS
<1>1. PICK offer \in Offered : \E input \in Inputs(offer[2]) :
        request = [via |-> offer[1], op |-> offer[2], input |-> input, phase |-> "new",
                   code |-> Quiet, raised |-> Quiet, at |-> Quiet]
  BY DEF Init
<1>2. <<request.via, request.op>> = offer
  BY <1>1 DEF Offered
<1>3. PacksFor("list_reference_history") = {"missing", "damaged", "whole"}
  BY Zenon DEF PacksFor
<1>4. request.op = "list_reference_history" => pack # "unpinned"
  BY <1>3 DEF Init
<1>5. /\ DOMAIN request = {"via", "op", "input", "phase", "code", "raised", "at"}
      /\ request.input \in Inputs(request.op)
      /\ request.phase = "new" /\ request.code = "none" /\ request.at = "none"
  BY <1>1 DEF Quiet
<1> QED BY <1>1, <1>2, <1>4, <1>5
        DEF IRequests, AnswerIsItsOwn, RefusalsAreAnswered, Answered, Quiet

LEMMA NextRequests == IRequests /\ [Next]_vars => IRequests'
<1> SUFFICES ASSUME IRequests, [Next]_vars PROVE IRequests'
  OBVIOUS
<1>1. CASE UNCHANGED vars
  BY <1>1 DEF vars, world, IRequests, AnswerIsItsOwn, RefusalsAreAnswered, Answered, Refers,
              JobMissing
<1> QED BY <1>1, InvalidBodyStep, LookupStep, CallStep, BuildStep, PublishStep, WorldStep
        DEF Next, Steps

(* No adapter but the WebSocket offers the events of a job. *)
LEMMA EventsAreTheWebSockets ==
  ASSUME NEW via \in Vias, Offers(via, "events")
  PROVE  via = "ws"
<1> SUFFICES ASSUME via # "ws" PROVE FALSE
  OBVIOUS
<1>1. PICK code : Reported("events", "none", code)
  BY CallCodes
<1> QED BY <1>1
        DEF Reported, ReportedLookup, ReportedSources, ReportedBuild, ReportedRead,
            ReportedReview, ReportedStore, SilentOps, LineageOps

-----------------------------------------------------------------------------
(* What a step does to the request. *)

(* A call is refused for the pack when the pack is to blame. *)
ForThePack(raised) ==
    /\ raised = "ReferencePackCorruptionError" =>
           pack = "damaged" \/ request.op = "list_reference_packs"
    /\ (request.op \in {"plan_sources", "plan_job_sources"}
            /\ raised \in Caught({"FileNotFoundError"})) => pack = "missing" \/ JobMissing
    /\ request.op = "create_job" /\ raised = "UnknownReferencePackError" => pack = "missing"
    /\ (request.op = "list_reference_history"
            /\ raised \in Caught({"FileNotFoundError", "PathEscapeError", "ValueError"}))
           => pack = "missing" \/ request.input = "bad id"

Moves    == \/ request' = request
            \/ /\ request.phase # "answered"
               /\ request'.code = request.code /\ request'.at = request.at
BadBody  == \E code \in {"INVALID_REQUEST", "INVALID_MANIFEST", "MANIFEST_NOT_FOUND"} :
                Reset(code, Quiet, "body")
NotFound ==
    /\ request.via # "ws"
    /\ \E raised \in IF request.input = "bad id" THEN BadInput(request.op, "bad id")
                                                   ELSE LoadFails :
            Reset(LookupCode(request.via, request.op, raised, Refers), raised, "lookup")
Fine     == \E ok : AnswerResult(ok)
Refused  == \E raised : AnswerFailure(raised) /\ ForThePack(raised)

LEMMA CallBlamesThePack ==
  ASSUME IRequests,
         NEW raised \in IF request.input = "good" THEN Fails(request.op)
                        ELSE BadInput(request.op, request.input)
  PROVE  ForThePack(raised)
<1>1. CASE request.input = "good"
  BY <1>1, FailsFacts DEF ForThePack, IRequests
<1>2. CASE request.input # "good"
  <2>1. \/ /\ request.input = "bad id"
           /\ raised \in {"UnknownIdError", "PathEscapeError", "ValueError"}
        \/ request.input = "bad body" /\ raised = "ValueError"
    BY <1>2, BadInputIs
  <2>2. request.input = "bad body" => request.op # "list_reference_history"
    BY DEF IRequests, Inputs, BodyOps
  <2> QED BY <2>1, <2>2 DEF ForThePack, Caught
<1> QED BY <1>1, <1>2

LEMMA StepsOfARequest ==
  ASSUME IRequests, Next
  PROVE  Moves \/ BadBody \/ NotFound \/ Fine \/ Refused
<1>1. DOMAIN request = RequestFields
  BY DEF IRequests, RequestFields
<1>2. ASSUME NEW phase, request' = [request EXCEPT !.phase = phase], request.phase # "answered"
      PROVE  Moves
  BY <1>1, <1>2 DEF Moves, RequestFields
<1>3. CASE InvalidBody
  BY <1>3, Zenon DEF InvalidBody, BadBody
<1>4. CASE Lookup
  <2>1. Reset("ok", Quiet, "call") => AnswerResult(TRUE)
    BY DEF AnswerResult
  <2>2. request.via # "ws"
    BY <1>4, OfferedRequest, EventCallCodes DEF IRequests, Lookup, StoreOps
  <2> QED BY <1>2, <1>4, <2>1, <2>2 DEF Lookup, NotFound, Fine
<1>5. CASE Call
  BY <1>5, CallBlamesThePack DEF Call, Refused, Fine
<1>6. ASSUME request.op = "build", NEW raised,
             raised = "ReferencePackCorruptionError" => pack = "damaged"
      PROVE  ForThePack(raised)
  BY <1>6 DEF ForThePack
<1>7. CASE Build
  <2>1. request.op = "build"
    BY <1>7 DEF Build
  <2>2. ASSUME NEW raised \in ClaimRefused
        PROVE  ForThePack(raised)
    BY <1>6, <2>1, <2>2 DEF ClaimRefused, LoadFails, Unless
  <2>3. ASSUME NEW raised \in PackFails \cup {"UnknownIdError", "OSError"}
        PROVE  ForThePack(raised)
    BY <1>6, <2>1, <2>3, PackFailsAre
  <2> QED BY <1>2, <1>7, <2>2, <2>3 DEF Build, Refused, Ready
<1>8. CASE Publish
  <2>1. request.op = "build"
    BY <1>8 DEF Publish, IRequests
  <2>2. ASSUME NEW raised \in {"ValueError", "OSError"} PROVE ForThePack(raised)
    BY <1>6, <2>1, <2>2
  <2>3. ASSUME NEW raised \in TransactionFails(state = "processing") PROVE ForThePack(raised)
    BY <1>6, <2>1, <2>3 DEF TransactionFails, LoadFails, Unless
  <2> QED BY <1>8, <2>2, <2>3 DEF Publish, Refused, Fine
<1>9. CASE World
  BY <1>9 DEF World, Moves
<1> QED BY <1>3, <1>4, <1>5, <1>7, <1>8, <1>9 DEF Next, Steps

(* The codes and places of those answers. *)
LEMMA AnswersOfSteps ==
  ASSUME DOMAIN request = RequestFields
  PROVE  /\ BadBody =>
              /\ request'.code \in {"INVALID_REQUEST", "INVALID_MANIFEST", "MANIFEST_NOT_FOUND"}
              /\ request'.at = "body"
         /\ Fine => request'.code \in {"ok", "exit 2"} /\ request'.at = "call"
         /\ NotFound =>
              \E raised \in IF request.input = "bad id" THEN BadInput(request.op, "bad id")
                                                        ELSE LoadFails :
                 /\ request'.code = LookupCode(request.via, request.op, raised, Refers)
                 /\ request'.raised = raised /\ request'.at = "lookup"
         /\ Refused =>
              \E raised :
                 /\ ForThePack(raised) /\ request'.at = "call"
                 /\ request'.code = CallCode(request.via, request.op, raised, Refers)
<1>1. BadBody =>
        /\ request'.code \in {"INVALID_REQUEST", "INVALID_MANIFEST", "MANIFEST_NOT_FOUND"}
        /\ request'.at = "body"
  BY Answering DEF BadBody
<1>2. Fine => request'.code \in {"ok", "exit 2"} /\ request'.at = "call"
  BY Answering DEF Fine, AnswerResult
<1>3. NotFound =>
        \E raised \in IF request.input = "bad id" THEN BadInput(request.op, "bad id")
                                                  ELSE LoadFails :
           /\ request'.code = LookupCode(request.via, request.op, raised, Refers)
           /\ request'.raised = raised /\ request'.at = "lookup"
  BY Answering DEF NotFound
<1>4. Refused =>
        \E raised :
           /\ ForThePack(raised) /\ request'.at = "call"
           /\ request'.code = CallCode(request.via, request.op, raised, Refers)
  BY Answering DEF Refused, AnswerFailure
<1> QED BY <1>1, <1>2, <1>3, <1>4

-----------------------------------------------------------------------------
(* The theorems. *)

(* Every answer of a request is the one its clauses give to its exception, *)
(* and every refusal of the job is answered.                               *)
THEOREM RequestInvariance == Spec => []IRequests
<1> QED BY InitRequests, NextRequests, PTL DEF Spec

(* LockTimeoutError and JobCorruptionError keep their codes in every       *)
(* operation of every adapter, and no other exception gets them.           *)
THEOREM StoreFailuresAreToldApart == Spec => []StoreFailuresKeepTheirCode
<1>1. IRequests => StoreFailuresKeepTheirCode
  <2> SUFFICES ASSUME IRequests, Answered PROVE Kept(request.raised, request.code)
    BY DEF StoreFailuresKeepTheirCode, Kept
  <2>1. request.via \in Vias /\ Offers(request.via, request.op)
    BY OfferedRequest DEF IRequests
  <2>2. CASE /\ request.raised \in {Quiet, "result not ok"}
             /\ request.code \in {"INVALID_REQUEST", "INVALID_MANIFEST", "MANIFEST_NOT_FOUND",
                                  "ok", "exit 2"}
    BY <2>2 DEF Kept, Quiet
  <2>3. CASE request.code = CallCode(request.via, request.op, request.raised, Refers)
    BY <2>1, <2>3, CallsKeepTheCodes
  <2>4. CASE /\ request.via # "ws"
             /\ request.code = LookupCode(request.via, request.op, request.raised, Refers)
    BY <2>1, <2>4, LookupsKeepTheCodes
  <2> QED BY <2>2, <2>3, <2>4 DEF IRequests, AnswerIsItsOwn
<1> QED BY <1>1, RequestInvariance, PTL

(* Two adapters that report a failure of one operation report one code.    *)
THEOREM AdaptersDoNotDrift == Spec => []AdaptersAgree
<1>1. IRequests => AdaptersAgree
  <2> SUFFICES ASSUME IRequests, Answered, request.at \in {"lookup", "call"},
                      request.raised \notin {Quiet, "result not ok"},
                      NEW via \in Vias \ {"ws"}, Offers(via, request.op)
               PROVE  LET code == IF request.at = "lookup"
                                  THEN LookupCode(via, request.op, request.raised, Refers)
                                  ELSE CallCode(via, request.op, request.raised, Refers)
                      IN  code = "escaped" \/ request.code = "escaped" \/ code = request.code
    BY DEF AdaptersAgree
  <2>1. request.via \in Vias \ {"ws"} /\ Offers(request.via, request.op)
    BY OfferedRequest, EventCallCodes, EventsAreTheWebSockets DEF IRequests
  <2>2. CASE request.at = "call"
    <3>1. request.code = CallCode(request.via, request.op, request.raised, Refers)
      BY <2>2 DEF IRequests, AnswerIsItsOwn
    <3>2. LET mine == CallCode(request.via, request.op, request.raised, Refers)
              its  == CallCode(via, request.op, request.raised, Refers)
          IN  mine = its \/ "escaped" \in {mine, its}
      BY Zenon, <2>1, CallsAgree
    <3> QED BY <2>2, <3>1, <3>2
  <2>3. CASE request.at = "lookup"
    <3>1. request.code = LookupCode(request.via, request.op, request.raised, Refers)
      BY <2>3 DEF IRequests, AnswerIsItsOwn
    <3>2. LET mine == LookupCode(request.via, request.op, request.raised, Refers)
              its  == LookupCode(via, request.op, request.raised, Refers)
          IN  mine = its \/ "escaped" \in {mine, its}
      BY Zenon, <2>1, LookupsAgree
    <3> QED BY <2>3, <3>1, <3>2
  <2> QED BY <2>2, <2>3
<1> QED BY <1>1, RequestInvariance, PTL

(* A refusal in the state of the job or for want of a decision reaches its *)
(* caller as an answer, but for the MCP tools of named stages, and so does *)
(* a missing file, but for those of a job that vanished and of a retry.    *)
THEOREM RefusalsGetAnswers == Spec => []RefusalsAreAnswered
<1>1. IRequests => RefusalsAreAnswered
  BY DEF IRequests
<1> QED BY <1>1, RequestInvariance, PTL

(* A request is told UNKNOWN_JOB when its job is gone or its id is none,   *)
(* and a lookup that finds no file says nothing else.                      *)
THEOREM OnlyMissingJobsAreUnknown == Spec => MissingIsUnknown
<1> DEFINE A == /\ request'.code = "UNKNOWN_JOB" /\ request.via # "ws" =>
                     request.code = "UNKNOWN_JOB" \/ JobMissing \/ request.input = "bad id"
                /\ request'.at = "lookup" /\ request'.raised = "FileNotFoundError" =>
                     request'.code = "UNKNOWN_JOB"
<1>1. IRequests /\ [Next]_vars => [A]_request
  <2> SUFFICES ASSUME IRequests, Next, request' # request PROVE A
    BY DEF vars
  <2>1. DOMAIN request = RequestFields /\ request.via \in Vias /\ Offers(request.via, request.op)
    BY OfferedRequest DEF IRequests, RequestFields
  <2>2. CASE Moves
    BY <2>2 DEF Moves, IRequests, Answered, Quiet
  <2>3. CASE BadBody \/ Fine
    BY <2>1, <2>3, AnswersOfSteps
  <2>4. CASE NotFound
    <3>1. PICK raised \in IF request.input = "bad id" THEN BadInput(request.op, "bad id")
                                                      ELSE LoadFails :
            /\ request'.code = LookupCode(request.via, request.op, raised, Refers)
            /\ request'.raised = raised /\ request'.at = "lookup"
      BY <2>1, <2>4, AnswersOfSteps
    <3>2. request.via # "ws"
      BY <2>4 DEF NotFound
    <3>3. request'.code =
            IF raised \in Caught({"FileNotFoundError", "PathEscapeError", "ValueError"})
            THEN "UNKNOWN_JOB"
            ELSE IF request.via = "mcp" THEN CallCode(request.via, request.op, raised, Refers)
            ELSE AtBoundary(raised)
      <4>1. request.via \in Vias \ {"ws"}
        BY <2>1, <3>2
      <4>2. LookupCode(request.via, request.op, raised, Refers) =
              IF raised \in Caught({"FileNotFoundError", "PathEscapeError", "ValueError"})
              THEN "UNKNOWN_JOB"
              ELSE IF request.via = "mcp" THEN CallCode(request.via, request.op, raised, Refers)
              ELSE AtBoundary(raised)
        BY Zenon, <4>1, LookupCodes
      <4> QED BY Zenon, <3>1, <4>2
    <3>4. CallCode(request.via, request.op, raised, Refers) = "UNKNOWN_JOB" => request.via = "ws"
      BY Zenon, <2>1, CallsBlame
    <3>5. /\ AtBoundary(raised) # "UNKNOWN_JOB"
          /\ "FileNotFoundError" \in Caught({"FileNotFoundError", "PathEscapeError", "ValueError"})
      BY DEF AtBoundary, Caught
    <3> QED BY <3>1, <3>2, <3>3, <3>4, <3>5, LookupRaises
  <2>5. CASE Refused
    <3>1. PICK raised : /\ ForThePack(raised) /\ request'.at = "call"
                        /\ request'.code = CallCode(request.via, request.op, raised, Refers)
      BY <2>1, <2>5, AnswersOfSteps
    <3> QED BY <2>1, <3>1, CallsBlame
  <2> QED BY <2>2, <2>3, <2>4, <2>5, StepsOfARequest
<1> QED BY <1>1, RequestInvariance, PTL DEF Spec, MissingIsUnknown

(* A request is told that its pack is unknown or corrupt when the pack is  *)
(* missing or damaged, when its job vanished, or when its id is none.      *)
THEOREM OnlyBadPacksAreBlamed == Spec => PackIsRightlyBlamed
<1> DEFINE A == /\ request'.code = "UNKNOWN_REFERENCE_PACK" =>
                     pack = "missing" \/ JobMissing \/ request.input = "bad id"
                /\ request'.code = "CORRUPT_REFERENCE_PACK" =>
                     pack = "damaged" \/ request.op = "list_reference_packs"
<1>1. IRequests /\ [Next]_vars => [A]_request
  <2> SUFFICES ASSUME IRequests, Next, request' # request PROVE A
    BY DEF vars
  <2>1. DOMAIN request = RequestFields /\ request.via \in Vias /\ Offers(request.via, request.op)
    BY OfferedRequest DEF IRequests, RequestFields
  <2>2. CASE Moves
    BY <2>2 DEF Moves, IRequests, Answered, Quiet
  <2>3. CASE BadBody \/ Fine
    BY <2>1, <2>3, AnswersOfSteps
  <2>4. CASE NotFound
    <3>1. PICK raised \in IF request.input = "bad id" THEN BadInput(request.op, "bad id")
                                                      ELSE LoadFails :
            request'.code = LookupCode(request.via, request.op, raised, Refers)
      BY <2>1, <2>4, AnswersOfSteps
    <3>2. request.via # "ws"
      BY <2>4 DEF NotFound
    <3>3. raised \in Caught({"FileNotFoundError"}) =>
            raised \in Caught({"FileNotFoundError", "PathEscapeError", "ValueError"})
      BY DEF Caught
    <3>4. raised # "UnknownReferencePackError" /\ raised # "ReferencePackCorruptionError"
      BY LookupRaises
    <3>5. request'.code =
            IF raised \in Caught({"FileNotFoundError", "PathEscapeError", "ValueError"})
            THEN "UNKNOWN_JOB"
            ELSE IF request.via = "mcp" THEN CallCode(request.via, request.op, raised, Refers)
            ELSE AtBoundary(raised)
      <4>1. request.via \in Vias \ {"ws"}
        BY <2>1, <3>2
      <4>2. LookupCode(request.via, request.op, raised, Refers) =
              IF raised \in Caught({"FileNotFoundError", "PathEscapeError", "ValueError"})
              THEN "UNKNOWN_JOB"
              ELSE IF request.via = "mcp" THEN CallCode(request.via, request.op, raised, Refers)
              ELSE AtBoundary(raised)
        BY Zenon, <4>1, LookupCodes
      <4> QED BY Zenon, <3>1, <4>2
    <3>6. AtBoundary(raised) \notin {"UNKNOWN_REFERENCE_PACK", "CORRUPT_REFERENCE_PACK"}
      BY DEF AtBoundary
    <3> QED BY <2>1, <3>3, <3>4, <3>5, <3>6, CallsBlame
  <2>5. CASE Refused
    <3>1. PICK raised : /\ ForThePack(raised)
                        /\ request'.code = CallCode(request.via, request.op, raised, Refers)
      BY <2>1, <2>5, AnswersOfSteps
    <3> QED BY <2>1, <3>1, CallsBlame DEF ForThePack
  <2> QED BY <2>2, <2>3, <2>4, <2>5, StepsOfARequest
<1> QED BY <1>1, RequestInvariance, PTL DEF Spec, PackIsRightlyBlamed
=============================================================================
