------------------------------- MODULE Upload -------------------------------
(***************************************************************************)
(* Source uploads over HTTP.  UploadRequestSizeLimiter counts the body at  *)
(* the ASGI boundary, before Starlette buffers it; the route stages each   *)
(* file in a directory of its own under the job, within a budget per file  *)
(* and in total, hands the directory to submit_sources, and removes it;    *)
(* its answer goes back through the limiter, message by message.  Sizes    *)
(* are in chunks.  Uploads to one job, through one server or several,      *)
(* interleave with one another and with the job's other callers.           *)
(***************************************************************************)
EXTENDS Naturals, Sequences, FiniteSets

CONSTANTS
    Uploads,        (* the requests                                           *)
    Bodies,         (* what a client may send: [files, framing, declared]; declared is what
                       the Content-Length says, 0 without one or with no number *)
    Folded(_),      (* a file name, case-folded                               *)
    UnsafeNames,    (* names _normalize_upload_filename refuses               *)
    FileLimit, TotalLimit, RequestLimit,    (* MAX_UPLOAD_*, in chunks        *)
    MaxStuck        (* staging directories that cannot be removed             *)

UploadNames == UNION {{body.files[i].name : i \in DOMAIN body.files} : body \in Bodies}
UploadFiles == [name : UploadNames, size : Nat]

ASSUME UploadConstantsOK ==
    /\ \A body \in Bodies : body.files \in Seq(UploadFiles) /\ {body.framing, body.declared} \subseteq Nat
    /\ {FileLimit, TotalLimit, RequestLimit} \subseteq Nat \ {0}
    /\ TotalLimit < RequestLimit

VARIABLES
    up,         (* each request                                               *)
    sending,    (* of each request: what the limiter let through to the       *)
                (* server, and its flag response_started                      *)
    staging,    (* staged files, by request; absent from its domain when gone *)
    accepted,   (* the submissions of the job: at most one, its request, files *)
    sourcesState,   (* "early": the job can still be moved to
                       waiting_for_sources; "waiting"; "past"                 *)
    stuck       (* removals of staging that failed                            *)

uploadVars == <<up, sending, staging, accepted, sourcesState, stuck>>

SizeOf(files) ==
    LET upTo[n \in 0 .. Len(files)] == IF n = 0 THEN 0 ELSE upTo[n - 1] + files[n].size
    IN  upTo[Len(files)]
BodySize(body) == SizeOf(body.files) + body.framing

Nothing == [files |-> <<>>, framing |-> 0, declared |-> 0]
Idle == [phase |-> "idle", body |-> Nothing, received |-> 0, exceeded |-> FALSE,
         file |-> 0, got |-> 0, total |-> 0, saw |-> "none", code |-> "none"]

(* The messages of a response: its start and the rest, of one speaker.     *)
Message(by, part) == [by |-> by, part |-> part]
Start(by) == <<Message(by, "start")>>
Whole(by) == <<Message(by, "start"), Message(by, "rest")>>
Silent == [messages |-> <<>>, responseStarted |-> FALSE]

UploadInit ==
    /\ up = [u \in Uploads |-> Idle]
    /\ sending = [u \in Uploads |-> Silent]
    /\ staging = <<>>
    /\ accepted = {}
    /\ sourcesState \in {"early", "waiting"}
    /\ stuck = 0

Goes(u, phase) == [up EXCEPT ![u].phase = phase]
Rests == UNCHANGED <<staging, accepted, sourcesState, stuck>>
Quiets == UNCHANGED sending

SendBody(u) ==
    /\ up[u].phase = "idle"
    /\ \E body \in Bodies : up' = [up EXCEPT ![u].phase = "sent", ![u].body = body]
    /\ Quiets /\ Rests

-----------------------------------------------------------------------------
(* The limiter. *)

DeclaredLength(body) == body.declared

(* _reject: the response of the limiter. *)
Deny(u) ==
    /\ up' = [up EXCEPT ![u].phase = "answered", ![u].code = "UPLOAD_REQUEST_LIMIT"]
    /\ sending' = [sending EXCEPT ![u].messages = @ \o Whole("limiter")]

Admit(u) ==
    /\ up[u].phase = "sent"
    /\ IF DeclaredLength(up[u].body) > RequestLimit THEN Deny(u)
       ELSE up' = Goes(u, "receiving") /\ Quiets
    /\ Rests

(* Mutant: the chunk that exceeds the limit is passed on. *)
ReceiveLate(u) ==
    /\ up[u].phase = "receiving"
    /\ LET received == up[u].received + 1
           exceeded == up[u].received > RequestLimit
       IN  up' = [up EXCEPT ![u].received = received,
                            ![u].exceeded = exceeded,
                            ![u].phase = IF exceeded THEN "unwinding"
                                         ELSE IF received = BodySize(up[u].body) THEN "parsed"
                                         ELSE "receiving"]
    /\ Quiets /\ Rests

(* limited_receive, while Starlette reads the form: past the limit the     *)
(* application is told that the client has gone.                           *)
Receive(u) ==
    /\ up[u].phase = "receiving"
    /\ LET received == up[u].received + 1
           exceeded == received > RequestLimit
       IN  up' = [up EXCEPT ![u].received = received,
                            ![u].exceeded = exceeded,
                            ![u].phase = IF exceeded THEN "unwinding"
                                         ELSE IF received = BodySize(up[u].body) THEN "parsed"
                                         ELSE "receiving"]
    /\ Quiets /\ Rests

(* The client really goes away in the middle of its body, or the body is   *)
(* none.                                                                   *)
Disconnect(u) ==
    /\ up[u].phase = "receiving"
    /\ up' = Goes(u, "unwinding")
    /\ Quiets /\ Rests

(* The application raises, or means to answer that the body is broken. *)
Unwind(u) ==
    /\ up[u].phase = "unwinding"
    /\ \/ up' = Goes(u, "raised")
       \/ up' = [up EXCEPT ![u].phase = "starting", ![u].code = "BAD_BODY"]
    /\ Quiets /\ Rests

(* Mutant: only the start of what a cut-off application says is dropped. *)
LimitedStart(u, part) ==
    IF up[u].exceeded /\ ~sending[u].responseStarted /\ part = "start"
    THEN UNCHANGED sending
    ELSE sending' = [sending EXCEPT
                        ![u].messages = Append(@, Message("application", part)),
                        ![u].responseStarted = @ \/ part = "start"]

(* limited_send: what an application that was cut off says is dropped. *)
LimitedSend(u, part) ==
    IF up[u].exceeded /\ ~sending[u].responseStarted
    THEN UNCHANGED sending
    ELSE sending' = [sending EXCEPT
                        ![u].messages = Append(@, Message("application", part)),
                        ![u].responseStarted = @ \/ part = "start"]

SendStart(u) ==
    /\ up[u].phase = "starting" /\ up' = Goes(u, "finishing")
    /\ LimitedSend(u, "start") /\ Rests

SendRest(u) ==
    /\ up[u].phase = "finishing" /\ up' = Goes(u, "returned")
    /\ LimitedSend(u, "rest") /\ Rests

(* The application is done: the limiter answers in its place, whether it   *)
(* returned or raised, or lets its exception pass.                         *)
EndRequest(u) ==
    /\ up[u].phase \in {"returned", "raised"}
    /\ IF up[u].exceeded /\ ~sending[u].responseStarted THEN Deny(u)
       ELSE /\ Quiets
            /\ up' = [up EXCEPT ![u].phase = "answered",
                                ![u].code = IF up[u].phase = "raised" THEN "escaped" ELSE @]
    /\ Rests

-----------------------------------------------------------------------------
(* The route. *)

Respond(u, code) == up' = [up EXCEPT ![u].phase = "starting", ![u].code = code]
Unwinds(u, code) == up' = [up EXCEPT ![u].phase = "cleaning", ![u].code = code]

(* _known_job and staged_source_upload: the job is there, twice; what the  *)
(* first raises and nobody takes escapes.                                  *)
Stage(u) ==
    /\ up[u].phase = "parsed"
    /\ \/ /\ staging' = [v \in DOMAIN staging \cup {u} |->
                            IF v = u THEN <<>> ELSE staging[v]]
          /\ up' = [up EXCEPT ![u].phase = "streaming", ![u].file = 1]
       \/ \E code \in {"UNKNOWN_JOB", "SUBMIT_SOURCES_FAILED"} : Respond(u, code)
          /\ UNCHANGED staging
       \/ up' = Goes(u, "raised") /\ UNCHANGED staging
    /\ Quiets /\ UNCHANGED <<accepted, sourcesState, stuck>>

FilesOf(u) == up[u].body.files
FileNow(u) == FilesOf(u)[up[u].file]
EarlierNames(u) == {Folded(FilesOf(u)[i].name) : i \in 1 .. up[u].file - 1}

NameCodes(u) ==
    IF FileNow(u).name \in UnsafeNames THEN "UPLOAD_UNSAFE_NAME"
    ELSE IF Folded(FileNow(u).name) \in EarlierNames(u) THEN "UPLOAD_DUPLICATE_NAME"
    ELSE "none"

(* One turn of _stream_uploads: the next file is opened, the next chunk of *)
(* it read and counted before it is written, or the file is done.          *)
OpenFile(u) ==
    /\ up[u].phase = "streaming" /\ up[u].file <= Len(FilesOf(u))
    /\ IF NameCodes(u) # "none"
       THEN Unwinds(u, NameCodes(u)) /\ UNCHANGED staging
       ELSE /\ up' = [up EXCEPT ![u].phase = "reading", ![u].got = 0]
            /\ staging' = [staging EXCEPT ![u] =
                              Append(@, [name |-> FileNow(u).name, size |-> 0])]
    /\ Quiets /\ UNCHANGED <<accepted, sourcesState, stuck>>

ReadChunk(u) ==
    /\ up[u].phase = "reading" /\ up[u].got < FileNow(u).size
    /\ LET got == up[u].got + 1
           total == up[u].total + 1
       IN  IF got > FileLimit THEN Unwinds(u, "UPLOAD_FILE_LIMIT") /\ UNCHANGED staging
           ELSE IF total > TotalLimit THEN Unwinds(u, "UPLOAD_TOTAL_LIMIT") /\ UNCHANGED staging
           ELSE /\ up' = [up EXCEPT ![u].got = got, ![u].total = total]
                /\ staging' = [staging EXCEPT ![u][Len(staging[u])].size = @ + 1]
    /\ Quiets /\ UNCHANGED <<accepted, sourcesState, stuck>>

CloseFile(u) ==
    /\ up[u].phase = "reading" /\ up[u].got = FileNow(u).size
    /\ up' = [up EXCEPT ![u].phase = "streaming", ![u].file = @ + 1]
    /\ Quiets /\ Rests

(* submit_sources: the job is read, the directory copied... *)
ReadForSubmission(u) ==
    /\ up[u].phase = "streaming" /\ up[u].file > Len(FilesOf(u))
    /\ up' = [up EXCEPT ![u].phase = "submitting", ![u].saw = sourcesState]
    /\ Quiets /\ Rests

(* ...and published, once per job: with an event if the job was waiting    *)
(* for it, or with the transition that makes it wait, which is chosen by a *)
(* second read.                                                            *)
PublishSources(u) ==
    /\ up[u].phase = "submitting" /\ accepted = {}
    /\ "waiting" = up[u].saw \/ sourcesState = "early"
    /\ accepted' = {[by |-> u, files |-> staging[u]]}
    /\ sourcesState' = IF sourcesState = "early" THEN "waiting" ELSE sourcesState
    /\ Unwinds(u, "ok")
    /\ Quiets /\ UNCHANGED <<staging, stuck>>

(* A job found waiting by the second read only is returned as it is. *)
NothingToSubmit(u) ==
    /\ up[u].phase = "submitting"
    /\ up[u].saw # "waiting" /\ sourcesState = "waiting"
    /\ Unwinds(u, "ok")
    /\ Quiets /\ Rests

(* Writing a file, or the submission, may fail at any time; a submission   *)
(* that fails is undone.                                                   *)
WriteFails(u) ==
    /\ up[u].phase \in {"reading", "streaming", "submitting"}
    /\ Unwinds(u, "SUBMIT_SOURCES_FAILED")
    /\ Quiets /\ Rests

(* Mutant: the staging directory of a rejected upload is forgotten. *)
CleanUpOnSuccess(u) ==
    /\ up[u].phase = "cleaning"
    /\ Respond(u, up[u].code)
    /\ staging' = [v \in {v \in DOMAIN staging : v # u \/ up[u].code # "ok"} |-> staging[v]]
    /\ Quiets /\ UNCHANGED <<accepted, sourcesState, stuck>>

(* The finally of staged_source_upload; a removal that fails replaces the  *)
(* answer, the one of a submission that was accepted too.                  *)
CleanUp(u) ==
    /\ up[u].phase = "cleaning"
    /\ \/ /\ Respond(u, up[u].code)
          /\ staging' = [v \in DOMAIN staging \ {u} |-> staging[v]]
          /\ UNCHANGED stuck
       \/ /\ stuck < MaxStuck
          /\ stuck' = stuck + 1
          /\ Respond(u, "SUBMIT_SOURCES_FAILED")
          /\ UNCHANGED staging
    /\ Quiets /\ UNCHANGED <<accepted, sourcesState>>

(* Another caller of the job: a plan of a manual provider makes it wait,   *)
(* builds and cancellations leave the point where sources are taken.       *)
OthersMoveJob ==
    /\ \/ sourcesState = "early" /\ sourcesState' = "waiting"
       \/ sourcesState # "past" /\ sourcesState' = "past"
    /\ UNCHANGED <<up, sending, staging, accepted, stuck>>

UploadStep(u) ==
    \/ SendBody(u) \/ Admit(u) \/ Receive(u) \/ Disconnect(u) \/ Unwind(u)
    \/ Stage(u) \/ OpenFile(u) \/ ReadChunk(u) \/ CloseFile(u) \/ WriteFails(u)
    \/ ReadForSubmission(u) \/ PublishSources(u) \/ NothingToSubmit(u) \/ CleanUp(u)
    \/ SendStart(u) \/ SendRest(u) \/ EndRequest(u)

UploadNext == OthersMoveJob \/ \E u \in Uploads : UploadStep(u)

UploadSpec == UploadInit /\ [][UploadNext]_uploadVars

-----------------------------------------------------------------------------
(* Properties. *)

(* Whatever the header of a request claims, what the route accepts is in   *)
(* budget, with names no filesystem confuses; a body past the limit is     *)
(* never accepted, and answered as such.                                   *)
UploadsAreBounded ==
    /\ \A one \in accepted :
          /\ SizeOf(one.files) <= TotalLimit
          /\ \A i \in DOMAIN one.files : one.files[i].size <= FileLimit
          /\ \A i, j \in DOMAIN one.files :
                Folded(one.files[i].name) = Folded(one.files[j].name) => i = j
          /\ one.files = up[one.by].body.files
    /\ \A u \in Uploads : up[u].phase # "idle" /\ BodySize(up[u].body) > RequestLimit =>
          /\ u \notin DOMAIN staging
          /\ up[u].phase = "answered" => up[u].code \in {"UPLOAD_REQUEST_LIMIT", "BAD_BODY", "escaped"}
          /\ up[u].exceeded /\ up[u].phase = "answered" => up[u].code = "UPLOAD_REQUEST_LIMIT"

(* What reaches the server of a request is one response in order, of the   *)
(* application or of the limiter, and nothing when an exception escapes;   *)
(* of an application that was cut off not a word gets out.                 *)
OneResponse ==
    \A u \in Uploads :
        LET out == sending[u].messages
        IN  /\ out \in {<<>>, Start("application"), Whole("application"), Whole("limiter")}
            /\ up[u].phase = "answered" =>
                  IF up[u].code = "escaped" THEN out = <<>>
                  ELSE out \in {Whole("application"), Whole("limiter")}
            /\ up[u].exceeded => out \in {<<>>, Whole("limiter")}

(* docs/interfaces.md: staging is removed before the response.  Only a     *)
(* directory that could not be removed stays, and only then is a           *)
(* submission that was accepted reported as failed.  A submission whose    *)
(* files were dropped is reported as accepted only if it had looked at the *)
(* job before another caller made it wait for sources.                     *)
StagingIsGone ==
    /\ Cardinality({u \in DOMAIN staging : sending[u].messages # <<>>}) <= stuck
    /\ \A u \in Uploads : up[u].phase = "answered" =>
          LET taken == \E one \in accepted : one.by = u
          IN  /\ taken /\ stuck = 0 => up[u].code = "ok"
              /\ up[u].code = "ok" /\ ~taken => up[u].saw = "early" /\ sourcesState # "early"

-----------------------------------------------------------------------------
(* The inductive invariant behind the last two.  A request has its staging *)
(* directory while the route is at work; nothing is decided before the     *)
(* clean-up, and there the code says whether the submission of this        *)
(* request was the one that was accepted; nothing is sent before that, and *)
(* what is sent then is as far as the phase says.                          *)
UploadPhases == {"idle", "sent", "receiving", "unwinding", "parsed", "streaming", "reading",
                 "submitting", "cleaning", "starting", "finishing", "returned", "raised",
                 "answered"}
UploadCodes == {"none", "escaped", "ok", "BAD_BODY", "UNKNOWN_JOB", "SUBMIT_SOURCES_FAILED",
                "UPLOAD_REQUEST_LIMIT", "UPLOAD_FILE_LIMIT", "UPLOAD_TOTAL_LIMIT",
                "UPLOAD_UNSAFE_NAME", "UPLOAD_DUPLICATE_NAME"}
SourcesStates == {"early", "waiting", "past"}
UploadRequests ==
    [phase : UploadPhases, body : Bodies \cup {Nothing}, received : Nat, exceeded : BOOLEAN,
     file : Nat, got : Nat, total : Nat, saw : SourcesStates \cup {"none"}, code : UploadCodes]

UploadTyped ==
    /\ up \in [Uploads -> UploadRequests]
    /\ sending = [u \in Uploads |-> sending[u]]
    /\ DOMAIN staging \subseteq Uploads
    /\ sourcesState \in SourcesStates
    /\ stuck \in Nat

Answering == {"starting", "finishing", "returned", "raised", "answered"}
AtWork(u) == up[u].phase \notin Answering \cup {"cleaning"}

StagedInRoute(u) ==
    /\ u \in DOMAIN staging => up[u].phase \in {"streaming", "reading", "submitting", "cleaning"}
                                                \cup Answering
    /\ up[u].phase \in {"unwinding", "raised"} => u \notin DOMAIN staging

(* What a submission read of the job, which only moves forward. *)
Raced(u) == up[u].saw = "early" /\ sourcesState # "early"
SawFits(u) ==
    /\ up[u].phase = "submitting" => up[u].saw # "none"
    /\ up[u].saw = "past" => sourcesState = "past"

CodeFits(u) ==
    /\ AtWork(u) => up[u].code = "none"
    /\ up[u].phase = "raised" => up[u].code = "none"
    /\ up[u].phase \in {"cleaning", "starting", "finishing", "returned"} =>
          up[u].code \notin {"none", "escaped"}
    /\ up[u].code = "ok" => (\E one \in accepted : one.by = u) \/ Raced(u)

SubmissionFits(one) ==
    /\ accepted = {one} /\ one.by \in Uploads
    /\ ~AtWork(one.by) /\ up[one.by].phase # "raised" /\ ~up[one.by].exceeded
    /\ up[one.by].phase = "cleaning" \/ stuck = 0 => up[one.by].code = "ok"

(* Past the limit the application is cut off, and says nothing. *)
SendingFits(u) ==
    LET spoken(messages) ==
            sending[u] = IF up[u].exceeded THEN Silent
                         ELSE [messages |-> messages, responseStarted |-> TRUE]
    IN  /\ AtWork(u) \/ up[u].phase \in {"cleaning", "starting", "raised"} => sending[u] = Silent
        /\ up[u].phase = "finishing" => spoken(Start("application"))
        /\ up[u].phase = "returned" => spoken(Whole("application"))
        /\ up[u].exceeded => up[u].phase \in {"unwinding"} \cup Answering

LeftBehind == {u \in DOMAIN staging : up[u].phase \in Answering}

IUpload ==
    /\ UploadTyped
    /\ OneResponse
    /\ \A u \in Uploads : StagedInRoute(u) /\ CodeFits(u) /\ SawFits(u) /\ SendingFits(u)
    /\ \A one \in accepted : SubmissionFits(one)
    /\ IsFiniteSet(LeftBehind) /\ Cardinality(LeftBehind) <= stuck

(* And behind the first.  What the limiter lets through to the route is    *)
(* within the limit; what the route has staged is, so far, the files of    *)
(* the body, each within its limit, and their sum is the total it counts.  *)
LimiterFits(u) ==
    /\ up[u].phase \in {"idle", "sent"} => up[u].received = 0
    /\ up[u].phase \in {"idle", "sent", "receiving", "parsed"} => up[u].total = 0
    /\ up[u].phase = "receiving" => up[u].received <= RequestLimit
    /\ up[u].phase \in {"parsed", "streaming", "reading", "submitting", "cleaning"} \/
       u \in DOMAIN staging => BodySize(up[u].body) <= RequestLimit
    /\ up[u].exceeded /\ up[u].phase = "answered" => up[u].code = "UPLOAD_REQUEST_LIMIT"
    /\ up[u].phase \in Answering =>
          \/ BodySize(up[u].body) <= RequestLimit
          \/ up[u].code \in {"none", "UPLOAD_REQUEST_LIMIT", "BAD_BODY", "escaped"}
    /\ up[u].phase = "answered" => up[u].code # "none"

InBudget(files) ==
    /\ files \in Seq(UploadFiles)
    /\ SizeOf(files) <= TotalLimit
    /\ \A i \in DOMAIN files : files[i].size <= FileLimit
    /\ \A i, j \in DOMAIN files : Folded(files[i].name) = Folded(files[j].name) => i = j

(* Of the file at hand, only what was read is there. *)
StagedSoFar(u) ==
    IF up[u].phase = "reading"
    THEN /\ up[u].file \in DOMAIN FilesOf(u) /\ up[u].got <= FileNow(u).size
         /\ Len(staging[u]) = up[u].file
         /\ staging[u][up[u].file] = [name |-> FileNow(u).name, size |-> up[u].got]
    ELSE Len(staging[u]) = up[u].file - 1

RouteFits(u) ==
    up[u].phase \in {"streaming", "reading", "submitting"} =>
        /\ u \in DOMAIN staging
        /\ up[u].file \in 1 .. Len(FilesOf(u)) + 1
        /\ InBudget(staging[u]) /\ SizeOf(staging[u]) = up[u].total
        /\ StagedSoFar(u)
        /\ up[u].phase = "submitting" => up[u].file = Len(FilesOf(u)) + 1
        /\ \A i \in 1 .. up[u].file - 1 : staging[u][i] = FilesOf(u)[i]

AcceptedFits(one) ==
    /\ up[one.by].phase # "idle"
    /\ InBudget(one.files) /\ one.files = up[one.by].body.files

IBudget ==
    /\ \A u \in Uploads : LimiterFits(u) /\ RouteFits(u)
    /\ \A one \in accepted : AcceptedFits(one)
=============================================================================
