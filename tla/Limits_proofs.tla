---------------------------- MODULE Limits_proofs ----------------------------
(***************************************************************************)
(* The two services that bound what they are given.  That what a server    *)
(* hears of an upload is one response, of the application or of the        *)
(* limiter; that its staging directory is gone by then unless it could not *)
(* be removed, and which answers a submission gets; and that what is       *)
(* submitted for a job is the body of a request, within the limits.  And   *)
(* that a bounded run of a child is honest, for any descendants and any    *)
(* output: each step of the child, of its descendants, of the reader and   *)
(* of the caller keeps IProcess.                                           *)
(***************************************************************************)
EXTENDS Upload, BoundedProcess, FiniteSetTheorems, SequenceTheorems, WellFoundedInduction, TLAPS

(* OneResponse of one request. *)
Heard(u) ==
    LET out == sending[u].messages
    IN  /\ out \in {<<>>, Start("application"), Whole("application"), Whole("limiter")}
        /\ up[u].phase = "answered" =>
              IF up[u].code = "escaped" THEN out = <<>>
              ELSE out \in {Whole("application"), Whole("limiter")}
        /\ up[u].exceeded => out \in {<<>>, Whole("limiter")}

Fits(u) == Heard(u) /\ StagedInRoute(u) /\ CodeFits(u) /\ SawFits(u) /\ SendingFits(u)

(* The submission of this request, if it was the one accepted. *)
SubmittedFits(u) == \A one \in accepted : one.by = u => SubmissionFits(one)

-----------------------------------------------------------------------------
(* Updates of the record of a request: what they make of the fields that   *)
(* matter here.                                                            *)
Becomes(r, phase, exceeded, saw, code) ==
    /\ r \in UploadRequests
    /\ r.phase = phase /\ r.exceeded = exceeded /\ r.saw = saw /\ r.code = code

(* The updates that change the phase and fields that do not matter.        *)
LEMMA Advances ==
  ASSUME NEW r \in UploadRequests, NEW phase \in UploadPhases, NEW n \in Nat
  PROVE  /\ Becomes([r EXCEPT !.phase = phase], phase, r.exceeded, r.saw, r.code)
         /\ \A body \in Bodies :
               Becomes([r EXCEPT !.phase = phase, !.body = body], phase, r.exceeded, r.saw, r.code)
         /\ Becomes([r EXCEPT !.phase = phase, !.file = n], phase, r.exceeded, r.saw, r.code)
         /\ Becomes([r EXCEPT !.phase = phase, !.got = n], phase, r.exceeded, r.saw, r.code)
BY DEF UploadRequests, Becomes

(* Progress within a file.                                                 *)
LEMMA Counts ==
  ASSUME NEW r \in UploadRequests, NEW got \in Nat, NEW total \in Nat
  PROVE  Becomes([r EXCEPT !.got = got, !.total = total], r.phase, r.exceeded, r.saw, r.code)
BY DEF UploadRequests, Becomes

(* What is received, what is seen of the job, and what is decided.         *)
LEMMA Decides ==
  ASSUME NEW r \in UploadRequests, NEW phase \in UploadPhases, NEW n \in Nat,
         NEW exceeded \in BOOLEAN, NEW saw \in SourcesStates, NEW code \in UploadCodes
  PROVE  /\ Becomes([r EXCEPT !.phase = phase, !.code = code], phase, r.exceeded, r.saw, code)
         /\ Becomes([r EXCEPT !.phase = phase, !.saw = saw], phase, r.exceeded, saw, r.code)
         /\ Becomes([r EXCEPT !.received = n, !.exceeded = exceeded, !.phase = phase],
                    phase, exceeded, r.saw, r.code)
BY DEF UploadRequests, Becomes

(* A step of a request is an update of its record.                         *)
LEMMA Updated ==
  ASSUME UploadTyped, NEW u \in Uploads, NEW r \in UploadRequests, up' = [up EXCEPT ![u] = r]
  PROVE  /\ up' \in [Uploads -> UploadRequests] /\ up'[u] = r
         /\ \A v \in Uploads \ {u} : up'[v] = up[v]
BY DEF UploadTyped

(* What the invariant says of one request.                                 *)
LEMMA FitsNow ==
  ASSUME IUpload, NEW u \in Uploads
  PROVE  /\ Fits(u) /\ SubmittedFits(u)
         /\ up[u] \in UploadRequests /\ up[u].phase \in UploadPhases /\ up[u].code \in UploadCodes
         /\ sourcesState \in SourcesStates
<1>1. Heard(u) BY DEF IUpload, OneResponse, Heard
<1>2. up[u] \in UploadRequests BY DEF IUpload, UploadTyped
<1> QED BY <1>1, <1>2 DEF IUpload, Fits, SubmittedFits, UploadTyped, UploadRequests

(* While it is at work, a request has no submission to answer for, and one *)
(* that was cut off is on its way out.                                     *)
LEMMA WorkIsOpen ==
  ASSUME IUpload, NEW u \in Uploads, AtWork(u)
  PROVE  /\ up[u].code = "none" /\ sending[u] = Silent
         /\ up[u].exceeded => up[u].phase = "unwinding"
         /\ \A one \in accepted : one.by # u
<1>1. Fits(u) /\ SubmittedFits(u) BY FitsNow
<1> QED BY <1>1 DEF Fits, CodeFits, SendingFits, SubmittedFits, SubmissionFits, AtWork

(* A step of one request, that moves neither the job nor a directory of    *)
(* another request.                                                        *)
LEMMA StepKeeps ==
  ASSUME IUpload, NEW u \in Uploads,
         up' \in [Uploads -> UploadRequests], \A v \in Uploads \ {u} : up'[v] = up[v],
         sending' = [v \in Uploads |-> sending'[v]],
         \A v \in Uploads \ {u} : sending'[v] = sending[v],
         DOMAIN staging' \ {u} = DOMAIN staging \ {u},
         UNCHANGED <<accepted, sourcesState, stuck>>,
         Fits(u)', SubmittedFits(u)', u \in LeftBehind' <=> u \in LeftBehind
  PROVE  IUpload'
<1>1. UploadTyped' BY DEF IUpload, UploadTyped
<1>2. ASSUME NEW v \in Uploads PROVE Fits(v)'
  <2>1. Fits(v) BY FitsNow
  <2>2. CASE v # u
    <3>1. /\ up'[v] = up[v] /\ sending'[v] = sending[v]
          /\ v \in DOMAIN staging' <=> v \in DOMAIN staging
      BY <2>2
    <3>2. Heard(v)' BY <2>1, <3>1 DEF Fits, Heard
    <3>3. SendingFits(v)' BY <2>1, <3>1 DEF Fits, SendingFits, AtWork
    <3>4. StagedInRoute(v)' BY <2>1, <3>1 DEF Fits, StagedInRoute
    <3>5. CodeFits(v)' /\ SawFits(v)'
      BY <2>1, <3>1 DEF Fits, CodeFits, AtWork, Raced, SawFits
    <3> QED BY <3>2, <3>3, <3>4, <3>5 DEF Fits
  <2> QED BY <2>2
<1>3. OneResponse' BY <1>2 DEF OneResponse, Fits, Heard
<1>4. ASSUME NEW one \in accepted PROVE SubmissionFits(one)'
  <2>1. SubmissionFits(one) BY DEF IUpload
  <2>2. CASE one.by = u BY <2>2 DEF SubmittedFits
  <2>3. CASE one.by # u BY <2>1, <2>3 DEF SubmissionFits, AtWork
  <2> QED BY <2>2, <2>3
<1>5. LeftBehind' = LeftBehind
  <2>1. LeftBehind' \subseteq Uploads /\ LeftBehind \subseteq Uploads
    BY <1>1 DEF LeftBehind, IUpload, UploadTyped
  <2>2. ASSUME NEW v \in Uploads PROVE v \in LeftBehind' <=> v \in LeftBehind
    BY DEF LeftBehind
  <2> QED BY <2>1, <2>2
<1> QED BY <1>1, <1>2, <1>3, <1>4, <1>5 DEF IUpload, Fits

(* A step that only moves a request on, saying nothing.                    *)
MovesTo(u, r) ==
    /\ r \in UploadRequests /\ r.phase \notin Answering \cup {"cleaning"} /\ r.code = "none"
    /\ r.exceeded => r.phase = "unwinding"
    /\ (r.saw = up[u].saw /\ r.phase # "submitting") \/ r.saw = sourcesState

LEMMA PhaseKeeps ==
  ASSUME IUpload, NEW u \in Uploads, AtWork(u), NEW r, MovesTo(u, r), up' = [up EXCEPT ![u] = r],
         r.phase \in {"streaming", "reading", "submitting"} \/ u \notin DOMAIN staging', Quiets,
         DOMAIN staging' \ {u} = DOMAIN staging \ {u}, UNCHANGED <<accepted, sourcesState, stuck>>
  PROVE  IUpload'
<1>1. /\ up' \in [Uploads -> UploadRequests] /\ up'[u] = r
      /\ \A v \in Uploads \ {u} : up'[v] = up[v]
  BY Updated DEF MovesTo, IUpload
<1>2. Fits(u) /\ sending[u] = Silent /\ sending'[u] = Silent /\ sourcesState \in SourcesStates
  BY FitsNow, WorkIsOpen DEF Quiets
<1>3. Heard(u)' BY <1>1, <1>2 DEF Heard, MovesTo, Silent, Answering
<1>4. StagedInRoute(u)' BY <1>1, <1>2 DEF StagedInRoute, MovesTo, Answering
<1>5. CodeFits(u)' BY <1>1 DEF CodeFits, AtWork, MovesTo, Answering
<1>6. SawFits(u)' BY <1>1, <1>2 DEF Fits, SawFits, MovesTo, SourcesStates
<1>7. SendingFits(u)' BY <1>1, <1>2 DEF SendingFits, MovesTo, Answering
<1>8. SubmittedFits(u)' BY WorkIsOpen DEF SubmittedFits
<1>9. u \notin LeftBehind /\ u \notin LeftBehind' BY <1>1 DEF LeftBehind, AtWork, MovesTo
<1>10. sending' = [v \in Uploads |-> sending'[v]] BY DEF Quiets, IUpload, UploadTyped
<1> QED BY <1>1, <1>3, <1>4, <1>5, <1>6, <1>7, <1>8, <1>9, <1>10, StepKeeps DEF Fits, Quiets

(* The limiter answers: before the application is called, or after it, in  *)
(* place of a response that was dropped.                                   *)
LEMMA DenyKeeps ==
  ASSUME IUpload, NEW u \in Uploads, Deny(u), Rests, sending[u] = Silent,
         \A one \in accepted : one.by # u, up[u].phase \in {"sent", "returned", "raised"}
  PROVE  IUpload'
<1> DEFINE r == [up[u] EXCEPT !.phase = "answered", !.code = "UPLOAD_REQUEST_LIMIT"]
<1>1. /\ up[u] \in UploadRequests /\ Fits(u)
      /\ "UPLOAD_REQUEST_LIMIT" \in UploadCodes /\ "answered" \in UploadPhases
  BY FitsNow DEF UploadCodes, UploadPhases
<1>2. Becomes(r, "answered", up[u].exceeded, up[u].saw, "UPLOAD_REQUEST_LIMIT")
  <2>1. 0 \in Nat /\ TRUE \in BOOLEAN /\ "early" \in SourcesStates BY DEF SourcesStates
  <2> QED BY <1>1, <2>1, Decides
<1>3. up' = [up EXCEPT ![u] = r] BY DEF Deny
<1> HIDE DEF r
<1>4. /\ up' \in [Uploads -> UploadRequests] /\ up'[u] = r
      /\ \A v \in Uploads \ {u} : up'[v] = up[v]
  BY <1>2, <1>3, Updated DEF Becomes, IUpload
<1>5. UNCHANGED <<staging, accepted, sourcesState, stuck>> BY DEF Rests
<1>6. /\ sending' = [v \in Uploads |-> sending'[v]] /\ sending'[u].messages = Whole("limiter")
      /\ \A v \in Uploads \ {u} : sending'[v] = sending[v]
  <2>1. sending = [v \in Uploads |-> sending[v]] BY DEF IUpload, UploadTyped
  <2>2. sending[u].messages = <<>> BY DEF Silent
  <2>3. <<>> \o Whole("limiter") = Whole("limiter") BY DEF Whole
  <2>4. sending' = [sending EXCEPT ![u].messages = Whole("limiter")]
    BY <2>2, <2>3 DEF Deny
  <2> HIDE DEF Whole
  <2>5. sending[u] = [messages |-> <<>>, responseStarted |-> FALSE] BY DEF Silent
  <2>6. [sending[u] EXCEPT !.messages = Whole("limiter")].messages = Whole("limiter") BY <2>5
  <2>7. sending' = [sending EXCEPT ![u] = [sending[u] EXCEPT !.messages = Whole("limiter")]]
    BY <2>4
  <2>8. sending'[u] = [sending[u] EXCEPT !.messages = Whole("limiter")]
    BY <2>1, <2>7
  <2> QED BY <2>1, <2>6, <2>7, <2>8
<1>7. Heard(u)' BY <1>2, <1>4, <1>6 DEF Heard, Becomes
<1>8. StagedInRoute(u)' BY <1>2, <1>4 DEF StagedInRoute, Becomes, Answering
<1>9. CodeFits(u)' BY <1>2, <1>4 DEF CodeFits, AtWork, Becomes, Answering
<1>10. SawFits(u)' BY <1>1, <1>2, <1>4, <1>5 DEF Fits, SawFits, Becomes
<1>11. SendingFits(u)' BY <1>2, <1>4 DEF SendingFits, AtWork, Becomes, Answering
<1>12. SubmittedFits(u)' BY <1>5 DEF SubmittedFits
<1>13. u \in LeftBehind' <=> u \in LeftBehind
  <2>1. up'[u].phase = "answered" BY <1>2, <1>4 DEF Becomes
  <2>2. up[u].phase = "sent" => u \notin DOMAIN staging BY <1>1 DEF Fits, StagedInRoute, Answering
  <2> QED BY <1>5, <2>1, <2>2 DEF LeftBehind, Answering
<1> QED
  BY <1>4, <1>5, <1>6, <1>7, <1>8, <1>9, <1>10, <1>11, <1>12, <1>13, StepKeeps DEF Fits

(* A response is decided before anything is staged, or the application     *)
(* raises.                                                                 *)
LEMMA EarlyEndKeeps ==
  ASSUME IUpload, NEW u \in Uploads, up[u].phase \in {"unwinding", "parsed"}, NEW r, NEW phase,
         NEW code, Becomes(r, phase, up[u].exceeded, up[u].saw, code),
         \/ phase = "starting" /\ code \notin {"none", "escaped", "ok"}
         \/ phase = "raised" /\ code = "none",
         up' = [up EXCEPT ![u] = r], Quiets, UNCHANGED <<staging, accepted, sourcesState, stuck>>
  PROVE  IUpload'
<1>1. /\ up' \in [Uploads -> UploadRequests] /\ up'[u] = r
      /\ \A v \in Uploads \ {u} : up'[v] = up[v]
  BY Updated DEF Becomes, IUpload
<1>2. AtWork(u) BY DEF AtWork, Answering
<1>3. Fits(u) /\ sending[u] = Silent /\ sending'[u] = Silent BY <1>2, FitsNow, WorkIsOpen DEF Quiets
<1>4. u \notin DOMAIN staging BY <1>3 DEF Fits, StagedInRoute, Answering
<1>5. Heard(u)' BY <1>1, <1>3 DEF Heard, Becomes, Silent
<1>6. StagedInRoute(u)' BY <1>1, <1>4 DEF StagedInRoute
<1>7. CodeFits(u)' BY <1>1 DEF CodeFits, AtWork, Becomes, Answering
<1>8. SawFits(u)' BY <1>1, <1>3 DEF Fits, SawFits, Becomes
<1>9. SendingFits(u)' BY <1>1, <1>3 DEF SendingFits, AtWork, Becomes, Answering
<1>10. SubmittedFits(u)' BY <1>2, WorkIsOpen DEF SubmittedFits
<1>11. u \notin LeftBehind /\ u \notin LeftBehind' BY <1>4 DEF LeftBehind
<1>12. sending' = [v \in Uploads |-> sending'[v]] BY DEF Quiets, IUpload, UploadTyped
<1> QED BY <1>1, <1>5, <1>6, <1>7, <1>8, <1>9, <1>10, <1>11, <1>12, StepKeeps DEF Fits, Quiets

(* The route gives up, or finds nothing to submit: the code is set, the    *)
(* response comes after the clean-up.                                      *)
LEMMA RefusalKeeps ==
  ASSUME IUpload, NEW u \in Uploads, up[u].phase \in {"streaming", "reading", "submitting"},
         NEW code \in UploadCodes, Unwinds(u, code), code \notin {"none", "escaped"},
         code = "ok" => Raced(u), Quiets, UNCHANGED <<staging, accepted, sourcesState, stuck>>
  PROVE  IUpload'
<1> DEFINE r == [up[u] EXCEPT !.phase = "cleaning", !.code = code]
<1>1. AtWork(u) BY DEF AtWork, Answering
<1>2. /\ up[u] \in UploadRequests /\ Fits(u) /\ sending[u] = Silent /\ sending'[u] = Silent
      /\ ~up[u].exceeded
  BY <1>1, FitsNow, WorkIsOpen DEF Quiets
<1>3. Becomes(r, "cleaning", up[u].exceeded, up[u].saw, code)
  <2>1. 0 \in Nat /\ TRUE \in BOOLEAN /\ "early" \in SourcesStates /\ "cleaning" \in UploadPhases
    BY DEF SourcesStates, UploadPhases
  <2> QED BY <1>2, <2>1, Decides
<1>4. up' = [up EXCEPT ![u] = r] BY DEF Unwinds
<1> HIDE DEF r
<1>5. /\ up' \in [Uploads -> UploadRequests] /\ up'[u] = r
      /\ \A v \in Uploads \ {u} : up'[v] = up[v]
  BY <1>3, <1>4, Updated DEF Becomes, IUpload
<1>6. Heard(u)' BY <1>2, <1>3, <1>5 DEF Heard, Becomes, Silent
<1>7. StagedInRoute(u)' BY <1>3, <1>5 DEF StagedInRoute, Becomes
<1>8. CodeFits(u)' BY <1>3, <1>5 DEF CodeFits, AtWork, Becomes, Raced
<1>9. SawFits(u)' BY <1>2, <1>3, <1>5 DEF Fits, SawFits, Becomes
<1>10. SendingFits(u)' BY <1>2, <1>3, <1>5 DEF SendingFits, AtWork, Becomes
<1>11. SubmittedFits(u)' BY <1>1, WorkIsOpen DEF SubmittedFits
<1>12. u \notin LeftBehind /\ u \notin LeftBehind'
  BY <1>3, <1>5 DEF LeftBehind, Answering, Becomes
<1>13. sending' = [v \in Uploads |-> sending'[v]] BY DEF Quiets, IUpload, UploadTyped
<1> QED
  BY <1>5, <1>6, <1>7, <1>8, <1>9, <1>10, <1>11, <1>12, <1>13, StepKeeps DEF Fits, Quiets

-----------------------------------------------------------------------------
(* The steps before the route, and those that go on within it.             *)
LEMMA SendBodyKeeps == ASSUME IUpload, NEW u \in Uploads, SendBody(u) PROVE IUpload'
<1>1. AtWork(u) /\ up[u] \in UploadRequests /\ StagedInRoute(u)
  BY FitsNow DEF SendBody, AtWork, Answering, Fits
<1>2. PICK body \in Bodies : up' = [up EXCEPT ![u].phase = "sent", ![u].body = body]
  BY DEF SendBody
<1> DEFINE r == [up[u] EXCEPT !.phase = "sent", !.body = body]
<1>3. Becomes(r, "sent", up[u].exceeded, up[u].saw, "none")
  BY <1>1, Advances, WorkIsOpen, 0 \in Nat DEF UploadPhases
<1>4. up' = [up EXCEPT ![u] = r] BY <1>2
<1> HIDE DEF r
<1>5. MovesTo(u, r)
  <2>1. ~up[u].exceeded BY <1>1, WorkIsOpen DEF SendBody
  <2> QED BY <1>3, <2>1 DEF MovesTo, Becomes, Answering
<1>6. u \notin DOMAIN staging' /\ Quiets /\ UNCHANGED <<staging, accepted, sourcesState, stuck>>
  BY <1>1 DEF SendBody, Rests, StagedInRoute, Answering
<1> QED BY <1>1, <1>4, <1>5, <1>6, PhaseKeeps

(* A step of the limiter that sends no response.                           *)
LEMMA GoesKeeps ==
  ASSUME IUpload, NEW u \in Uploads, NEW phase \in {"receiving", "unwinding"},
         up[u].phase \in {"sent", "receiving"}, up' = Goes(u, phase), Quiets, Rests
  PROVE  IUpload'
<1> DEFINE r == [up[u] EXCEPT !.phase = phase]
<1>1. AtWork(u) /\ up[u] \in UploadRequests /\ StagedInRoute(u)
  BY FitsNow DEF AtWork, Answering, Fits
<1>2. Becomes(r, phase, up[u].exceeded, up[u].saw, "none")
  BY <1>1, Advances, WorkIsOpen, 0 \in Nat DEF UploadPhases
<1>3. up' = [up EXCEPT ![u] = r] BY DEF Goes
<1> HIDE DEF r
<1>4. MovesTo(u, r)
  <2>1. ~up[u].exceeded BY <1>1, WorkIsOpen
  <2> QED BY <1>2, <2>1 DEF MovesTo, Becomes, Answering
<1>5. u \notin DOMAIN staging' /\ UNCHANGED <<staging, accepted, sourcesState, stuck>>
  BY <1>1 DEF Rests, StagedInRoute, Answering
<1> QED BY <1>1, <1>3, <1>4, <1>5, PhaseKeeps

(* The header is looked at.                                                *)
LEMMA AdmitKeeps == ASSUME IUpload, NEW u \in Uploads, Admit(u) PROVE IUpload'
<1>1. CASE Deny(u)
  <2>1. AtWork(u) BY DEF Admit, AtWork, Answering
  <2> QED BY <1>1, <2>1, WorkIsOpen, DenyKeeps DEF Admit
<1>2. CASE up' = Goes(u, "receiving") /\ Quiets BY <1>2, GoesKeeps DEF Admit
<1> QED BY <1>1, <1>2 DEF Admit

(* A chunk is received, within the limit or past it.                       *)
LEMMA ReceiveKeeps == ASSUME IUpload, NEW u \in Uploads, Receive(u) PROVE IUpload'
<1>1. AtWork(u) /\ up[u] \in UploadRequests /\ StagedInRoute(u)
  BY FitsNow DEF Receive, AtWork, Answering, Fits
<1> DEFINE received == up[u].received + 1
           exceeded == received > RequestLimit
           phase == IF exceeded THEN "unwinding"
                    ELSE IF received = BodySize(up[u].body) THEN "parsed" ELSE "receiving"
           r == [up[u] EXCEPT !.received = received, !.exceeded = exceeded, !.phase = phase]
<1>2. up' = [up EXCEPT ![u] = r] BY DEF Receive
<1>3. received \in Nat /\ exceeded \in BOOLEAN BY <1>1 DEF UploadRequests
<1>4. phase \in {"unwinding", "parsed", "receiving"} /\ (exceeded => phase = "unwinding") OBVIOUS
<1> HIDE DEF received, exceeded, phase
<1>5. Becomes(r, phase, exceeded, up[u].saw, "none")
  <2>1. phase \in UploadPhases /\ "early" \in SourcesStates /\ "none" \in UploadCodes
    BY <1>4 DEF UploadPhases, SourcesStates, UploadCodes
  <2>2. up[u].code = "none" BY <1>1, WorkIsOpen
  <2> QED BY <1>1, <1>3, <2>1, <2>2, Decides
<1> HIDE DEF r
<1>6. u \notin DOMAIN staging' /\ Quiets /\ UNCHANGED <<staging, accepted, sourcesState, stuck>>
  BY <1>1 DEF Receive, Rests, StagedInRoute, Answering
<1>7. MovesTo(u, r) BY <1>4, <1>5 DEF MovesTo, Becomes, Answering
<1> QED BY <1>1, <1>2, <1>6, <1>7, PhaseKeeps

(* The route or the parser decides on an answer; nothing is staged.        *)
LEMMA RespondKeeps ==
  ASSUME IUpload, NEW u \in Uploads, up[u].phase \in {"unwinding", "parsed"},
         NEW code \in UploadCodes, code \notin {"none", "escaped", "ok"},
         up' = [up EXCEPT ![u].phase = "starting", ![u].code = code],
         Quiets, UNCHANGED <<staging, accepted, sourcesState, stuck>>
  PROVE  IUpload'
<1> DEFINE r == [up[u] EXCEPT !.phase = "starting", !.code = code]
<1>1. Becomes(r, "starting", up[u].exceeded, up[u].saw, code)
  <2>1. /\ up[u] \in UploadRequests /\ "starting" \in UploadPhases /\ 0 \in Nat /\ TRUE \in BOOLEAN
        /\ "early" \in SourcesStates
    BY FitsNow DEF UploadPhases, SourcesStates
  <2> QED BY <2>1, Decides
<1>2. up' = [up EXCEPT ![u] = r] OBVIOUS
<1> HIDE DEF r
<1> QED BY <1>1, <1>2, EarlyEndKeeps

(* Or raises.                                                              *)
LEMMA RaiseKeeps ==
  ASSUME IUpload, NEW u \in Uploads, up[u].phase \in {"unwinding", "parsed"}, up' = Goes(u, "raised"),
         Quiets, UNCHANGED <<staging, accepted, sourcesState, stuck>>
  PROVE  IUpload'
<1> DEFINE r == [up[u] EXCEPT !.phase = "raised"]
<1>1. AtWork(u) BY DEF AtWork, Answering
<1>2. Becomes(r, "raised", up[u].exceeded, up[u].saw, "none")
  BY <1>1, FitsNow, Advances, WorkIsOpen, 0 \in Nat DEF UploadPhases
<1>3. up' = [up EXCEPT ![u] = r] BY DEF Goes
<1> HIDE DEF r
<1> QED BY <1>2, <1>3, EarlyEndKeeps

LEMMA UnwindKeeps == ASSUME IUpload, NEW u \in Uploads, Unwind(u) PROVE IUpload'
<1>1. /\ up[u].phase = "unwinding" /\ Quiets /\ UNCHANGED <<staging, accepted, sourcesState, stuck>>
      /\ "BAD_BODY" \in UploadCodes
  BY DEF Unwind, Rests, UploadCodes
<1>2. CASE up' = Goes(u, "raised") BY <1>1, <1>2, RaiseKeeps
<1>3. CASE up' = [up EXCEPT ![u].phase = "starting", ![u].code = "BAD_BODY"]
  BY <1>1, <1>3, RespondKeeps
<1> QED BY <1>2, <1>3 DEF Unwind

-----------------------------------------------------------------------------
(* The route. *)
LEMMA StageKeeps == ASSUME IUpload, NEW u \in Uploads, Stage(u) PROVE IUpload'
<1>1. /\ AtWork(u) /\ up[u].phase = "parsed" /\ Quiets /\ UNCHANGED <<accepted, sourcesState, stuck>>
  BY DEF Stage, AtWork, Answering
<1>2. CASE /\ DOMAIN staging' = DOMAIN staging \cup {u}
           /\ up' = [up EXCEPT ![u].phase = "streaming", ![u].file = 1]
  <2> DEFINE r == [up[u] EXCEPT !.phase = "streaming", !.file = 1]
  <2>1. up[u] \in UploadRequests /\ up[u].code = "none" /\ ~up[u].exceeded
    BY <1>1, FitsNow, WorkIsOpen
  <2>2. Becomes(r, "streaming", up[u].exceeded, up[u].saw, "none")
    BY <2>1, Advances, 1 \in Nat DEF UploadPhases
  <2>3. up' = [up EXCEPT ![u] = r] BY <1>2
  <2> HIDE DEF r
  <2>4. MovesTo(u, r) /\ r.phase = "streaming" BY <2>1, <2>2 DEF MovesTo, Becomes, Answering
  <2>5. DOMAIN staging' \ {u} = DOMAIN staging \ {u} BY <1>2
  <2> QED BY <1>1, <2>3, <2>4, <2>5, PhaseKeeps
<1>3. CASE /\ \E code \in {"UNKNOWN_JOB", "SUBMIT_SOURCES_FAILED"} : Respond(u, code)
           /\ UNCHANGED staging
  <2>1. PICK code \in {"UNKNOWN_JOB", "SUBMIT_SOURCES_FAILED"} : Respond(u, code) BY <1>3
  <2>2. code \in UploadCodes /\ code \notin {"none", "escaped", "ok"} BY DEF UploadCodes
  <2> QED BY <1>1, <1>3, <2>1, <2>2, RespondKeeps DEF Respond
<1>4. CASE up' = Goes(u, "raised") /\ UNCHANGED staging BY <1>1, <1>4, RaiseKeeps
<1> QED BY <1>2, <1>3, <1>4 DEF Stage

(* The next file of the body is begun, or refused for its name.            *)
LEMMA OpenFileKeeps == ASSUME IUpload, NEW u \in Uploads, OpenFile(u) PROVE IUpload'
<1>1. /\ AtWork(u) /\ up[u].phase = "streaming" /\ Quiets
      /\ UNCHANGED <<accepted, sourcesState, stuck>>
  BY DEF OpenFile, AtWork, Answering
<1>2. CASE NameCodes(u) # "none"
  <2>1. PICK code \in {"UPLOAD_UNSAFE_NAME", "UPLOAD_DUPLICATE_NAME"} : code = NameCodes(u)
    BY <1>2 DEF NameCodes
  <2>2. Unwinds(u, code) /\ UNCHANGED staging BY <1>2, <2>1 DEF OpenFile
  <2>3. code \in UploadCodes /\ code \notin {"none", "escaped", "ok"} BY DEF UploadCodes
  <2> QED BY <1>1, <2>2, <2>3, RefusalKeeps
<1>3. CASE NameCodes(u) = "none"
  <2> DEFINE r == [up[u] EXCEPT !.phase = "reading", !.got = 0]
  <2>1. up[u] \in UploadRequests /\ up[u].code = "none" /\ ~up[u].exceeded
    BY <1>1, FitsNow, WorkIsOpen
  <2>2. Becomes(r, "reading", up[u].exceeded, up[u].saw, "none")
    BY <2>1, Advances, 0 \in Nat DEF UploadPhases
  <2>3. up' = [up EXCEPT ![u] = r] BY <1>3 DEF OpenFile
  <2> HIDE DEF r
  <2>4. MovesTo(u, r) /\ r.phase = "reading" BY <2>1, <2>2 DEF MovesTo, Becomes, Answering
  <2>5. DOMAIN staging' \ {u} = DOMAIN staging \ {u} BY <1>3 DEF OpenFile
  <2> QED BY <1>1, <2>3, <2>4, <2>5, PhaseKeeps
<1> QED BY <1>2, <1>3

(* A chunk is staged, or a limit is passed.                                *)
LEMMA ReadChunkKeeps == ASSUME IUpload, NEW u \in Uploads, ReadChunk(u) PROVE IUpload'
<1>1. /\ AtWork(u) /\ up[u].phase = "reading" /\ Quiets
      /\ UNCHANGED <<accepted, sourcesState, stuck>>
  BY DEF ReadChunk, AtWork, Answering
<1>2. CASE \E code \in {"UPLOAD_FILE_LIMIT", "UPLOAD_TOTAL_LIMIT"} :
              Unwinds(u, code) /\ UNCHANGED staging
  <2>1. PICK code \in {"UPLOAD_FILE_LIMIT", "UPLOAD_TOTAL_LIMIT"} :
              Unwinds(u, code) /\ UNCHANGED staging
    BY <1>2
  <2>2. code \in UploadCodes /\ code \notin {"none", "escaped", "ok"} BY DEF UploadCodes
  <2> QED BY <1>1, <2>1, <2>2, RefusalKeeps
<1>3. CASE /\ up' = [up EXCEPT ![u].got = up[u].got + 1, ![u].total = up[u].total + 1]
           /\ DOMAIN staging' = DOMAIN staging
  <2> DEFINE got == up[u].got + 1
             total == up[u].total + 1
             r == [up[u] EXCEPT !.got = got, !.total = total]
  <2>1. up[u] \in UploadRequests /\ up[u].code = "none" BY <1>1, FitsNow, WorkIsOpen
  <2>2. up' = [up EXCEPT ![u] = r] BY <1>3
  <2>3. got \in Nat /\ total \in Nat BY <2>1 DEF UploadRequests
  <2> HIDE DEF got, total
  <2>4. Becomes(r, "reading", up[u].exceeded, up[u].saw, "none") BY <1>1, <2>1, <2>3, Counts
  <2> HIDE DEF r
  <2>5. MovesTo(u, r) /\ r.phase = "reading"
    <3>1. ~up[u].exceeded BY <1>1, WorkIsOpen
    <3> QED BY <2>4, <3>1 DEF MovesTo, Becomes, Answering
  <2>6. DOMAIN staging' \ {u} = DOMAIN staging \ {u} BY <1>3
  <2> QED BY <1>1, <2>2, <2>5, <2>6, PhaseKeeps
<1>4. \/ Unwinds(u, "UPLOAD_FILE_LIMIT") /\ UNCHANGED staging
      \/ Unwinds(u, "UPLOAD_TOTAL_LIMIT") /\ UNCHANGED staging
      \/ /\ up' = [up EXCEPT ![u].got = up[u].got + 1, ![u].total = up[u].total + 1]
         /\ staging' = [staging EXCEPT ![u][Len(staging[u])].size = @ + 1]
  BY DEF ReadChunk
<1>5. staging' = [staging EXCEPT ![u][Len(staging[u])].size = @ + 1] => DOMAIN staging' = DOMAIN staging
  OBVIOUS
<1> QED BY <1>2, <1>3, <1>4, <1>5

(* A file ends.                                                            *)
LEMMA CloseFileKeeps == ASSUME IUpload, NEW u \in Uploads, CloseFile(u) PROVE IUpload'
<1> DEFINE r == [up[u] EXCEPT !.phase = "streaming", !.file = up[u].file + 1]
<1>1. /\ AtWork(u) /\ up[u].phase = "reading" /\ Quiets
      /\ UNCHANGED <<staging, accepted, sourcesState, stuck>>
  BY DEF CloseFile, AtWork, Answering, Rests
<1>2. /\ up[u] \in UploadRequests /\ up[u].file + 1 \in Nat /\ up[u].code = "none"
      /\ ~up[u].exceeded
  BY <1>1, FitsNow, WorkIsOpen DEF UploadRequests
<1>3. Becomes(r, "streaming", up[u].exceeded, up[u].saw, "none") BY <1>2, Advances DEF UploadPhases
<1>4. up' = [up EXCEPT ![u] = r] BY DEF CloseFile
<1> HIDE DEF r
<1>5. MovesTo(u, r) /\ r.phase = "streaming" BY <1>2, <1>3 DEF MovesTo, Becomes, Answering
<1>6. DOMAIN staging' \ {u} = DOMAIN staging \ {u} BY <1>1
<1> QED BY <1>1, <1>4, <1>5, <1>6, PhaseKeeps

(* The disk refuses a chunk, or the submission.                            *)
LEMMA WriteFailsKeeps == ASSUME IUpload, NEW u \in Uploads, WriteFails(u) PROVE IUpload'
<1>1. "SUBMIT_SOURCES_FAILED" \in UploadCodes BY DEF UploadCodes
<1> QED BY <1>1, RefusalKeeps DEF WriteFails, Rests

(* The first look of a submission at its job.                              *)
LEMMA ReadForSubmissionKeeps ==
  ASSUME IUpload, NEW u \in Uploads, ReadForSubmission(u) PROVE IUpload'
<1> DEFINE r == [up[u] EXCEPT !.phase = "submitting", !.saw = sourcesState]
<1>1. /\ AtWork(u) /\ up[u].phase = "streaming" /\ Quiets
      /\ UNCHANGED <<staging, accepted, sourcesState, stuck>>
  BY DEF ReadForSubmission, AtWork, Answering, Rests
<1>2. Becomes(r, "submitting", up[u].exceeded, sourcesState, "none")
  <2>1. /\ up[u] \in UploadRequests /\ up[u].code = "none" /\ sourcesState \in SourcesStates
        /\ "submitting" \in UploadPhases /\ "none" \in UploadCodes /\ 0 \in Nat /\ TRUE \in BOOLEAN
    BY <1>1, FitsNow, WorkIsOpen DEF UploadPhases, UploadCodes
  <2> QED BY <2>1, Decides
<1>3. up' = [up EXCEPT ![u] = r] BY DEF ReadForSubmission
<1> HIDE DEF r
<1>4. MovesTo(u, r) /\ r.phase = "submitting"
  <2>1. ~up[u].exceeded BY <1>1, WorkIsOpen
  <2> QED BY <1>2, <2>1 DEF MovesTo, Becomes, Answering
<1>5. DOMAIN staging' \ {u} = DOMAIN staging \ {u} BY <1>1
<1> QED BY <1>1, <1>3, <1>4, <1>5, PhaseKeeps

(* The second look finds the job waiting already: the first one raced.     *)
LEMMA NothingToSubmitKeeps ==
  ASSUME IUpload, NEW u \in Uploads, NothingToSubmit(u) PROVE IUpload'
<1>1. /\ SawFits(u) /\ up[u] \in UploadRequests BY FitsNow DEF Fits
<1>2. Raced(u) BY <1>1 DEF NothingToSubmit, SawFits, Raced, UploadRequests, SourcesStates
<1>3. "ok" \in UploadCodes BY DEF UploadCodes
<1> QED BY <1>2, <1>3, RefusalKeeps DEF NothingToSubmit, Rests

(* A job that moves on: no request is worse off, and a submission that     *)
(* read it before has raced.                                               *)
LEMMA MovedOn ==
  ASSUME IUpload, NEW v \in Uploads, up'[v] = up[v], accepted \subseteq accepted',
         \/ sourcesState' = sourcesState
         \/ sourcesState = "early" /\ sourcesState' = "waiting"
         \/ sourcesState' = "past"
  PROVE  CodeFits(v)' /\ SawFits(v)'
<1>1. CodeFits(v) /\ SawFits(v) BY FitsNow DEF Fits
<1>2. Raced(v) => Raced(v)' BY DEF Raced
<1> QED BY <1>1, <1>2 DEF CodeFits, SawFits, AtWork

(* The one submission of the job.                                          *)
LEMMA PublishSourcesKeeps ==
  ASSUME IUpload, NEW u \in Uploads, PublishSources(u) PROVE IUpload'
<1> DEFINE r == [up[u] EXCEPT !.phase = "cleaning", !.code = "ok"]
<1>1. /\ AtWork(u) /\ up[u].phase = "submitting" /\ sending' = sending /\ accepted = {}
      /\ UNCHANGED <<staging, stuck>>
  BY DEF PublishSources, AtWork, Answering, Quiets
<1>2. /\ up[u] \in UploadRequests /\ Fits(u) /\ sending[u] = Silent /\ ~up[u].exceeded
      /\ sourcesState \in SourcesStates
  BY <1>1, FitsNow, WorkIsOpen
<1>3. Becomes(r, "cleaning", up[u].exceeded, up[u].saw, "ok")
  <2>1. /\ 0 \in Nat /\ TRUE \in BOOLEAN /\ "early" \in SourcesStates /\ "cleaning" \in UploadPhases
        /\ "ok" \in UploadCodes
    BY DEF SourcesStates, UploadPhases, UploadCodes
  <2> QED BY <1>2, <2>1, Decides
<1>4. up' = [up EXCEPT ![u] = r] BY DEF PublishSources, Unwinds
<1> HIDE DEF r
<1>5. /\ up' \in [Uploads -> UploadRequests] /\ up'[u] = r
      /\ \A v \in Uploads \ {u} : up'[v] = up[v]
  BY <1>3, <1>4, Updated DEF Becomes, IUpload
<1>6. /\ sourcesState' \in SourcesStates
      /\ \/ sourcesState' = sourcesState
         \/ sourcesState = "early" /\ sourcesState' = "waiting"
  BY <1>2 DEF PublishSources, SourcesStates
<1>7. UploadTyped' BY <1>1, <1>5, <1>6 DEF IUpload, UploadTyped
<1>8. PICK one : one = [by |-> u, files |-> staging[u]] OBVIOUS
<1>9. accepted' = {one} /\ one.by = u BY <1>8 DEF PublishSources
<1>10. ASSUME NEW v \in Uploads PROVE Fits(v)'
  <2>1. CASE v = u
    <3>1. Heard(u)' BY <1>1, <1>2, <1>3, <1>5 DEF Heard, Becomes, Silent
    <3>2. StagedInRoute(u)' BY <1>3, <1>5 DEF StagedInRoute, Becomes
    <3>3. CodeFits(u)' BY <1>3, <1>5, <1>9 DEF CodeFits, AtWork, Becomes
    <3>4. SawFits(u)' BY <1>2, <1>3, <1>5, <1>6 DEF Fits, SawFits, Becomes
    <3>5. SendingFits(u)' BY <1>1, <1>2, <1>3, <1>5 DEF SendingFits, AtWork, Becomes
    <3> QED BY <2>1, <3>1, <3>2, <3>3, <3>4, <3>5 DEF Fits
  <2>2. CASE v # u
    <3>1. /\ up'[v] = up[v] /\ sending'[v] = sending[v]
          /\ v \in DOMAIN staging' <=> v \in DOMAIN staging
      BY <1>1, <1>5, <2>2
    <3>2. Fits(v) BY FitsNow
    <3>3. Heard(v)' BY <3>1, <3>2 DEF Fits, Heard
    <3>4. SendingFits(v)' BY <3>1, <3>2 DEF Fits, SendingFits, AtWork
    <3>5. StagedInRoute(v)' BY <3>1, <3>2 DEF Fits, StagedInRoute
    <3>6. CodeFits(v)' /\ SawFits(v)' BY <1>1, <1>6, <3>1, MovedOn
    <3> QED BY <3>3, <3>4, <3>5, <3>6 DEF Fits
  <2> QED BY <2>1, <2>2
<1>11. OneResponse' BY <1>10 DEF OneResponse, Fits, Heard
<1>12. SubmissionFits(one)'
  BY <1>2, <1>3, <1>5, <1>9 DEF SubmissionFits, AtWork, Becomes
<1>13. LeftBehind' = LeftBehind
  BY <1>1, <1>3, <1>5 DEF LeftBehind, IUpload, UploadTyped, Becomes, Answering
<1> QED BY <1>1, <1>7, <1>9, <1>10, <1>11, <1>12, <1>13 DEF IUpload, Fits

(* Another caller moves the job.                                           *)
LEMMA OthersMoveJobKeeps == ASSUME IUpload, OthersMoveJob PROVE IUpload'
<1>1. UNCHANGED <<up, sending, staging, accepted, stuck>> BY DEF OthersMoveJob
<1>2. /\ sourcesState' \in SourcesStates
      /\ \/ sourcesState = "early" /\ sourcesState' = "waiting"
         \/ sourcesState' = "past"
  BY DEF OthersMoveJob, SourcesStates
<1>3. UploadTyped' BY <1>1, <1>2 DEF IUpload, UploadTyped
<1>4. OneResponse' BY <1>1 DEF IUpload, OneResponse
<1>5. ASSUME NEW v \in Uploads
      PROVE StagedInRoute(v)' /\ CodeFits(v)' /\ SawFits(v)' /\ SendingFits(v)'
  <2>1. CodeFits(v)' /\ SawFits(v)' BY <1>1, <1>2, MovedOn
  <2>2. StagedInRoute(v)' /\ SendingFits(v)'
    BY <1>1 DEF IUpload, StagedInRoute, SendingFits, AtWork
  <2> QED BY <2>1, <2>2
<1>6. ASSUME NEW one \in accepted PROVE SubmissionFits(one)'
  BY <1>1 DEF IUpload, SubmissionFits, AtWork
<1>7. LeftBehind' = LeftBehind BY <1>1 DEF LeftBehind
<1> QED BY <1>1, <1>3, <1>4, <1>5, <1>6, <1>7 DEF IUpload

-----------------------------------------------------------------------------
(* The answer goes out, message by message, unless the limiter drops it.   *)
LEMMA SpeaksKeeps ==
  ASSUME IUpload, NEW u \in Uploads, up[u].phase \in {"starting", "finishing"},
         NEW phase \in {"finishing", "returned"}, up' = Goes(u, phase), Rests, NEW messages,
         messages = IF phase = "finishing" THEN Start("application") ELSE Whole("application"),
         NEW said, said = (IF up[u].exceeded THEN Silent
                           ELSE [messages |-> messages, responseStarted |-> TRUE]),
         sending' = [sending EXCEPT ![u] = said]
  PROVE  IUpload'
<1> DEFINE r == [up[u] EXCEPT !.phase = phase]
<1>1. /\ up[u] \in UploadRequests /\ Fits(u) /\ SubmittedFits(u)
      /\ up[u].exceeded \in BOOLEAN /\ up[u].code \notin {"none", "escaped"}
  BY FitsNow DEF UploadRequests, Fits, CodeFits
<1>2. Becomes(r, phase, up[u].exceeded, up[u].saw, up[u].code)
  BY <1>1, Advances, 0 \in Nat DEF UploadPhases
<1>3. up' = [up EXCEPT ![u] = r] BY DEF Goes
<1> HIDE DEF r
<1>4. /\ up' \in [Uploads -> UploadRequests] /\ up'[u] = r
      /\ \A v \in Uploads \ {u} : up'[v] = up[v]
  BY <1>2, <1>3, Updated DEF Becomes, IUpload
<1>5. UNCHANGED <<staging, accepted, sourcesState, stuck>> BY DEF Rests
<1>6. /\ sending' = [v \in Uploads |-> sending'[v]] /\ sending'[u] = said
      /\ \A v \in Uploads \ {u} : sending'[v] = sending[v]
  <2>1. sending = [v \in Uploads |-> sending[v]] BY DEF IUpload, UploadTyped
  <2> QED BY <2>1
<1>7. Heard(u)'
  <2>1. said.messages \in {<<>>, Start("application"), Whole("application")}
    BY DEF Silent
  <2>2. up[u].exceeded => said.messages = <<>> BY DEF Silent
  <2> QED BY <1>2, <1>4, <1>6, <2>1, <2>2 DEF Heard, Becomes
<1>8. StagedInRoute(u)' BY <1>2, <1>4 DEF StagedInRoute, Becomes, Answering
<1>9. CodeFits(u)' BY <1>1, <1>2, <1>4, <1>5 DEF Fits, CodeFits, AtWork, Becomes, Answering, Raced
<1>10. SawFits(u)' BY <1>1, <1>2, <1>4, <1>5 DEF Fits, SawFits, Becomes
<1>11. SendingFits(u)' BY <1>2, <1>4, <1>6 DEF SendingFits, AtWork, Becomes, Answering
<1>12. SubmittedFits(u)'
  BY <1>1, <1>2, <1>4, <1>5 DEF SubmittedFits, SubmissionFits, AtWork, Becomes, Answering
<1>13. u \in LeftBehind' <=> u \in LeftBehind
  BY <1>2, <1>4, <1>5 DEF LeftBehind, Becomes, Answering
<1> QED
  BY <1>4, <1>5, <1>6, <1>7, <1>8, <1>9, <1>10, <1>11, <1>12, <1>13, StepKeeps DEF Fits

(* What it makes of the record of what was said. *)
LEMMA SaidRecord ==
  ASSUME NEW before, NEW started \in BOOLEAN, NEW longer, NEW s,
         s = [messages |-> before, responseStarted |-> started]
  PROVE  [s EXCEPT !.messages = longer, !.responseStarted = TRUE]
         = [messages |-> longer, responseStarted |-> TRUE]
<1> DEFINE R == [messages : {before, longer}, responseStarted : BOOLEAN]
           t == [s EXCEPT !.messages = longer, !.responseStarted = TRUE]
<1>1. s \in R OBVIOUS
<1>2. t \in R /\ t.messages = longer /\ t.responseStarted = TRUE BY <1>1
<1>3. [messages |-> longer, responseStarted |-> TRUE] \in R OBVIOUS
<1>4. \A x \in R : \A y \in R :
         x.messages = y.messages /\ x.responseStarted = y.responseStarted => x = y
  OBVIOUS
<1> QED BY <1>2, <1>3, <1>4

(* A second message.                                                       *)
LEMMA AppendOne ==
  ASSUME NEW first, NEW second
  PROVE  Append(<<first>>, second) = <<first, second>>
<1>1. PICK S : first \in S /\ second \in S
  <2>1. first \in {first, second} /\ second \in {first, second} OBVIOUS
  <2> QED BY <2>1
<1>2. PICK one : one = <<first>> OBVIOUS
<1>3. one \in Seq(S) /\ Len(one) = 1 /\ one[1] = first BY <1>1, <1>2
<1>4. PICK longer : longer = Append(one, second) OBVIOUS
<1>5. Len(longer) = 2
  <2>1. Len(Append(one, second)) = Len(one) + 1 BY <1>1, <1>3, AppendProperties
  <2> QED BY <1>3, <1>4, <2>1
<1>6. longer[2] = second
  <2>1. Append(one, second)[Len(one) + 1] = second BY <1>1, <1>3, AppendProperties
  <2> QED BY <1>3, <1>4, <2>1
<1>7. Append(one, second)[1] = first /\ Append(one, second) \in Seq(S)
  BY <1>1, <1>3, AppendProperties
<1>8. PICK two : two = <<first, second>> OBVIOUS
<1>9. two \in Seq(S) /\ Len(two) = 2 /\ two[1] = first /\ two[2] = second BY <1>1, <1>8
<1>10. longer \in Seq(S) /\ Len(longer) = 2 /\ longer[1] = first /\ longer[2] = second
  BY <1>4, <1>5, <1>6, <1>7
<1>11. longer = two BY <1>9, <1>10
<1> QED BY <1>2, <1>4, <1>8, <1>11

(* limited_send, given what was said before.                               *)
LEMMA Says ==
  ASSUME NEW u \in Uploads, NEW part \in {"start", "rest"}, NEW before, NEW started \in BOOLEAN,
         started \/ part = "start", sending = [v \in Uploads |-> sending[v]],
         sending[u] = (IF up[u].exceeded THEN Silent
                       ELSE [messages |-> before, responseStarted |-> started]),
         LimitedSend(u, part)
  PROVE  sending' = [sending EXCEPT ![u] =
                        IF up[u].exceeded THEN Silent
                        ELSE [messages |-> Append(before, Message("application", part)),
                              responseStarted |-> TRUE]]
<1>1. CASE up[u].exceeded
  <2>1. sending' = sending BY <1>1 DEF LimitedSend, Silent
  <2> QED BY <1>1, <2>1
<1>2. CASE ~up[u].exceeded
  <2>1. sending[u] = [messages |-> before, responseStarted |-> started] BY <1>2
  <2>2. (sending[u].responseStarted \/ part = "start") = TRUE BY <2>1
  <2>3. sending[u].messages = before BY <2>1
  <2>4. sending' = [sending EXCEPT ![u].messages = Append(before, Message("application", part)),
                                   ![u].responseStarted = TRUE]
    BY <1>2, <2>2, <2>3 DEF LimitedSend
  <2>5. \A longer : [sending[u] EXCEPT !.messages = longer, !.responseStarted = TRUE]
                    = [messages |-> longer, responseStarted |-> TRUE]
    BY <2>1, SaidRecord
  <2> QED BY <1>2, <2>4, <2>5
<1> QED BY <1>1, <1>2

(* The start of a response. *)
LEMMA SendStartKeeps == ASSUME IUpload, NEW u \in Uploads, SendStart(u) PROVE IUpload'
<1>1. /\ up[u].phase = "starting" /\ up' = Goes(u, "finishing") /\ LimitedSend(u, "start") /\ Rests
  BY DEF SendStart
<1>2. sending[u] = Silent /\ sending = [v \in Uploads |-> sending[v]]
  BY <1>1, FitsNow DEF Fits, SendingFits, IUpload, UploadTyped
<1>3. sending[u] = IF up[u].exceeded THEN Silent
                   ELSE [messages |-> <<>>, responseStarted |-> FALSE]
  BY <1>2 DEF Silent
<1>4. sending' = [sending EXCEPT ![u] =
                     IF up[u].exceeded THEN Silent
                     ELSE [messages |-> Append(<<>>, Message("application", "start")),
                           responseStarted |-> TRUE]]
  BY <1>1, <1>2, <1>3, Says
<1>5. Append(<<>>, Message("application", "start")) = Start("application") BY DEF Start
<1> QED BY <1>1, <1>4, <1>5, SpeaksKeeps

(* The rest of it. *)
LEMMA SendRestKeeps == ASSUME IUpload, NEW u \in Uploads, SendRest(u) PROVE IUpload'
<1>1. /\ up[u].phase = "finishing" /\ up' = Goes(u, "returned") /\ LimitedSend(u, "rest") /\ Rests
  BY DEF SendRest
<1>2. /\ sending = [v \in Uploads |-> sending[v]]
      /\ sending[u] = IF up[u].exceeded THEN Silent
                      ELSE [messages |-> Start("application"), responseStarted |-> TRUE]
  BY <1>1, FitsNow DEF Fits, SendingFits, IUpload, UploadTyped
<1>3. sending' = [sending EXCEPT ![u] =
                     IF up[u].exceeded THEN Silent
                     ELSE [messages |-> Append(Start("application"), Message("application", "rest")),
                           responseStarted |-> TRUE]]
  BY <1>1, <1>2, Says
<1>4. Append(Start("application"), Message("application", "rest")) = Whole("application")
  BY AppendOne DEF Start, Whole
<1> QED BY <1>1, <1>3, <1>4, SpeaksKeeps

(* The application is done: what it said stands, or the limiter answers.   *)
LEMMA EndRequestKeeps == ASSUME IUpload, NEW u \in Uploads, EndRequest(u) PROVE IUpload'
<1>1. /\ up[u].phase \in {"returned", "raised"} /\ Rests
      /\ UNCHANGED <<staging, accepted, sourcesState, stuck>>
  BY DEF EndRequest, Rests
<1>2. /\ Fits(u) /\ SubmittedFits(u) /\ up[u] \in UploadRequests /\ up[u].exceeded \in BOOLEAN
      /\ up[u].code \in UploadCodes
  BY FitsNow DEF UploadRequests
<1>3. up[u].phase = "raised" => sending[u] = Silent /\ \A one \in accepted : one.by # u
  BY <1>2 DEF Fits, SendingFits, SubmittedFits, SubmissionFits
<1>4. CASE up[u].exceeded /\ ~sending[u].responseStarted
  <2>1. sending[u] = Silent BY <1>1, <1>2, <1>3, <1>4 DEF Fits, SendingFits
  <2>2. \A one \in accepted : one.by # u BY <1>2, <1>4 DEF SubmittedFits, SubmissionFits
  <2> QED BY <1>1, <1>4, <2>1, <2>2, DenyKeeps DEF EndRequest
<1>5. CASE ~(up[u].exceeded /\ ~sending[u].responseStarted)
  <2>1. ~up[u].exceeded BY <1>1, <1>2, <1>3, <1>5 DEF Fits, SendingFits, Silent
  <2>2. PICK code : code = IF up[u].phase = "raised" THEN "escaped" ELSE up[u].code OBVIOUS
  <2>3. code \in UploadCodes BY <1>2, <2>2 DEF UploadCodes
  <2> DEFINE r == [up[u] EXCEPT !.phase = "answered", !.code = code]
  <2>4. Becomes(r, "answered", up[u].exceeded, up[u].saw, code)
    <3>1. 0 \in Nat /\ TRUE \in BOOLEAN /\ "early" \in SourcesStates /\ "answered" \in UploadPhases
      BY DEF SourcesStates, UploadPhases
    <3> QED BY <1>2, <2>3, <3>1, Decides
  <2>5. up' = [up EXCEPT ![u] = r] /\ sending' = sending BY <1>5, <2>2 DEF EndRequest, Quiets
  <2> HIDE DEF r
  <2>6. /\ up' \in [Uploads -> UploadRequests] /\ up'[u] = r
        /\ \A v \in Uploads \ {u} : up'[v] = up[v]
    BY <2>4, <2>5, Updated DEF Becomes, IUpload
  <2>7. sending' = [v \in Uploads |-> sending'[v]] BY <2>5 DEF IUpload, UploadTyped
  <2>8. Heard(u)'
    <3>1. CASE up[u].phase = "raised"
      <4>1. code = "escaped" /\ sending'[u].messages = <<>> BY <1>3, <2>2, <2>5, <3>1 DEF Silent
      <4> QED BY <2>1, <2>4, <2>6, <4>1 DEF Heard, Becomes
    <3>2. CASE up[u].phase = "returned"
      <4>1. code = up[u].code /\ code # "escaped" BY <1>2, <2>2, <3>2 DEF Fits, CodeFits
      <4>2. sending'[u].messages = Whole("application")
        BY <1>2, <2>1, <2>5, <3>2 DEF Fits, SendingFits
      <4> QED BY <2>1, <2>4, <2>6, <4>1, <4>2 DEF Heard, Becomes
    <3> QED BY <1>1, <3>1, <3>2
  <2>9. StagedInRoute(u)' BY <2>4, <2>6 DEF StagedInRoute, Becomes, Answering
  <2>10. CodeFits(u)'
    <3>1. code = "ok" => up[u].code = "ok" BY <2>2
    <3>2. up[u].code = "ok" => (\E one \in accepted : one.by = u) \/ Raced(u)
      BY <1>2 DEF Fits, CodeFits
    <3> QED BY <1>1, <2>4, <2>6, <3>1, <3>2 DEF CodeFits, AtWork, Becomes, Answering, Raced
  <2>11. SawFits(u)' BY <1>1, <1>2, <2>4, <2>6 DEF Fits, SawFits, Becomes
  <2>12. SendingFits(u)' BY <2>1, <2>4, <2>6 DEF SendingFits, AtWork, Becomes, Answering
  <2>13. SubmittedFits(u)'
    <3>1. ASSUME NEW one \in accepted, one.by = u PROVE SubmissionFits(one)'
      <4>1. SubmissionFits(one) /\ code = up[u].code
        BY <1>1, <1>2, <1>3, <2>2, <3>1 DEF SubmittedFits
      <4> QED BY <1>1, <2>4, <2>6, <3>1, <4>1 DEF SubmissionFits, AtWork, Becomes, Answering
    <3> QED BY <1>1, <3>1 DEF SubmittedFits
  <2>14. u \in LeftBehind' <=> u \in LeftBehind
    BY <1>1, <2>4, <2>6 DEF LeftBehind, Becomes, Answering
  <2> QED
    BY <1>1, <2>5, <2>6, <2>7, <2>8, <2>9, <2>10, <2>11, <2>12, <2>13, <2>14, StepKeeps
    DEF Fits
<1> QED BY <1>4, <1>5

(* The decision stands, with the directory gone or one more directory      *)
(* stuck.                                                                  *)
LEMMA CleanUpKeeps == ASSUME IUpload, NEW u \in Uploads, CleanUp(u) PROVE IUpload'
<1>1. /\ up[u].phase = "cleaning" /\ up[u].code \notin {"none", "escaped"} /\ Fits(u)
      /\ up[u] \in UploadRequests /\ up[u].code \in UploadCodes
      /\ sending[u] = Silent /\ sending' = sending /\ ~up[u].exceeded
      /\ accepted' = accepted /\ sourcesState' = sourcesState
  BY FitsNow DEF CleanUp, Fits, CodeFits, SendingFits, Quiets, Answering
<1>2. PICK code \in UploadCodes :
        /\ Respond(u, code) /\ code \notin {"none", "escaped"}
        /\ \/ /\ code = up[u].code /\ stuck' = stuck
              /\ staging' = [v \in DOMAIN staging \ {u} |-> staging[v]]
           \/ code = "SUBMIT_SOURCES_FAILED" /\ stuck' = stuck + 1 /\ staging' = staging
  <2>1. "SUBMIT_SOURCES_FAILED" \in UploadCodes BY DEF UploadCodes
  <2> QED BY <1>1, <2>1 DEF CleanUp
<1>3. DOMAIN staging' \subseteq DOMAIN staging BY <1>2
<1> DEFINE r == [up[u] EXCEPT !.phase = "starting", !.code = code]
<1>4. Becomes(r, "starting", up[u].exceeded, up[u].saw, code)
  <2>1. 0 \in Nat /\ TRUE \in BOOLEAN /\ "early" \in SourcesStates /\ "starting" \in UploadPhases
    BY DEF SourcesStates, UploadPhases
  <2> QED BY <1>1, <2>1, Decides
<1>5. up' = [up EXCEPT ![u] = r] BY <1>2 DEF Respond
<1> HIDE DEF r
<1>6. /\ up' \in [Uploads -> UploadRequests] /\ up'[u] = r
      /\ \A v \in Uploads \ {u} : up'[v] = up[v]
  BY <1>4, <1>5, Updated DEF Becomes, IUpload
<1>7. stuck \in Nat /\ (stuck' = stuck \/ stuck' = stuck + 1) BY <1>2 DEF IUpload, UploadTyped
<1>8. UploadTyped' BY <1>1, <1>3, <1>6, <1>7 DEF IUpload, UploadTyped
<1>9. ASSUME NEW v \in Uploads PROVE Fits(v)'
  <2>1. Fits(v) BY FitsNow
  <2>2. CASE v = u
    <3>1. Heard(u)' BY <1>1, <1>4, <1>6 DEF Heard, Becomes, Silent
    <3>2. StagedInRoute(u)' BY <1>4, <1>6 DEF StagedInRoute, Becomes, Answering
    <3>3. CodeFits(u)'
      <4>1. code = "ok" => up[u].code = "ok" BY <1>2
      <4>2. up[u].code = "ok" => (\E one \in accepted : one.by = u) \/ Raced(u)
        BY <1>1 DEF Fits, CodeFits
      <4> QED BY <1>1, <1>2, <1>4, <1>6, <4>1, <4>2 DEF CodeFits, AtWork, Becomes, Answering, Raced
    <3>4. SawFits(u)' BY <1>1, <1>4, <1>6 DEF Fits, SawFits, Becomes
    <3>5. SendingFits(u)' BY <1>1, <1>4, <1>6 DEF SendingFits, AtWork, Becomes, Answering
    <3> QED BY <2>2, <3>1, <3>2, <3>3, <3>4, <3>5 DEF Fits
  <2>3. CASE v # u
    <3>1. up'[v] = up[v] /\ sending'[v] = sending[v] BY <1>1, <1>6, <2>3
    <3>2. Heard(v)' BY <2>1, <3>1 DEF Fits, Heard
    <3>3. SendingFits(v)' BY <2>1, <3>1 DEF Fits, SendingFits, AtWork
    <3>4. StagedInRoute(v)' BY <1>3, <2>1, <3>1 DEF Fits, StagedInRoute
    <3>5. CodeFits(v)' /\ SawFits(v)' BY <1>1, <3>1, MovedOn
    <3> QED BY <3>2, <3>3, <3>4, <3>5 DEF Fits
  <2> QED BY <2>2, <2>3
<1>10. OneResponse' BY <1>9 DEF OneResponse, Fits, Heard
<1>11. ASSUME NEW one \in accepted PROVE SubmissionFits(one)'
  <2>1. SubmissionFits(one) BY DEF IUpload
  <2>2. stuck' = 0 => stuck = 0 BY <1>7
  <2>3. CASE one.by = u
    <3>1. up[u].code = "ok" BY <1>1, <2>1, <2>3 DEF SubmissionFits
    <3>2. stuck' = 0 => code = "ok" BY <1>2, <1>7, <3>1
    <3>3. up'[u].phase = "starting" /\ up'[u].code = code /\ ~up'[u].exceeded
      BY <1>1, <1>4, <1>6 DEF Becomes
    <3> QED BY <1>1, <2>1, <2>3, <3>2, <3>3 DEF SubmissionFits, AtWork, Answering
  <2>4. CASE one.by # u BY <1>1, <1>6, <2>1, <2>2, <2>4 DEF SubmissionFits, AtWork
  <2> QED BY <2>3, <2>4
<1>12. IsFiniteSet(LeftBehind') /\ Cardinality(LeftBehind') <= stuck'
  <2>1. IsFiniteSet(LeftBehind) /\ Cardinality(LeftBehind) <= stuck /\ u \notin LeftBehind
    BY <1>1 DEF IUpload, LeftBehind, Answering
  <2>2. Cardinality(LeftBehind) \in Nat BY <2>1, FS_CardinalityType
  <2>3. CASE stuck' = stuck /\ u \notin DOMAIN staging'
    <3>1. DOMAIN staging' = DOMAIN staging \ {u} BY <1>2, <1>7, <2>3
    <3>2. LeftBehind' = LeftBehind
      BY <1>6, <2>1, <3>1 DEF LeftBehind, IUpload, UploadTyped
    <3> QED BY <2>1, <2>3, <3>2
  <2>4. CASE stuck' = stuck + 1 /\ staging' = staging
    <3>1. LeftBehind' \subseteq LeftBehind \cup {u}
      BY <1>6, <2>4 DEF LeftBehind, IUpload, UploadTyped
    <3>2. /\ IsFiniteSet(LeftBehind \cup {u})
          /\ Cardinality(LeftBehind \cup {u}) = Cardinality(LeftBehind) + 1
      BY <2>1, FS_AddElement
    <3>3. IsFiniteSet(LeftBehind') /\ Cardinality(LeftBehind') <= Cardinality(LeftBehind \cup {u})
      BY <3>1, <3>2, FS_Subset
    <3>4. Cardinality(LeftBehind') \in Nat BY <3>3, FS_CardinalityType
    <3> QED BY <1>7, <2>1, <2>2, <2>4, <3>2, <3>3, <3>4
  <2>5. \/ stuck' = stuck /\ u \notin DOMAIN staging'
        \/ stuck' = stuck + 1 /\ staging' = staging
    BY <1>2
  <2> QED BY <2>3, <2>4, <2>5
<1> QED BY <1>1, <1>8, <1>9, <1>10, <1>11, <1>12 DEF IUpload, Fits

-----------------------------------------------------------------------------
(* Nobody has sent anything yet, and nothing is staged.                    *)
LEMMA InitIUpload == UploadInit => IUpload
<1> SUFFICES ASSUME UploadInit PROVE IUpload OBVIOUS
<1>1. DOMAIN staging = {} BY DEF UploadInit
<1>2. LeftBehind = {} BY <1>1 DEF LeftBehind
<1>3. IsFiniteSet(LeftBehind) /\ Cardinality(LeftBehind) <= stuck
  BY <1>2, FS_EmptySet DEF UploadInit
<1>4. Idle \in UploadRequests
  <2>1. Nothing \in Bodies \cup {Nothing} /\ "none" \in UploadCodes BY DEF UploadCodes
  <2> QED BY <2>1 DEF Idle, UploadRequests, UploadPhases, SourcesStates
<1>5. UploadTyped
  <2>1. up \in [Uploads -> UploadRequests] BY <1>4 DEF UploadInit
  <2>2. sending = [u \in Uploads |-> sending[u]] BY DEF UploadInit
  <2> QED BY <1>1, <2>1, <2>2 DEF UploadInit, UploadTyped, SourcesStates
<1>6. ASSUME NEW u \in Uploads PROVE Fits(u)
  <2>1. /\ up[u].phase = "idle" /\ ~up[u].exceeded /\ up[u].saw = "none" /\ up[u].code = "none"
        /\ sending[u] = Silent /\ u \notin DOMAIN staging
    BY <1>1 DEF UploadInit, Idle
  <2>2. sending[u].messages = <<>> BY <2>1 DEF Silent
  <2> QED
    BY <2>1, <2>2 DEF Fits, Heard, StagedInRoute, CodeFits, SawFits, SendingFits, AtWork, Answering
<1>7. OneResponse BY <1>6 DEF OneResponse, Fits, Heard
<1> QED BY <1>3, <1>5, <1>6, <1>7 DEF UploadInit, IUpload, Fits

(* Every step keeps the invariant.                                         *)
LEMMA NextIUpload == IUpload /\ [UploadNext]_uploadVars => IUpload'
<1> SUFFICES ASSUME IUpload, [UploadNext]_uploadVars PROVE IUpload' OBVIOUS
<1>1. CASE UNCHANGED uploadVars
  BY <1>1 DEF uploadVars, IUpload, UploadTyped, OneResponse, StagedInRoute, CodeFits, SawFits,
              SendingFits, AtWork, Raced, SubmissionFits, LeftBehind
<1>2. ASSUME NEW u \in Uploads, UploadStep(u) PROVE IUpload'
  <2>1. CASE SendBody(u) BY <2>1, SendBodyKeeps
  <2>2. CASE Admit(u) BY <2>2, AdmitKeeps
  <2>3. CASE Receive(u) BY <2>3, ReceiveKeeps
  <2>4. CASE Disconnect(u) BY <2>4, GoesKeeps DEF Disconnect
  <2>5. CASE Unwind(u) BY <2>5, UnwindKeeps
  <2>6. CASE Stage(u) BY <2>6, StageKeeps
  <2>7. CASE OpenFile(u) BY <2>7, OpenFileKeeps
  <2>8. CASE ReadChunk(u) BY <2>8, ReadChunkKeeps
  <2>9. CASE CloseFile(u) BY <2>9, CloseFileKeeps
  <2>10. CASE WriteFails(u) BY <2>10, WriteFailsKeeps
  <2>11. CASE ReadForSubmission(u) BY <2>11, ReadForSubmissionKeeps
  <2>12. CASE PublishSources(u) BY <2>12, PublishSourcesKeeps
  <2>13. CASE NothingToSubmit(u) BY <2>13, NothingToSubmitKeeps
  <2>14. CASE CleanUp(u) BY <2>14, CleanUpKeeps
  <2>15. CASE SendStart(u) BY <2>15, SendStartKeeps
  <2>16. CASE SendRest(u) BY <2>16, SendRestKeeps
  <2>17. CASE EndRequest(u) BY <2>17, EndRequestKeeps
  <2> QED
    BY <1>2, <2>1, <2>2, <2>3, <2>4, <2>5, <2>6, <2>7, <2>8, <2>9, <2>10, <2>11, <2>12, <2>13,
       <2>14, <2>15, <2>16, <2>17
    DEF UploadStep
<1> QED BY <1>1, <1>2, OthersMoveJobKeeps DEF UploadNext

(* Any number of uploads of any bodies, with any limits: the invariant     *)
(* holds throughout.                                                       *)
THEOREM UploadInvariance == UploadSpec => []IUpload
<1> QED BY InitIUpload, NextIUpload, PTL DEF UploadSpec

(* OneResponse: what a server hears of a request is the start of one       *)
(* response and then its rest, both of the application or both of the      *)
(* limiter; of an application that was cut off in its body nothing, at     *)
(* whatever point its messages come and whether it then returns or raises; *)
(* and nothing at all when its exception passes through the limiter.       *)
THEOREM UploadsGetOneResponse == UploadSpec => []OneResponse
<1>1. IUpload => OneResponse BY DEF IUpload
<1> QED BY <1>1, UploadInvariance, PTL

(* StagingIsGone: however many uploads to the job overlap with one another *)
(* and with its other callers, the directories that outlive the first word *)
(* of their response are at most the removals that failed; without such a  *)
(* failure the request whose files the job has is told so; and a request   *)
(* that is told "ok" while its files were dropped had looked at the job    *)
(* before it left the point where sources are accepted.                    *)
THEOREM UploadsLeaveNoStaging == UploadSpec => []StagingIsGone
<1>1. ASSUME IUpload PROVE StagingIsGone
  <2>1. Cardinality({u \in DOMAIN staging : sending[u].messages # <<>>}) <= stuck
    <3> DEFINE T == {u \in DOMAIN staging : sending[u].messages # <<>>}
    <3>1. ASSUME NEW u \in DOMAIN staging, sending[u].messages # <<>>
          PROVE  up[u].phase \in Answering
      <4>1. u \in Uploads BY <1>1 DEF IUpload, UploadTyped
      <4>2. StagedInRoute(u) /\ SendingFits(u) BY <1>1, <4>1 DEF IUpload
      <4>3. ~AtWork(u) /\ up[u].phase # "cleaning"
        BY <3>1, <4>2 DEF SendingFits, Silent
      <4> QED BY <4>3 DEF AtWork
    <3>2. T \subseteq LeftBehind BY <3>1 DEF LeftBehind
    <3>3. IsFiniteSet(LeftBehind) /\ Cardinality(LeftBehind) <= stuck /\ stuck \in Nat
      BY <1>1 DEF IUpload, UploadTyped
    <3> HIDE DEF T
    <3>4. /\ IsFiniteSet(T) /\ Cardinality(T) <= Cardinality(LeftBehind)
          /\ Cardinality(T) \in Nat /\ Cardinality(LeftBehind) \in Nat
      BY <3>2, <3>3, FS_Subset, FS_CardinalityType
    <3>5. Cardinality(T) <= stuck BY <3>3, <3>4
    <3> QED BY <3>5 DEF T
  <2>2. ASSUME NEW u \in Uploads, up[u].phase = "answered", NEW one \in accepted, one.by = u,
               stuck = 0
        PROVE  up[u].code = "ok"
    BY <1>1, <2>2 DEF IUpload, SubmissionFits
  <2>3. ASSUME NEW u \in Uploads, up[u].code = "ok", ~\E one \in accepted : one.by = u
        PROVE  up[u].saw = "early" /\ sourcesState # "early"
    BY <1>1, <2>3 DEF IUpload, CodeFits, Raced
  <2> QED BY <2>1, <2>2, <2>3 DEF StagingIsGone
<1> QED BY <1>1, UploadInvariance, PTL

-----------------------------------------------------------------------------
(* Sizes.  Running sums of a sequence of files exist and are unique, by    *)
(* induction (on the least place where they would not be).                 *)
IsRunning(f, files, m) ==
    f = [n \in 0 .. m |-> IF n = 0 THEN 0 ELSE f[n - 1] + files[n].size]

(* A set of numbers that is not empty has a least one.                     *)
LEMMA LeastNumber ==
  ASSUME NEW T, T \subseteq Nat, T # {}
  PROVE  \E x \in T : \A y \in T : ~(y < x)
<1>1. PICK R : R = OpToRel(<, Nat) OBVIOUS
<1>2. IsWellFoundedOn(R, Nat) BY <1>1, NatLessThanWellFounded
<1>3. PICK x \in T : \A y \in T : ~(<<y, x>> \in R) BY <1>2, WFMin
<1>4. \A y \in T : ~(y < x) BY <1>1, <1>3 DEF OpToRel
<1> QED BY <1>4

(* One file further, the sums go on.                                       *)
LEMMA RunningGoesOn ==
  ASSUME NEW files, NEW m \in Nat, NEW f \in [0 .. m -> Nat], IsRunning(f, files, m),
         files[m + 1].size \in Nat
  PROVE  \E g \in [0 .. m + 1 -> Nat] : IsRunning(g, files, m + 1)
<1> DEFINE g == [n \in 0 .. m + 1 |-> IF n = m + 1 THEN f[m] + files[m + 1].size ELSE f[n]]
<1>1. g \in [0 .. m + 1 -> Nat] OBVIOUS
<1>2. \A n \in 0 .. m : f[n] = IF n = 0 THEN 0 ELSE f[n - 1] + files[n].size
  BY DEF IsRunning
<1>3. \A n \in 0 .. m + 1 : g[n] = IF n = 0 THEN 0 ELSE g[n - 1] + files[n].size
  <2> SUFFICES ASSUME NEW n \in 0 .. m + 1
               PROVE  g[n] = IF n = 0 THEN 0 ELSE g[n - 1] + files[n].size
    OBVIOUS
  <2>1. CASE n = m + 1 BY <2>1
  <2>2. CASE n # m + 1 BY <2>2, <1>2
  <2> QED BY <2>1, <2>2
<1>4. g = [n \in 0 .. m + 1 |-> g[n]] OBVIOUS
<1> HIDE DEF g
<1>5. IsRunning(g, files, m + 1) BY <1>3, <1>4 DEF IsRunning
<1> QED BY <1>1, <1>5

(* There is a running sum of every sequence: were there a least length     *)
(* without one, the sum of one less would go on.                           *)
LEMMA RunningExists ==
  ASSUME NEW files \in Seq(UploadFiles), NEW m \in 0 .. Len(files)
  PROVE  \E f \in [0 .. m -> Nat] : IsRunning(f, files, m)
<1> DEFINE Exists(n) == \E f \in [0 .. n -> Nat] : IsRunning(f, files, n)
           T == {n \in 0 .. Len(files) : ~Exists(n)}
<1> SUFFICES ASSUME T # {} PROVE FALSE OBVIOUS
<1>1. Len(files) \in Nat OBVIOUS
<1>2. T \subseteq Nat BY <1>1
<1>3. PICK x \in T : \A y \in T : ~(y < x)
  <2> HIDE DEF T
  <2> QED BY <1>2, LeastNumber
<1>4. CASE x = 0
  <2> DEFINE f == [n \in 0 .. 0 |-> 0]
  <2>1. f \in [0 .. 0 -> Nat] /\ IsRunning(f, files, 0) BY DEF IsRunning
  <2> QED BY <1>4, <2>1
<1>5. CASE x # 0
  <2>1. PICK y \in Nat : y + 1 = x /\ y \in 0 .. Len(files) /\ x \in 1 .. Len(files)
    <3>1. x - 1 \in Nat /\ (x - 1) + 1 = x /\ x - 1 \in 0 .. Len(files) /\ x \in 1 .. Len(files)
      BY <1>1, <1>5
    <3> QED BY <3>1
  <2>2. Exists(y)
    <3>1. y < x BY <2>1
    <3> QED BY <1>3, <2>1, <3>1
  <2>3. files[y + 1].size \in Nat
    <3>1. y + 1 \in 1 .. Len(files) BY <2>1
    <3>2. files[y + 1] \in UploadFiles BY <3>1
    <3> QED BY <3>2 DEF UploadFiles
  <2>4. Exists(x)
    <3>1. PICK f \in [0 .. y -> Nat] : IsRunning(f, files, y) BY <2>2
    <3> HIDE DEF T
    <3> QED BY <2>1, <2>3, <3>1, RunningGoesOn
  <2> QED BY <2>4
<1> QED BY <1>4, <1>5

(* And only one: two that differ would differ at a least place.            *)
LEMMA RunningIsOne ==
  ASSUME NEW files, NEW m \in Nat, NEW f, NEW g,
         IsRunning(f, files, m), IsRunning(g, files, m)
  PROVE  \A n \in 0 .. m : f[n] = g[n]
<1> DEFINE T == {n \in 0 .. m : f[n] # g[n]}
<1> SUFFICES ASSUME T # {} PROVE FALSE OBVIOUS
<1>1. T \subseteq Nat OBVIOUS
<1>2. PICK x \in T : \A y \in T : ~(y < x)
  <2> HIDE DEF T
  <2> QED BY <1>1, LeastNumber
<1>3. /\ \A n \in 0 .. m : f[n] = IF n = 0 THEN 0 ELSE f[n - 1] + files[n].size
      /\ \A n \in 0 .. m : g[n] = IF n = 0 THEN 0 ELSE g[n - 1] + files[n].size
  BY DEF IsRunning
<1>4. CASE x = 0 BY <1>3, <1>4
<1>5. CASE x # 0
  <2>1. x - 1 \in 0 .. m /\ x \in 1 .. m /\ x - 1 < x BY <1>5
  <2>2. f[x - 1] = g[x - 1] BY <1>2, <2>1
  <2> QED BY <1>3, <1>5, <2>1, <2>2
<1> QED BY <1>4, <1>5

(* So SizeOf is the last of them, whichever are taken.                     *)
LEMMA SizeOfIsLast ==
  ASSUME NEW files \in Seq(UploadFiles), NEW f, IsRunning(f, files, Len(files))
  PROVE  SizeOf(files) = f[Len(files)] /\ SizeOf(files) \in Nat
<1> DEFINE upTo == CHOOSE g : g = [n \in 0 .. Len(files) |->
                                     IF n = 0 THEN 0 ELSE g[n - 1] + files[n].size]
<1>1. Len(files) \in Nat OBVIOUS
<1>2. SizeOf(files) = upTo[Len(files)] BY DEF SizeOf
<1>3. IsRunning(upTo, files, Len(files)) BY DEF IsRunning
<1>4. PICK g \in [0 .. Len(files) -> Nat] : IsRunning(g, files, Len(files))
  BY <1>1, RunningExists
<1> HIDE DEF upTo
<1>5. Len(files) \in 0 .. Len(files) BY <1>1
<1>6. upTo[Len(files)] = f[Len(files)] BY <1>1, <1>3, <1>5, RunningIsOne
<1>7. upTo[Len(files)] = g[Len(files)] BY <1>1, <1>3, <1>4, <1>5, RunningIsOne
<1> QED BY <1>2, <1>4, <1>5, <1>6, <1>7

(* Nothing has no size, and one more file adds its own.                    *)
LEMMA SizeOfNothing == SizeOf(<<>>) = 0
<1>1. <<>> \in Seq(UploadFiles) /\ Len(<<>>) = 0 OBVIOUS
<1>2. PICK f \in [0 .. 0 -> Nat] : IsRunning(f, <<>>, 0)
  <2>1. 0 \in 0 .. Len(<<>>) BY <1>1
  <2> QED BY <1>1, <2>1, RunningExists
<1>3. f[0] = 0 BY <1>2 DEF IsRunning
<1> QED BY <1>1, <1>2, <1>3, SizeOfIsLast

(* The size of a sequence with one file more at its end.                   *)
LEMMA SizeOfLonger ==
  ASSUME NEW files \in Seq(UploadFiles), NEW longer \in Seq(UploadFiles),
         Len(longer) = Len(files) + 1, \A i \in 1 .. Len(files) : longer[i] = files[i]
  PROVE  /\ SizeOf(longer) = SizeOf(files) + longer[Len(longer)].size
         /\ SizeOf(files) \in Nat
<1> DEFINE m == Len(files)
<1>1. m \in Nat OBVIOUS
<1>2. PICK f \in [0 .. m -> Nat] : IsRunning(f, files, m) BY <1>1, RunningExists
<1>3. PICK g \in [0 .. m + 1 -> Nat] : IsRunning(g, longer, m + 1)
  <2>1. m + 1 \in 0 .. Len(longer) BY <1>1
  <2> QED BY <2>1, RunningExists
<1>4. g[m + 1] = g[m] + longer[m + 1].size
  <2>1. \A n \in 0 .. m + 1 : g[n] = IF n = 0 THEN 0 ELSE g[n - 1] + longer[n].size
    BY <1>3 DEF IsRunning
  <2>2. m + 1 \in 0 .. m + 1 /\ m + 1 # 0 /\ (m + 1) - 1 = m BY <1>1
  <2> QED BY <2>1, <2>2
<1>5. \E h : IsRunning(h, files, m) /\ h[m] = g[m]
  <2> DEFINE h == [n \in 0 .. m |-> g[n]]
  <2>1. \A n \in 0 .. m + 1 : g[n] = IF n = 0 THEN 0 ELSE g[n - 1] + longer[n].size
    BY <1>3 DEF IsRunning
  <2>2. \A n \in 0 .. m : h[n] = IF n = 0 THEN 0 ELSE h[n - 1] + longer[n].size
    BY <1>1, <2>1
  <2>3. \A n \in 0 .. m : n # 0 => longer[n] = files[n] BY <1>1
  <2>4. h = [n \in 0 .. m |-> h[n]] /\ h[m] = g[m] BY <1>1
  <2> HIDE DEF h, m
  <2>5. \A n \in 0 .. m : h[n] = IF n = 0 THEN 0 ELSE h[n - 1] + files[n].size
    BY <2>2, <2>3
  <2> QED BY <2>4, <2>5 DEF IsRunning
<1>6. g[m] = f[m]
  <2>1. PICK h : IsRunning(h, files, m) /\ h[m] = g[m] BY <1>5
  <2>2. m \in 0 .. m BY <1>1
  <2> HIDE DEF m
  <2> QED BY <1>1, <1>2, <2>1, <2>2, RunningIsOne
<1>7. SizeOf(files) = f[m] /\ SizeOf(files) \in Nat BY <1>2, SizeOfIsLast
<1>8. SizeOf(longer) = g[m + 1]
  <2> HIDE DEF m
  <2>1. Len(longer) = m + 1 BY DEF m
  <2> QED BY <1>3, <2>1, SizeOfIsLast
<1> QED BY <1>4, <1>6, <1>7, <1>8

(* A count of one more in the last file is one more in all.                *)
LEMMA SizeOfOneMore ==
  ASSUME NEW files \in Seq(UploadFiles), NEW more \in Seq(UploadFiles), NEW m \in Nat,
         Len(files) = m + 1, Len(more) = m + 1, \A i \in 1 .. m : more[i] = files[i],
         more[m + 1].size = files[m + 1].size + 1
  PROVE  SizeOf(more) = SizeOf(files) + 1
<1>1. PICK front \in Seq(UploadFiles) : Len(front) = m /\ \A i \in 1 .. m : front[i] = files[i]
  <2> DEFINE front == [i \in 1 .. m |-> files[i]]
  <2>1. \A i \in 1 .. m : files[i] \in UploadFiles OBVIOUS
  <2>2. front \in Seq(UploadFiles) /\ Len(front) = m BY <2>1
  <2>3. \A i \in 1 .. m : front[i] = files[i] OBVIOUS
  <2> QED BY <2>2, <2>3
<1>2. SizeOf(files) = SizeOf(front) + files[m + 1].size /\ SizeOf(front) \in Nat
  BY <1>1, SizeOfLonger
<1>3. SizeOf(more) = SizeOf(front) + more[m + 1].size
  <2>1. \A i \in 1 .. m : more[i] = front[i] BY <1>1
  <2> QED BY <1>1, <2>1, SizeOfLonger
<1>4. files[m + 1].size \in Nat
  <2>1. files[m + 1] \in UploadFiles OBVIOUS
  <2> QED BY <2>1 DEF UploadFiles
<1> QED BY <1>2, <1>3, <1>4

(* The size of a body and of its files is a number.                        *)
LEMMA BodySizes ==
  ASSUME NEW body \in Bodies \cup {Nothing}
  PROVE  body.files \in Seq(UploadFiles) /\ BodySize(body) \in Nat
<1>1. body.files \in Seq(UploadFiles) /\ body.framing \in Nat
  <2>1. CASE body \in Bodies BY <2>1, UploadConstantsOK
  <2>2. CASE body = Nothing BY <2>2 DEF Nothing
  <2> QED BY <2>1, <2>2
<1>2. SizeOf(body.files) \in Nat
  <2>1. Len(body.files) \in Nat /\ Len(body.files) \in 0 .. Len(body.files) BY <1>1
  <2>2. PICK f \in [0 .. Len(body.files) -> Nat] : IsRunning(f, body.files, Len(body.files))
    BY <1>1, <2>1, RunningExists
  <2> QED BY <1>1, <2>2, SizeOfIsLast
<1> QED BY <1>1, <1>2 DEF BodySize

-----------------------------------------------------------------------------
(* The budget of a request is untouched by the others'.                    *)
LEMMA BudgetStays ==
  ASSUME IUpload, IBudget, NEW u \in Uploads,
         \A v \in Uploads \ {u} : /\ up'[v] = up[v]
                                  /\ v \in DOMAIN staging' <=> v \in DOMAIN staging
                                  /\ v \in DOMAIN staging => staging'[v] = staging[v],
         up[u].phase # "idle" => up'[u].body = up[u].body /\ up'[u].phase # "idle",
         LimiterFits(u)', RouteFits(u)', \A one \in accepted' : one \in accepted \/ AcceptedFits(one)'
  PROVE  IBudget'
<1>1. ASSUME NEW v \in Uploads \ {u} PROVE LimiterFits(v)' /\ RouteFits(v)'
  <2>1. LimiterFits(v) /\ RouteFits(v) BY DEF IBudget
  <2>2. LimiterFits(v)' BY <2>1 DEF LimiterFits
  <2>3. RouteFits(v)'
    <3> SUFFICES ASSUME up'[v].phase \in {"streaming", "reading", "submitting"}
                 PROVE  RouteFits(v)'
      BY DEF RouteFits
    <3>1. v \in DOMAIN staging /\ v \in DOMAIN staging' /\ staging'[v] = staging[v]
      BY <2>1 DEF RouteFits
    <3>2. FilesOf(v)' = FilesOf(v) /\ FileNow(v)' = FileNow(v) BY DEF FilesOf, FileNow
    <3>3. StagedSoFar(v)' BY <2>1, <3>1, <3>2 DEF RouteFits, StagedSoFar
    <3> QED BY <2>1, <3>1, <3>2, <3>3 DEF RouteFits
  <2> QED BY <2>2, <2>3
<1>2. ASSUME NEW one \in accepted PROVE AcceptedFits(one)'
  <2>1. one.by \in Uploads /\ AcceptedFits(one) BY DEF IUpload, SubmissionFits, IBudget
  <2> QED BY <2>1 DEF AcceptedFits
<1> QED BY <1>1, <1>2 DEF IBudget

(* What is known of a request before a step of it.                         *)
LEMMA Known ==
  ASSUME IUpload, IBudget, NEW u \in Uploads
  PROVE  /\ up \in [Uploads -> UploadRequests] /\ up[u] \in UploadRequests
         /\ up[u].body \in Bodies \cup {Nothing} /\ up[u].exceeded \in BOOLEAN
         /\ up[u].received \in Nat /\ up[u].file \in Nat /\ up[u].got \in Nat /\ up[u].total \in Nat
         /\ FilesOf(u) \in Seq(UploadFiles) /\ BodySize(up[u].body) \in Nat
         /\ LimiterFits(u) /\ RouteFits(u) /\ StagedInRoute(u) /\ CodeFits(u)
<1>1. up \in [Uploads -> UploadRequests] BY DEF IUpload, UploadTyped
<1>2. up[u].body \in Bodies \cup {Nothing} BY <1>1 DEF UploadRequests
<1> QED BY <1>1, <1>2, BodySizes DEF IUpload, IBudget, UploadRequests, FilesOf

(* A request that leaves the route or does not get there.                  *)
LEMMA BudgetLeaves ==
  ASSUME IUpload, IBudget, NEW u \in Uploads, accepted' = accepted,
         \A v \in Uploads \ {u} : /\ up'[v] = up[v]
                                  /\ v \in DOMAIN staging' <=> v \in DOMAIN staging
                                  /\ v \in DOMAIN staging => staging'[v] = staging[v],
         up[u].phase # "idle", up'[u].phase \in {"unwinding", "cleaning"} \cup Answering,
         up'[u].body = up[u].body, LimiterFits(u)'
  PROVE  IBudget'
<1>1. RouteFits(u)' /\ up'[u].phase # "idle" BY DEF RouteFits, Answering
<1> QED BY <1>1, BudgetStays

(* A client sends a body, of which nothing is received yet.                *)
LEMMA SendBodyFits == ASSUME IUpload, IBudget, NEW u \in Uploads, SendBody(u) PROVE IBudget'
<1>1. PICK body \in Bodies : up' = [up EXCEPT ![u].phase = "sent", ![u].body = body]
  BY DEF SendBody
<1>2. /\ up'[u].phase = "sent" /\ up'[u].received = up[u].received
      /\ up'[u].exceeded = up[u].exceeded /\ up'[u].total = up[u].total
      /\ \A v \in Uploads \ {u} : up'[v] = up[v]
  BY <1>1, Known DEF UploadRequests
<1>3. up[u].phase = "idle" /\ UNCHANGED <<staging, accepted>> BY DEF SendBody, Rests
<1>4. u \notin DOMAIN staging BY <1>3, Known DEF StagedInRoute, Answering
<1>5. LimiterFits(u)' BY <1>2, <1>3, <1>4, Known DEF LimiterFits, Answering
<1>6. RouteFits(u)' BY <1>2 DEF RouteFits
<1> QED BY <1>2, <1>3, <1>5, <1>6, BudgetStays

(* The limiter answers.                                                    *)
LEMMA DenyFits ==
  ASSUME IUpload, IBudget, NEW u \in Uploads, up[u].phase \in {"sent", "returned", "raised"},
         Rests, Deny(u)
  PROVE  IBudget'
<1>1. /\ up'[u].phase = "answered" /\ up'[u].code = "UPLOAD_REQUEST_LIMIT"
      /\ up'[u].body = up[u].body /\ \A v \in Uploads \ {u} : up'[v] = up[v]
  BY Known DEF Deny, UploadRequests
<1>2. UNCHANGED <<staging, accepted>> BY DEF Rests
<1>3. LimiterFits(u)' BY <1>1, <1>2, Known DEF LimiterFits, Answering
<1> QED BY <1>1, <1>2, <1>3, BudgetLeaves DEF Answering

(* A step of the limiter that stages nothing.                              *)
LEMMA GoesFits ==
  ASSUME IUpload, IBudget, NEW u \in Uploads, NEW phase \in {"receiving", "unwinding"},
         up[u].phase \in {"sent", "receiving"}, Rests, up' = Goes(u, phase)
  PROVE  IBudget'
<1>1. /\ up'[u].phase = phase /\ up'[u].body = up[u].body /\ up'[u].received = up[u].received
      /\ up'[u].exceeded = up[u].exceeded /\ up'[u].total = up[u].total
      /\ \A v \in Uploads \ {u} : up'[v] = up[v]
  BY Known DEF Goes, UploadRequests
<1>2. UNCHANGED <<staging, accepted>> /\ u \notin DOMAIN staging
  BY Known DEF Rests, StagedInRoute, Answering
<1>3. LimiterFits(u)' BY <1>1, <1>2, Known, UploadConstantsOK DEF LimiterFits, Answering
<1>4. RouteFits(u)' BY <1>1 DEF RouteFits
<1> QED BY <1>1, <1>2, <1>3, <1>4, BudgetStays

(* A body that claims too much is denied.                                  *)
LEMMA AdmitFits == ASSUME IUpload, IBudget, NEW u \in Uploads, Admit(u) PROVE IBudget'
<1>1. up[u].phase = "sent" /\ Rests BY DEF Admit
<1>2. CASE Deny(u) BY <1>1, <1>2, DenyFits
<1>3. CASE up' = Goes(u, "receiving") BY <1>1, <1>3, GoesFits
<1> QED BY <1>2, <1>3 DEF Admit

(* What was received up to the last chunk is the size of the body.         *)
LEMMA ReceiveFits == ASSUME IUpload, IBudget, NEW u \in Uploads, Receive(u) PROVE IBudget'
<1>1. up[u].phase = "receiving" /\ UNCHANGED <<staging, accepted>> BY DEF Receive, Rests
<1>2. u \notin DOMAIN staging BY <1>1, Known DEF StagedInRoute, Answering
<1>3. PICK received : received = up[u].received + 1 /\ received \in Nat BY Known
<1>4. ASSUME NEW phase \in UploadPhases, NEW exceeded \in BOOLEAN,
             up' = [up EXCEPT ![u].received = received, ![u].exceeded = exceeded,
                              ![u].phase = phase]
      PROVE  /\ up'[u].phase = phase /\ up'[u].body = up[u].body /\ up'[u].received = received
             /\ up'[u].exceeded = exceeded /\ up'[u].total = up[u].total
             /\ \A v \in Uploads \ {u} : up'[v] = up[v]
  BY <1>4, Known DEF UploadRequests
<1>5. CASE received > RequestLimit
  <2>1. up' = [up EXCEPT ![u].received = received, ![u].exceeded = TRUE,
                         ![u].phase = "unwinding"]
    BY <1>3, <1>5 DEF Receive
  <2>2. /\ up'[u].phase = "unwinding" /\ up'[u].body = up[u].body
        /\ \A v \in Uploads \ {u} : up'[v] = up[v]
    BY <1>4, <2>1 DEF UploadPhases
  <2>3. LimiterFits(u)' BY <1>1, <1>2, <2>2 DEF LimiterFits, Answering
  <2> QED BY <1>1, <2>2, <2>3, BudgetLeaves
<1>6. CASE ~(received > RequestLimit)
  <2>1. PICK phase \in {"parsed", "receiving"} :
          /\ phase = "parsed" => received = BodySize(up[u].body)
          /\ up' = [up EXCEPT ![u].received = received, ![u].exceeded = FALSE, ![u].phase = phase]
    <3>0. (received > RequestLimit) = FALSE BY <1>6
    <3>1. CASE received = BodySize(up[u].body)
      <4>1. up' = [up EXCEPT ![u].received = received, ![u].exceeded = FALSE,
                             ![u].phase = "parsed"]
        BY <1>3, <3>0, <3>1 DEF Receive
      <4> QED BY <3>1, <4>1
    <3>2. CASE received # BodySize(up[u].body)
      <4>1. up' = [up EXCEPT ![u].received = received, ![u].exceeded = FALSE,
                             ![u].phase = "receiving"]
        BY <1>3, <3>0, <3>2 DEF Receive
      <4> QED BY <4>1
    <3> QED BY <3>1, <3>2
  <2>2. /\ up'[u].phase = phase /\ up'[u].body = up[u].body /\ up'[u].received = received
        /\ up'[u].exceeded = FALSE /\ up'[u].total = up[u].total
        /\ \A v \in Uploads \ {u} : up'[v] = up[v]
    BY <1>4, <2>1 DEF UploadPhases
  <2>3. received <= RequestLimit BY <1>3, <1>6, UploadConstantsOK
  <2>4. LimiterFits(u)' BY <1>1, <1>2, <2>1, <2>2, <2>3, Known DEF LimiterFits, Answering
  <2>5. RouteFits(u)' BY <2>1, <2>2 DEF RouteFits
  <2> QED BY <1>1, <2>1, <2>2, <2>4, <2>5, BudgetStays
<1> QED BY <1>5, <1>6

(* A request that was cut off ends without an answer that tells of it.     *)
LEMMA UnwindFits == ASSUME IUpload, IBudget, NEW u \in Uploads, Unwind(u) PROVE IBudget'
<1>1. up[u].phase = "unwinding" /\ Rests BY DEF Unwind
<1>2. UNCHANGED <<staging, accepted>> /\ u \notin DOMAIN staging /\ up[u].code = "none"
  BY <1>1, Known DEF Rests, StagedInRoute, CodeFits, AtWork, Answering
<1>3. PICK phase \in {"raised", "starting"}, code \in {"none", "BAD_BODY"} :
        /\ up'[u].phase = phase /\ up'[u].code = code /\ up'[u].body = up[u].body
        /\ \A v \in Uploads \ {u} : up'[v] = up[v]
  <2>1. CASE up' = Goes(u, "raised")
    <3>1. /\ up'[u].phase = "raised" /\ up'[u].code = "none" /\ up'[u].body = up[u].body
          /\ \A v \in Uploads \ {u} : up'[v] = up[v]
      BY <1>2, <2>1, Known DEF Goes, UploadRequests
    <3> QED BY <3>1
  <2>2. CASE up' = [up EXCEPT ![u].phase = "starting", ![u].code = "BAD_BODY"]
    <3>1. /\ up'[u].phase = "starting" /\ up'[u].code = "BAD_BODY" /\ up'[u].body = up[u].body
          /\ \A v \in Uploads \ {u} : up'[v] = up[v]
      BY <2>2, Known DEF UploadRequests
    <3> QED BY <3>1
  <2> QED BY <2>1, <2>2 DEF Unwind
<1>4. LimiterFits(u)' BY <1>2, <1>3 DEF LimiterFits, Answering
<1> QED BY <1>1, <1>2, <1>3, <1>4, BudgetLeaves DEF Answering

(* An answer on its way changes nothing in what was decided.               *)
LEMMA SpeaksFits ==
  ASSUME IUpload, IBudget, NEW u \in Uploads, up[u].phase \in {"starting", "finishing"},
         NEW phase \in {"finishing", "returned"}, up' = Goes(u, phase), Rests
  PROVE  IBudget'
<1>1. /\ up'[u].phase = phase /\ up'[u].code = up[u].code /\ up'[u].body = up[u].body
      /\ \A v \in Uploads \ {u} : up'[v] = up[v]
  BY Known DEF Goes, UploadRequests
<1>2. UNCHANGED <<staging, accepted>> BY DEF Rests
<1>3. LimiterFits(u)' BY <1>1, <1>2, Known DEF LimiterFits, Answering
<1> QED BY <1>1, <1>2, <1>3, BudgetLeaves DEF Answering

(* At the end, a request that exceeded its limit is answered as such: its  *)
(* application was not heard.                                              *)
LEMMA EndRequestFits == ASSUME IUpload, IBudget, NEW u \in Uploads, EndRequest(u) PROVE IBudget'
<1>1. up[u].phase \in {"returned", "raised"} /\ Rests /\ UNCHANGED <<staging, accepted>>
  BY DEF EndRequest, Rests
<1>2. CASE up[u].exceeded /\ ~sending[u].responseStarted
  BY <1>1, <1>2, DenyFits DEF EndRequest
<1>3. CASE ~(up[u].exceeded /\ ~sending[u].responseStarted)
  <2>1. ~up[u].exceeded BY <1>1, <1>3, FitsNow DEF Fits, SendingFits, Silent
  <2>2. PICK code : code = IF up[u].phase = "raised" THEN "escaped" ELSE up[u].code OBVIOUS
  <2>3. /\ up'[u].phase = "answered" /\ up'[u].code = code /\ up'[u].body = up[u].body
        /\ ~up'[u].exceeded /\ \A v \in Uploads \ {u} : up'[v] = up[v]
    <3>1. up' = [up EXCEPT ![u].phase = "answered", ![u].code = code]
      BY <1>3, <2>2 DEF EndRequest
    <3> QED BY <2>1, <3>1, Known DEF UploadRequests
  <2>4. code # "none" BY <1>1, <2>2, Known DEF CodeFits
  <2>5. LimiterFits(u)' BY <1>1, <2>2, <2>3, <2>4, Known DEF LimiterFits, Answering
  <2> QED BY <1>1, <2>3, <2>5, BudgetLeaves DEF Answering
<1> QED BY <1>2, <1>3

-----------------------------------------------------------------------------
(* The route gives up, or the request is answered after its clean-up.      *)
LEMMA RefusalFits ==
  ASSUME IUpload, IBudget, NEW u \in Uploads, NEW code, Unwinds(u, code),
         up[u].phase \in {"streaming", "reading", "submitting"}, UNCHANGED <<staging, accepted>>
  PROVE  IBudget'
<1>1. /\ up'[u].phase = "cleaning" /\ up'[u].body = up[u].body
      /\ up'[u].exceeded = up[u].exceeded /\ \A v \in Uploads \ {u} : up'[v] = up[v]
  BY Known DEF Unwinds, UploadRequests
<1>2. LimiterFits(u)' BY <1>1, Known DEF LimiterFits, Answering
<1> QED BY <1>1, <1>2, BudgetLeaves

(* The route is done, before it stages or once its staging is gone.        *)
LEMMA RespondFits ==
  ASSUME IUpload, IBudget, NEW u \in Uploads, up[u].phase \in {"parsed", "cleaning"},
         NEW code, Respond(u, code), accepted' = accepted,
         \A v \in Uploads \ {u} : /\ v \in DOMAIN staging' <=> v \in DOMAIN staging
                                  /\ v \in DOMAIN staging => staging'[v] = staging[v]
  PROVE  IBudget'
<1>1. /\ up'[u].phase = "starting" /\ up'[u].body = up[u].body
      /\ \A v \in Uploads \ {u} : up'[v] = up[v]
  BY Known DEF Respond, UploadRequests
<1>2. LimiterFits(u)' BY <1>1, Known DEF LimiterFits, Answering
<1> QED BY <1>1, <1>2, BudgetLeaves DEF Answering

(* What the route goes on with, after a step that keeps the body.          *)
LEMMA RouteGoesOn ==
  ASSUME IUpload, IBudget, NEW u \in Uploads, up[u].phase \in {"parsed", "streaming", "reading"},
         up'[u].phase \in {"streaming", "reading", "submitting"}, up'[u].body = up[u].body,
         \A v \in Uploads \ {u} : /\ up'[v] = up[v]
                                  /\ v \in DOMAIN staging' <=> v \in DOMAIN staging
                                  /\ v \in DOMAIN staging => staging'[v] = staging[v],
         accepted' = accepted, RouteFits(u)'
  PROVE  IBudget'
<1>1. LimiterFits(u)' BY Known DEF LimiterFits, Answering
<1> QED BY <1>1, BudgetStays

(* The beginning: nothing is staged yet.                                   *)
LEMMA StageFits == ASSUME IUpload, IBudget, NEW u \in Uploads, Stage(u) PROVE IBudget'
<1>1. up[u].phase = "parsed" /\ accepted' = accepted BY DEF Stage
<1>2. CASE \E code \in {"UNKNOWN_JOB", "SUBMIT_SOURCES_FAILED"} :
              Respond(u, code) /\ UNCHANGED staging
  BY <1>1, <1>2, RespondFits
<1>3. CASE /\ staging' = [v \in DOMAIN staging \cup {u} |-> IF v = u THEN <<>> ELSE staging[v]]
           /\ up' = [up EXCEPT ![u].phase = "streaming", ![u].file = 1]
  <2>1. /\ up'[u].phase = "streaming" /\ up'[u].file = 1 /\ up'[u].body = up[u].body
        /\ up'[u].exceeded = up[u].exceeded /\ up'[u].total = 0
        /\ \A v \in Uploads \ {u} : up'[v] = up[v]
    BY <1>1, <1>3, Known DEF UploadRequests, LimiterFits
  <2>2. /\ u \in DOMAIN staging' /\ staging'[u] = <<>>
        /\ \A v \in Uploads \ {u} : /\ v \in DOMAIN staging' <=> v \in DOMAIN staging
                                    /\ v \in DOMAIN staging => staging'[v] = staging[v]
    BY <1>3
  <2>3. InBudget(<<>>) BY SizeOfNothing, UploadConstantsOK DEF InBudget
  <2>4. FilesOf(u)' = FilesOf(u) /\ 1 \in 1 .. Len(FilesOf(u)) + 1
    BY <2>1, Known DEF FilesOf
  <2>5. Len(<<>>) = 0 OBVIOUS
  <2>6. StagedSoFar(u)' BY <2>1, <2>2, <2>5 DEF StagedSoFar
  <2>7. RouteFits(u)' BY <2>1, <2>2, <2>3, <2>4, <2>6, SizeOfNothing DEF RouteFits
  <2> QED BY <1>1, <2>1, <2>2, <2>7, RouteGoesOn
<1>4. CASE up' = Goes(u, "raised") /\ UNCHANGED staging
  <2>1. /\ up'[u].phase = "raised" /\ up'[u].body = up[u].body /\ up'[u].code = "none"
        /\ \A v \in Uploads \ {u} : up'[v] = up[v]
    BY <1>1, <1>4, Known DEF Goes, UploadRequests, CodeFits, AtWork, Answering
  <2>2. LimiterFits(u)' BY <1>1, <1>4, <2>1, Known DEF LimiterFits, Answering
  <2> QED BY <1>1, <1>4, <2>1, <2>2, BudgetLeaves DEF Answering
<1> QED BY <1>2, <1>3, <1>4 DEF Stage

(* The next file, empty as yet, has a name of its own.                     *)
LEMMA OpenFileFits == ASSUME IUpload, IBudget, NEW u \in Uploads, OpenFile(u) PROVE IBudget'
<1>1. up[u].phase = "streaming" /\ accepted' = accepted BY DEF OpenFile
<1>2. CASE NameCodes(u) # "none" BY <1>1, <1>2, RefusalFits DEF OpenFile
<1>3. CASE NameCodes(u) = "none"
  <2>1. PICK m \in Nat : up[u].file = m + 1
    <3>1. up[u].file \in 1 .. Len(FilesOf(u)) + 1 /\ Len(FilesOf(u)) \in Nat
      BY <1>1, Known DEF RouteFits
    <3>2. up[u].file - 1 \in Nat /\ up[u].file = (up[u].file - 1) + 1 BY <3>1
    <3> QED BY <3>2
  <2>2. PICK files : files = FilesOf(u) OBVIOUS
  <2>3. PICK staged : staged = staging[u] OBVIOUS
  <2>4. /\ files = FilesOf(u) /\ staged = staging[u] /\ files \in Seq(UploadFiles)
        /\ m + 1 \in 1 .. Len(files) /\ Len(staged) = m
        /\ InBudget(staged) /\ SizeOf(staged) = up[u].total
        /\ \A i \in 1 .. m : staged[i] = files[i]
    <3>1. up[u].file <= Len(FilesOf(u)) BY DEF OpenFile
    <3>2. RouteFits(u) /\ FilesOf(u) \in Seq(UploadFiles) BY Known
    <3>3. (m + 1) - 1 = m OBVIOUS
    <3>4. m + 1 \in 1 .. Len(FilesOf(u)) BY <2>1, <3>1, <3>2
    <3>5. Len(staging[u]) = m BY <1>1, <2>1, <3>2, <3>3 DEF RouteFits, StagedSoFar
    <3>6. /\ InBudget(staging[u]) /\ SizeOf(staging[u]) = up[u].total
          /\ \A i \in 1 .. m : staging[u][i] = FilesOf(u)[i]
      BY <1>1, <2>1, <3>2, <3>3 DEF RouteFits
    <3> QED BY <2>2, <2>3, <3>2, <3>4, <3>5, <3>6
  <2>5. PICK new : new = [name |-> files[m + 1].name, size |-> 0] OBVIOUS
  <2>6. /\ up'[u].phase = "reading" /\ up'[u].body = up[u].body /\ up'[u].got = 0
        /\ up'[u].exceeded = up[u].exceeded /\ up'[u].total = up[u].total
        /\ up'[u].file = m + 1 /\ \A v \in Uploads \ {u} : up'[v] = up[v]
    BY <1>3, <2>1, Known DEF OpenFile, UploadRequests
  <2>7. u \in DOMAIN staging BY <1>1, Known DEF RouteFits
  <2>8. /\ u \in DOMAIN staging' /\ staging'[u] = Append(staged, new)
        /\ \A v \in Uploads \ {u} : /\ v \in DOMAIN staging' <=> v \in DOMAIN staging
                                    /\ v \in DOMAIN staging => staging'[v] = staging[v]
    <3>1. staging' = [staging EXCEPT ![u] = Append(@, new)]
      BY <1>3, <2>1, <2>4, <2>5 DEF OpenFile, FileNow
    <3> QED BY <2>4, <2>7, <3>1
  <2>9. files[m + 1] \in UploadFiles BY <2>4
  <2>10. new \in UploadFiles /\ new.size = 0 /\ new.name = files[m + 1].name
    BY <2>5, <2>9 DEF UploadFiles
  <2>11. staged \in Seq(UploadFiles) BY <2>4 DEF InBudget
  <2>12. PICK more : more = Append(staged, new) OBVIOUS
  <2>13. /\ more \in Seq(UploadFiles) /\ Len(more) = m + 1 /\ more[m + 1] = new
         /\ \A i \in 1 .. m : more[i] = staged[i]
    BY <2>4, <2>10, <2>11, <2>12
  <2>14. SizeOf(more) = SizeOf(staged)
    <3>1. SizeOf(more) = SizeOf(staged) + more[Len(more)].size /\ SizeOf(staged) \in Nat
      BY <2>4, <2>11, <2>13, SizeOfLonger
    <3> QED BY <2>10, <2>13, <3>1
  <2>15. \A i \in 1 .. m : Folded(more[i].name) # Folded(new.name)
    <3>1. EarlierNames(u) = {Folded(files[i].name) : i \in 1 .. m}
      <4>1. up[u].file - 1 = m BY <2>1
      <4> QED BY <2>4, <4>1 DEF EarlierNames
    <3>2. Folded(new.name) \notin EarlierNames(u)
      BY <1>3, <2>1, <2>4, <2>10 DEF NameCodes, FileNow
    <3> QED BY <2>4, <2>13, <3>1, <3>2
  <2>16. InBudget(more)
    <3>1. DOMAIN more = 1 .. m + 1 /\ DOMAIN staged = 1 .. m BY <2>4, <2>11, <2>13
    <3>2. \A i \in DOMAIN more : more[i].size <= FileLimit
      BY <2>4, <2>10, <2>13, <3>1, UploadConstantsOK DEF InBudget
    <3>3. \A i, j \in DOMAIN more : Folded(more[i].name) = Folded(more[j].name) => i = j
      <4> SUFFICES ASSUME NEW i \in 1 .. m + 1, NEW j \in 1 .. m + 1,
                          Folded(more[i].name) = Folded(more[j].name)
                   PROVE  i = j
        BY <3>1
      <4>1. CASE i = m + 1 /\ j = m + 1 BY <4>1
      <4>2. CASE i \in 1 .. m /\ j = m + 1 BY <2>13, <2>15, <4>2
      <4>3. CASE i = m + 1 /\ j \in 1 .. m BY <2>13, <2>15, <4>3
      <4>4. CASE i \in 1 .. m /\ j \in 1 .. m BY <2>4, <2>13, <3>1, <4>4 DEF InBudget
      <4> QED BY <4>1, <4>2, <4>3, <4>4
    <3> QED BY <2>4, <2>13, <2>14, <3>2, <3>3 DEF InBudget
  <2>17. FilesOf(u)' = files BY <2>4, <2>6 DEF FilesOf
  <2>18. StagedSoFar(u)'
    <3>1. FileNow(u)' = files[m + 1] BY <2>6, <2>17 DEF FileNow
    <3>2. m + 1 \in DOMAIN files /\ files[m + 1].size \in Nat BY <2>4, <2>9 DEF UploadFiles
    <3>3. new = [name |-> files[m + 1].name, size |-> 0] BY <2>5
    <3> QED BY <2>6, <2>8, <2>12, <2>13, <2>17, <3>1, <3>2, <3>3 DEF StagedSoFar
  <2>19. RouteFits(u)'
    <3>1. m + 1 \in 1 .. Len(files) + 1 /\ (m + 1) - 1 = m BY <2>4
    <3>2. \A i \in 1 .. m : more[i] = files[i] BY <2>4, <2>13
    <3> QED BY <2>4, <2>6, <2>8, <2>12, <2>14, <2>16, <2>17, <2>18, <3>1, <3>2 DEF RouteFits
  <2> QED BY <1>1, <2>6, <2>8, <2>19, RouteGoesOn
<1> QED BY <1>2, <1>3

(* One chunk more, if both limits allow it.                                *)
LEMMA ReadChunkFits == ASSUME IUpload, IBudget, NEW u \in Uploads, ReadChunk(u) PROVE IBudget'
<1>1. up[u].phase = "reading" /\ accepted' = accepted BY DEF ReadChunk
<1>2. CASE \E code \in {"UPLOAD_FILE_LIMIT", "UPLOAD_TOTAL_LIMIT"} :
              Unwinds(u, code) /\ UNCHANGED staging
  BY <1>1, <1>2, RefusalFits
<1>3. CASE /\ ~(up[u].got + 1 > FileLimit) /\ ~(up[u].total + 1 > TotalLimit)
           /\ up' = [up EXCEPT ![u].got = up[u].got + 1, ![u].total = up[u].total + 1]
           /\ staging' = [staging EXCEPT ![u][Len(staging[u])].size = @ + 1]
  <2>1. PICK m \in Nat : up[u].file = m + 1
    <3>1. up[u].file \in 1 .. Len(FilesOf(u)) + 1 /\ Len(FilesOf(u)) \in Nat
      BY <1>1, Known DEF RouteFits
    <3>2. up[u].file - 1 \in Nat /\ up[u].file = (up[u].file - 1) + 1 BY <3>1
    <3> QED BY <3>2
  <2>2. PICK files : files = FilesOf(u) OBVIOUS
  <2>3. PICK staged : staged = staging[u] OBVIOUS
  <2>4. PICK got : got = up[u].got OBVIOUS
  <2>5. /\ files = FilesOf(u) /\ staged = staging[u] /\ files \in Seq(UploadFiles)
        /\ got = up[u].got /\ got \in Nat /\ got + 1 <= files[m + 1].size
        /\ m + 1 \in DOMAIN files /\ Len(staged) = m + 1
        /\ staged[m + 1] = [name |-> files[m + 1].name, size |-> got]
        /\ InBudget(staged) /\ SizeOf(staged) = up[u].total
        /\ \A i \in 1 .. m : staged[i] = files[i]
    <3>1. RouteFits(u) /\ FilesOf(u) \in Seq(UploadFiles) /\ up[u].got \in Nat BY Known
    <3>2. (m + 1) - 1 = m OBVIOUS
    <3>3. up[u].got < FileNow(u).size /\ FileNow(u) = FilesOf(u)[m + 1]
      BY <2>1 DEF ReadChunk, FileNow
    <3>4. up[u].file \in DOMAIN FilesOf(u)
      BY <1>1, <3>1 DEF RouteFits, StagedSoFar
    <3>5. up[u].got + 1 <= FilesOf(u)[m + 1].size
      <4>1. FilesOf(u)[m + 1] \in UploadFiles BY <2>1, <3>1, <3>4
      <4>2. FilesOf(u)[m + 1].size \in Nat BY <4>1 DEF UploadFiles
      <4> QED BY <3>1, <3>3, <4>2
    <3>6. StagedSoFar(u) BY <1>1, <3>1 DEF RouteFits
    <3>7. /\ m + 1 \in DOMAIN FilesOf(u) /\ Len(staging[u]) = m + 1
          /\ staging[u][m + 1] = [name |-> FilesOf(u)[m + 1].name, size |-> up[u].got]
      BY <1>1, <2>1, <3>3, <3>6 DEF StagedSoFar
    <3>8. /\ InBudget(staging[u]) /\ SizeOf(staging[u]) = up[u].total
          /\ \A i \in 1 .. m : staging[u][i] = FilesOf(u)[i]
      BY <1>1, <2>1, <3>1, <3>2 DEF RouteFits
    <3> QED BY <2>2, <2>3, <2>4, <3>1, <3>5, <3>7, <3>8
  <2>6. PICK new : new = [name |-> files[m + 1].name, size |-> got + 1] OBVIOUS
  <2>7. /\ up'[u].phase = "reading" /\ up'[u].body = up[u].body /\ up'[u].got = got + 1
        /\ up'[u].exceeded = up[u].exceeded /\ up'[u].total = up[u].total + 1
        /\ up'[u].file = m + 1 /\ \A v \in Uploads \ {u} : up'[v] = up[v]
    BY <1>1, <1>3, <2>1, <2>5, Known DEF UploadRequests
  <2>8. u \in DOMAIN staging BY <1>1, Known DEF RouteFits
  <2>9. staged \in Seq(UploadFiles) /\ files[m + 1] \in UploadFiles BY <2>5 DEF InBudget
  <2>10. new \in UploadFiles BY <2>5, <2>6, <2>9 DEF UploadFiles
  <2>11. PICK more : more = [staged EXCEPT ![m + 1].size = @ + 1] OBVIOUS
  <2>12. more = [staged EXCEPT ![m + 1] = new]
    <3>1. [staged[m + 1] EXCEPT !.size = @ + 1] = new BY <2>5, <2>6
    <3> QED BY <2>11, <3>1
  <2>13. /\ u \in DOMAIN staging' /\ staging'[u] = more
         /\ \A v \in Uploads \ {u} : /\ v \in DOMAIN staging' <=> v \in DOMAIN staging
                                     /\ v \in DOMAIN staging => staging'[v] = staging[v]
    <3>1. staging' = [staging EXCEPT ![u] = more]
      <4>1. Len(staging[u]) = m + 1 BY <2>5
      <4> QED BY <1>3, <2>5, <2>11, <4>1
    <3> QED BY <2>8, <3>1
  <2>14. /\ more \in Seq(UploadFiles) /\ Len(more) = m + 1 /\ more[m + 1] = new
         /\ \A i \in 1 .. m : more[i] = staged[i]
    BY <2>5, <2>9, <2>10, <2>12
  <2>15. SizeOf(more) = SizeOf(staged) + 1
    <3>1. more[m + 1].size = staged[m + 1].size + 1 BY <2>5, <2>6, <2>14
    <3> QED BY <2>5, <2>9, <2>14, <3>1, SizeOfOneMore
  <2>16. InBudget(more)
    <3>1. DOMAIN more = 1 .. m + 1 /\ DOMAIN staged = 1 .. m + 1 BY <2>5, <2>9, <2>14
    <3>2. \A i \in DOMAIN more : more[i].name = staged[i].name
      BY <2>5, <2>6, <2>14, <3>1
    <3>3. more[m + 1].size <= FileLimit BY <1>3, <2>5, <2>6, <2>14, UploadConstantsOK
    <3>4. \A i \in DOMAIN more : more[i].size <= FileLimit
      BY <2>5, <2>14, <3>1, <3>3 DEF InBudget
    <3>5. SizeOf(more) <= TotalLimit BY <1>3, <2>5, <2>15, Known, UploadConstantsOK
    <3>6. \A i, j \in DOMAIN more : Folded(more[i].name) = Folded(more[j].name) => i = j
      BY <2>5, <3>1, <3>2 DEF InBudget
    <3> QED BY <2>14, <3>4, <3>5, <3>6 DEF InBudget
  <2>17. FilesOf(u)' = files BY <2>5, <2>7 DEF FilesOf
  <2>18. StagedSoFar(u)'
    <3>1. FileNow(u)' = files[m + 1] BY <2>7, <2>17 DEF FileNow
    <3> QED BY <2>5, <2>6, <2>7, <2>13, <2>14, <2>17, <3>1 DEF StagedSoFar
  <2>19. RouteFits(u)'
    <3>1. m + 1 \in 1 .. Len(files) + 1 /\ (m + 1) - 1 = m BY <2>5
    <3>2. \A i \in 1 .. m : more[i] = files[i] BY <2>5, <2>14
    <3>3. SizeOf(more) = up[u].total + 1 BY <2>5, <2>15
    <3> QED BY <2>7, <2>13, <2>16, <2>17, <2>18, <3>1, <3>2, <3>3 DEF RouteFits
  <2> QED BY <1>1, <2>7, <2>13, <2>19, RouteGoesOn
<1> QED BY <1>1, <1>2, <1>3 DEF ReadChunk

(* A file that was read to its end is staged as it was sent.               *)
LEMMA CloseFileFits == ASSUME IUpload, IBudget, NEW u \in Uploads, CloseFile(u) PROVE IBudget'
<1>1. up[u].phase = "reading" /\ UNCHANGED <<staging, accepted>> BY DEF CloseFile, Rests
<1>2. PICK m \in Nat : up[u].file = m + 1
  <2>1. up[u].file \in 1 .. Len(FilesOf(u)) + 1 /\ Len(FilesOf(u)) \in Nat
    BY <1>1, Known DEF RouteFits
  <2>2. up[u].file - 1 \in Nat /\ up[u].file = (up[u].file - 1) + 1 BY <2>1
  <2> QED BY <2>2
<1>3. PICK files : files = FilesOf(u) OBVIOUS
<1>4. PICK staged : staged = staging[u] OBVIOUS
<1>5. /\ files = FilesOf(u) /\ staged = staging[u] /\ files \in Seq(UploadFiles)
      /\ m + 1 \in DOMAIN files /\ Len(staged) = m + 1
      /\ staged[m + 1] = [name |-> files[m + 1].name, size |-> files[m + 1].size]
      /\ InBudget(staged) /\ SizeOf(staged) = up[u].total
      /\ \A i \in 1 .. m : staged[i] = files[i]
  <2>1. RouteFits(u) /\ FilesOf(u) \in Seq(UploadFiles) BY Known
  <2>2. (m + 1) - 1 = m OBVIOUS
  <2>3. up[u].got = FilesOf(u)[m + 1].size /\ FileNow(u) = FilesOf(u)[m + 1]
    BY <1>2 DEF CloseFile, FileNow
  <2>4. StagedSoFar(u) BY <1>1, <2>1 DEF RouteFits
  <2>5. /\ m + 1 \in DOMAIN FilesOf(u) /\ Len(staging[u]) = m + 1
        /\ staging[u][m + 1] = [name |-> FilesOf(u)[m + 1].name, size |-> FilesOf(u)[m + 1].size]
    BY <1>1, <1>2, <2>3, <2>4 DEF StagedSoFar
  <2>6. /\ InBudget(staging[u]) /\ SizeOf(staging[u]) = up[u].total
        /\ \A i \in 1 .. m : staging[u][i] = FilesOf(u)[i]
    BY <1>1, <1>2, <2>1, <2>2 DEF RouteFits
  <2> QED BY <1>3, <1>4, <2>1, <2>5, <2>6
<1>6. staged[m + 1] = files[m + 1]
  <2>1. files[m + 1] \in UploadFiles BY <1>5
  <2> QED BY <1>5, <2>1 DEF UploadFiles
<1>7. /\ up'[u].phase = "streaming" /\ up'[u].body = up[u].body /\ up'[u].file = m + 2
      /\ up'[u].exceeded = up[u].exceeded /\ up'[u].total = up[u].total
      /\ \A v \in Uploads \ {u} : up'[v] = up[v]
  <2>1. up' = [up EXCEPT ![u].phase = "streaming", ![u].file = m + 2]
    <3>1. up[u].file + 1 = m + 2 BY <1>2
    <3> QED BY <3>1 DEF CloseFile
  <2> QED BY <2>1, Known DEF UploadRequests
<1>8. RouteFits(u)'
  <2>1. FilesOf(u)' = files BY <1>5, <1>7 DEF FilesOf
  <2>2. m + 2 \in 1 .. Len(files) + 1 /\ (m + 2) - 1 = m + 1 BY <1>5
  <2>3. \A i \in 1 .. m + 1 : staged[i] = files[i] BY <1>5, <1>6
  <2>4. u \in DOMAIN staging' /\ staging'[u] = staged BY <1>1, <1>5, Known DEF RouteFits
  <2>5. StagedSoFar(u)' BY <1>5, <1>7, <2>2, <2>4 DEF StagedSoFar
  <2> QED BY <1>5, <1>7, <2>1, <2>2, <2>3, <2>4, <2>5 DEF RouteFits
<1> QED BY <1>1, <1>7, <1>8, RouteGoesOn

(* All files are staged: the job is looked at.                             *)
LEMMA ReadForSubmissionFits ==
  ASSUME IUpload, IBudget, NEW u \in Uploads, ReadForSubmission(u) PROVE IBudget'
<1>1. up[u].phase = "streaming" /\ UNCHANGED <<staging, accepted>>
  BY DEF ReadForSubmission, Rests
<1>2. /\ up'[u].phase = "submitting" /\ up'[u].body = up[u].body /\ up'[u].file = up[u].file
      /\ up'[u].total = up[u].total /\ \A v \in Uploads \ {u} : up'[v] = up[v]
  BY Known DEF ReadForSubmission, UploadRequests
<1>3. RouteFits(u) /\ FilesOf(u)' = FilesOf(u) BY <1>2, Known DEF FilesOf
<1>4. up[u].file = Len(FilesOf(u)) + 1
  <2>1. /\ up[u].file \in 1 .. Len(FilesOf(u)) + 1 /\ up[u].file > Len(FilesOf(u))
        /\ Len(FilesOf(u)) \in Nat
    BY <1>1, Known DEF ReadForSubmission, RouteFits
  <2> QED BY <2>1
<1>5. StagedSoFar(u)' BY <1>1, <1>2, <1>3 DEF RouteFits, StagedSoFar
<1>6. RouteFits(u)' BY <1>1, <1>2, <1>3, <1>4, <1>5 DEF RouteFits
<1> QED BY <1>1, <1>2, <1>6, RouteGoesOn

(* What is submitted is the body, all of it.                               *)
LEMMA PublishSourcesFits ==
  ASSUME IUpload, IBudget, NEW u \in Uploads, PublishSources(u) PROVE IBudget'
<1>1. /\ up[u].phase = "submitting" /\ staging' = staging /\ Unwinds(u, "ok")
      /\ accepted' = {[by |-> u, files |-> staging[u]]}
  BY DEF PublishSources
<1>2. /\ up'[u].phase = "cleaning" /\ up'[u].body = up[u].body
      /\ up'[u].exceeded = up[u].exceeded /\ \A v \in Uploads \ {u} : up'[v] = up[v]
  BY <1>1, Known DEF Unwinds, UploadRequests
<1>3. LimiterFits(u)' BY <1>1, <1>2, Known DEF LimiterFits
<1>4. RouteFits(u)' BY <1>2 DEF RouteFits
<1>5. PICK files : files = up[u].body.files OBVIOUS
<1>6. PICK staged : staged = staging[u] OBVIOUS
<1>7. /\ files = up[u].body.files /\ staged = staging[u] /\ files \in Seq(UploadFiles)
      /\ InBudget(staged) /\ Len(staged) = Len(files)
      /\ \A i \in 1 .. Len(files) : staged[i] = files[i]
  <2>1. RouteFits(u) /\ FilesOf(u) \in Seq(UploadFiles) /\ Len(FilesOf(u)) \in Nat BY Known
  <2>2. up[u].file = Len(FilesOf(u)) + 1 /\ up[u].file - 1 = Len(FilesOf(u))
    BY <1>1, <2>1 DEF RouteFits
  <2>3. /\ InBudget(staging[u]) /\ Len(staging[u]) = Len(FilesOf(u))
        /\ \A i \in 1 .. Len(FilesOf(u)) : staging[u][i] = FilesOf(u)[i]
    BY <1>1, <2>1, <2>2 DEF RouteFits, StagedSoFar
  <2>4. files = FilesOf(u) BY <1>5 DEF FilesOf
  <2> QED BY <1>5, <1>6, <2>1, <2>3, <2>4
<1>8. staged = files
  <2>1. staged \in Seq(UploadFiles) BY <1>7 DEF InBudget
  <2> QED BY <1>7, <2>1
<1>9. \A one \in accepted' : AcceptedFits(one)'
  <2>1. ASSUME NEW one \in accepted' PROVE AcceptedFits(one)'
    <3>1. one.by = u /\ one.files = staging[u] BY <1>1
    <3>2. /\ one.files = files /\ up'[one.by].phase = "cleaning"
          /\ up'[one.by].body.files = files
      BY <1>2, <1>7, <1>8, <3>1
    <3>3. InBudget(one.files) BY <1>7, <1>8, <3>2
    <3> QED BY <3>2, <3>3 DEF AcceptedFits, InBudget
  <2> QED BY <2>1
<1> QED BY <1>1, <1>2, <1>3, <1>4, <1>9, BudgetStays

(* The staging directory is removed, or its removal fails.                 *)
LEMMA CleanUpFits == ASSUME IUpload, IBudget, NEW u \in Uploads, CleanUp(u) PROVE IBudget'
<1>1. PICK code : Respond(u, code) BY DEF CleanUp
<1>2. /\ up[u].phase = "cleaning" /\ accepted' = accepted
      /\ \A v \in Uploads \ {u} : /\ v \in DOMAIN staging' <=> v \in DOMAIN staging
                                  /\ v \in DOMAIN staging => staging'[v] = staging[v]
  BY DEF CleanUp
<1> QED BY <1>1, <1>2, RespondFits

-----------------------------------------------------------------------------
(* Nothing was sent, received or staged.                                   *)
LEMMA InitIBudget == UploadInit => IBudget
<1> SUFFICES ASSUME UploadInit PROVE IBudget OBVIOUS
<1>1. ASSUME NEW u \in Uploads PROVE LimiterFits(u) /\ RouteFits(u)
  <2>1. up[u] = Idle /\ u \notin DOMAIN staging BY DEF UploadInit
  <2> QED BY <2>1 DEF LimiterFits, RouteFits, Idle, Answering
<1> QED BY <1>1 DEF IBudget, UploadInit

(* Every step keeps the budget. *)
LEMMA NextIBudget == IUpload /\ IBudget /\ [UploadNext]_uploadVars => IBudget'
<1> SUFFICES ASSUME IUpload, IBudget, [UploadNext]_uploadVars PROVE IBudget' OBVIOUS
<1>1. CASE UNCHANGED uploadVars
  BY <1>1 DEF uploadVars, IBudget, LimiterFits, RouteFits, StagedSoFar, FilesOf, FileNow, AcceptedFits
<1>2. ASSUME NEW u \in Uploads, UploadStep(u) PROVE IBudget'
  <2>1. CASE SendBody(u) BY <2>1, SendBodyFits
  <2>2. CASE Admit(u) BY <2>2, AdmitFits
  <2>3. CASE Receive(u) BY <2>3, ReceiveFits
  <2>4. CASE Disconnect(u) BY <2>4, GoesFits DEF Disconnect
  <2>5. CASE Unwind(u) BY <2>5, UnwindFits
  <2>6. CASE Stage(u) BY <2>6, StageFits
  <2>7. CASE OpenFile(u) BY <2>7, OpenFileFits
  <2>8. CASE ReadChunk(u) BY <2>8, ReadChunkFits
  <2>9. CASE CloseFile(u) BY <2>9, CloseFileFits
  <2>10. CASE WriteFails(u) BY <2>10, RefusalFits DEF WriteFails, Rests
  <2>11. CASE ReadForSubmission(u) BY <2>11, ReadForSubmissionFits
  <2>12. CASE PublishSources(u) BY <2>12, PublishSourcesFits
  <2>13. CASE NothingToSubmit(u) BY <2>13, RefusalFits DEF NothingToSubmit, Rests
  <2>14. CASE CleanUp(u) BY <2>14, CleanUpFits
  <2>15. CASE SendStart(u) BY <2>15, SpeaksFits DEF SendStart
  <2>16. CASE SendRest(u) BY <2>16, SpeaksFits DEF SendRest
  <2>17. CASE EndRequest(u) BY <2>17, EndRequestFits
  <2> QED
    BY <1>2, <2>1, <2>2, <2>3, <2>4, <2>5, <2>6, <2>7, <2>8, <2>9, <2>10, <2>11, <2>12, <2>13,
       <2>14, <2>15, <2>16, <2>17
    DEF UploadStep
<1>3. ASSUME OthersMoveJob PROVE IBudget'
  BY <1>3 DEF OthersMoveJob, IBudget, LimiterFits, RouteFits, StagedSoFar, FilesOf, FileNow,
              AcceptedFits
<1> QED BY <1>1, <1>2, <1>3 DEF UploadNext

(* UploadsAreBounded: whatever its header claims and however its files are *)
(* cut into chunks, the submission of the job is the body of its request,  *)
(* within the limits for a file and for all, under names that differ; and  *)
(* a body past the limit of a request leaves nothing staged and is         *)
(* answered as too large, unless it was cut off before the limit.          *)
THEOREM UploadsStayBounded == UploadSpec => []UploadsAreBounded
<1>1. UploadSpec => []IBudget
  BY InitIBudget, NextIBudget, UploadInvariance, PTL DEF UploadSpec
<1>2. ASSUME IUpload, IBudget PROVE UploadsAreBounded
  <2>1. ASSUME NEW one \in accepted
        PROVE  /\ SizeOf(one.files) <= TotalLimit
               /\ \A i \in DOMAIN one.files : one.files[i].size <= FileLimit
               /\ \A i, j \in DOMAIN one.files :
                     Folded(one.files[i].name) = Folded(one.files[j].name) => i = j
               /\ one.files = up[one.by].body.files
    BY <1>2 DEF IBudget, AcceptedFits, InBudget
  <2>2. ASSUME NEW u \in Uploads, up[u].phase # "idle", BodySize(up[u].body) > RequestLimit
        PROVE  /\ u \notin DOMAIN staging
               /\ up[u].phase = "answered" =>
                     up[u].code \in {"UPLOAD_REQUEST_LIMIT", "BAD_BODY", "escaped"}
               /\ up[u].exceeded /\ up[u].phase = "answered" =>
                     up[u].code = "UPLOAD_REQUEST_LIMIT"
    <3>1. ~(BodySize(up[u].body) <= RequestLimit) BY <1>2, <2>2, Known, UploadConstantsOK
    <3> QED BY <1>2, <3>1, Known DEF LimiterFits, Answering
  <2> QED BY <2>1, <2>2 DEF UploadsAreBounded
<1> QED BY <1>1, <1>2, UploadInvariance, PTL

-----------------------------------------------------------------------------
(* Updates of two fields keep a record in its set. *)

LEMMA PipeUpdates ==
  ASSUME NEW p \in Pipes, NEW w \in Nat, NEW u \in Nat, NEW c \in Nat
  PROVE  /\ [p EXCEPT !.written = w, !.unread = u] \in Pipes
         /\ [p EXCEPT !.unread = u, !.captured = c] \in Pipes
BY DEF Pipes

LEMMA RunUpdates ==
  ASSUME NEW r \in Runs, NEW phase \in Phases, NEW code \in Codes
  PROVE  /\ [r EXCEPT !.phase = phase, !.returncode = code] \in Runs
         /\ [r EXCEPT !.phase = phase, !.timedOut = TRUE] \in Runs
BY DEF Runs

LEMMA RunBegins ==
  ASSUME NEW r \in Runs, NEW phase \in Phases, NEW user \in {"provider", "febuilder"},
         NEW result \in {"REFUSED", "raised", "not_run", "failed"}
  PROVE  /\ [r EXCEPT !.phase = phase, !.user = user] \in Runs
         /\ [r EXCEPT !.phase = phase, !.user = user, !.result = result] \in Runs
BY DEF Runs

-----------------------------------------------------------------------------
(* The invariant holds at first, and each action keeps each part of it. *)
LEMMA InitIProcess == ProcessInit => IProcess
BY ProcessConstantsOK
DEF ProcessInit, IProcess, ProcessOK, StatusFits, GroupFits, PipeFits, Runs, Leaders,
    Relatives, Pipes, Phase, Phases, Codes, NotForked, Group, HeldOpen

LEMMA ForkKeeps == ASSUME IProcess, NEW d \in Kin, Fork(d) PROVE IProcess'
<1> USE ProcessConstantsOK DEF IProcess, Phase, Turn, Fork, LeaderRuns, NotForked
<1>1. ProcessOK'
  <2>1. run' \in Runs BY DEF ProcessOK, Runs, Phases, Codes
  <2>2. leader' \in Leaders BY DEF ProcessOK, Leaders, Codes
  <2>3. kin' \in [Kin -> Relatives] BY DEF ProcessOK, Relatives
  <2>4. pipe' \in Pipes BY DEF ProcessOK, Pipes
  <2> QED BY <2>1, <2>2, <2>3, <2>4 DEF ProcessOK
<1>2. StatusFits' BY DEF ProcessOK, Runs, Leaders, StatusFits, GroupFits, Group
<1>3. GroupFits' BY DEF ProcessOK, Runs, Leaders, Relatives, StatusFits, GroupFits, Group
<1>4. PipeFits'
  BY DEF ProcessOK, Runs, Leaders, Relatives, Pipes, PipeFits, HeldOpen, StatusFits
<1> QED BY <1>1, <1>2, <1>3, <1>4

LEMMA WriteOutputKeeps == ASSUME IProcess, WriteOutput PROVE IProcess'
<1> USE ProcessConstantsOK DEF IProcess, Phase, Turn, WriteOutput, LeaderRuns
<1>1. ProcessOK'
  <2>1. run' \in Runs BY DEF ProcessOK, Runs, Phases, Codes
  <2>2. leader' \in Leaders BY DEF ProcessOK, Leaders, Codes
  <2>3. kin' \in [Kin -> Relatives] BY DEF ProcessOK, Relatives
  <2>4. pipe' \in Pipes
    <3>1. pipe.written + 1 \in Nat /\ pipe.unread + 1 \in Nat BY DEF ProcessOK, Pipes
    <3>2. pipe' = [pipe EXCEPT !.written = pipe.written + 1, !.unread = pipe.unread + 1]
      OBVIOUS
    <3>3. pipe \in Pipes BY DEF ProcessOK
    <3>4. [pipe EXCEPT !.written = pipe.written + 1, !.unread = pipe.unread + 1] \in Pipes
      BY <3>1, <3>3, PipeUpdates, Zenon
    <3> QED BY <3>2, <3>4, Zenon
  <2> QED BY <2>1, <2>2, <2>3, <2>4 DEF ProcessOK
<1>2. StatusFits' BY DEF ProcessOK, Runs, Leaders, StatusFits, GroupFits, Group
<1>3. GroupFits' BY DEF ProcessOK, Runs, Leaders, Relatives, StatusFits, GroupFits, Group
<1>4. PipeFits'
  BY DEF ProcessOK, Runs, Leaders, Relatives, Pipes, PipeFits, HeldOpen, StatusFits
<1> QED BY <1>1, <1>2, <1>3, <1>4

LEMMA ExitLeaderKeeps == ASSUME IProcess, ExitLeader PROVE IProcess'
<1> USE ProcessConstantsOK DEF IProcess, Phase, Turn, ExitLeader, LeaderRuns
<1>1. ProcessOK'
  <2>1. run' \in Runs BY DEF ProcessOK, Runs, Phases, Codes
  <2>2. leader' \in Leaders BY DEF ProcessOK, Leaders, Codes
  <2>3. kin' \in [Kin -> Relatives] BY DEF ProcessOK, Relatives
  <2>4. pipe' \in Pipes BY DEF ProcessOK, Pipes
  <2> QED BY <2>1, <2>2, <2>3, <2>4 DEF ProcessOK
<1>2. StatusFits' BY DEF ProcessOK, Runs, Leaders, StatusFits, GroupFits, Group
<1>3. GroupFits' BY DEF ProcessOK, Runs, Leaders, Relatives, StatusFits, GroupFits, Group
<1>4. PipeFits'
  BY DEF ProcessOK, Runs, Leaders, Relatives, Pipes, PipeFits, HeldOpen, StatusFits
<1> QED BY <1>1, <1>2, <1>3, <1>4

LEMMA ExitKinKeeps == ASSUME IProcess, NEW d \in Kin, ExitKin(d) PROVE IProcess'
<1> USE ProcessConstantsOK DEF IProcess, Phase, Turn, ExitKin, Alive
<1>1. ProcessOK'
  <2>1. run' \in Runs BY DEF ProcessOK, Runs, Phases, Codes
  <2>2. leader' \in Leaders BY DEF ProcessOK, Leaders, Codes
  <2>3. kin' \in [Kin -> Relatives] BY DEF ProcessOK, Relatives
  <2>4. pipe' \in Pipes BY DEF ProcessOK, Pipes
  <2> QED BY <2>1, <2>2, <2>3, <2>4 DEF ProcessOK
<1>2. StatusFits' BY DEF ProcessOK, Runs, Leaders, StatusFits, GroupFits, Group
<1>3. GroupFits' BY DEF ProcessOK, Runs, Leaders, Relatives, StatusFits, GroupFits, Group
<1>4. PipeFits'
  BY DEF ProcessOK, Runs, Leaders, Relatives, Pipes, PipeFits, HeldOpen, StatusFits
<1> QED BY <1>1, <1>2, <1>3, <1>4

LEMMA DieOfKeeps == ASSUME IProcess, NEW x \in Kin \cup {"leader"}, DieOf(x) PROVE IProcess'
<1> USE ProcessConstantsOK DEF IProcess, Phase, Turn, DieOf
<1>1. ProcessOK'
  <2>1. run' \in Runs BY DEF ProcessOK, Runs, Phases, Codes
  <2>2. leader' \in Leaders BY DEF ProcessOK, Leaders, Codes
  <2>3. kin' \in [Kin -> Relatives] BY DEF ProcessOK, Relatives
  <2>4. pipe' \in Pipes BY DEF ProcessOK, Pipes
  <2> QED BY <2>1, <2>2, <2>3, <2>4 DEF ProcessOK
<1>2. StatusFits' BY DEF ProcessOK, Runs, Leaders, StatusFits, GroupFits, Group
<1>3. GroupFits' BY DEF ProcessOK, Runs, Leaders, Relatives, StatusFits, GroupFits, Group
<1>4. PipeFits'
  <2>1. HeldOpen' => HeldOpen
    <3>1. CASE x = "leader" BY <3>1 DEF ProcessOK, Leaders, HeldOpen
    <3>2. CASE x # "leader" BY <3>2 DEF ProcessOK, Relatives, HeldOpen
    <3> QED BY <3>1, <3>2
  <2>2. leader'.state = "none" <=> leader.state = "none" BY DEF ProcessOK, Leaders
  <2> QED BY <2>1, <2>2 DEF PipeFits
<1> QED BY <1>1, <1>2, <1>3, <1>4

LEMMA ReadOutputKeeps == ASSUME IProcess, ReadOutput PROVE IProcess'
<1> USE ProcessConstantsOK DEF IProcess, Phase, Turn, ReadOutput
<1>1. ProcessOK'
  <2>1. run' \in Runs BY DEF ProcessOK, Runs, Phases, Codes
  <2>2. leader' \in Leaders BY DEF ProcessOK, Leaders, Codes
  <2>3. kin' \in [Kin -> Relatives] BY DEF ProcessOK, Relatives
  <2>4. pipe' \in Pipes
    <3> DEFINE captured == IF pipe.captured < CaptureLimit THEN pipe.captured + 1
                           ELSE pipe.captured
    <3>1. CASE pipe.unread > 0
      <4>1. pipe.unread - 1 \in Nat /\ captured \in Nat BY <3>1 DEF ProcessOK, Pipes
      <4>2. pipe' = [pipe EXCEPT !.unread = pipe.unread - 1, !.captured = captured]
        BY <3>1
      <4> QED BY <4>1, <4>2, PipeUpdates, Zenon DEF ProcessOK
    <3>2. CASE ~(pipe.unread > 0) BY <3>2 DEF ProcessOK, Pipes
    <3> QED BY <3>1, <3>2
  <2> QED BY <2>1, <2>2, <2>3, <2>4 DEF ProcessOK
<1>2. StatusFits' BY DEF ProcessOK, Runs, Leaders, StatusFits, GroupFits, Group
<1>3. GroupFits' BY DEF ProcessOK, Runs, Leaders, Relatives, StatusFits, GroupFits, Group
<1>4. PipeFits'
  <2>1. CASE pipe.unread > 0
    <3>1. /\ pipe'.written = pipe.written /\ pipe'.unread = pipe.unread - 1
          /\ pipe'.ended = pipe.ended /\ ~pipe.ended
          /\ pipe'.captured = IF pipe.captured < CaptureLimit THEN pipe.captured + 1
                              ELSE pipe.captured
      BY <2>1 DEF ProcessOK, Pipes
    <3>2. /\ pipe.written \in Nat /\ pipe.unread \in Nat /\ pipe.captured \in Nat
          /\ CaptureLimit \in Nat
      BY DEF ProcessOK, Pipes
    <3> QED BY <2>1, <3>1, <3>2 DEF PipeFits
  <2>2. CASE ~(pipe.unread > 0)
    BY <2>2 DEF ProcessOK, Pipes, PipeFits, HeldOpen
  <2> QED BY <2>1, <2>2
<1> QED BY <1>1, <1>2, <1>3, <1>4

LEMMA StartProcessKeeps == ASSUME IProcess, StartProcess PROVE IProcess'
<1> USE ProcessConstantsOK DEF IProcess, Phase, Turn, StartProcess
<1>0. PICK user \in {"provider", "febuilder"} :
            \/ \E stubborn \in BOOLEAN :
                 /\ run' = [run EXCEPT !.phase = "waiting", !.user = user]
                 /\ leader' = [leader EXCEPT !.state = "running", !.stubborn = stubborn]
            \/ \E result \in IF user = "provider" THEN {"REFUSED", "raised"}
                             ELSE {"not_run", "failed"} :
                 /\ run' = [run EXCEPT !.phase = "answered", !.user = user, !.result = result]
                 /\ UNCHANGED leader
  BY Zenon
<1>1. ProcessOK'
  <2>1. run' \in Runs
    <3>1. {"waiting", "answered"} \subseteq Phases BY DEF Phases
    <3>3. run \in Runs BY DEF ProcessOK
    <3>4. CASE run' = [run EXCEPT !.phase = "waiting", !.user = user]
      <4>1. "waiting" \in Phases /\ "failed" \in {"REFUSED", "raised", "not_run", "failed"}
        BY DEF Phases
      <4>2. [run EXCEPT !.phase = "waiting", !.user = user] \in Runs
        BY <4>1, <3>3, RunBegins, Zenon
      <4> QED BY <4>2, <3>4, Zenon
    <3>5. ASSUME NEW result \in {"REFUSED", "raised", "not_run", "failed"},
                 run' = [run EXCEPT !.phase = "answered", !.user = user, !.result = result]
          PROVE  run' \in Runs
      <4>1. [run EXCEPT !.phase = "answered", !.user = user, !.result = result] \in Runs
        BY <3>1, <3>3, RunBegins, Zenon
      <4> QED BY <4>1, <3>5, Zenon
    <3> QED BY <1>0, <3>4, <3>5
  <2>2. leader' \in Leaders BY DEF ProcessOK, Leaders, Codes
  <2>3. kin' \in [Kin -> Relatives] BY DEF ProcessOK, Relatives
  <2>4. pipe' \in Pipes BY DEF ProcessOK, Pipes
  <2> QED BY <2>1, <2>2, <2>3, <2>4 DEF ProcessOK
<1>2. StatusFits'
  <2>2. CASE run'.phase = "waiting"
    <3>1. leader'.state = "running" BY <1>0, <2>2 DEF ProcessOK, Runs, Leaders
    <3>2. run'.timedOut = run.timedOut /\ run'.returncode = run.returncode
      BY <1>0 DEF ProcessOK, Runs
    <3> QED BY <2>2, <3>1, <3>2 DEF StatusFits
  <2>3. CASE run'.phase # "waiting"
    <3>1. run'.phase = "answered" /\ UNCHANGED leader BY <1>0, <2>3 DEF ProcessOK, Runs
    <3>2. run'.timedOut = run.timedOut /\ run'.returncode = run.returncode
      BY <1>0 DEF ProcessOK, Runs
    <3> QED BY <3>1, <3>2 DEF StatusFits
  <2> QED BY <2>2, <2>3
<1>3. GroupFits' BY DEF ProcessOK, Runs, Leaders, Relatives, StatusFits, GroupFits, Group
<1>4. PipeFits'
  BY DEF ProcessOK, Runs, Leaders, Relatives, Pipes, PipeFits, HeldOpen, StatusFits
<1> QED BY <1>1, <1>2, <1>3, <1>4

LEMMA WaitForLeaderKeeps == ASSUME IProcess, WaitForLeader PROVE IProcess'
<1> USE ProcessConstantsOK DEF IProcess, Phase, Turn, WaitForLeader
<1>1. ProcessOK'
  <2>1. run' \in Runs
    <3>1. leader.code \in Codes BY DEF ProcessOK, Leaders
    <3>2. {"draining", "term"} \subseteq Phases BY DEF Phases
    <3>3. run \in Runs BY DEF ProcessOK
    <3>4. /\ [run EXCEPT !.phase = "draining", !.returncode = leader.code] \in Runs
          /\ [run EXCEPT !.phase = "term", !.timedOut = TRUE] \in Runs
      BY <3>1, <3>2, <3>3, RunUpdates, Zenon
    <3> QED BY <3>4, Zenon
  <2>2. leader' \in Leaders BY DEF ProcessOK, Leaders, Codes
  <2>3. kin' \in [Kin -> Relatives] BY DEF ProcessOK, Relatives
  <2>4. pipe' \in Pipes BY DEF ProcessOK, Pipes
  <2> QED BY <2>1, <2>2, <2>3, <2>4 DEF ProcessOK
<1>2. StatusFits'
  <2>1. CASE leader.state = "exited" /\ leader' = [leader EXCEPT !.state = "reaped"]
             /\ run' = [run EXCEPT !.phase = "draining", !.returncode = leader.code]
    BY <2>1 DEF ProcessOK, Runs, Leaders, StatusFits
  <2>2. CASE run' = [run EXCEPT !.phase = "term", !.timedOut = TRUE] /\ UNCHANGED leader
    BY <2>2 DEF ProcessOK, Runs, Leaders, StatusFits
  <2> QED BY <2>1, <2>2
<1>3. GroupFits' BY DEF ProcessOK, Runs, Leaders, Relatives, StatusFits, GroupFits, Group
<1>4. PipeFits'
  BY DEF ProcessOK, Runs, Leaders, Relatives, Pipes, PipeFits, HeldOpen, StatusFits
<1> QED BY <1>1, <1>2, <1>3, <1>4

LEMMA TerminateKeeps == ASSUME IProcess, Terminate PROVE IProcess'
<1> USE ProcessConstantsOK DEF IProcess, Phase, Turn, Terminate
<1>1. ProcessOK'
  <2>1. run' \in Runs BY DEF ProcessOK, Runs, Phases, Codes
  <2>2. leader' \in Leaders BY DEF ProcessOK, Leaders, Codes
  <2>3. kin' \in [Kin -> Relatives] BY DEF ProcessOK, Relatives
  <2>4. pipe' \in Pipes BY DEF ProcessOK, Pipes
  <2> QED BY <2>1, <2>2, <2>3, <2>4 DEF ProcessOK
<1>2. StatusFits'
  <2>1. /\ run'.phase = "grace" /\ run'.timedOut = run.timedOut
        /\ run'.returncode = run.returncode /\ run.timedOut = TRUE
        /\ run.returncode = "none" /\ killed' = killed /\ leader.state # "none"
    BY DEF ProcessOK, Runs, StatusFits
  <2>2. leader'.state # "none"
    <3>1. CASE leader' = leader BY <2>1, <3>1
    <3>2. CASE leader' = [leader EXCEPT !.state = "exited", !.code = "signal"]
      BY <3>2 DEF ProcessOK, Leaders
    <3> QED BY <3>1, <3>2
  <2> QED BY <2>1, <2>2 DEF StatusFits
<1>3. GroupFits' BY DEF ProcessOK, Runs, Leaders, Relatives, StatusFits, GroupFits, Group
<1>4. PipeFits'
  <2>1. HeldOpen' => HeldOpen
    <3>1. leader'.state = "running" => leader.state = "running" BY DEF ProcessOK, Leaders
    <3>2. \A d \in Kin : kin'[d].alive => kin'[d] = kin[d] BY DEF ProcessOK, Relatives
    <3> QED BY <3>1, <3>2 DEF HeldOpen
  <2>2. leader'.state = "none" <=> leader.state = "none" BY DEF ProcessOK, Leaders, Group
  <2>3. run'.phase = "grace" BY DEF ProcessOK, Runs
  <2> QED BY <2>1, <2>2, <2>3 DEF PipeFits
<1> QED BY <1>1, <1>2, <1>3, <1>4

LEMMA GraceKeeps == ASSUME IProcess, Grace PROVE IProcess'
<1> USE ProcessConstantsOK DEF IProcess, Phase, Turn, Grace, Reap1
<1>1. ProcessOK'
  <2>1. run' \in Runs BY DEF ProcessOK, Runs, Phases, Codes
  <2>2. leader' \in Leaders BY DEF ProcessOK, Leaders, Codes
  <2>3. kin' \in [Kin -> Relatives] BY DEF ProcessOK, Relatives
  <2>4. pipe' \in Pipes BY DEF ProcessOK, Pipes
  <2> QED BY <2>1, <2>2, <2>3, <2>4 DEF ProcessOK
<1>2. StatusFits' BY DEF ProcessOK, Runs, Leaders, StatusFits, GroupFits, Group
<1>3. GroupFits' BY DEF ProcessOK, Runs, Leaders, Relatives, StatusFits, GroupFits, Group
<1>4. PipeFits'
  BY DEF ProcessOK, Runs, Leaders, Relatives, Pipes, PipeFits, HeldOpen, StatusFits
<1> QED BY <1>1, <1>2, <1>3, <1>4

LEMMA WaitForKillKeeps == ASSUME IProcess, WaitForKill PROVE IProcess'
<1> USE ProcessConstantsOK DEF IProcess, Phase, Turn, WaitForKill, Reap1
<1>1. ProcessOK'
  <2>1. run' \in Runs BY DEF ProcessOK, Runs, Phases, Codes
  <2>2. leader' \in Leaders BY DEF ProcessOK, Leaders, Codes
  <2>3. kin' \in [Kin -> Relatives] BY DEF ProcessOK, Relatives
  <2>4. pipe' \in Pipes BY DEF ProcessOK, Pipes
  <2> QED BY <2>1, <2>2, <2>3, <2>4 DEF ProcessOK
<1>2. StatusFits' BY DEF ProcessOK, Runs, Leaders, StatusFits, GroupFits, Group
<1>3. GroupFits' BY DEF ProcessOK, Runs, Leaders, Relatives, StatusFits, GroupFits, Group
<1>4. PipeFits'
  BY DEF ProcessOK, Runs, Leaders, Relatives, Pipes, PipeFits, HeldOpen, StatusFits
<1> QED BY <1>1, <1>2, <1>3, <1>4

LEMMA DrainKeeps == ASSUME IProcess, Drain PROVE IProcess'
<1> USE ProcessConstantsOK DEF IProcess, Phase, Turn, Drain
<1>1. ProcessOK'
  <2>1. run' \in Runs BY DEF ProcessOK, Runs, Phases, Codes
  <2>2. leader' \in Leaders BY DEF ProcessOK, Leaders, Codes
  <2>3. kin' \in [Kin -> Relatives] BY DEF ProcessOK, Relatives
  <2>4. pipe' \in Pipes BY DEF ProcessOK, Pipes
  <2> QED BY <2>1, <2>2, <2>3, <2>4 DEF ProcessOK
<1>2. StatusFits' BY DEF ProcessOK, Runs, Leaders, StatusFits, GroupFits, Group
<1>3. GroupFits' BY DEF ProcessOK, Runs, Leaders, Relatives, StatusFits, GroupFits, Group
<1>4. PipeFits'
  BY DEF ProcessOK, Runs, Leaders, Relatives, Pipes, PipeFits, HeldOpen, StatusFits
<1> QED BY <1>1, <1>2, <1>3, <1>4

LEMMA ConcludeKeeps == ASSUME IProcess, Conclude PROVE IProcess'
<1> USE ProcessConstantsOK DEF IProcess, Phase, Turn, Conclude, Results
<1>1. ProcessOK'
  <2>1. run' \in Runs BY DEF ProcessOK, Runs, Phases, Codes
  <2>2. leader' \in Leaders BY DEF ProcessOK, Leaders, Codes
  <2>3. kin' \in [Kin -> Relatives] BY DEF ProcessOK, Relatives
  <2>4. pipe' \in Pipes BY DEF ProcessOK, Pipes
  <2> QED BY <2>1, <2>2, <2>3, <2>4 DEF ProcessOK
<1>2. StatusFits' BY DEF ProcessOK, Runs, Leaders, StatusFits, GroupFits, Group
<1>3. GroupFits' BY DEF ProcessOK, Runs, Leaders, Relatives, StatusFits, GroupFits, Group
<1>4. PipeFits'
  BY DEF ProcessOK, Runs, Leaders, Relatives, Pipes, PipeFits, HeldOpen, StatusFits
<1> QED BY <1>1, <1>2, <1>3, <1>4

(* So does every step. *)
LEMMA NextIProcess == IProcess /\ [ProcessNext]_processVars => IProcess'
<1> SUFFICES ASSUME IProcess, [ProcessNext]_processVars PROVE IProcess'
  OBVIOUS
<1>1. CASE StartProcess BY <1>1, StartProcessKeeps
<1>2. CASE CallerStep
  BY <1>2, WaitForLeaderKeeps, TerminateKeeps, GraceKeeps, WaitForKillKeeps, DrainKeeps,
     ConcludeKeeps DEF CallerStep
<1>3. CASE WriteOutput \/ ExitLeader \/ ReadOutput
  BY <1>3, WriteOutputKeeps, ExitLeaderKeeps, ReadOutputKeeps
<1>4. ASSUME NEW d \in Kin, Fork(d) \/ ExitKin(d) PROVE IProcess'
  BY <1>4, ForkKeeps, ExitKinKeeps
<1>5. ASSUME NEW x \in Kin \cup {"leader"}, DieOf(x) PROVE IProcess'
  BY <1>5, DieOfKeeps
<1>6. CASE UNCHANGED processVars
  BY <1>6 DEF processVars, IProcess, ProcessOK, StatusFits, GroupFits, PipeFits, Phase, Group,
              HeldOpen
<1> QED BY <1>1, <1>2, <1>3, <1>4, <1>5, <1>6 DEF ProcessNext

(* The inductive invariant of the bounded subprocess: whatever the child   *)
(* and its descendants do.                                                 *)
THEOREM ProcessInvariance == ProcessSpec => []IProcess
BY InitIProcess, NextIProcess, PTL DEF ProcessSpec

(* For any descendants, output, pipe and limit, the result of a bounded    *)
(* run is honest: a status means the child ended by itself, a timeout that *)
(* its group has been killed, and output is missing only for a reason.     *)
THEOREM RunsAreHonest == ProcessSpec => []BoundedRunIsHonest
<1>1. IProcess => BoundedRunIsHonest
  <2> SUFFICES ASSUME IProcess, run.phase \in {"returned", "answered"}, leader.state # "none"
               PROVE  /\ (run.returncode = "none") = run.timedOut
                      /\ ~run.timedOut => /\ leader.code \in {"0", "nonzero"}
                                          /\ run.returncode = leader.code
                      /\ run.timedOut => Group \subseteq killed
                      /\ ~run.abandoned /\ pipe.written <= CaptureLimit => run.whole
    BY DEF BoundedRunIsHonest
  <2>1. run.timedOut \in BOOLEAN /\ run.whole \in BOOLEAN BY DEF IProcess, ProcessOK, Runs
  <2>2. ~run.timedOut => leader.code \in {"0", "nonzero"} /\ run.returncode = leader.code
    BY DEF IProcess, StatusFits
  <2>3. run.timedOut => run.returncode = "none" BY DEF IProcess, StatusFits
  <2>4. run.timedOut => Group \subseteq killed BY DEF IProcess, GroupFits
  <2>5. ASSUME ~run.abandoned, pipe.written <= CaptureLimit PROVE run.whole
    <3>1. /\ pipe.written \in Nat /\ pipe.unread \in Nat /\ pipe.captured \in Nat
          /\ CaptureLimit \in Nat
      BY ProcessConstantsOK DEF IProcess, ProcessOK, Pipes
    <3>2. pipe.unread = 0 /\ run.whole = (pipe.captured = pipe.written)
      BY <2>5 DEF IProcess, PipeFits
    <3>3. pipe.captured = pipe.written BY <2>5, <3>1, <3>2 DEF IProcess, PipeFits
    <3> QED BY <3>2, <3>3
  <2> QED BY <2>1, <2>2, <2>3, <2>4, <2>5
<1> QED BY <1>1, ProcessInvariance, PTL
=============================================================================
