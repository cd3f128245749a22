---------------------------- MODULE Bundle_proofs ----------------------------
(***************************************************************************)
(* Proofs about the publication of bundles: what is published is the       *)
(* approved package, stays where it was published, verifies, and shows any *)
(* single change, and any two that touch what was approved.                *)
(***************************************************************************)
EXTENDS Bundle, FiniteSetTheorems, TLAPS

(* What a step of p leaves alone. *)
Same(q) ==
    /\ pc'[q] = pc[q] /\ call'[q] = call[q] /\ work'[q] = work[q]
    /\ compat'[q] = compat[q] /\ stage'[q] = stage[q] /\ outcome'[q] = outcome[q]
    /\ candidate'[q] = candidate[q]

Frame(p) ==
    /\ job' = job /\ edits' = edits
    /\ \A q \in Procs \ {p} :
         /\ Same(q)
         /\ \A d \in Destinations : lock[d] = q => lock'[d] = q
    /\ \/ UNCHANGED bundles
       \/ pc[p] = "replace" /\ \A d \in Destinations \ {DestinationOf(p)} :
                                  origin'[d] = origin[d]

(* What it does for p itself. *)
Good(p) ==
    /\ TypeOK' /\ Frame(p)
    /\ CallFits(p)' /\ WorkFits(p)' /\ ApprovalFits(p)'
    /\ \A d \in Destinations : PublicationFits(d)' /\ ChangesFit(d)'

(* Every caller has a place to publish to. *)
LEMMA DestinationsExist ==
    ASSUME NEW p \in Procs
    PROVE  DestinationOf(p) \in Destinations
  BY DEF DestinationOf, Destinations

(* Then the others keep what they rely on. *)
LEMMA OthersFit ==
    ASSUME IBundle, NEW p \in Procs, Good(p), NEW q \in Procs \ {p}
    PROVE  CallFits(q)' /\ WorkFits(q)' /\ ApprovalFits(q)'
<1>1. /\ CallFits(q) /\ WorkFits(q) /\ ApprovalFits(q)
      /\ CallFits(p) /\ ApprovalFits(p)
      /\ Same(q) /\ job'[q] = job[q] /\ DestinationOf(q)' = DestinationOf(q)
      /\ \A d \in Destinations : lock[d] = q => lock'[d] = q
  BY DEF IBundle, Good, Frame, Same, DestinationOf
<1>2. CallFits(q)'
  BY <1>1, DestinationsExist DEF CallFits, Same
<1>3. WorkFits(q)'
  BY <1>1 DEF WorkFits, Same
<1>4. ASSUME pc[q] \in Locked \/ outcome[q] = "published"
      PROVE  origin'[DestinationOf(q)] = origin[DestinationOf(q)]
  <2>1. CASE UNCHANGED bundles
    BY <2>1 DEF bundles
  <2>2. CASE pc[p] = "replace" /\ \A d \in Destinations \ {DestinationOf(p)} :
                                     origin'[d] = origin[d]
    <3> SUFFICES DestinationOf(p) # DestinationOf(q)
      BY <2>2, DestinationsExist
    <3> SUFFICES ASSUME DestinationOf(p) = DestinationOf(q)
                 PROVE  FALSE
      OBVIOUS
    <3>1. lock[DestinationOf(p)] = p /\ origin[DestinationOf(p)] = NoJob
      BY <1>1, <2>2 DEF CallFits, ApprovalFits, Locked, Staging
    <3>2. CASE pc[q] \in Locked
      BY <1>1, <3>1, <3>2 DEF CallFits
    <3>3. CASE outcome[q] = "published"
      <4>1. job[q] # NoJob /\ origin[DestinationOf(q)] = job[q]
        BY <1>1, <3>3 DEF CallFits, ApprovalFits
      <4> QED
        BY <3>1, <4>1
    <3> QED
      BY <1>4, <3>2, <3>3
  <2> QED
    BY <2>1, <2>2 DEF Good, Frame
<1>5. ApprovalFits(q)'
  <2>1. /\ pc'[q] = pc[q] /\ job'[q] = job[q] /\ call'[q] = call[q]
        /\ candidate'[q] = candidate[q] /\ outcome'[q] = outcome[q]
    BY <1>1 DEF Same
  <2>2. pc[q] \in Staging \cup {"sync"} => pc[q] \in Locked
    BY DEF Locked
  <2> QED
    BY <1>1, <1>4, <2>1, <2>2 DEF ApprovalFits
<1> QED
  BY <1>2, <1>3, <1>5

(* Nobody is at work when edits begin. *)
LEMMA GoodStep ==
    ASSUME IBundle, NEW p \in Procs, Good(p), pc[p] # "end", job[p] # NoJob
    PROVE  IBundle'
<1>1. \A q \in Procs : CallFits(q)' /\ WorkFits(q)' /\ ApprovalFits(q)'
  BY OthersFit DEF Good
<1>2. edits = 0 /\ edits' = 0
  BY DEF IBundle, Good, Frame
<1> QED
  BY <1>1, <1>2 DEF IBundle, Good

(* A step that leaves the published bundles alone. *)
LEMMA PublicationsStay ==
    ASSUME IBundle, UNCHANGED bundles, edits' = edits
    PROVE  \A d \in Destinations : PublicationFits(d)' /\ ChangesFit(d)'
<1>1. \A d \in Destinations : PublicationFits(d)'
  BY DEF IBundle, bundles, PublicationFits
<1>2. \A d \in Destinations : ChangesFit(d)'
  BY DEF IBundle, bundles, ChangesFit
<1> QED
  BY <1>1, <1>2

(* A bundle that is there has its hashes. *)
LEMMA WholeIsThere ==
    ASSUME NEW j, NEW external
    PROVE  Built(j, external) # Absent
<1>1. Root("hashes") \in DOMAIN Built(j, external)
  BY DEF Built, WithHashes, With
<1>2. DOMAIN Absent = {}
  BY DEF Absent
<1> QED
  BY <1>1, <1>2

(* A package without links and directories is its regular files. *)
LEMMA NothingIsRegular == Absent = Regular(Absent)
  BY DEF Absent, Regular

(* Copying one more regular file keeps it so. *)
LEMMA RegularGrows ==
    ASSUME NEW files, files = Regular(files), NEW n, NEW file,
           file.kind \notin {"link", "dir"}
    PROVE  With(files, n, file) = Regular(With(files, n, file))
<1> DEFINE grown == With(files, n, file)
<1>1. \A m \in DOMAIN files : files[m].kind \notin {"link", "dir"}
  BY DEF Regular
<1>2. DOMAIN grown = DOMAIN files \cup {n}
  BY DEF With
<1>3. \A m \in DOMAIN grown : grown[m] = IF m = n THEN file ELSE files[m]
  BY DEF With
<1>4. {m \in DOMAIN grown : grown[m].kind \notin {"link", "dir"}} = DOMAIN grown
  BY <1>1, <1>2, <1>3
<1>5. grown = [m \in DOMAIN grown |-> grown[m]]
  BY DEF With
<1> HIDE DEF grown
<1> QED
  BY <1>4, <1>5 DEF Regular, grown

(* Start: the caller has its job, and an untouched candidate to read. *)
LEMMA GoodStart ==
    ASSUME IBundle, NEW p \in Procs, NEW c \in Calls, Start(p, c)
    PROVE  Good(p) /\ pc[p] # "end" /\ job[p] # NoJob
<1> USE DEF Start, Go, Goto, End, Unlock, Fault, world, caller
<1>0. TypeOK /\ CallFits(p) /\ WorkFits(p) /\ ApprovalFits(p) /\ DestinationOf(p) \in Destinations
  BY DestinationsExist DEF IBundle
<1>1. UNCHANGED bundles /\ edits' = edits /\ job' = job
  OBVIOUS
<1>2. TypeOK'
  BY <1>0, BundleConstantsOK DEF TypeOK, bundles, Labels, Outcomes, Externals
<1>3. Frame(p)
  BY <1>0, <1>1, BundleConstantsOK DEF TypeOK, Frame, Same, Destinations
<1>4. CallFits(p)'
  BY <1>0, BundleConstantsOK DEF TypeOK, CallFits, Locked, Staging, DestinationOf, Labels
<1>5. WorkFits(p)'
  BY <1>0 DEF TypeOK, WorkFits, CallFits, Locked, Prepared, Staging
<1>6. ApprovalFits(p)'
  BY <1>0, <1>1 DEF TypeOK, ApprovalFits, CallFits, bundles, Locked, Staging, DestinationOf, IsAccepted
<1>7. pc[p] # "end" /\ job[p] # NoJob
  BY <1>0 DEF CallFits, Staging
<1> QED
  BY <1>1, <1>2, <1>3, <1>4, <1>5, <1>6, <1>7, PublicationsStay DEF Good

(* finalize_candidate validates: an untouched candidate is accepted now. *)
LEMMA GoodValidateCandidate ==
    ASSUME IBundle, NEW p \in Procs, ValidateCandidate(p)
    PROVE  Good(p) /\ pc[p] # "end" /\ job[p] # NoJob
<1> USE DEF ValidateCandidate, Go, Goto, End, Unlock, Fault, world, caller
<1>0. TypeOK /\ CallFits(p) /\ WorkFits(p) /\ ApprovalFits(p) /\ DestinationOf(p) \in Destinations
  BY DestinationsExist DEF IBundle
<1>1. UNCHANGED bundles /\ edits' = edits /\ job' = job
  OBVIOUS
<1>2. TypeOK'
  BY <1>0, BundleConstantsOK DEF TypeOK, bundles, Labels, Outcomes, Externals
<1>3. Frame(p)
  BY <1>0, <1>1, BundleConstantsOK DEF TypeOK, Frame, Same, Destinations
<1>4. CallFits(p)'
  BY <1>0, BundleConstantsOK DEF TypeOK, CallFits, Locked, Staging, DestinationOf, Labels
<1>5. WorkFits(p)'
  BY <1>0 DEF TypeOK, WorkFits, CallFits, Locked, Prepared, Staging
<1>6. ApprovalFits(p)'
  BY <1>0, <1>1 DEF TypeOK, ApprovalFits, CallFits, bundles, Locked, Staging, DestinationOf, IsAccepted
<1>7. pc[p] # "end" /\ job[p] # NoJob
  BY <1>0 DEF CallFits, Staging
<1> QED
  BY <1>1, <1>2, <1>3, <1>4, <1>5, <1>6, <1>7, PublicationsStay DEF Good

(* It looks whether the artifacts are usable: nothing is in hand yet. *)
LEMMA GoodCheckArtifacts ==
    ASSUME IBundle, NEW p \in Procs, CheckArtifacts(p)
    PROVE  Good(p) /\ pc[p] # "end" /\ job[p] # NoJob
<1> USE DEF CheckArtifacts, Go, Goto, End, Unlock, Fault, world, caller
<1>0. TypeOK /\ CallFits(p) /\ WorkFits(p) /\ ApprovalFits(p) /\ DestinationOf(p) \in Destinations
  BY DestinationsExist DEF IBundle
<1>1. UNCHANGED bundles /\ edits' = edits /\ job' = job
  OBVIOUS
<1>2. TypeOK'
  BY <1>0, BundleConstantsOK DEF TypeOK, bundles, Labels, Outcomes, Externals
<1>3. Frame(p)
  BY <1>0, <1>1, BundleConstantsOK DEF TypeOK, Frame, Same, Destinations
<1>4. CallFits(p)'
  BY <1>0, BundleConstantsOK DEF TypeOK, CallFits, Locked, Staging, DestinationOf, Labels
<1>5. WorkFits(p)'
  BY <1>0 DEF TypeOK, WorkFits, CallFits, Locked, Prepared, Staging
<1>6. ApprovalFits(p)'
  BY <1>0, <1>1 DEF TypeOK, ApprovalFits, CallFits, bundles, Locked, Staging, DestinationOf, IsAccepted
<1>7. pc[p] # "end" /\ job[p] # NoJob
  BY <1>0 DEF CallFits, Staging
<1> QED
  BY <1>1, <1>2, <1>3, <1>4, <1>5, <1>6, <1>7, PublicationsStay DEF Good

(* It lists the candidate: an empty staging directory. *)
LEMMA GoodListCandidate ==
    ASSUME IBundle, NEW p \in Procs, ListCandidate(p)
    PROVE  Good(p) /\ pc[p] # "end" /\ job[p] # NoJob
<1> USE DEF ListCandidate, Go, Goto, End, Unlock, Fault, world, caller
<1>0. TypeOK /\ CallFits(p) /\ WorkFits(p) /\ ApprovalFits(p) /\ DestinationOf(p) \in Destinations
  BY DestinationsExist DEF IBundle
<1>1. UNCHANGED bundles /\ edits' = edits /\ job' = job
  OBVIOUS
<1>2. TypeOK'
  BY <1>0, BundleConstantsOK DEF TypeOK, bundles, Labels, Outcomes, Externals
<1>3. Frame(p)
  BY <1>0, <1>1, BundleConstantsOK DEF TypeOK, Frame, Same, Destinations
<1>4. CallFits(p)'
  BY <1>0, BundleConstantsOK DEF TypeOK, CallFits, Locked, Staging, DestinationOf, Labels
<1>5. WorkFits(p)'
  BY <1>0, NothingIsRegular DEF TypeOK, WorkFits, CallFits, Locked, Prepared, Staging
<1>6. ApprovalFits(p)'
  BY <1>0, <1>1 DEF TypeOK, ApprovalFits, CallFits, bundles, Locked, Staging, DestinationOf, IsAccepted
<1>7. pc[p] # "end" /\ job[p] # NoJob
  BY <1>0 DEF CallFits, Staging
<1> QED
  BY <1>1, <1>2, <1>3, <1>4, <1>5, <1>6, <1>7, PublicationsStay DEF Good

(* It copies one file: regular files only. *)
LEMMA GoodCopyFile ==
    ASSUME IBundle, NEW p \in Procs, NEW n \in todo[p], CopyFile(p, n)
    PROVE  Good(p) /\ pc[p] # "end" /\ job[p] # NoJob
<1> USE DEF CopyFile, Go, Goto, End, Unlock, Fault, world, caller
<1>0. TypeOK /\ CallFits(p) /\ WorkFits(p) /\ ApprovalFits(p) /\ DestinationOf(p) \in Destinations
  BY DestinationsExist DEF IBundle
<1>1. UNCHANGED bundles /\ edits' = edits /\ job' = job
  OBVIOUS
<1>2. TypeOK'
  BY <1>0, BundleConstantsOK DEF TypeOK, bundles, Labels, Outcomes, Externals
<1>3. Frame(p)
  BY <1>0, <1>1, BundleConstantsOK DEF TypeOK, Frame, Same, Destinations
<1>4. CallFits(p)'
  BY <1>0, BundleConstantsOK DEF TypeOK, CallFits, Locked, Staging, DestinationOf, Labels
<1>a. n \in DOMAIN candidate[p] /\ candidate[p][n].kind \notin {"link", "dir"} =>
        With(work[p], n, candidate[p][n]) = Regular(With(work[p], n, candidate[p][n]))
  BY <1>0, RegularGrows DEF WorkFits
<1>5. WorkFits(p)'
  BY <1>a, <1>0 DEF TypeOK, WorkFits, CallFits, Locked, Prepared, Staging
<1>6. ApprovalFits(p)'
  BY <1>0, <1>1 DEF TypeOK, ApprovalFits, CallFits, bundles, Locked, Staging, DestinationOf, IsAccepted
<1>7. pc[p] # "end" /\ job[p] # NoJob
  BY <1>0 DEF CallFits, Staging
<1> QED
  BY <1>1, <1>2, <1>3, <1>4, <1>5, <1>6, <1>7, PublicationsStay DEF Good

(* It compares: what it goes on with is the approved package. *)
LEMMA GoodCheckStaged ==
    ASSUME IBundle, NEW p \in Procs, CheckStaged(p)
    PROVE  Good(p) /\ pc[p] # "end" /\ job[p] # NoJob
<1> USE DEF CheckStaged, Go, Goto, End, Unlock, Fault, world, caller
<1>0. TypeOK /\ CallFits(p) /\ WorkFits(p) /\ ApprovalFits(p) /\ DestinationOf(p) \in Destinations
  BY DestinationsExist DEF IBundle
<1>1. UNCHANGED bundles /\ edits' = edits /\ job' = job
  OBVIOUS
<1>2. TypeOK'
  BY <1>0, BundleConstantsOK DEF TypeOK, bundles, Labels, Outcomes, Externals
<1>3. Frame(p)
  BY <1>0, <1>1, BundleConstantsOK DEF TypeOK, Frame, Same, Destinations
<1>4. CallFits(p)'
  BY <1>0, BundleConstantsOK DEF TypeOK, CallFits, Locked, Staging, DestinationOf, Labels
<1>a. IsApproved(job[p], work[p]) => work[p] = job[p].package
  BY <1>0 DEF IsApproved, WorkFits
<1>5. WorkFits(p)'
  BY <1>a, <1>0, <1>1 DEF TypeOK, WorkFits, CallFits, Locked, Prepared, Staging
<1>6. ApprovalFits(p)'
  BY <1>0, <1>1 DEF TypeOK, ApprovalFits, CallFits, bundles, Locked, Staging, DestinationOf, IsAccepted
<1>7. pc[p] # "end" /\ job[p] # NoJob
  BY <1>0 DEF CallFits, Staging
<1> QED
  BY <1>1, <1>2, <1>3, <1>4, <1>5, <1>6, <1>7, PublicationsStay DEF Good

(* What build_bundle may answer before it takes the lock. *)
LEMMA Refusals ==
    ASSUME NEW j, NEW package, NEW external
    PROVE  Refusal(j, package, external)
               \in {"none", "secret", "tree", "documents", "evidence", "limits"}
  BY DEF Refusal

(* build_bundle checks its inputs: what it does not refuse it may publish. *)
LEMMA GoodPrepare ==
    ASSUME IBundle, NEW p \in Procs, NEW external \in Externals, Prepare(p, external)
    PROVE  Good(p) /\ pc[p] # "end" /\ job[p] # NoJob
<1> USE DEF Prepare, Go, Goto, End, Unlock, Fault, world, caller
<1>0. TypeOK /\ CallFits(p) /\ WorkFits(p) /\ ApprovalFits(p) /\ DestinationOf(p) \in Destinations
  BY DestinationsExist DEF IBundle
<1>1. UNCHANGED bundles /\ edits' = edits /\ job' = job
  OBVIOUS
<1> DEFINE refusal == Refusal(job[p], work[p], external)
<1>r. refusal \in {"none", "secret", "tree", "documents", "evidence", "limits"}
  BY Refusals
<1>a. work[p] = job[p].package
  BY <1>0 DEF WorkFits
<1> HIDE DEF refusal
<1>g. /\ pc[p] = "prepare" /\ compat' = [compat EXCEPT ![p] = external]
      /\ UNCHANGED <<world, caller, work, todo, edits, faults>>
      /\ Go(p, refusal, "lock")
  BY DEF refusal
<1>2. TypeOK'
  BY <1>r, <1>g, <1>0, BundleConstantsOK DEF TypeOK, bundles, Labels, Outcomes, Externals
<1>3. Frame(p)
  BY <1>0, <1>1, BundleConstantsOK DEF TypeOK, Frame, Same, Destinations
<1>4. CallFits(p)'
  BY <1>0, BundleConstantsOK DEF TypeOK, CallFits, Locked, Staging, DestinationOf, Labels
<1>5. WorkFits(p)'
  <2>1. refusal = Refusal(job'[p], job'[p].package, compat'[p])
    BY <1>0, <1>1, <1>a, <1>g DEF refusal, TypeOK
  <2>2. outcome[p] = "none"
    BY <1>0, <1>g DEF CallFits
  <2> QED
    BY <1>0, <1>1, <1>a, <1>r, <1>g, <2>1, <2>2
    DEF TypeOK, WorkFits, Locked, Prepared, Staging
<1>6. ApprovalFits(p)'
  BY <1>r, <1>g, <1>0, <1>1 DEF TypeOK, ApprovalFits, CallFits, bundles, Locked, Staging, DestinationOf, IsAccepted
<1>7. pc[p] # "end" /\ job[p] # NoJob
  BY <1>0 DEF CallFits, Staging
<1> QED
  BY <1>1, <1>2, <1>3, <1>4, <1>5, <1>6, <1>7, PublicationsStay DEF Good

(* It takes the path lock of its destination. *)
LEMMA GoodTakeLock ==
    ASSUME IBundle, NEW p \in Procs, TakeLock(p)
    PROVE  Good(p) /\ pc[p] # "end" /\ job[p] # NoJob
<1> USE DEF TakeLock, Go, Goto, End, Unlock, Fault, world, caller
<1>0. TypeOK /\ CallFits(p) /\ WorkFits(p) /\ ApprovalFits(p) /\ DestinationOf(p) \in Destinations
  BY DestinationsExist DEF IBundle
<1>1. UNCHANGED bundles /\ edits' = edits /\ job' = job
  OBVIOUS
<1>2. TypeOK'
  BY <1>0, BundleConstantsOK DEF TypeOK, bundles, Labels, Outcomes, Externals
<1>3. Frame(p)
  BY <1>0, <1>1, BundleConstantsOK DEF TypeOK, Frame, Same, Destinations
<1>4. CallFits(p)'
  BY <1>0, BundleConstantsOK DEF TypeOK, CallFits, Locked, Staging, DestinationOf, Labels
<1>5. WorkFits(p)'
  BY <1>0 DEF TypeOK, WorkFits, CallFits, Locked, Prepared, Staging
<1>6. ApprovalFits(p)'
  BY <1>0, <1>1 DEF TypeOK, ApprovalFits, CallFits, bundles, Locked, Staging, DestinationOf, IsAccepted
<1>7. pc[p] # "end" /\ job[p] # NoJob
  BY <1>0 DEF CallFits, Staging
<1> QED
  BY <1>1, <1>2, <1>3, <1>4, <1>5, <1>6, <1>7, PublicationsStay DEF Good

(* It looks for the destination: whoever goes on has an empty one. *)
LEMMA GoodRefuseExisting ==
    ASSUME IBundle, NEW p \in Procs, RefuseExisting(p)
    PROVE  Good(p) /\ pc[p] # "end" /\ job[p] # NoJob
<1> USE DEF RefuseExisting, Go, Goto, End, Unlock, Fault, world, caller
<1>0. TypeOK /\ CallFits(p) /\ WorkFits(p) /\ ApprovalFits(p) /\ DestinationOf(p) \in Destinations
  BY DestinationsExist DEF IBundle
<1>1. UNCHANGED bundles /\ edits' = edits /\ job' = job
  OBVIOUS
<1>2. TypeOK'
  BY <1>0, BundleConstantsOK DEF TypeOK, bundles, Labels, Outcomes, Externals
<1>3. Frame(p)
  BY <1>0, <1>1, BundleConstantsOK DEF TypeOK, Frame, Same, Destinations
<1>4. CallFits(p)'
  BY <1>0, BundleConstantsOK DEF TypeOK, CallFits, Locked, Staging, DestinationOf, Labels
<1>5. WorkFits(p)'
  BY <1>0 DEF TypeOK, WorkFits, CallFits, Locked, Prepared, Staging
<1>a. out[DestinationOf(p)] = Absent => origin[DestinationOf(p)] = NoJob
  <2>1. edits = 0 /\ PublicationFits(DestinationOf(p))
    BY <1>0 DEF IBundle, CallFits
  <2>2. \A j, external : Built(j, external) # Absent
    BY WholeIsThere
  <2> QED
    BY <2>1, <2>2 DEF PublicationFits
<1>6. ApprovalFits(p)'
  BY <1>a, <1>0, <1>1 DEF TypeOK, ApprovalFits, CallFits, bundles, Locked, Staging, DestinationOf, IsAccepted
<1>7. pc[p] # "end" /\ job[p] # NoJob
  BY <1>0 DEF CallFits, Staging
<1> QED
  BY <1>1, <1>2, <1>3, <1>4, <1>5, <1>6, <1>7, PublicationsStay DEF Good

(* It stages the manifest, the lineage, the package and the evidence. *)
LEMMA GoodWriteSources ==
    ASSUME IBundle, NEW p \in Procs, WriteSources(p)
    PROVE  Good(p) /\ pc[p] # "end" /\ job[p] # NoJob
<1> USE DEF WriteSources, Go, Goto, End, Unlock, Fault, world, caller
<1>0. TypeOK /\ CallFits(p) /\ WorkFits(p) /\ ApprovalFits(p) /\ DestinationOf(p) \in Destinations
  BY DestinationsExist DEF IBundle
<1>1. UNCHANGED bundles /\ edits' = edits /\ job' = job
  OBVIOUS
<1>2. TypeOK'
  BY <1>0, BundleConstantsOK DEF TypeOK, bundles, Labels, Outcomes, Externals
<1>3. Frame(p)
  BY <1>0, <1>1, BundleConstantsOK DEF TypeOK, Frame, Same, Destinations
<1>4. CallFits(p)'
  BY <1>0, BundleConstantsOK DEF TypeOK, CallFits, Locked, Staging, DestinationOf, Labels
<1>5. WorkFits(p)'
  BY <1>0 DEF TypeOK, WorkFits, CallFits, Locked, Prepared, Staging
<1>6. ApprovalFits(p)'
  BY <1>0, <1>1 DEF TypeOK, ApprovalFits, CallFits, bundles, Locked, Staging, DestinationOf, IsAccepted
<1>7. pc[p] # "end" /\ job[p] # NoJob
  BY <1>0 DEF CallFits, Staging
<1> QED
  BY <1>1, <1>2, <1>3, <1>4, <1>5, <1>6, <1>7, PublicationsStay DEF Good

(* It stages the report, of the manifest its job has. *)
LEMMA GoodWriteReport ==
    ASSUME IBundle, NEW p \in Procs, WriteReport(p)
    PROVE  Good(p) /\ pc[p] # "end" /\ job[p] # NoJob
<1> USE DEF WriteReport, Go, Goto, End, Unlock, Fault, world, caller
<1>0. TypeOK /\ CallFits(p) /\ WorkFits(p) /\ ApprovalFits(p) /\ DestinationOf(p) \in Destinations
  BY DestinationsExist DEF IBundle
<1>1. UNCHANGED bundles /\ edits' = edits /\ job' = job
  OBVIOUS
<1>2. TypeOK'
  BY <1>0, BundleConstantsOK DEF TypeOK, bundles, Labels, Outcomes, Externals
<1>3. Frame(p)
  BY <1>0, <1>1, BundleConstantsOK DEF TypeOK, Frame, Same, Destinations
<1>4. CallFits(p)'
  BY <1>0, BundleConstantsOK DEF TypeOK, CallFits, Locked, Staging, DestinationOf, Labels
<1>5. WorkFits(p)'
  BY <1>0 DEF TypeOK, WorkFits, CallFits, Locked, Prepared, Staging
<1>6. ApprovalFits(p)'
  BY <1>0, <1>1 DEF TypeOK, ApprovalFits, CallFits, bundles, Locked, Staging, DestinationOf, IsAccepted
<1>7. pc[p] # "end" /\ job[p] # NoJob
  BY <1>0 DEF CallFits, Staging
<1> QED
  BY <1>1, <1>2, <1>3, <1>4, <1>5, <1>6, <1>7, PublicationsStay DEF Good

(* It stages the hashes: the staged bundle is whole. *)
LEMMA GoodWriteHashes ==
    ASSUME IBundle, NEW p \in Procs, WriteHashes(p)
    PROVE  Good(p) /\ pc[p] # "end" /\ job[p] # NoJob
<1> USE DEF WriteHashes, Go, Goto, End, Unlock, Fault, world, caller
<1>0. TypeOK /\ CallFits(p) /\ WorkFits(p) /\ ApprovalFits(p) /\ DestinationOf(p) \in Destinations
  BY DestinationsExist DEF IBundle
<1>1. UNCHANGED bundles /\ edits' = edits /\ job' = job
  OBVIOUS
<1>2. TypeOK'
  BY <1>0, BundleConstantsOK DEF TypeOK, bundles, Labels, Outcomes, Externals
<1>3. Frame(p)
  BY <1>0, <1>1, BundleConstantsOK DEF TypeOK, Frame, Same, Destinations
<1>4. CallFits(p)'
  BY <1>0, BundleConstantsOK DEF TypeOK, CallFits, Locked, Staging, DestinationOf, Labels
<1>5. WorkFits(p)'
  BY <1>0, <1>1 DEF Built, TypeOK, WorkFits, CallFits, Locked, Prepared, Staging
<1>6. ApprovalFits(p)'
  BY <1>0, <1>1 DEF TypeOK, ApprovalFits, CallFits, bundles, Locked, Staging, DestinationOf, IsAccepted
<1>7. pc[p] # "end" /\ job[p] # NoJob
  BY <1>0 DEF CallFits, Staging
<1> QED
  BY <1>1, <1>2, <1>3, <1>4, <1>5, <1>6, <1>7, PublicationsStay DEF Good

(* It syncs the parent of what it published, and lets the lock go. *)
LEMMA GoodSyncParent ==
    ASSUME IBundle, NEW p \in Procs, SyncParent(p)
    PROVE  Good(p) /\ pc[p] # "end" /\ job[p] # NoJob
<1> USE DEF SyncParent, Go, Goto, End, Unlock, Fault, world, caller
<1>0. TypeOK /\ CallFits(p) /\ WorkFits(p) /\ ApprovalFits(p) /\ DestinationOf(p) \in Destinations
  BY DestinationsExist DEF IBundle
<1>1. UNCHANGED bundles /\ edits' = edits /\ job' = job
  OBVIOUS
<1>2. TypeOK'
  BY <1>0, BundleConstantsOK DEF TypeOK, bundles, Labels, Outcomes, Externals
<1>3. Frame(p)
  BY <1>0, <1>1, BundleConstantsOK DEF TypeOK, Frame, Same, Destinations
<1>4. CallFits(p)'
  BY <1>0, BundleConstantsOK DEF TypeOK, CallFits, Locked, Staging, DestinationOf, Labels
<1>5. WorkFits(p)'
  BY <1>0 DEF TypeOK, WorkFits, CallFits, Locked, Prepared, Staging
<1>6. ApprovalFits(p)'
  BY <1>0, <1>1 DEF TypeOK, ApprovalFits, CallFits, bundles, Locked, Staging, DestinationOf, IsAccepted
<1>7. pc[p] # "end" /\ job[p] # NoJob
  BY <1>0 DEF CallFits, Staging
<1> QED
  BY <1>1, <1>2, <1>3, <1>4, <1>5, <1>6, <1>7, PublicationsStay DEF Good

(* A failed write ends the call, and publishes nothing. *)
LEMMA GoodWriteFails ==
    ASSUME IBundle, NEW p \in Procs, WriteFails(p)
    PROVE  Good(p) /\ pc[p] # "end" /\ job[p] # NoJob
<1> USE DEF WriteFails, Go, Goto, End, Unlock, Fault, world, caller
<1>0. TypeOK /\ CallFits(p) /\ WorkFits(p) /\ ApprovalFits(p) /\ DestinationOf(p) \in Destinations
  BY DestinationsExist DEF IBundle
<1>1. UNCHANGED bundles /\ edits' = edits /\ job' = job
  OBVIOUS
<1>2. TypeOK'
  BY <1>0, BundleConstantsOK DEF TypeOK, bundles, Labels, Outcomes, Externals
<1>3. Frame(p)
  BY <1>0, <1>1, BundleConstantsOK DEF TypeOK, Frame, Same, Destinations
<1>4. CallFits(p)'
  BY <1>0, BundleConstantsOK DEF TypeOK, CallFits, Locked, Staging, DestinationOf, Labels
<1>5. WorkFits(p)'
  BY <1>0 DEF TypeOK, WorkFits, CallFits, Locked, Prepared, Staging
<1>6. ApprovalFits(p)'
  BY <1>0, <1>1 DEF TypeOK, ApprovalFits, CallFits, bundles, Locked, Staging, DestinationOf, IsAccepted
<1>7. pc[p] # "end" /\ job[p] # NoJob
  BY <1>0 DEF CallFits, Staging
<1> QED
  BY <1>1, <1>2, <1>3, <1>4, <1>5, <1>6, <1>7, PublicationsStay DEF Good

(* A failed sync ends the call; the bundle stays where it is. *)
LEMMA GoodSyncFails ==
    ASSUME IBundle, NEW p \in Procs, SyncFails(p)
    PROVE  Good(p) /\ pc[p] # "end" /\ job[p] # NoJob
<1> USE DEF SyncFails, Go, Goto, End, Unlock, Fault, world, caller
<1>0. TypeOK /\ CallFits(p) /\ WorkFits(p) /\ ApprovalFits(p) /\ DestinationOf(p) \in Destinations
  BY DestinationsExist DEF IBundle
<1>1. UNCHANGED bundles /\ edits' = edits /\ job' = job
  OBVIOUS
<1>2. TypeOK'
  BY <1>0, BundleConstantsOK DEF TypeOK, bundles, Labels, Outcomes, Externals
<1>3. Frame(p)
  BY <1>0, <1>1, BundleConstantsOK DEF TypeOK, Frame, Same, Destinations
<1>4. CallFits(p)'
  BY <1>0, BundleConstantsOK DEF TypeOK, CallFits, Locked, Staging, DestinationOf, Labels
<1>5. WorkFits(p)'
  BY <1>0 DEF TypeOK, WorkFits, CallFits, Locked, Prepared, Staging
<1>6. ApprovalFits(p)'
  BY <1>0, <1>1 DEF TypeOK, ApprovalFits, CallFits, bundles, Locked, Staging, DestinationOf, IsAccepted
<1>7. pc[p] # "end" /\ job[p] # NoJob
  BY <1>0 DEF CallFits, Staging
<1> QED
  BY <1>1, <1>2, <1>3, <1>4, <1>5, <1>6, <1>7, PublicationsStay DEF Good

(* A process that dies loses its lock, and what it published stays. *)
LEMMA GoodCrash ==
    ASSUME IBundle, NEW p \in Procs, Crash(p)
    PROVE  Good(p) /\ pc[p] # "end" /\ job[p] # NoJob
<1> USE DEF Crash, Go, Goto, End, Unlock, Fault, world, caller
<1>0. TypeOK /\ CallFits(p) /\ WorkFits(p) /\ ApprovalFits(p) /\ DestinationOf(p) \in Destinations
  BY DestinationsExist DEF IBundle
<1>1. UNCHANGED bundles /\ edits' = edits /\ job' = job
  OBVIOUS
<1>2. TypeOK'
  BY <1>0, BundleConstantsOK DEF TypeOK, bundles, Labels, Outcomes, Externals
<1>3. Frame(p)
  BY <1>0, <1>1, BundleConstantsOK DEF TypeOK, Frame, Same, Destinations
<1>4. CallFits(p)'
  BY <1>0, BundleConstantsOK DEF TypeOK, CallFits, Locked, Staging, DestinationOf, Labels
<1>5. WorkFits(p)'
  BY <1>0 DEF TypeOK, WorkFits, CallFits, Locked, Prepared, Staging
<1>6. ApprovalFits(p)'
  BY <1>0, <1>1 DEF TypeOK, ApprovalFits, CallFits, bundles, Locked, Staging, DestinationOf, IsAccepted
<1>7. pc[p] # "end" /\ job[p] # NoJob
  BY <1>0 DEF CallFits, Staging
<1> QED
  BY <1>1, <1>2, <1>3, <1>4, <1>5, <1>6, <1>7, PublicationsStay DEF Good

(* Nothing differs from itself.                                            *)
LEMMA NothingIsChanged ==
    ASSUME NEW bundle
    PROVE  /\ Changed(bundle, bundle) = {}
           /\ IsFiniteSet(Changed(bundle, bundle))
           /\ Cardinality(Changed(bundle, bundle)) = 0
<1>1. Changed(bundle, bundle) = {}
  BY DEF Changed
<1> QED
  BY <1>1, FS_EmptySet

(* The manifest and the lineage of a whole bundle are its job's.           *)
LEMMA BuiltDocuments ==
    ASSUME NEW j, NEW external
    PROVE  /\ Built(j, external)[Root("manifest")] = Sanitized(ManifestOf(j))
           /\ Built(j, external)[Root("lineage")] = LineageOf(j)
<1>1. \A a, b : Root(a) = Root(b) <=> a = b
  BY DEF Root
<1>2. \A name : ~InPackage(Root(name))
  BY DEF Root, InPackage, Stem
<1> QED
  BY <1>1, <1>2 DEF Built, WithHashes, WithReport, With, Sources

(* One edit takes a file away or puts a content in its place, and what it  *)
(* puts in the place of a manifest or a lineage is no such document or     *)
(* that of another job.                                                    *)
LEMMA EditsChangeOneFile ==
    ASSUME NEW bundle, NEW edited \in Edited(bundle)
    PROVE  \/ \E n \in DOMAIN bundle : edited = Without(bundle, n)
           \/ \E n, content :
                /\ edited = With(bundle, n, content)
                /\ n = Root("hashes") => \/ content.kind # "hashes"
                                         \/ \E files : content = HashesOf(files)
                /\ n = Root("manifest") =>
                     \/ content.kind # "manifest"
                     \/ \E other \in Handled : content = Sanitized(ManifestOf(other))
                /\ n = Root("lineage") =>
                     \/ content.kind # "lineage"
                     \/ \E other \in Handled : content = LineageOf(other)
<1>0. /\ \A n \in Extras \cup {Root("report")} :
           n # Root("hashes") /\ n # Root("manifest") /\ n # Root("lineage")
      /\ Root("hashes") # Root("manifest") /\ Root("hashes") # Root("lineage")
      /\ Garbage.kind \notin {"hashes", "manifest", "lineage"}
      /\ Link.kind \notin {"hashes", "manifest", "lineage"}
  BY DEF Extras, Root, Garbage, Link
<1>1. CASE edited \in Removed(bundle)
  BY <1>1 DEF Removed
<1>2. CASE edited \in Spoilt(bundle)
  BY <1>0, <1>2 DEF Spoilt
<1>3. CASE edited \in Added(bundle)
  BY <1>0, <1>3 DEF Added
<1>4. CASE edited \in Swapped(bundle)
  <2>1. PICK other \in Handled, n \in DOMAIN bundle :
            edited = With(bundle, n, Bundles[other][n])
    BY <1>4 DEF Swapped
  <2>2. Bundles[other][Root("hashes")]
            = HashesOf(WithReport(ManifestOf(other), Sources(other, other.package, "none")))
    BY DEF Bundles, BundleOf, WithHashes, With
  <2>3. Bundles[other] = Built(other, "none")
    BY DEF Bundles, BundleOf, Built
  <2>4. /\ Bundles[other][Root("manifest")] = Sanitized(ManifestOf(other))
        /\ Bundles[other][Root("lineage")] = LineageOf(other)
    BY <2>3, BuiltDocuments
  <2> QED
    BY <2>1, <2>2, <2>4
<1>5. CASE edited \in Recomputed(bundle)
  BY <1>0, <1>5 DEF Recomputed, WithHashes, WithReport
<1> QED
  BY <1>1, <1>2, <1>3, <1>4, <1>5 DEF Edited

(* Then it differs from any other bundle in one name more at most.         *)
LEMMA EditsAddOneChange ==
    ASSUME NEW bundle, NEW edited \in Edited(bundle), NEW other,
           IsFiniteSet(Changed(bundle, other))
    PROVE  /\ IsFiniteSet(Changed(edited, other))
           /\ Cardinality(Changed(edited, other)) <= Cardinality(Changed(bundle, other)) + 1
<1>1. PICK n : \/ edited = Without(bundle, n)
               \/ \E content : edited = With(bundle, n, content)
  BY EditsChangeOneFile
<1>2. /\ DOMAIN edited \ {n} = DOMAIN bundle \ {n}
      /\ \A m \in DOMAIN bundle \ {n} : edited[m] = bundle[m]
  BY <1>1 DEF With, Without
<1>3. Changed(edited, other) \subseteq Changed(bundle, other) \cup {n}
  BY <1>2 DEF Changed
<1>4. /\ IsFiniteSet(Changed(bundle, other) \cup {n})
      /\ Cardinality(Changed(bundle, other) \cup {n}) <= Cardinality(Changed(bundle, other)) + 1
      /\ Cardinality(Changed(bundle, other)) \in Nat
  BY FS_AddElement, FS_CardinalityType
<1>5. /\ IsFiniteSet(Changed(edited, other))
      /\ Cardinality(Changed(edited, other)) <= Cardinality(Changed(bundle, other) \cup {n})
  BY <1>3, <1>4, FS_Subset
<1>6. Cardinality(Changed(edited, other)) \in Nat
      /\ Cardinality(Changed(bundle, other) \cup {n}) \in Nat
  BY <1>4, <1>5, FS_CardinalityType
<1> QED
  BY <1>4, <1>5, <1>6

(* And its documents are still those of some job.                          *)
LEMMA EditsKeepDocuments ==
    ASSUME NEW bundle, NEW edited \in Edited(bundle), DocumentsFit(bundle)
    PROVE  DocumentsFit(edited)
<1>1. ASSUME NEW n \in DOMAIN bundle, edited = Without(bundle, n)
      PROVE  DocumentsFit(edited)
  <2>1. DOMAIN edited = DOMAIN bundle \ {n}
        /\ \A m \in DOMAIN bundle \ {n} : edited[m] = bundle[m]
    BY <1>1 DEF Without
  <2> QED
    BY <2>1 DEF DocumentsFit, HasManifest, ReadsAs
<1>2. ASSUME NEW n, NEW content, edited = With(bundle, n, content),
             n = Root("manifest") =>
               \/ content.kind # "manifest"
               \/ \E other \in Handled : content = Sanitized(ManifestOf(other)),
             n = Root("lineage") =>
               \/ content.kind # "lineage"
               \/ \E other \in Handled : content = LineageOf(other)
      PROVE  DocumentsFit(edited)
  <2>1. DOMAIN edited = DOMAIN bundle \cup {n} /\ edited[n] = content
        /\ \A m \in DOMAIN bundle \ {n} : edited[m] = bundle[m]
    BY <1>2 DEF With
  <2>2. HasManifest(edited) =>
          \E j \in Jobs \cup Handled : edited[Root("manifest")] = Sanitized(ManifestOf(j))
    BY <1>2, <2>1 DEF DocumentsFit, HasManifest, ReadsAs
  <2>3. ReadsAs(edited, Root("lineage"), "lineage") =>
          \E j \in Jobs \cup Handled : edited[Root("lineage")] = LineageOf(j)
    BY <1>2, <2>1 DEF DocumentsFit, ReadsAs
  <2> QED
    BY <2>2, <2>3 DEF DocumentsFit
<1> QED
  BY <1>1, <1>2, EditsChangeOneFile

(* The rename: the destination is free, and gets the whole bundle.         *)
LEMMA GoodReplace ==
    ASSUME IBundle, NEW p \in Procs, Replace(p)
    PROVE  Good(p) /\ pc[p] # "end" /\ job[p] # NoJob
<1> USE DEF Replace, Goto, caller
<1>0. TypeOK /\ CallFits(p) /\ WorkFits(p) /\ ApprovalFits(p) /\ DestinationOf(p) \in Destinations
  BY DestinationsExist DEF IBundle
<1>1. /\ edits' = edits /\ job' = job /\ UNCHANGED <<call, compat>>
      /\ pc[p] \in Staging /\ pc[p] \in Prepared /\ pc[p] # "end" /\ job[p] # NoJob
  BY <1>0 DEF CallFits, Staging, Locked, Prepared
<1>2. TypeOK'
  BY <1>0, BundleConstantsOK DEF TypeOK, Labels, Outcomes, Externals
<1>3. Frame(p)
  BY <1>0, <1>1, BundleConstantsOK DEF TypeOK, Frame, Same, Destinations
<1>4. CallFits(p)'
  BY <1>0, BundleConstantsOK DEF TypeOK, CallFits, Locked, Staging, DestinationOf, Labels
<1>5. WorkFits(p)'
  BY <1>0 DEF TypeOK, WorkFits, CallFits, Locked, Prepared, Staging
<1>6. ApprovalFits(p)'
  BY <1>0, <1>1 DEF TypeOK, ApprovalFits, CallFits, Staging, DestinationOf, IsAccepted
<1>7. ASSUME NEW d \in Destinations
      PROVE  PublicationFits(d)' /\ ChangesFit(d)'
  <2>1. PublicationFits(d) /\ ChangesFit(d) /\ edits = 0
    BY <1>1 DEF IBundle
  <2>2. CASE d # DestinationOf(p)
    <3>1. out'[d] = out[d] /\ origin'[d] = origin[d] /\ issued'[d] = issued[d]
      BY <1>0, <2>2 DEF TypeOK
    <3> QED
      BY <1>1, <2>1, <3>1 DEF PublicationFits, ChangesFit
  <2>3. CASE d = DestinationOf(p)
    <3>1. /\ out'[d] = stage[p] /\ origin'[d] = job[p] /\ issued'[d] = stage[p]
          /\ stage[p] = Built(job[p], compat[p])
          /\ Refusal(job[p], job[p].package, compat[p]) = "none"
          /\ compat[p] \in Externals
      BY <1>0, <1>1, <2>3 DEF TypeOK, WorkFits
    <3>2. d # Shared /\ job[p] \notin Handled => IsAccepted(job[p])
      BY <1>0, <2>3 DEF ApprovalFits, DestinationOf
    <3>3. PublicationFits(d)'
      BY <1>1, <2>1, <3>1, <3>2 DEF PublicationFits
    <3>4. PICK j : j = job[p] OBVIOUS
    <3>5. PICK external : external = compat[p] OBVIOUS
    <3>6. PICK built : built = Built(j, external) OBVIOUS
    <3>7. j \in Jobs /\ DocumentsFit(built)
      BY <1>0, <1>1, <3>4, <3>6, BuiltDocuments DEF TypeOK, DocumentsFit
    <3>8. out'[d] = built /\ issued'[d] = built
      BY <3>1, <3>4, <3>5, <3>6
    <3>9. ChangesFit(d)'
      BY <1>1, <2>1, <3>7, <3>8, NothingIsChanged DEF ChangesFit
    <3> QED
      BY <3>3, <3>9
  <2> QED
    BY <2>2, <2>3
<1> QED
  BY <1>1, <1>2, <1>3, <1>4, <1>5, <1>6, <1>7 DEF Good

(* A candidate touched by hand belongs to a handled job. *)
LEMMA TouchesFit ==
    ASSUME IBundle, NEW p \in Procs, NEW n, TouchCandidate(p, n)
    PROVE  IBundle'
<1> USE DEF TouchCandidate, Fault, caller
<1>0. TypeOK /\ UNCHANGED bundles /\ edits' = edits /\ job' = job
  BY DEF IBundle
<1>1. TypeOK'
  BY <1>0, BundleConstantsOK DEF TypeOK, bundles
<1>2. ASSUME NEW q \in Procs
      PROVE  CallFits(q)' /\ WorkFits(q)' /\ ApprovalFits(q)'
  <2>1. CallFits(q) /\ WorkFits(q) /\ ApprovalFits(q)
    BY DEF IBundle
  <2>2. job[q] \notin Handled => candidate'[q] = candidate[q]
    BY <1>0 DEF TypeOK
  <2>3. CallFits(q)' /\ WorkFits(q)'
    BY <2>1 DEF CallFits, WorkFits, DestinationOf
  <2>4. ApprovalFits(q)'
    BY <1>0, <2>1, <2>2 DEF ApprovalFits, DestinationOf, bundles
  <2> QED
    BY <2>3, <2>4
<1>3. (edits # 0 => \A q \in Procs : pc[q] = "end" \/ job[q] = NoJob)'
  BY DEF IBundle
<1> QED
  BY <1>0, <1>1, <1>2, <1>3, PublicationsStay DEF IBundle

(* A bundle is edited when all calls have ended. *)
LEMMA EditsFit ==
    ASSUME IBundle, NEW d \in Destinations, EditBundle(d)
    PROVE  IBundle'
<1>a. PICK b \in Edited(out[d]) : out' = [out EXCEPT ![d] = b]
  BY DEF EditBundle
<1>b. /\ UNCHANGED <<candidate, origin, issued, lock, pc, call, job, work, todo, compat,
                      stage, outcome, faults>>
      /\ edits' = edits + 1 /\ edits < MaxEdits /\ origin[d] \in Handled
      /\ \E p \in Procs : pc[p] = "end" /\ \A q \in Procs \ {p} : job[q] = NoJob
  BY DEF EditBundle, caller
<1>0. TypeOK /\ UNCHANGED <<origin, issued, pc, call, job>> /\ edits' = edits + 1
  BY <1>b DEF IBundle
<1>1. TypeOK'
  BY <1>0, <1>a, <1>b, BundleConstantsOK DEF TypeOK
<1>2. ASSUME NEW q \in Procs
      PROVE  CallFits(q)' /\ WorkFits(q)' /\ ApprovalFits(q)'
  BY <1>b DEF IBundle, CallFits, WorkFits, ApprovalFits, DestinationOf
<1>3. ASSUME NEW e \in Destinations
      PROVE  PublicationFits(e)'
  <2>1. PublicationFits(e) /\ edits \in Nat
    BY <1>0, BundleConstantsOK DEF IBundle, TypeOK
  <2>2. edits' # 0 /\ (edits' = 1 => edits = 0)
    BY <1>0, <2>1
  <2>3. out'[e] = out[e] \/ (e = d /\ out'[e] \in Edited(out[e]))
    BY <1>0, <1>a DEF TypeOK
  <2>4. edits' = 1 => \/ out'[e] = issued[e]
                      \/ origin[e] # NoJob /\ out'[e] \in Edited(issued[e])
    BY <1>b, <2>1, <2>2, <2>3, BundleConstantsOK DEF PublicationFits
  <2> QED
    BY <1>0, <2>1, <2>2, <2>4 DEF PublicationFits
<1>4. ASSUME NEW e \in Destinations
      PROVE  ChangesFit(e)'
  <2>1. ChangesFit(e) /\ edits \in Nat /\ Cardinality(Changed(out[e], issued[e])) \in Nat
    BY <1>0, BundleConstantsOK, FS_CardinalityType DEF IBundle, TypeOK, ChangesFit
  <2>2. out'[e] = out[e] \/ (e = d /\ out'[e] \in Edited(out[e]))
    BY <1>0, <1>a DEF TypeOK
  <2>3. PICK old : old = out[e] OBVIOUS
  <2>4. PICK new : new = out'[e] OBVIOUS
  <2>5. PICK bundle : bundle = issued[e] OBVIOUS
  <2>6. /\ IsFiniteSet(Changed(old, bundle)) /\ Cardinality(Changed(old, bundle)) <= edits
        /\ DocumentsFit(old) /\ Cardinality(Changed(old, bundle)) \in Nat
    BY <2>1, <2>3, <2>5 DEF ChangesFit
  <2>7. /\ IsFiniteSet(Changed(new, bundle))
        /\ Cardinality(Changed(new, bundle)) <= Cardinality(Changed(old, bundle)) + 1
        /\ DocumentsFit(new) /\ Cardinality(Changed(new, bundle)) \in Nat
    BY <2>2, <2>3, <2>4, <2>6, EditsAddOneChange, EditsKeepDocuments, FS_CardinalityType
  <2>8. Cardinality(Changed(new, bundle)) <= edits'
    BY <1>0, <2>1, <2>6, <2>7
  <2>9. out'[e] = new /\ issued'[e] = bundle
    BY <1>0, <2>4, <2>5
  <2>10. origin'[e] \notin Handled => out'[e] = issued'[e]
    BY <1>0, <1>b, <2>1, <2>2 DEF ChangesFit
  <2> QED
    BY <2>7, <2>8, <2>9, <2>10 DEF ChangesFit
<1>5. \A q \in Procs : pc[q] = "end" \/ job[q] = NoJob
  BY <1>b
<1> QED
  BY <1>b, <1>1, <1>2, <1>3, <1>4, <1>5 DEF IBundle

-----------------------------------------------------------------------------
(* At first nobody has called and nothing is published. *)
LEMMA InitIBundle == Init => IBundle
<1> SUFFICES ASSUME Init PROVE IBundle
  OBVIOUS
<1> USE DEF Init
<1>1. TypeOK
  BY BundleConstantsOK DEF TypeOK, Labels, Outcomes, Externals
<1>2. \A p \in Procs : CallFits(p) /\ WorkFits(p) /\ ApprovalFits(p)
  BY DEF CallFits, WorkFits, ApprovalFits, Locked, Prepared, Staging
<1>3. \A d \in Destinations : PublicationFits(d)
  BY DEF PublicationFits
<1>4. ASSUME NEW d \in Destinations
      PROVE  ChangesFit(d)
  <2>1. out[d] = Absent /\ issued[d] = Absent /\ edits = 0
    OBVIOUS
  <2>2. DocumentsFit(Absent)
    <3>1. DOMAIN Absent = {}
      BY DEF Absent
    <3> QED
      BY <3>1 DEF DocumentsFit, HasManifest, ReadsAs
  <2> QED
    BY <2>1, <2>2, NothingIsChanged DEF ChangesFit
<1> QED
  BY <1>1, <1>2, <1>3, <1>4 DEF IBundle

(* Every step keeps the invariant. *)
LEMMA NextIBundle == IBundle /\ [Next]_vars => IBundle'
<1> SUFFICES ASSUME IBundle, [Next]_vars PROVE IBundle'
  OBVIOUS
<1>1. ASSUME NEW p \in Procs, Step(p)
      PROVE  IBundle'
  <2>1. Good(p) /\ pc[p] # "end" /\ job[p] # NoJob
    BY <1>1, GoodStart, GoodValidateCandidate, GoodCheckArtifacts, GoodListCandidate,
       GoodCopyFile, GoodCheckStaged, GoodPrepare, GoodTakeLock, GoodRefuseExisting,
       GoodWriteSources, GoodWriteReport, GoodWriteHashes, GoodReplace, GoodSyncParent,
       GoodWriteFails, GoodSyncFails, GoodCrash
    DEF Step
  <2> QED
    BY <2>1, GoodStep
<1>2. CASE UNCHANGED vars
  <2> USE <1>2 DEF vars
  <2>1. \A p \in Procs : CallFits(p)' /\ WorkFits(p)' /\ ApprovalFits(p)'
    BY DEF IBundle, CallFits, WorkFits, ApprovalFits, DestinationOf
  <2>2. \A d \in Destinations : PublicationFits(d)' /\ ChangesFit(d)'
    BY PublicationsStay DEF bundles
  <2> QED
    BY <2>1, <2>2 DEF IBundle, TypeOK
<1> QED
  BY <1>1, <1>2, TouchesFit, EditsFit DEF Next

(* Every caller, however interleaved, touched, failed or dead, and every   *)
(* published bundle is in a state IBundle describes.                       *)
THEOREM BundleInvariance == Spec => []IBundle
BY InitIBundle, NextIBundle, PTL DEF Spec

-----------------------------------------------------------------------------
(* Every variable keeps its type.                                          *)
THEOREM BundleTypesAreRight == Spec => []TypeOK
<1>1. IBundle => TypeOK
  BY DEF IBundle
<1> QED
  BY <1>1, BundleInvariance, PTL

(* However many callers publish to one place and whoever fails or dies:    *)
(* the bundle a caller was told of is there, and stays (build_bundle looks *)
(* for the destination under its path lock).                               *)
THEOREM PublishedBundlesStay == Spec => []PublishedStays
<1>1. IBundle => PublishedStays
  BY DEF IBundle, ApprovalFits, PublishedStays
<1> QED
  BY <1>1, BundleInvariance, PTL

(* What is in the package directory of a bundle is the package of the job. *)
LEMMA PackageIsInside ==
    ASSUME NEW j \in Jobs, NEW external
    PROVE  /\ PackageOf(Built(j, external)) = j.package
           /\ DOMAIN Built(j, external) = DOMAIN j.package \cup RequiredFiles
           /\ \A n \in DOMAIN j.package : InPackage(n) /\ n \notin RequiredFiles
           /\ \A n \in DOMAIN j.package : Built(j, external)[n] = j.package[n]
<1> DEFINE built == Built(j, external)
<1>1. \A n \in RequiredFiles : ~InPackage(n)
  BY DEF RequiredFiles, Root, InPackage, Stem
<1>2. /\ \A n \in DOMAIN j.package : InPackage(n)
      /\ j.package = [n \in DOMAIN j.package |-> j.package[n]]
  <2> DEFINE inside == {m \in DOMAIN j.package : InPackage(m)}
  <2>1. j.package = [n \in inside |-> j.package[n]]
    BY PackagesOK DEF PackageOf
  <2>2. DOMAIN j.package = inside
    BY <2>1
  <2> QED
    BY <2>1, <2>2
<1>3. DOMAIN built = DOMAIN j.package \cup RequiredFiles
  BY DEF Built, WithHashes, WithReport, With, Sources, RequiredFiles
<1>4. \A n \in DOMAIN j.package : built[n] = j.package[n]
  BY <1>1, <1>2, <1>3 DEF Built, WithHashes, WithReport, With, Sources, RequiredFiles
<1>5. {m \in DOMAIN built : InPackage(m)} = DOMAIN j.package
  BY <1>1, <1>2, <1>3
<1> HIDE DEF built
<1>6. PackageOf(built) = [n \in DOMAIN j.package |-> j.package[n]]
  BY <1>4, <1>5 DEF PackageOf
<1> QED
  BY <1>1, <1>2, <1>3, <1>4, <1>6 DEF built

(* A published package is the approved one, and its target accepts it,     *)
(* however the candidates are changed while they are finalized.  Of the    *)
(* jobs whose candidates are touched by hand the target must accept the    *)
(* approved package: finalize_candidate validates the candidate before it  *)
(* compares it, and does not validate again.                               *)
THEOREM FinalPackagesAreApproved ==
    ASSUME \A j \in Handled : IsAccepted(j)
    PROVE  Spec => []FinalIsApproved
<1>1. ASSUME IBundle PROVE FinalIsApproved
  <2> SUFFICES ASSUME NEW p \in Procs, issued[p] # Absent
               PROVE  /\ PackageOf(issued[p]) = origin[p].package
                      /\ IsAccepted(origin[p])
    BY DEF FinalIsApproved, IsAccepted
  <2>1. p \in Destinations /\ p # Shared
    BY BundleConstantsOK DEF Destinations
  <2>2. PublicationFits(p) /\ origin[p] # NoJob /\ origin[p] \in Jobs
    BY <1>1, <2>1 DEF IBundle, PublicationFits, TypeOK
  <2>3. PICK external \in Externals : issued[p] = Built(origin[p], external)
    BY <2>2 DEF PublicationFits
  <2> QED
    BY <2>1, <2>2, <2>3, PackageIsInside DEF PublicationFits
<1> QED
  BY <1>1, BundleInvariance, PTL

-----------------------------------------------------------------------------
(* Hashes and what they find.                                              *)

(* A bundle that verifies clean has every file its hashes declare, with    *)
(* the digest they declare, and no other.                                  *)
LEMMA CleanIsWhole ==
    ASSUME NEW bundle, VerifyBundle(bundle) = {}
    PROVE  /\ ReadsAs(bundle, Root("hashes"), "hashes")
           /\ HashCodes(bundle, bundle[Root("hashes")].declared) = {}
<1>1. bundle # Absent
  BY DEF VerifyBundle
<1>2. ReadsAs(bundle, Root("hashes"), "hashes")
  <2> SUFFICES ASSUME ~ReadsAs(bundle, Root("hashes"), "hashes")
               PROVE  FALSE
    OBVIOUS
  <2>1. DocumentCodes(bundle, Root("hashes"), "hashes", "BUNDLE_INVALID_HASHES") = {}
    BY <1>1 DEF VerifyBundle
  <2> QED
    BY <2>1 DEF DocumentCodes, ReadsAs, Flag
<1> QED
  BY <1>1, <1>2 DEF VerifyBundle

(* So its hashes are its own, whatever they were computed from.            *)
LEMMA CleanHashesAreOwn ==
    ASSUME NEW bundle, NEW files, VerifyBundle(bundle) = {},
           bundle[Root("hashes")] = HashesOf(files)
    PROVE  HashesOf(files) = HashesOf(bundle)
<1> DEFINE declared == [n \in DOMAIN files \ {Root("hashes")} |-> files[n]]
<1>1. HashesOf(files) = [kind |-> "hashes", declared |-> declared]
  BY DEF HashesOf
<1> HIDE DEF declared
<1>2. HashCodes(bundle, declared) = {}
  BY <1>1, CleanIsWhole
<1>3. DOMAIN declared \cup RequiredFiles \subseteq DOMAIN bundle
  BY <1>2 DEF HashCodes, Flag
<1>4. \A n \in DOMAIN declared \cap DOMAIN bundle : declared[n] = bundle[n]
  BY <1>2 DEF HashCodes, Flag
<1>5. DOMAIN bundle \subseteq DOMAIN declared \cup {Root("hashes")}
  BY <1>2 DEF HashCodes, Flag
<1>6. Root("hashes") \notin DOMAIN declared
  BY DEF declared
<1>7. DOMAIN declared = DOMAIN bundle \ {Root("hashes")}
  BY <1>3, <1>5, <1>6
<1>8. declared = [n \in DOMAIN bundle \ {Root("hashes")} |-> bundle[n]]
  <2>1. declared = [n \in DOMAIN declared |-> declared[n]]
    BY DEF declared
  <2>2. \A n \in DOMAIN declared : declared[n] = bundle[n]
    BY <1>4, <1>7
  <2> QED
    BY <1>7, <2>1, <2>2
<1> QED
  BY <1>1, <1>8 DEF HashesOf

(* A bundle with the hashes of its own files. *)
IsFunction(f) == f = [n \in DOMAIN f |-> f[n]]

Sealed(bundle) ==
    /\ IsFunction(bundle)
    /\ Root("hashes") \in DOMAIN bundle
    /\ bundle[Root("hashes")] = HashesOf(bundle)

(* Two of them with the same hashes differ nowhere. *)
LEMMA SameHashesSameFiles ==
    ASSUME NEW one, NEW other, Sealed(one), Sealed(other), HashesOf(one) = HashesOf(other)
    PROVE  one = other
<1> DEFINE files(b) == [n \in DOMAIN b \ {Root("hashes")} |-> b[n]]
<1>1. files(one) = files(other)
  BY DEF HashesOf
<1>2. DOMAIN one = DOMAIN other
  <2>1. DOMAIN files(one) = DOMAIN one \ {Root("hashes")} /\
        DOMAIN files(other) = DOMAIN other \ {Root("hashes")}
    OBVIOUS
  <2> QED
    BY <1>1, <2>1 DEF Sealed
<1>3. ASSUME NEW n \in DOMAIN one
      PROVE  one[n] = other[n]
  <2>1. CASE n = Root("hashes")
    BY <2>1 DEF Sealed
  <2>2. CASE n # Root("hashes")
    <3>1. files(one)[n] = one[n] /\ files(other)[n] = other[n]
      BY <1>2, <2>2
    <3> QED
      BY <1>1, <3>1
  <2> QED
    BY <2>1, <2>2
<1> QED
  BY <1>2, <1>3 DEF Sealed, IsFunction

(* A bundle is published with its own hashes.                              *)
LEMMA BuiltIsSealed ==
    ASSUME NEW j, NEW external
    PROVE  Sealed(Built(j, external))
<1> DEFINE files == WithReport(ManifestOf(j), Sources(j, j.package, external))
           built == With(files, Root("hashes"), HashesOf(files))
<1>1. Built(j, external) = built
  BY DEF Built, WithHashes
<1> HIDE DEF files
<1>2. DOMAIN built = DOMAIN files \cup {Root("hashes")} /\ IsFunction(built)
      /\ built[Root("hashes")] = HashesOf(files)
      /\ \A n \in DOMAIN files \ {Root("hashes")} : built[n] = files[n]
  BY DEF With, IsFunction
<1> HIDE DEF built
<1>3. HashesOf(files) = HashesOf(built)
  BY <1>2 DEF HashesOf
<1> QED
  BY <1>1, <1>2, <1>3 DEF Sealed

(* Any one of them shows. *)
LEMMA EditsShow ==
    ASSUME NEW bundle, Sealed(bundle), NEW edited \in Edited(bundle), edited # bundle
    PROVE  VerifyBundle(edited) # {}
<1> SUFFICES ASSUME VerifyBundle(edited) = {}
             PROVE  FALSE
  OBVIOUS
<1>1. Root("hashes") \in DOMAIN edited /\ edited[Root("hashes")].kind = "hashes"
  BY CleanIsWhole DEF ReadsAs
<1>2. ASSUME IsFunction(edited), NEW files, edited[Root("hashes")] = HashesOf(files),
             HashesOf(files) = HashesOf(bundle) \/ HashesOf(edited) = HashesOf(bundle)
      PROVE  FALSE
  <2>1. HashesOf(files) = HashesOf(edited)
    BY <1>2, CleanHashesAreOwn
  <2>2. Sealed(edited)
    BY <1>1, <1>2, <2>1 DEF Sealed
  <2> QED
    BY <1>2, <2>1, <2>2, SameHashesSameFiles
<1>3. ASSUME NEW n \in DOMAIN bundle, edited = Without(bundle, n)
      PROVE  FALSE
  <2>1. DOMAIN edited = DOMAIN bundle \ {n} /\ IsFunction(edited)
        /\ \A m \in DOMAIN bundle \ {n} : edited[m] = bundle[m]
    BY <1>3 DEF Without, IsFunction
  <2>2. edited[Root("hashes")] = HashesOf(bundle)
    BY <1>1, <2>1 DEF Sealed
  <2> QED
    BY <1>2, <2>1, <2>2
<1>4. ASSUME NEW n, NEW content, edited = With(bundle, n, content),
             n = Root("hashes") => \/ content.kind # "hashes"
                                   \/ \E files : content = HashesOf(files)
      PROVE  FALSE
  <2>1. DOMAIN edited = DOMAIN bundle \cup {n} /\ IsFunction(edited) /\ edited[n] = content
        /\ \A m \in DOMAIN bundle \ {n} : edited[m] = bundle[m]
    BY <1>4 DEF With, IsFunction
  <2>2. CASE n # Root("hashes")
    <3>1. edited[Root("hashes")] = HashesOf(bundle)
      BY <2>1, <2>2 DEF Sealed
    <3> QED
      BY <1>2, <2>1, <3>1
  <2>3. CASE n = Root("hashes")
    <3>1. PICK files : content = HashesOf(files)
      BY <1>1, <1>4, <2>1, <2>3
    <3>2. HashesOf(edited) = HashesOf(bundle)
      <4>1. DOMAIN edited = DOMAIN bundle
        BY <2>1, <2>3 DEF Sealed
      <4> QED
        BY <2>1, <2>3, <4>1 DEF HashesOf
    <3> QED
      BY <1>2, <2>1, <2>3, <3>1, <3>2
  <2> QED
    BY <2>2, <2>3
<1> QED
  BY <1>3, <1>4, EditsChangeOneFile

(* Whatever the bundles of however many jobs: one file lost, spoilt, made  *)
(* a link, added, taken from the bundle of another job, or a document      *)
(* computed anew, and verify_bundle reports it.                            *)
THEOREM SingleChangesAreFound == Spec => []OneChangeIsFound
<1>1. ASSUME IBundle PROVE OneChangeIsFound
  <2> SUFFICES ASSUME NEW d \in Destinations, edits = 1, out[d] # issued[d]
               PROVE  VerifyBundle(out[d]) # {}
    BY DEF OneChangeIsFound
  <2>1. out[d] \in Edited(issued[d]) /\ origin[d] # NoJob /\ PublicationFits(d)
    BY <1>1 DEF IBundle, PublicationFits
  <2>2. Sealed(issued[d])
    BY <2>1, BuiltIsSealed DEF PublicationFits
  <2> QED
    BY <2>1, <2>2, EditsShow
<1> QED
  BY <1>1, BundleInvariance, PTL

-----------------------------------------------------------------------------
(* What a published bundle holds at its root.                              *)
LEMMA RootFiles ==
    ASSUME NEW j \in Jobs, NEW external
    PROVE  LET built == Built(j, external) IN
           /\ built[Root("manifest")] = Sanitized(ManifestOf(j))
           /\ built[Root("lineage")] = LineageOf(j)
           /\ built[Root("compat")] = CompatOf(j, j.package, external)
           /\ built[Root("report")]
                 = ReportOf(ManifestOf(j), Sanitized(ManifestOf(j)), LineageOf(j).nodes, j.package)
           /\ built[Root("hashes")] = HashesOf(built)
           /\ RequiredFiles \subseteq DOMAIN built
<1> DEFINE sources == Sources(j, j.package, external)
           files == WithReport(ManifestOf(j), sources)
<1>0. \A a, b : Root(a) = Root(b) <=> a = b
  BY DEF Root
<1>1. \A name : ~InPackage(Root(name))
  BY DEF Root, InPackage, Stem
<1>2. /\ sources[Root("manifest")] = Sanitized(ManifestOf(j))
      /\ sources[Root("lineage")] = LineageOf(j)
      /\ sources[Root("compat")] = CompatOf(j, j.package, external)
      /\ Root("manifest") \in DOMAIN sources /\ Root("lineage") \in DOMAIN sources
      /\ Root("compat") \in DOMAIN sources
  BY <1>0, <1>1 DEF Sources
<1>3. PackageOf(sources) = j.package
  <2>1. \A n \in DOMAIN j.package : InPackage(n)
    BY PackageIsInside
  <2>2. {m \in DOMAIN sources : InPackage(m)} = DOMAIN j.package
    BY <1>1, <2>1 DEF Sources
  <2>3. \A n \in DOMAIN j.package : sources[n] = j.package[n]
    BY <2>1 DEF Sources
  <2>4. PackageOf(sources) = [n \in DOMAIN j.package |-> j.package[n]]
    BY <2>2, <2>3 DEF PackageOf
  <2>5. PackageOf(j.package) = [n \in DOMAIN j.package |-> j.package[n]]
    <3>1. {m \in DOMAIN j.package : InPackage(m)} = DOMAIN j.package
      BY <2>1
    <3> QED
      BY <3>1 DEF PackageOf
  <2> QED
    BY <2>4, <2>5, PackagesOK
<1> HIDE DEF sources
<1>4. /\ DOMAIN files = DOMAIN sources \cup {Root("report")}
      /\ \A n \in DOMAIN sources \ {Root("report")} : files[n] = sources[n]
      /\ files[Root("report")]
            = ReportOf(ManifestOf(j), sources[Root("manifest")],
                       sources[Root("lineage")].nodes, PackageOf(sources))
  BY DEF WithReport, With
<1>5. Built(j, external) = WithHashes(files)
  BY DEF Built, sources
<1> HIDE DEF files
<1>6. /\ DOMAIN WithHashes(files) = DOMAIN files \cup {Root("hashes")}
      /\ \A n \in DOMAIN files \ {Root("hashes")} : WithHashes(files)[n] = files[n]
  BY DEF WithHashes, With
<1> DEFINE built == WithHashes(files)
<1>7. /\ built[Root("manifest")] = sources[Root("manifest")]
      /\ built[Root("lineage")] = sources[Root("lineage")]
      /\ built[Root("compat")] = sources[Root("compat")]
      /\ built[Root("report")] = files[Root("report")]
  BY <1>0, <1>2, <1>4, <1>6
<1>8. built[Root("hashes")] = HashesOf(built)
  BY <1>5, BuiltIsSealed DEF Sealed
<1>9. RequiredFiles \subseteq DOMAIN built
  BY <1>5, PackageIsInside
<1>10. files[Root("report")]
          = ReportOf(ManifestOf(j), Sanitized(ManifestOf(j)), LineageOf(j).nodes, j.package)
  BY <1>2, <1>3, <1>4
<1> HIDE DEF built
<1> QED
  BY <1>2, <1>5, <1>7, <1>8, <1>9, <1>10 DEF built

(* A roundtrip that succeeds is evidence for the package it was run on.    *)
LEMMA RoundtripsAreEvidence ==
    ASSUME NEW package, DecodeRoundtrip(package).ok
    PROVE  /\ SelfConsistent(DecodeRoundtrip(package))
           /\ DecodeRoundtrip(package).before = PackageDigest(package)
<1> DEFINE sheet  == CanonicalSheet(package)
           before == Described(sheet, CanonicalPalette(package).colors)
           source == SourceContractCodes(before, sheet.palette)
           copy   == Reencoded(before.pixels, before.palette)
           after  == Described(CanonicalSheet(copy), CanonicalPalette(copy).colors)
           compared == ComparisonCodes(before, after, CanonicalSheet(copy).palette)
           evidence == DecodeRoundtrip(package)
<1>0. \A codes, b, a : ~Failure(codes, b, a).ok
  BY DEF Failure
<1>1. /\ ValidatePortrait(package) = {} /\ DecodesCanonically(package)
      /\ source = {} /\ compared = {}
      /\ evidence = [ok |-> TRUE, before |-> before, after |-> after, codes |-> {}]
  BY <1>0 DEF DecodeRoundtrip
<1>2. sheet.indexed
  BY <1>1 DEF ValidatePortrait, CanonicalSheet, Flag, DecodesCanonically, HasCanonicalPaths
<1>3. PackageDigest(package) = before
  BY <1>1, <1>2 DEF PackageDigest
<1>4. /\ before.dims = SheetCells
      /\ before.colors \in 1 .. MaxColors
      /\ before.background \in 0 .. before.colors - 1
  BY <1>1 DEF SourceContractCodes, Flag
<1>5. before.pixels = after.pixels /\ before.palette = after.palette
  BY <1>1 DEF ComparisonCodes, Flag
<1> HIDE DEF sheet, before, source, copy, after, compared
<1> QED
  BY <1>1, <1>3, <1>4, <1>5 DEF SelfConsistent

(* No two files of a package have names that differ only in case.          *)
NoTwins(package) ==
    \A n, m \in DOMAIN package :
        n # m /\ Stem(n) = Stem(m) => Folded(Suffix(n)) # Folded(Suffix(m))

(* What build_bundle writes is what verify_bundle asks for.                *)
LEMMA BuiltVerifies ==
    ASSUME NEW j \in Jobs, NEW external \in Externals,
           Refusal(j, j.package, external) = "none",
           j.redactable = FALSE, NoTwins(j.package)
    PROVE  VerifyBundle(Built(j, external)) = {}
<1> DEFINE built == Built(j, external)
           evidence == CompatOf(j, j.package, external)
<1>1. /\ built[Root("manifest")] = ManifestOf(j)
      /\ built[Root("lineage")] = LineageOf(j)
      /\ built[Root("compat")] = evidence
      /\ built[Root("report")]
            = ReportOf(ManifestOf(j), ManifestOf(j), LineageOf(j).nodes, j.package)
      /\ built[Root("hashes")] = HashesOf(built)
      /\ RequiredFiles \subseteq DOMAIN built
  <2>1. /\ ManifestOf(j) = [field \in DOMAIN ManifestOf(j) |-> ManifestOf(j)[field]]
        /\ ManifestOf(j).unredacted = FALSE
    BY DEF ManifestOf
  <2>2. Sanitized(ManifestOf(j)) = ManifestOf(j)
    BY <2>1 DEF Sanitized
  <2> QED
    BY <2>2, RootFiles
<1>2. /\ PackageOf(built) = j.package
      /\ DOMAIN built = DOMAIN j.package \cup RequiredFiles
      /\ \A n \in DOMAIN j.package : InPackage(n) /\ n \notin RequiredFiles
      /\ \A n \in DOMAIN j.package : built[n] = j.package[n]
  BY PackageIsInside
<1>3. /\ SafeTree(j.package, j.target) /\ ~EvidenceRefused(j, j.package, external)
  BY DEF Refusal
<1>4. {Root("manifest"), Root("lineage"), Root("compat"), Root("report"), Root("hashes")}
          = RequiredFiles
  BY DEF RequiredFiles
<1>5. ReadsAs(built, Root("hashes"), "hashes") /\ HasManifest(built)
      /\ ReadsAs(built, Root("report"), "report") /\ ReadsAs(built, Root("lineage"), "lineage")
  BY <1>1, <1>4 DEF ReadsAs, HasManifest, HashesOf, ManifestOf, ReportOf, LineageOf
<1>6. /\ evidence.kind = IF j.target = "portrait" THEN "compat" ELSE "sourceCompat"
      /\ j.target = "portrait" =>
           /\ evidence.evidence = DecodeRoundtrip(j.package)
           /\ evidence.evidence.ok
           /\ evidence.status \in {"not_run", "passed"}
           /\ evidence.exit = (evidence.status = "passed")
           /\ evidence.validatedByCli = (evidence.status = "passed")
      /\ j.target # "portrait" => evidence.digests = j.package /\ evidence.adapter = "not_run"
  BY <1>3 DEF CompatOf, PortraitCompat, BackgroundCompat, ExternalStatus, EvidenceRefused,
              ExternalRefused, Externals
<1>7. IsPortrait(built) <=> j.target = "portrait"
  BY <1>1 DEF IsPortrait, ManifestOf
<1> HIDE DEF built, evidence
<1>8. TrustsCompat(built)
  <2>1. CASE j.target = "portrait"
    <3>1. SelfConsistent(evidence.evidence)
      BY <1>6, <2>1, RoundtripsAreEvidence
    <3> QED
      BY <1>1, <1>4, <1>6, <1>7, <2>1, <3>1 DEF TrustsCompat, ReadsAs, ParsesExternal
  <2>2. CASE j.target # "portrait"
    BY <1>1, <1>3, <1>4, <1>6, <1>7, <2>2 DEF TrustsCompat, ReadsAs, SafeTree
  <2> QED
    BY <2>1, <2>2
<1>9. CompatCodes(built) = {}
  <2>1. CASE j.target = "portrait"
    <3>1. evidence.evidence.before = PackageDigest(PackageOf(built))
      BY <1>2, <1>6, <2>1, RoundtripsAreEvidence
    <3> QED
      BY <1>1, <1>5, <1>6, <1>7, <1>8, <2>1, <3>1 DEF CompatCodes, PortraitCompatCodes, Flag
  <2>2. CASE j.target # "portrait"
    BY <1>1, <1>2, <1>5, <1>6, <1>7, <1>8, <2>2
    DEF CompatCodes, BackgroundCompatCodes, Flag
  <2> QED
    BY <2>1, <2>2
<1>10. CompatFormCodes(built) = {}
  BY <1>4, <1>1, <1>5, <1>8 DEF CompatFormCodes, Flag
<1>11. ~UnsafeTree(built)
  <2>1. \A n \in DOMAIN built : built[n].kind # "link"
    <3>1. \A n \in DOMAIN j.package : built[n].kind # "link"
      BY <1>2, <1>3 DEF SafeTree
    <3>2. \A n \in RequiredFiles : built[n].kind # "link"
      BY <1>1, <1>4, <1>6 DEF HashesOf, ManifestOf, ReportOf, LineageOf
    <3> QED
      BY <1>2, <3>1, <3>2
  <2>2. \A n \in RequiredFiles : Stem(n) = 0
    BY DEF RequiredFiles, Root, Stem
  <2>3. \A n, m \in RequiredFiles : n # m => Folded(Suffix(n)) # Folded(Suffix(m))
    BY DEF RequiredFiles, Root, Suffix, Folded
  <2>4. \A n \in DOMAIN j.package : Stem(n) # 0
    BY <1>2 DEF InPackage
  <2> QED
    BY <1>2, <2>1, <2>2, <2>3, <2>4 DEF UnsafeTree, NoTwins
<1> DEFINE declared == HashesOf(built).declared
<1>12. /\ DOMAIN declared = DOMAIN built \ {Root("hashes")}
       /\ \A n \in DOMAIN declared : declared[n] = built[n]
  BY DEF HashesOf
<1> HIDE DEF declared
<1>13. HashCodes(built, declared) = {}
  BY <1>1, <1>12 DEF HashCodes, Flag
<1>14. ConsistencyCodes(built, declared) = {}
  <2> DEFINE packed == {declared[n] : n \in {m \in DOMAIN declared \cap DOMAIN built : InPackage(m)}}
  <2>1. packed = Contents(j.package)
    <3>1. Root("hashes") \in RequiredFiles /\ \A n \in RequiredFiles : ~InPackage(n)
      BY DEF RequiredFiles, Root, InPackage, Stem
    <3>2. {m \in DOMAIN declared \cap DOMAIN built : InPackage(m)} = DOMAIN j.package
      BY <1>2, <1>12, <3>1
    <3>3. \A n \in DOMAIN j.package : declared[n] = j.package[n]
      BY <1>2, <1>12, <3>1
    <3> QED
      BY <3>2, <3>3 DEF Contents
  <2> HIDE DEF packed
  <2>2. ManifestHashCodes(built, built[Root("report")]) = {}
    BY <1>1 DEF ManifestHashCodes, ReportOf, Flag
  <2>3. /\ built[Root("report")].history = built[Root("lineage")].nodes
        /\ built[Root("report")].outputs = OutputHashes(packed, built[Root("lineage")].nodes)
    BY <1>1, <2>1 DEF ReportOf
  <2> QED
    BY <2>2, <2>3 DEF ConsistencyCodes, Flag, packed
<1>15. DocumentCodes(built, Root("manifest"), "manifest", "BUNDLE_INVALID_MANIFEST") = {}
       /\ DocumentCodes(built, Root("report"), "report", "BUNDLE_INVALID_REPORT") = {}
       /\ DocumentCodes(built, Root("lineage"), "lineage", "BUNDLE_INVALID_LINEAGE") = {}
       /\ DocumentCodes(built, Root("hashes"), "hashes", "BUNDLE_INVALID_HASHES") = {}
  BY <1>5 DEF DocumentCodes, ReadsAs, HasManifest, Flag
<1>16. built # Absent
  BY WholeIsThere DEF built
<1> QED
  BY <1>1, <1>5, <1>9, <1>10, <1>11, <1>13, <1>14, <1>15, <1>16
  DEF VerifyBundle, declared, built

(* build_bundle may publish the job's package. *)
Publishable(j) == \E external \in Externals : Refusal(j, j.package, external) = "none"

(* Whatever dies or fails around it, a bundle nobody has changed since     *)
(* build_bundle published it verifies clean; unless its manifest has       *)
(* something to redact, or its package two names that differ in case only, *)
(* which verify_bundle does not accept and build_bundle does.              *)
THEOREM PublishedBundlesVerify ==
    ASSUME \A j \in Jobs : Publishable(j) => j.redactable = FALSE /\ NoTwins(j.package)
    PROVE  Spec => []PublishedVerifies
<1>1. ASSUME IBundle PROVE PublishedVerifies
  <2> SUFFICES ASSUME NEW d \in Destinations, edits = 0, out[d] # Absent
               PROVE  VerifyBundle(out[d]) = {}
    BY DEF PublishedVerifies
  <2>1. PublicationFits(d) /\ issued[d] = out[d] /\ origin[d] \in Jobs
    BY <1>1 DEF IBundle, PublicationFits, TypeOK
  <2>2. PICK external \in Externals :
            /\ Refusal(origin[d], origin[d].package, external) = "none"
            /\ issued[d] = Built(origin[d], external)
    BY <2>1 DEF PublicationFits
  <2>3. origin[d].redactable = FALSE /\ NoTwins(origin[d].package)
    BY <2>1, <2>2 DEF Publishable
  <2> QED
    BY <2>1, <2>2, <2>3, BuiltVerifies
<1> QED
  BY <1>1, BundleInvariance, PTL

-----------------------------------------------------------------------------
(* What a target accepts can be finalized.                                 *)

(* What strict validation has checked when it reports nothing.             *)
LEMMA AcceptedSheets ==
    ASSUME NEW package, IsFiniteSet(DOMAIN package),
           \A n \in DOMAIN package : Stem(n) \in Nat,
           ValidatePortrait(package) = {}
    PROVE  LET sheet == CanonicalSheet(package)
               own   == CanonicalPalette(package)
           IN  /\ HasCanonicalPaths(package)
               /\ FirstSheet(package) \in DOMAIN package
               /\ IsPng(sheet) /\ sheet.indexed /\ Decodes(sheet)
               /\ Dimensions(sheet) = SheetCells /\ ~(Len(sheet.palette) > MaxColors)
               /\ ReadsAsJasc(own) /\ own.colors = sheet.palette
               /\ own.count = Len(sheet.palette)
               /\ SnapCodes(sheet.palette) = {}
               /\ PixelCodes(Picture[sheet.pixels], Len(sheet.palette)) = {}
<1> DEFINE first == FirstSheet(package)
           sheet == CanonicalSheet(package)
           own   == CanonicalPalette(package)
<1>1. /\ Sheets(package) # {} /\ ~(Cardinality(Sheets(package)) > 1)
      /\ IsPng(sheet) /\ sheet.indexed
      /\ SheetCodes(package, first) = {}
  BY DEF ValidatePortrait, CanonicalSheet, Flag
<1>2. /\ IsFiniteSet(Sheets(package)) /\ IsFiniteSet(Matching(package, first))
  BY FS_Subset DEF Sheets, Matching, Sidecars
<1>3. Cardinality(Sheets(package)) = 1
  BY <1>1, <1>2, FS_CardinalityType, FS_EmptySet
<1>4. first \in DOMAIN package
  <2>1. PICK n : Sheets(package) = {n}
    BY <1>2, <1>3, FS_Singleton
  <2>2. n \in DOMAIN package
    BY <2>1 DEF Sheets
  <2>3. first = n
    BY <2>1, <2>2 DEF FirstSheet
  <2> QED
    BY <2>2, <2>3
<1>5. /\ Dimensions(sheet) = SheetCells /\ sheet.depth = 8
      /\ ~(Len(sheet.palette) > MaxColors)
      /\ SnapCodes(sheet.palette) = {} /\ SidecarCodes(package, first) = {}
      /\ Decodes(sheet) /\ PixelCodes(Picture[sheet.pixels], Len(sheet.palette)) = {}
  BY <1>1 DEF SheetCodes, CanonicalSheet, Flag
<1>6. /\ Matching(package, first) # {} /\ ~(Cardinality(Matching(package, first)) > 1)
      /\ ReadsAsJasc(own) /\ own.count = Len(sheet.palette)
      /\ own.colors = sheet.palette
  BY <1>5 DEF SidecarCodes, CanonicalPalette, CanonicalSheet, Flag
<1>7. Cardinality(Matching(package, first)) = 1
  BY <1>2, <1>6, FS_CardinalityType, FS_EmptySet
<1> QED
  BY <1>1, <1>3, <1>4, <1>5, <1>6, <1>7 DEF HasCanonicalPaths

(* The two files the roundtrip writes, read again. *)
LEMMA CopiesAreCanonical ==
    ASSUME NEW pixels, NEW palette
    PROVE  LET copy == Reencoded(pixels, palette) IN
           /\ Sheets(copy) = {<<1, "png">>} /\ FirstSheet(copy) = <<1, "png">>
           /\ Sidecars(copy) = {<<1, "pal">>} /\ Matching(copy, <<1, "png">>) = {<<1, "pal">>}
           /\ FirstMatching(copy, <<1, "png">>) = <<1, "pal">>
           /\ copy[<<1, "png">>] = [kind |-> "png", indexed |-> TRUE, depth |-> 8,
                  trns |-> FALSE, whole |-> TRUE, pixels |-> pixels, palette |-> palette]
           /\ copy[<<1, "pal">>] = [kind |-> "pal", count |-> Len(palette), colors |-> palette]
<1> DEFINE copy == Reencoded(pixels, palette)
<1>1. /\ DOMAIN copy = {<<1, "png">>, <<1, "pal">>}
      /\ copy[<<1, "png">>] = [kind |-> "png", indexed |-> TRUE, depth |-> 8,
                  trns |-> FALSE, whole |-> TRUE, pixels |-> pixels, palette |-> palette]
      /\ copy[<<1, "pal">>] = [kind |-> "pal", count |-> Len(palette), colors |-> palette]
  BY DEF Reencoded, Suffix
<1> HIDE DEF copy
<1>2. Sheets(copy) = {<<1, "png">>} /\ FirstSheet(copy) = <<1, "png">>
  BY <1>1 DEF Sheets, FirstSheet, Suffix, Stem
<1>3. Sidecars(copy) = {<<1, "pal">>}
  BY <1>1 DEF Sidecars, Suffix, Folded, IsFile
<1>4. Matching(copy, <<1, "png">>) = {<<1, "pal">>}
  BY <1>3 DEF Matching, Stem
<1>5. FirstMatching(copy, <<1, "png">>) = <<1, "pal">>
  BY <1>4 DEF FirstMatching, Stem, Suffix
<1> QED
  BY <1>1, <1>2, <1>3, <1>4, <1>5 DEF copy

(* Read back, the copy gives the pixels and the palette it was written of. *)
LEMMA CopiesReadBack ==
    ASSUME NEW pixels, NEW palette
    PROVE  /\ CanonicalSheet(Reencoded(pixels, palette)).palette = palette
           /\ CanonicalSheet(Reencoded(pixels, palette)).pixels = pixels
           /\ CanonicalPalette(Reencoded(pixels, palette)).colors = palette
<1> DEFINE copy == Reencoded(pixels, palette)
<1>1. /\ FirstSheet(copy) = <<1, "png">> /\ FirstMatching(copy, <<1, "png">>) = <<1, "pal">>
      /\ copy[<<1, "png">>] = [kind |-> "png", indexed |-> TRUE, depth |-> 8,
                  trns |-> FALSE, whole |-> TRUE, pixels |-> pixels, palette |-> palette]
      /\ copy[<<1, "pal">>] = [kind |-> "pal", count |-> Len(palette), colors |-> palette]
  BY CopiesAreCanonical
<1> HIDE DEF copy
<1>2. /\ CanonicalSheet(copy) = copy[<<1, "png">>]
      /\ CanonicalPalette(copy) = copy[<<1, "pal">>]
  BY <1>1 DEF CanonicalSheet, CanonicalPalette
<1>3. /\ CanonicalSheet(copy).palette = palette /\ CanonicalSheet(copy).pixels = pixels
      /\ CanonicalPalette(copy).colors = palette
  BY <1>1, <1>2
<1> QED
  BY <1>3 DEF copy

(* If pixels and palette are those of an accepted package, they are        *)
(* accepted again.                                                         *)
LEMMA CopiesAreAccepted ==
    ASSUME NEW pixels, NEW palette,
           Len(palette) \in 1 .. MaxColors,
           \A i \in DOMAIN palette : palette[i] \in Channel,
           DOMAIN Picture[pixels] = SheetCells,
           SnapCodes(palette) = {}, PixelCodes(Picture[pixels], Len(palette)) = {}
    PROVE  ValidatePortrait(Reencoded(pixels, palette)) = {}
<1> DEFINE copy == Reencoded(pixels, palette)
           sheet == <<1, "png">>
           sidecar == <<1, "pal">>
<1>1. /\ Sheets(copy) = {sheet} /\ FirstSheet(copy) = sheet
      /\ Sidecars(copy) = {sidecar} /\ Matching(copy, sheet) = {sidecar}
      /\ FirstMatching(copy, sheet) = sidecar
      /\ copy[sheet] = [kind |-> "png", indexed |-> TRUE, depth |-> 8,
                        trns |-> FALSE, whole |-> TRUE, pixels |-> pixels, palette |-> palette]
      /\ copy[sidecar] = [kind |-> "pal", count |-> Len(palette), colors |-> palette]
  BY CopiesAreCanonical
<1>2. Cardinality({sheet}) = 1 /\ Cardinality({sidecar}) = 1
  BY FS_Singleton
<1>3. ~(Len(palette) > MaxColors)
  BY PortraitConstantsOK
<1> HIDE DEF copy, sheet, sidecar
<1>4. SidecarCodes(copy, sheet) = {}
  BY <1>1, <1>2 DEF SidecarCodes, Within, ReadsAsJasc, Flag
<1>5. SheetCodes(copy, sheet) = {}
  BY <1>1, <1>3, <1>4 DEF SheetCodes, Dimensions, Decodes, IsPng, Flag
<1> QED
  BY <1>1, <1>2, <1>5 DEF ValidatePortrait, Within, IsPng, Flag, copy

(* Every zone of background is on the sheet, and there is one.             *)
LEMMA ZonesAreOnTheSheet ==
    UNION BackgroundZones \subseteq SheetCells /\ <<0, 0>> \in UNION BackgroundZones
<1>1. \A zone \in BackgroundZones : zone \subseteq SheetCells
  BY DEF BackgroundZones, SheetCells, Region
<1>2. <<0, 0>> \in Region(0, 0, 1, 3) /\ Region(0, 0, 1, 3) \in BackgroundZones
  BY DEF BackgroundZones, Region
<1> QED
  BY <1>1, <1>2

(* What has not changed is compared without a difference. *)
LEMMA UnchangedCompares ==
    ASSUME NEW described, described.background = 0
    PROVE  ComparisonCodes(described, described, described.palette) = {}
  BY DEF ComparisonCodes, Flag, UnknownBackground

(* An accepted portrait survives the roundtrip. *)
LEMMA AcceptedPortraitsDecode ==
    ASSUME NEW j \in Jobs, ValidatePortrait(j.package) = {}
    PROVE  DecodeRoundtrip(j.package).ok
<1> DEFINE package == j.package
           sheet   == CanonicalSheet(package)
           palette == sheet.palette
           picture == Picture[sheet.pixels]
           before  == Described(sheet, CanonicalPalette(package).colors)
           source  == SourceContractCodes(before, sheet.palette)
           copy    == Reencoded(before.pixels, before.palette)
           after   == Described(CanonicalSheet(copy), CanonicalPalette(copy).colors)
           compared == ComparisonCodes(before, after, CanonicalSheet(copy).palette)
<1>1. /\ HasCanonicalPaths(package) /\ FirstSheet(package) \in DOMAIN package
      /\ IsPng(sheet) /\ Decodes(sheet)
      /\ Dimensions(sheet) = SheetCells /\ ~(Len(palette) > MaxColors)
      /\ ReadsAsJasc(CanonicalPalette(package))
      /\ CanonicalPalette(package).colors = palette
      /\ SnapCodes(palette) = {} /\ PixelCodes(picture, Len(palette)) = {}
  BY AcceptedSheets, PackagesOK
<1>2. sheet.pixels \in DOMAIN Picture /\ Len(palette) \in Nat
  BY <1>1, PackagesOK DEF CanonicalSheet
<1>3. /\ DOMAIN picture = SheetCells
      /\ \A c \in SheetCells : picture[c] \in Nat /\ picture[c] < Len(palette)
      /\ \A zone \in BackgroundZones : \A c \in zone : picture[c] = 0
  <2>1. /\ \A c \in DOMAIN picture : ~(picture[c] >= Len(palette))
        /\ \A zone \in BackgroundZones : \A c \in zone : picture[c] = 0
    BY <1>1 DEF PixelCodes, Flag, BgIndex
  <2>2. DOMAIN picture = SheetCells
    BY <1>1 DEF Dimensions
  <2>3. \A c \in DOMAIN picture : picture[c] \in Nat
    BY <1>2, PortraitConstantsOK
  <2> QED
    BY <1>2, <2>1, <2>2, <2>3
<1>4. <<0, 0>> \in SheetCells /\ Len(palette) \in 1 .. MaxColors
  <2>1. <<0, 0>> \in SheetCells
    BY ZonesAreOnTheSheet
  <2> QED
    BY <1>1, <1>2, <1>3, <2>1, PortraitConstantsOK
<1>5. BackgroundIndex(picture) = 0
  <2> DEFINE zones == UNION BackgroundZones
             seen  == {picture[c] : c \in zones}
  <2>1. seen = {0}
    BY <1>3, ZonesAreOnTheSheet
  <2>2. Cardinality({0}) = 1
    BY FS_Singleton
  <2> QED
    BY <1>3, <2>1, <2>2, ZonesAreOnTheSheet DEF BackgroundIndex
<1>6. before = [dims |-> SheetCells, colors |-> Len(palette), background |-> 0,
                pixels |-> sheet.pixels, palette |-> palette]
  BY <1>1, <1>5 DEF Described
<1>7. DecodesCanonically(package)
  BY <1>1 DEF DecodesCanonically
<1>8. source = {}
  BY <1>4, <1>6 DEF SourceContractCodes, Flag
<1>9. \A i \in DOMAIN palette : palette[i] \in Channel
  BY <1>1 DEF ReadsAsJasc
<1>10. SaveableIndices(before.pixels, before.palette) /\ WritableJasc(before.palette)
  BY <1>3, <1>4, <1>6, <1>9, PortraitConstantsOK DEF SaveableIndices, WritableJasc
<1>11. ValidatePortrait(copy) = {}
  BY <1>1, <1>3, <1>4, <1>6, <1>9, CopiesAreAccepted
<1>12. /\ CanonicalSheet(copy).palette = palette /\ CanonicalSheet(copy).pixels = sheet.pixels
       /\ CanonicalPalette(copy).colors = palette
  <2>1. copy = Reencoded(sheet.pixels, palette)
    BY <1>6
  <2> QED
    BY <2>1, CopiesReadBack
<1>13. after = before
  BY <1>1, <1>12 DEF Described, Dimensions
<1>14. compared = {}
  <2>1. compared = ComparisonCodes(before, before, before.palette)
    BY <1>6, <1>12, <1>13
  <2>2. before.background = 0
    BY <1>6
  <2> HIDE DEF before, compared
  <2> QED
    BY <2>1, <2>2, UnchangedCompares
<1> QED
  BY <1>7, <1>8, <1>10, <1>11, <1>14 DEF DecodeRoundtrip

(* An accepted background has its one manifest.                            *)
LEMMA AcceptedBackgroundsAreWhole ==
    ASSUME NEW j \in Jobs, ValidateBackground(j.package) = {}
    PROVE  OneAcceptedManifest(j.package)
<1> DEFINE package == j.package
           safe == {n \in DOMAIN package : IsFile(package[n]) /\ Within(package[n])}
           images == Images(package, safe)
           manifests == Manifests(package, safe)
           image == CHOOSE n \in images : TRUE
           manifest == CHOOSE n \in manifests : TRUE
<1>1. /\ safe = DOMAIN package /\ safe = images \cup manifests
      /\ Cardinality(images) = 1 /\ Cardinality(manifests) = 1
      /\ PairCodes(package, image, manifest) = {}
  BY DEF ValidateBackground, Flag
<1>2. AcceptedManifest(package[manifest])
  BY <1>1 DEF PairCodes
<1>3. \A n \in DOMAIN package : Suffix(n) # "json"
  <2>1. \A n \in images : Folded(Suffix(n)) = "png"
    BY DEF Images
  <2>2. \A n \in manifests : Suffix(n) = "manifest"
    BY DEF Manifests
  <2> QED
    BY <1>1, <2>1, <2>2 DEF Folded
<1>4. PICK only : manifests = {only}
  <2>1. IsFiniteSet(safe)
    BY <1>1, PackagesOK
  <2>2. IsFiniteSet(manifests)
    BY <2>1, FS_Subset DEF Manifests
  <2> QED
    BY <1>1, <2>2, FS_Singleton
<1>5. /\ only \in DOMAIN package /\ Suffix(only) = "manifest" /\ manifest = only
      /\ \A m \in DOMAIN package : Suffix(m) = "manifest" => m = only
  BY <1>1, <1>4 DEF Manifests
<1> QED
  BY <1>2, <1>3, <1>5 DEF OneAcceptedManifest

(* For every package: if its target accepts it, the evidence build_bundle  *)
(* asks for, the roundtrip of a portrait or the manifest of a background,  *)
(* is there, so the approved package is never refused for want of it.      *)
THEOREM AcceptedPackagesHaveEvidence == Spec => []AcceptedHasEvidence
<1>1. ASSUME IBundle PROVE AcceptedHasEvidence
  <2> SUFFICES ASSUME NEW p \in Procs, outcome[p] = "evidence", compat[p] = "none",
                      IsAccepted(job[p])
               PROVE  FALSE
    BY DEF AcceptedHasEvidence, IsAccepted
  <2>1. /\ Refusal(job[p], job[p].package, "none") = "evidence"
        /\ job[p] \in Jobs
    BY <1>1 DEF IBundle, WorkFits, CallFits, TypeOK
  <2>2. EvidenceRefused(job[p], job[p].package, "none")
    BY <2>1 DEF Refusal
  <2>3. CASE job[p].target = "portrait"
    BY <2>1, <2>2, <2>3, AcceptedPortraitsDecode
    DEF EvidenceRefused, ExternalRefused, IsAccepted, Validate
  <2>4. CASE job[p].target # "portrait"
    BY <2>1, <2>2, <2>4, AcceptedBackgroundsAreWhole
    DEF EvidenceRefused, IsAccepted, Validate
  <2> QED
    BY <2>3, <2>4
<1> QED
  BY <1>1, BundleInvariance, PTL

-----------------------------------------------------------------------------
(* Changes that hide each other.                                           *)

(* A bundle that verifies clean is as its hashes say ...                   *)
LEMMA CleanIsDeclared ==
    ASSUME NEW bundle, VerifyBundle(bundle) = {}
    PROVE  LET declared == bundle[Root("hashes")].declared IN
           /\ RequiredFiles \subseteq DOMAIN bundle
           /\ DOMAIN declared \subseteq DOMAIN bundle
           /\ DOMAIN bundle \subseteq DOMAIN declared \cup {Root("hashes")}
           /\ \A n \in DOMAIN declared : declared[n] = bundle[n]
<1> DEFINE declared == bundle[Root("hashes")].declared
<1>1. HashCodes(bundle, declared) = {}
  BY CleanIsWhole
<1> HIDE DEF declared
<1>2. /\ DOMAIN declared \cup RequiredFiles \subseteq DOMAIN bundle
      /\ \A n \in DOMAIN declared \cap DOMAIN bundle : declared[n] = bundle[n]
      /\ DOMAIN bundle \subseteq DOMAIN declared \cup {Root("hashes")}
  BY <1>1 DEF HashCodes, Flag
<1> QED
  BY <1>2 DEF declared

(* ... and its documents can be read, and agree.                           *)
LEMMA CleanDocuments ==
    ASSUME NEW bundle, VerifyBundle(bundle) = {}
    PROVE  /\ HasManifest(bundle)
           /\ ReadsAs(bundle, Root("report"), "report")
           /\ ReadsAs(bundle, Root("lineage"), "lineage")
           /\ TrustsCompat(bundle)
           /\ CompatCodes(bundle) = {}
           /\ ConsistencyCodes(bundle, bundle[Root("hashes")].declared) = {}
<1>1. /\ bundle # Absent /\ ReadsAs(bundle, Root("hashes"), "hashes")
  BY CleanIsWhole DEF VerifyBundle
<1>2. /\ DocumentCodes(bundle, Root("manifest"), "manifest", "BUNDLE_INVALID_MANIFEST") = {}
      /\ DocumentCodes(bundle, Root("report"), "report", "BUNDLE_INVALID_REPORT") = {}
      /\ DocumentCodes(bundle, Root("lineage"), "lineage", "BUNDLE_INVALID_LINEAGE") = {}
      /\ CompatFormCodes(bundle) = {}
      /\ CompatCodes(bundle) = {}
      /\ ConsistencyCodes(bundle, bundle[Root("hashes")].declared) = {}
  BY <1>1 DEF VerifyBundle
<1>3. /\ HasManifest(bundle) /\ ReadsAs(bundle, Root("report"), "report")
      /\ ReadsAs(bundle, Root("lineage"), "lineage")
  BY <1>2 DEF DocumentCodes, HasManifest, ReadsAs, Flag
<1>4. TrustsCompat(bundle)
  BY <1>2, <1>3 DEF CompatFormCodes, Flag
<1> QED
  BY <1>2, <1>3, <1>4

(* The contents of its package are those its hashes declare.               *)
LEMMA CleanContents ==
    ASSUME NEW bundle, VerifyBundle(bundle) = {}
    PROVE  LET declared == bundle[Root("hashes")].declared IN
           {declared[n] : n \in {m \in DOMAIN declared \cap DOMAIN bundle : InPackage(m)}}
               = {bundle[n] : n \in {m \in DOMAIN bundle : InPackage(m)}}
<1> DEFINE declared == bundle[Root("hashes")].declared
<1>1. /\ DOMAIN declared \subseteq DOMAIN bundle
      /\ DOMAIN bundle \subseteq DOMAIN declared \cup {Root("hashes")}
      /\ \A n \in DOMAIN declared : declared[n] = bundle[n]
  BY CleanIsDeclared
<1>2. ~InPackage(Root("hashes"))
  BY DEF Root, InPackage, Stem
<1> HIDE DEF declared
<1>3. {m \in DOMAIN declared \cap DOMAIN bundle : InPackage(m)}
          = {m \in DOMAIN bundle : InPackage(m)}
  BY <1>1, <1>2
<1>4. \A n \in {m \in DOMAIN bundle : InPackage(m)} : declared[n] = bundle[n]
  BY <1>1, <1>2
<1>5. {declared[n] : n \in {m \in DOMAIN declared \cap DOMAIN bundle : InPackage(m)}}
          = {bundle[n] : n \in {m \in DOMAIN bundle : InPackage(m)}}
  BY <1>3, <1>4
<1> QED
  BY <1>5 DEF declared

(* What the report of a job shows of it. *)
IssuedReport(j) ==
    ReportOf(ManifestOf(j), Sanitized(ManifestOf(j)), LineageOf(j).nodes, j.package)

(* The nodes of a job have no output that is not in its package.           *)
LEMMA IssuedOutputs ==
    ASSUME NEW j
    PROVE  /\ IssuedReport(j).outputs = Contents(j.package)
           /\ \A package : OutputHashes(package, LineageOf(j).nodes)
                             = package \cup Contents(j.package)
<1> DEFINE node(a) == [asset |-> a, of |-> j, outputs |-> Contents(j.package)]
<1>1. LineageOf(j).nodes = {node(a) : a \in {"candidate", "export"}}
  BY DEF LineageOf
<1>2. UNION {n.outputs : n \in LineageOf(j).nodes} = Contents(j.package)
  <2>1. \A a : node(a).outputs = Contents(j.package)
    OBVIOUS
  <2> HIDE DEF node
  <2>2. {n.outputs : n \in LineageOf(j).nodes} = {Contents(j.package)}
    BY <1>1, <2>1
  <2> QED
    BY <2>2
<1>3. \A package : OutputHashes(package, LineageOf(j).nodes) = package \cup Contents(j.package)
  BY <1>2 DEF OutputHashes
<1> QED
  BY <1>3 DEF IssuedReport, ReportOf

(* However often a bundle was changed, as long as it verifies clean and    *)
(* still has the report build_bundle wrote for a job: its manifest is the  *)
(* one the report has the hash of, its lineage has the nodes the report    *)
(* lists, and each of its package files has the content of some file of    *)
(* the job's package.                                                      *)
THEOREM ReportSealsBundle ==
    ASSUME NEW j \in Jobs, NEW bundle, VerifyBundle(bundle) = {},
           bundle[Root("report")] = IssuedReport(j)
    PROVE  /\ bundle[Root("manifest")] = ManifestOf(j)
           /\ bundle[Root("lineage")].nodes = LineageOf(j).nodes
           /\ \A n \in DOMAIN bundle : InPackage(n) => bundle[n] \in Contents(j.package)
<1> DEFINE report   == bundle[Root("report")]
           lineage  == bundle[Root("lineage")]
           declared == bundle[Root("hashes")].declared
           packed   == {declared[n] : n \in {m \in DOMAIN declared \cap DOMAIN bundle : InPackage(m)}}
<1>1. /\ ManifestHashCodes(bundle, report) = {}
      /\ report.history = lineage.nodes
      /\ report.outputs = OutputHashes(packed, lineage.nodes)
  <2>1. /\ HasManifest(bundle) /\ ReadsAs(bundle, Root("report"), "report")
        /\ ReadsAs(bundle, Root("lineage"), "lineage")
        /\ ConsistencyCodes(bundle, declared) = {}
    BY CleanDocuments
  <2>2. /\ ManifestHashCodes(bundle, report) = {}
        /\ Flag("BUNDLE_INCONSISTENT_LINEAGE", report.history # lineage.nodes) = {}
        /\ Flag("BUNDLE_INCONSISTENT_OUTPUT_HASHES",
                report.outputs # OutputHashes(packed, lineage.nodes)) = {}
    BY <2>1 DEF ConsistencyCodes
  <2> QED
    BY <2>2 DEF Flag
<1>2. /\ report.manifestHash = ManifestOf(j) /\ report.history = LineageOf(j).nodes
  BY DEF IssuedReport, ReportOf
<1>3. bundle[Root("manifest")] = ManifestOf(j)
  BY <1>1, <1>2 DEF ManifestHashCodes, Flag
<1>4. Contents(j.package) = packed \cup Contents(j.package)
  <2>1. report.outputs = Contents(j.package)
    BY IssuedOutputs
  <2>2. OutputHashes(packed, lineage.nodes) = OutputHashes(packed, LineageOf(j).nodes)
    BY <1>1, <1>2
  <2> HIDE DEF packed
  <2>3. OutputHashes(packed, LineageOf(j).nodes) = packed \cup Contents(j.package)
    BY IssuedOutputs
  <2> QED
    BY <1>1, <2>1, <2>2, <2>3
<1>5. packed = {bundle[n] : n \in {m \in DOMAIN bundle : InPackage(m)}}
  BY CleanContents
<1> HIDE DEF packed
<1> QED
  BY <1>1, <1>2, <1>3, <1>4, <1>5

(* A set of two elements at most has no third.                             *)
LEMMA TwoAreAll ==
    ASSUME NEW S, IsFiniteSet(S), Cardinality(S) <= 2,
           NEW a \in S, NEW b \in S, a # b
    PROVE  S = {a, b}
<1>1. /\ IsFiniteSet(S \ {a}) /\ Cardinality(S \ {a}) = Cardinality(S) - 1
      /\ Cardinality(S) \in Nat
  BY FS_RemoveElement, FS_CardinalityType
<1> DEFINE rest == (S \ {a}) \ {b}
<1>2. /\ IsFiniteSet(rest) /\ Cardinality(rest) = Cardinality(S) - 2
      /\ Cardinality(rest) \in Nat
  <2>1. b \in S \ {a}
    OBVIOUS
  <2>2. IsFiniteSet(rest) /\ Cardinality(rest) = Cardinality(S \ {a}) - 1
    BY <1>1, <2>1, FS_RemoveElement
  <2>3. Cardinality(rest) \in Nat
    BY <2>2, FS_CardinalityType
  <2> QED
    BY <1>1, <2>2, <2>3
<1>3. Cardinality(rest) = 0
  BY <1>1, <1>2
<1>4. rest = {}
  BY <1>2, <1>3, FS_EmptySet
<1> QED
  BY <1>4

(* A portrait package that is accepted and has no file named PNG is its    *)
(* sheet and the palette beside it.                                        *)
NoOtherPictures(j) ==
    j.target = "portrait" => \A n \in DOMAIN j.package : Suffix(n) # "PNG"

LEMMA PortraitsAreTwoFiles ==
    ASSUME NEW package, IsFiniteSet(DOMAIN package),
           \A n \in DOMAIN package : Stem(n) \in Nat,
           ValidatePortrait(package) = {}, SafeTree(package, "portrait"),
           \A n \in DOMAIN package : Suffix(n) # "PNG"
    PROVE  LET sheet == FirstSheet(package)
               own   == FirstMatching(package, sheet)
           IN  /\ DOMAIN package = {sheet, own} /\ sheet # own
               /\ Suffix(sheet) = "png" /\ Stem(own) = Stem(sheet)
               /\ Suffix(own) # "png" /\ Folded(Suffix(own)) = "pal"
               /\ package[sheet].kind = "png" /\ package[own].kind = "pal"
<1> DEFINE sheet == FirstSheet(package)
           own   == FirstMatching(package, sheet)
<1>1. /\ HasCanonicalPaths(package) /\ sheet \in DOMAIN package
      /\ IsPng(package[sheet]) /\ ReadsAsJasc(package[own])
  BY AcceptedSheets DEF CanonicalSheet, CanonicalPalette
<1>2. /\ IsFiniteSet(Sheets(package)) /\ IsFiniteSet(Matching(package, sheet))
      /\ Cardinality(Sheets(package)) = 1 /\ Cardinality(Matching(package, sheet)) = 1
  BY <1>1, FS_Subset DEF Sheets, Matching, Sidecars, HasCanonicalPaths
<1>3. Sheets(package) = {sheet}
  <2>1. PICK n : Sheets(package) = {n}
    BY <1>2, FS_Singleton
  <2>2. n \in DOMAIN package
    BY <2>1 DEF Sheets
  <2> QED
    BY <2>1, <2>2 DEF FirstSheet
<1>4. Matching(package, sheet) = {own}
  <2>1. PICK n : Matching(package, sheet) = {n}
    BY <1>2, FS_Singleton
  <2>2. <<Stem(n), "PAL">> = n => Suffix(n) = "PAL"
    BY DEF Suffix
  <2>3. Stem(n) = Stem(sheet)
    BY <2>1 DEF Matching
  <2> HIDE DEF sheet
  <2>4. FirstMatching(package, sheet) = n
    BY <2>1, <2>2 DEF FirstMatching
  <2> QED
    BY <2>1, <2>4
<1>5. Sidecars(package) = Matching(package, sheet)
  <2>1. SheetCodes(package, sheet) = {}
    BY DEF ValidatePortrait
  <2>2. SidecarCodes(package, sheet) = {}
    BY <2>1 DEF SheetCodes
  <2> QED
    BY <2>2 DEF SidecarCodes, Flag
<1> HIDE DEF sheet, own
<1>6. /\ sheet \in DOMAIN package /\ own \in DOMAIN package
      /\ Suffix(sheet) = "png" /\ Stem(own) = Stem(sheet) /\ Folded(Suffix(own)) = "pal"
  BY <1>3, <1>4 DEF Sheets, Matching, Sidecars
<1>7. Suffix(own) # "png" /\ sheet # own
  BY <1>6 DEF Folded
<1>8. ASSUME NEW n \in DOMAIN package
      PROVE  n \in {sheet, own}
  <2>1. Folded(Suffix(n)) \in {"png", "pal"} /\ package[n].kind # "dir" /\ Suffix(n) # "PNG"
    BY DEF SafeTree, SuffixesOf
  <2>2. CASE Folded(Suffix(n)) = "png"
    <3>1. Suffix(n) = "png"
      BY <2>1, <2>2 DEF Folded
    <3> QED
      BY <1>3, <3>1 DEF Sheets
  <2>3. CASE Folded(Suffix(n)) = "pal"
    BY <1>4, <1>5, <2>1, <2>3 DEF Sidecars, IsFile
  <2> QED
    BY <2>1, <2>2, <2>3
<1>9. package[sheet].kind = "png" /\ package[own].kind = "pal"
  BY <1>1 DEF IsPng, ReadsAsJasc
<1> QED
  BY <1>6, <1>7, <1>8, <1>9 DEF sheet, own

(* Another package of these two files decodes canonically only with the    *)
(* picture as its sheet and the palette beside it.                         *)
LEMMA RolesDecode ==
    ASSUME NEW package, NEW sheet, NEW own, sheet # own, Stem(sheet) \in Nat,
           DOMAIN package \subseteq {sheet, own},
           Suffix(sheet) = "png", Stem(own) = Stem(sheet),
           Suffix(own) # "png", Folded(Suffix(own)) = "pal",
           DecodesCanonically(package)
    PROVE  /\ sheet \in DOMAIN package /\ package[sheet].kind = "png"
           /\ own \in DOMAIN package /\ package[own].kind = "pal"
<1>0. /\ Cardinality(Sheets(package)) = 1
      /\ Cardinality(Matching(package, FirstSheet(package))) = 1
      /\ Decodes(CanonicalSheet(package)) /\ ReadsAsJasc(CanonicalPalette(package))
  BY DEF DecodesCanonically, HasCanonicalPaths
<1>1. \A S : Cardinality(S) = 1 => S # {}
  BY FS_EmptySet
<1>2. Sheets(package) = {sheet} /\ sheet \in DOMAIN package
  <2>1. Sheets(package) \subseteq {sheet}
    BY DEF Sheets
  <2>2. Sheets(package) # {}
    BY <1>0, <1>1
  <2> QED
    BY <2>1, <2>2 DEF Sheets
<1>3. FirstSheet(package) = sheet
  BY <1>2 DEF FirstSheet
<1>4. Matching(package, sheet) = {own} /\ own \in DOMAIN package
  <2>1. Folded(Suffix(sheet)) # "pal"
    BY DEF Folded
  <2>2. Sidecars(package) \subseteq {own}
    BY <2>1 DEF Sidecars
  <2>3. Matching(package, sheet) \subseteq {own}
    BY <2>2 DEF Matching
  <2>4. Matching(package, sheet) # {}
    BY <1>0, <1>1, <1>3
  <2>5. Matching(package, sheet) \subseteq DOMAIN package
    BY DEF Matching, Sidecars
  <2> QED
    BY <2>3, <2>4, <2>5
<1>5. FirstMatching(package, sheet) = own
  <2>1. <<Stem(own), "PAL">> = own => Suffix(own) = "PAL"
    BY DEF Suffix
  <2> QED
    BY <1>4, <2>1 DEF FirstMatching
<1> QED
  BY <1>0, <1>2, <1>3, <1>4, <1>5
  DEF CanonicalSheet, CanonicalPalette, Decodes, IsPng, ReadsAsJasc

(* So the evidence of a roundtrip tells when a file of the package it was  *)
(* run on was lost or got the content of the other.                        *)
LEMMA EvidenceSealsPortrait ==
    ASSUME NEW j \in Jobs, DecodeRoundtrip(j.package).ok, SafeTree(j.package, "portrait"),
           \A n \in DOMAIN j.package : Suffix(n) # "PNG",
           NEW package, NEW x \in DOMAIN j.package,
           DOMAIN package \ {x} = DOMAIN j.package \ {x},
           \A n \in DOMAIN j.package \ {x} : package[n] = j.package[n],
           x \in DOMAIN package => package[x] \in Contents(j.package),
           PackageDigest(package) = DecodeRoundtrip(j.package).before
    PROVE  x \in DOMAIN package /\ package[x] = j.package[x]
<1>1. /\ SelfConsistent(DecodeRoundtrip(j.package))
      /\ ValidatePortrait(j.package) = {}
  <2>1. \A codes, b, a : ~Failure(codes, b, a).ok
    BY DEF Failure
  <2> QED
    BY <2>1, RoundtripsAreEvidence DEF DecodeRoundtrip
<1>2. PackageDigest(package).dims = SheetCells
  BY <1>1 DEF SelfConsistent
<1>3. DecodesCanonically(package)
  <2>1. NoDescription.dims = {} /\ SheetCells # {}
    BY ZonesAreOnTheSheet DEF NoDescription
  <2> QED
    BY <1>2, <2>1 DEF PackageDigest
<1>4. PICK sheet : sheet = FirstSheet(j.package) OBVIOUS
<1>5. PICK own : own = FirstMatching(j.package, sheet) OBVIOUS
<1>6. /\ DOMAIN j.package = {sheet, own} /\ sheet # own
      /\ Suffix(sheet) = "png" /\ Stem(own) = Stem(sheet)
      /\ Suffix(own) # "png" /\ Folded(Suffix(own)) = "pal"
      /\ j.package[sheet].kind = "png" /\ j.package[own].kind = "pal"
  BY <1>1, <1>4, <1>5, PackagesOK, PortraitsAreTwoFiles
<1>7. DOMAIN package \subseteq {sheet, own} /\ Stem(sheet) \in Nat
  BY <1>6, PackagesOK
<1>8. /\ sheet \in DOMAIN package /\ package[sheet].kind = "png"
      /\ own \in DOMAIN package /\ package[own].kind = "pal"
  BY <1>3, <1>6, <1>7, RolesDecode
<1>9. package[x] \in {j.package[sheet], j.package[own]} /\ x \in {sheet, own}
  BY <1>6, <1>8 DEF Contents
<1> QED
  BY <1>6, <1>8, <1>9

(* What a changed bundle still has, if it verifies clean and differs from  *)
(* the published one in two files at most.                                 *)
LEMMA TwoChangesShow ==
    ASSUME NEW j \in Jobs, NEW external \in Externals,
           Refusal(j, j.package, external) = "none", NoOtherPictures(j),
           NEW bundle, VerifyBundle(bundle) = {}, DocumentsFit(bundle),
           IsFiniteSet(Changed(bundle, Built(j, external))),
           Cardinality(Changed(bundle, Built(j, external))) <= 2,
           NEW n \in Bound(Built(j, external))
    PROVE  n \in DOMAIN bundle /\ bundle[n] = Built(j, external)[n]
<1>1. PICK built : built = Built(j, external) OBVIOUS
<1>2. /\ built[Root("manifest")] = Sanitized(ManifestOf(j))
      /\ built[Root("lineage")] = LineageOf(j)
      /\ built[Root("compat")] = CompatOf(j, j.package, external)
      /\ built[Root("report")] = IssuedReport(j)
      /\ built[Root("hashes")] = HashesOf(built)
      /\ RequiredFiles \subseteq DOMAIN built
  BY <1>1, RootFiles DEF IssuedReport
<1>3. /\ PackageOf(built) = j.package
      /\ DOMAIN built = DOMAIN j.package \cup RequiredFiles
      /\ \A m \in DOMAIN j.package : InPackage(m) /\ m \notin RequiredFiles
      /\ \A m \in DOMAIN j.package : built[m] = j.package[m]
  BY <1>1, PackageIsInside
<1>4. /\ {Root("manifest"), Root("lineage"), Root("compat"), Root("report"), Root("hashes")}
            = RequiredFiles
      /\ \A m \in RequiredFiles : ~InPackage(m)
      /\ \A a, b : Root(a) = Root(b) <=> a = b
  BY DEF RequiredFiles, Root, InPackage, Stem
<1>5. n \in {Root("manifest"), Root("lineage")} \/ n \in DOMAIN j.package
  BY <1>1, <1>3, <1>4 DEF Bound
<1>6. n \in DOMAIN built
  BY <1>2, <1>3, <1>4, <1>5
<1> DEFINE changed == Changed(bundle, built)
<1> SUFFICES ASSUME n \in changed PROVE FALSE
  BY <1>1, <1>6 DEF Changed
<1>c. ~(n \in DOMAIN bundle /\ bundle[n] = built[n])
  BY <1>6 DEF Changed
<1>7. RequiredFiles \subseteq DOMAIN bundle
  BY CleanIsDeclared
<1>8. Root("hashes") \in changed
  <2> SUFFICES ASSUME bundle[Root("hashes")] = built[Root("hashes")]
               PROVE  FALSE
    BY <1>2, <1>4, <1>7 DEF Changed
  <2>1. HashesOf(built) = HashesOf(bundle)
    BY <1>2, CleanHashesAreOwn
  <2> DEFINE files(b) == [m \in DOMAIN b \ {Root("hashes")} |-> b[m]]
  <2>2. files(built) = files(bundle)
    BY <2>1 DEF HashesOf
  <2>3. DOMAIN files(built) = DOMAIN built \ {Root("hashes")}
        /\ DOMAIN files(bundle) = DOMAIN bundle \ {Root("hashes")}
    OBVIOUS
  <2>4. n # Root("hashes")
    BY <1>3, <1>4, <1>5
  <2>5. n \in DOMAIN bundle /\ files(built)[n] = built[n] /\ files(bundle)[n] = bundle[n]
    BY <1>6, <2>2, <2>3, <2>4
  <2> QED
    BY <1>6, <2>2, <2>5 DEF Changed
<1>9. changed = {Root("hashes"), n}
  <2>1. n # Root("hashes")
    BY <1>3, <1>4, <1>5
  <2> QED
    BY <1>1, <1>8, <2>1, TwoAreAll
<1>10. \A m : m \notin {Root("hashes"), n} =>
          /\ m \in DOMAIN bundle <=> m \in DOMAIN built
          /\ m \in DOMAIN built => bundle[m] = built[m]
  BY <1>9 DEF Changed
<1>11. /\ bundle[Root("report")] = IssuedReport(j)
       /\ bundle[Root("compat")] = CompatOf(j, j.package, external)
  BY <1>2, <1>3, <1>4, <1>5, <1>10
<1>12. /\ bundle[Root("manifest")] = ManifestOf(j)
       /\ bundle[Root("lineage")].nodes = LineageOf(j).nodes
       /\ \A m \in DOMAIN bundle : InPackage(m) => bundle[m] \in Contents(j.package)
  BY <1>11, ReportSealsBundle
<1>13. /\ HasManifest(bundle) /\ ReadsAs(bundle, Root("lineage"), "lineage")
       /\ TrustsCompat(bundle) /\ CompatCodes(bundle) = {}
  BY CleanDocuments
<1> HIDE DEF changed
<1>14. CASE n = Root("manifest")
  <2>1. PICK k \in Jobs \cup Handled : ManifestOf(j) = Sanitized(ManifestOf(k))
    BY <1>12, <1>13 DEF DocumentsFit
  <2>2. ManifestOf(j).unredacted = FALSE
    BY <2>1 DEF Sanitized, ManifestOf
  <2>3. Sanitized(ManifestOf(j)) = ManifestOf(j)
    BY <2>2 DEF Sanitized, ManifestOf
  <2>4. n \in DOMAIN bundle /\ bundle[n] = built[n]
    BY <1>2, <1>4, <1>7, <1>12, <1>14, <2>3
  <2> QED
    BY <1>c, <2>4
<1>15. CASE n = Root("lineage")
  <2>1. PICK k \in Jobs \cup Handled : bundle[Root("lineage")] = LineageOf(k)
    BY <1>13 DEF DocumentsFit
  <2>2. LineageOf(k).nodes = LineageOf(j).nodes
    BY <1>12, <2>1
  <2>3. LineageOf(k) = LineageOf(j)
    <3>1. \A i : LineageOf(i) = [kind |-> "lineage", nodes |-> LineageOf(i).nodes]
      BY DEF LineageOf
    <3> QED
      BY <2>2, <3>1
  <2>4. n \in DOMAIN bundle /\ bundle[n] = built[n]
    BY <1>2, <1>4, <1>7, <1>15, <2>1, <2>3
  <2> QED
    BY <1>c, <2>4
<1>16. CASE n \in DOMAIN j.package
  <2>1. PICK package : package = PackageOf(bundle) OBVIOUS
  <2>2. /\ DOMAIN package = {m \in DOMAIN bundle : InPackage(m)}
        /\ \A m \in DOMAIN package : package[m] = bundle[m]
    BY <2>1 DEF PackageOf
  <2>3. IsPortrait(bundle) <=> j.target = "portrait"
    BY <1>12 DEF IsPortrait, ManifestOf
  <2>4. ~EvidenceRefused(j, j.package, external) /\ SafeTree(j.package, j.target)
    BY DEF Refusal
  <2>5. CASE j.target # "portrait"
    <3>1. bundle[Root("compat")].digests = j.package
      BY <1>11, <2>5 DEF CompatOf, BackgroundCompat
    <3>2. bundle[Root("compat")].digests = PackageOf(bundle)
      BY <1>13, <2>3, <2>5 DEF CompatCodes, BackgroundCompatCodes, Flag
    <3>3. package = j.package
      BY <2>1, <3>1, <3>2
    <3>4. n \in DOMAIN bundle /\ bundle[n] = built[n]
      BY <1>3, <1>16, <2>2, <3>3
    <3> QED
      BY <1>c, <3>4
  <2>6. CASE j.target = "portrait"
    <3>1. /\ bundle[Root("compat")].evidence = DecodeRoundtrip(j.package)
          /\ DecodeRoundtrip(j.package).ok
      BY <1>11, <2>4, <2>6 DEF CompatOf, PortraitCompat, EvidenceRefused
    <3>2. PackageDigest(package) = DecodeRoundtrip(j.package).before
      BY <1>13, <2>1, <2>3, <2>6, <3>1 DEF CompatCodes, PortraitCompatCodes, Flag
    <3>3. /\ DOMAIN package \ {n} = DOMAIN j.package \ {n}
          /\ \A m \in DOMAIN j.package \ {n} : package[m] = j.package[m]
      <4>1. \A m : InPackage(m) /\ m # n => m \notin {Root("hashes"), n}
        BY <1>4
      <4>2. DOMAIN j.package = {m \in DOMAIN built : InPackage(m)}
        BY <1>3, <1>4
      <4>3. ASSUME NEW m, m # n
            PROVE  /\ m \in DOMAIN package <=> m \in DOMAIN j.package
                   /\ m \in DOMAIN package => package[m] = j.package[m]
        BY <1>3, <1>10, <2>2, <4>1, <4>2, <4>3
      <4> QED
        BY <4>3
    <3>4. n \in DOMAIN package => package[n] \in Contents(j.package)
      BY <1>12, <2>2
    <3>5. SafeTree(j.package, "portrait") /\ \A m \in DOMAIN j.package : Suffix(m) # "PNG"
      BY <2>4, <2>6 DEF NoOtherPictures
    <3>6. n \in DOMAIN package /\ package[n] = j.package[n]
      BY <1>16, <3>1, <3>2, <3>3, <3>4, <3>5, EvidenceSealsPortrait
    <3>7. n \in DOMAIN bundle /\ bundle[n] = built[n]
      BY <1>3, <1>16, <2>2, <3>6
    <3> QED
      BY <1>c, <3>7
  <2> QED
    BY <2>5, <2>6
<1> QED
  BY <1>5, <1>14, <1>15, <1>16

(* Two changes to a published bundle, of a file and of a document computed *)
(* from it or whichever else, do not hide each other: if verify_bundle has *)
(* nothing to report, the manifest, the lineage and the package are those  *)
(* that were published.  A portrait package that is passed around must not *)
(* have a file named *.PNG: build_bundle takes it, and the roundtrip looks *)
(* for *.png and leaves it out of the evidence, so that its loss is hidden *)
(* by new hashes.                                                          *)
THEOREM TwoChangesAreFound ==
    ASSUME \A j \in Handled : NoOtherPictures(j)
    PROVE  Spec => []CleanMeansPublished
<1>1. ASSUME IBundle PROVE CleanMeansPublished
  <2> SUFFICES ASSUME edits <= 2, NEW d \in Destinations, issued[d] # Absent,
                      VerifyBundle(out[d]) = {}, NEW n \in Bound(issued[d])
               PROVE  n \in DOMAIN out[d] /\ out[d][n] = issued[d][n]
    BY DEF CleanMeansPublished
  <2>1. PublicationFits(d) /\ ChangesFit(d) /\ edits \in Nat
    BY <1>1, BundleConstantsOK DEF IBundle, TypeOK
  <2>2. origin[d] \in Jobs
    BY <1>1, <2>1 DEF IBundle, TypeOK, PublicationFits
  <2>3. PICK j : j = origin[d] OBVIOUS
  <2>4. PICK external \in Externals :
           /\ Refusal(j, j.package, external) = "none"
           /\ issued[d] = Built(j, external)
    BY <2>1, <2>2, <2>3, BundleConstantsOK DEF PublicationFits
  <2>5. CASE out[d] = issued[d]
    <3>1. n \in DOMAIN issued[d]
      <4>1. DOMAIN issued[d] = DOMAIN j.package \cup RequiredFiles
        BY <2>2, <2>3, <2>4, PackageIsInside
      <4> QED
        BY <4>1 DEF Bound, RequiredFiles
    <3> QED
      BY <2>5, <3>1
  <2>6. CASE j \in Handled
    <3>1. PICK bundle : bundle = out[d] OBVIOUS
    <3>2. /\ IsFiniteSet(Changed(bundle, Built(j, external)))
          /\ Cardinality(Changed(bundle, Built(j, external))) <= edits
          /\ DocumentsFit(bundle)
      BY <2>1, <2>4, <3>1 DEF ChangesFit
    <3>3. Cardinality(Changed(bundle, Built(j, external))) <= 2
      <4>1. Cardinality(Changed(bundle, Built(j, external))) \in Nat
        BY <3>2, FS_CardinalityType
      <4> QED
        BY <2>1, <3>2, <4>1
    <3>4. VerifyBundle(bundle) = {} /\ n \in Bound(Built(j, external))
      BY <2>4, <3>1
    <3>5. j \in Jobs /\ NoOtherPictures(j)
      BY <2>2, <2>3, <2>6
    <3>6. n \in DOMAIN bundle /\ bundle[n] = Built(j, external)[n]
      BY <2>4, <3>2, <3>3, <3>4, <3>5, TwoChangesShow
    <3> QED
      BY <2>4, <3>1, <3>6
  <2> QED
    BY <2>1, <2>3, <2>5, <2>6 DEF ChangesFit
<1> QED
  BY <1>1, BundleInvariance, PTL
=============================================================================
