-------------------------------- MODULE Bundle --------------------------------
(***************************************************************************)
(* From an approved candidate to a reproducibility bundle, and back: the   *)
(* finalization of a candidate package, the assembly and publication of a  *)
(* bundle by several callers, and the verification of a bundle whose files *)
(* may have been lost, spoilt or mixed up since.                           *)
(*                                                                         *)
(* A bundle is a function from file names to contents, as a package is;    *)
(* the files at its root have the stem 0 and those of its package the      *)
(* stems of the package.  A digest is the content it is the digest of.     *)
(***************************************************************************)
EXTENDS BackgroundPackage

CONSTANTS
    Procs, Nobody,   (* callers, and the holder of a free lock               *)
    Shared,          (* the destination of direct calls of build_bundle      *)
    Jobs, NoJob,     (* the approved jobs and what they publish, and none    *)
    Assignments,     (* which of them the callers take, or none              *)
    Calls,           (* "finalize" and "build"                               *)
    Handled,         (* jobs whose bundle is passed around after publication *)
    MaxFiles,        (* files a bundle may take from its workspace: 64       *)
    FaultKinds, MaxFaults,
    MaxEdits         (* bound on the changes to a published bundle           *)

ASSUME BundleConstantsOK ==
    /\ Nobody \notin Procs /\ Shared \notin Procs
    /\ NoJob \notin Jobs \cup Handled /\ Assignments \subseteq [Procs -> Jobs \cup {NoJob}]
    /\ Calls \subseteq {"finalize", "build"}
    /\ FaultKinds \subseteq {"write", "sync", "crash", "touch"}
    /\ MaxFiles \in Nat /\ MaxFaults \in Nat /\ MaxEdits \in Nat

VARIABLES
    candidate,         (* the package each caller finds in candidate/        *)
    out,               (* the bundle at each destination                     *)
    origin, issued,    (* the job it was published for, and how              *)
    lock,              (* the path lock of each destination                  *)
    pc, call, job,     (* what each caller does                              *)
    work, todo,        (* its staged package, and the files left to copy     *)
    compat, stage,     (* its evidence and its staging directory             *)
    outcome,           (* how its call ended                                 *)
    edits, faults

vars == <<candidate, out, origin, issued, lock, pc, call, job, work, todo, compat,
          stage, outcome, edits, faults>>

Absent == <<>>    (* no file at all: the function with an empty domain *)
Destinations == Procs \cup {Shared}
DestinationOf(p) == IF call[p] = "finalize" THEN p ELSE Shared

-----------------------------------------------------------------------------
(* The documents of a bundle.                                              *)
Root(name)     == <<0, name>>
InPackage(name) == Stem(name) > 0
PackageOf(bundle) == [n \in {m \in DOMAIN bundle : InPackage(m)} |-> bundle[n]]

(* A package is a finite function of files below the root of a bundle, and *)
(* its sheets are pictures.                                                *)
ASSUME PackagesOK ==
    \A j \in Jobs :
        /\ IsFiniteSet(DOMAIN j.package)
        /\ j.package = PackageOf(j.package)
        /\ \A n \in DOMAIN j.package :
             /\ Stem(n) \in Nat
             /\ IsPng(j.package[n]) => /\ j.package[n].pixels \in DOMAIN Picture
                                      /\ Len(j.package[n].palette) \in Nat
Contents(files) == {files[n] : n \in DOMAIN files}

ManifestOf(j) ==
    [kind |-> "manifest", job |-> j, target |-> j.target,
     unredacted |-> j.redactable]
Sanitized(manifest) == [manifest EXCEPT !.unredacted = FALSE]

LineageOf(j) ==
    [kind |-> "lineage",
     nodes |-> {[asset |-> a, of |-> j, outputs |-> Contents(j.package)]
                   : a \in {"candidate", "export"}}]

OutputHashes(digests, nodes) == digests \cup UNION {node.outputs : node \in nodes}

(* The report shows the redacted manifest and hashes the job's own. *)
ReportOf(hashed, shown, nodes, package) ==
    [kind |-> "report", manifestHash |-> hashed, shown |-> shown, history |-> nodes,
     outputs |-> OutputHashes(Contents(package), nodes)]

HashesOf(files) ==
    [kind |-> "hashes",
     declared |-> [n \in DOMAIN files \ {Root("hashes")} |-> files[n]]]

-----------------------------------------------------------------------------
(* Compatibility evidence.                                                 *)
Externals == {"none", "empty", "unsafe", "failed", "passed"}
ExternalStatus(external) == IF external = "none" THEN "not_run" ELSE external

PortraitCompat(package, external) ==
    [kind |-> "compat", evidence |-> DecodeRoundtrip(package),
     status |-> ExternalStatus(external), exit |-> ExternalStatus(external) = "passed",
     validatedByCli |-> ExternalStatus(external) = "passed"]

BackgroundCompat(package) ==
    [kind |-> "sourceCompat", digests |-> package, adapter |-> "not_run",
     profile |-> package[CHOOSE n \in DOMAIN package : Suffix(n) = "manifest"].profile]

CompatOf(j, package, external) ==
    IF j.target = "portrait" THEN PortraitCompat(package, external)
    ELSE BackgroundCompat(package)

(* What build_bundle refuses before it takes the lock, in its order.       *)
SuffixesOf(target) == IF target = "portrait" THEN {"png", "pal"}
                    ELSE {"png", "manifest", "json"}

(* A directory inside does not get here: the copy of the candidate raises. *)
SafeTree(package, target) ==
    /\ package # Absent
    /\ \A n \in DOMAIN package : package[n].kind \notin {"link", "dir"}
    /\ \A n \in DOMAIN package : Folded(Suffix(n)) \in SuffixesOf(target)

ExternalRefused(external) == external \in {"empty", "unsafe", "failed"}

OneAcceptedManifest(package) ==
    /\ \A n \in DOMAIN package : Suffix(n) # "json"
    /\ \E n \in DOMAIN package :
         /\ Suffix(n) = "manifest" /\ AcceptedManifest(package[n])
         /\ \A m \in DOMAIN package : Suffix(m) = "manifest" => m = n

EvidenceRefused(j, package, external) ==
    IF j.target = "portrait"
    THEN ExternalRefused(external) \/ ~DecodeRoundtrip(package).ok
    ELSE external # "none" \/ ~OneAcceptedManifest(package)

Refusal(j, package, external) ==
    IF j.secret THEN "secret"
    ELSE IF ~SafeTree(package, j.target) THEN "tree"
    ELSE IF j.lineage # "good" \/ j.report = "unreadable" THEN "documents"
    ELSE IF EvidenceRefused(j, package, external) THEN "evidence"
    ELSE IF Cardinality(DOMAIN package) + 2 > MaxFiles THEN "limits"
    ELSE "none"

(* The whole bundle of a job, as its publication leaves it. *)
Sources(j, package, external) ==
    [n \in DOMAIN package \cup {Root("manifest"), Root("lineage"), Root("compat")} |->
        IF InPackage(n) THEN package[n]
        ELSE IF n = Root("manifest") THEN Sanitized(ManifestOf(j))
        ELSE IF n = Root("lineage") THEN LineageOf(j)
        ELSE CompatOf(j, package, external)]

With(files, name, content) ==
    [n \in DOMAIN files \cup {name} |-> IF n = name THEN content ELSE files[n]]
Without(files, name) == [n \in DOMAIN files \ {name} |-> files[n]]

WithReport(hashed, files) ==
    With(files, Root("report"),
         ReportOf(hashed, files[Root("manifest")], files[Root("lineage")].nodes, PackageOf(files)))
WithHashes(files) == With(files, Root("hashes"), HashesOf(files))

BundleOf(j) ==
    WithHashes(WithReport(ManifestOf(j), Sources(j, j.package, "none")))
Bundles == [j \in Handled |-> BundleOf(j)]

-----------------------------------------------------------------------------
(* Verification: the set of codes verify_bundle reports.                   *)
ReadsAs(bundle, name, kind) == name \in DOMAIN bundle /\ bundle[name].kind = kind

DocumentCodes(bundle, name, kind, code) ==
    IF name \notin DOMAIN bundle THEN {"BUNDLE_MISSING_FILE"}
    ELSE Flag(code, bundle[name].kind # kind)

HasManifest(bundle) == ReadsAs(bundle, Root("manifest"), "manifest")
IsPortrait(bundle)  == bundle[Root("manifest")].target = "portrait"

ParsesExternal(evidence) ==
    /\ evidence.status = "passed" => evidence.exit
    /\ evidence.status \in {"not_run", "failed"} => ~evidence.exit

SelfConsistent(evidence) ==
    evidence.ok =>
        /\ evidence.codes = {}
        /\ evidence.before.dims = SheetCells
        /\ evidence.before.colors \in 1 .. MaxColors
        /\ evidence.before.background \in 0 .. evidence.before.colors - 1
        /\ evidence.before.pixels = evidence.after.pixels
        /\ evidence.before.palette = evidence.after.palette

(* Is there evidence in the form the manifest's target asks for? *)
TrustsCompat(bundle) ==
    IF IsPortrait(bundle)
    THEN /\ ReadsAs(bundle, Root("compat"), "compat")
         /\ ParsesExternal(bundle[Root("compat")])
         /\ bundle[Root("compat")].validatedByCli = (bundle[Root("compat")].status = "passed")
         /\ SelfConsistent(bundle[Root("compat")].evidence)
    ELSE /\ ReadsAs(bundle, Root("compat"), "sourceCompat")
         /\ bundle[Root("compat")].digests # Absent
         /\ bundle[Root("compat")].adapter # "not_run" => bundle[Root("compat")].profile # "none"

CompatFormCodes(bundle) ==
    IF ~HasManifest(bundle) THEN {}
    ELSE IF Root("compat") \notin DOMAIN bundle THEN {"BUNDLE_MISSING_FILE"}
    ELSE Flag("BUNDLE_INVALID_COMPAT", ~TrustsCompat(bundle))

PortraitCompatCodes(bundle, evidence) ==
    LET roundtrip == evidence.evidence IN
    Flag("BUNDLE_COMPAT_FAILURE", ~roundtrip.ok)
        \cup Flag("BUNDLE_COMPAT_EVIDENCE_MISMATCH",
                  roundtrip.ok /\ roundtrip.before # PackageDigest(PackageOf(bundle)))
        \cup Flag("BUNDLE_EXTERNAL_CLI_FAILURE", evidence.status = "failed")

BackgroundCompatCodes(bundle, evidence) ==
    Flag("BUNDLE_COMPAT_EVIDENCE_MISMATCH", evidence.digests # PackageOf(bundle))
        \cup Flag("BUNDLE_EXTERNAL_ADAPTER_FAILURE", evidence.adapter = "failed")

CompatCodes(bundle) ==
    IF ~HasManifest(bundle) \/ ~TrustsCompat(bundle) THEN {}
    ELSE IF IsPortrait(bundle) THEN PortraitCompatCodes(bundle, bundle[Root("compat")])
    ELSE BackgroundCompatCodes(bundle, bundle[Root("compat")])

UnsafeTree(bundle) ==
    \/ \E n \in DOMAIN bundle : bundle[n].kind = "link"
    \/ \E n, m \in DOMAIN bundle :
         n # m /\ Stem(n) = Stem(m) /\ Folded(Suffix(n)) = Folded(Suffix(m))

RequiredFiles == {Root(n) : n \in {"compat", "manifest", "report", "lineage", "hashes"}}

(* Mutant: files that no hash declares are not looked for. *)
DeclaredOnly(bundle, declared) ==
    Flag("BUNDLE_MISSING_FILE", ~(DOMAIN declared \cup RequiredFiles \subseteq DOMAIN bundle))
        \cup Flag("BUNDLE_HASH_MISMATCH",
                  \E n \in DOMAIN declared \cap DOMAIN bundle : declared[n] # bundle[n])

HashCodes(bundle, declared) ==
    Flag("BUNDLE_MISSING_FILE", ~(DOMAIN declared \cup RequiredFiles \subseteq DOMAIN bundle))
        \cup Flag("BUNDLE_HASH_MISMATCH",
                  \E n \in DOMAIN declared \cap DOMAIN bundle : declared[n] # bundle[n])
        \cup Flag("BUNDLE_EXTRA_FILE",
                  ~(DOMAIN bundle \subseteq DOMAIN declared \cup {Root("hashes")}))

(* Mutant: the report is compared with the manifest it shows itself. *)
ShownManifestCodes(bundle, report) ==
    Flag("BUNDLE_INCONSISTENT_MANIFEST_HASH", report.manifestHash # report.shown)

ManifestHashCodes(bundle, report) ==
    Flag("BUNDLE_INCONSISTENT_MANIFEST_HASH", report.manifestHash # bundle[Root("manifest")])

ConsistencyCodes(bundle, declared) ==
    LET report  == bundle[Root("report")]
        lineage == bundle[Root("lineage")]
        packed  == {declared[n] : n \in {m \in DOMAIN declared \cap DOMAIN bundle : InPackage(m)}}
    IN  IF /\ HasManifest(bundle)
           /\ ReadsAs(bundle, Root("report"), "report")
           /\ ReadsAs(bundle, Root("lineage"), "lineage")
        THEN ManifestHashCodes(bundle, report)
             \cup Flag("BUNDLE_INCONSISTENT_LINEAGE", report.history # lineage.nodes)
             \cup Flag("BUNDLE_INCONSISTENT_OUTPUT_HASHES",
                       report.outputs # OutputHashes(packed, lineage.nodes))
        ELSE {}

VerifyBundle(bundle) ==
    LET documents ==
            DocumentCodes(bundle, Root("manifest"), "manifest", "BUNDLE_INVALID_MANIFEST")
                \cup DocumentCodes(bundle, Root("report"), "report", "BUNDLE_INVALID_REPORT")
                \cup DocumentCodes(bundle, Root("lineage"), "lineage", "BUNDLE_INVALID_LINEAGE")
                \cup CompatFormCodes(bundle)
                \cup DocumentCodes(bundle, Root("hashes"), "hashes", "BUNDLE_INVALID_HASHES")
    IN  IF bundle = Absent THEN {"BUNDLE_MISSING_ROOT"}
        ELSE IF ~ReadsAs(bundle, Root("hashes"), "hashes") THEN documents
        ELSE IF UnsafeTree(bundle) THEN documents \cup {"BUNDLE_UNSAFE_PATH"}
        ELSE documents
               \cup HashCodes(bundle, bundle[Root("hashes")].declared)
               \cup CompatCodes(bundle)
               \cup ConsistencyCodes(bundle, bundle[Root("hashes")].declared)

-----------------------------------------------------------------------------
Labels == {"idle", "validate", "check", "list", "copy", "staged", "prepare", "lock",
           "exists", "sources", "report", "hashes", "replace", "sync", "end"}
Outcomes == {"none", "published", "invalid", "changed", "secret", "tree", "documents",
             "evidence", "limits", "contention", "exists", "failed", "dead"}

Init ==
    /\ candidate = [p \in Procs |-> Absent]
    /\ out = [d \in Destinations |-> Absent]
    /\ origin = [d \in Destinations |-> NoJob]
    /\ issued = [d \in Destinations |-> Absent]
    /\ lock = [d \in Destinations |-> Nobody]
    /\ pc = [p \in Procs |-> "idle"] /\ call = [p \in Procs |-> "none"]
    /\ job \in Assignments
    /\ work = [p \in Procs |-> Absent] /\ todo = [p \in Procs |-> {}]
    /\ compat = [p \in Procs |-> "none"] /\ stage = [p \in Procs |-> Absent]
    /\ outcome = [p \in Procs |-> "none"]
    /\ edits = 0 /\ faults = 0

bundles == <<out, origin, issued>>
world  == <<candidate, bundles, lock>>
caller == <<call, job>>

Goto(p, label) == pc' = [pc EXCEPT ![p] = label]
(* A call that ends without a bundle: its staging directory is removed. *)
End(p, how) ==
    /\ Goto(p, "end")
    /\ outcome' = [outcome EXCEPT ![p] = how]
    /\ stage' = [stage EXCEPT ![p] = Absent]
(* Mutant: a refused call goes on. *)
GoOn(p, refused, label) == Goto(p, IF refused # "none" THEN refused ELSE label)
                           /\ UNCHANGED <<outcome, stage>>

Go(p, refused, label) == IF refused # "none" THEN End(p, refused)
                         ELSE Goto(p, label) /\ UNCHANGED <<outcome, stage>>
Unlock(p) == lock' = [d \in Destinations |-> IF lock[d] = p THEN Nobody ELSE lock[d]]

-----------------------------------------------------------------------------
(* finalize_candidate and the staging of a publication, which writes the   *)
(* report and the lineage of the bundle itself.                            *)
Validate(target, package) ==
    IF target = "portrait" THEN ValidatePortrait(package) ELSE ValidateBackground(package)

Regular(package) ==
    [n \in {m \in DOMAIN package : package[m].kind \notin {"link", "dir"}} |-> package[n]]

(* _final_artifacts: the artifacts are exactly the regular files. *)
IsApproved(j, package) == Regular(package) = j.package

Start(p, c) ==
    LET j == job[p] IN
    /\ pc[p] = "idle" /\ j # NoJob /\ c \in Calls
    /\ c = "finalize" =>
         /\ j.report = "good" /\ j.lineage = "good"
         /\ \A q \in Procs \ {p} : job[q] = j => call[q] # "finalize"
    /\ call' = [call EXCEPT ![p] = c]
    /\ Goto(p, IF c = "finalize" THEN "validate" ELSE "prepare")
    /\ work' = [work EXCEPT ![p] = IF c = "finalize" THEN Absent ELSE j.package]
    /\ candidate' = [candidate EXCEPT ![p] = j.package]
    /\ UNCHANGED <<bundles, lock, job, todo, compat, stage, outcome, edits, faults>>

ValidateCandidate(p) ==
    /\ pc[p] = "validate"
    /\ Go(p, IF Validate(job[p].target, candidate[p]) = {} THEN "none"
             ELSE "invalid", "check")
    /\ UNCHANGED <<world, caller, work, todo, compat, edits, faults>>

CheckArtifacts(p) ==
    /\ pc[p] = "check"
    /\ Go(p, IF IsApproved(job[p], candidate[p]) THEN "none" ELSE "changed", "list")
    /\ UNCHANGED <<world, caller, work, todo, compat, edits, faults>>

ListCandidate(p) ==
    /\ pc[p] = "list"
    /\ todo' = [todo EXCEPT ![p] = DOMAIN candidate[p]]
    /\ Goto(p, "copy")
    /\ UNCHANGED <<world, caller, work, compat, stage, outcome, edits, faults>>

CopyFile(p, n) ==
    /\ pc[p] = "copy" /\ n \in todo[p]
    /\ todo' = [todo EXCEPT ![p] = @ \ {n}]
    /\ IF n \in DOMAIN candidate[p] /\ candidate[p][n].kind \notin {"link", "dir"}
       THEN /\ work' = [work EXCEPT ![p] = With(@, n, candidate[p][n])]
            /\ UNCHANGED <<pc, outcome, stage>>
       ELSE End(p, "changed") /\ UNCHANGED work
    /\ UNCHANGED <<world, caller, compat, edits, faults>>

(* Mutant: the copied files are not compared with the approved artifacts. *)
TrustCopied(p) ==
    /\ pc[p] = "copy" /\ todo[p] = {}
    /\ Goto(p, "prepare")
    /\ UNCHANGED <<world, caller, work, todo, compat, stage, outcome, edits, faults>>

CheckStaged(p) ==
    /\ pc[p] = "copy" /\ todo[p] = {}
    /\ Go(p, IF IsApproved(job[p], work[p]) THEN "none" ELSE "changed", "prepare")
    /\ UNCHANGED <<world, caller, work, todo, compat, edits, faults>>

-----------------------------------------------------------------------------
(* build_bundle.  A finalization configures no external check; bounded: of  *)
(* the direct calls, only those for a handled job do.                       *)
Prepare(p, external) ==
    /\ pc[p] = "prepare"
    /\ external # "none" => call[p] = "build" /\ job[p] \in Handled
    /\ Go(p, Refusal(job[p], work[p], external), "lock")
    /\ compat' = [compat EXCEPT ![p] = external]
    /\ UNCHANGED <<world, caller, work, todo, edits, faults>>

TakeLock(p) ==
    /\ pc[p] = "lock"
    /\ IF lock[DestinationOf(p)] = Nobody
       THEN /\ lock' = [lock EXCEPT ![DestinationOf(p)] = p]
            /\ Goto(p, "exists") /\ UNCHANGED <<outcome, stage>>
       ELSE End(p, "contention") /\ UNCHANGED lock
    /\ UNCHANGED <<candidate, bundles, caller, work, todo, compat, edits, faults>>

(* Mutant: an existing bundle is no reason to refuse. *)
Overwrite(p) ==
    /\ pc[p] = "exists" /\ Goto(p, "sources")
    /\ UNCHANGED <<world, caller, work, todo, compat, stage, outcome, edits, faults>>

RefuseExisting(p) ==
    /\ pc[p] = "exists"
    /\ Go(p, IF out[DestinationOf(p)] # Absent THEN "exists" ELSE "none", "sources")
    /\ IF out[DestinationOf(p)] # Absent THEN Unlock(p) ELSE UNCHANGED lock
    /\ UNCHANGED <<candidate, bundles, caller, work, todo, compat, edits, faults>>

WriteSources(p) ==
    /\ pc[p] = "sources"
    /\ stage' = [stage EXCEPT ![p] = Sources(job[p], work[p], compat[p])]
    /\ Goto(p, "report")
    /\ UNCHANGED <<world, caller, work, todo, compat, outcome, edits, faults>>

WriteReport(p) ==
    /\ pc[p] = "report"
    /\ IF job[p].report = "good"
       THEN /\ stage' = [stage EXCEPT ![p] = WithReport(ManifestOf(job[p]), @)]
            /\ Goto(p, "hashes") /\ UNCHANGED <<outcome, lock>>
       ELSE End(p, "documents") /\ Unlock(p)
    /\ UNCHANGED <<candidate, bundles, caller, work, todo, compat, edits, faults>>

(* Mutant: the hashes are not those of every file, the report is left out. *)
HashesBeforeReport(p) ==
    /\ pc[p] = "hashes"
    /\ stage' = [stage EXCEPT ![p] =
           With(@, Root("hashes"), HashesOf(Without(@, Root("report"))))]
    /\ Goto(p, "replace")
    /\ UNCHANGED <<world, caller, work, todo, compat, outcome, edits, faults>>

WriteHashes(p) ==
    /\ pc[p] = "hashes"
    /\ stage' = [stage EXCEPT ![p] = WithHashes(@)]
    /\ Goto(p, "replace")
    /\ UNCHANGED <<world, caller, work, todo, compat, outcome, edits, faults>>

Replace(p) ==
    /\ pc[p] = "replace"
    /\ out' = [out EXCEPT ![DestinationOf(p)] = stage[p]]
    /\ origin' = [origin EXCEPT ![DestinationOf(p)] = job[p]]
    /\ issued' = [issued EXCEPT ![DestinationOf(p)] = stage[p]]
    /\ stage' = [stage EXCEPT ![p] = Absent]
    /\ Goto(p, "sync")
    /\ UNCHANGED <<candidate, lock, caller, work, todo, compat, outcome, edits, faults>>

SyncParent(p) ==
    /\ pc[p] = "sync"
    /\ End(p, "published") /\ Unlock(p)
    /\ UNCHANGED <<candidate, bundles, caller, work, todo, compat, edits, faults>>

-----------------------------------------------------------------------------
(* Faults: a write that fails, a sync that fails after the rename, a       *)
(* process that dies, and a candidate changed by hand.                     *)
Staging == {"sources", "report", "hashes", "replace"}

Fault(kind) == kind \in FaultKinds /\ faults < MaxFaults /\ faults' = faults + 1

WriteFails(p) ==
    /\ pc[p] \in Staging /\ Fault("write")
    /\ End(p, "failed") /\ Unlock(p)
    /\ UNCHANGED <<candidate, bundles, caller, work, todo, compat, edits>>

SyncFails(p) ==
    /\ pc[p] = "sync" /\ Fault("sync")
    /\ End(p, "failed") /\ Unlock(p)
    /\ UNCHANGED <<candidate, bundles, caller, work, todo, compat, edits>>

Crash(p) ==
    /\ pc[p] \notin {"idle", "end"} /\ Fault("crash")
    /\ Goto(p, "end") /\ outcome' = [outcome EXCEPT ![p] = "dead"]
    /\ Unlock(p)
    /\ UNCHANGED <<candidate, bundles, caller, work, todo, compat, stage, edits>>

Names   == UNION {DOMAIN j.package : j \in Handled} \cup {<<8, "png">>}
Garbage == [kind |-> "garbage"]
Link    == [kind |-> "link"]

TouchCandidate(p, n) ==
    /\ call[p] = "finalize" /\ pc[p] # "end" /\ job[p] \in Handled
    /\ Fault("touch")
    /\ candidate' = [candidate EXCEPT ![p] =
           IF n \in DOMAIN @ THEN Without(@, n) ELSE With(@, n, Garbage)]
    /\ UNCHANGED <<bundles, lock, pc, caller, work, todo, compat, stage, outcome, edits>>

-----------------------------------------------------------------------------
(* What happens to a published bundle that is copied and passed around.    *)
Extras == {Root("extra"), <<8, "png">>, <<8, "pal">>}

Removed(bundle) == {Without(bundle, n) : n \in DOMAIN bundle}
Spoilt(bundle)  == {With(bundle, n, c) : n \in DOMAIN bundle, c \in {Garbage, Link}}
Added(bundle) ==
    {With(bundle, n, c) : n \in Extras, c \in {Garbage} \cup Contents(PackageOf(bundle))}
Swapped(bundle) ==
    UNION {{With(bundle, n, Bundles[other][n])
              : n \in DOMAIN bundle \cap DOMAIN Bundles[other]} : other \in Handled}
Recomputed(bundle) ==
    {WithHashes(bundle)}
        \cup (IF HasManifest(bundle) /\ ReadsAs(bundle, Root("lineage"), "lineage")
              THEN {WithReport(bundle[Root("manifest")], bundle)} ELSE {})

Edited(bundle) ==
    Removed(bundle) \cup Spoilt(bundle) \cup Added(bundle) \cup Swapped(bundle)
        \cup Recomputed(bundle)

EditBundle(d) ==
    /\ edits < MaxEdits /\ faults = 0 /\ origin[d] \in Handled
    /\ \E p \in Procs : pc[p] = "end" /\ \A q \in Procs \ {p} : job[q] = NoJob
    /\ \E b \in Edited(out[d]) :
         b # out[d] /\ out' = [out EXCEPT ![d] = b]
    /\ edits' = edits + 1
    /\ UNCHANGED <<candidate, origin, issued, lock, pc, caller, work, todo, compat, stage, outcome, faults>>

-----------------------------------------------------------------------------
Step(p) ==
    \/ \E c \in Calls : Start(p, c)
    \/ ValidateCandidate(p) \/ CheckArtifacts(p) \/ ListCandidate(p)
    \/ \E n \in todo[p] : CopyFile(p, n)
    \/ CheckStaged(p)
    \/ \E external \in Externals : Prepare(p, external)
    \/ TakeLock(p) \/ RefuseExisting(p)
    \/ WriteSources(p) \/ WriteReport(p) \/ WriteHashes(p) \/ Replace(p) \/ SyncParent(p)
    \/ WriteFails(p) \/ SyncFails(p) \/ Crash(p)

Next ==
    \/ \E p \in Procs : Step(p)
    \/ \E p \in Procs, n \in Names : TouchCandidate(p, n)
    \/ \E d \in Destinations : EditBundle(d)

Spec == Init /\ [][Next]_vars

-----------------------------------------------------------------------------
TypeOK ==
    /\ DOMAIN candidate = Procs /\ DOMAIN work = Procs
    /\ DOMAIN todo = Procs /\ DOMAIN stage = Procs
    /\ DOMAIN out = Destinations /\ DOMAIN issued = Destinations
    /\ origin \in [Destinations -> Jobs \cup {NoJob}]
    /\ lock \in [Destinations -> Procs \cup {Nobody}]
    /\ pc \in [Procs -> Labels] /\ outcome \in [Procs -> Outcomes]
    /\ call \in [Procs -> Calls \cup {"none"}]
    /\ job \in [Procs -> Jobs \cup {NoJob}]
    /\ compat \in [Procs -> Externals]
    /\ edits \in 0 .. MaxEdits /\ faults \in 0 .. MaxFaults

(* A bundle that nobody has changed since its publication verifies clean,  *)
(* whatever died or failed around it: nothing partial ever becomes visible *)
(* and what build_bundle writes is what verify_bundle asks for.            *)
PublishedVerifies ==
    edits = 0 => \A d \in Destinations : out[d] # Absent => VerifyBundle(out[d]) = {}

(* Any one change to a published bundle is reported: a file lost, spoilt,  *)
(* linked, added, or taken from the bundle of another job.                 *)
OneChangeIsFound ==
    edits = 1 => \A d \in Destinations : out[d] # issued[d] => VerifyBundle(out[d]) # {}

(* Two changes that hide each other, a hash or a report recomputed after a *)
(* file changed: a bundle that verifies clean still has the manifest, the  *)
(* lineage and every package file it was published with.  (Three do hide   *)
(* each other: a file, the report and the hashes.)                         *)
Bound(bundle) == {Root("manifest"), Root("lineage")} \cup {n \in DOMAIN bundle : InPackage(n)}

CleanMeansPublished ==
    edits <= 2 =>
        \A d \in Destinations :
            issued[d] # Absent /\ VerifyBundle(out[d]) = {} =>
                \A n \in Bound(issued[d]) : n \in DOMAIN out[d] /\ out[d][n] = issued[d][n]

(* What a finalization publishes is the package that was approved and that *)
(* its target accepts, even if the candidate was touched while it ran.     *)
FinalIsApproved ==
    \A p \in Procs : issued[p] # Absent =>
        /\ PackageOf(issued[p]) = origin[p].package
        /\ Validate(origin[p].target, origin[p].package) = {}

(* The mandatory roundtrip never stands in the way of a package that the   *)
(* target accepts: an approved candidate can be finalized.                 *)
AcceptedHasEvidence ==
    \A p \in Procs : outcome[p] = "evidence" /\ compat[p] = "none" =>
        Validate(job[p].target, job[p].package) # {}

(* A caller that is told its bundle is published finds it there: no later  *)
(* or concurrent caller replaces it.                                       *)
PublishedStays ==
    \A p \in Procs : outcome[p] = "published" => origin[DestinationOf(p)] = job[p]

-----------------------------------------------------------------------------
(* The inductive invariant behind these.  A caller that is past its        *)
(* refusals has the package of its job in hand and an empty destination    *)
(* under its lock; what was published is the whole bundle of a job; and    *)
(* bundles are edited when nobody is at work any more.                     *)
Locked   == {"exists", "sync"} \cup Staging
Prepared == {"lock"} \cup Locked

Built(j, external) ==
    WithHashes(WithReport(ManifestOf(j), Sources(j, j.package, external)))

CallFits(p) ==
    /\ pc[p] = "idle" <=> call[p] = "none"
    /\ pc[p] # "idle" => job[p] # NoJob
    /\ pc[p] = "end" <=> outcome[p] # "none"
    /\ pc[p] \in Locked => lock[DestinationOf(p)] = p

WorkFits(p) ==
    /\ pc[p] \in {"validate", "check", "list"} => work[p] = Absent
    /\ pc[p] = "copy" => work[p] = Regular(work[p])
    /\ pc[p] \in {"prepare"} \cup Prepared => work[p] = job[p].package
    /\ pc[p] \in Prepared => Refusal(job[p], job[p].package, compat[p]) = "none"
    /\ pc[p] \in {"hashes", "replace"} => job[p].report = "good"
    /\ pc[p] = "report" => stage[p] = Sources(job[p], job[p].package, compat[p])
    /\ pc[p] = "hashes" =>
         stage[p] = WithReport(ManifestOf(job[p]), Sources(job[p], job[p].package, compat[p]))
    /\ pc[p] = "replace" => stage[p] = Built(job[p], compat[p])
    /\ outcome[p] = "evidence" => Refusal(job[p], job[p].package, compat[p]) = "evidence"

(* Of a candidate nobody touches, and of its place of publication. *)
IsAccepted(j) == Validate(j.target, j.package) = {}

ApprovalFits(p) ==
    /\ pc[p] # "idle" /\ job[p] \notin Handled => candidate[p] = job[p].package
    /\ call[p] = "finalize" /\ pc[p] \notin {"validate", "end"} /\ job[p] \notin Handled =>
         IsAccepted(job[p])
    /\ pc[p] \in Staging => origin[DestinationOf(p)] = NoJob
    /\ pc[p] = "sync" \/ outcome[p] = "published" => origin[DestinationOf(p)] = job[p]

PublicationFits(d) ==
    /\ IF origin[d] = NoJob THEN issued[d] = Absent
       ELSE /\ \E external \in Externals :
                 /\ Refusal(origin[d], origin[d].package, external) = "none"
                 /\ issued[d] = Built(origin[d], external)
            /\ d # Shared /\ origin[d] \notin Handled => IsAccepted(origin[d])
    /\ edits = 0 => out[d] = issued[d]
    /\ edits = 1 => \/ out[d] = issued[d]
                    \/ origin[d] # NoJob /\ out[d] \in Edited(issued[d])

(* The names of the files in which two bundles differ.                     *)
Changed(one, other) ==
    {n \in DOMAIN one \cup DOMAIN other :
        ~(n \in DOMAIN one \cap DOMAIN other /\ one[n] = other[n])}

(* No edit makes up a manifest or a lineage ...                            *)
DocumentsFit(bundle) ==
    /\ HasManifest(bundle) =>
         \E j \in Jobs \cup Handled : bundle[Root("manifest")] = Sanitized(ManifestOf(j))
    /\ ReadsAs(bundle, Root("lineage"), "lineage") =>
         \E j \in Jobs \cup Handled : bundle[Root("lineage")] = LineageOf(j)

(* ... and each changes one file of a bundle that is passed around.        *)
ChangesFit(d) ==
    /\ origin[d] \notin Handled => out[d] = issued[d]
    /\ IsFiniteSet(Changed(out[d], issued[d]))
    /\ Cardinality(Changed(out[d], issued[d])) <= edits
    /\ DocumentsFit(out[d])

IBundle ==
    /\ TypeOK
    /\ \A p \in Procs : CallFits(p) /\ WorkFits(p) /\ ApprovalFits(p)
    /\ \A d \in Destinations : PublicationFits(d) /\ ChangesFit(d)
    /\ edits # 0 => \A p \in Procs : pc[p] = "end" \/ job[p] = NoJob
=============================================================================
