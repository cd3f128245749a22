# Verification of FECreator

TLA+ models, TLC runs and TLAPS proofs for FECreator, a Python service that
turns a request into a reviewed, approved and published game asset. The
modules are translated from `src/fecreator/` at this commit; file names below
are relative to that directory unless they start with `docs/`, `tests/`,
`web/` or `scripts/`.

    tlc -workers 2 -config crashes.cfg MCJobLifecycle.tla     # a run
    tlapm JobLifecycle_proofs.tla                             # its proofs

`PROJECT.json` lists the components, the runs, the map from each definition to
its source lines, a mutation of the model that breaks each property, the
findings, the hazards and the theorems.

## The system

There is no database and no server that owns the data. Any number of
processes (HTTP server with its threads, MCP servers, CLI calls) share one
directory and coordinate by lock files; what a crash leaves is whatever was
renamed into place. Nearly all of the hard behaviour is there.

| Component | State | Operations | Talks to |
|---|---|---|---|
| job state machine, service, event log (`jobs/model.py`, `jobs/service.py`, `jobs/events.py`) | `job.json` (state, revision), `events.jsonl` | `create_job`, `transition_path[_while_job_locked]`, `record_event`, `cancel` | job store, atomic files; runs its callers' hooks under the job lock |
| job calls (`app.py`) | none | `plan_job`, `submit_sources`, `build_job`, `approve_review`, `reject_review`, `retry_job`, `finalize_job`, `cancel_job`, reads | everything below |
| reviewed build (`assets/reviewed.py`, `assets/candidate.py`, `providers/manual.py`) | the build lease, the staged and the published candidate | `build`: lease, claim, provider, publish or fail | job service, providers, lineage |
| final publication (`assets/publication.py`) | five outputs in the job and in the lineage | `finalize_candidate`, `rollback` | job service, lineage |
| approvals, candidates (`jobs/approvals.py`, `jobs/candidates.py`) | `approvals.jsonl`, `candidate.json` | `record_*`, `discard`, `create` | called from hooks |
| job store (`jobs/store.py`) | a directory per job, staging directories, a lock file each | `create`, `remove`, `list`, `load`, `save`, cleanup | atomic files |
| atomic files (`core/atomicio.py`) | sidecar and path locks | write by rename and fsync, bounded append, read, lock with a deadline | the file system |
| lineage (`lineage/store.py`) | a file per node, one lock for the graph | `add`, `discard_pending`, `get`, `children`, `ancestors` | jobs and their parents |
| reference packs (`references/`) | numbered revisions of a pack, staging directories | `create`, `new_revision`, `get`, `history`, `latest`, `list_ids`, cleanup | pinned by jobs |
| subprocess (`core/process.py`, `providers/command.py`, `interop/febuilder_cli.py`) | a process group, a reader per pipe, a byte budget, a deadline | `run_bounded_process` | the operating system |
| pipeline, registries (`core/pipeline.py`, `core/registry.py`) | a list of stages | `run`, `register` | plugins |
| HTTP, WebSocket (`interfaces/`) | limits of an upload in progress, a socket | routes, `UploadRequestSizeLimiter` | `app.py` |
| CLI, MCP (`interfaces/`, `cli.py`) | none | one lookup and one call each | `app.py` |
| target specifications, roundtrip (`specs/`, `interop/febuilder_roundtrip.py`, parts of `imaging/`) | none | `validate_package`, `decode_roundtrip` | called by the build and by the bundle |
| bundles (`reporting/bundle.py`) | a directory per bundle, a path lock | `build_bundle`, `verify_bundle` | called by the final publication |
| plugins, image work, contracts, configuration | none | pure functions and records | |
| web workbench (`web/src/`) | responses in flight, an event stream | hooks `useWorkbench`, `useJobEvents` | HTTP, WebSocket |

How they interact. A call of `app.py` usually reads a job, releases its lock,
decides, and takes the lock again for a transaction of `JobService`. The
transaction validates the path of states, runs the caller's *hook* (which
publishes artifacts: an upload, a candidate, a decision, final outputs, a
replacement job), saves `job.json`, appends the events, and on an exception
calls the caller's *rollback* and puts `job.json` back. A build holds a lease
(a lock file of its own) from beginning to end, but the job lock only while it
claims the job and while it publishes; the provider runs in between.

What is hard, and what makes it correct:

- *Reads gone stale.* State, candidate and approval are read before the lock
  that protects the change. Correct: the calls are atomic all the same
  (`CallsAreAtomic`), terminal states are final, a decision agrees with the
  state, a rejected job is retried once.
- *Partial failure.* Up to five outputs in two stores, `job.json` and the log
  must change together. Correct: a failed call leaves no trace
  (`FailedCallsLeaveNoTrace`), the log replays to the state.
- *Crashes.* No write-ahead log: the order of the writes must do. Correct: no
  state without the files it announces (`StateIsBacked`), a job left
  processing can be built again (`StrandedIsRebuildable`).
- *A long provider run without the lock.* Correct: one build per job, and
  nobody else moves its job except to cancel it (`BuildOwnsItsJob`).
- *A directory others list.* Jobs appear, disappear and are cleaned up while
  others look. Correct: never half a job (`VisibleIsWhole`), no listing takes
  a job under way for corrupt, no living creation loses its staging directory.
- *Deadlines.* Correct: every call comes back with its locks released; a
  subprocess that does not end is ended with everything it started
  (`BoundedRunIsHonest`, `EveryRunReturns`).
- *Evidence.* A bundle is copied and passed around. Correct: what is published
  verifies, and what verifies is what was published (`PublishedVerifies`,
  `OneChangeIsFound`, `CleanMeansPublished`).
- *Shared stores.* Revisions of a pack and nodes of the lineage are written and
  taken back under others' eyes. Correct: what somebody was told of stays
  (`RevisionsAreKept`), a call on a pack is one step of a contract
  (`EveryPackCallIsOneStep`), an answer is whole (`AnswersAreWhole`).
- *Four adapters.* The same failure must be the same code everywhere, though
  exception classes are subclasses of each other and jobs vanish between lookup
  and call. Correct: `StoreFailuresKeepTheirCode`, `AdaptersAgree`,
  `MissingIsUnknown`, `PackIsRightlyBlamed`.

## Modules

| Module | What it is |
|---|---|
| `JobModel` | states, transition table, legality of a path, artifacts, events |
| `JobLifecycle` | every call on one job, step by step, with faults |
| `JobContract` | the abstract job: nine atomic operations, no locks, no rollbacks |
| `JobProperties` | properties of `JobLifecycle` and the refinement mapping to `JobContract` |
| `JobInvariant` | the inductive invariant `IInv` |
| `JobLifecycle_proofs` | types, ownership of a build, finality |
| `JobArtifacts` | what a step does to the job as others see it, and the invariants of artifacts and log under each kind of fault |
| `JobArtifacts_proofs` | that failed calls are undone, states are backed, decisions agree, the log replays, and that `JobLifecycle` implements `JobContract` |
| `MCJobLifecycle` | symmetry of callers, for TLC |
| `JobStore` | the directory of jobs: create, retry, remove, clean, list, update, read events |
| `JobStore_proofs` | that cleanup spares living creations, and that visible jobs are whole |
| `MCJobStore` | symmetry, for TLC |
| `PortraitPackage` | the portrait package: strict validation and the roundtrip |
| `BackgroundPackage` | the dialogue background package: its validation |
| `Bundle` | from an approved candidate to a published bundle, its verification, and the inductive invariant `IBundle` |
| `Bundle_proofs` | that published bundles are approved, stay, verify, and show any one change, and any two to what was approved |
| `MCBundle` | packages with one thing wrong at a time, for TLC |
| `Adapters` | the `except` clauses of every operation of HTTP, MCP, CLI and WebSocket |
| `Requests` | one request through an adapter while others use the same job |
| `Requests_proofs` | that adapters keep the codes of store failures, agree, answer refusals, and blame the job or the pack rightly |
| `MCRequests` | `Requests` alone, for TLC |
| `Upload` | the size limiter, the staging of uploads and their submission |
| `PackStore` | reference packs: creation, revisions, reads, cleanup |
| `PackContract` | the abstract pack: a sequence of revisions, each call one step, no locks, staging directories or clean-ups |
| `PackStore_proofs` | that revisions stay, cleanup spares living creations, no single fault makes a failed creation leave anything, and `PackStore` implements `PackContract` |
| `Lineage` | the lineage graph with its publishers and readers |
| `Lineage_proofs` | how a node may lose its parent, and that answers are whole |
| `BoundedProcess` | `run_bounded_process` and its two users |
| `Limits_proofs` | of `Upload`: one response for each request, no staging left, which answers a submission gets, uploads in budget; of `BoundedProcess`: that its result is honest |
| `MCServices` | the last five systems side by side, one at work in a behaviour; bodies around each limit |

What composes what: `JobLifecycle` is `JobModel` in detail and implements
`JobContract`; `Requests` combines `Adapters` with the states of `JobModel` and
takes each call as one step, which `CallsAreAtomic` of the other justifies;
`PackStore` is a pack in detail and implements `PackContract`;
`Bundle` extends both package modules and calls their validation and roundtrip
as the publication does. `MCServices` runs `Requests`, `Upload`, `PackStore`,
`Lineage` and `BoundedProcess`, which share no state, one at a time: a single
run covers them all without their product.

### JobLifecycle

One job, any set `Procs` of callers (threads or processes: both are excluded
by the same locks).

| Model | Code |
|---|---|
| `state`, `revision` | `job.json` |
| `log` | `events.jsonl`; `MaxEvents` stands for `MAX_JSONL_RECORDS` |
| `disk` | which artifacts are there: `submitted/`, the candidate directory, `candidate.json` ("snapshot"), the two lineage nodes, the four files of the publication, the records of the approval log |
| `children` | replacement jobs created by `retry_job` |
| `submitter` | whose files `submitted/` holds (for one property) |
| `lock`, `lease` | `.job.lock` and the build lease |
| `pc`, `task` | where each caller is and its open transaction: what is left to publish, which `published` flags are set, whether `job.json` was saved |

A call starts (`StartCall`), reads (`SubmitReads`, `ChooseSourcesPath`,
`FinalizeReads`, ...), takes the lock (`Begin`, `Claim`) or is refused
(`Refuse`), publishes artifact by artifact (`PublishNext`), saves (`Save`),
appends (`Commit...`), or compensates (`UndoNext`, `RestoreAndRaise`,
`RestoreAndMarkFailed`). A reader takes the lock, so an unlocked step of the
model that reads `job.json` needs `lock = Nobody`.

Abstractions, each where the code allows it:

- Files are present or absent. Hashes, actors, reasons, revisions of the
  candidate and decisions on stages other than `candidate` are left out.
- A read that is at once followed by another of something no other caller can
  change differently is one step with it: the job and its candidate in
  `finalize_job`, the candidate of `retry_job` (read under the lock's
  transaction, guarded by it). The first `load` of `build` and `plan` decides
  nothing and is left out.
- Locks of the event log, the approval log and the lineage protect one write
  each; a deadline on them is a failure of that write.
- `rmtree` of a candidate is one step. Staging directories of a candidate or
  an upload are invisible and left out.
- The write that restores `job.json` is assumed to succeed: when it fails too,
  the code has nothing left to do.
- A replacement job is a counter; its creation is modelled in `JobStore`.
- Other exceptions than `Exception` (an interrupt) count as crashes.
- `_transition_job(..., "waiting_for_review")` on a job already in review and
  the two-step failure path from `created` are modelled (`ToReview`,
  `ToFailed`) though no behaviour takes them.

Faults are separate actions, bounded by `MaxFaults`: `clean` (a write raises
without effect), `late` (its rename took effect, the fsync of the directory
raises), `cleanup` (a compensating removal raises), `crash`.

### JobStore

Several jobs, and the entries of each directory, since `rmtree` and listings
see them one by one. `stage[j]` is `.tmp-<j>`, `dir[j]` is `<j>`; a directory
that is not there is `{}`. `stale` holds the staging directories older than
300 s. Locks are held by name. The lock file of a job is never unlinked; that
of a staging directory is (`store.py:120`, `226`), but only after a creation
has let go of it or a cleanup has emptied the directory, and a creation holds it
from before its `mkdir` until after the rename. So a lock file made anew under
the same name can only let two cleanups empty the same directory, which one
`CleanRemove` stands for. A creation that fails before its rename lets go of the
lock first and removes the directory after it (`Unstage`). Taking the staging
lock and making the directory is one step (the name is fresh), as are the look
at `job.json` and `manifest.json` in a listing and a load under the lock.
`IdentifierLeft` is a bound of the model: a creation starts only while there is
an identifier for it.

### PortraitPackage, BackgroundPackage and Bundle

A package or a bundle is a function from file names to contents. A name is a
pair of a stem and a suffix, since case counts in some lookups (`glob("*.png")`)
and not in others (`suffix.lower()`). The digest of a file is its content. The
layout of a sheet is the real one, in cells of 16 pixels; a palette entry is one
channel instead of three.

`ValidatePortrait` and `ValidateBackground` give the set of codes that
`validate_package` reports; `DecodeRoundtrip` the evidence of the roundtrip.

| `Bundle` | Code |
|---|---|
| `candidate[p]` | the candidate directory of the job `p` finalizes |
| `out[d]`, `lock[d]` | the bundle at a destination, and its path lock |
| `work`, `todo`, `stage` | the staged package, files still to copy, the staging directory of the bundle |
| `issued[d]`, `origin[d]` | the bundle as it was published and for which job (for the properties) |
| `ValidateCandidate` to `CheckStaged` | `finalize_candidate`, `publish_final_artifacts_atomically`, `_copy_candidate_package`, `_final_artifacts` |
| `Prepare` to `SyncParent` | `build_bundle`, in the order of its writes |
| `VerifyBundle(b)` | the codes of `verify_bundle` |
| `EditBundle` | somebody changes a published bundle: removes, spoils, links or adds a file, takes one from another bundle, recomputes hashes or report |

Abstractions: redaction is one bit of a manifest ("has something to redact"),
malformed documents one content (a manifest that is not UTF-8, on which validation
raises, is not among them), a link or a file outside the directory one
kind. Packages are flat: `_iter_tree` descends into directories, but the copy of the
candidate raises on any entry that is not a file, so none reaches it. Edits are made to bundles of solo, fault-free publications.

### Adapters and Requests

`Adapters` is a table: for each operation of each adapter the list of its
`except` clauses in order, each with the classes it names and the code it
reports. `Bases` gives the base classes that make the order matter
(`LockTimeoutError` is an `OSError`); `Together` joins the tables of an adapter,
one for each group of operations. `CallCode` and `LookupCode` send an
exception through the clauses and then through the boundary of the adapter
(exception handlers, `_with_store_failure_mapping`, `dispatch`); what nobody
takes is `escaped`.

`Requests` is one request: `InvalidBody`, `Lookup`, `Call`, and for a build
`Build` (its claim) and `Publish`. Between any two steps `World` moves the job
as other callers may, or damages or removes it, its pack or its parent. What a
call may raise is computed from the world it finds (`...Fails`), with a lock
timeout and an `OSError` possible whenever it touches a store.

### Upload, PackStore, Lineage, BoundedProcess

`Upload`: sizes in chunks; a header may claim any length. `Admit` and `Receive` are
`UploadRequestSizeLimiter` (the header, then the body as it comes). An application
that was told that its client has gone raises or answers (`Unwind`); either way its
response comes in two messages, `SendStart` and `SendRest`, each through
`limited_send` (`LimitedSend`), which drops it or passes it on, and sets
`response_started`. `EndRequest` is what follows the application: the limiter answers
in its place, or lets an exception through. `sending` is what the server heard.
`Stage` to `CloseFile` are the route with `_stream_uploads`; `ReadForSubmission`,
`PublishSources` and `NothingToSubmit` are `submit_sources` with its two reads of the
job, between which a plan, a build or another submission may move it; `CleanUp` is
the `finally` of `staged_source_upload`. Of the job there is only the part a
submission sees (`sourcesState`); its transactions are `JobLifecycle`'s.

`PackStore`: `packs[k]` is the directory of a pack, a function from revision
numbers to contents, each with its writer and the writer it was made from.
`emptied` are the packs whose directory is there without a revision.
`Scan`, `Stat`, `Reap`, `RemoveStale` are the cleanup, one file operation each, for
every staging directory it has listed; `LockPack` to `SyncPack` a creation, and
`UndoStaging`, `UndoPack` (the unlink) and `UndoDirectory` (the rmdir) its `except`,
in which each removal may fail unnoticed or be cut short by a death; `ReadLatest` and
`WriteRevision` a new revision; `ReadPack` every read. The staging directory of a
pack is named for the pack, so creations of one pack meet in it. `acked` is what
callers were told. A staging directory is invisible, so its own removal is one step
that succeeds or leaves part of it.

`PackContract` has none of this: a pack is the sequence of those who wrote its
revisions, and a call is one step (`Write`, `Spoil`, `Read`, `Refuse`, `Open`,
`GiveUp`). The mapping (`PackHistory`, `PackTold`, `PackSpoiled`, `PackReplies`) shows
the pack as whoever has its lock finds it: one that was renamed into place is not
there until its creation is answered, or its process has died. A write may be there
though its caller was not told so (a revision whose sync failed, a creation that died
or could not be undone); and a creation whose undoing was stopped half way has
spoiled its pack (`Spoil`), which every call refuses from then on. Nothing else is.
That this takes two faults is `FailedCreationsLeaveNothing`.

`Lineage`: an asset goes from `CreateBelow` (its job names parents that exist)
through `CheckParents` and `WriteNode` (`add`, under the lock of the graph) to
`PersistJob`, or back through `Discard`. A reader holds the lock of one node at
a time: `StepUp` is a node of `ancestors`, `ListNodes` and `ReadChild` are
`children`.

`BoundedProcess`: the child, the descendants it forks (each may hold the pipe,
ignore SIGTERM or have left the group), the reader thread, the caller. A wait
with a timeout is a choice between what it waits for and its expiry.

## Runs

Instances of `MCJobLifecycle` (one job, all eight calls unless said):

| Run | Callers | Faults | Log | What it shows |
|---|---|---|---|---|
| `concurrent_calls` | 3 | none | 12 | `CallsAreAtomic`, `BuildOwnsItsJob` |
| `failing_writes` | 2 | 3 clean | 9 | no traces of failed calls, decisions and retries agree, the log replays to the state |
| `crashes` | 2, manual provider | 2 crashes | 12 | `StateIsBacked`, `OnlyApprovedCompletes` |
| `every_fault` | 2, no plan | 1 of any kind | 7 | `IInv` and `TerminalIsFinal` before they are proved, and `EveryCallReturns` under fairness |

Of `MCJobStore`:

| Run | Jobs, callers | Calls | Faults | What it shows |
|---|---|---|---|---|
| `store_creations` | 2, 2 | create, list, read events | 2 write, sync or crash | `IStore` (the invariant proved), `StagingIsSpared`, and `StagingIsReclaimed` under fairness |
| `store_removals` | 1, 3 | create, retry, list, update | 2 append | `VisibleIsWhole` |

Of `MCBundle` and `MCServices`:

| Run | Instance | What it shows |
|---|---|---|
| `bundles` | 2 callers; each of the jobs of `MCJobs` alone (packages with one thing wrong in every part) and every pair of 3 handled jobs; 1 fault (write, sync, crash, or a candidate touched); 2 edits | the properties of packages and bundles above; `FinalIsApproved` when candidates change under a finalization; `AcceptedHasEvidence`: what validation accepts, the roundtrip does not refuse; `PublishedStays`: no caller replaces another's bundle |
| `services` | every operation of every adapter with a good and a bad input; 2 uploads to one job, of 8 bodies around each limit with true and false headers, one of the two as it should be, 1 removal that fails, other callers moving the job; 3 writers of 1 pack, 2 faults; 3 assets, 1 reader, 1 fault; 1 descendant, 2 chunks, 1 captured | answers of the adapters; uploads in budget, one response out of the limiter and no message of an application it cut off, no staging left, and which uploads are told "ok"; revisions, what a failed creation leaves, and that the pack store implements `PackContract`; lineage; and that runs of a child end |

Why the bounds are enough. A job only ever gains events, and no call repeats
without a fault, so without faults the longest life has fewer than 12 events:
`MaxEvents` 12 is no bound on good behaviour there. A job that is built,
approved and finalized has 7 events with "created", 9 if sources were submitted
and 10 if it was planned before: with `MaxEvents` 7 and 9 every call can
succeed, and in other orders an append meets a full log with the artifacts and
`job.json` already written.
Two callers are what each race needs; the third of `concurrent_calls` lets a
reviewer act between two that race. Faults are independent of each other
except in a compensation, which two faults reach; the third covers a
compensation in which one removal of several fails. In the store a removal
races one update and one listing (3 callers), and a cleanup races a creation
(2 callers, 2 identifiers so that the directory cleaned is not one's own).
A pack needs three writers for a creation that is undone, one that takes its
place and a reader that was told, and its two faults are a failed sync and a failure
or death in the removal that follows; three assets are a chain, or a node with two
parents; two edits are what hides one another. The limits of `Upload` are small
with a body below, at and above each of them; two bodies that are both refused have
nothing to do with one another and are left out (`OneIsRight`). One descendant shows
every way to outlive the child, since descendants do not interact; `MaxOutput` above
`CaptureLimit` and `PipeSize` 1 make the writer block and the capture overflow.
What is proved (below) is proved for all values.

Deadlock is checked in the runs of the job and of the store, where a caller can
always call again. In the other modules each caller makes one call, and a
behaviour ends when all have ended, so `bundles`, `services`, `redacted_bundle`
and `contention_fails_job` say `CHECK_DEADLOCK FALSE`.

Fairness. `FairSpec` of `JobLifecycle` is weak fairness of each caller's own
steps (not of starting calls, and not of faults). The code justifies it: each
wait has a deadline (`_path_lock`, the lease, the provider), so a call that is
not killed keeps taking steps, and a call that can only wait can also give up
(`GiveUp`, `LeaseRefused`). In `JobStore` time passes as well (`Age`), and the
store stays in use: a caller that is able to list again and again does so
(strong fairness, since other calls come in between), because stale directories
are only cleaned by creations and listings. In `BoundedProcess` only the caller's
steps are weakly fair (each of its waits has a deadline); nothing is assumed of the
child, its descendants or the reader.

### Where code and documentation disagree

Four runs expect a violation. Each checks what a document, comment or test of
the repository says.

| Run | Property | What happens |
|---|---|---|
| `lost_submission` | `AcceptedSourcesAreKept` | the second of two concurrent submissions returns success and drops its files |
| `stranded_build` | `StrandedIsRebuildable` | a build dies after its candidate was renamed into place: every later build runs its provider and is refused, the job cannot be built |
| `redacted_bundle` | `PublishedVerifies` | the report of a bundle hashes the manifest before redaction, `verify_bundle` the redacted one: a job with something to redact gets a bundle that does not verify |
| `contention_fails_job` | `RetryIsPossible` | the lock of a reference pack times out while a build claims its job: the caller is told to retry, and the job is failed for good |

`StrandedIsRebuildable` also holds in a run where writes fail cleanly (no
crash), `PublishedVerifies` in one whose manifests have nothing to redact.

Further weaknesses are in the models without a run of their own, or were met
while reading:

- `finalize_job` reads the approval log without the job lock (`app.py:299`) and
  can see an approval that is rolled back afterwards: `OnlyApprovedCompletes`
  holds under crashes and fails under clean write failures. Compare
  `docs/superpowers/specs/2026-07-26-issue-1-completion-design.md:157`.
- A finalization that dies in its compensation, which removes outputs before it
  restores `job.json` (`jobs/service.py:139`), leaves a completed job without
  them (`CompletionIsWhole`). Compare line 160 of the same document.
- A listing can report a job that is being removed as corrupt
  (`jobs/store.py:292`), reading the events of a job that is removed meanwhile
  makes its directory again with a lock file in it (`core/atomicio.py:217`), and a
  listing raises when another creation publishes its staging directory between
  `is_dir()` and `stat()` (`CleanStatRaises`; the pack store has the same race,
  the answer "vanished"). `VisibleIsWhole` is checked without reads of events.
- A write that raises in the fsync after its rename ("late") is visible and not
  flagged, so its rollback leaves it: `OutputsAreWhole` fails. In the same way a
  revision of a pack or a lineage node stays that nobody was told of; a later
  `add` of that node is refused. And a job whose creation fails there is removed
  without the job lock, so `VisibleIsWhole` fails when an update runs meanwhile.
- Some failures escape an adapter (`escaped`, listed by `RefusalsAreAnswered`):
  `retry_job` of a job without a candidate (`FileNotFoundError`),
  `InvalidTransitionError` in the MCP tools `approve_stage` and `reject_stage`,
  and what `finalize_job` raises of bundles, candidates and lineage. The MCP
  tools `build_asset` and `finalize_job` say `ok: true` of a result that is not
  ok, where `docs/v1-contract.md:318` says failures never return success-shaped
  payloads.
- The lost submission also comes about over HTTP (`NothingToSubmit` of `Upload`): an
  upload that read its job before another caller made it wait for sources is
  answered with the job, and its files are gone with their staging directory.
  `StagingIsGone` says that nothing else is told "ok" for files that were dropped.
- The creation of a pack that fails in its sync is undone by an unlink and an rmdir
  whose errors are ignored (`references/store.py:224`). If the second does not
  happen, by a failure or a death, an empty pack stays: every read calls it corrupt,
  no creation replaces it, and the list of all packs is refused on its account. If
  the first does not, the pack of a creation that was reported as failed is there.
- `validate_package` of a dialogue background raises `UnicodeDecodeError` on a manifest
  that is not UTF-8, instead of reporting `INVALID_BACKGROUND_MANIFEST`
  (`specs/fire_emblem/gba/dialogue_background_source/validation.py:88`).
- When the removal of an upload's staging directory fails, a submission that was
  accepted is reported as `SUBMIT_SOURCES_FAILED`; a crash leaves the directory
  for good.
- `ancestors` and `children` fail when a node they are about to read is discarded
  meanwhile ("missing").
- `validate_package` finds sheets with `glob("*.png")`, `build_bundle` compares
  suffixes in lower case: a package may hold a `.PNG` that only one of them sees, and
  that can be taken from a bundle if its hashes are computed again.
  An external check recorded in `compat.json` is bound to the package only by the
  hashes, so two changes can alter it (`CleanMeansPublished` is about the
  manifest, the lineage and the package).
- `build_bundle` publishes a package with two names that differ only in case
  (`1.png` and `1.PNG`): `_validate_package_tree` (`reporting/bundle.py:187`) does
  not look for them, `_scan_bundle_files` (`reporting/bundle.py:357`) raises, and
  `verify_bundle` reports an unsafe path in a bundle nobody changed. The proof of
  `PublishedVerifies` met it and excludes it by name.
- `finalize_candidate` validates the candidate, then compares it with what was
  approved, then copies and compares again. If an approved package is not one its
  target accepts (a package is validated before it is reviewed, but by the rules
  of that day), a candidate that is acceptable only while it is validated gets it
  published. `FinalPackagesAreApproved` excludes it by name.

## Proofs

In each proof the constants are arbitrary: any callers, calls, jobs, assets,
bodies, limits and number of faults. The assumptions are the named `ASSUME`s of
the module; a theorem that also excludes a kind of fault says so in its
statement, and the table of regimes below says what goes wrong without that.
Every invariant was first checked by TLC on the instances of the runs.

`JobLifecycle_proofs` proves, for any set of callers, any calls, any event
budget, both providers and any number of faults of every kind, from
`ConstantsOK` alone:

- `Invariance`: `Spec => []IInv`;
- `TypesAreRight`: `Spec => []TypeOK`;
- `BuildsOwnTheirJobs`: `Spec => []BuildOwnsItsJob`;
- `TerminalStatesAreFinal`: `Spec => TerminalIsFinal`.

Neither property is inductive. That a build's job is only moved to `cancelled`
while the provider runs needs to know of *every other caller* what its pending
transaction may be: that a plan or submission never gets to a state after
`processing` (its path is validated again under the lock and none is legal
from there), that a rejection or a finalization has seen the job in review,
which a job leaves only for good, and that other builds are kept out by the
lease. So `IInv` says who holds the locks (`LocksAreHeld`), that the task of a
caller fits the place it has reached (`TaskFits`), how an open transaction
relates to `job.json` (`JobFits`), that it goes along the table (`PathFits`),
and what a caller outside the lock relies on (`Relied`). `VisibleState`, the
state as a reader under the lock sees it, moves at most once per transaction.

The argument goes caller by caller: each action of `p` is `Good` for `p` (it
keeps `IInv` for `p`, stays within the frame of `p`, and moves the visible
state at most along the open transaction of `p`), `OthersFit` and `OthersRely`
carry the invariant over to everybody else from that, and `NextIInv` puts them
together. Finality follows since a legal path starts in no terminal state.

`JobArtifacts_proofs` is about the artifacts and the log. What holds of them
depends on what may fail, so each theorem names its regime:

| Regime | Faults | Theorems | Left out, and why |
|---|---|---|---|
| `NoLateFaults` | clean, cleanup, crash | `TransactionsAreTracked` | a late write is there without its `published` flag, so nothing tracks it |
| `NoLateFaults`, no crash | clean, cleanup | `ReviewedJobsAreBacked` | a crash in a compensation after `job.json` was saved leaves its state without its files; with a full log this happens |
| `CrashFaults` | crash; a log of `LongestLog` (12) events or more | `CrashesLeaveJobsBacked`, `CompletedJobsAreApproved`, `LogsStayShort` | a write that fails makes a compensation, in which a crash loses files and which takes back approvals that were seen |
| `CleanFaults` | clean | `FailedCallsAreUndone`, `DecisionsExclude`, `RetriesAreSingle`, `StrandedBuildsLeaveNothing`, `LogsReplay` | a crash, or a removal that fails, leaves part of a transaction behind |
| `NoFaults` | none; a log of 12 or more | `JobImplementsContract` | a finalization may succeed on an approval that is rolled back afterwards, which no atomic call does |

The regimes are those of the runs that check the same properties, but for any
number of faults and callers, and under `CleanFaults` for any event budget: a log
that refuses an event is compensated as a failed write is.

The argument. `IArtifacts` says what an open transaction has published so far
(`Publishing`: what is done is on disk, done and left are what the operation
publishes, `state` and `revision` are saved or as before), that what the hook
checked still holds of the job without the transaction (`Guarded`), and which path
was chosen (`Chosen`). From it each step of a caller is one of four things to
everybody else (`Effect`): `Unseen`, `Commits` (the whole transaction at once, at
the append), `LeavesBehind` (a removal failed), or `Dies`. Every further result is
an induction over these four instead of over every action:

- `IBacked`: a commit that enters review or completes publishes what it announces.
- `ICrash`: each transition raises the `Rank` of the state, except those out of
  review, and the other events come once, each with an artifact or the retry
  (`LogIsShort`). So the log is never full, nothing is compensated after
  `job.json` was saved, a crash leaves all of a saved transaction, and an approval
  that `finalize_job` has seen without the lock stays (`ApprovalIsSeen`).
  `LogsStayShort` also shows that `MaxEvents` 12 is no bound in `concurrent_calls`
  and `crashes`.
- `IClean`: the artifacts that are visible are those the log records, the log leads
  to the visible state, and approval, rejection and outputs agree with it. The
  second claim or publication finds its guard closed because the first is in the
  log.

`JobImplementsContract` takes the three invariants together. Each commit is one step
of the contract (`CommitsFollowContract`, a case per operation: its guard held
when the transaction opened, and `Guarded` kept it), any other step is a stutter of the contract.

`JobStore_proofs` proves `Spec => []IStore` and `Spec => []StagingIsSpared`
for any jobs, callers and faults, from `StoreConstantsOK`. Alone it says
nothing of who may remove a directory; `IStore` adds that whoever works in a
staging directory, be it a creation or a cleanup, holds its lock (`Guarded`),
that a caller is at a job that exists and visits only such (`Placed`), and that
an identifier not drawn yet has no directory, no lock and nobody at it
(`Untouched`), so a new creation finds its lock free, and that no two callers
are at the creation or removal of one job (`Alone`), so the removal of a failed
creation, which holds no lock, disturbs no other one. Each action is `Good` for
its caller and keeps the frame of the others (`GoodStep`).

`VisibleJobsAreWhole` (`Spec => []VisibleIsWhole`) assumes `OrderlyRemovals`: no
failed sync, no crash, no reads of events. With a failed sync a visible job is
removed without its lock, a removal that dies leaves half a job, and a reader of
events makes the directory of a removed job again: each is a weakness listed
above. What remains are updates, retries, listings and creations that race a
removal, with writes and appends that fail. The strengthening `IWhole` says which
entries are there at each place of a removal and of a creation, and that a caller
that relies on the directory holds the lock of the job.

`PackStore_proofs` proves `PackSpec => []IPack`, and from it
`RevisionsStay`, `StagedPacksStay`, `FailuresLeaveNothing` and the refinement
`PackCallsAreSteps`, for any packs, writers, failures and deaths. `RevisionsAreKept` needs three facts more: which locks a call holds in
which phase (`Holds`), that what it found under them is still so (`Finds`: no pack
yet when it is about to be published, the latest revision still the latest when
the next is written), and that a creation that may still be undone was told to
nobody (`Untold`), since readers take the lock of the pack too. A step is good
for its writer, keeps what others rely on (`GoodStep`), and the locks keep the
two apart.

`PackCallsAreSteps` (`PackSpec => EveryPackCallIsOneStep`) takes `IPack` and, of each
call, that it does what was asked for, is answered only at its end, and that a
creation which may be taken back is alone in its pack (`Serves`; together
`IPackCalls`). Who has the lock of a pack and is not creating it sees what is there
(`SeenUnderLock`); a step shows nothing of other packs (`OnlyItsPackShows`). So the
rename, its failed sync and the unlink are stutters of the contract; the answer of a
creation or the death of its process is the step that shows the pack
(`CreationKeepsContract`), shows that there is none, or shows that its directory was
left empty (`SpoilingKeepsContract`); and a revision, which was read under the lock it is
written under, is appended (`RevisionKeepsContract`, with `AppendedAsFunction` for
the sequence of writers).

`FailuresLeaveNothing` (`PackSpec => []FailedCreationsLeaveNothing`) is about the first
fault. While there has been none, a creation after its rename is at its sync; so the
undoing of a pack follows a fault, and what it leaves takes a second one. And the
first revision of a pack is of nobody whose rename has not been done (`FirstIsNotOf`),
so a creation that was answered as failed is not behind the pack that is there
(`IFailures`, together with `IPackCalls`). The two halves are inductive only together.

`Limits_proofs` proves of a bounded run `ProcessSpec => []IProcess` and
`RunsAreHonest: ProcessSpec => []BoundedRunIsHonest`, for any descendants, output,
pipe and limit. The strengthening: until the deadline nobody is killed, so the
child's status is its own (`StatusFits`); from the second signal on everything
alive of the group has been killed, the child included, so that it forks no more
and nothing joins the group (`GroupFits`); captured and unread chunks are all
that were written as long as the limit is not reached, and a reader that has
ended has nobody left who could write (`PipeFits`).

`Lineage_proofs` proves `LineageSpec => []OrphansAreRaced` for any assets,
readers and faults. The point is the addition in two steps: the parents it has
checked are still there when the node is written, because it holds the lock of
the graph and a discard needs it (`Checked`).

`LineageAnswersAreWhole` (`LineageSpec => []AnswersAreWhole`) is about readers that
look at one node at a time while others add and discard. Parents are named before
their children and for good (`ParentsFit`), so each asset has a set closed under
parents that is without itself: the graph stays without cycles. A climb has every
parent of what it has found among what it has found or has still to read
(`ClimbFits`); so it ends with a closed set, and with the least one, since it only
visits what lies above its start. A search has every child that was settled when
it began among what it has found or has to read (`SearchFits`). Lemmas on the
names in a sequence (`NamesOfTail`, `NamesOfAppend`, `NamesOfConcat`) carry it.

`Limits_proofs` proves `UploadsGetOneResponse` and `UploadsLeaveNoStaging` for any
uploads, bodies, limits and number of failed removals. `IUpload` adds what is
known at each place of a request: no code is set before the clean-up, and "ok" is
that of the accepted submission or of one that was overtaken between its two reads
(`CodeFits`, `SawFits`); a staging directory belongs to a request the route has
at work or that is being answered (`StagedInRoute`), the one accepted submission belongs
to a request that has left the route (`SubmissionFits`), and each directory left
behind is counted in `stuck`. `OneResponse` rests on `SendingFits`: before the
clean-up is over nothing was sent; after it, what was sent is as far as the phase
says, with the flag set by the first message, if the request is within its limit, and
nothing, with the flag not set, if it is past it. So when the application ends, the
flag tells the two cases apart, and the limiter answers exactly in the second.

`UploadsStayBounded` needs a second invariant, `IBudget`, about sizes: the limiter
lets through to the route only bodies within `RequestLimit`, and says of a body it
cut off that it exceeded it (`LimiterFits`); what the route has staged is the files
of the body up to the one at hand, which is as long as what was read of it, each
within `FileLimit`, under names that differ, and their sizes add up to the running
total that is compared with `TotalLimit` (`RouteFits`, `StagedSoFar`); what was
submitted is the body (`AcceptedFits`). The sum over a sequence, `SizeOf`, is a
recursive function. The provers have no induction to unfold it with, so the lemmas
about it (`SizeOfIsLast`, `SizeOfLonger`, `SizeOfOneMore`) look at a least length
where they would fail. They need of the constants that each body is a finite
sequence of files with a name and a size (`UploadConstantsOK`).

`Requests_proofs` proves every safety and action property of `Requests`, with
and without a manual provider. The clauses are read once: `Reported` says
what an operation may report of an exception, whichever adapter offers it, and
`EveryOperationReports` goes through the tables, each clause by the first that takes
(`ClauseTakes`, `FirstTaker`, `BasesAre`). From it:

- `StoreFailuresAreToldApart` and `AdaptersDoNotDrift` hold for every exception there
  is, raised or not: a clause that took a store failure, or a code that two
  adapters give differently, would fail them though no call raises the exception.
- `RefusalsGetAnswers`, `OnlyMissingJobsAreUnknown` and `OnlyBadPacksAreBlamed` depend on
  what a call can raise in the job it finds (`FailsFacts`), and on which exceptions
  have the codes of a missing job and of a pack (`Blames`).

What is inductive is `IRequests`: an answer is the one that the clauses of
the requested operation give to its exception (`AnswerIsItsOwn`), with the pack as it
was then; without it an answer could be any code, and agreement says nothing.
`StepsOfARequest` sorts the steps for the two action properties: only the lookup,
the call and the two steps of a build set a code.

`Bundle_proofs` proves `Spec => []IBundle` from `PortraitConstantsOK`,
`BundleConstantsOK` and `PackagesOK`, for any jobs, packages, pictures, callers,
faults and edits. `IBundle` says that a caller past its refusals has the package
of its job in hand, and what `build_bundle` refuses it is not (`WorkFits`); that
it holds the lock of its destination and that nothing is there when it is about to
publish (`CallFits`, `ApprovalFits`); that what was published is the whole bundle
`Built(j, external)` of a job (`PublicationFits`); that a bundle differs from what
was published in no more files than it was edited, and that its documents are ones
some edit writes (`ChangesFit`); and that bundles are changed when nobody is at work. Each action is `Good` for its caller and keeps the frame
the others rely on (`GoodStep`). What follows:

- `PublishedBundlesStay`: a caller that publishes holds the lock of the place
  where another one's bundle would be, and found it empty under that lock.
- `FinalPackagesAreApproved`: whatever is done to a candidate while it is validated,
  listed and copied, what passes the last comparison is the approved package. The
  target accepts it because it accepted the candidate, if nobody touched that;
  for the jobs in `Handled`, whose candidates are touched, the theorem assumes it.
- `SingleChangesAreFound`: a bundle that verifies clean has hashes of its own
  (`CleanHashesAreOwn`), and two bundles with the same hashes of their own are the
  same (`SameHashesSameFiles`). So a change that leaves the hashes alone is reported;
  recomputed hashes are the same again; and a change of the hashes alone makes them
  wrong.
- `TwoChangesAreFound` proves `CleanMeansPublished`, which is a statement about at most
  two edits: with a third (a file, the report and the hashes) a bundle verifies clean
  that was never published. If the hashes are as they were, nothing else is changed
  but what they do not cover. If not, one other file is, and it is what another
  document tells of: with the report of `build_bundle` manifest, lineage and contents
  are the job's (`ReportSealsBundle`), so the package has lost a file or has one
  under another name, which the evidence of the roundtrip shows
  (`EvidenceSealsPortrait`), as the manifest of a background does. The proof met a
  portrait package with a file `*.PNG`: nothing tells of it, and its removal with new
  hashes verifies clean (TLC confirms it). The theorem excludes it by name
  (`NoOtherPictures`).
- `PublishedBundlesVerify`: `BuiltVerifies` takes the files of `Built` one by one
  through `verify_bundle`: manifest, lineage, report, evidence and hashes are what it
  reads there. It assumes that what may be published has nothing to redact (the run
  `redacted_bundle` shows why) and no names that differ only in case.
- `AcceptedPackagesHaveEvidence`: a portrait that strict validation accepts decodes to
  a sheet of the right size whose zones are one background index
  (`AcceptedSheets`), so the copy the probe writes is accepted again
  (`CopiesAreAccepted`) and reads back as it was (`CopiesReadBack`); a background
  that is accepted has exactly its one manifest.

TLC has evaluated these hypotheses on the instance of `bundles`: they hold there.

Only model-checked is liveness (`EveryCallReturns`, `StagingIsReclaimed`,
`EveryRunReturns`): the prover handles neither fairness nor
`ENABLED`.

## What is left, and the plan

One step is left of the plan: the order of events as a reader of the log sees it
(the event socket).

Not modelled:

- *Parts of modelled components.* The files behind a path lock and their
  unlinking; decisions on named stages inside `JobLifecycle` (they change no
  state); `JobStore.save` with an optimistic revision, which nothing calls; the
  entries of a staging directory one by one; lineage parents a retry adds; the Windows process tree, the writer of stdin, a second pipe, and output
  written by descendants; the polling of the event socket; a malformed approval in
  a report (on which `verify_bundle` raises); root files of a bundle that are
  declared without being required; the check of resource limits on verification.
- *Whole components*, for reasons given in `PROJECT.json`: asset plugins and
  image work (pixels, with one outcome for a job), pipeline and registries
  (sequential and stateless between calls), other providers (one outcome each),
  the web workbench (a client that keeps nothing the server relies on), records
  and configuration without behaviour, routing and wording of the adapters.
