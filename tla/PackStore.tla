----------------------------- MODULE PackStore -----------------------------
(***************************************************************************)
(* The reference packs: refs/<pack>/<revision>.json, revisions 1, 2, ...   *)
(* A pack is created in a staging directory that is renamed into place,    *)
(* and revised in place, both under the lock of the pack; the staging      *)
(* directory has a lock of its own, which the removal of stale ones takes. *)
(* Processes interleave between any two file operations, and die between   *)
(* any two; a dead one holds no lock.                                      *)
(***************************************************************************)
EXTENDS Naturals, FiniteSets

CONSTANTS
    PackIds,          (* pack ids                                               *)
    Writers,        (* processes; each makes one call                         *)
    MaxPackFaults   (* failing writes and deaths                              *)

Free == "free"
Seed == "seed"

ASSUME PackConstantsOK == MaxPackFaults \in Nat /\ {Free, Seed} \cap Writers = {}

VARIABLES
    packs,      (* pack -> revision -> content; NoPack: no revision           *)
    emptied,    (* the packs whose directory is left without a revision       *)
    staged,     (* pack -> its staging directory: "none", "fresh" or "old"    *)
    packLock, stagingLock,      (* pack -> who holds the lock                 *)
    call,       (* writer -> its call                                         *)
    acked,      (* the revisions a caller was told of                         *)
    packFaults

packVars == <<packs, emptied, staged, packLock, stagingLock, call, acked, packFaults>>

PackCalls == {"create", "revise", "history", "list", "open"}

(* A revision: who wrote it, and whose revision it was made from. *)
Revision(by, base) == [by |-> by, base |-> base]
NoPack == [r \in {} |-> Seed]
FirstRevision(by) == [r \in {1} |-> Revision(by, "none")]
Visible(k) == packs[k] # NoPack
IsThere(k) == Visible(k) \/ k \in emptied
Latest(k) == CHOOSE r \in DOMAIN packs[k] : \A s \in DOMAIN packs[k] : s <= r

PackInit ==
    /\ packs \in [PackIds -> {NoPack, FirstRevision(Seed)}]
    /\ emptied = {}
    /\ staged = [k \in PackIds |-> "none"]
    /\ packLock = [k \in PackIds |-> Free]
    /\ stagingLock = [k \in PackIds |-> Free]
    /\ call = [w \in Writers |->
                [kind |-> "none", pack |-> "none", result |-> "none", replaced |-> FALSE,
                 todo |-> {}, seen |-> "none", latest |-> 0, phase |-> "idle"]]
    /\ acked = {}
    /\ packFaults = 0

At(w, phase) == call[w].phase = phase
To(w, phase) == call' = [call EXCEPT ![w].phase = phase]
Answer(w, result) == call' = [call EXCEPT ![w].phase = "done", ![w].result = result]
NoFault == UNCHANGED packFaults
Faulty == packFaults < MaxPackFaults /\ packFaults' = packFaults + 1
Leave(w) == [k \in PackIds |-> IF packLock[k] = w THEN Free ELSE packLock[k]]
LeaveStaging(w) == [k \in PackIds |-> IF stagingLock[k] = w THEN Free ELSE stagingLock[k]]

-----------------------------------------------------------------------------
(* Beginning a call, and the clean-up a store does when it is opened and   *)
(* before a creation.                                                      *)

BeginPack(w) ==
    /\ At(w, "idle")
    /\ \E kind \in PackCalls, k \in PackIds :
          /\ kind = "list" => IsThere(k)        (* iterdir lists it, unlocked *)
          /\ call' = [call EXCEPT ![w] =
                [kind |-> kind, pack |-> k, result |-> "none", replaced |-> FALSE,
                 todo |-> {j \in PackIds : staged[j] # "none"}, seen |-> k, latest |-> 0,
                 phase |-> IF kind \in {"create", "open"} THEN "scan" ELSE "lock"]]
    /\ UNCHANGED <<packs, emptied, staged, packLock, stagingLock, acked, packFaults>>

(* _cleanup_stale_staging_dirs, for each directory it has listed: is_dir,  *)
(* then stat, which raises when the directory was published meanwhile.     *)
Scan(w) ==
    /\ At(w, "scan")
    /\ IF call[w].todo = {}
       THEN IF call[w].kind = "open" THEN Answer(w, "ok") ELSE To(w, "lock")
       ELSE \E k \in call[w].todo :
               call' = [call EXCEPT ![w].todo = @ \ {k}, ![w].seen = k,
                                    ![w].phase = IF staged[k] = "none" THEN "scan" ELSE "stat"]
    /\ UNCHANGED <<packs, emptied, staged, packLock, stagingLock, acked, packFaults>>

Seen(w) == call[w].seen

Stat(w) ==
    /\ At(w, "stat")
    /\ CASE staged[Seen(w)] = "none" -> Answer(w, "vanished")
         [] staged[Seen(w)] = "fresh" -> To(w, "scan")
         [] staged[Seen(w)] = "old" -> To(w, "reap")
    /\ UNCHANGED <<packs, emptied, staged, packLock, stagingLock, acked, packFaults>>

(* Mutant: a directory that looked stale is removed without its lock. *)
ReapUnlocked(w) ==
    /\ At(w, "reap")
    /\ To(w, "reaping")
    /\ UNCHANGED <<packs, emptied, staged, packLock, stagingLock, acked, packFaults>>

(* Its lock is waited for no longer than 0.01 s: one in use is skipped. *)
Reap(w) ==
    /\ At(w, "reap")
    /\ IF stagingLock[Seen(w)] = Free
       THEN To(w, "reaping") /\ stagingLock' = [stagingLock EXCEPT ![Seen(w)] = w]
       ELSE To(w, "scan") /\ UNCHANGED stagingLock
    /\ UNCHANGED <<packs, emptied, staged, packLock, acked, packFaults>>

(* What a removal that fails leaves has been changed, and looks fresh. *)
PartlyRemoved(k) ==
    staged[k] # "none" /\ \E age \in {staged[k], "fresh"} : staged' = [staged EXCEPT ![k] = age]

RemoveStale(w) ==
    /\ At(w, "reaping")
    /\ stagingLock' = LeaveStaging(w)
    /\ \/ staged' = [staged EXCEPT ![Seen(w)] = "none"] /\ NoFault /\ To(w, "scan")
       \/ PartlyRemoved(Seen(w)) /\ Faulty /\ Answer(w, "failed")
    /\ UNCHANGED <<packs, emptied, packLock, acked>>

-----------------------------------------------------------------------------
(* Every other call runs under the lock of its pack. *)

(* Mutant: a revision is written without the lock of the pack. *)
LockPackToCreate(w) ==
    /\ At(w, "lock")
    /\ LET k == call[w].pack
       IN  \/ /\ packLock[k] = Free /\ call[w].kind # "revise"
              /\ packLock' = [packLock EXCEPT ![k] = w]
              /\ To(w, call[w].kind)
           \/ call[w].kind = "revise" /\ To(w, "revise") /\ UNCHANGED packLock
    /\ UNCHANGED <<packs, emptied, staged, stagingLock, acked, packFaults>>

LockPack(w) ==
    /\ At(w, "lock")
    /\ LET k == call[w].pack
       IN  \/ /\ packLock[k] = Free
              /\ packLock' = [packLock EXCEPT ![k] = w]
              /\ To(w, call[w].kind)
           \/ packLock[k] # Free /\ Answer(w, "timeout") /\ UNCHANGED packLock
    /\ UNCHANGED <<packs, emptied, staged, stagingLock, acked, packFaults>>

(* create: the pack is there; or its staging directory is made anew, one   *)
(* revision written into it, and it becomes the pack.                      *)
RefuseExistingPack(w) ==
    /\ At(w, "create") /\ IsThere(call[w].pack)
    /\ packLock' = Leave(w)
    /\ Answer(w, IF Visible(call[w].pack) THEN "exists" ELSE "corrupt")
    /\ UNCHANGED <<packs, emptied, staged, stagingLock, acked, packFaults>>

LockStaging(w) ==
    /\ At(w, "create") /\ ~IsThere(call[w].pack)
    /\ LET k == call[w].pack
       IN  \/ /\ stagingLock[k] = Free
              /\ stagingLock' = [stagingLock EXCEPT ![k] = w]
              /\ To(w, "stage")
           \/ stagingLock[k] # Free /\ To(w, "undo") /\ UNCHANGED stagingLock
    /\ UNCHANGED <<packs, emptied, staged, packLock, acked, packFaults>>

StagePack(w) ==
    /\ At(w, "stage")
    /\ \/ /\ staged' = [staged EXCEPT ![call[w].pack] = "fresh"]
          /\ To(w, "staged")
          /\ NoFault /\ UNCHANGED stagingLock
       \/ /\ Faulty /\ To(w, "undo")
          /\ stagingLock' = LeaveStaging(w)
          /\ \E age \in {staged[call[w].pack], "none", "fresh"} :
                staged' = [staged EXCEPT ![call[w].pack] = age]
    /\ UNCHANGED <<packs, emptied, packLock, acked>>

PublishPack(w) ==
    /\ At(w, "staged")
    /\ LET k == call[w].pack
       IN  \/ /\ staged[k] # "none"
              /\ packs' = [packs EXCEPT ![k] = FirstRevision(w)]
              /\ staged' = [staged EXCEPT ![k] = "none"]
              /\ call' = [call EXCEPT ![w].phase = "sync", ![w].replaced = TRUE]
              /\ NoFault /\ UNCHANGED stagingLock
           \/ /\ IF staged[k] = "none" THEN NoFault ELSE Faulty
              /\ stagingLock' = LeaveStaging(w)
              /\ To(w, "undo")
              /\ UNCHANGED <<packs, staged>>
    /\ UNCHANGED <<emptied, packLock, acked>>

(* Mutant: what failed is undone without the lock of the pack. *)
SyncPackAndLeave(w) ==
    /\ At(w, "sync")
    /\ stagingLock' = LeaveStaging(w)
    /\ packLock' = Leave(w)
    /\ \/ /\ NoFault /\ Answer(w, "ok")
          /\ acked' = acked \cup {[pack |-> call[w].pack, rev |-> 1, content |-> Revision(w, "none")]}
       \/ Faulty /\ To(w, "undo") /\ UNCHANGED acked
    /\ UNCHANGED <<packs, emptied, staged>>

SyncPack(w) ==
    /\ At(w, "sync")
    /\ stagingLock' = LeaveStaging(w)
    /\ \/ /\ NoFault /\ Answer(w, "ok")
          /\ packLock' = Leave(w)
          /\ acked' = acked \cup {[pack |-> call[w].pack, rev |-> 1, content |-> Revision(w, "none")]}
       \/ Faulty /\ To(w, "undo") /\ UNCHANGED <<packLock, acked>>
    /\ UNCHANGED <<packs, emptied, staged>>

(* The except of create removes what was staged or, after the rename, the  *)
(* pack: its revision, then its directory.  Errors are ignored, and a      *)
(* directory is not removed before its revision.                           *)
UndoStaging(w) ==
    /\ At(w, "undo") /\ ~call[w].replaced
    /\ \/ staged' = [staged EXCEPT ![call[w].pack] = "none"] /\ NoFault
       \/ PartlyRemoved(call[w].pack) /\ Faulty
    /\ packLock' = Leave(w)
    /\ Answer(w, "failed")
    /\ UNCHANGED <<packs, emptied, stagingLock, acked>>

(* Mutant: only what was staged is removed. *)
UndoNothing(w) ==
    /\ At(w, "undo") /\ call[w].replaced
    /\ Answer(w, "failed") /\ packLock' = Leave(w)
    /\ UNCHANGED <<packs, emptied, staged, stagingLock, acked, packFaults>>

UndoPack(w) ==
    /\ At(w, "undo") /\ call[w].replaced
    /\ \/ /\ packs' = [packs EXCEPT ![call[w].pack] = NoPack]
          /\ emptied' = emptied \cup {call[w].pack}
          /\ To(w, "unlinked")
          /\ NoFault /\ UNCHANGED packLock
       \/ /\ Faulty /\ Answer(w, "failed") /\ packLock' = Leave(w)
          /\ UNCHANGED <<packs, emptied>>
    /\ UNCHANGED <<staged, stagingLock, acked>>

UndoDirectory(w) ==
    /\ At(w, "unlinked")
    /\ \/ emptied' = emptied \ {call[w].pack} /\ NoFault
       \/ UNCHANGED emptied /\ Faulty
    /\ packLock' = Leave(w)
    /\ Answer(w, "failed")
    /\ UNCHANGED <<packs, staged, stagingLock, acked>>

(* new_revision: the latest revision is read, the next one written; a sync *)
(* that fails after the rename leaves a revision nobody was told of.       *)
ReadLatest(w) ==
    /\ At(w, "revise")
    /\ IF Visible(call[w].pack)
       THEN /\ call' = [call EXCEPT ![w].phase = "write", ![w].latest = Latest(call[w].pack)]
            /\ UNCHANGED packLock
       ELSE /\ Answer(w, IF call[w].pack \in emptied THEN "corrupt" ELSE "unknown")
            /\ packLock' = Leave(w)
    /\ UNCHANGED <<packs, emptied, staged, stagingLock, acked, packFaults>>

WriteRevision(w) ==
    /\ At(w, "write")
    /\ LET k == call[w].pack
           next == call[w].latest + 1
           content == Revision(w, packs[k][call[w].latest].by)
           written == [packs EXCEPT ![k] =
                          [r \in DOMAIN @ \cup {next} |-> IF r = next THEN content ELSE @[r]]]
       IN  \/ /\ NoFault /\ packs' = written
              /\ acked' = acked \cup {[pack |-> k, rev |-> next, content |-> content]}
              /\ Answer(w, "ok")
           \/ /\ Faulty /\ packs' \in {packs, written}
              /\ Answer(w, "failed")
              /\ UNCHANGED acked
    /\ packLock' = Leave(w)
    /\ UNCHANGED <<emptied, staged, stagingLock>>

(* get, latest and history, and the turn of list_ids for one pack; get     *)
(* looks for its one revision only.                                        *)
ReadPack(w) ==
    /\ call[w].phase \in {"history", "list"}
    /\ packLock' = Leave(w)
    /\ LET k == call[w].pack
       IN  IF Visible(k)
           THEN /\ Answer(w, IF DOMAIN packs[k] = 1 .. Latest(k) THEN "ok" ELSE "corrupt")
                /\ acked' = acked \cup {[pack |-> k, rev |-> r, content |-> packs[k][r]] :
                                           r \in DOMAIN packs[k]}
           ELSE /\ \E answer \in IF k \notin emptied THEN {"unknown"}
                                ELSE IF At(w, "list") THEN {"corrupt"}
                                ELSE {"corrupt", "unknown"} : Answer(w, answer)
                /\ UNCHANGED acked
    /\ UNCHANGED <<packs, emptied, staged, stagingLock, packFaults>>

DiePack(w) ==
    /\ call[w].phase \notin {"idle", "done"}
    /\ Faulty
    /\ Answer(w, "died")
    /\ packLock' = Leave(w)
    /\ stagingLock' = LeaveStaging(w)
    /\ UNCHANGED <<packs, emptied, staged, acked>>

(* Five minutes pass. *)
AgeStaging ==
    /\ \E k \in PackIds : staged[k] = "fresh" /\ staged' = [staged EXCEPT ![k] = "old"]
    /\ UNCHANGED <<packs, emptied, packLock, stagingLock, call, acked, packFaults>>

PackStep(w) ==
    \/ BeginPack(w) \/ Scan(w) \/ Stat(w) \/ Reap(w) \/ RemoveStale(w)
    \/ LockPack(w) \/ RefuseExistingPack(w) \/ LockStaging(w) \/ StagePack(w)
    \/ PublishPack(w) \/ SyncPack(w)
    \/ UndoStaging(w) \/ UndoPack(w) \/ UndoDirectory(w)
    \/ ReadLatest(w) \/ WriteRevision(w) \/ ReadPack(w) \/ DiePack(w)

PackNext == AgeStaging \/ \E w \in Writers : PackStep(w)

PackSpec == PackInit /\ [][PackNext]_packVars

-----------------------------------------------------------------------------
(* Properties. *)

(* A revision a caller was told of, by the write or by a read, stays as it *)
(* is: no later writer replaces it, and no failed creation takes it back.  *)
(* Revisions are 1, 2, ... and each was made from the one before it, so no *)
(* change is lost.                                                         *)
RevisionsAreKept ==
    /\ \A one \in acked :
          /\ one.rev \in DOMAIN packs[one.pack]
          /\ packs[one.pack][one.rev] = one.content
    /\ \A k \in PackIds : Visible(k) =>
          /\ DOMAIN packs[k] = 1 .. Latest(k)
          /\ \A r \in DOMAIN packs[k] \ {1} : packs[k][r].base = packs[k][r - 1].by

(* However long a creation takes, no clean-up takes the directory it has   *)
(* staged: _cleanup_stale_staging_dirs judges by age, before it has the    *)
(* lock.                                                                   *)
StagedPackIsSpared ==
    \A w \in Writers : At(w, "staged") => staged[call[w].pack] # "none"

(* Under the lock of a pack, every call is one step of PackContract.  A    *)
(* pack that was renamed into place is not one until its creation is       *)
(* answered, for nobody else has the lock: a creation that fails takes it  *)
(* back unseen; one whose process dies, or which cannot take it back,      *)
(* leaves it, or its empty directory.                                      *)
Creates(w) == At(w, "sync") \/ At(w, "unlinked") \/ (At(w, "undo") /\ call[w].replaced)
BeingCreated(k) == \E w \in Writers : call[w].pack = k /\ Creates(w)
PackSpoiled == {k \in emptied : ~BeingCreated(k)}
WrittenBy(k) == [r \in DOMAIN packs[k] |-> packs[k][r].by]

PackHistory == [k \in PackIds |-> IF BeingCreated(k) THEN <<>> ELSE WrittenBy(k)]
PackTold == [k \in PackIds |-> {one.rev : one \in {o \in acked : o.pack = k}}]
PackReplies == [w \in Writers |-> [kind |-> call[w].kind, pack |-> call[w].pack,
                                  result |-> call[w].result]]

PackPromise == INSTANCE PackContract WITH
    history <- PackHistory, told <- PackTold, spoiled <- PackSpoiled, calls <- PackReplies

EveryPackCallIsOneStep == PackPromise!Spec

(* What create promises when it raises.  No one fault, be it a write, a    *)
(* sync, a removal or a death, leaves a pack that every read refuses, or   *)
(* the pack of a creation that was answered as failed.                     *)
FailedCreationsLeaveNothing ==
    packFaults < 2 =>
        /\ PackSpoiled = {}
        /\ \A w \in Writers :
              call[w].kind = "create" /\ call[w].result = "failed" =>
                  ~Visible(call[w].pack) \/ packs[call[w].pack][1].by # w

-----------------------------------------------------------------------------
(* The inductive invariant behind the first two. *)

PackPhases == PackCalls \cup {"idle", "scan", "stat", "reap", "reaping", "lock",
                 "stage", "staged", "sync", "undo", "unlinked", "write", "done"}
PackAnswers == {"none", "ok", "vanished", "timeout", "exists", "failed", "unknown",
                "corrupt", "died"}
PackCallRecords ==
    [kind : PackCalls \cup {"none"}, pack : PackIds \cup {"none"}, result : PackAnswers,
     replaced : BOOLEAN, todo : SUBSET PackIds, seen : PackIds \cup {"none"},
     latest : Nat, phase : PackPhases]

PackOK ==
    /\ packs = [k \in PackIds |-> packs[k]]
    /\ \A k \in PackIds : Visible(k) => Latest(k) \in Nat \ {0}
    /\ emptied \subseteq PackIds /\ \A k \in emptied : ~Visible(k)
    /\ staged \in [PackIds -> {"none", "fresh", "old"}]
    /\ packLock \in [PackIds -> Writers \cup {Free}]
    /\ stagingLock \in [PackIds -> Writers \cup {Free}]
    /\ call \in [Writers -> PackCallRecords]
    /\ \A one \in acked : one.pack \in PackIds
    /\ packFaults \in 0 .. MaxPackFaults

Untold(k) == \A one \in acked : one.pack # k

(* A call has the locks its phase needs, and what it found under them is   *)
(* still so.                                                               *)
Holds(w) ==
    /\ ~At(w, "idle") => /\ call[w].kind \in PackCalls
                          /\ call[w].pack \in PackIds /\ Seen(w) \in PackIds
    /\ call[w].phase \in {"create", "stage", "staged", "sync", "undo", "unlinked", "revise",
                          "write", "history", "list"} => packLock[call[w].pack] = w
    /\ call[w].phase \in {"stage", "staged", "sync"} => stagingLock[call[w].pack] = w
    /\ At(w, "reaping") => stagingLock[Seen(w)] = w

Finds(w) ==
    /\ call[w].phase \in {"idle", "scan", "stat", "reap", "reaping", "lock", "create", "stage",
                          "staged"} => ~call[w].replaced
    /\ call[w].phase \in {"stage", "staged"} => ~IsThere(call[w].pack)
    /\ At(w, "undo") /\ ~call[w].replaced => ~IsThere(call[w].pack)
    /\ Creates(w) => Untold(call[w].pack)
    /\ At(w, "unlinked") => call[w].pack \in emptied
    /\ At(w, "sync") => call[w].replaced /\ packs[call[w].pack] = FirstRevision(w)
    /\ At(w, "write") => Visible(call[w].pack) /\ call[w].latest = Latest(call[w].pack)
    /\ At(w, "staged") => staged[call[w].pack] # "none"

IPack == PackOK /\ RevisionsAreKept /\ \A w \in Writers : Holds(w) /\ Finds(w)

(* And what the third needs of a call: what was asked for is what is done, *)
(* nothing is answered before the end, and a creation that is taken back   *)
(* is alone in its pack.                                                   *)
Serves(w) ==
    /\ ~At(w, "done") => call[w].result = "none"
    /\ At(w, "idle") => call[w].kind = "none"
    /\ call[w].phase \in {"scan", "stat", "reap", "reaping"} => call[w].kind \in {"create", "open"}
    /\ At(w, "lock") => call[w].kind # "open"
    /\ call[w].phase \in {"create", "stage", "staged", "sync", "undo", "unlinked"} =>
          call[w].kind = "create"
    /\ call[w].phase \in {"revise", "write"} => call[w].kind = "revise"
    /\ call[w].phase \in {"history", "list"} => call[w].kind = call[w].phase
    /\ Creates(w) /\ ~At(w, "unlinked") => packs[call[w].pack] = FirstRevision(w)

IPackCalls == IPack /\ \A w \in Writers : Serves(w)

(* And the fourth: a creation is undone after its first fault, and leaves  *)
(* something after its second.                                             *)
FirstIsNotOf(w) == \A k \in PackIds : Visible(k) => packs[k][1].by # w

IFailures ==
    /\ packFaults = 0 => \A w \in Writers : Creates(w) => At(w, "sync")
    /\ \A w \in Writers : ~call[w].replaced => FirstIsNotOf(w)
    /\ FailedCreationsLeaveNothing
=============================================================================
