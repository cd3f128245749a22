----------------------------- MODULE JobArtifacts -----------------------------
(***************************************************************************)
(* What a step of JobLifecycle does to the job as others see it, when      *)
(* writes either take effect or fail without one: it is invisible, or it   *)
(* commits a whole transaction, or a failed removal or a dead caller       *)
(* leaves part of one behind.  The invariants below say what an open       *)
(* transaction has published and what it still relies on; everything about *)
(* artifacts and the log follows from them and from the four effects.      *)
(***************************************************************************)
EXTENDS JobInvariant

(* The kinds of faults a result is about.  With MaxEvents >= LongestLog    *)
(* the log never refuses an event.                                         *)
LongestLog == 12

NoLateFaults == "late" \notin FaultKinds
CleanFaults  == FaultKinds \subseteq {"clean"}
CrashFaults  == FaultKinds \subseteq {"crash"} /\ MaxEvents >= LongestLog
NoFaults     == FaultKinds = {} /\ MaxEvents >= LongestLog

-----------------------------------------------------------------------------
Elements(s) == {s[i] : i \in 1 .. Len(s)}

(* Everything the hook of an operation publishes. *)
Published(op) == Elements(Publishes(op))

VisibleChildren ==
    IF InTransaction /\ "child" \in task[lock].done THEN children - 1
                                                    ELSE children

visible == <<VisibleState, VisibleRevision, VisibleDisk, VisibleChildren, log>>

(* candidate.json lives in the candidate directory. *)
SnapshotIsInside == "snapshot" \in disk => "candidate" \in disk

(* What an open transaction has published so far and what it has saved.    *)
Publishing(p) ==
    pc[p] \in Transacting =>
        /\ task[p].done \subseteq Published(task[p].op)
        /\ task[p].done \ {"child"} \subseteq disk
        /\ pc[p] # "undo" =>
              task[p].done \cup Elements(task[p].todo) = Published(task[p].op)
        /\ pc[p] \in {"save", "append"} => task[p].todo = <<>>
        /\ {"candidate", "snapshot"} \cap task[p].done = {"candidate"} =>
              "snapshot" \notin disk
        /\ pc[p] = "hook" /\ task[p].op # "finalize" =>
              \/ "candidate" \in task[p].done
              \/ task[p].todo = Publishes(task[p].op) /\ task[p].done = {}
        /\ task[p].op = "retry" => ~Retried
        /\ state = IF task[p].saved THEN SavedState(task[p]) ELSE task[p].prev.state
        /\ revision = IF task[p].saved THEN task[p].prev.revision + 1
                                       ELSE task[p].prev.revision

(* What the hook checked still holds of the job as others see it. *)
Guarded(p) ==
    pc[p] \in {"hook", "save", "append"} =>
        /\ task[p].op = "submit" => "submitted" \notin VisibleDisk
        /\ task[p].op = "publish" => "candidate" \notin VisibleDisk
        /\ task[p].op \in {"approve", "reject"} =>
              /\ task[p].prev.state = "waiting_for_review"
              /\ VisibleDisk \cap Decisions = {}
        /\ task[p].op = "finalize" =>
              /\ task[p].prev.state = "waiting_for_review"
              /\ VisibleDisk \cap FinalFiles = {}
        /\ task[p].op = "retry" => task[p].prev.state = "failed"
        /\ task[p].op = "claim_failed" => task[p].prev.state \in Claimable

(* The path of an operation, and the state a build still finds when its    *)
(* provider is done.                                                       *)
Chosen(p) ==
    /\ task[p].op = "submit" =>
          task[p].plan = <<>> \/ Target(task[p].plan) = "waiting_for_sources"
    /\ task[p].op \in {"publish", "mark_failed"} =>
          VisibleState \in {"processing", "cancelled"}
    /\ task[p].op = "publish" =>
          task[p].plan = IF pc[p] \in Transacting THEN <<"waiting_for_review">>
                                                  ELSE <<>>
    /\ task[p].op = "mark_failed" => task[p].plan \in {<<>>, <<"failed">>}
    /\ task[p].op = "finalize" /\ pc[p] \in {"lock"} \cup Transacting =>
          task[p].plan # <<>>

IArtifacts ==
    /\ SnapshotIsInside
    /\ \A p \in Procs : Publishing(p) /\ Guarded(p) /\ Chosen(p)

-----------------------------------------------------------------------------
(* The effects of a step of p. *)

Unseen == UNCHANGED visible

Commits(p) ==
    /\ pc[p] = "append"
    /\ WithinBudget(task[p])
    /\ log' = log \o NewEvents(task[p])
    /\ VisibleState' = IF task[p].plan = <<>> THEN VisibleState
                                              ELSE SavedState(task[p])
    /\ VisibleRevision' = IF task[p].plan = <<>> THEN VisibleRevision
                                                 ELSE VisibleRevision + 1
    /\ VisibleDisk' = VisibleDisk \cup (Published(task[p].op) \ {"child"})
    /\ VisibleChildren' = IF "child" \in Published(task[p].op)
                          THEN VisibleChildren + 1 ELSE VisibleChildren

(* Part of what the transaction published stays behind. *)
LeavesPart(p) ==
    /\ log' = log
    /\ VisibleDisk \subseteq VisibleDisk'
    /\ VisibleDisk' \subseteq VisibleDisk \cup (Published(task[p].op) \ {"child"})

LeavesBehind(p) ==
    /\ "cleanup" \in FaultKinds
    /\ pc[p] = "undo"
    /\ LeavesPart(p)
    /\ VisibleState' = VisibleState

Dies(p) ==
    /\ "crash" \in FaultKinds
    /\ pc[p] \in Transacting
    /\ LeavesPart(p)
    /\ VisibleState' = state
    /\ pc[p] = "append" =>
          VisibleDisk' = VisibleDisk \cup (Published(task[p].op) \ {"child"})

Effect(p) == Unseen \/ Commits(p) \/ LeavesBehind(p) \/ Dies(p)

-----------------------------------------------------------------------------
(* A job under review or completed has its artifacts, to whoever reads it  *)
(* under its lock.                                                         *)
IBacked ==
    /\ VisibleState \in {"waiting_for_review", "completed"} =>
          Candidate \subseteq VisibleDisk
    /\ VisibleState = "completed" => Final \subseteq VisibleDisk

(* With crashes alone the log stays short: each transition of the table    *)
(* but those out of review takes the job further, and the other events are *)
(* recorded once.  So nothing is compensated after job.json was saved, and *)
(* an approval that was seen stays.                                        *)
Rank == [created |-> 0, planning |-> 1, waiting_for_provider |-> 2,
         waiting_for_sources |-> 3, processing |-> 4, waiting_for_review |-> 5,
         validating |-> 6, completed |-> 7, failed |-> 7, cancelled |-> 7]

Mark(a) == IF a \in VisibleDisk THEN 1 ELSE 0

LogIsShort ==
    Len(log) <= 1 + Rank[VisibleState] + Mark("submitted") + Mark("approved")
                  + Mark("rejected") + (IF Retried THEN 1 ELSE 0)

ApprovalIsSeen(p) ==
    /\ task[p].op = "finalize" /\ pc[p] \in {"lock"} \cup Transacting =>
          "approved" \in disk
    /\ pc[p] = "undo" => ~task[p].saved /\ "approved" \notin task[p].done

ICrash ==
    /\ IBacked
    /\ LogIsShort
    /\ VisibleState = "completed" => "approved" \in VisibleDisk
    /\ \A p \in Procs : ApprovalIsSeen(p)

-----------------------------------------------------------------------------
(* Without crashes and failing removals, the artifacts others see and the  *)
(* log tell the same story.                                                *)
Reviewed == {"waiting_for_review", "completed", "failed", "cancelled"}

ArtifactsMatchLog ==
    /\ "candidate" \in VisibleDisk <=> HasReached("waiting_for_review")
    /\ "package" \in VisibleDisk <=> HasReached("completed")
    /\ "submitted" \in VisibleDisk <=> HasNote("sources_submitted")
    /\ "approved" \in VisibleDisk <=> HasNote("review_approved")
    /\ "rejected" \in VisibleDisk <=> HasNote("review_rejected")
    /\ VisibleChildren = IF Retried THEN 1 ELSE 0

DecisionsMatchState ==
    /\ "rejected" \in VisibleDisk =>
          VisibleState = "failed" /\ "approved" \notin VisibleDisk
    /\ "approved" \in VisibleDisk =>
          VisibleState \in {"waiting_for_review", "completed", "cancelled"}

OutputsMatchState ==
    /\ Candidate \subseteq VisibleDisk \/ Candidate \cap VisibleDisk = {}
    /\ Final \subseteq VisibleDisk \/ Final \cap VisibleDisk = {}
    /\ Candidate \cap VisibleDisk # {} => VisibleState \in Reviewed
    /\ Final \cap VisibleDisk # {} => VisibleState = "completed"

(* Where the first i events of a log lead. *)
LoggedIn(l, i) ==
    LET before == {j \in 1 .. i : IsTransition(l[j])}
    IN  IF before = {} THEN "created"
        ELSE l[CHOOSE j \in before : \A k \in before : k <= j].to

Replays(l, s) ==
    /\ LoggedIn(l, Len(l)) = s
    /\ \A i \in 1 .. Len(l) :
          IsTransition(l[i]) => l[i].from = LoggedIn(l, i - 1)

IClean ==
    /\ ArtifactsMatchLog
    /\ DecisionsMatchState
    /\ OutputsMatchState
    /\ Replays(log, VisibleState)
=============================================================================
