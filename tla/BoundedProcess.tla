--------------------------- MODULE BoundedProcess ---------------------------
(***************************************************************************)
(* run_bounded_process and what its two users make of the result: one      *)
(* child, the leader of its own process group, the descendants it forks,   *)
(* and a thread that drains its output.  A descendant may keep the pipe    *)
(* open, ignore SIGTERM, or leave the group.  Deadlines pass at any time:  *)
(* a wait with a timeout is a choice between what it waits for, when that  *)
(* has happened, and its expiry.  The output is one pipe; stderr is alike. *)
(***************************************************************************)
EXTENDS Naturals

CONSTANTS
    Kin,            (* descendants the child may fork                         *)
    MaxOutput,      (* chunks it may write                                    *)
    PipeSize,       (* chunks the pipe holds                                  *)
    CaptureLimit    (* max_capture_bytes, in chunks                           *)

ASSUME ProcessConstantsOK ==
    /\ {MaxOutput, PipeSize, CaptureLimit} \subseteq Nat
    /\ PipeSize > 0
    /\ "leader" \notin Kin

VARIABLES
    run,        (* the caller                                                 *)
    leader,     (* the child                                                  *)
    kin,        (* its descendants                                            *)
    pipe,       (* written, unread, captured chunks; whether the reader ended *)
    killed      (* what SIGKILL was sent to                                   *)

processVars == <<run, leader, kin, pipe, killed>>

NotForked == [alive |-> FALSE, holds |-> FALSE, inGroup |-> FALSE, stubborn |-> FALSE]

ProcessInit ==
    /\ run = [phase |-> "idle", user |-> "none", timedOut |-> FALSE, returncode |-> "none",
              whole |-> FALSE, abandoned |-> FALSE, result |-> "none"]
    /\ leader = [state |-> "none", stubborn |-> FALSE, code |-> "none"]
    /\ kin = [d \in Kin |-> NotForked]
    /\ pipe = [written |-> 0, unread |-> 0, captured |-> 0, ended |-> FALSE]
    /\ killed = {}

Phase(phase) == run.phase = phase
Turn(phase) == run' = [run EXCEPT !.phase = phase]

-----------------------------------------------------------------------------
(* The child and its descendants. *)

LeaderRuns == leader.state = "running" /\ "leader" \notin killed
Alive(d) == kin[d].alive /\ d \notin killed

Fork(d) ==
    /\ LeaderRuns /\ kin[d] = NotForked
    /\ \E holds, inGroup, stubborn \in BOOLEAN :
          kin' = [kin EXCEPT ![d] = [alive |-> TRUE, holds |-> holds,
                                     inGroup |-> inGroup, stubborn |-> stubborn]]
    /\ UNCHANGED <<run, leader, pipe, killed>>

WriteOutput ==
    /\ LeaderRuns /\ pipe.written < MaxOutput /\ pipe.unread < PipeSize
    /\ pipe' = [pipe EXCEPT !.written = @ + 1, !.unread = @ + 1]
    /\ UNCHANGED <<run, leader, kin, killed>>

ExitLeader ==
    /\ LeaderRuns
    /\ \E code \in {"0", "nonzero"} : leader' = [leader EXCEPT !.state = "exited", !.code = code]
    /\ UNCHANGED <<run, kin, pipe, killed>>

(* A descendant exits, or closes the pipe. *)
ExitKin(d) ==
    /\ Alive(d)
    /\ kin' \in {[kin EXCEPT ![d].alive = FALSE], [kin EXCEPT ![d].holds = FALSE]}
    /\ UNCHANGED <<run, leader, pipe, killed>>

(* A SIGKILL takes effect. *)
DieOf(x) ==
    /\ x \in killed
    /\ IF x = "leader"
       THEN /\ leader.state = "running" /\ UNCHANGED kin
            /\ leader' = [leader EXCEPT !.state = "exited", !.code = "signal"]
       ELSE kin[x].alive /\ kin' = [kin EXCEPT ![x].alive = FALSE] /\ UNCHANGED leader
    /\ UNCHANGED <<run, pipe, killed>>

(* _FdReader: chunks past the limit are read, and dropped. *)
HeldOpen == leader.state = "running" \/ \E d \in Kin : kin[d].alive /\ kin[d].holds

ReadOutput ==
    /\ leader.state # "none" /\ ~pipe.ended
    /\ IF pipe.unread > 0
       THEN pipe' = [pipe EXCEPT !.unread = @ - 1,
                                 !.captured = IF @ < CaptureLimit THEN @ + 1 ELSE @]
       ELSE ~HeldOpen /\ pipe' = [pipe EXCEPT !.ended = TRUE]
    /\ UNCHANGED <<run, leader, kin, killed>>

-----------------------------------------------------------------------------
(* The caller. *)

(* CommandProvider.generate and run_febuilder_cli, before the process:     *)
(* without an argv neither starts one; one that cannot be started raises,  *)
(* which only run_febuilder_cli turns into a result.                       *)
StartProcess ==
    /\ Phase("idle")
    /\ \E user \in {"provider", "febuilder"} :
          \/ \E stubborn \in BOOLEAN :
                /\ run' = [run EXCEPT !.phase = "waiting", !.user = user]
                /\ leader' = [leader EXCEPT !.state = "running", !.stubborn = stubborn]
          \/ \E result \in IF user = "provider" THEN {"REFUSED", "raised"}
                           ELSE {"not_run", "failed"} :
                /\ run' = [run EXCEPT !.phase = "answered", !.user = user, !.result = result]
                /\ UNCHANGED leader
    /\ UNCHANGED <<kin, pipe, killed>>

(* proc.wait(timeout): the child is reaped, or the deadline has passed, be *)
(* it that the child exits at this moment.                                 *)
WaitForLeader ==
    /\ Phase("waiting")
    /\ \/ /\ leader.state = "exited"
          /\ leader' = [leader EXCEPT !.state = "reaped"]
          /\ run' = [run EXCEPT !.phase = "draining", !.returncode = leader.code]
       \/ /\ run' = [run EXCEPT !.phase = "term", !.timedOut = TRUE]
          /\ UNCHANGED leader
    /\ UNCHANGED <<kin, pipe, killed>>

Group == {d \in Kin : kin[d].inGroup /\ kin[d].alive}
         \cup {x \in {"leader"} : leader.state = "running"}

(* _terminate_posix_group: SIGTERM to the group, which a stubborn process  *)
(* ignores; the others exit, at once or before the next signal.            *)
Terminate ==
    /\ Phase("term")
    /\ Turn("grace")
    /\ \E gone \in SUBSET {d \in Group \ {"leader"} : ~kin[d].stubborn} :
          kin' = [d \in Kin |-> IF d \in gone THEN [kin[d] EXCEPT !.alive = FALSE] ELSE kin[d]]
    /\ leader' \in {leader} \cup
          {[leader EXCEPT !.state = "exited", !.code = "signal"] :
              x \in {x \in Group : x = "leader" /\ ~leader.stubborn}}
    /\ UNCHANGED <<pipe, killed>>

Reap1 == leader.state = "exited" /\ leader' = [leader EXCEPT !.state = "reaped"]

(* Mutant: once the leader has been reaped, its group is left alone. *)
GraceForLeader ==
    /\ Phase("grace")
    /\ \/ Reap1 /\ Turn("draining") /\ UNCHANGED killed
       \/ killed' = killed \cup Group /\ Turn("kill") /\ UNCHANGED leader
    /\ UNCHANGED <<kin, pipe>>

(* Reaped in time or not, the group is sent SIGKILL; not reaped, the       *)
(* leader is waited for once more.                                         *)
Grace ==
    /\ Phase("grace")
    /\ \/ Reap1 /\ killed' = killed \cup (Group \ {"leader"}) /\ Turn("draining")
       \/ killed' = killed \cup Group /\ Turn("kill") /\ UNCHANGED leader
    /\ UNCHANGED <<kin, pipe>>

WaitForKill ==
    /\ Phase("kill")
    /\ Reap1 \/ UNCHANGED leader
    /\ Turn("draining")
    /\ UNCHANGED <<kin, pipe, killed>>

(* Mutant: the reader is waited for until it ends. *)
DrainForever ==
    /\ Phase("draining") /\ pipe.ended
    /\ run' = [run EXCEPT !.phase = "returned", !.abandoned = ~pipe.ended,
                          !.whole = pipe.captured = pipe.written]
    /\ UNCHANGED <<leader, kin, pipe, killed>>

(* finish: the threads are joined, for a bounded time each; an output pipe *)
(* that somebody holds is abandoned, and what was read so far is the       *)
(* result.                                                                 *)
Drain ==
    /\ Phase("draining")
    /\ run' = [run EXCEPT !.phase = "returned", !.abandoned = ~pipe.ended,
                          !.whole = pipe.captured = pipe.written]
    /\ UNCHANGED <<leader, kin, pipe, killed>>

(* What the two users say of the result.  An answer that is not all there  *)
(* is not JSON; one that is may still break the protocol.                  *)
Results ==
    IF run.user = "febuilder"
    THEN IF run.timedOut THEN {"failed"}
         ELSE {"failed"} \cup {s \in {"passed"} : run.returncode = "0"}
    ELSE IF run.timedOut THEN {"PROVIDER_TIMEOUT"}
    ELSE IF run.returncode # "0" THEN {"PROVIDER_COMMAND_FAILED"}
    ELSE {"PROVIDER_INVALID_RESPONSE"} \cup {s \in {"ok"} : run.whole}

Conclude ==
    /\ Phase("returned")
    /\ \E result \in Results : run' = [run EXCEPT !.phase = "answered", !.result = result]
    /\ UNCHANGED <<leader, kin, pipe, killed>>

CallerStep == WaitForLeader \/ Terminate \/ Grace \/ WaitForKill \/ Drain \/ Conclude

ProcessNext ==
    \/ StartProcess \/ CallerStep
    \/ WriteOutput \/ ExitLeader \/ ReadOutput
    \/ \E d \in Kin : Fork(d) \/ ExitKin(d)
    \/ \E x \in Kin \cup {"leader"} : DieOf(x)

ProcessSpec == ProcessInit /\ [][ProcessNext]_processVars

(* Every wait of the caller has a deadline; nothing is assumed of the      *)
(* child, its descendants or the reader.                                   *)
ProcessFairness == WF_processVars(CallerStep)

-----------------------------------------------------------------------------
(* Properties. *)

(* The docstring of BoundedProcessResult: no exit status exactly when the  *)
(* run timed out.  A status is one the child chose, not one it was killed  *)
(* with; after a timeout nothing of its group is left that was not killed; *)
(* and output is only missing when somebody still holds the pipe, the      *)
(* reader is late, or it is past the limit.                                *)
BoundedRunIsHonest ==
    run.phase \in {"returned", "answered"} /\ leader.state # "none" =>
        /\ (run.returncode = "none") = run.timedOut
        /\ ~run.timedOut => leader.code \in {"0", "nonzero"} /\ run.returncode = leader.code
        /\ run.timedOut => Group \subseteq killed
        /\ ~run.abandoned /\ pipe.written <= CaptureLimit => run.whole

(* The call returns, whatever the child and its descendants do. *)
EveryRunReturns == Phase("waiting") ~> Phase("answered")

-----------------------------------------------------------------------------
(* The inductive invariant behind the first. *)

Phases == {"idle", "waiting", "term", "grace", "kill", "draining", "returned", "answered"}
Codes  == {"none", "0", "nonzero", "signal"}
Runs ==
    [phase : Phases, user : {"none", "provider", "febuilder"}, timedOut : BOOLEAN,
     returncode : Codes, whole : BOOLEAN, abandoned : BOOLEAN,
     result : {"none", "REFUSED", "raised", "not_run", "failed", "passed", "ok",
               "PROVIDER_TIMEOUT", "PROVIDER_COMMAND_FAILED", "PROVIDER_INVALID_RESPONSE"}]
Leaders ==
    [state : {"none", "running", "exited", "reaped"}, stubborn : BOOLEAN, code : Codes]
Relatives == [alive : BOOLEAN, holds : BOOLEAN, inGroup : BOOLEAN, stubborn : BOOLEAN]
Pipes == [written : Nat, unread : Nat, captured : Nat, ended : BOOLEAN]

ProcessOK ==
    run \in Runs /\ leader \in Leaders /\ kin \in [Kin -> Relatives] /\ pipe \in Pipes

(* Before the deadline nothing is killed and the child ends by itself;     *)
(* without one, the status is the one it was reaped with.                  *)
StatusFits ==
    /\ Phase("idle") => leader.state = "none"
    /\ leader.state = "none" => run.phase \in {"idle", "answered"}
    /\ run.phase \in {"idle", "waiting"} => ~run.timedOut
    /\ run.phase \in {"term", "grace", "kill"} => run.timedOut
    /\ ~run.timedOut => killed = {}
    /\ ~run.timedOut /\ leader.state \in {"exited", "reaped"} => leader.code \in {"0", "nonzero"}
    /\ run.timedOut \/ run.phase \in {"idle", "waiting"} => run.returncode = "none"
    /\ run.phase \in {"draining", "returned", "answered"} /\ leader.state # "none" /\ ~run.timedOut
          => leader.state = "reaped" /\ run.returncode = leader.code

(* From the second signal on, what is alive of the group has been killed,  *)
(* the child too if it still runs, so that it forks no more.               *)
GroupFits ==
    run.timedOut /\ run.phase \in {"kill", "draining", "returned", "answered"} => Group \subseteq killed

(* Nothing written is lost below the limit, and a reader that ended has    *)
(* nothing more to come.                                                   *)
PipeFits ==
    /\ leader.state = "none" => pipe.written = 0
    /\ pipe.captured + pipe.unread <= pipe.written
    /\ pipe.captured < CaptureLimit => pipe.captured + pipe.unread = pipe.written
    /\ pipe.ended => pipe.unread = 0 /\ ~HeldOpen /\ leader.state # "none"
    /\ run.phase \in {"returned", "answered"} /\ leader.state # "none" /\ ~run.abandoned
          => pipe.ended /\ run.whole = (pipe.captured = pipe.written)

IProcess == ProcessOK /\ StatusFits /\ GroupFits /\ PipeFits
=============================================================================
