----------------------------- MODULE MCServices -----------------------------
(***************************************************************************)
(* What surrounds the jobs: the adapters, whose requests meet one job, and *)
(* four services that share no state with it or with one another.  A       *)
(* behaviour is one of the five at work, the others at rest.               *)
(***************************************************************************)
EXTENDS Requests, Upload, PackStore, Lineage, BoundedProcess

VARIABLE service

Services == {"requests", "upload", "packs", "lineage", "process"}
Works(s) == service = s /\ UNCHANGED service

(* Bodies: one of every way to be right or wrong, in chunks.  Of two       *)
(* uploads one at least is as it should be: two that are refused have      *)
(* nothing to do with one another.                                         *)
A(size) == [name |-> "a", size |-> size]
B(size) == [name |-> "b", size |-> size]
Body(files, declared) == [files |-> files, framing |-> 1, declared |-> declared]
Right == Body(<<A(1), B(2)>>, 4)
MCBodies ==
    {Right, Body(<<A(1)>>, 6), Body(<<A(3)>>, 4), Body(<<A(2), B(2)>>, 0),
     Body(<<A(1), [name |-> "A", size |-> 1]>>, 3),
     Body(<<[name |-> "../x", size |-> 1]>>, 2),
     Body(<<A(2), B(2), [name |-> "c", size |-> 1]>>, 0),
     Body(<<A(2), B(2), [name |-> "c", size |-> 1]>>, 6)}
OneIsRight == Cardinality({u \in Uploads : up[u].body \notin {Nothing, Right}}) < 2
MCFolded(name) == IF name = "A" THEN "a" ELSE name

AtRest ==
    /\ state = "created" /\ disk = {} /\ health = "visible" /\ pack = "none" /\ parent = "none"
    /\ request = [via |-> "http", op |-> "list_jobs", input |-> "good", phase |-> "answered",
                  code |-> "ok", raised |-> Quiet, at |-> "call"]

(* The part that is at work starts anywhere it can start, another in one   *)
(* place only.                                                             *)
ServicesInit ==
    /\ service \in Services
    /\ UploadInit /\ (service # "upload" => sourcesState = "early")
    /\ LineageInit /\ ProcessInit
    /\ PackInit /\ (service # "packs" => packs = [k \in PackIds |-> NoPack])
    /\ IF service = "requests" THEN Init ELSE AtRest

ServicesNext ==
    \/ /\ Works("requests") /\ Next
       /\ UNCHANGED <<uploadVars, packVars, lineageVars, processVars>>
    \/ /\ Works("upload") /\ UploadNext /\ OneIsRight'
       /\ UNCHANGED <<vars, packVars, lineageVars, processVars>>
    \/ /\ Works("packs") /\ PackNext
       /\ UNCHANGED <<vars, uploadVars, lineageVars, processVars>>
    \/ /\ Works("lineage") /\ LineageNext
       /\ UNCHANGED <<vars, uploadVars, packVars, processVars>>
    \/ /\ Works("process") /\ ProcessNext
       /\ UNCHANGED <<vars, uploadVars, packVars, lineageVars>>

ServicesSpec ==
    /\ ServicesInit
    /\ [][ServicesNext]_<<service, vars, uploadVars, packVars, lineageVars, processVars>>
    /\ ProcessFairness
=============================================================================
