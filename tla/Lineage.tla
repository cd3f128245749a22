------------------------------ MODULE Lineage ------------------------------
(***************************************************************************)
(* The lineage graph: one file per asset, naming its parents.  A node is   *)
(* added while its job publishes, and discarded again when that            *)
(* publication is rolled back; add and discard_pending hold the lock of    *)
(* the graph, readers only the lock of one node at a time.  A job names    *)
(* its parents when it is created, and they must be in the graph then.     *)
(***************************************************************************)
EXTENDS Naturals, Sequences, FiniteSets, SequencesExt

CONSTANTS
    Assets,             (* asset ids, each published by one job               *)
    Readers,            (* callers of ancestors and children                  *)
    MaxLineageFaults    (* publications that fail, and processes that die     *)

NoPublisher == "nobody"

ASSUME LineageConstantsOK == MaxLineageFaults \in Nat /\ NoPublisher \notin Assets

VARIABLES
    nodes,          (* the assets that have a file; it names the parents of   *)
                    (* the job that publishes them                            *)
    publication,    (* asset -> the publication of its job                    *)
    graphLock,      (* the asset that is being added or discarded             *)
    walk,           (* reader -> its call                                     *)
    orphaned,       (* nodes discarded although they had children             *)
    lineageFaults

lineageVars == <<nodes, publication, graphLock, walk, orphaned, lineageFaults>>

ParentsOf(a) == publication[a].parents
Names(parents) == Range(parents)
ParentLists ==
    {SetToSeq(s) : s \in {s \in SUBSET Assets : IsFiniteSet(s) /\ Cardinality(s) <= 2}}

LineageInit ==
    /\ nodes = {}
    /\ publication = [a \in Assets |-> [phase |-> "none", parents |-> <<>>]]
    /\ graphLock = NoPublisher
    /\ walk = [r \in Readers |-> [phase |-> "idle"]]
    /\ orphaned = {}
    /\ lineageFaults = 0

In(a, phase) == publication[a].phase = phase
Turns(a, phase) == publication' = [publication EXCEPT ![a].phase = phase]
PublicationFails == lineageFaults < MaxLineageFaults /\ lineageFaults' = lineageFaults + 1
PublicationHolds == UNCHANGED lineageFaults

-----------------------------------------------------------------------------
(* Publications. *)

(* create_job and retry_job: _require_known_parent_asset reads the parents *)
(* under their own locks.                                                  *)
CreateBelow(a) ==
    /\ In(a, "none")
    /\ \E parents \in ParentLists :
          /\ Names(parents) \subseteq nodes
          /\ publication' = [publication EXCEPT ![a] = [phase |-> "created", parents |-> parents]]
    /\ UNCHANGED <<nodes, graphLock, walk, orphaned, lineageFaults>>

(* add: the asset is new and its parents are there.  A refusal fails the   *)
(* build, which may be called again.                                       *)
CheckParents(a) ==
    /\ In(a, "created") /\ graphLock = NoPublisher
    /\ a \notin nodes /\ a \notin Names(ParentsOf(a)) /\ Names(ParentsOf(a)) \subseteq nodes
    /\ graphLock' = a
    /\ Turns(a, "checked")
    /\ UNCHANGED <<nodes, walk, orphaned, lineageFaults>>

(* The write is atomic; when only its last sync fails, the node stays and  *)
(* is not discarded: every later add of the asset is refused.              *)
WriteNode(a) ==
    /\ In(a, "checked")
    /\ \/ /\ PublicationHolds /\ Turns(a, "added")
          /\ nodes' = nodes \cup {a}
       \/ /\ PublicationFails /\ Turns(a, "created")
          /\ nodes' \in {nodes, nodes \cup {a}}
    /\ graphLock' = NoPublisher
    /\ UNCHANGED <<walk, orphaned>>

(* The state of the job is persisted, or that fails and rollback begins. *)
PersistJob(a) ==
    /\ In(a, "added")
    /\ \/ PublicationHolds /\ Turns(a, "published")
       \/ PublicationFails /\ Turns(a, "rollback")
    /\ UNCHANGED <<nodes, graphLock, walk, orphaned>>

HasChildren(a) == \E b \in nodes : a \in Names(ParentsOf(b))

(* Mutant: the node is unlinked without the lock of the graph. *)
DiscardUnlocked(a) ==
    /\ In(a, "rollback")
    /\ nodes' = nodes \ {a}
    /\ orphaned' = IF HasChildren(a) THEN orphaned \cup {a} ELSE orphaned
    /\ Turns(a, "created")
    /\ UNCHANGED <<graphLock, walk, lineageFaults>>

(* discard_pending unlinks the node, whoever has been added below it. *)
Discard(a) ==
    /\ In(a, "rollback") /\ graphLock = NoPublisher
    /\ nodes' = nodes \ {a}
    /\ orphaned' = IF HasChildren(a) THEN orphaned \cup {a} ELSE orphaned
    /\ Turns(a, "created")
    /\ UNCHANGED <<graphLock, walk, lineageFaults>>

(* The publishing process dies; the job can be built again. *)
DiePublishing(a) ==
    /\ publication[a].phase \in {"checked", "added", "rollback"}
    /\ PublicationFails /\ Turns(a, "created")
    /\ graphLock' = IF graphLock = a THEN NoPublisher ELSE graphLock
    /\ UNCHANGED <<nodes, walk, orphaned>>

-----------------------------------------------------------------------------
(* Readers. *)

Ends(r, result) == walk' = [walk EXCEPT ![r].phase = "done", ![r].result = result]
Still == UNCHANGED <<nodes, publication, graphLock, orphaned, lineageFaults>>

(* Both calls get the node they are asked about first. *)
BeginWalk(r) ==
    /\ walk[r].phase = "idle"
    /\ \E a \in Assets, kind \in {"ancestors", "children"} :
          LET begun(phase, todo, result) ==
                [phase |-> phase, of |-> a, kind |-> kind, result |-> result, todo |-> todo,
                 found |-> <<>>, settled |-> {b \in nodes : In(b, "published")}]
          IN  walk' = [walk EXCEPT ![r] =
                IF a \notin nodes THEN begun("done", <<>>, "unknown")
                ELSE IF kind = "ancestors" THEN begun("ancestors", ParentsOf(a), "none")
                ELSE begun("list", <<>>, "none")]
    /\ Still

NextUp(r) == Head(walk[r].todo)
Rest(r) == Tail(walk[r].todo)

(* Mutant: an asset reached twice is read twice. *)
StepUpAgain(r) ==
    /\ walk[r].phase = "ancestors"
    /\ IF walk[r].todo = <<>> THEN Ends(r, "ok")
       ELSE IF NextUp(r) \notin nodes THEN Ends(r, "missing")
       ELSE walk' = [walk EXCEPT ![r].found = Append(@, NextUp(r)),
                                 ![r].todo = Rest(r) \o ParentsOf(NextUp(r))]
    /\ Still

(* ancestors: breadth first, each node read under its own lock. *)
StepUp(r) ==
    /\ walk[r].phase = "ancestors"
    /\ IF walk[r].todo = <<>> THEN Ends(r, "ok")
       ELSE IF NextUp(r) \in Names(walk[r].found)
       THEN walk' = [walk EXCEPT ![r].todo = Rest(r)]
       ELSE IF NextUp(r) \notin nodes THEN Ends(r, "missing")
       ELSE walk' = [walk EXCEPT ![r].found = Append(@, NextUp(r)),
                                 ![r].todo = Rest(r) \o ParentsOf(NextUp(r))]
    /\ Still

(* children: the directory is listed, then each node of the list is read;  *)
(* one that has been discarded since makes the call fail.                  *)
ListNodes(r) ==
    /\ walk[r].phase = "list"
    /\ walk' = [walk EXCEPT ![r].phase = "children", ![r].todo = SetToSeq(nodes)]
    /\ Still

ReadChild(r) ==
    /\ walk[r].phase = "children"
    /\ IF walk[r].todo = <<>> THEN Ends(r, "ok")
       ELSE IF NextUp(r) \notin nodes THEN Ends(r, "missing")
       ELSE walk' = [walk EXCEPT ![r].todo = Rest(r),
                ![r].found = IF walk[r].of \in Names(ParentsOf(NextUp(r)))
                             THEN Append(@, NextUp(r)) ELSE @]
    /\ Still

LineageNext ==
    \/ \E a \in Assets : \/ CreateBelow(a) \/ CheckParents(a) \/ WriteNode(a)
                         \/ PersistJob(a) \/ Discard(a) \/ DiePublishing(a)
    \/ \E r \in Readers : BeginWalk(r) \/ StepUp(r) \/ ListNodes(r) \/ ReadChild(r)

LineageSpec == LineageInit /\ [][LineageNext]_lineageVars

-----------------------------------------------------------------------------
(* Properties. *)

(* A node without its parent comes of one race only: the parent was taken  *)
(* back when the node was there already.  Never is a node added below one  *)
(* that goes, and no asset is its own ancestor.                            *)
OrphansAreRaced ==
    \A a \in nodes : \A p \in Names(ParentsOf(a)) : p \in nodes \/ p \in orphaned

(* Everything above an asset, by the parents its job was created with: the *)
(* least set that has its parents and those of all its members.            *)
HasParentsOf(set, a) == Names(ParentsOf(a)) \subseteq set
Above(a) ==
    {b \in Assets :
        \A set \in SUBSET Assets :
            HasParentsOf(set, a) /\ (\A c \in set : HasParentsOf(set, c)) => b \in set}

(* An answer is whole although nothing stands still meanwhile: ancestors   *)
(* are all there are, once each and never the asset itself; and no child   *)
(* is missed that was published when the call began.                       *)
AnswersAreWhole ==
    \A r \in Readers : walk[r].phase = "done" /\ walk[r].result = "ok" =>
        /\ IsInjective(walk[r].found)
        /\ walk[r].of \notin Names(walk[r].found)
        /\ walk[r].kind = "ancestors" => Names(walk[r].found) = Above(walk[r].of)
        /\ walk[r].kind = "children" =>
              \A b \in walk[r].settled :
                  walk[r].of \in Names(ParentsOf(b)) => b \in Names(walk[r].found)
-----------------------------------------------------------------------------
(* The inductive invariant behind the first: an addition under way holds   *)
(* the lock of the graph, and the parents it has checked are still there.  *)
GraphOK ==
    /\ nodes \subseteq Assets /\ orphaned \subseteq Assets
    /\ graphLock \in Assets \cup {NoPublisher}
    /\ DOMAIN publication = Assets
    /\ \A a \in Assets : publication[a] = [phase |-> publication[a].phase, parents |-> ParentsOf(a)]
    /\ \A a \in nodes : ~In(a, "none")

Checked(a) ==
    In(a, "checked") => /\ graphLock = a /\ a \notin nodes
                        /\ Names(ParentsOf(a)) \subseteq nodes

ILineage == GraphOK /\ OrphansAreRaced /\ \A a \in Assets : Checked(a)

-----------------------------------------------------------------------------
(* The inductive invariant behind whole answers.  What a job has named as  *)
(* its parents it names for ever, and nothing it names is younger: so what *)
(* a reader has been told of stays true, and no asset is above itself.  A  *)
(* climb has everything above in its answer or still to read; a search has *)
(* every settled child.                                                    *)
Named(a) == ~In(a, "none")
ClosedUpwards(set) == \A c \in set : HasParentsOf(set, c)

ParentsFit(a) ==
    /\ ParentsOf(a) \in Seq(Assets)
    /\ In(a, "none") => ParentsOf(a) = <<>>
    /\ \A b \in Names(ParentsOf(a)) : Named(b)
    /\ \E set \in SUBSET Assets : HasParentsOf(set, a) /\ ClosedUpwards(set) /\ a \notin set

Walks == [phase : {"ancestors", "list", "children", "done"}, of : Assets,
          kind : {"ancestors", "children"}, result : {"none", "ok", "missing", "unknown"},
          todo : Seq(Assets), found : Seq(Assets), settled : SUBSET Assets]

Reached(w) == Names(w.found) \cup Names(w.todo)

ClimbFits(w) ==
    /\ w.phase \in {"ancestors", "done"}
    /\ \A c \in Reached(w) \cup {w.of} : Named(c)
    /\ Reached(w) \subseteq Above(w.of)
    /\ \A c \in Names(w.found) \cup {w.of} : HasParentsOf(Reached(w), c)

SearchFits(w) ==
    /\ w.phase \in {"list", "children", "done"}
    /\ \A b \in w.settled : b \in nodes /\ In(b, "published")
    /\ w.phase = "list" => w.found = <<>> /\ w.todo = <<>>
    /\ w.phase # "list" =>
         \A b \in w.settled : w.of \in Names(ParentsOf(b)) => b \in Reached(w)
    /\ IsInjective(w.todo) /\ Names(w.found) \cap Names(w.todo) = {}
    /\ \A c \in Names(w.found) : Named(c) /\ w.of \in Names(ParentsOf(c))

WalkFits(w) ==
    /\ w \in Walks /\ IsInjective(w.found)
    /\ w.phase = "done" /\ w.result = "ok" => w.todo = <<>>
    /\ w.phase # "done" \/ w.result = "ok" =>
         IF w.kind = "ancestors" THEN ClimbFits(w) ELSE SearchFits(w)

IWalks ==
    /\ IsFiniteSet(nodes)
    /\ \A a \in Assets : ParentsFit(a)
    /\ DOMAIN walk = Readers
    /\ \A r \in Readers : walk[r] = [phase |-> "idle"] \/ WalkFits(walk[r])
=============================================================================
