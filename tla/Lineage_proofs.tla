---------------------------- MODULE Lineage_proofs ----------------------------
(***************************************************************************)
(* That a node loses a parent in one way only: the parent is taken back    *)
(* after the node was added below it, never between the check of the       *)
(* parents and the write of the node.                                      *)
(***************************************************************************)
EXTENDS Lineage, FiniteSetTheorems, SequenceTheorems, TLAPS

LEMMA InitILineage == LineageInit => ILineage
BY LineageConstantsOK
DEF LineageInit, ILineage, GraphOK, OrphansAreRaced, Checked, In, ParentsOf

(* A step that changes no parents but those of a job without a node, and   *)
(* neither nodes nor the lock, keeps the invariant.                        *)
LEMMA PhasesAreFree ==
  ASSUME ILineage, NEW a \in Assets, NEW phase, Turns(a, phase), phase \notin {"none", "checked"},
         UNCHANGED <<nodes, graphLock, orphaned>>
  PROVE  ILineage'
<1> USE DEF ILineage, Turns
<1>1. \A b \in Assets : ParentsOf(b)' = ParentsOf(b) BY DEF GraphOK, ParentsOf
<1>2. \A b \in Assets : In(b, "checked")' => In(b, "checked")
  BY DEF GraphOK, In
<1>3. GraphOK' BY DEF GraphOK, In, ParentsOf
<1>4. OrphansAreRaced' BY <1>1 DEF GraphOK, OrphansAreRaced
<1> QED BY <1>1, <1>2, <1>3, <1>4 DEF Checked

LEMMA CreateBelowKeeps == ASSUME ILineage, NEW a \in Assets, CreateBelow(a) PROVE ILineage'
<1> USE DEF ILineage, CreateBelow
<1>1. \A b \in Assets \ {a} : publication'[b] = publication[b] BY DEF GraphOK
<1>2. a \notin nodes /\ In(a, "created")' BY DEF GraphOK, In
<1>3. GraphOK' BY <1>1, <1>2 DEF GraphOK, In, ParentsOf
<1>4. OrphansAreRaced' BY <1>1, <1>2 DEF GraphOK, OrphansAreRaced, ParentsOf
<1>5. \A b \in Assets : Checked(b)' BY <1>1, <1>2 DEF Checked, In, ParentsOf
<1> QED BY <1>3, <1>4, <1>5

LEMMA CheckParentsKeeps == ASSUME ILineage, NEW a \in Assets, CheckParents(a) PROVE ILineage'
<1> USE DEF ILineage, CheckParents, Turns
<1>1. \A b \in Assets : ParentsOf(b)' = ParentsOf(b) BY DEF GraphOK, ParentsOf
<1>2. \A b \in Assets \ {a} : ~In(b, "checked")'
  BY LineageConstantsOK DEF GraphOK, Checked, In
<1>3. GraphOK' BY DEF GraphOK, In, ParentsOf
<1>4. OrphansAreRaced' BY <1>1 DEF GraphOK, OrphansAreRaced
<1>5. \A b \in Assets : Checked(b)' BY <1>1, <1>2 DEF Checked
<1> QED BY <1>3, <1>4, <1>5

LEMMA WriteNodeKeeps == ASSUME ILineage, NEW a \in Assets, WriteNode(a) PROVE ILineage'
<1> USE DEF ILineage, WriteNode, Turns
<1>1. \A b \in Assets : ParentsOf(b)' = ParentsOf(b) BY DEF GraphOK, ParentsOf
<1>2. \A b \in Assets : ~In(b, "checked")'
  BY LineageConstantsOK DEF GraphOK, Checked, In
<1>3. nodes \subseteq nodes' /\ nodes' \subseteq nodes \cup {a} OBVIOUS
<1>4. GraphOK' BY <1>3 DEF GraphOK, In, ParentsOf
<1>5. Names(ParentsOf(a)) \subseteq nodes BY DEF Checked
<1>6. OrphansAreRaced' BY <1>1, <1>3, <1>5 DEF GraphOK, OrphansAreRaced
<1> QED BY <1>2, <1>4, <1>6 DEF Checked

LEMMA DiscardKeeps == ASSUME ILineage, NEW a \in Assets, Discard(a) PROVE ILineage'
<1> USE DEF ILineage, Discard, Turns
<1>1. \A b \in Assets : ParentsOf(b)' = ParentsOf(b) BY DEF GraphOK, ParentsOf
<1>2. \A b \in Assets : ~In(b, "checked")'
  BY LineageConstantsOK DEF GraphOK, Checked, In
<1>3. GraphOK' BY DEF GraphOK, In, ParentsOf
<1>4. ASSUME NEW b \in nodes', NEW p \in Names(ParentsOf(b))' PROVE p \in nodes' \/ p \in orphaned'
  <2>1. b \in nodes /\ p \in Names(ParentsOf(b)) BY <1>1, <1>4 DEF GraphOK
  <2>2. CASE p = a
    <3>1. HasChildren(a) BY <2>1, <2>2 DEF HasChildren
    <3> QED BY <2>2, <3>1
  <2>3. CASE p # a BY <2>1, <2>3 DEF OrphansAreRaced
  <2> QED BY <2>2, <2>3
<1>5. OrphansAreRaced' BY <1>4 DEF OrphansAreRaced
<1> QED BY <1>2, <1>3, <1>5 DEF Checked

LEMMA DiePublishingKeeps == ASSUME ILineage, NEW a \in Assets, DiePublishing(a) PROVE ILineage'
<1> USE DEF ILineage, DiePublishing, Turns
<1>1. \A b \in Assets : ParentsOf(b)' = ParentsOf(b) BY DEF GraphOK, ParentsOf
<1>2. GraphOK' BY DEF GraphOK, In, ParentsOf
<1>3. OrphansAreRaced' BY <1>1 DEF GraphOK, OrphansAreRaced
<1>4. ASSUME NEW b \in Assets, In(b, "checked")' PROVE graphLock' = b /\ In(b, "checked")
  BY <1>4, LineageConstantsOK DEF GraphOK, Checked, In
<1>5. \A b \in Assets : Checked(b)' BY <1>1, <1>4 DEF Checked
<1> QED BY <1>2, <1>3, <1>5

LEMMA NextILineage == ILineage /\ [LineageNext]_lineageVars => ILineage'
<1> SUFFICES ASSUME ILineage, [LineageNext]_lineageVars PROVE ILineage'
  OBVIOUS
<1>1. ASSUME NEW a \in Assets, PersistJob(a) PROVE ILineage'
  BY <1>1, PhasesAreFree DEF PersistJob
<1>2. ASSUME NEW a \in Assets,
             \/ CreateBelow(a) \/ CheckParents(a) \/ WriteNode(a) \/ Discard(a)
             \/ DiePublishing(a)
      PROVE  ILineage'
  BY <1>2, CreateBelowKeeps, CheckParentsKeeps, WriteNodeKeeps, DiscardKeeps,
     DiePublishingKeeps
<1>3. ASSUME UNCHANGED <<nodes, publication, graphLock, orphaned>> PROVE ILineage'
  BY <1>3 DEF ILineage, GraphOK, OrphansAreRaced, Checked, In, ParentsOf
<1>4. ASSUME NEW r \in Readers, BeginWalk(r) \/ StepUp(r) \/ ListNodes(r) \/ ReadChild(r)
      PROVE  ILineage'
  BY <1>3, <1>4 DEF BeginWalk, StepUp, ListNodes, ReadChild, Still
<1>5. CASE UNCHANGED lineageVars BY <1>3, <1>5 DEF lineageVars
<1> QED BY <1>1, <1>2, <1>4, <1>5 DEF LineageNext

(* For any assets, readers and faults, a node without its parent comes of  *)
(* one race only: discard_pending took the parent back when the node was   *)
(* there already.                                                          *)
THEOREM OnlyDiscardsOrphan == LineageSpec => []OrphansAreRaced
<1>1. ILineage => OrphansAreRaced BY DEF ILineage
<1> QED BY <1>1, InitILineage, NextILineage, PTL DEF LineageSpec


-----------------------------------------------------------------------------
(* Sequences and the names in them.                                        *)

(* A list of a finite set has its members, once each.                      *)
LEMMA Listed ==
  ASSUME NEW S, IsFiniteSet(S)
  PROVE  SetToSeq(S) \in Seq(S) /\ IsInjective(SetToSeq(S)) /\ Names(SetToSeq(S)) = S
<1> DEFINE n == Cardinality(S)
           f == SetToSeq(S)
<1>1. n \in Nat /\ ExistsBijection(1 .. n, S) BY FS_CardinalityType
<1>2. \E g \in [1 .. n -> S] : IsInjective(g)
  BY <1>1 DEF ExistsBijection, Bijection, Injection
<1>3. f \in [1 .. n -> S] /\ IsInjective(f) BY <1>2 DEF SetToSeq
<1>4. f \in Seq(S) BY <1>1, <1>3, SeqDef
<1>5. f \in Injection(1 .. n, S) BY <1>3 DEF Injection
<1>6. IsFiniteSet(1 .. n) /\ Cardinality(1 .. n) = n BY <1>1, FS_Interval
<1>7. f \in Surjection(1 .. n, S) BY <1>5, <1>6, FS_Injection
<1>8. DOMAIN f = 1 .. n /\ \A x \in S : \E i \in 1 .. n : f[i] = x
  BY <1>3, <1>7 DEF Surjection
<1>9. Names(f) = S BY <1>3, <1>8 DEF Names, Range
<1> QED BY <1>3, <1>4, <1>9

LEMMA EmptyNames == Names(<<>>) = {} /\ IsInjective(<<>>)
BY DEF Names, Range, IsInjective

(* Of a list, the first and the rest; one more at its end; another after   *)
(* it.                                                                     *)
LEMMA NamesOfTail ==
  ASSUME NEW S, NEW s \in Seq(S), s # <<>>
  PROVE  /\ Head(s) \in S /\ Tail(s) \in Seq(S)
         /\ Names(s) = {Head(s)} \cup Names(Tail(s))
         /\ IsInjective(s) => IsInjective(Tail(s)) /\ Head(s) \notin Names(Tail(s))
<1>1. /\ Head(s) \in S /\ Tail(s) \in Seq(S) /\ Len(Tail(s)) = Len(s) - 1
      /\ \A i \in 1 .. Len(Tail(s)) : Tail(s)[i] = s[i + 1]
  BY HeadTailProperties
<1>2. Len(s) \in Nat \ {0} /\ Head(s) = s[1] BY EmptySeq
<1>3. DOMAIN s = 1 .. Len(s) /\ DOMAIN Tail(s) = 1 .. Len(s) - 1 BY <1>1, LenProperties
<1>4. ASSUME NEW x \in Names(s) PROVE x \in {Head(s)} \cup Names(Tail(s))
  <2>1. PICK i \in 1 .. Len(s) : x = s[i] BY <1>3 DEF Names, Range
  <2>2. CASE i = 1 BY <1>2, <2>1, <2>2
  <2>3. CASE i # 1
    <3>1. i - 1 \in 1 .. Len(s) - 1 /\ Tail(s)[i - 1] = s[i] BY <1>1, <1>2, <2>3
    <3> QED BY <1>3, <2>1, <3>1 DEF Names, Range
  <2> QED BY <2>2, <2>3
<1>5. ASSUME NEW x \in Names(Tail(s)) PROVE \E i \in 2 .. Len(s) : x = s[i]
  <2>1. PICK i \in 1 .. Len(s) - 1 : x = Tail(s)[i] BY <1>3 DEF Names, Range
  <2>2. i + 1 \in 2 .. Len(s) /\ x = s[i + 1] BY <1>1, <1>2, <2>1
  <2> QED BY <2>2
<1>6. Names(s) = {Head(s)} \cup Names(Tail(s))
  <2>1. 1 \in 1 .. Len(s) /\ 2 .. Len(s) \subseteq 1 .. Len(s) BY <1>2
  <2>2. Names(Tail(s)) \subseteq Names(s) BY <1>3, <1>5, <2>1 DEF Names, Range
  <2>3. Head(s) \in Names(s) BY <1>2, <1>3, <2>1 DEF Names, Range
  <2> QED BY <1>4, <2>2, <2>3
<1>7. ASSUME IsInjective(s) PROVE IsInjective(Tail(s)) /\ Head(s) \notin Names(Tail(s))
  <2>1. ASSUME NEW i \in 1 .. Len(s) - 1, NEW j \in 1 .. Len(s) - 1, Tail(s)[i] = Tail(s)[j]
        PROVE  i = j
    <3>1. s[i + 1] = s[j + 1] /\ i + 1 \in 1 .. Len(s) /\ j + 1 \in 1 .. Len(s)
      BY <1>1, <1>2, <2>1
    <3>2. i + 1 = j + 1 BY <1>3, <1>7, <3>1 DEF IsInjective
    <3> QED BY <3>2
  <2>2. ASSUME Head(s) \in Names(Tail(s)) PROVE FALSE
    <3>1. PICK i \in 2 .. Len(s) : s[1] = s[i] BY <1>2, <1>5, <2>2
    <3> QED BY <1>2, <1>3, <1>7, <3>1 DEF IsInjective
  <2> QED BY <1>3, <2>1, <2>2 DEF IsInjective
<1> QED BY <1>1, <1>6, <1>7

LEMMA NamesOfAppend ==
  ASSUME NEW S, NEW s \in Seq(S), NEW x \in S
  PROVE  /\ Append(s, x) \in Seq(S) /\ Names(Append(s, x)) = Names(s) \cup {x}
         /\ IsInjective(s) /\ x \notin Names(s) => IsInjective(Append(s, x))
<1> DEFINE t == Append(s, x)
<1>1. /\ t \in Seq(S) /\ Len(t) = Len(s) + 1 /\ Len(s) \in Nat /\ t[Len(s) + 1] = x
      /\ \A i \in 1 .. Len(s) : t[i] = s[i]
  OBVIOUS
<1>2. DOMAIN s = 1 .. Len(s) /\ DOMAIN t = 1 .. Len(s) + 1 BY <1>1, LenProperties
<1> HIDE DEF t
<1>3. \A i \in 1 .. Len(s) + 1 : i \in 1 .. Len(s) \/ i = Len(s) + 1 BY <1>1
<1>4. 1 .. Len(s) \subseteq 1 .. Len(s) + 1 /\ Len(s) + 1 \in 1 .. Len(s) + 1 BY <1>1
<1>5. Names(t) = Names(s) \cup {x} BY <1>1, <1>2, <1>3, <1>4 DEF Names, Range
<1>6. IsInjective(s) /\ x \notin Names(s) => IsInjective(t)
  BY <1>1, <1>2, <1>3 DEF IsInjective, Names, Range
<1> QED BY <1>1, <1>5, <1>6 DEF t

LEMMA NamesOfConcat ==
  ASSUME NEW S, NEW s \in Seq(S), NEW t \in Seq(S)
  PROVE  s \o t \in Seq(S) /\ Names(s \o t) = Names(s) \cup Names(t)
<1>1. /\ s \o t \in Seq(S) /\ Len(s \o t) = Len(s) + Len(t)
      /\ \A i \in 1 .. Len(s) + Len(t) :
            (s \o t)[i] = IF i <= Len(s) THEN s[i] ELSE t[i - Len(s)]
  BY ConcatProperties
<1>2. /\ DOMAIN s = 1 .. Len(s) /\ DOMAIN t = 1 .. Len(t)
      /\ DOMAIN (s \o t) = 1 .. Len(s) + Len(t) /\ Len(s) \in Nat /\ Len(t) \in Nat
  BY <1>1, LenProperties
<1>3. ASSUME NEW x \in Names(s \o t) PROVE x \in Names(s) \cup Names(t)
  <2>1. PICK i \in 1 .. Len(s) + Len(t) : x = (s \o t)[i] BY <1>2 DEF Names, Range
  <2>2. CASE i <= Len(s)
    <3>1. i \in 1 .. Len(s) /\ x = s[i] BY <1>1, <1>2, <2>1, <2>2
    <3> QED BY <1>2, <3>1 DEF Names, Range
  <2>3. CASE ~(i <= Len(s))
    <3>1. i - Len(s) \in 1 .. Len(t) /\ x = t[i - Len(s)] BY <1>1, <1>2, <2>1, <2>3
    <3> QED BY <1>2, <3>1 DEF Names, Range
  <2> QED BY <2>2, <2>3
<1>4. ASSUME NEW x \in Names(s) PROVE x \in Names(s \o t)
  <2>1. PICK i \in 1 .. Len(s) : x = s[i] BY <1>2 DEF Names, Range
  <2>2. i \in 1 .. Len(s) + Len(t) /\ (s \o t)[i] = x BY <1>1, <1>2, <2>1
  <2> QED BY <1>2, <2>2 DEF Names, Range
<1>5. ASSUME NEW x \in Names(t) PROVE x \in Names(s \o t)
  <2>1. PICK i \in 1 .. Len(t) : x = t[i] BY <1>2 DEF Names, Range
  <2>2. i + Len(s) \in 1 .. Len(s) + Len(t) /\ (s \o t)[i + Len(s)] = t[(i + Len(s)) - Len(s)]
    BY <1>1, <1>2, <2>1
  <2>3. (i + Len(s)) - Len(s) = i BY <1>2
  <2> QED BY <1>2, <2>1, <2>2, <2>3 DEF Names, Range
<1> QED BY <1>1, <1>3, <1>4, <1>5

-----------------------------------------------------------------------------
(* What a job has named, it names for ever.                                *)

(* What every step leaves alone: the parents of a job that was created,    *)
(* and published nodes.                                                    *)
Lasts ==
    /\ \A a \in Assets : Named(a) => Named(a)' /\ ParentsOf(a)' = ParentsOf(a)
    /\ \A a \in nodes : In(a, "published") => a \in nodes' /\ In(a, "published")'

(* A publication that goes on names the same parents.                      *)
LEMMA TurnLasts ==
  ASSUME ILineage, IWalks, NEW a \in Assets, NEW phase, Turns(a, phase), Named(a), phase # "none",
         ~In(a, "published"), nodes' \in {nodes, nodes \cup {a}, nodes \ {a}}
  PROVE  Lasts /\ IsFiniteSet(nodes') /\ \A b \in Assets : ParentsFit(b)'
<1>1. \A b \in Assets : /\ ParentsOf(b)' = ParentsOf(b) /\ (Named(b)' <=> Named(b))
                        /\ (In(b, "none")' <=> In(b, "none"))
                        /\ (In(b, "published") => b # a /\ In(b, "published")')
  BY DEF ILineage, GraphOK, Turns, ParentsOf, Named, In
<1>2. Lasts BY <1>1 DEF Lasts, ILineage, GraphOK
<1>3. IsFiniteSet(nodes')
  BY FS_AddElement, FS_RemoveElement DEF IWalks
<1>4. ASSUME NEW b \in Assets PROVE ParentsFit(b)'
  <2>1. ParentsFit(b) BY DEF IWalks
  <2>2. Names(ParentsOf(b)) \subseteq Assets
    BY <2>1, LenProperties DEF ParentsFit, Names, Range
  <2>3. PICK set \in SUBSET Assets : HasParentsOf(set, b) /\ ClosedUpwards(set) /\ b \notin set
    BY <2>1 DEF ParentsFit
  <2>4. HasParentsOf(set, b)' /\ ClosedUpwards(set)'
    BY <1>1, <2>3 DEF HasParentsOf, ClosedUpwards
  <2>5. \A c \in Names(ParentsOf(b)) : Named(c)' BY <1>1, <2>1, <2>2 DEF ParentsFit
  <2> QED BY <1>1, <2>1, <2>3, <2>4, <2>5 DEF ParentsFit
<1> QED BY <1>2, <1>3, <1>4

(* A new job is below nodes only, and nothing is below it yet.             *)
LEMMA CreateLasts ==
  ASSUME ILineage, IWalks, NEW a \in Assets, CreateBelow(a)
  PROVE  Lasts /\ IsFiniteSet(nodes') /\ \A b \in Assets : ParentsFit(b)'
<1>1. PICK parents \in ParentLists :
        /\ Names(parents) \subseteq nodes
        /\ publication' = [publication EXCEPT ![a] = [phase |-> "created", parents |-> parents]]
  BY DEF CreateBelow
<1>2. parents \in Seq(Assets)
  <2>1. PICK s \in SUBSET Assets : IsFiniteSet(s) /\ parents = SetToSeq(s) BY DEF ParentLists
  <2> QED BY <2>1, Listed, SeqMonotonic
<1>3. ~Named(a) /\ nodes' = nodes BY DEF CreateBelow, Named
<1>4. /\ ParentsOf(a)' = parents /\ Named(a)' /\ ~In(a, "none")'
      /\ \A b \in Assets \ {a} : /\ ParentsOf(b)' = ParentsOf(b) /\ (Named(b)' <=> Named(b))
                                 /\ (In(b, "none")' <=> In(b, "none"))
                                 /\ (In(b, "published")' <=> In(b, "published"))
  BY <1>1 DEF ILineage, GraphOK, ParentsOf, Named, In
<1>5. Lasts BY <1>3, <1>4 DEF Lasts, ILineage, GraphOK, Named
<1>6. IsFiniteSet(nodes') BY <1>3 DEF IWalks
<1>7. PICK olds \in SUBSET Assets : \A d \in Assets : d \in olds <=> Named(d)
  <2>1. {d \in Assets : Named(d)} \in SUBSET Assets OBVIOUS
  <2> QED BY <2>1
<1>8. ASSUME NEW set \in SUBSET Assets, ClosedUpwards(set)
      PROVE  ClosedUpwards(set \cap olds)'
  <2>1. ASSUME NEW c \in set \cap olds PROVE Names(ParentsOf(c)') \subseteq set \cap olds
    <3>1. ParentsOf(c)' = ParentsOf(c) BY <1>3, <1>4, <1>7
    <3>2. Names(ParentsOf(c)) \subseteq set BY <1>8 DEF ClosedUpwards, HasParentsOf
    <3>3. \A b \in Names(ParentsOf(c)) : Named(b) BY DEF IWalks, ParentsFit
    <3> QED BY <1>7, <3>1, <3>2, <3>3
  <2> QED BY <2>1 DEF ClosedUpwards, HasParentsOf
<1>9. ASSUME NEW b \in Assets, b # a PROVE ParentsFit(b)'
  <2>1. ParentsFit(b) BY DEF IWalks
  <2>2. PICK set \in SUBSET Assets : HasParentsOf(set, b) /\ ClosedUpwards(set) /\ b \notin set
    BY <2>1 DEF ParentsFit
  <2>3. Names(ParentsOf(b)) \subseteq Assets
    BY <2>1, LenProperties DEF ParentsFit, Names, Range
  <2>4. Names(ParentsOf(b)) \subseteq set \cap olds
    BY <1>7, <2>1, <2>2, <2>3 DEF ParentsFit, HasParentsOf
  <2>5. ParentsOf(b)' = ParentsOf(b) /\ (In(b, "none")' <=> In(b, "none")) BY <1>4, <1>9
  <2>6. HasParentsOf(set \cap olds, b)' BY <2>4, <2>5 DEF HasParentsOf
  <2>7. ClosedUpwards(set \cap olds)' BY <1>8, <2>2
  <2>8. \A c \in Names(ParentsOf(b)) : Named(c)' BY <1>4, <2>1, <2>3 DEF ParentsFit
  <2>9. set \cap olds \in SUBSET Assets /\ b \notin set \cap olds BY <2>2
  <2> QED BY <2>1, <2>5, <2>6, <2>7, <2>8, <2>9 DEF ParentsFit
<1>10. ParentsFit(a)'
  <2>1. nodes \subseteq olds BY <1>7 DEF ILineage, GraphOK, Named
  <2>2. HasParentsOf(olds, a)' BY <1>1, <1>4, <2>1 DEF HasParentsOf
  <2>3. ClosedUpwards(olds)
    <3>1. ASSUME NEW c \in olds PROVE Names(ParentsOf(c)) \subseteq olds
      <4>1. ParentsFit(c) BY DEF IWalks
      <4>2. Names(ParentsOf(c)) \subseteq Assets
        BY <4>1, LenProperties DEF ParentsFit, Names, Range
      <4> QED BY <1>7, <4>1, <4>2 DEF ParentsFit
    <3> QED BY <3>1 DEF ClosedUpwards, HasParentsOf
  <2>4. ClosedUpwards(olds)'
    <3>1. olds \cap olds = olds OBVIOUS
    <3> QED BY <1>8, <2>3, <3>1
  <2>5. a \notin olds BY <1>3, <1>7
  <2>6. \A b \in Names(parents) : Named(b)'
    BY <1>1, <1>4 DEF ILineage, GraphOK, Named
  <2> QED BY <1>2, <1>4, <2>2, <2>4, <2>5, <2>6 DEF ParentsFit
<1> QED BY <1>5, <1>6, <1>9, <1>10

-----------------------------------------------------------------------------
(* An answer that was right stays right: a walk that stands still fits the *)
(* graph after any step of a publication.                                  *)
LEMMA ClimbLasts ==
  ASSUME IWalks, Lasts, NEW w \in Walks, ClimbFits(w) PROVE ClimbFits(w)'
<1>1. \A c \in Reached(w) \cup {w.of} : c \in Assets /\ Named(c)
  BY LenProperties DEF ClimbFits, Walks, Reached, Names, Range
<1>2. \A c \in Reached(w) \cup {w.of} : Named(c)' /\ ParentsOf(c)' = ParentsOf(c)
  BY <1>1 DEF Lasts
<1>3. ASSUME NEW b \in Reached(w) PROVE b \in Above(w.of)'
  <2>1. b \in Above(w.of) BY DEF ClimbFits
  <2>2. ASSUME NEW set \in SUBSET Assets, HasParentsOf(set, w.of)', (\A c \in set : HasParentsOf(set, c))'
        PROVE  b \in set
    <3>1. HasParentsOf(set, w.of) BY <1>2, <2>2 DEF HasParentsOf
    <3>2. ASSUME NEW c \in set PROVE HasParentsOf(set, c)
      <4>1. CASE Named(c) BY <2>2, <4>1 DEF Lasts, HasParentsOf
      <4>2. CASE ~Named(c)
        <5>1. ParentsOf(c) = <<>> BY <4>2 DEF IWalks, ParentsFit, Named
        <5> QED BY <5>1, EmptyNames DEF HasParentsOf
      <4> QED BY <4>1, <4>2
    <3> QED BY <2>1, <3>1, <3>2 DEF Above
  <2> QED BY <1>1, <2>2 DEF Above
<1>4. \A c \in Names(w.found) \cup {w.of} : HasParentsOf(Reached(w), c)'
  <2>1. Names(w.found) \subseteq Reached(w) BY DEF Reached
  <2> QED BY <1>2, <2>1 DEF ClimbFits, HasParentsOf
<1> QED BY <1>2, <1>3, <1>4 DEF ClimbFits, Reached

LEMMA SearchLasts ==
  ASSUME ILineage, Lasts, NEW w \in Walks, SearchFits(w) PROVE SearchFits(w)'
<1>1. \A c \in Names(w.found) : c \in Assets /\ Named(c)
  BY LenProperties DEF SearchFits, Walks, Names, Range
<1>2. \A c \in Names(w.found) : Named(c)' /\ ParentsOf(c)' = ParentsOf(c)
  BY <1>1 DEF Lasts
<1>3. \A b \in w.settled : /\ b \in nodes' /\ In(b, "published")'
                           /\ ParentsOf(b)' = ParentsOf(b)
  BY DEF SearchFits, Lasts, ILineage, GraphOK, Named
<1> QED BY <1>2, <1>3 DEF SearchFits, Reached

LEMMA WalkLasts ==
  ASSUME ILineage, IWalks, Lasts, NEW w, WalkFits(w) PROVE WalkFits(w)'
BY ClimbLasts, SearchLasts DEF WalkFits

-----------------------------------------------------------------------------
(* Readers.                                                                *)

(* What is above an asset holds its parents and all of theirs.             *)
LEMMA AboveIsClosed ==
  ASSUME IWalks, NEW a \in Assets
  PROVE  HasParentsOf(Above(a), a) /\ \A c \in Above(a) : HasParentsOf(Above(a), c)
<1>1. ASSUME NEW c \in Assets PROVE Names(ParentsOf(c)) \subseteq Assets
  <2>1. ParentsFit(c) BY DEF IWalks
  <2> QED BY <2>1, LenProperties DEF ParentsFit, Names, Range
<1>2. HasParentsOf(Above(a), a) BY <1>1 DEF HasParentsOf, Above
<1>3. ASSUME NEW c \in Above(a), NEW b \in Names(ParentsOf(c)) PROVE b \in Above(a)
  <2>1. c \in Assets /\ b \in Assets BY <1>1, <1>3 DEF Above
  <2>2. ASSUME NEW set \in SUBSET Assets, HasParentsOf(set, a), \A d \in set : HasParentsOf(set, d)
        PROVE  b \in set
    <3>1. c \in set BY <1>3, <2>2 DEF Above
    <3> QED BY <1>3, <2>2, <3>1 DEF HasParentsOf
  <2> QED BY <2>1, <2>2 DEF Above
<1> QED BY <1>2, <1>3 DEF HasParentsOf

(* No asset is above itself.                                               *)
LEMMA NeverAboveItself ==
  ASSUME IWalks, NEW a \in Assets PROVE a \notin Above(a)
<1>1. PICK set \in SUBSET Assets : HasParentsOf(set, a) /\ ClosedUpwards(set) /\ a \notin set
  BY DEF IWalks, ParentsFit
<1> QED BY <1>1 DEF Above, ClosedUpwards

(* A climb that has read everything has everything above.                  *)
LEMMA ClimbIsWhole ==
  ASSUME IWalks, NEW w \in Walks, ClimbFits(w), w.todo = <<>>
  PROVE  Names(w.found) = Above(w.of)
<1>1. Reached(w) = Names(w.found) BY EmptyNames DEF Reached
<1>2. Names(w.found) \in SUBSET Assets BY LenProperties DEF Walks, Names, Range
<1>3. HasParentsOf(Names(w.found), w.of) /\ \A c \in Names(w.found) : HasParentsOf(Names(w.found), c)
  BY <1>1 DEF ClimbFits
<1>4. Above(w.of) \subseteq Names(w.found) BY <1>2, <1>3 DEF Above
<1> QED BY <1>1, <1>4 DEF ClimbFits

LEMMA WalksAreWhole == ASSUME IWalks PROVE AnswersAreWhole
<1> SUFFICES ASSUME NEW r \in Readers, walk[r].phase = "done", walk[r].result = "ok"
             PROVE  /\ IsInjective(walk[r].found)
                    /\ walk[r].of \notin Names(walk[r].found)
                    /\ walk[r].kind = "ancestors" => Names(walk[r].found) = Above(walk[r].of)
                    /\ walk[r].kind = "children" =>
                         \A b \in walk[r].settled :
                            walk[r].of \in Names(ParentsOf(b)) => b \in Names(walk[r].found)
  BY DEF AnswersAreWhole
<1>1. PICK w : w = walk[r] OBVIOUS
<1>2. w.phase # "idle" => w # [phase |-> "idle"] OBVIOUS
<1>3. WalkFits(w) BY <1>1, <1>2 DEF IWalks
<1>4. w \in Walks /\ w.of \in Assets /\ IsInjective(w.found) /\ w.todo = <<>>
  BY <1>1, <1>3 DEF WalkFits, Walks
<1>5. CASE w.kind = "ancestors"
  <2>1. ClimbFits(w) BY <1>1, <1>3, <1>5 DEF WalkFits
  <2>2. Names(w.found) = Above(w.of) BY <1>4, <2>1, ClimbIsWhole
  <2> QED BY <1>1, <1>4, <1>5, <2>2, NeverAboveItself
<1>6. CASE w.kind = "children"
  <2>1. SearchFits(w) BY <1>1, <1>3, <1>6 DEF WalkFits
  <2>2. w.of \notin Names(w.found)
    <3>1. w.of \in Names(ParentsOf(w.of)) => w.of \in Above(w.of)
      BY <1>4, AboveIsClosed DEF HasParentsOf
    <3> QED BY <1>4, <2>1, <3>1, NeverAboveItself DEF SearchFits
  <2>3. Reached(w) = Names(w.found) BY <1>4, EmptyNames DEF Reached
  <2> QED BY <1>1, <1>4, <1>6, <2>1, <2>2, <2>3 DEF SearchFits
<1> QED BY <1>4, <1>5, <1>6 DEF Walks

(* The end of a call: its answer is what was found.                        *)
LEMMA EndFits ==
  ASSUME NEW w, WalkFits(w), NEW result \in {"ok", "missing"},
         w.phase \in {"ancestors", "children"}, result = "ok" => w.todo = <<>>
  PROVE  WalkFits([w EXCEPT !.phase = "done", !.result = result])
<1> DEFINE v == [w EXCEPT !.phase = "done", !.result = result]
<1>1. w \in Walks BY DEF WalkFits
<1>2. /\ v \in Walks /\ v.phase = "done" /\ v.result = result /\ v.of = w.of /\ v.kind = w.kind
      /\ v.todo = w.todo /\ v.found = w.found /\ v.settled = w.settled
  BY <1>1 DEF Walks
<1> HIDE DEF v
<1>3. ClimbFits(w) => ClimbFits(v) BY <1>2 DEF ClimbFits, Reached
<1>4. SearchFits(w) => SearchFits(v) BY <1>2 DEF SearchFits, Reached
<1> QED BY <1>2, <1>3, <1>4 DEF WalkFits, v

(* One node up: it is known already, or it is read with its parents.       *)
LEMMA StepUpFits ==
  ASSUME IWalks, ILineage, NEW w, WalkFits(w), w.phase = "ancestors", w.todo # <<>>
  PROVE  /\ Head(w.todo) \in Names(w.found) => WalkFits([w EXCEPT !.todo = Tail(w.todo)])
         /\ Head(w.todo) \notin Names(w.found) /\ Head(w.todo) \in nodes =>
              WalkFits([w EXCEPT !.found = Append(w.found, Head(w.todo)),
                                 !.todo = Tail(w.todo) \o ParentsOf(Head(w.todo))])
<1>1. w \in Walks /\ w.todo \in Seq(Assets) /\ w.found \in Seq(Assets) /\ w.of \in Assets
      /\ IsInjective(w.found)
  BY DEF WalkFits, Walks
<1>2. w.kind = "ancestors" /\ ClimbFits(w) BY <1>1 DEF WalkFits, SearchFits, Walks
<1>3. PICK n \in Assets, rest \in Seq(Assets) :
        n = Head(w.todo) /\ rest = Tail(w.todo) /\ Names(w.todo) = {n} \cup Names(rest)
  <2>1. /\ Head(w.todo) \in Assets /\ Tail(w.todo) \in Seq(Assets)
        /\ Names(w.todo) = {Head(w.todo)} \cup Names(Tail(w.todo))
    BY <1>1, NamesOfTail
  <2> QED BY <2>1
<1>4. n \in Above(w.of) /\ Named(n) BY <1>2, <1>3 DEF ClimbFits, Reached
<1>5. CASE n \in Names(w.found)
  <2> DEFINE v == [w EXCEPT !.todo = rest]
  <2>1. /\ v \in Walks /\ v.phase = w.phase /\ v.of = w.of /\ v.kind = w.kind
        /\ v.todo = rest /\ v.found = w.found
    BY <1>1 DEF Walks
  <2> HIDE DEF v
  <2>2. Reached(v) = Reached(w) BY <1>3, <1>5, <2>1 DEF Reached
  <2>3. ClimbFits(v) BY <1>2, <2>1, <2>2 DEF ClimbFits
  <2>4. WalkFits(v) BY <1>1, <1>2, <2>1, <2>3 DEF WalkFits
  <2> QED BY <1>3, <1>5, <2>4 DEF v
<1>6. CASE n \notin Names(w.found) /\ n \in nodes
  <2>1. PICK found \in Seq(Assets) :
          /\ found = Append(w.found, n) /\ Names(found) = Names(w.found) \cup {n}
          /\ IsInjective(found)
    BY <1>1, <1>6, NamesOfAppend
  <2>2. ParentsOf(n) \in Seq(Assets) BY DEF IWalks, ParentsFit
  <2>3. PICK todo \in Seq(Assets) :
          todo = rest \o ParentsOf(n) /\ Names(todo) = Names(rest) \cup Names(ParentsOf(n))
    BY <2>2, NamesOfConcat
  <2> DEFINE v == [w EXCEPT !.found = found, !.todo = todo]
  <2>4. /\ v \in Walks /\ v.phase = w.phase /\ v.of = w.of /\ v.kind = w.kind
        /\ v.todo = todo /\ v.found = found
    BY <1>1 DEF Walks
  <2> HIDE DEF v
  <2>5. Reached(v) = Reached(w) \cup Names(ParentsOf(n))
    BY <1>3, <2>1, <2>3, <2>4 DEF Reached
  <2>6. Names(ParentsOf(n)) \subseteq Above(w.of)
    BY <1>1, <1>4, AboveIsClosed DEF HasParentsOf
  <2>7. \A c \in Names(ParentsOf(n)) : Named(c) BY DEF IWalks, ParentsFit
  <2>8. \A c \in Names(v.found) \cup {v.of} : HasParentsOf(Reached(v), c)
    BY <1>2, <2>1, <2>4, <2>5 DEF ClimbFits, HasParentsOf
  <2>9. ClimbFits(v) BY <1>2, <2>4, <2>5, <2>6, <2>7, <2>8 DEF ClimbFits
  <2>10. WalkFits(v) BY <1>1, <1>2, <2>1, <2>4, <2>9 DEF WalkFits
  <2> QED BY <1>3, <1>6, <2>1, <2>3, <2>10 DEF v
<1> QED BY <1>3, <1>5, <1>6

(* The list of a search has all settled nodes.                             *)
LEMMA ListFits ==
  ASSUME IWalks, ILineage, NEW w, WalkFits(w), w.phase = "list"
  PROVE  WalkFits([w EXCEPT !.phase = "children", !.todo = SetToSeq(nodes)])
<1>1. PICK todo \in Seq(nodes) : todo = SetToSeq(nodes) /\ IsInjective(todo) /\ Names(todo) = nodes
  BY Listed DEF IWalks
<1>2. todo \in Seq(Assets) BY <1>1, SeqMonotonic DEF ILineage, GraphOK
<1>3. w \in Walks /\ IsInjective(w.found) BY DEF WalkFits
<1>4. w.kind = "children" /\ SearchFits(w) BY <1>3 DEF WalkFits, ClimbFits, Walks
<1> DEFINE v == [w EXCEPT !.phase = "children", !.todo = todo]
<1>5. /\ v \in Walks /\ v.phase = "children" /\ v.of = w.of /\ v.kind = w.kind
      /\ v.todo = todo /\ v.found = w.found /\ v.settled = w.settled
  BY <1>2, <1>3 DEF Walks
<1> HIDE DEF v
<1>6. Names(w.found) = {} BY <1>4, EmptyNames DEF SearchFits
<1>7. SearchFits(v) BY <1>1, <1>4, <1>5, <1>6 DEF SearchFits, Reached
<1>8. WalkFits(v) BY <1>3, <1>4, <1>5, <1>7 DEF WalkFits
<1> QED BY <1>1, <1>8 DEF v

(* The next node of the list, which counts if it names the asset.          *)
LEMMA ReadChildFits ==
  ASSUME IWalks, ILineage, NEW w, WalkFits(w), w.phase = "children", w.todo # <<>>,
         Head(w.todo) \in nodes
  PROVE  WalkFits([w EXCEPT !.todo = Tail(w.todo),
                            !.found = IF w.of \in Names(ParentsOf(Head(w.todo)))
                                      THEN Append(w.found, Head(w.todo)) ELSE w.found])
<1>1. w \in Walks /\ w.todo \in Seq(Assets) /\ w.found \in Seq(Assets) /\ w.of \in Assets
      /\ IsInjective(w.found)
  BY DEF WalkFits, Walks
<1>2. w.kind = "children" /\ SearchFits(w) BY <1>1 DEF WalkFits, ClimbFits, Walks
<1>3. PICK n \in Assets, rest \in Seq(Assets) :
        /\ n = Head(w.todo) /\ rest = Tail(w.todo) /\ Names(w.todo) = {n} \cup Names(rest)
        /\ IsInjective(rest) /\ n \notin Names(rest)
  BY <1>1, <1>2, NamesOfTail DEF SearchFits
<1>4. n \notin Names(w.found) BY <1>2, <1>3 DEF SearchFits
<1>5. PICK found \in Seq(Assets) :
        /\ found = IF w.of \in Names(ParentsOf(n)) THEN Append(w.found, n) ELSE w.found
        /\ Names(found) = IF w.of \in Names(ParentsOf(n)) THEN Names(w.found) \cup {n}
                          ELSE Names(w.found)
        /\ IsInjective(found)
  <2>1. CASE w.of \in Names(ParentsOf(n)) BY <1>1, <1>4, <2>1, NamesOfAppend
  <2>2. CASE w.of \notin Names(ParentsOf(n)) BY <1>1, <2>2
  <2> QED BY <2>1, <2>2
<1> DEFINE v == [w EXCEPT !.todo = rest, !.found = found]
<1>6. /\ v \in Walks /\ v.phase = w.phase /\ v.of = w.of /\ v.kind = w.kind
      /\ v.todo = rest /\ v.found = found /\ v.settled = w.settled
  BY <1>1 DEF Walks
<1> HIDE DEF v
<1>7. Named(n) BY <1>3 DEF ILineage, GraphOK, Named
<1>8. \A b \in v.settled : v.of \in Names(ParentsOf(b)) => b \in Reached(v)
  BY <1>2, <1>3, <1>5, <1>6 DEF SearchFits, Reached
<1>9. Names(v.found) \cap Names(v.todo) = {} BY <1>2, <1>3, <1>5, <1>6 DEF SearchFits
<1>10. \A c \in Names(v.found) : Named(c) /\ v.of \in Names(ParentsOf(c))
  BY <1>2, <1>5, <1>6, <1>7 DEF SearchFits
<1>11. SearchFits(v) BY <1>2, <1>3, <1>6, <1>8, <1>9, <1>10 DEF SearchFits
<1>12. WalkFits(v) BY <1>2, <1>5, <1>6, <1>11 DEF WalkFits
<1> QED BY <1>3, <1>5, <1>12 DEF v

(* A call that begins: everything it may still have to read is in its      *)
(* list.                                                                   *)
LEMMA BeginFits ==
  ASSUME IWalks, ILineage, NEW a \in Assets, NEW phase, NEW todo, NEW kind, NEW result,
         \/ a \notin nodes /\ phase = "done" /\ todo = <<>> /\ result = "unknown"
            /\ kind \in {"ancestors", "children"}
         \/ a \in nodes /\ phase = "ancestors" /\ kind = "ancestors" /\ todo = ParentsOf(a)
            /\ result = "none"
         \/ phase = "list" /\ kind = "children" /\ todo = <<>> /\ result = "none"
  PROVE  WalkFits([phase |-> phase, of |-> a, kind |-> kind, result |-> result, todo |-> todo,
                   found |-> <<>>, settled |-> {b \in nodes : In(b, "published")}])
<1>1. PICK settled \in SUBSET Assets : settled = {b \in nodes : In(b, "published")}
  BY DEF ILineage, GraphOK
<1>2. ParentsOf(a) \in Seq(Assets) /\ <<>> \in Seq(Assets) BY DEF IWalks, ParentsFit
<1>3. phase \in {"ancestors", "list", "children", "done"} /\ kind \in {"ancestors", "children"}
      /\ result \in {"none", "ok", "missing", "unknown"} /\ todo \in Seq(Assets)
  BY <1>2
<1>4. PICK v \in Walks :
        v = [phase |-> phase, of |-> a, kind |-> kind, result |-> result, todo |-> todo,
             found |-> <<>>, settled |-> settled]
  BY <1>2, <1>3 DEF Walks
<1>5. v.phase = phase /\ v.of = a /\ v.kind = kind /\ v.result = result /\ v.todo = todo
      /\ v.found = <<>> /\ v.settled = settled
  BY <1>4
<1> SUFFICES WalkFits(v) BY <1>1, <1>4
<1>6. CASE phase = "done" /\ result = "unknown" BY <1>5, <1>6, EmptyNames DEF WalkFits
<1>7. CASE a \in nodes /\ phase = "ancestors" /\ kind = "ancestors" /\ todo = ParentsOf(a)
  <2>1. Reached(v) = Names(ParentsOf(a)) BY <1>5, <1>7, EmptyNames DEF Reached
  <2>2. Names(ParentsOf(a)) \subseteq Above(a) BY AboveIsClosed DEF HasParentsOf
  <2>3. Named(a) /\ \A c \in Names(ParentsOf(a)) : Named(c)
    BY <1>7 DEF ILineage, GraphOK, Named, IWalks, ParentsFit
  <2>4. ClimbFits(v)
    BY <1>5, <1>7, <2>1, <2>2, <2>3, EmptyNames DEF ClimbFits, HasParentsOf
  <2> QED BY <1>5, <1>7, <2>4, EmptyNames DEF WalkFits
<1>8. CASE phase = "list" /\ kind = "children" /\ todo = <<>>
  <2>1. SearchFits(v) BY <1>1, <1>5, <1>8, EmptyNames DEF SearchFits
  <2> QED BY <1>5, <1>8, <2>1, EmptyNames DEF WalkFits
<1> QED BY <1>6, <1>7, <1>8

(* What fits the graph fits it while it stands still.                      *)
LEMMA StillFits ==
  ASSUME Still
  PROVE  (\A w : WalkFits(w)' <=> WalkFits(w)) /\ (\A a \in Assets : ParentsFit(a)' <=> ParentsFit(a))
<1>1. \A w : WalkFits(w)' <=> WalkFits(w)
  BY DEF Still, WalkFits, ClimbFits, SearchFits, Above, HasParentsOf, ParentsOf, Named, In
<1>2. \A a \in Assets : ParentsFit(a)' <=> ParentsFit(a)
  BY DEF Still, ParentsFit, HasParentsOf, ClosedUpwards, ParentsOf, Named, In
<1> QED BY <1>1, <1>2

(* A step of a reader, whose walk fits after it.                           *)
LEMMA ReaderKeeps ==
  ASSUME IWalks, ILineage, NEW r \in Readers, Still, NEW v, WalkFits(v),
         walk' = [walk EXCEPT ![r] = v]
  PROVE  IWalks'
<1>1. \A w : WalkFits(w)' <=> WalkFits(w) BY StillFits
<1>2. \A a \in Assets : ParentsFit(a)' <=> ParentsFit(a) BY StillFits
<1>3. DOMAIN walk' = Readers BY DEF IWalks
<1>4. \A s \in Readers : walk'[s] = [phase |-> "idle"] \/ WalkFits(walk'[s])
  BY DEF IWalks
<1>5. \A s \in Readers : walk'[s] = [phase |-> "idle"] \/ WalkFits(walk[s])'
  <2>1. ASSUME NEW s \in Readers, NEW w, w = walk'[s], WalkFits(w) PROVE WalkFits(walk[s])'
    <3>1. WalkFits(w)' BY <1>1, <2>1
    <3> QED BY <2>1, <3>1
  <2> QED BY <1>4, <2>1
<1> QED BY <1>2, <1>3, <1>5 DEF IWalks, Still

LEMMA WalksOn ==
  ASSUME IWalks, ILineage, NEW r \in Readers,
         BeginWalk(r) \/ StepUp(r) \/ ListNodes(r) \/ ReadChild(r)
  PROVE  IWalks'
<1>1. Still BY DEF BeginWalk, StepUp, ListNodes, ReadChild
<1>2. PICK w : w = walk[r] OBVIOUS
<1>3. w.phase # "idle" => WalkFits(w) BY <1>2 DEF IWalks
<1>4. ASSUME NEW v, WalkFits(v), walk' = [walk EXCEPT ![r] = v] PROVE IWalks'
  BY <1>1, <1>4, ReaderKeeps
<1>5. CASE BeginWalk(r)
  <2>1. PICK a \in Assets, kind \in {"ancestors", "children"} :
          LET begun(phase, todo, result) ==
                [phase |-> phase, of |-> a, kind |-> kind, result |-> result, todo |-> todo,
                 found |-> <<>>, settled |-> {b \in nodes : In(b, "published")}]
          IN  walk' = [walk EXCEPT ![r] =
                IF a \notin nodes THEN begun("done", <<>>, "unknown")
                ELSE IF kind = "ancestors" THEN begun("ancestors", ParentsOf(a), "none")
                ELSE begun("list", <<>>, "none")]
    BY <1>5 DEF BeginWalk
  <2> DEFINE begun(phase, todo, result) ==
                [phase |-> phase, of |-> a, kind |-> kind, result |-> result, todo |-> todo,
                 found |-> <<>>, settled |-> {b \in nodes : In(b, "published")}]
  <2>2. CASE a \notin nodes
    <3>1. PICK v : v = begun("done", <<>>, "unknown") OBVIOUS
    <3>2. WalkFits(v) BY <2>2, <3>1, BeginFits
    <3> QED BY <1>4, <2>1, <2>2, <3>1, <3>2
  <2>3. CASE a \in nodes /\ kind = "ancestors"
    <3>1. PICK v : v = begun("ancestors", ParentsOf(a), "none") OBVIOUS
    <3>2. WalkFits(v) BY <2>3, <3>1, BeginFits
    <3> QED BY <1>4, <2>1, <2>3, <3>1, <3>2
  <2>4. CASE a \in nodes /\ kind = "children"
    <3>1. PICK v : v = begun("list", <<>>, "none") OBVIOUS
    <3>2. WalkFits(v) BY <2>4, <3>1, BeginFits
    <3> QED BY <1>4, <2>1, <2>4, <3>1, <3>2
  <2> QED BY <2>2, <2>3, <2>4
<1>6. ASSUME NEW result \in {"ok", "missing"}, Ends(r, result),
             w.phase \in {"ancestors", "children"}, result = "ok" => w.todo = <<>>
      PROVE  IWalks'
  <2>1. PICK v : v = [w EXCEPT !.phase = "done", !.result = result] OBVIOUS
  <2>2. WalkFits(v) BY <1>3, <1>6, <2>1, EndFits
  <2>3. walk' = [walk EXCEPT ![r] = v] BY <1>2, <1>6, <2>1 DEF Ends
  <2> QED BY <1>4, <2>2, <2>3
<1>7. CASE StepUp(r)
  <2>1. w.phase = "ancestors" /\ WalkFits(w) BY <1>2, <1>3, <1>7 DEF StepUp
  <2>2. CASE w.todo = <<>>
    <3>1. Ends(r, "ok") BY <1>2, <1>7, <2>2 DEF StepUp
    <3> QED BY <1>6, <2>1, <2>2, <3>1
  <2>3. CASE w.todo # <<>> /\ Head(w.todo) \in Names(w.found)
    <3>1. PICK v : v = [w EXCEPT !.todo = Tail(w.todo)] OBVIOUS
    <3>2. WalkFits(v) BY <2>1, <2>3, <3>1, StepUpFits
    <3>3. walk' = [walk EXCEPT ![r] = v] BY <1>2, <1>7, <2>3, <3>1 DEF StepUp, NextUp, Rest
    <3> QED BY <1>4, <3>2, <3>3
  <2>4. CASE w.todo # <<>> /\ Head(w.todo) \notin Names(w.found) /\ Head(w.todo) \notin nodes
    <3>1. Ends(r, "missing") BY <1>2, <1>7, <2>4 DEF StepUp, NextUp
    <3> QED BY <1>6, <2>1, <3>1
  <2>5. CASE w.todo # <<>> /\ Head(w.todo) \notin Names(w.found) /\ Head(w.todo) \in nodes
    <3>1. PICK v : v = [w EXCEPT !.found = Append(w.found, Head(w.todo)),
                                 !.todo = Tail(w.todo) \o ParentsOf(Head(w.todo))]
      OBVIOUS
    <3>2. WalkFits(v) BY <2>1, <2>5, <3>1, StepUpFits
    <3>3. walk' = [walk EXCEPT ![r] = v] BY <1>2, <1>7, <2>5, <3>1 DEF StepUp, NextUp, Rest
    <3> QED BY <1>4, <3>2, <3>3
  <2> QED BY <2>2, <2>3, <2>4, <2>5
<1>8. CASE ListNodes(r)
  <2>1. w.phase = "list" /\ WalkFits(w) BY <1>2, <1>3, <1>8 DEF ListNodes
  <2>2. PICK v : v = [w EXCEPT !.phase = "children", !.todo = SetToSeq(nodes)] OBVIOUS
  <2>3. WalkFits(v) BY <2>1, <2>2, ListFits
  <2>4. walk' = [walk EXCEPT ![r] = v] BY <1>2, <1>8, <2>2 DEF ListNodes
  <2> QED BY <1>4, <2>3, <2>4
<1>9. CASE ReadChild(r)
  <2>1. w.phase = "children" /\ WalkFits(w) BY <1>2, <1>3, <1>9 DEF ReadChild
  <2>2. CASE w.todo = <<>>
    <3>1. Ends(r, "ok") BY <1>2, <1>9, <2>2 DEF ReadChild
    <3> QED BY <1>6, <2>1, <2>2, <3>1
  <2>3. CASE w.todo # <<>> /\ Head(w.todo) \notin nodes
    <3>1. Ends(r, "missing") BY <1>2, <1>9, <2>3 DEF ReadChild, NextUp
    <3> QED BY <1>6, <2>1, <3>1
  <2>4. CASE w.todo # <<>> /\ Head(w.todo) \in nodes
    <3>1. PICK v : v = [w EXCEPT !.todo = Tail(w.todo),
                                 !.found = IF w.of \in Names(ParentsOf(Head(w.todo)))
                                           THEN Append(w.found, Head(w.todo)) ELSE w.found]
      OBVIOUS
    <3>2. WalkFits(v) BY <2>1, <2>4, <3>1, ReadChildFits
    <3>3. walk' = [walk EXCEPT ![r] = v] BY <1>2, <1>9, <2>4, <3>1 DEF ReadChild, NextUp, Rest
    <3> QED BY <1>4, <3>2, <3>3
  <2> QED BY <2>2, <2>3, <2>4
<1> QED BY <1>5, <1>7, <1>8, <1>9

-----------------------------------------------------------------------------
(* Every step keeps the walks fitting.                                     *)
LEMMA InitIWalks == LineageInit => IWalks
<1> SUFFICES ASSUME LineageInit PROVE IWalks OBVIOUS
<1>1. IsFiniteSet(nodes) BY FS_EmptySet DEF LineageInit
<1>2. ASSUME NEW a \in Assets PROVE ParentsFit(a)
  <2>1. ParentsOf(a) = <<>> /\ In(a, "none") BY DEF LineageInit, ParentsOf, In
  <2>2. {} \in SUBSET Assets /\ HasParentsOf({}, a) /\ ClosedUpwards({}) /\ a \notin {}
    BY <2>1, EmptyNames DEF HasParentsOf, ClosedUpwards
  <2>3. \E set \in SUBSET Assets : HasParentsOf(set, a) /\ ClosedUpwards(set) /\ a \notin set
    BY <2>2
  <2>4. <<>> \in Seq(Assets) OBVIOUS
  <2> QED BY <2>1, <2>3, <2>4, EmptyNames DEF ParentsFit
<1>3. DOMAIN walk = Readers /\ \A r \in Readers : walk[r] = [phase |-> "idle"]
  BY DEF LineageInit
<1> QED BY <1>1, <1>2, <1>3 DEF IWalks

LEMMA PublicationsKeepWalks ==
  ASSUME IWalks, ILineage, NEW a \in Assets,
         \/ CreateBelow(a) \/ CheckParents(a) \/ WriteNode(a)
         \/ PersistJob(a) \/ Discard(a) \/ DiePublishing(a)
  PROVE  IWalks'
<1>1. walk' = walk BY DEF CreateBelow, CheckParents, WriteNode, PersistJob, Discard, DiePublishing
<1>2. Lasts /\ IsFiniteSet(nodes') /\ \A b \in Assets : ParentsFit(b)'
  <2>1. CASE CreateBelow(a) BY <2>1, CreateLasts
  <2>2. ASSUME NEW phase \in {"created", "checked", "added", "published", "rollback"},
               Turns(a, phase), publication[a].phase \in {"created", "checked", "added", "rollback"},
               nodes' \in {nodes, nodes \cup {a}, nodes \ {a}}
        PROVE  Lasts /\ IsFiniteSet(nodes') /\ \A b \in Assets : ParentsFit(b)'
    BY <2>2, TurnLasts DEF Named, In
  <2>3. CASE CheckParents(a) BY <2>2, <2>3 DEF CheckParents, In
  <2>4. CASE WriteNode(a) BY <2>2, <2>4 DEF WriteNode, In
  <2>5. CASE PersistJob(a) BY <2>2, <2>5 DEF PersistJob, In
  <2>6. CASE Discard(a) BY <2>2, <2>6 DEF Discard, In
  <2>7. CASE DiePublishing(a) BY <2>2, <2>7 DEF DiePublishing
  <2> QED BY <2>1, <2>3, <2>4, <2>5, <2>6, <2>7
<1>3. ASSUME NEW r \in Readers, walk[r] # [phase |-> "idle"] PROVE WalkFits(walk[r])'
  <2>1. PICK w : w = walk[r] OBVIOUS
  <2>2. WalkFits(w) BY <1>3, <2>1 DEF IWalks
  <2>3. WalkFits(w)' BY <1>2, <2>2, WalkLasts
  <2> QED BY <1>1, <2>1, <2>3
<1> QED BY <1>1, <1>2, <1>3 DEF IWalks

LEMMA NextIWalks == IWalks /\ ILineage /\ [LineageNext]_lineageVars => IWalks'
<1> SUFFICES ASSUME IWalks, ILineage, [LineageNext]_lineageVars PROVE IWalks' OBVIOUS
<1>1. CASE UNCHANGED lineageVars
  <2>1. Still /\ walk' = walk BY <1>1 DEF lineageVars, Still
  <2>2. \A r \in Readers : WalkFits(walk[r]) => WalkFits(walk[r])'
    <3>1. ASSUME NEW r \in Readers, NEW w, w = walk[r], WalkFits(w) PROVE WalkFits(walk[r])'
      BY <2>1, <3>1, StillFits
    <3> QED BY <3>1
  <2> QED BY <2>1, <2>2, StillFits DEF IWalks, Still
<1>2. CASE LineageNext BY <1>2, PublicationsKeepWalks, WalksOn DEF LineageNext
<1> QED BY <1>1, <1>2

(* AnswersAreWhole: any number of assets is published, and taken back, by  *)
(* jobs that fail and die, while ancestors and children read one node at a *)
(* time.  What such a call returns is right all the same: the ancestors    *)
(* are the least set that holds the parents of the asset and those of all  *)
(* its members, in no order a repetition and never the asset itself; among *)
(* the children is every one that was published when the call began.       *)
THEOREM LineageAnswersAreWhole == LineageSpec => []AnswersAreWhole
<1>1. LineageInit => ILineage /\ IWalks BY InitILineage, InitIWalks
<1>2. ILineage /\ IWalks /\ [LineageNext]_lineageVars => (ILineage /\ IWalks)'
  BY NextILineage, NextIWalks
<1>3. ILineage /\ IWalks => AnswersAreWhole BY WalksAreWhole
<1> QED BY <1>1, <1>2, <1>3, PTL DEF LineageSpec
=============================================================================
