-------------------------- MODULE PackStore_proofs --------------------------
(***************************************************************************)
(* Proof that no revision of a reference pack is lost, no staged pack is   *)
(* taken away, no single fault makes a failed creation leave anything, and *)
(* every call is one step of PackContract, for any packs, processes,       *)
(* failures and deaths.                                                    *)
(***************************************************************************)
EXTENDS PackStore, Sequences, SequenceTheorems, TLAPS

Fits(w) == Holds(w) /\ Finds(w)

(* The step of w leaves the others their calls and locks, and touches a    *)
(* pack, or tells of it, only under the lock of the pack.                  *)
Leaves(w) ==
    /\ \A v \in Writers \ {w} : call'[v] = call[v]
    /\ \A k \in PackIds :
          /\ packLock[k] \notin {w, Free} => packLock'[k] = packLock[k]
          /\ stagingLock[k] \notin {w, Free} => stagingLock'[k] = stagingLock[k]
          /\ packLock[k] # w => packs'[k] = packs[k] /\ (k \in emptied' <=> k \in emptied)
          /\ packLock[k] # w /\ stagingLock[k] # w => staged'[k] \in {staged[k], "fresh"}
    /\ \A one \in acked' : one \in acked \/ packLock[one.pack] = w

Good(w) == PackOK' /\ RevisionsAreKept' /\ Fits(w)' /\ Leaves(w)

(* A step that is good for w keeps the invariant for everybody.            *)
LEMMA GoodStep ==
    ASSUME IPack, NEW w \in Writers, Good(w)
    PROVE  IPack'
<1>1. ASSUME NEW v \in Writers \ {w}
      PROVE  Fits(v)'
  <2>1. call'[v] = call[v] /\ v # Free
    BY PackConstantsOK DEF Good, Leaves
  <2>2. Holds(v)'
    BY <2>1 DEF IPack, Good, Leaves, Holds, At, Seen
  <2>3. ASSUME NEW k \in PackIds, packLock[k] = v
        PROVE  /\ packs'[k] = packs[k] /\ (k \in emptied' <=> k \in emptied)
               /\ Untold(k) => Untold(k)'
               /\ stagingLock[k] = v /\ staged[k] # "none" => staged'[k] # "none"
    BY <2>3 DEF Good, Leaves, Untold
  <2>4. Visible(call[v].pack)' = (packs'[call[v].pack] # NoPack)
    BY <2>1 DEF Visible
  <2>5. Finds(v)'
    BY <2>1, <2>3 DEF IPack, Holds, Finds, Creates, At, IsThere, Visible, Latest
  <2> QED
    BY <2>2, <2>5 DEF Fits
<1> QED
  BY <1>1 DEF Good, Fits, IPack

(* Freeing the locks of w keeps everybody else's.                          *)
LEMMA LeavingIsFair ==
    ASSUME IPack, NEW w \in Writers
    PROVE  /\ Leave(w) \in [PackIds -> Writers \cup {Free}]
           /\ LeaveStaging(w) \in [PackIds -> Writers \cup {Free}]
           /\ \A k \in PackIds : packLock[k] # w => Leave(w)[k] = packLock[k]
           /\ \A k \in PackIds : stagingLock[k] # w => LeaveStaging(w)[k] = stagingLock[k]
BY DEF IPack, PackOK, Leave, LeaveStaging

(* What follows from the revisions being as they were.                     *)
LEMMA SameRevisions ==
    ASSUME IPack, packs' = packs, acked' = acked
    PROVE  RevisionsAreKept' /\ (\A k \in PackIds : Visible(k)' => Latest(k)' \in Nat \ {0})
BY DEF IPack, PackOK, RevisionsAreKept, Visible, Latest

-----------------------------------------------------------------------------
(* Steps that leave the packs, and what was told of them, as they are.     *)
Quietly(w) ==
    /\ packs' = packs /\ emptied' = emptied /\ acked' = acked
    /\ packFaults' \in 0 .. MaxPackFaults
    /\ staged' \in [PackIds -> {"none", "fresh", "old"}]
    /\ packLock' \in [PackIds -> Writers \cup {Free}]
    /\ stagingLock' \in [PackIds -> Writers \cup {Free}]
    /\ \A k \in PackIds :
          /\ packLock[k] \notin {w, Free} => packLock'[k] = packLock[k]
          /\ stagingLock[k] \notin {w, Free} => stagingLock'[k] = stagingLock[k]
          /\ packLock[k] # w /\ stagingLock[k] # w => staged'[k] \in {staged[k], "fresh"}

(* Such a step is good when the call of w goes on as it should.            *)
LEMMA QuietIsGood ==
    ASSUME IPack, NEW w \in Writers, Quietly(w), Fits(w)',
           call' \in [Writers -> PackCallRecords],
           \A v \in Writers \ {w} : call'[v] = call[v]
    PROVE  Good(w)
<1>1. PackOK'
  BY SameRevisions DEF IPack, PackOK, Quietly, Visible
<1>2. Leaves(w)
  BY DEF Leaves, Quietly, IPack, PackOK
<1> QED
  BY <1>1, <1>2, SameRevisions DEF Good, Quietly

(* What the call of w becomes when it is answered, or goes on.             *)
LEMMA Answered ==
    ASSUME IPack, NEW w \in Writers, NEW a \in PackAnswers, Answer(w, a)
    PROVE  /\ call' \in [Writers -> PackCallRecords]
           /\ \A v \in Writers \ {w} : call'[v] = call[v]
           /\ call'[w].phase = "done" /\ call'[w].kind = call[w].kind
           /\ call'[w].pack = call[w].pack /\ call'[w].seen = call[w].seen
           /\ ~At(w, "idle") => Fits(w)'
<1>1. "done" \in PackPhases
  BY DEF PackPhases
<1>2. call[w] \in PackCallRecords
  BY DEF IPack, PackOK
<1> DEFINE c == [call[w] EXCEPT !.phase = "done", !.result = a]
<1>3. c \in PackCallRecords
  BY <1>1, <1>2 DEF PackCallRecords
<1>4. /\ c.phase = "done" /\ c.kind = call[w].kind
      /\ c.pack = call[w].pack /\ c.seen = call[w].seen
  BY <1>2 DEF PackCallRecords
<1>5. call' = [call EXCEPT ![w] = c]
  BY DEF Answer
<1>6. call \in [Writers -> PackCallRecords]
  BY DEF IPack, PackOK
<1> HIDE DEF c
<1>7. call' \in [Writers -> PackCallRecords] /\ call'[w] = c
      /\ \A v \in Writers \ {w} : call'[v] = call[v]
  BY <1>3, <1>5, <1>6
<1>8. ~At(w, "idle") => Fits(w)'
  BY <1>4, <1>7 DEF IPack, Fits, Holds, Finds, Creates, At, Seen
<1> QED
  BY <1>4, <1>7, <1>8

LEMMA Moved ==
    ASSUME IPack, NEW w \in Writers, NEW phase \in PackPhases, To(w, phase)
    PROVE  /\ call' \in [Writers -> PackCallRecords]
           /\ \A v \in Writers \ {w} : call'[v] = call[v]
           /\ call'[w].phase = phase /\ call'[w].kind = call[w].kind
           /\ call'[w].pack = call[w].pack /\ call'[w].seen = call[w].seen
           /\ call'[w].replaced = call[w].replaced /\ call'[w].latest = call[w].latest
<1>1. call \in [Writers -> PackCallRecords]
  BY DEF IPack, PackOK
<1> QED
  BY <1>1 DEF To, PackCallRecords

(* A creation that fails goes on to be undone.                             *)
LEMMA GoesToUndo ==
    ASSUME IPack, NEW w \in Writers, To(w, "undo"), ~At(w, "idle"),
           packLock'[call[w].pack] = w,
           call[w].replaced => Untold(call[w].pack) /\ acked' = acked,
           ~call[w].replaced => /\ ~IsThere(call[w].pack)
                                /\ packs' = packs /\ emptied' = emptied
    PROVE  Fits(w)'
<1>1. /\ call'[w].phase = "undo" /\ call'[w].kind = call[w].kind
      /\ call'[w].pack = call[w].pack /\ call'[w].seen = call[w].seen
      /\ call'[w].replaced = call[w].replaced
  BY Moved DEF PackPhases
<1>2. Holds(w)'
  BY <1>1 DEF IPack, Holds, At, Seen
<1>3. Finds(w)'
  BY <1>1 DEF Finds, Creates, At, Untold, IsThere, Visible
<1> QED
  BY <1>2, <1>3 DEF Fits

-----------------------------------------------------------------------------
(* The call begins, and cleans up what is stale.                           *)
LEMMA BeginIsGood ==
    ASSUME IPack, NEW w \in Writers, BeginPack(w)
    PROVE  Good(w)
<1>1. PICK kind \in PackCalls, k \in PackIds :
          call' = [call EXCEPT ![w] =
                [kind |-> kind, pack |-> k, result |-> "none", replaced |-> FALSE,
                 todo |-> {j \in PackIds : staged[j] # "none"}, seen |-> k, latest |-> 0,
                 phase |-> IF kind \in {"create", "open"} THEN "scan" ELSE "lock"]]
  BY DEF BeginPack
<1>2. call' \in [Writers -> PackCallRecords] /\ \A v \in Writers \ {w} : call'[v] = call[v]
  BY <1>1 DEF IPack, PackOK, PackCallRecords, PackAnswers, PackPhases
<1>3. /\ call'[w].kind = kind /\ call'[w].pack = k /\ call'[w].seen = k
      /\ ~call'[w].replaced /\ call'[w].phase \in {"scan", "lock"}
  BY <1>1 DEF IPack, PackOK
<1>4. Fits(w)'
  BY <1>3 DEF Fits, Holds, Finds, Creates, At, Seen
<1>5. Quietly(w)
  BY DEF BeginPack, Quietly, IPack, PackOK
<1> QED
  BY <1>2, <1>4, <1>5, QuietIsGood

(* The clean-up is over, or goes on to the next directory.                 *)
LEMMA ScanIsGood ==
    ASSUME IPack, NEW w \in Writers, Scan(w)
    PROVE  Good(w)
<1>0. At(w, "scan")
  BY DEF Scan
<1>1. Quietly(w)
  BY DEF Scan, Quietly, IPack, PackOK
<1>2. CASE Answer(w, "ok")
  BY <1>1, <1>2, Answered, QuietIsGood DEF Scan, At, PackAnswers
<1>3. CASE To(w, "lock")
  <2>1. Fits(w)'
    BY <1>0, <1>3, Moved DEF IPack, Fits, Holds, Finds, Creates, At, Seen, PackPhases
  <2> QED
    BY <1>1, <1>3, <2>1, Moved, QuietIsGood DEF PackPhases
<1>4. ASSUME NEW k \in call[w].todo, NEW phase \in {"scan", "stat"},
             call' = [call EXCEPT ![w].todo = @ \ {k}, ![w].seen = k, ![w].phase = phase]
      PROVE  Good(w)
  <2> DEFINE c == [call[w] EXCEPT !.todo = @ \ {k}, !.seen = k, !.phase = phase]
  <2>1. call \in [Writers -> PackCallRecords] /\ call' = [call EXCEPT ![w] = c]
    BY <1>4 DEF IPack, PackOK
  <2>2. c \in PackCallRecords /\ k \in PackIds
    BY <2>1 DEF PackCallRecords, PackPhases
  <2>3. /\ c.phase = phase /\ c.kind = call[w].kind /\ c.pack = call[w].pack
        /\ c.seen = k /\ c.replaced = call[w].replaced
    BY <2>1 DEF PackCallRecords
  <2> HIDE DEF c
  <2>4. /\ call' \in [Writers -> PackCallRecords] /\ call'[w] = c
        /\ \A v \in Writers \ {w} : call'[v] = call[v]
    BY <2>1, <2>2
  <2>5. Fits(w)'
    BY <2>2, <2>3, <2>4 DEF Scan, IPack, Fits, Holds, Finds, Creates, At, Seen
  <2> QED
    BY <1>1, <2>4, <2>5, QuietIsGood
<1> QED
  BY <1>2, <1>3, <1>4 DEF Scan

(* It goes on after a directory it leaves, or is done with.                *)
LEMMA ScanGoesOn ==
    ASSUME IPack, NEW w \in Writers, NEW phase \in {"scan", "reap"}, To(w, phase), Quietly(w),
           call[w].phase \in {"stat", "reap", "reaping"}
    PROVE  Good(w)
<1>1. phase \in PackPhases
  BY DEF PackPhases
<1>2. Fits(w)'
  BY <1>1, Moved DEF IPack, Fits, Holds, Finds, Creates, At, Seen
<1> QED
  BY <1>1, <1>2, Moved, QuietIsGood

LEMMA StatIsGood ==
    ASSUME IPack, NEW w \in Writers, Stat(w)
    PROVE  Good(w)
<1>1. Quietly(w)
  BY DEF Stat, Quietly, IPack, PackOK
<1>2. CASE Answer(w, "vanished")
  BY <1>1, <1>2, Answered, QuietIsGood DEF Stat, At, PackAnswers
<1>3. CASE To(w, "scan") \/ To(w, "reap")
  BY <1>1, <1>3, ScanGoesOn DEF Stat, At
<1>4. Seen(w) \in PackIds /\ staged[Seen(w)] \in {"none", "fresh", "old"}
  BY DEF Stat, IPack, PackOK, Holds, At
<1> QED
  BY <1>2, <1>3, <1>4 DEF Stat

LEMMA ReapIsGood ==
    ASSUME IPack, NEW w \in Writers, Reap(w) \/ RemoveStale(w)
    PROVE  Good(w)
<1>1. Seen(w) \in PackIds
  BY DEF Reap, RemoveStale, IPack, Holds, At
<1>2. CASE Reap(w) /\ stagingLock[Seen(w)] = Free
  <2>1. Quietly(w)
    BY <1>1, <1>2 DEF Reap, Quietly, IPack, PackOK
  <2>2. To(w, "reaping") /\ stagingLock' = [stagingLock EXCEPT ![Seen(w)] = w]
    BY <1>2 DEF Reap
  <2>3. /\ call'[w].phase = "reaping" /\ call'[w].kind = call[w].kind
        /\ call'[w].pack = call[w].pack /\ call'[w].seen = call[w].seen
        /\ call'[w].replaced = call[w].replaced
    BY <2>2, Moved DEF PackPhases
  <2>4. Holds(w)'
    BY <1>1, <1>2, <2>2, <2>3 DEF Reap, IPack, PackOK, Holds, At, Seen
  <2>5. Finds(w)'
    BY <1>2, <2>3 DEF Reap, IPack, Finds, Creates, At
  <2>6. Fits(w)'
    BY <2>4, <2>5 DEF Fits
  <2> QED
    BY <2>1, <2>2, <2>6, Moved, QuietIsGood DEF PackPhases
<1>3. CASE Reap(w) /\ stagingLock[Seen(w)] # Free
  <2>1. Quietly(w) /\ To(w, "scan")
    BY <1>3 DEF Reap, Quietly, IPack, PackOK
  <2> QED
    BY <1>3, <2>1, ScanGoesOn DEF Reap, At
<1>4. CASE RemoveStale(w)
  <2>1. stagingLock[Seen(w)] = w
    BY <1>4 DEF RemoveStale, IPack, Holds
  <2>2. packFaults' \in 0 .. MaxPackFaults
    BY <1>4, PackConstantsOK DEF RemoveStale, Faulty, NoFault, IPack, PackOK
  <2>3. /\ staged' \in [PackIds -> {"none", "fresh", "old"}]
        /\ \A k \in PackIds : stagingLock[k] # w => staged'[k] = staged[k]
    BY <1>1, <1>4, <2>1 DEF RemoveStale, PartlyRemoved, IPack, PackOK
  <2>4. Quietly(w)
    BY <1>4, <2>2, <2>3, LeavingIsFair DEF RemoveStale, Quietly, IPack, PackOK
  <2>5. CASE To(w, "scan")
    BY <1>4, <2>4, <2>5, ScanGoesOn DEF RemoveStale, At
  <2>6. CASE Answer(w, "failed")
    BY <1>4, <2>4, <2>6, Answered, QuietIsGood DEF RemoveStale, At, PackAnswers
  <2> QED
    BY <1>4, <2>5, <2>6 DEF RemoveStale
<1> QED
  BY <1>2, <1>3, <1>4

-----------------------------------------------------------------------------
(* The lock of the pack, and a creation.                                   *)
LEMMA LockIsGood ==
    ASSUME IPack, NEW w \in Writers, LockPack(w)
    PROVE  Good(w)
<1>1. ~At(w, "idle") /\ call[w].pack \in PackIds /\ call[w].kind \in PackCalls
  BY DEF LockPack, IPack, Holds, At
<1>2. Quietly(w)
  BY <1>1 DEF LockPack, Quietly, IPack, PackOK
<1>3. CASE Answer(w, "timeout")
  BY <1>1, <1>2, <1>3, Answered, QuietIsGood DEF PackAnswers
<1>4. CASE packLock' = [packLock EXCEPT ![call[w].pack] = w] /\ To(w, call[w].kind)
  <2>1. call[w].kind \in PackPhases /\ packLock'[call[w].pack] = w
    BY <1>1, <1>4 DEF PackPhases, IPack, PackOK
  <2>2. Fits(w)'
    BY <1>1, <1>4, <2>1, Moved
       DEF LockPack, IPack, Fits, Holds, Finds, Creates, At, Seen, PackCalls
  <2> QED
    BY <1>2, <1>4, <2>1, <2>2, Moved, QuietIsGood
<1> QED
  BY <1>3, <1>4 DEF LockPack

LEMMA CreateIsGood ==
    ASSUME IPack, NEW w \in Writers, RefuseExistingPack(w) \/ LockStaging(w)
    PROVE  Good(w)
<1> DEFINE k == call[w].pack
<1>1. /\ At(w, "create") /\ k \in PackIds /\ packLock[k] = w
      /\ ~At(w, "idle") /\ ~call[w].replaced
  BY DEF RefuseExistingPack, LockStaging, IPack, Holds, Finds, At
<1>2. CASE RefuseExistingPack(w)
  <2>1. Quietly(w)
    BY <1>2, LeavingIsFair DEF RefuseExistingPack, Quietly, IPack, PackOK
  <2> QED
    BY <1>1, <1>2, <2>1, Answered, QuietIsGood DEF RefuseExistingPack, PackAnswers
<1>3. CASE LockStaging(w)
  <2>1. Quietly(w)
    BY <1>1, <1>3 DEF LockStaging, Quietly, IPack, PackOK
  <2>2. CASE stagingLock' = [stagingLock EXCEPT ![k] = w] /\ To(w, "stage")
    <3>1. /\ call'[w].phase = "stage" /\ call'[w].kind = call[w].kind
          /\ call'[w].pack = k /\ call'[w].seen = call[w].seen
          /\ call'[w].replaced = call[w].replaced
      BY <2>2, Moved DEF PackPhases
    <3>2. Holds(w)'
      BY <1>1, <1>3, <2>2, <3>1 DEF LockStaging, IPack, PackOK, Holds, At, Seen
    <3>3. Finds(w)'
      BY <1>1, <1>3, <3>1 DEF LockStaging, Finds, Creates, At, IsThere, Visible
    <3>4. Fits(w)'
      BY <3>2, <3>3 DEF Fits
    <3> QED
      BY <2>1, <2>2, <3>4, Moved, QuietIsGood DEF PackPhases
  <2>3. CASE To(w, "undo")
    <3>1. Fits(w)'
      BY <1>1, <1>3, <2>3, GoesToUndo DEF LockStaging
    <3> QED
      BY <2>1, <2>3, <3>1, Moved, QuietIsGood DEF PackPhases
  <2> QED
    BY <1>3, <2>2, <2>3 DEF LockStaging
<1> QED
  BY <1>2, <1>3

LEMMA StageIsGood ==
    ASSUME IPack, NEW w \in Writers, StagePack(w)
    PROVE  Good(w)
<1> DEFINE k == call[w].pack
<1>1. /\ At(w, "stage") /\ k \in PackIds /\ packLock[k] = w /\ stagingLock[k] = w
      /\ ~At(w, "idle") /\ ~call[w].replaced /\ ~IsThere(k)
  BY DEF StagePack, IPack, Holds, Finds, At
<1>2. packFaults' \in 0 .. MaxPackFaults
  BY PackConstantsOK DEF StagePack, Faulty, NoFault, IPack, PackOK
<1>3. Quietly(w)
  BY <1>1, <1>2, LeavingIsFair DEF StagePack, Quietly, IPack, PackOK
<1>4. CASE staged' = [staged EXCEPT ![k] = "fresh"] /\ To(w, "staged") /\ UNCHANGED stagingLock
  <2>1. /\ call'[w].phase = "staged" /\ call'[w].kind = call[w].kind
        /\ call'[w].pack = k /\ call'[w].seen = call[w].seen
        /\ call'[w].replaced = call[w].replaced
    BY <1>4, Moved DEF PackPhases
  <2>2. Holds(w)'
    BY <1>1, <1>4, <2>1 DEF StagePack, IPack, PackOK, Holds, At, Seen
  <2>3. Finds(w)'
    BY <1>1, <1>4, <2>1
       DEF StagePack, IPack, PackOK, Finds, Creates, At, IsThere, Visible
  <2> QED
    BY <1>3, <1>4, <2>2, <2>3, Moved, QuietIsGood DEF PackPhases, Fits
<1>5. CASE To(w, "undo")
  <2>1. Fits(w)'
    BY <1>1, <1>5, GoesToUndo DEF StagePack
  <2> QED
    BY <1>3, <1>5, <2>1, Moved, QuietIsGood DEF PackPhases
<1> QED
  BY <1>4, <1>5 DEF StagePack

(* The pack appears: nobody was told of anything it replaces.              *)
LEMMA PublishIsGood ==
    ASSUME IPack, NEW w \in Writers, PublishPack(w)
    PROVE  Good(w)
<1>0. PICK k \in PackIds : k = call[w].pack
  BY DEF PublishPack, IPack, Holds, At
<1>1. /\ At(w, "staged") /\ k = call[w].pack /\ packLock[k] = w /\ stagingLock[k] = w
      /\ ~At(w, "idle") /\ ~call[w].replaced /\ ~IsThere(k) /\ ~Visible(k)
  BY <1>0 DEF PublishPack, IsThere, IPack, Holds, Finds, At
<1>2. packFaults' \in 0 .. MaxPackFaults
  BY PackConstantsOK DEF PublishPack, Faulty, NoFault, IPack, PackOK
<1>3. CASE To(w, "undo") /\ stagingLock' = LeaveStaging(w) /\ UNCHANGED <<packs, staged>>
  <2>1. Quietly(w)
    BY <1>1, <1>2, <1>3, LeavingIsFair DEF PublishPack, Quietly, IPack, PackOK
  <2>2. Fits(w)'
    BY <1>1, <1>3, GoesToUndo DEF PublishPack
  <2> QED
    BY <1>3, <2>1, <2>2, Moved, QuietIsGood DEF PackPhases
<1>4. CASE /\ packs' = [packs EXCEPT ![k] = FirstRevision(w)]
           /\ staged' = [staged EXCEPT ![k] = "none"]
           /\ call' = [call EXCEPT ![w].phase = "sync", ![w].replaced = TRUE]
           /\ NoFault /\ UNCHANGED stagingLock
  <2> DEFINE c == [call[w] EXCEPT !.phase = "sync", !.replaced = TRUE]
  <2>1. call \in [Writers -> PackCallRecords] /\ call' = [call EXCEPT ![w] = c]
    BY <1>4 DEF IPack, PackOK
  <2>2. c \in PackCallRecords
    BY <2>1 DEF PackCallRecords, PackPhases
  <2>3. /\ c.phase = "sync" /\ c.kind = call[w].kind /\ c.pack = k
        /\ c.seen = call[w].seen /\ c.replaced
    BY <1>1, <2>1 DEF PackCallRecords
  <2> HIDE DEF c
  <2>4. /\ call' \in [Writers -> PackCallRecords] /\ call'[w] = c
        /\ \A v \in Writers \ {w} : call'[v] = call[v]
    BY <2>1, <2>2
  <2>5. Untold(k)
    BY <1>1 DEF IPack, RevisionsAreKept, Visible, Untold, NoPack
  <2>6. packs'[k] = FirstRevision(w) /\ DOMAIN packs'[k] = 1 .. 1
        /\ \A j \in PackIds \ {k} : packs'[j] = packs[j]
    BY <1>1, <1>4 DEF IPack, PackOK, FirstRevision
  <2>7. Latest(k)' = 1
    <3>1. \A r \in DOMAIN packs'[k] : r = 1
      BY <2>6
    <3> QED
      BY <2>6, <3>1 DEF Latest
  <2>8. RevisionsAreKept'
    <3>1. ASSUME NEW one \in acked'
          PROVE  one.rev \in DOMAIN packs'[one.pack] /\ packs'[one.pack][one.rev] = one.content
      BY <2>5, <2>6 DEF PublishPack, IPack, PackOK, RevisionsAreKept, Untold
    <3>2. ASSUME NEW j \in PackIds \ {k}, Visible(j)'
          PROVE  /\ DOMAIN packs'[j] = 1 .. Latest(j)'
                 /\ \A r \in DOMAIN packs'[j] \ {1} : packs'[j][r].base = packs'[j][r - 1].by
      BY <2>6, <3>2 DEF IPack, RevisionsAreKept, Visible, Latest
    <3>3. /\ DOMAIN packs'[k] = 1 .. Latest(k)'
          /\ \A r \in DOMAIN packs'[k] \ {1} : packs'[k][r].base = packs'[k][r - 1].by
      BY <2>6, <2>7
    <3> QED
      BY <3>1, <3>2, <3>3 DEF RevisionsAreKept
  <2>9. PackOK'
    <3>1. ASSUME NEW j \in PackIds, Visible(j)'
          PROVE  Latest(j)' \in Nat \ {0}
      <4>1. CASE j = k
        BY <2>7, <4>1
      <4>2. CASE j # k
        BY <2>6, <3>1, <4>2 DEF IPack, PackOK, Visible, Latest
      <4> QED
        BY <4>1, <4>2
    <3>2. \A j \in emptied' : ~Visible(j)'
      BY <1>1, <2>6 DEF PublishPack, IPack, PackOK, IsThere, Visible
    <3> QED
      BY <1>2, <1>4, <2>4, <3>1, <3>2 DEF PublishPack, IPack, PackOK
  <2>10. Fits(w)'
    BY <1>1, <1>4, <2>3, <2>4, <2>5, <2>6
       DEF PublishPack, IPack, PackOK, Fits, Holds, Finds, Creates, At, Seen, Untold
  <2>11. Leaves(w)
    BY <1>1, <1>4, <2>4, <2>6 DEF PublishPack, Leaves, IPack, PackOK
  <2> QED
    BY <2>8, <2>9, <2>10, <2>11 DEF Good
<1> QED
  BY <1>1, <1>3, <1>4 DEF PublishPack

LEMMA SyncIsGood ==
    ASSUME IPack, NEW w \in Writers, SyncPack(w)
    PROVE  Good(w)
<1>0. PICK k \in PackIds : k = call[w].pack
  BY DEF SyncPack, IPack, Holds, At
<1>1. /\ At(w, "sync") /\ k = call[w].pack /\ packLock[k] = w /\ stagingLock[k] = w
      /\ ~At(w, "idle") /\ Untold(k) /\ packs[k] = FirstRevision(w)
      /\ call[w].replaced
  BY <1>0 DEF SyncPack, IPack, Holds, Finds, Creates, At
<1>2. packFaults' \in 0 .. MaxPackFaults
  BY PackConstantsOK DEF SyncPack, Faulty, NoFault, IPack, PackOK
<1>3. CASE Faulty /\ To(w, "undo") /\ UNCHANGED <<packLock, acked>>
  <2>1. Quietly(w)
    BY <1>1, <1>2, <1>3, LeavingIsFair DEF SyncPack, Quietly, IPack, PackOK
  <2>2. Fits(w)'
    BY <1>1, <1>3, GoesToUndo DEF SyncPack
  <2> QED
    BY <1>3, <2>1, <2>2, Moved, QuietIsGood DEF PackPhases
<1>4. CASE /\ NoFault /\ Answer(w, "ok") /\ packLock' = Leave(w)
           /\ acked' = acked \cup {[pack |-> k, rev |-> 1, content |-> Revision(w, "none")]}
  <2>1. "ok" \in PackAnswers
    BY DEF PackAnswers
  <2>2. PackOK'
    <3>1. \A j \in PackIds : Visible(j)' => Latest(j)' \in Nat \ {0}
      BY DEF SyncPack, IPack, PackOK, Visible, Latest
    <3>2. \A one \in acked' : one.pack \in PackIds
      BY <1>4 DEF IPack, PackOK
    <3> QED
      BY <1>1, <1>2, <1>4, <2>1, <3>1, <3>2, Answered, LeavingIsFair
         DEF SyncPack, IPack, PackOK, Visible
  <2>3. RevisionsAreKept'
    <3>1. packs' = packs /\ 1 \in DOMAIN packs[k] /\ packs[k][1] = Revision(w, "none")
      BY <1>1 DEF SyncPack, FirstRevision
    <3> QED
      BY <1>4, <3>1 DEF IPack, RevisionsAreKept, Visible, Latest
  <2>4. Leaves(w)
    BY <1>1, <1>4, <2>1, Answered, LeavingIsFair DEF SyncPack, Leaves, IPack, PackOK
  <2> QED
    BY <1>1, <1>4, <2>1, <2>2, <2>3, <2>4, Answered DEF Good
<1> QED
  BY <1>1, <1>3, <1>4 DEF SyncPack

(* A creation is taken back: what it staged, or its pack, which nobody was *)
(* told of.                                                                *)
LEMMA UndoIsGood ==
    ASSUME IPack, NEW w \in Writers, UndoStaging(w) \/ UndoDirectory(w)
    PROVE  Good(w)
<1>0. PICK k \in PackIds : k = call[w].pack
  BY DEF UndoStaging, UndoDirectory, IPack, Holds, At
<1>1. ~At(w, "idle") /\ k = call[w].pack /\ packLock[k] = w
  BY <1>0 DEF UndoStaging, UndoDirectory, IPack, Holds, At
<1>2. Answer(w, "failed") /\ "failed" \in PackAnswers
  BY DEF UndoStaging, UndoDirectory, PackAnswers
<1>3. packFaults' \in 0 .. MaxPackFaults
  BY PackConstantsOK DEF UndoStaging, UndoDirectory, Faulty, NoFault, IPack, PackOK
<1>4. CASE UndoStaging(w)
  <2>0. /\ staged' \in [PackIds -> {"none", "fresh", "old"}]
        /\ \A j \in PackIds \ {k} : staged'[j] = staged[j]
    BY <1>1, <1>4 DEF UndoStaging, PartlyRemoved, IPack, PackOK
  <2>1. Quietly(w)
    BY <1>1, <1>3, <1>4, <2>0, LeavingIsFair DEF UndoStaging, Quietly, IPack, PackOK
  <2> QED
    BY <1>1, <1>2, <2>1, Answered, QuietIsGood
<1>5. CASE UndoDirectory(w)
  <2>1. /\ packs' = packs /\ acked' = acked /\ UNCHANGED <<staged, stagingLock>>
        /\ packLock' = Leave(w)
        /\ emptied' \subseteq emptied /\ \A j \in PackIds \ {k} : j \in emptied' <=> j \in emptied
    BY <1>1, <1>5 DEF UndoDirectory
  <2>2. PackOK'
    BY <1>1, <1>2, <1>3, <2>1, Answered, LeavingIsFair, SameRevisions DEF IPack, PackOK, Visible
  <2>3. Leaves(w)
    BY <1>1, <1>2, <2>1, Answered, LeavingIsFair DEF Leaves, IPack, PackOK
  <2> QED
    BY <1>1, <1>2, <2>1, <2>2, <2>3, Answered, SameRevisions DEF Good
<1> QED
  BY <1>4, <1>5

LEMMA UnlinkIsGood ==
    ASSUME IPack, NEW w \in Writers, UndoPack(w)
    PROVE  Good(w)
<1>0. PICK k \in PackIds : k = call[w].pack
  BY DEF UndoPack, IPack, Holds, At
<1>1. /\ At(w, "undo") /\ ~At(w, "idle") /\ k = call[w].pack /\ packLock[k] = w
      /\ call[w].replaced /\ Untold(k)
  BY <1>0 DEF UndoPack, IPack, Holds, Finds, Creates, At
<1>2. packFaults' \in 0 .. MaxPackFaults
  BY PackConstantsOK DEF UndoPack, Faulty, NoFault, IPack, PackOK
<1>3. CASE Faulty /\ Answer(w, "failed") /\ packLock' = Leave(w) /\ UNCHANGED <<packs, emptied>>
  <2>1. Quietly(w)
    BY <1>1, <1>2, <1>3, LeavingIsFair DEF UndoPack, Quietly, IPack, PackOK
  <2> QED
    BY <1>1, <1>3, <2>1, Answered, QuietIsGood DEF PackAnswers
<1>4. CASE /\ packs' = [packs EXCEPT ![k] = NoPack] /\ emptied' = emptied \cup {k}
           /\ To(w, "unlinked") /\ NoFault /\ UNCHANGED packLock
  <2>1. /\ call' \in [Writers -> PackCallRecords]
        /\ \A v \in Writers \ {w} : call'[v] = call[v]
        /\ call'[w].phase = "unlinked" /\ call'[w].kind = call[w].kind
        /\ call'[w].pack = k /\ call'[w].seen = call[w].seen
    BY <1>1, <1>4, Moved DEF PackPhases
  <2>2. packs'[k] = NoPack /\ \A j \in PackIds \ {k} : packs'[j] = packs[j]
    BY <1>1, <1>4 DEF IPack, PackOK
  <2>3. RevisionsAreKept'
    <3>1. ASSUME NEW one \in acked'
          PROVE  one.rev \in DOMAIN packs'[one.pack] /\ packs'[one.pack][one.rev] = one.content
      BY <1>1, <2>2 DEF UndoPack, IPack, PackOK, RevisionsAreKept, Untold
    <3>2. ASSUME NEW j \in PackIds, Visible(j)'
          PROVE  /\ DOMAIN packs'[j] = 1 .. Latest(j)'
                 /\ \A r \in DOMAIN packs'[j] \ {1} : packs'[j][r].base = packs'[j][r - 1].by
      BY <2>2, <3>2 DEF IPack, RevisionsAreKept, Visible, Latest
    <3> QED
      BY <3>1, <3>2 DEF RevisionsAreKept
  <2>4. PackOK'
    <3>1. ASSUME NEW j \in PackIds, Visible(j)'
          PROVE  Latest(j)' \in Nat \ {0}
      BY <2>2, <3>1 DEF IPack, PackOK, Visible, Latest
    <3>2. \A j \in emptied' : ~Visible(j)'
      BY <1>4, <2>2 DEF IPack, PackOK, Visible
    <3> QED
      BY <1>2, <1>4, <2>1, <3>1, <3>2 DEF UndoPack, IPack, PackOK
  <2>5. Leaves(w)
    BY <1>1, <1>4, <2>1, <2>2 DEF UndoPack, Leaves, IPack, PackOK
  <2>6. Fits(w)'
    BY <1>1, <1>4, <2>1 DEF UndoPack, IPack, Fits, Holds, Finds, Creates, At, Seen, Untold
  <2> QED
    BY <2>3, <2>4, <2>5, <2>6 DEF Good
<1> QED
  BY <1>1, <1>3, <1>4 DEF UndoPack

-----------------------------------------------------------------------------
(* A revision, and a read.                                                 *)
LEMMA ReadLatestIsGood ==
    ASSUME IPack, NEW w \in Writers, ReadLatest(w)
    PROVE  Good(w)
<1>0. PICK k \in PackIds : k = call[w].pack
  BY DEF ReadLatest, IPack, Holds, At
<1>1. At(w, "revise") /\ ~At(w, "idle") /\ k = call[w].pack /\ packLock[k] = w
  BY <1>0 DEF ReadLatest, IPack, Holds, At
<1>2. Quietly(w)
  BY LeavingIsFair DEF ReadLatest, Quietly, IPack, PackOK
<1>3. CASE Answer(w, "unknown") \/ Answer(w, "corrupt")
  BY <1>1, <1>2, <1>3, Answered, QuietIsGood DEF PackAnswers
<1>4. CASE /\ Visible(k) /\ packLock' = packLock
           /\ call' = [call EXCEPT ![w].phase = "write", ![w].latest = Latest(k)]
  <2> DEFINE c == [call[w] EXCEPT !.phase = "write", !.latest = Latest(k)]
  <2>1. call \in [Writers -> PackCallRecords] /\ call' = [call EXCEPT ![w] = c]
    BY <1>4 DEF IPack, PackOK
  <2>2. Latest(k) \in Nat
    BY <1>4 DEF IPack, PackOK
  <2>3. c \in PackCallRecords
    BY <2>1, <2>2 DEF PackCallRecords, PackPhases
  <2>4. /\ c.phase = "write" /\ c.kind = call[w].kind /\ c.pack = k
        /\ c.seen = call[w].seen /\ c.latest = Latest(k)
    BY <1>1, <2>1 DEF PackCallRecords
  <2> HIDE DEF c
  <2>5. /\ call' \in [Writers -> PackCallRecords] /\ call'[w] = c
        /\ \A v \in Writers \ {w} : call'[v] = call[v]
    BY <2>1, <2>3
  <2>6. Visible(k)' /\ Latest(k)' = Latest(k)
    BY <1>4 DEF ReadLatest, Visible, Latest
  <2>7. Fits(w)'
    BY <1>1, <1>4, <2>4, <2>5, <2>6 DEF IPack, Fits, Holds, Finds, Creates, At, Seen
  <2> QED
    BY <1>2, <2>5, <2>7, QuietIsGood
<1> QED
  BY <1>1, <1>3, <1>4 DEF ReadLatest

(* The next revision follows the latest, which is still the latest.        *)
LEMMA WriteIsGood ==
    ASSUME IPack, NEW w \in Writers, WriteRevision(w)
    PROVE  Good(w)
<1>0. PICK k \in PackIds : k = call[w].pack
  BY DEF WriteRevision, IPack, Holds, At
<1>1. /\ At(w, "write") /\ ~At(w, "idle") /\ k = call[w].pack /\ packLock[k] = w
      /\ Visible(k) /\ call[w].latest = Latest(k)
  BY <1>0 DEF WriteRevision, IPack, Holds, Finds, At
<1>2. packFaults' \in 0 .. MaxPackFaults
  <2>1. NoFault \/ Faulty
    BY DEF WriteRevision
  <2> QED
    BY <2>1, PackConstantsOK DEF Faulty, NoFault, IPack, PackOK
<1>3. PICK n \in Nat \ {0} : n = Latest(k) /\ DOMAIN packs[k] = 1 .. n
  <2>1. Latest(k) \in Nat \ {0}
    BY <1>1 DEF IPack, PackOK
  <2>2. DOMAIN packs[k] = 1 .. Latest(k)
    BY <1>1 DEF IPack, RevisionsAreKept
  <2> QED
    BY <2>1, <2>2
<1> DEFINE content == Revision(w, packs[k][n].by)
           written == [packs EXCEPT ![k] =
                          [r \in DOMAIN packs[k] \cup {n + 1} |->
                              IF r = n + 1 THEN content ELSE packs[k][r]]]
           told == [pack |-> k, rev |-> n + 1, content |-> content]
<1>4. \/ /\ NoFault /\ packs' = written /\ acked' = acked \cup {told} /\ Answer(w, "ok")
      \/ /\ Faulty /\ packs' \in {packs, written} /\ Answer(w, "failed") /\ UNCHANGED acked
  <2>1. call[w].pack = k /\ call[w].latest = n
    BY <1>1, <1>3
  <2> QED
    BY <2>1, SMTT(60) DEF WriteRevision
<1>5. PICK a \in {"ok", "failed"} : Answer(w, a) /\ a \in PackAnswers
  BY <1>4 DEF PackAnswers
<1>6. packLock' = Leave(w) /\ UNCHANGED <<emptied, staged, stagingLock>>
  BY DEF WriteRevision
<1>7. CASE packs' = packs /\ acked' = acked
  <2>1. Quietly(w)
    BY <1>2, <1>6, <1>7, LeavingIsFair DEF Quietly, IPack, PackOK
  <2> QED
    BY <1>1, <1>5, <2>1, Answered, QuietIsGood
<1>8. CASE packs' = written /\ acked' \subseteq acked \cup {told}
  <2>1. /\ DOMAIN packs'[k] = 1 .. (n + 1)
        /\ packs'[k][n + 1] = content
        /\ \A r \in 1 .. n : packs'[k][r] = packs[k][r]
        /\ \A j \in PackIds \ {k} : packs'[j] = packs[j]
        /\ packs' = [j \in PackIds |-> packs'[j]]
    <3>1. packs = [j \in PackIds |-> packs[j]]
      BY DEF IPack, PackOK
    <3>2. packs'[k] = [r \in 1 .. n \cup {n + 1} |->
                              IF r = n + 1 THEN content ELSE packs[k][r]]
      BY <1>3, <1>8, <3>1
    <3>3. 1 .. n \cup {n + 1} = 1 .. (n + 1) /\ n + 1 \notin 1 .. n
      OBVIOUS
    <3>4. (\A j \in PackIds \ {k} : packs'[j] = packs[j]) /\ packs' = [j \in PackIds |-> packs'[j]]
      BY <1>8, <3>1
    <3> HIDE DEF content, written
    <3> QED
      BY <3>2, <3>3, <3>4
  <2>2. Latest(k)' = n + 1
    <3>1. /\ n + 1 \in DOMAIN packs'[k] /\ \A s \in DOMAIN packs'[k] : s <= n + 1
          /\ \A r \in DOMAIN packs'[k] : (\A s \in DOMAIN packs'[k] : s <= r) => r = n + 1
      <4>1. \A r \in 1 .. (n + 1) : n + 1 <= r => r = n + 1
        OBVIOUS
      <4> QED
        BY <2>1, <4>1
    <3> QED
      BY <3>1 DEF Latest
  <2> HIDE DEF written
  <2>3. RevisionsAreKept'
    <3>1. ASSUME NEW one \in acked'
          PROVE  one.rev \in DOMAIN packs'[one.pack] /\ packs'[one.pack][one.rev] = one.content
      <4>1. CASE one \in acked
        <5>1. /\ one.rev \in DOMAIN packs[one.pack] /\ packs[one.pack][one.rev] = one.content
              /\ one.pack \in PackIds
          BY <4>1 DEF IPack, PackOK, RevisionsAreKept
        <5>2. CASE one.pack = k
          BY <5>1, <5>2, <1>3, <2>1
        <5>3. CASE one.pack # k
          BY <5>1, <5>3, <2>1
        <5> QED BY <5>2, <5>3
      <4>2. CASE one = told
        BY <2>1, <4>2
      <4> QED
        BY <1>8, <4>1, <4>2
    <3>2. ASSUME NEW j \in PackIds \ {k}, Visible(j)'
          PROVE  /\ DOMAIN packs'[j] = 1 .. Latest(j)'
                 /\ \A r \in DOMAIN packs'[j] \ {1} : packs'[j][r].base = packs'[j][r - 1].by
      <4>1. packs'[j] = packs[j]
        BY <2>1
      <4>2. Visible(j) /\ Latest(j)' = Latest(j)
        BY <3>2, <4>1 DEF Visible, Latest
      <4>3. /\ DOMAIN packs[j] = 1 .. Latest(j)
            /\ \A r \in DOMAIN packs[j] \ {1} : packs[j][r].base = packs[j][r - 1].by
        BY <4>2 DEF IPack, RevisionsAreKept
      <4> QED
        BY <4>1, <4>2, <4>3
    <3>3. ASSUME NEW r \in 1 .. (n + 1), r # 1
          PROVE  packs'[k][r].base = packs'[k][r - 1].by
      <4>1. CASE r = n + 1
        BY <2>1, <4>1 DEF Revision
      <4>2. CASE r # n + 1
        <5>1. r \in 1 .. n /\ r - 1 \in 1 .. n
          BY <3>3, <4>2
        <5>2. packs[k][r].base = packs[k][r - 1].by
          BY <1>1, <1>3, <3>3, <5>1 DEF IPack, RevisionsAreKept
        <5> QED
          BY <2>1, <5>1, <5>2
      <4> QED
        BY <4>1, <4>2
    <3> QED
      BY <2>1, <2>2, <3>1, <3>2, <3>3 DEF RevisionsAreKept
  <2>4. PackOK'
    <3>1. ASSUME NEW j \in PackIds, Visible(j)'
          PROVE  Latest(j)' \in Nat \ {0}
      <4>1. CASE j = k
        BY <2>2, <4>1
      <4>2. CASE j # k
        BY <2>1, <3>1, <4>2 DEF IPack, PackOK, Visible, Latest
      <4> QED
        BY <4>1, <4>2
    <3>2. \A one \in acked' : one.pack \in PackIds
      BY <1>8 DEF IPack, PackOK
    <3>3. \A j \in emptied' : ~Visible(j)'
      BY <1>1, <1>6, <2>1 DEF IPack, PackOK, Visible
    <3> QED
      BY <1>2, <1>5, <1>6, <2>1, <3>1, <3>2, <3>3, Answered, LeavingIsFair DEF IPack, PackOK
  <2>5. Leaves(w)
    <3>1. \A one \in acked' : one \in acked \/ packLock[one.pack] = w
      BY <1>1, <1>8
    <3> QED
      BY <1>1, <1>5, <1>6, <2>1, <3>1, Answered, LeavingIsFair DEF Leaves, IPack, PackOK
  <2> QED
    BY <1>1, <1>5, <2>3, <2>4, <2>5, Answered DEF Good
<1> QED
  BY <1>4, <1>7, <1>8

(* What a read tells of is there.                                          *)
LEMMA ReadIsGood ==
    ASSUME IPack, NEW w \in Writers, ReadPack(w)
    PROVE  Good(w)
<1>0. PICK k \in PackIds : k = call[w].pack
  BY DEF ReadPack, IPack, Holds, At
<1>1. ~At(w, "idle") /\ k = call[w].pack /\ packLock[k] = w
  BY <1>0 DEF ReadPack, IPack, Holds, At
<1>2. PICK a \in PackAnswers : Answer(w, a)
  BY DEF ReadPack, PackAnswers
<1>3. /\ packs' = packs /\ packLock' = Leave(w)
      /\ UNCHANGED <<emptied, staged, stagingLock, packFaults>>
      /\ \A one \in acked' : \/ one \in acked
                             \/ /\ one.pack = k /\ one.rev \in DOMAIN packs[k]
                                /\ one.content = packs[k][one.rev]
  BY <1>1 DEF ReadPack
<1>4. RevisionsAreKept'
  BY <1>3 DEF IPack, RevisionsAreKept, Visible, Latest
<1>5. PackOK'
  <2>1. \A j \in PackIds : Visible(j)' => Latest(j)' \in Nat \ {0}
    BY <1>3 DEF IPack, PackOK, Visible, Latest
  <2>2. \A one \in acked' : one.pack \in PackIds
    BY <1>3 DEF IPack, PackOK
  <2> QED
    BY <1>2, <1>3, <2>1, <2>2, Answered, LeavingIsFair DEF IPack, PackOK, Visible
<1>6. Leaves(w)
  BY <1>1, <1>2, <1>3, Answered, LeavingIsFair DEF Leaves, IPack, PackOK
<1> QED
  BY <1>1, <1>2, <1>4, <1>5, <1>6, Answered DEF Good

(* A process dies: its locks are free, its files are as they are.          *)
LEMMA DeathIsGood ==
    ASSUME IPack, NEW w \in Writers, DiePack(w)
    PROVE  Good(w)
<1>1. ~At(w, "idle") /\ Answer(w, "died") /\ "died" \in PackAnswers
  BY DEF DiePack, At, PackAnswers
<1>2. packFaults' \in 0 .. MaxPackFaults
  BY PackConstantsOK DEF DiePack, Faulty, IPack, PackOK
<1>3. Quietly(w)
  BY <1>2, LeavingIsFair DEF DiePack, Quietly, IPack, PackOK
<1> QED
  BY <1>1, <1>3, Answered, QuietIsGood

-----------------------------------------------------------------------------
LEMMA InitIPack == PackInit => IPack
<1> SUFFICES ASSUME PackInit PROVE IPack
  OBVIOUS
<1>1. ASSUME NEW k \in PackIds, Visible(k)
      PROVE  packs[k] = FirstRevision(Seed) /\ Latest(k) = 1
  <2>1. packs[k] = FirstRevision(Seed)
    BY <1>1 DEF PackInit, Visible
  <2>2. DOMAIN packs[k] = {1}
    BY <2>1 DEF FirstRevision
  <2> QED
    BY <2>1, <2>2 DEF Latest
<1>2. PackOK
  BY <1>1, PackConstantsOK DEF PackInit, PackOK, PackCallRecords, PackAnswers, PackPhases
<1>3. RevisionsAreKept
  <2>1. ASSUME NEW k \in PackIds, Visible(k)
        PROVE  DOMAIN packs[k] = 1 .. Latest(k) /\ DOMAIN packs[k] \ {1} = {}
    <3>1. DOMAIN packs[k] = {1} /\ Latest(k) = 1
      BY <1>1, <2>1 DEF FirstRevision
    <3> QED
      BY <3>1
  <2>2. acked = {}
    BY DEF PackInit
  <2> QED
    BY <2>1, <2>2 DEF RevisionsAreKept
<1>4. \A w \in Writers : Holds(w) /\ Finds(w)
  BY DEF PackInit, Holds, Finds, Creates, At
<1> QED
  BY <1>2, <1>3, <1>4 DEF IPack

(* Every step of a caller is good.                                         *)
LEMMA StepIsGood ==
    ASSUME IPack, NEW w \in Writers, PackStep(w)
    PROVE  Good(w)
BY BeginIsGood, ScanIsGood, StatIsGood, ReapIsGood, LockIsGood, CreateIsGood,
   StageIsGood, PublishIsGood, SyncIsGood, UndoIsGood, UnlinkIsGood, ReadLatestIsGood,
   WriteIsGood, ReadIsGood, DeathIsGood
   DEF PackStep

LEMMA NextIPack == IPack /\ [PackNext]_packVars => IPack'
<1> SUFFICES ASSUME IPack, [PackNext]_packVars PROVE IPack'
  OBVIOUS
<1>1. ASSUME NEW w \in Writers, PackStep(w)
      PROVE  IPack'
  BY <1>1, GoodStep, StepIsGood
<1>2. CASE AgeStaging
  <2>1. /\ packs' = packs /\ acked' = acked /\ call' = call /\ packFaults' = packFaults
        /\ packLock' = packLock /\ stagingLock' = stagingLock /\ emptied' = emptied
        /\ staged' \in [PackIds -> {"none", "fresh", "old"}]
        /\ \A k \in PackIds : staged[k] # "none" => staged'[k] # "none"
    BY <1>2 DEF AgeStaging, IPack, PackOK
  <2>2. PackOK'
    BY <2>1, SameRevisions DEF IPack, PackOK, Visible
  <2>3. \A w \in Writers : Holds(w)' /\ Finds(w)'
    BY <2>1 DEF IPack, Holds, Finds, Creates, At, Seen, IsThere, Visible, Latest, Untold
  <2> QED
    BY <2>1, <2>2, <2>3, SameRevisions DEF IPack
<1>3. CASE UNCHANGED packVars
  <2>1. /\ packs' = packs /\ acked' = acked /\ call' = call /\ packFaults' = packFaults
        /\ packLock' = packLock /\ stagingLock' = stagingLock /\ staged' = staged
        /\ emptied' = emptied
    BY <1>3 DEF packVars
  <2>2. PackOK'
    BY <2>1, SameRevisions DEF IPack, PackOK, Visible
  <2>3. \A w \in Writers : Holds(w)' /\ Finds(w)'
    BY <2>1 DEF IPack, Holds, Finds, Creates, At, Seen, IsThere, Visible, Latest, Untold
  <2> QED
    BY <2>1, <2>2, <2>3, SameRevisions DEF IPack
<1> QED
  BY <1>1, <1>2, <1>3 DEF PackNext

(* IPack is an inductive invariant of the packs.                           *)
THEOREM PackInvariance == PackSpec => []IPack
BY InitIPack, NextIPack, PTL DEF PackSpec

(* Whatever fails and whoever dies, no revision a caller was told of is    *)
(* replaced or taken back, and each follows the one before it              *)
(* (ReferencePackStore.create, new_revision and their reads).              *)
THEOREM RevisionsStay == PackSpec => []RevisionsAreKept
<1>1. IPack => RevisionsAreKept
  BY DEF IPack
<1> QED
  BY <1>1, PackInvariance, PTL

(* No clean-up takes the staging directory of a creation at work, however  *)
(* old it is (_cleanup_stale_staging_dirs).                                *)
THEOREM StagedPacksStay == PackSpec => []StagedPackIsSpared
<1>1. IPack => StagedPackIsSpared
  BY DEF IPack, Finds, At, StagedPackIsSpared
<1> QED
  BY <1>1, PackInvariance, PTL

-----------------------------------------------------------------------------
(* What a call is for, and its answer.                                     *)

(* The answer of a call is the one it is given.                            *)
LEMMA Replied ==
    ASSUME IPack, NEW w \in Writers, NEW a \in PackAnswers, Answer(w, a)
    PROVE  call'[w].result = a /\ Serves(w)'
<1>1. call \in [Writers -> PackCallRecords]
  BY DEF IPack, PackOK
<1>2. call'[w].result = a /\ call'[w].phase = "done"
  BY <1>1 DEF Answer, PackCallRecords
<1> QED
  BY <1>2 DEF Serves, Creates, At

(* A call that goes on is not answered yet.                                *)
LEMMA Unanswered ==
    ASSUME IPackCalls, NEW w \in Writers, NEW phase \in PackPhases, To(w, phase),
           ~At(w, "done")
    PROVE  call'[w].result = "none"
<1>1. call \in [Writers -> PackCallRecords]
  BY DEF IPackCalls, IPack, PackOK
<1> QED
  BY <1>1 DEF To, PackCallRecords, IPackCalls, Serves

(* It goes on as what it is for, when it creates nothing.                  *)
LEMMA GoesOn ==
    ASSUME IPackCalls, NEW w \in Writers, NEW phase \in PackPhases, To(w, phase),
           ~At(w, "done"), ~At(w, "idle"), phase # "idle",
           phase = "undo" /\ call[w].replaced =>
                packs' = packs /\ packs[call[w].pack] = FirstRevision(w),
           phase \notin {"sync", "write", "done"},
           phase = "lock" => call[w].kind # "open",
           phase \in {"scan", "stat", "reap", "reaping"} => call[w].kind \in {"create", "open"},
           phase \in {"create", "stage", "staged", "undo", "unlinked"} => call[w].kind = "create",
           phase = "revise" => call[w].kind = "revise",
           phase \in {"history", "list"} => call[w].kind = phase
    PROVE  Serves(w)'
<1>1. IPack
  BY DEF IPackCalls
<1>2. /\ call'[w].phase = phase /\ call'[w].kind = call[w].kind
      /\ call'[w].pack = call[w].pack /\ call'[w].replaced = call[w].replaced
  BY <1>1, Moved
<1>3. call'[w].result = "none"
  BY Unanswered
<1> QED
  BY <1>2, <1>3 DEF Serves, Creates, At

(* A step that serves its own caller takes nothing from the others.        *)
LEMMA GoodServes ==
    ASSUME IPackCalls, NEW w \in Writers, Good(w), Serves(w)'
    PROVE  IPackCalls'
<1>1. IPack'
  BY GoodStep DEF IPackCalls
<1>2. ASSUME NEW v \in Writers \ {w}
      PROVE  Serves(v)'
  <2>1. call'[v] = call[v] /\ Serves(v)
    BY DEF Good, Leaves, IPackCalls
  <2>2. CASE Creates(v)
    <3>1. call[v].pack \in PackIds /\ packLock[call[v].pack] = v
      BY <2>2 DEF Creates, At, IPackCalls, IPack, Holds
    <3>2. packs'[call[v].pack] = packs[call[v].pack]
      BY <3>1 DEF Good, Leaves
    <3> QED
      BY <2>1, <2>2, <3>2 DEF Serves, Creates, At
  <2>3. CASE ~Creates(v)
    BY <2>1, <2>3 DEF Serves, Creates, At
  <2> QED
    BY <2>2, <2>3
<1> QED
  BY <1>1, <1>2 DEF IPackCalls

(* Every step serves its caller.                                           *)
LEMMA CleanUpServes ==
    ASSUME IPackCalls, NEW w \in Writers,
           BeginPack(w) \/ Scan(w) \/ Stat(w) \/ Reap(w) \/ RemoveStale(w)
    PROVE  Serves(w)'
<1>1. IPack /\ Serves(w) /\ call \in [Writers -> PackCallRecords]
  BY DEF IPackCalls, IPack, PackOK
<1>2. CASE BeginPack(w)
  <2>1. PICK kind \in PackCalls, k \in PackIds :
            call' = [call EXCEPT ![w] =
                  [kind |-> kind, pack |-> k, result |-> "none", replaced |-> FALSE,
                   todo |-> {j \in PackIds : staged[j] # "none"}, seen |-> k, latest |-> 0,
                   phase |-> IF kind \in {"create", "open"} THEN "scan" ELSE "lock"]]
    BY <1>2 DEF BeginPack
  <2>2. /\ call'[w].kind = kind /\ call'[w].result = "none" /\ ~call'[w].replaced
        /\ call'[w].phase = IF kind \in {"create", "open"} THEN "scan" ELSE "lock"
    BY <1>1, <2>1
  <2> QED
    BY <2>2 DEF Serves, Creates, At
<1>3. CASE Scan(w)
  <2>1. CASE Answer(w, "ok")
    BY <1>1, <2>1, Replied DEF PackAnswers
  <2>2. CASE To(w, "lock") /\ call[w].kind # "open"
    BY <1>1, <1>3, <2>2, GoesOn DEF Scan, At, PackPhases
  <2>3. ASSUME NEW k \in call[w].todo, NEW phase \in {"scan", "stat"},
               call' = [call EXCEPT ![w].todo = @ \ {k}, ![w].seen = k, ![w].phase = phase]
        PROVE  Serves(w)'
    <3>1. /\ call'[w].phase = phase /\ call'[w].kind = call[w].kind
          /\ call'[w].result = call[w].result
      BY <1>1, <2>3 DEF PackCallRecords
    <3>2. At(w, "scan")
      BY <1>3 DEF Scan
    <3> QED
      BY <1>1, <3>1, <3>2 DEF Serves, Creates, At
  <2> QED
    BY <1>3, <2>1, <2>2, <2>3 DEF Scan
<1>4. CASE Stat(w)
  <2>1. CASE Answer(w, "vanished")
    BY <1>1, <2>1, Replied DEF PackAnswers
  <2>2. CASE To(w, "reap") \/ To(w, "scan")
    BY <1>1, <1>4, <2>2, GoesOn DEF Stat, At, Serves, PackPhases
  <2>3. Seen(w) \in PackIds /\ staged[Seen(w)] \in {"none", "fresh", "old"}
    BY <1>1, <1>4 DEF Stat, IPack, PackOK, Holds, At
  <2> QED
    BY <1>4, <2>1, <2>2, <2>3 DEF Stat
<1>5. CASE Reap(w)
  <2>1. To(w, "reaping") \/ To(w, "scan")
    BY <1>5 DEF Reap
  <2> QED
    BY <1>1, <1>5, <2>1, GoesOn DEF Reap, At, Serves, PackPhases
<1>6. CASE RemoveStale(w)
  <2>1. CASE To(w, "scan")
    BY <1>1, <1>6, <2>1, GoesOn DEF RemoveStale, At, Serves, PackPhases
  <2>2. CASE Answer(w, "failed")
    BY <1>1, <2>2, Replied DEF PackAnswers
  <2> QED
    BY <1>6, <2>1, <2>2 DEF RemoveStale
<1> QED
  BY <1>2, <1>3, <1>4, <1>5, <1>6

LEMMA CreationServes ==
    ASSUME IPackCalls, NEW w \in Writers,
           \/ LockPack(w) \/ RefuseExistingPack(w) \/ LockStaging(w) \/ StagePack(w)
           \/ PublishPack(w) \/ SyncPack(w)
           \/ UndoStaging(w) \/ UndoPack(w) \/ UndoDirectory(w)
    PROVE  Serves(w)'
<1>1. IPack /\ Serves(w) /\ Finds(w) /\ Holds(w) /\ call \in [Writers -> PackCallRecords]
  BY DEF IPackCalls, IPack, PackOK
<1>2. CASE LockPack(w)
  <2>1. CASE Answer(w, "timeout")
    BY <1>1, <2>1, Replied DEF PackAnswers
  <2>2. CASE To(w, call[w].kind)
    <3>1. ~At(w, "idle") /\ call[w].kind \in PackCalls \ {"open"}
      BY <1>1, <1>2 DEF LockPack, Holds, Serves, At
    <3> QED
      BY <1>2, <2>2, <3>1, GoesOn DEF LockPack, At, PackPhases, PackCalls
  <2> QED
    BY <1>2, <2>1, <2>2 DEF LockPack
<1>3. CASE RefuseExistingPack(w)
  BY <1>1, <1>3, Replied DEF RefuseExistingPack, PackAnswers
<1>4. CASE UndoStaging(w) \/ UndoDirectory(w)
  BY <1>1, <1>4, Replied DEF UndoStaging, UndoDirectory, PackAnswers
<1>9. CASE UndoPack(w)
  <2>1. CASE Answer(w, "failed")
    BY <1>1, <2>1, Replied DEF PackAnswers
  <2>2. CASE To(w, "unlinked")
    BY <1>1, <1>9, <2>2, GoesOn DEF UndoPack, At, Serves, PackPhases
  <2> QED
    BY <1>9, <2>1, <2>2 DEF UndoPack
<1>5. CASE LockStaging(w)
  BY <1>1, <1>5, GoesOn DEF LockStaging, At, Serves, Finds, PackPhases
<1>6. CASE StagePack(w)
  BY <1>1, <1>6, GoesOn DEF StagePack, At, Serves, Finds, PackPhases
<1>7. CASE PublishPack(w)
  <2>1. CASE To(w, "undo")
    BY <1>1, <1>7, <2>1, GoesOn DEF PublishPack, At, Serves, Finds, PackPhases
  <2>2. CASE /\ packs' = [packs EXCEPT ![call[w].pack] = FirstRevision(w)]
             /\ call' = [call EXCEPT ![w].phase = "sync", ![w].replaced = TRUE]
    <3>1. /\ call'[w].phase = "sync" /\ call'[w].kind = call[w].kind
          /\ call'[w].result = call[w].result /\ call'[w].pack = call[w].pack
      BY <1>1, <2>2 DEF PackCallRecords
    <3>2. packs'[call[w].pack] = FirstRevision(w)
      BY <1>1, <1>7, <2>2 DEF PublishPack, Holds, At, IPack, PackOK
    <3> QED
      BY <1>1, <1>7, <3>1, <3>2 DEF PublishPack, Serves, Creates, At
  <2> QED
    BY <1>7, <2>1, <2>2 DEF PublishPack
<1>8. CASE SyncPack(w)
  <2>1. CASE Answer(w, "ok")
    BY <1>1, <2>1, Replied DEF PackAnswers
  <2>2. CASE To(w, "undo")
    BY <1>1, <1>8, <2>2, GoesOn DEF SyncPack, At, Serves, Finds, PackPhases
  <2> QED
    BY <1>8, <2>1, <2>2 DEF SyncPack
<1> QED
  BY <1>2, <1>3, <1>4, <1>5, <1>6, <1>7, <1>8, <1>9

LEMMA RevisionServes ==
    ASSUME IPackCalls, NEW w \in Writers,
           ReadLatest(w) \/ WriteRevision(w) \/ ReadPack(w) \/ DiePack(w)
    PROVE  Serves(w)'
<1>1. IPack /\ Serves(w) /\ call \in [Writers -> PackCallRecords]
  BY DEF IPackCalls, IPack, PackOK
<1>2. CASE \E a \in PackAnswers : Answer(w, a)
  BY <1>1, <1>2, Replied
<1>3. CASE ReadLatest(w) /\ Visible(call[w].pack)
  <2>1. /\ call'[w].phase = "write" /\ call'[w].kind = call[w].kind
        /\ call'[w].result = call[w].result
    BY <1>1, <1>3 DEF ReadLatest, PackCallRecords
  <2> QED
    BY <1>1, <1>3, <2>1 DEF ReadLatest, Serves, Creates, At
<1>4. CASE ReadLatest(w) /\ ~Visible(call[w].pack)
  BY <1>2, <1>4 DEF ReadLatest, PackAnswers
<1>5. CASE WriteRevision(w)
  BY <1>2, <1>5 DEF WriteRevision, PackAnswers
<1>6. CASE ReadPack(w)
  <2>1. PICK a \in PackAnswers : Answer(w, a)
    BY <1>6 DEF ReadPack, PackAnswers
  <2> QED
    BY <1>2, <2>1
<1>7. CASE DiePack(w)
  BY <1>2, <1>7 DEF DiePack, PackAnswers
<1> QED
  BY <1>3, <1>4, <1>5, <1>6, <1>7

LEMMA InitIPackCalls == PackInit => IPackCalls
BY InitIPack DEF PackInit, IPackCalls, Serves, Creates, At

LEMMA NextIPackCalls == IPackCalls /\ [PackNext]_packVars => IPackCalls'
<1> SUFFICES ASSUME IPackCalls, [PackNext]_packVars PROVE IPackCalls'
  OBVIOUS
<1>1. ASSUME NEW w \in Writers, PackStep(w)
      PROVE  IPackCalls'
  <2>1. Serves(w)'
    BY <1>1, CleanUpServes, CreationServes, RevisionServes DEF PackStep
  <2>2. Good(w)
    BY <1>1, StepIsGood DEF IPackCalls
  <2> QED
    BY <2>1, <2>2, GoodServes
<1>2. CASE AgeStaging \/ UNCHANGED packVars
  <2>1. IPack'
    BY <1>2, NextIPack DEF IPackCalls, PackNext
  <2>2. packs' = packs /\ call' = call
    BY <1>2 DEF AgeStaging, packVars
  <2> QED
    BY <2>1, <2>2 DEF IPackCalls, Serves, Creates, At
<1> QED
  BY <1>1, <1>2 DEF PackNext

(* IPackCalls is an inductive invariant of the packs.                      *)
THEOREM PackCallsInvariance == PackSpec => []IPackCalls
BY InitIPackCalls, NextIPackCalls, PTL DEF PackSpec

-----------------------------------------------------------------------------
(* What a failed creation leaves: faults are never taken back, a first     *)
(* revision is written by PublishPack alone, and the directory without a   *)
(* revision is still being removed until the second fault.                 *)

(* A fault is added, or none is.                                           *)
LEMMA FaultsAddUp ==
    ASSUME IPack, [PackNext]_packVars
    PROVE  /\ packFaults \in Nat
           /\ packFaults' = packFaults \/ packFaults' = packFaults + 1
<1>1. ASSUME NEW w \in Writers, PackStep(w)
      PROVE  packFaults' = packFaults \/ packFaults' = packFaults + 1
  BY <1>1 DEF PackStep, BeginPack, Scan, Stat, Reap, RemoveStale, LockPack, RefuseExistingPack,
              LockStaging, StagePack, PublishPack, SyncPack, UndoStaging, UndoPack,
              UndoDirectory, ReadLatest, WriteRevision, ReadPack, DiePack, NoFault, Faulty
<1> QED
  BY <1>1, PackConstantsOK DEF PackNext, AgeStaging, packVars, IPack, PackOK

(* What a step of a caller is when it matters here.                        *)
Matters(w) ==
    /\ call'[w].result = "failed" =>
          /\ call'[w].pack = call[w].pack
          /\ \/ RemoveStale(w) \/ UndoStaging(w) \/ UndoPack(w)
             \/ UndoDirectory(w) \/ WriteRevision(w)
    /\ Creates(w)' => PublishPack(w) \/ SyncPack(w) \/ UndoPack(w)
    /\ ~call'[w].replaced => ~call[w].replaced
    /\ packs' # packs => PublishPack(w) \/ UndoPack(w) \/ WriteRevision(w)
    /\ emptied' # emptied => UndoPack(w) \/ UndoDirectory(w)

LEMMA WhatMatters ==
    ASSUME IPackCalls, NEW w \in Writers, PackStep(w)
    PROVE  Matters(w)
<1>1. IPack /\ call[w] \in PackCallRecords /\ call \in [Writers -> PackCallRecords]
  BY DEF IPackCalls, IPack, PackOK
<1>2. Finds(w) /\ (~At(w, "done") => call[w].result = "none")
  BY DEF IPackCalls, IPack, Serves
<1>3. CASE BeginPack(w)
  BY <1>1, <1>2, <1>3 DEF BeginPack, Matters, Finds, Creates, At
<1>4. CASE Scan(w)
  <2>0. At(w, "scan") /\ packs' = packs /\ emptied' = emptied
    BY <1>4 DEF Scan
  <2>1. CASE Answer(w, "ok") \/ To(w, "lock")
    BY <1>1, <1>2, <2>0, <2>1 DEF To, Answer, Matters, Creates, At, PackCallRecords
  <2>2. ASSUME NEW k \in call[w].todo, NEW phase \in {"scan", "stat"},
               call' = [call EXCEPT ![w].todo = @ \ {k}, ![w].seen = k, ![w].phase = phase]
        PROVE  Matters(w)
    <3>1. /\ call'[w].phase = phase /\ call'[w].result = call[w].result
          /\ call'[w].replaced = call[w].replaced
      BY <1>1, <2>2 DEF PackCallRecords
    <3>2. call'[w].result = "none" /\ ~Creates(w)'
      BY <1>2, <2>0, <3>1 DEF Creates, At
    <3> QED
      BY <2>0, <3>1, <3>2 DEF Matters
  <2> QED
    BY <1>4, <2>1, <2>2 DEF Scan
<1>5. CASE Stat(w) \/ Reap(w) \/ LockPack(w)
  <2>1. \/ To(w, "reap") \/ To(w, "scan") \/ To(w, "reaping")
        \/ Answer(w, "vanished") \/ Answer(w, "timeout")
        \/ To(w, call[w].kind) /\ call[w].kind \in PackCalls
    <3>1. At(w, "lock") => call[w].kind \in PackCalls
      BY DEF IPackCalls, IPack, Holds, At
    <3>2. At(w, "stat") => staged[Seen(w)] \in {"none", "fresh", "old"}
      BY <1>1 DEF IPack, PackOK, Holds, At
    <3> QED
      BY <1>5, <3>1, <3>2 DEF Stat, Reap, LockPack
  <2>2. ~At(w, "done") /\ packs' = packs /\ emptied' = emptied
    BY <1>5 DEF Stat, Reap, LockPack, At
  <2> QED
    BY <1>1, <1>2, <2>1, <2>2
       DEF To, Answer, Matters, Creates, At, PackCallRecords, PackCalls
<1>6. CASE RemoveStale(w) \/ UndoStaging(w) \/ UndoDirectory(w)
  <2>1. \/ Answer(w, "failed") \/ To(w, "scan")
    BY <1>6 DEF RemoveStale, UndoStaging, UndoDirectory
  <2>2. packs' = packs /\ (emptied' = emptied \/ UndoDirectory(w))
    BY <1>6 DEF RemoveStale, UndoStaging, UndoDirectory
  <2> QED
    BY <1>1, <1>6, <2>1, <2>2 DEF To, Answer, Matters, Creates, At, PackCallRecords
<1>7. CASE RefuseExistingPack(w) \/ ReadPack(w) \/ DiePack(w)
  <2>1. PICK a \in {"exists", "corrupt", "ok", "unknown", "died"} : Answer(w, a)
    BY <1>7 DEF RefuseExistingPack, ReadPack, DiePack
  <2>2. packs' = packs /\ emptied' = emptied
    BY <1>7 DEF RefuseExistingPack, ReadPack, DiePack
  <2> QED
    BY <1>1, <2>1, <2>2 DEF Answer, Matters, Creates, At, PackCallRecords
<1>8. CASE LockStaging(w) \/ StagePack(w)
  <2>1. To(w, "stage") \/ To(w, "staged") \/ To(w, "undo")
    BY <1>8 DEF LockStaging, StagePack
  <2>2. /\ ~At(w, "done") /\ ~call[w].replaced
        /\ packs' = packs /\ emptied' = emptied
    BY <1>2, <1>8 DEF LockStaging, StagePack, Finds, At
  <2> QED
    BY <1>1, <1>2, <2>1, <2>2 DEF To, Matters, Creates, At, PackCallRecords
<1>9. CASE PublishPack(w)
  BY <1>1, <1>2, <1>9 DEF PublishPack, To, Matters, Creates, At, PackCallRecords
<1>10. CASE SyncPack(w) \/ UndoPack(w)
  <2>1. \/ Answer(w, "ok") \/ To(w, "undo") \/ To(w, "unlinked")
        \/ Answer(w, "failed") /\ UndoPack(w)
    BY <1>10 DEF SyncPack, UndoPack
  <2>2. ~At(w, "done") /\ ((packs' = packs /\ emptied' = emptied) \/ UndoPack(w))
    BY <1>10 DEF SyncPack, UndoPack, At
  <2>3. call'[w].replaced = call[w].replaced /\ call'[w].pack = call[w].pack
    BY <1>1, <2>1 DEF To, Answer, PackCallRecords
  <2>4. \/ call'[w].result = "failed" /\ UndoPack(w)
        \/ call'[w].result = "ok" \/ call'[w].result = "none"
    BY <1>1, <1>2, <2>1, <2>2 DEF To, Answer, PackCallRecords
  <2> QED
    BY <1>10, <2>2, <2>3, <2>4 DEF Matters
<1>11. CASE ReadLatest(w)
  BY <1>1, <1>2, <1>11 DEF ReadLatest, Answer, Matters, Creates, At, PackCallRecords
<1>12. CASE WriteRevision(w)
  <2>1. (Answer(w, "ok") \/ Answer(w, "failed")) /\ emptied' = emptied
    BY <1>12 DEF WriteRevision
  <2> QED
    BY <1>1, <1>12, <2>1 DEF Answer, Matters, Creates, At, PackCallRecords
<1> QED
  BY <1>3, <1>4, <1>5, <1>6, <1>7, <1>8, <1>9, <1>10, <1>11, <1>12 DEF PackStep

(* A first revision is the one there was, or that of who publishes it.     *)
LEMMA FirstsStay ==
    ASSUME IPackCalls, NEW w \in Writers, PackStep(w), NEW k \in PackIds, Visible(k)'
    PROVE  \/ Visible(k) /\ packs'[k][1] = packs[k][1]
           \/ packs'[k][1].by = w /\ call'[w].replaced
<1>1. IPack /\ packs = [j \in PackIds |-> packs[j]] /\ call \in [Writers -> PackCallRecords]
  BY DEF IPackCalls, IPack, PackOK
<1>2. CASE packs' = packs
  BY <1>2 DEF Visible
<1>3. CASE PublishPack(w) /\ packs' # packs
  <2>1. /\ packs' = [packs EXCEPT ![call[w].pack] = FirstRevision(w)]
        /\ call' = [call EXCEPT ![w].phase = "sync", ![w].replaced = TRUE]
    BY <1>3 DEF PublishPack
  <2>2. call'[w].replaced
    BY <1>1, <2>1 DEF PackCallRecords
  <2>3. CASE k = call[w].pack
    BY <1>1, <2>1, <2>2, <2>3 DEF FirstRevision, Revision
  <2>4. CASE k # call[w].pack
    BY <1>1, <2>1, <2>4 DEF Visible
  <2> QED
    BY <2>3, <2>4
<1>4. CASE UndoPack(w) /\ packs' # packs
  BY <1>1, <1>4 DEF UndoPack, Visible
<1>5. CASE WriteRevision(w) /\ packs' # packs
  <2> DEFINE j == call[w].pack
             n == call[w].latest
             content == Revision(w, packs[j][n].by)
             grown == [r \in DOMAIN packs[j] \cup {n + 1} |->
                          IF r = n + 1 THEN content ELSE packs[j][r]]
  <2>1. j \in PackIds
    BY <1>1, <1>5 DEF WriteRevision, IPack, Holds, At
  <2>3. Visible(j) /\ n \in Nat \ {0} /\ DOMAIN packs[j] = 1 .. n
    BY <1>1, <1>5, <2>1 DEF WriteRevision, IPack, PackOK, RevisionsAreKept, Finds, At
  <2>4. packs' = packs \/ packs' = [packs EXCEPT ![j] = grown]
    <3>1. packs' \in {packs, [packs EXCEPT ![j] = grown]}
      BY <1>5 DEF WriteRevision
    <3> QED
      BY <3>1
  <2> HIDE DEF j, n, content
  <2>5. packs' = [packs EXCEPT ![j] = grown]
    BY <1>5, <2>4
  <2>6. 1 \in DOMAIN packs[j] /\ n + 1 # 1
    BY <2>3
  <2>7. CASE k = j
    BY <1>1, <2>3, <2>5, <2>6, <2>7
  <2>8. CASE k # j
    BY <1>1, <2>5, <2>8 DEF Visible
  <2> QED
    BY <2>7, <2>8
<1> QED
  BY <1>2, <1>3, <1>4, <1>5, WhatMatters DEF Matters

(* The first fault of a creation that is being undone was before.          *)
LEMMA NotTheFirstFault ==
    ASSUME IPackCalls, IFailures, NEW w \in Writers, Creates(w), ~At(w, "sync"), Faulty
    PROVE  ~(packFaults' < 2)
<1>1. packFaults \in Nat
  BY PackConstantsOK DEF IPackCalls, IPack, PackOK
<1>2. packFaults # 0
  BY DEF IFailures
<1> QED
  BY <1>1, <1>2 DEF Faulty

(* A directory without a revision is one that is being removed.            *)
LEMMA SpoiledStay ==
    ASSUME IPackCalls, IFailures, NEW w \in Writers, PackStep(w), packFaults' < 2
    PROVE  PackSpoiled' = {}
<1>1. IPack /\ packFaults < 2
  BY FaultsAddUp DEF IPackCalls, PackNext
<1>2. /\ \A v \in Writers \ {w} : call'[v] = call[v]
      /\ call \in [Writers -> PackCallRecords]
  BY <1>1, StepIsGood DEF Good, Leaves, IPack, PackOK
<1>3. ASSUME NEW k \in emptied'
      PROVE  BeingCreated(k)'
  <2>1. CASE k \in emptied
    <3>1. PICK v \in Writers : call[v].pack = k /\ Creates(v)
      BY <1>1, <2>1 DEF IFailures, FailedCreationsLeaveNothing, PackSpoiled, BeingCreated
    <3>2. CASE v # w
      BY <1>2, <3>1, <3>2 DEF BeingCreated, Creates, At
    <3>3. CASE v = w
      <4>1. FirstRevision(w) # NoPack
        <5>1. DOMAIN FirstRevision(w) = {1} /\ DOMAIN NoPack = {}
          BY DEF FirstRevision, NoPack
        <5> QED
          BY <5>1
      <4>2. k \in PackIds /\ packs[k] = NoPack
        BY <1>1, <2>1 DEF IPack, PackOK, Visible
      <4>3. At(w, "unlinked") /\ ~At(w, "sync")
        BY <3>1, <3>3, <4>1, <4>2 DEF IPackCalls, Serves, Creates, At
      <4>4. UndoDirectory(w) \/ DiePack(w)
        BY <4>3 DEF PackStep, BeginPack, Scan, Stat, Reap, RemoveStale, LockPack,
                    RefuseExistingPack, LockStaging, StagePack, PublishPack, SyncPack,
                    UndoStaging, UndoPack, ReadLatest, WriteRevision, ReadPack, At
      <4>5. ~Faulty
        BY <3>1, <3>3, <4>3, NotTheFirstFault
      <4> QED
        BY <1>3, <3>1, <3>3, <4>4, <4>5 DEF UndoDirectory, DiePack
    <3> QED
      BY <3>2, <3>3
  <2>2. CASE k \notin emptied
    <3>1. UndoPack(w) /\ emptied' = emptied \cup {call[w].pack} /\ To(w, "unlinked")
      BY <1>3, <2>2, WhatMatters DEF Matters, UndoPack, UndoDirectory
    <3>2. call'[w].phase = "unlinked" /\ call'[w].pack = call[w].pack
      BY <1>1, <3>1, Moved DEF PackPhases
    <3> QED
      BY <1>3, <2>2, <3>1, <3>2 DEF BeingCreated, Creates, At
  <2> QED
    BY <2>1, <2>2
<1> QED
  BY <1>3 DEF PackSpoiled

(* Who is told that a creation failed does not find its pack.              *)
LEMMA FailedStay ==
    ASSUME IPackCalls, IFailures, NEW w \in Writers, PackStep(w), packFaults' < 2,
           NEW v \in Writers, call'[v].kind = "create", call'[v].result = "failed"
    PROVE  packs'[call'[v].pack] = NoPack \/ packs'[call'[v].pack][1].by # v
<1>1. IPack /\ packFaults < 2
  BY FaultsAddUp DEF IPackCalls, PackNext
<1>2. CASE v # w
  <2>1. call'[v] = call[v]
    BY <1>1, <1>2, StepIsGood DEF Good, Leaves
  <2>2. call[v].pack \in PackIds
    BY <2>1 DEF IPackCalls, IPack, Holds, Serves, At
  <2>3. ~Visible(call[v].pack) \/ packs[call[v].pack][1].by # v
    BY <1>1, <2>1 DEF IFailures, FailedCreationsLeaveNothing
  <2>4. PICK k \in PackIds : k = call[v].pack
    BY <2>2
  <2>5. Visible(k)' => packs'[k][1].by # v
    BY <1>2, <2>3, <2>4, FirstsStay
  <2> QED
    BY <2>1, <2>4, <2>5 DEF Visible
<1>3. CASE v = w
  <2>1. Matters(w) /\ call'[w].pack = call[w].pack
    BY <1>3, WhatMatters DEF Matters
  <2>2. CASE RemoveStale(w) \/ UndoStaging(w)
    <3>1. ~call[w].replaced /\ packs' = packs
      BY <1>1, <2>2 DEF RemoveStale, UndoStaging, IPack, Finds, At
    <3>2. call[w].pack \in PackIds
      BY <1>1, <2>2 DEF RemoveStale, UndoStaging, IPack, Holds, At
    <3> QED
      BY <1>3, <2>1, <3>1, <3>2 DEF IFailures, FirstIsNotOf, Visible
  <2>3. CASE UndoPack(w)
    <3>1. Creates(w) /\ ~At(w, "sync") /\ call \in [Writers -> PackCallRecords]
      BY <1>1, <2>3 DEF UndoPack, Creates, At, IPack, PackOK
    <3>2. ~Faulty
      BY <3>1, NotTheFirstFault
    <3>3. To(w, "unlinked")
      BY <2>3, <3>2 DEF UndoPack
    <3>4. call'[w].result = call[w].result
      BY <3>1, <3>3 DEF To, PackCallRecords
    <3> QED
      BY <1>3, <2>3, <3>4 DEF UndoPack, IPackCalls, Serves, At
  <2>4. CASE UndoDirectory(w)
    <3>1. call[w].pack \in emptied /\ packs' = packs
      BY <1>1, <2>4 DEF UndoDirectory, IPack, Finds, At
    <3> QED
      BY <1>1, <1>3, <2>1, <3>1 DEF IPack, PackOK, Visible
  <2>5. CASE WriteRevision(w)
    <3>1. call[w].kind = "revise"
      BY <2>5 DEF WriteRevision, IPackCalls, Serves, At
    <3>2. PICK a \in {"ok", "failed"} : Answer(w, a) /\ a \in PackAnswers
      BY <2>5 DEF WriteRevision, PackAnswers
    <3>3. call'[w].kind = "revise"
      BY <1>1, <3>1, <3>2, Answered
    <3> QED
      BY <1>3, <3>3
  <2> QED
    BY <1>3, <2>1, <2>2, <2>3, <2>4, <2>5 DEF Matters
<1> QED
  BY <1>2, <1>3

LEMMA NextIFailures ==
    ASSUME IPackCalls, IFailures, [PackNext]_packVars
    PROVE  IFailures'
<1>1. ASSUME NEW w \in Writers, PackStep(w)
      PROVE  IFailures'
  <2>1. IPack /\ Good(w) /\ Matters(w)
    BY <1>1, StepIsGood, WhatMatters DEF IPackCalls
  <2>2. /\ \A v \in Writers \ {w} : call'[v] = call[v]
        /\ call \in [Writers -> PackCallRecords]
    BY <2>1 DEF Good, Leaves, IPack, PackOK
  <2>3. ASSUME packFaults' = 0, NEW v \in Writers, Creates(v)'
        PROVE  At(v, "sync")'
    <3>1. packFaults = 0
      BY <1>1, <2>1, <2>3, FaultsAddUp DEF PackNext
    <3>2. CASE v # w
      BY <2>2, <2>3, <3>1, <3>2 DEF IFailures, Creates, At
    <3>3. CASE v = w /\ PublishPack(w)
      <4>1. NoFault
        BY <2>3, <3>1, <3>3 DEF PublishPack, Faulty, NoFault
      <4>2. CASE To(w, "undo")
        <5>1. call'[w].phase = "undo" /\ ~call'[w].replaced
          BY <2>1, <3>3, <4>2, Moved DEF PublishPack, IPack, Finds, At, PackPhases
        <5> QED
          BY <2>3, <3>3, <5>1 DEF Creates, At
      <4>3. CASE call' = [call EXCEPT ![w].phase = "sync", ![w].replaced = TRUE]
        BY <2>2, <3>3, <4>3 DEF At, PackCallRecords
      <4> QED
        BY <3>3, <4>2, <4>3 DEF PublishPack
    <3>4. CASE v = w /\ SyncPack(w)
      <4>1. Answer(w, "ok")
        BY <2>3, <3>1, <3>4 DEF SyncPack, Faulty
      <4> QED
        BY <2>1, <2>3, <3>4, <4>1, Answered DEF Creates, At, PackAnswers
    <3>5. CASE v = w /\ UndoPack(w)
      BY <3>1, <3>5 DEF UndoPack, IFailures, Creates, At
    <3> QED
      BY <2>1, <2>3, <3>2, <3>3, <3>4, <3>5 DEF Matters
  <2>4. ASSUME NEW v \in Writers, ~call'[v].replaced, NEW k \in PackIds, Visible(k)'
        PROVE  packs'[k][1].by # v
    <3>1. ~call[v].replaced
      BY <2>1, <2>2, <2>4 DEF Matters
    <3>2. Visible(k) => packs[k][1].by # v
      BY <3>1 DEF IFailures, FirstIsNotOf
    <3> QED
      BY <1>1, <2>4, <3>2, FirstsStay
  <2>5. ASSUME NEW v \in Writers, packFaults' < 2,
               call'[v].kind = "create", call'[v].result = "failed"
        PROVE  packs'[call'[v].pack] = NoPack \/ packs'[call'[v].pack][1].by # v
    BY <1>1, <2>5, FailedStay
  <2>6. packFaults' < 2 => PackSpoiled' = {}
    BY <1>1, SpoiledStay
  <2>7. FailedCreationsLeaveNothing'
    BY <2>5, <2>6 DEF FailedCreationsLeaveNothing, Visible
  <2> QED
    BY <2>3, <2>4, <2>7 DEF IFailures, FirstIsNotOf
<1>2. CASE AgeStaging \/ UNCHANGED packVars
  <2>1. packs' = packs /\ emptied' = emptied /\ call' = call /\ packFaults' = packFaults
    BY <1>2 DEF AgeStaging, packVars
  <2> QED
    BY <2>1 DEF IFailures, FirstIsNotOf, FailedCreationsLeaveNothing, PackSpoiled, BeingCreated,
                Creates, Visible, At
<1> QED
  BY <1>1, <1>2 DEF PackNext

LEMMA InitIFailures == PackInit => IFailures
<1> SUFFICES ASSUME PackInit PROVE IFailures
  OBVIOUS
<1>1. ASSUME NEW k \in PackIds, Visible(k)
      PROVE  packs[k][1].by = Seed
  BY <1>1 DEF PackInit, Visible, FirstRevision, Revision
<1>2. \A w \in Writers : FirstIsNotOf(w)
  BY <1>1, PackConstantsOK DEF FirstIsNotOf
<1>3. PackSpoiled = {} /\ \A w \in Writers : At(w, "idle") /\ call[w].kind = "none"
  BY DEF PackInit, PackSpoiled, At
<1> QED
  BY <1>2, <1>3 DEF IFailures, FailedCreationsLeaveNothing, Creates, At

(* No single fault - a write, a sync, a removal that fails, or a death -   *)
(* leaves a pack that every read refuses, or the pack of a creation whose  *)
(* caller was told that it failed (the except of                           *)
(* ReferencePackStore.create).                                             *)
THEOREM FailuresLeaveNothing == PackSpec => []FailedCreationsLeaveNothing
<1>1. IPackCalls /\ IFailures /\ [PackNext]_packVars => IFailures'
  BY NextIFailures
<1>2. IFailures => FailedCreationsLeaveNothing
  BY DEF IFailures
<1> QED
  BY <1>1, <1>2, InitIFailures, PackCallsInvariance, PTL DEF PackSpec

-----------------------------------------------------------------------------
(* Sequences that are written revision by revision.                        *)

(* A function on 1 .. n + 1 is the one on 1 .. n with a last element.      *)
LEMMA AppendedAsFunction ==
    ASSUME NEW n \in Nat, NEW f, NEW g,
           f = [r \in 1 .. n |-> f[r]], g = [r \in 1 .. (n + 1) |-> g[r]],
           \A r \in 1 .. n : g[r] = f[r]
    PROVE  Len(f) = n /\ g = Append(f, g[n + 1])
<1> DEFINE S == {g[r] : r \in 1 .. (n + 1)}
<1>1. f \in [1 .. n -> S]
  <2>1. \A r \in 1 .. n : r \in 1 .. (n + 1)
    OBVIOUS
  <2> QED
    BY <2>1
<1>2. g \in [1 .. (n + 1) -> S] /\ g[n + 1] \in S
  OBVIOUS
<1> HIDE DEF S
<1>3. f \in Seq(S) /\ Len(f) = n /\ g \in Seq(S) /\ Len(g) = n + 1
  BY <1>1, <1>2
<1>4. PICK h : h = Append(f, g[n + 1])
  OBVIOUS
<1>5. h \in Seq(S) /\ Len(h) = n + 1 /\ h[n + 1] = g[n + 1] /\ \A i \in 1 .. n : h[i] = f[i]
  BY <1>2, <1>3, <1>4
<1>6. \A i \in 1 .. (n + 1) : i = n + 1 \/ i \in 1 .. n
  OBVIOUS
<1>7. \A i \in 1 .. (n + 1) : h[i] = g[i]
  BY <1>5, <1>6
<1> QED
  BY <1>3, <1>4, <1>5, <1>7, SeqEqual

(* The writers of a pack are as many as its revisions, the last of which   *)
(* is the latest; of no pack there are none, of a new one there is one.    *)
LEMMA WritersOfPack ==
    ASSUME IPack, NEW k \in PackIds, Visible(k)
    PROVE  Len(WrittenBy(k)) = Latest(k) /\ WrittenBy(k) # <<>>
<1>1. PICK n \in Nat \ {0} : n = Latest(k) /\ DOMAIN packs[k] = 1 .. n
  <2>1. Latest(k) \in Nat \ {0}
    BY DEF IPack, PackOK
  <2>2. DOMAIN packs[k] = 1 .. Latest(k)
    BY DEF IPack, RevisionsAreKept
  <2> QED
    BY <2>1, <2>2
<1>2. PICK f : f = WrittenBy(k)
  OBVIOUS
<1>3. f = [r \in 1 .. n |-> f[r]]
  BY <1>1, <1>2 DEF WrittenBy
<1>4. PICK g : g = [r \in 1 .. (n + 1) |-> IF r = n + 1 THEN Seed ELSE f[r]]
  OBVIOUS
<1>5. g = [r \in 1 .. (n + 1) |-> g[r]] /\ \A r \in 1 .. n : g[r] = f[r]
  BY <1>4
<1>6. Len(f) = n
  BY <1>3, <1>5, AppendedAsFunction
<1> QED
  BY <1>1, <1>2, <1>6

LEMMA WritersOfNothing ==
    ASSUME NEW p, p = NoPack
    PROVE  [r \in DOMAIN p |-> p[r].by] = <<>>
<1>1. DOMAIN p = {}
  BY DEF NoPack
<1> QED
  BY <1>1

LEMMA WriterOfFirst ==
    ASSUME NEW p, NEW w, p = FirstRevision(w)
    PROVE  [r \in DOMAIN p |-> p[r].by] = <<w>> /\ <<w>> = Append(<<>>, w)
<1>1. DOMAIN p = {1} /\ p[1].by = w
  BY DEF FirstRevision, Revision
<1>2. [r \in DOMAIN p |-> p[r].by] = [r \in {1} |-> w]
  BY <1>1
<1> QED
  BY <1>2

-----------------------------------------------------------------------------
(* What a step of a caller shows of the packs.                             *)
NothingSeen ==
    PackHistory' = PackHistory /\ PackTold' = PackTold /\ PackSpoiled' = PackSpoiled

(* One that leaves packs and promises alone shows nothing, unless a        *)
(* creation begins or ends to be one that may be taken back.               *)
LEMMA NothingShows ==
    ASSUME NEW w \in Writers, packs' = packs, emptied' = emptied, acked' = acked,
           \A v \in Writers \ {w} : call'[v] = call[v],
           Creates(w)' <=> Creates(w), Creates(w) => call'[w].pack = call[w].pack
    PROVE  NothingSeen
<1>1. ASSUME NEW k
      PROVE  BeingCreated(k)' <=> BeingCreated(k)
  <2>1. \A v \in Writers : (call[v].pack = k /\ Creates(v))' <=> (call[v].pack = k /\ Creates(v))
    BY DEF Creates, At
  <2> QED
    BY <2>1 DEF BeingCreated
<1>2. \A k \in PackIds : WrittenBy(k)' = WrittenBy(k)
  BY DEF WrittenBy
<1>3. PackHistory' = PackHistory /\ PackTold' = PackTold
  BY <1>1, <1>2 DEF PackHistory, PackTold
<1>4. PackSpoiled' = PackSpoiled
  BY <1>1 DEF PackSpoiled
<1> QED
  BY <1>3, <1>4 DEF NothingSeen

(* One that is about a pack shows nothing of the others.                   *)
LEMMA OnlyItsPackShows ==
    ASSUME NEW w \in Writers, NEW k \in PackIds, call[w].pack = k, call'[w].pack = k,
           \A v \in Writers \ {w} : call'[v] = call[v],
           \A j \in PackIds \ {k} : packs'[j] = packs[j],
           emptied' \subseteq emptied \cup {k}, emptied \subseteq emptied' \cup {k},
           \A one : one.pack # k => (one \in acked' <=> one \in acked),
           NEW h, NEW t, PackHistory'[k] = h, PackTold'[k] = t
    PROVE  /\ PackHistory' = [PackHistory EXCEPT ![k] = h]
           /\ PackTold' = [PackTold EXCEPT ![k] = t]
           /\ PackSpoiled' \ {k} = PackSpoiled \ {k}
<1>1. ASSUME NEW j, j # k
      PROVE  BeingCreated(j)' <=> BeingCreated(j)
  <2>1. \A v \in Writers : (call[v].pack = j /\ Creates(v))' <=> (call[v].pack = j /\ Creates(v))
    BY <1>1 DEF Creates, At
  <2> QED
    BY <2>1 DEF BeingCreated
<1>2. ASSUME NEW j \in PackIds \ {k}
      PROVE  PackHistory'[j] = PackHistory[j] /\ PackTold'[j] = PackTold[j]
  <2>1. BeingCreated(j)' <=> BeingCreated(j)
    BY <1>1
  <2>2. WrittenBy(j)' = WrittenBy(j)
    BY DEF WrittenBy
  <2>3. {o \in acked' : o.pack = j} = {o \in acked : o.pack = j}
    OBVIOUS
  <2> QED
    BY <2>1, <2>2, <2>3 DEF PackHistory, PackTold
<1>3. /\ PackHistory = [j \in PackIds |-> PackHistory[j]]
      /\ PackTold = [j \in PackIds |-> PackTold[j]]
      /\ PackHistory' = [j \in PackIds |-> PackHistory'[j]]
      /\ PackTold' = [j \in PackIds |-> PackTold'[j]]
  BY DEF PackHistory, PackTold
<1>4. PackSpoiled' \ {k} = PackSpoiled \ {k}
  BY <1>1 DEF PackSpoiled
<1> QED
  BY <1>2, <1>3, <1>4

(* And nothing at all, when that pack looks as it did.                     *)
LEMMA ItsPackIsUnseen ==
    ASSUME NEW w \in Writers, NEW k \in PackIds, call[w].pack = k, call'[w].pack = k,
           \A v \in Writers \ {w} : call'[v] = call[v],
           \A j \in PackIds \ {k} : packs'[j] = packs[j], acked' = acked,
           emptied' \subseteq emptied \cup {k}, emptied \subseteq emptied' \cup {k},
           PackHistory'[k] = PackHistory[k], k \in PackSpoiled' <=> k \in PackSpoiled
    PROVE  NothingSeen
<1>1. PackTold'[k] = PackTold[k]
  BY DEF PackTold
<1>2. PICK h, t : h = PackHistory[k] /\ t = PackTold[k]
  OBVIOUS
<1>3. /\ PackHistory' = [PackHistory EXCEPT ![k] = h]
      /\ PackTold' = [PackTold EXCEPT ![k] = t]
      /\ PackSpoiled' \ {k} = PackSpoiled \ {k}
  BY <1>1, <1>2, OnlyItsPackShows
<1>4. /\ PackHistory = [j \in PackIds |-> PackHistory[j]]
      /\ PackTold = [j \in PackIds |-> PackTold[j]]
  BY DEF PackHistory, PackTold
<1>5. PackHistory' = PackHistory /\ PackTold' = PackTold
  BY <1>2, <1>3, <1>4
<1>6. PackSpoiled' = PackSpoiled
  BY <1>3
<1> QED
  BY <1>5, <1>6 DEF NothingSeen

(* Under the lock of a pack, only its holder may be creating it.           *)
LEMMA HolderShows ==
    ASSUME IPack, NEW w \in Writers, NEW k \in PackIds, packLock[k] = w,
           call[w].pack = k, call'[w].pack = k,
           \A v \in Writers \ {w} : call'[v] = call[v]
    PROVE  /\ PackHistory[k] = IF Creates(w) THEN <<>> ELSE WrittenBy(k)
           /\ PackHistory'[k] = IF Creates(w)' THEN <<>> ELSE WrittenBy(k)'
           /\ k \in PackSpoiled <=> k \in emptied /\ ~Creates(w)
           /\ k \in PackSpoiled' <=> k \in emptied' /\ ~Creates(w)'
<1>1. ASSUME NEW v \in Writers, call[v].pack = k, Creates(v)
      PROVE  v = w
  BY <1>1 DEF Creates, At, IPack, Holds
<1>2. BeingCreated(k) <=> Creates(w)
  BY <1>1 DEF BeingCreated
<1>3. ASSUME NEW v \in Writers, v # w, call'[v].pack = k, Creates(v)'
      PROVE  FALSE
  <2>1. call[v].pack = k /\ Creates(v)
    BY <1>3 DEF Creates, At
  <2> QED
    BY <1>1, <1>3, <2>1
<1>4. BeingCreated(k)' <=> Creates(w)'
  BY <1>3 DEF BeingCreated
<1> QED
  BY <1>2, <1>4 DEF PackHistory, PackSpoiled

(* What the caller is seen to ask for, and to be told.                     *)
LEMMA RepliesShow ==
    ASSUME IPackCalls, NEW w \in Writers,
           \A v \in Writers \ {w} : call'[v] = call[v],
           call'[w].kind = call[w].kind, call'[w].pack = call[w].pack
    PROVE  PackReplies' = [PackReplies EXCEPT ![w].result = call'[w].result]
BY DEF PackReplies

(* A call at work asks for what it asked for.                              *)
LEMMA AskedFor ==
    ASSUME IPackCalls, NEW w \in Writers, ~At(w, "idle"), ~At(w, "done")
    PROVE  /\ PackReplies[w].kind = call[w].kind /\ PackReplies[w].pack = call[w].pack
           /\ PackReplies[w].result = "none"
           /\ call[w].kind \in PackCalls /\ call[w].pack \in PackIds
BY DEF PackReplies, IPackCalls, IPack, Holds, Serves

(* A step that goes on, and shows nothing of the packs, shows nothing.     *)
LEMMA GoingOnShowsNothing ==
    ASSUME IPackCalls, NEW w \in Writers, ~At(w, "idle"), ~At(w, "done"),
           \A v \in Writers \ {w} : call'[v] = call[v],
           call'[w].kind = call[w].kind, call'[w].pack = call[w].pack,
           call'[w].result = "none", NothingSeen
    PROVE  UNCHANGED PackPromise!contractVars
<1>1. PackReplies' = [PackReplies EXCEPT ![w].result = "none"]
  BY RepliesShow
<1>2. PackReplies' = PackReplies
  BY <1>1, AskedFor DEF PackReplies
<1> QED
  BY <1>2 DEF PackPromise!contractVars, NothingSeen

(* Such a step by To.                                                      *)
LEMMA MovingShowsNothing ==
    ASSUME IPackCalls, NEW w \in Writers, NEW phase \in PackPhases, To(w, phase),
           ~At(w, "idle"), ~At(w, "done"), NothingSeen
    PROVE  UNCHANGED PackPromise!contractVars
<1>1. IPack
  BY DEF IPackCalls
<1>2. /\ \A v \in Writers \ {w} : call'[v] = call[v]
      /\ call'[w].kind = call[w].kind /\ call'[w].pack = call[w].pack
  BY <1>1, Moved
<1>3. call'[w].result = "none"
  BY Unanswered
<1> QED
  BY <1>2, <1>3, GoingOnShowsNothing

(* An answer to a call whose work showed nothing, or is shown with it.     *)
LEMMA AnswerShows ==
    ASSUME IPackCalls, NEW w \in Writers, NEW a \in PackAnswers, Answer(w, a)
    PROVE  PackPromise!Reply(w, a)
<1>1. IPack
  BY DEF IPackCalls
<1>2. /\ \A v \in Writers \ {w} : call'[v] = call[v]
      /\ call'[w].kind = call[w].kind /\ call'[w].pack = call[w].pack
  BY <1>1, Answered
<1>3. call'[w].result = a
  BY <1>1, Replied
<1>4. PackReplies' = [PackReplies EXCEPT ![w].result = a]
  BY <1>2, <1>3, RepliesShow
<1> QED
  BY <1>4 DEF PackPromise!Reply

LEMMA GivesUp ==
    ASSUME IPackCalls, NEW w \in Writers, ~At(w, "idle"), ~At(w, "done"),
           NEW a \in {"timeout", "vanished", "failed", "died"}, Answer(w, a), NothingSeen
    PROVE  PackPromise!Next
<1>1. PackPromise!Reply(w, a)
  BY AnswerShows DEF PackAnswers
<1>2. PackPromise!Asks(w, {"create", "revise", "history", "list", "open"})
  BY AskedFor DEF PackPromise!Asks, PackCalls
<1>3. PackPromise!GiveUp(w)
  BY <1>1, <1>2 DEF PackPromise!GiveUp, NothingSeen
<1> QED
  BY <1>3 DEF PackPromise!Next

(* Before its pack is renamed, and after its answer, a call creates none.  *)
LEMMA AnswersCreateNothing ==
    ASSUME IPack, NEW w \in Writers, NEW a \in PackAnswers, Answer(w, a), ~Creates(w),
           packs' = packs, emptied' = emptied, acked' = acked
    PROVE  NothingSeen
<1>1. ~Creates(w)' /\ \A v \in Writers \ {w} : call'[v] = call[v]
  BY Answered DEF Creates, At
<1> QED
  BY <1>1, NothingShows

LEMMA MovesCreateNothing ==
    ASSUME IPack, NEW w \in Writers, NEW phase \in PackPhases, To(w, phase), ~Creates(w),
           phase = "undo" => ~call[w].replaced, phase \notin {"sync", "unlinked"},
           packs' = packs, emptied' = emptied, acked' = acked
    PROVE  NothingSeen
<1>1. ~Creates(w)' /\ \A v \in Writers \ {w} : call'[v] = call[v]
  BY Moved DEF Creates, At
<1> QED
  BY <1>1, NothingShows

-----------------------------------------------------------------------------
(* Every step of a caller is one of the contract, or none.                 *)

LEMMA BeginKeepsContract ==
    ASSUME IPackCalls, NEW w \in Writers, BeginPack(w)
    PROVE  PackPromise!Next
<1>1. PICK kind \in PackCalls, k \in PackIds :
          call' = [call EXCEPT ![w] =
                [kind |-> kind, pack |-> k, result |-> "none", replaced |-> FALSE,
                 todo |-> {j \in PackIds : staged[j] # "none"}, seen |-> k, latest |-> 0,
                 phase |-> IF kind \in {"create", "open"} THEN "scan" ELSE "lock"]]
  BY DEF BeginPack
<1>2. call \in [Writers -> PackCallRecords] /\ At(w, "idle")
  BY DEF IPackCalls, IPack, PackOK, BeginPack
<1>3. /\ \A v \in Writers \ {w} : call'[v] = call[v]
      /\ call'[w].kind = kind /\ call'[w].pack = k /\ call'[w].result = "none"
      /\ ~Creates(w) /\ ~Creates(w)'
  BY <1>1, <1>2 DEF Creates, At
<1>4. packs' = packs /\ emptied' = emptied /\ acked' = acked
  BY DEF BeginPack
<1>5. NothingSeen
  BY <1>3, <1>4, NothingShows
<1>6. PackReplies' = [PackReplies EXCEPT ![w] = [kind |-> kind, pack |-> k, result |-> "none"]]
  BY <1>3 DEF PackReplies
<1>7. PackReplies[w].kind = "none"
  BY <1>2 DEF PackReplies, IPackCalls, Serves
<1>8. PackReplies'[w] = [kind |-> kind, pack |-> k, result |-> "none"]
  BY <1>6 DEF PackReplies
<1>9. PackReplies'[w] \in [kind : {"create", "revise", "history", "list", "open"},
                           pack : PackIds, result : {"none"}]
  BY <1>8 DEF PackCalls
<1>10. PackPromise!Begin(w)
  <2>1. PackReplies' = [PackReplies EXCEPT ![w] = PackReplies'[w]]
    BY <1>6, <1>8
  <2> QED
    BY <1>5, <1>7, <1>9, <2>1 DEF PackPromise!Begin, NothingSeen
<1> QED
  BY <1>10 DEF PackPromise!Next

LEMMA CleanUpKeepsContract ==
    ASSUME IPackCalls, NEW w \in Writers, Scan(w) \/ Stat(w) \/ Reap(w) \/ RemoveStale(w)
    PROVE  PackPromise!Next \/ UNCHANGED PackPromise!contractVars
<1>1. /\ call[w].phase \in {"scan", "stat", "reap", "reaping"}
      /\ packs' = packs /\ emptied' = emptied /\ acked' = acked
  BY DEF Scan, Stat, Reap, RemoveStale, At
<1>2. IPack /\ ~At(w, "idle") /\ ~At(w, "done") /\ ~Creates(w)
  BY <1>1 DEF IPackCalls, At, Creates
<1>3. CASE Answer(w, "ok") /\ call[w].kind = "open"
  <2>1. PackPromise!Reply(w, "ok")
    BY <1>3, AnswerShows DEF PackAnswers
  <2>2. NothingSeen
    BY <1>1, <1>2, <1>3, AnswersCreateNothing DEF PackAnswers
  <2>3. PackPromise!Asks(w, {"open"})
    BY <1>2, <1>3, AskedFor DEF PackPromise!Asks
  <2>4. PackPromise!Open(w)
    BY <2>1, <2>2, <2>3 DEF PackPromise!Open, NothingSeen
  <2> QED
    BY <2>4 DEF PackPromise!Next
<1>4. ASSUME NEW phase \in {"scan", "reap", "reaping", "lock"}, To(w, phase)
      PROVE  UNCHANGED PackPromise!contractVars
  <2>1. NothingSeen
    BY <1>1, <1>2, <1>4, MovesCreateNothing DEF PackPhases
  <2> QED
    BY <1>2, <1>4, <2>1, MovingShowsNothing DEF PackPhases
<1>5. CASE Answer(w, "vanished") \/ Answer(w, "failed")
  <2>1. NothingSeen
    BY <1>1, <1>2, <1>5, AnswersCreateNothing DEF PackAnswers
  <2> QED
    BY <1>2, <1>5, <2>1, GivesUp
<1>6. ASSUME NEW k \in call[w].todo, NEW phase \in {"scan", "stat"},
             call' = [call EXCEPT ![w].todo = @ \ {k}, ![w].seen = k, ![w].phase = phase]
      PROVE  UNCHANGED PackPromise!contractVars
  <2>1. call \in [Writers -> PackCallRecords]
    BY <1>2 DEF IPack, PackOK
  <2>2. /\ \A v \in Writers \ {w} : call'[v] = call[v]
        /\ call'[w].kind = call[w].kind /\ call'[w].pack = call[w].pack
        /\ call'[w].result = call[w].result /\ call'[w].phase = phase
    BY <1>6, <2>1 DEF PackCallRecords
  <2>3. call'[w].result = "none" /\ ~Creates(w)'
    BY <1>2, <2>2 DEF IPackCalls, Serves, Creates, At
  <2>4. NothingSeen
    BY <1>1, <1>2, <2>2, <2>3, NothingShows
  <2> QED
    BY <1>2, <2>2, <2>3, <2>4, GoingOnShowsNothing
<1>7. CASE Scan(w)
  BY <1>3, <1>4, <1>6, <1>7 DEF Scan
<1>8. CASE Stat(w)
  <2>1. Seen(w) \in PackIds /\ staged[Seen(w)] \in {"none", "fresh", "old"}
    BY <1>2, <1>8 DEF Stat, IPack, PackOK, Holds, At
  <2> QED
    BY <1>4, <1>5, <1>8, <2>1 DEF Stat
<1>9. CASE Reap(w) \/ RemoveStale(w)
  BY <1>4, <1>5, <1>9 DEF Reap, RemoveStale
<1> QED
  BY <1>7, <1>8, <1>9

(* Who has the lock of a pack, and is not creating it, sees what is there. *)
LEMMA SeenUnderLock ==
    ASSUME IPack, NEW w \in Writers, NEW k \in PackIds, packLock[k] = w, ~Creates(w)
    PROVE  /\ PackHistory[k] = WrittenBy(k) /\ (PackPromise!Exists(k) <=> Visible(k))
           /\ k \in PackSpoiled <=> k \in emptied
<1>1. ASSUME NEW v \in Writers, call[v].pack = k, Creates(v)
      PROVE  v = w
  BY <1>1 DEF Creates, At, IPack, Holds
<1>2. PackHistory[k] = WrittenBy(k) /\ (k \in PackSpoiled <=> k \in emptied)
  BY <1>1 DEF PackHistory, PackSpoiled, BeingCreated
<1>3. PICK p : p = packs[k]
  OBVIOUS
<1>4. ~Visible(k) => WrittenBy(k) = <<>>
  BY <1>3, WritersOfNothing DEF Visible, WrittenBy
<1> QED
  BY <1>2, <1>4, WritersOfPack DEF PackPromise!Exists

LEMMA LockKeepsContract ==
    ASSUME IPackCalls, NEW w \in Writers,
           LockPack(w) \/ RefuseExistingPack(w) \/ LockStaging(w) \/ StagePack(w)
    PROVE  PackPromise!Next \/ UNCHANGED PackPromise!contractVars
<1>1. /\ IPack /\ ~At(w, "idle") /\ ~At(w, "done") /\ ~Creates(w)
      /\ packs' = packs /\ emptied' = emptied /\ acked' = acked
  BY DEF LockPack, RefuseExistingPack, LockStaging, StagePack, IPackCalls, At, Creates
<1>2. ASSUME NEW phase \in PackPhases, To(w, phase), phase \notin {"sync", "unlinked"},
             phase = "undo" => ~call[w].replaced
      PROVE  UNCHANGED PackPromise!contractVars
  <2>1. NothingSeen
    BY <1>1, <1>2, MovesCreateNothing
  <2> QED
    BY <1>1, <1>2, <2>1, MovingShowsNothing
<1>3. ASSUME NEW a \in PackAnswers, Answer(w, a)
      PROVE  NothingSeen
  BY <1>1, <1>3, AnswersCreateNothing
<1>4. CASE LockPack(w)
  <2>1. CASE Answer(w, "timeout")
    BY <1>1, <1>3, <2>1, GivesUp DEF PackAnswers
  <2>2. CASE To(w, call[w].kind)
    <3>1. call[w].kind \in PackCalls
      BY <1>1, AskedFor
    <3>2. call[w].kind \in PackPhases /\ call[w].kind \notin {"sync", "unlinked", "undo"}
      BY <3>1 DEF PackPhases, PackCalls
    <3> QED
      BY <1>2, <2>2, <3>2
  <2> QED
    BY <1>4, <2>1, <2>2 DEF LockPack
<1>5. CASE RefuseExistingPack(w)
  <2>1. PICK k \in PackIds : k = call[w].pack
    BY <1>1, AskedFor
  <2>2. packLock[k] = w /\ call[w].kind = "create"
    BY <1>1, <1>5, <2>1 DEF RefuseExistingPack, IPackCalls, IPack, Holds, Serves, At
  <2>3. PICK a \in {"exists", "corrupt"} :
            /\ Answer(w, a) /\ a \in PackAnswers
            /\ IF Visible(k) THEN a = "exists" ELSE a = "corrupt" /\ k \in emptied
    BY <1>5, <2>1 DEF RefuseExistingPack, IsThere, PackAnswers
  <2>4. /\ PackPromise!Exists(k) <=> Visible(k)
        /\ k \in PackSpoiled <=> k \in emptied
    BY <1>1, <2>2, SeenUnderLock
  <2>5. Visible(k) => k \notin emptied
    BY <1>1 DEF IPack, PackOK
  <2>6. PackPromise!Reply(w, a)
    BY <2>3, AnswerShows
  <2>7. /\ PackPromise!Asks(w, {"create", "revise", "history", "list"})
        /\ PackReplies[w].kind = "create" /\ PackReplies[w].pack = k
    BY <1>1, <2>1, <2>2, AskedFor DEF PackPromise!Asks
  <2>8. NothingSeen
    BY <1>3, <2>3
  <2>9. PackPromise!Refuse(w)
    BY <2>3, <2>4, <2>5, <2>6, <2>7, <2>8 DEF PackPromise!Refuse, NothingSeen
  <2> QED
    BY <2>9 DEF PackPromise!Next
<1>6. CASE LockStaging(w) \/ StagePack(w)
  <2>1. ~call[w].replaced
    BY <1>1, <1>6 DEF LockStaging, StagePack, IPack, Finds, At
  <2>2. PICK phase \in {"stage", "staged", "undo"} : To(w, phase)
    BY <1>6 DEF LockStaging, StagePack
  <2> QED
    BY <1>2, <2>1, <2>2 DEF PackPhases
<1> QED
  BY <1>4, <1>5, <1>6

(* The rename is not seen, for the lock is kept.                           *)
LEMMA PublishKeepsContract ==
    ASSUME IPackCalls, NEW w \in Writers, PublishPack(w)
    PROVE  UNCHANGED PackPromise!contractVars
<1>1. PICK k \in PackIds : k = call[w].pack
  BY DEF PublishPack, IPackCalls, IPack, Holds, At
<1>2. /\ IPack /\ ~At(w, "idle") /\ ~At(w, "done") /\ ~Creates(w) /\ ~call[w].replaced
      /\ packLock[k] = w /\ ~Visible(k) /\ k \notin emptied
      /\ acked' = acked /\ emptied' = emptied
  BY <1>1 DEF PublishPack, IPackCalls, IPack, Holds, Finds, IsThere, At, Creates
<1>3. CASE To(w, "undo") /\ packs' = packs
  <2>1. NothingSeen
    BY <1>2, <1>3, MovesCreateNothing DEF PackPhases
  <2> QED
    BY <1>2, <1>3, <2>1, MovingShowsNothing DEF PackPhases
<1>4. CASE /\ packs' = [packs EXCEPT ![k] = FirstRevision(w)]
           /\ call' = [call EXCEPT ![w].phase = "sync", ![w].replaced = TRUE]
  <2>1. call \in [Writers -> PackCallRecords] /\ packs = [j \in PackIds |-> packs[j]]
    BY <1>2 DEF IPack, PackOK
  <2>2. /\ \A v \in Writers \ {w} : call'[v] = call[v]
        /\ call'[w].kind = call[w].kind /\ call'[w].pack = k
        /\ call'[w].result = call[w].result /\ call'[w].phase = "sync"
    BY <1>1, <1>4, <2>1 DEF PackCallRecords
  <2>3. call'[w].result = "none" /\ Creates(w)'
    BY <1>2, <2>2 DEF IPackCalls, Serves, Creates, At
  <2>4. PackHistory'[k] = <<>> /\ k \notin PackSpoiled /\ k \notin PackSpoiled'
    BY <1>1, <1>2, <2>2, <2>3, HolderShows
  <2>5. PackHistory[k] = <<>>
    BY <1>2, SeenUnderLock DEF PackPromise!Exists
  <2>6. \A j \in PackIds \ {k} : packs'[j] = packs[j]
    BY <1>4, <2>1
  <2>7. NothingSeen
    BY <1>1, <1>2, <2>2, <2>4, <2>5, <2>6, ItsPackIsUnseen
  <2> QED
    BY <1>1, <1>2, <2>2, <2>3, <2>7, GoingOnShowsNothing
<1> QED
  BY <1>1, <1>3, <1>4 DEF PublishPack

(* Telling of more of a pack adds what is told of.                         *)
LEMMA TellingOfMore ==
    ASSUME NEW k \in PackIds, NEW new, \A one \in new : one.pack = k,
           acked' = acked \cup new
    PROVE  PackTold'[k] = PackTold[k] \cup {one.rev : one \in new}
<1>1. PICK before, after : before = acked /\ after = acked'
  OBVIOUS
<1>2. {o \in after : o.pack = k} = {o \in before : o.pack = k} \cup new
  BY <1>1
<1>3. {one.rev : one \in {o \in after : o.pack = k}}
          = {one.rev : one \in {o \in before : o.pack = k}} \cup {one.rev : one \in new}
  BY <1>2
<1> QED
  BY <1>1, <1>3 DEF PackTold

(* A creation that is over, however it ends, shows the pack it leaves.     *)
LEMMA CreationKeepsContract ==
    ASSUME IPackCalls, NEW w \in Writers, Creates(w), ~At(w, "unlinked"),
           NEW a \in {"ok", "failed", "died"}, Answer(w, a), packs' = packs, emptied' = emptied,
           acked' = acked \cup
               IF a = "ok" THEN {[pack |-> call[w].pack, rev |-> 1,
                                  content |-> Revision(w, "none")]} ELSE {}
    PROVE  PackPromise!Next
<1>1. PICK k \in PackIds : k = call[w].pack
  BY DEF IPackCalls, IPack, Holds, Creates, At
<1>2. /\ IPack /\ ~At(w, "idle") /\ ~At(w, "done") /\ packLock[k] = w
      /\ call[w].kind = "create" /\ packs[k] = FirstRevision(w) /\ a \in PackAnswers
  BY <1>1 DEF IPackCalls, IPack, Holds, Serves, Creates, At, PackAnswers
<1>3. /\ \A v \in Writers \ {w} : call'[v] = call[v]
      /\ call'[w].pack = k /\ ~Creates(w)'
  BY <1>1, <1>2, Answered DEF Creates, At
<1>4. k \notin emptied
  <2>1. DOMAIN FirstRevision(w) = {1} /\ DOMAIN NoPack = {}
    BY DEF FirstRevision, NoPack
  <2> QED
    BY <1>2, <2>1 DEF IPack, PackOK, Visible
<1>5. /\ PackHistory[k] = <<>> /\ PackHistory'[k] = WrittenBy(k)'
      /\ k \notin PackSpoiled /\ k \notin PackSpoiled'
  BY <1>1, <1>2, <1>3, <1>4, HolderShows
<1>6. PICK p : p = packs[k]
  OBVIOUS
<1>7. WrittenBy(k)' = Append(<<>>, w)
  BY <1>2, <1>6, WriterOfFirst DEF WrittenBy
<1>8. PackTold'[k] = PackTold[k] \cup IF a = "ok" THEN {1} ELSE {}
  <2>1. CASE a = "ok"
    <3>1. PICK new : new = {[pack |-> k, rev |-> 1, content |-> Revision(w, "none")]}
      OBVIOUS
    <3>2. acked' = acked \cup new /\ \A one \in new : one.pack = k
      BY <1>1, <2>1, <3>1
    <3>3. PackTold'[k] = PackTold[k] \cup {one.rev : one \in new}
      BY <3>2, TellingOfMore
    <3>4. {one.rev : one \in new} = {1}
      BY <3>1
    <3> QED
      BY <2>1, <3>3, <3>4
  <2>2. CASE a # "ok"
    BY <2>2 DEF PackTold
  <2> QED
    BY <2>1, <2>2
<1>9. PICK h, t : h = Append(<<>>, w) /\ t = PackTold[k] \cup IF a = "ok" THEN {1} ELSE {}
  OBVIOUS
<1>10. \A one : one.pack # k => (one \in acked' <=> one \in acked)
  BY <1>1
<1>11. /\ PackHistory' = [PackHistory EXCEPT ![k] = h]
       /\ PackTold' = [PackTold EXCEPT ![k] = t]
       /\ PackSpoiled' \ {k} = PackSpoiled \ {k}
  BY <1>1, <1>3, <1>5, <1>7, <1>8, <1>9, <1>10, OnlyItsPackShows
<1>12. PackSpoiled' = PackSpoiled
  <2>1. k \notin PackSpoiled /\ k \notin PackSpoiled' /\ PackSpoiled' \ {k} = PackSpoiled \ {k}
    BY <1>5, <1>11
  <2> QED
    BY <2>1
<1>13. PackPromise!Reply(w, a)
  BY <1>2, AnswerShows
<1>14. /\ PackPromise!Asks(w, {"create", "revise"})
       /\ PackReplies[w].kind = "create" /\ PackReplies[w].pack = k
  BY <1>1, <1>2, AskedFor DEF PackPromise!Asks
<1>15. ~PackPromise!Exists(k) /\ Len(PackHistory[k]) = 0
  BY <1>5 DEF PackPromise!Exists
<1>16. PackHistory' = [PackHistory EXCEPT ![k] = Append(@, w)]
  BY <1>5, <1>9, <1>11
<1>17. CASE a = "ok"
  <2>1. PackTold' = [PackTold EXCEPT ![k] = @ \cup {Len(PackHistory[k]) + 1}]
    BY <1>9, <1>11, <1>15, <1>17
  <2>2. PackPromise!Write(w)
    BY <1>5, <1>12, <1>13, <1>14, <1>15, <1>16, <1>17, <2>1 DEF PackPromise!Write
  <2> QED
    BY <2>2 DEF PackPromise!Next
<1>18. CASE a # "ok"
  <2>1. PackTold' = PackTold
    <3>1. PackTold = [j \in PackIds |-> PackTold[j]]
      BY DEF PackTold
    <3> QED
      BY <1>9, <1>11, <1>18, <3>1
  <2>2. PackPromise!Write(w)
    BY <1>5, <1>12, <1>13, <1>14, <1>15, <1>16, <1>18, <2>1 DEF PackPromise!Write
  <2> QED
    BY <2>2 DEF PackPromise!Next
<1> QED
  BY <1>17, <1>18

(* One that ends between the removals of the revision and of its directory *)
(* spoils the pack.                                                        *)
LEMMA SpoilingKeepsContract ==
    ASSUME IPackCalls, NEW w \in Writers, At(w, "unlinked"),
           NEW a \in {"failed", "died"}, Answer(w, a),
           packs' = packs, emptied' = emptied, acked' = acked
    PROVE  PackPromise!Next
<1>1. PICK k \in PackIds : k = call[w].pack
  BY DEF IPackCalls, IPack, Holds, At
<1>2. /\ IPack /\ ~At(w, "idle") /\ ~At(w, "done") /\ packLock[k] = w /\ Creates(w)
      /\ call[w].kind = "create" /\ k \in emptied /\ ~Visible(k) /\ a \in PackAnswers
  BY <1>1 DEF IPackCalls, IPack, PackOK, Holds, Finds, Serves, Creates, At, PackAnswers
<1>3. /\ \A v \in Writers \ {w} : call'[v] = call[v]
      /\ call'[w].pack = k /\ ~Creates(w)'
  BY <1>1, <1>2, Answered DEF Creates, At
<1>4. /\ PackHistory[k] = <<>> /\ PackHistory'[k] = WrittenBy(k)'
      /\ k \in PackSpoiled'
  BY <1>1, <1>2, <1>3, HolderShows
<1>5. PICK p : p = packs'[k]
  OBVIOUS
<1>6. WrittenBy(k)' = <<>>
  BY <1>2, <1>5, WritersOfNothing DEF WrittenBy, Visible
<1>7. PICK h, t : h = PackHistory[k] /\ t = PackTold[k]
  OBVIOUS
<1>8. PackHistory'[k] = h /\ PackTold'[k] = t
  BY <1>4, <1>6, <1>7 DEF PackTold
<1>9. /\ PackHistory' = [PackHistory EXCEPT ![k] = h]
      /\ PackTold' = [PackTold EXCEPT ![k] = t]
      /\ PackSpoiled' \ {k} = PackSpoiled \ {k}
  BY <1>1, <1>3, <1>8, OnlyItsPackShows
<1>10. /\ PackHistory = [j \in PackIds |-> PackHistory[j]]
       /\ PackTold = [j \in PackIds |-> PackTold[j]]
  BY DEF PackHistory, PackTold
<1>11. PackHistory' = PackHistory /\ PackTold' = PackTold
  BY <1>7, <1>9, <1>10
<1>12. PackSpoiled' = PackSpoiled \cup {k}
  BY <1>4, <1>9
<1>13. PackPromise!Reply(w, a)
  BY <1>2, AnswerShows
<1>14. PackPromise!Asks(w, {"create"}) /\ PackReplies[w].pack = k
  BY <1>1, <1>2, AskedFor DEF PackPromise!Asks
<1>15. PackPromise!Spoil(w)
  BY <1>4, <1>11, <1>12, <1>13, <1>14 DEF PackPromise!Spoil, PackPromise!Exists
<1> QED
  BY <1>15 DEF PackPromise!Next

LEMMA SyncKeepsContract ==
    ASSUME IPackCalls, NEW w \in Writers, SyncPack(w)
    PROVE  PackPromise!Next \/ UNCHANGED PackPromise!contractVars
<1>1. /\ IPack /\ ~At(w, "idle") /\ ~At(w, "done") /\ Creates(w) /\ call[w].replaced
      /\ ~At(w, "unlinked") /\ packs' = packs /\ emptied' = emptied
  BY DEF SyncPack, IPackCalls, IPack, Finds, At, Creates
<1>2. CASE /\ Answer(w, "ok")
           /\ acked' = acked \cup {[pack |-> call[w].pack, rev |-> 1,
                                    content |-> Revision(w, "none")]}
  <2>1. PICK a \in {"ok", "failed", "died"} : a = "ok"
    OBVIOUS
  <2> QED
    BY <1>1, <1>2, <2>1, CreationKeepsContract
<1>3. CASE To(w, "undo") /\ acked' = acked
  <2>1. Creates(w)' /\ call'[w].pack = call[w].pack /\ \A v \in Writers \ {w} : call'[v] = call[v]
    BY <1>1, <1>3, Moved DEF Creates, At, PackPhases
  <2>2. NothingSeen
    BY <1>1, <1>3, <2>1, NothingShows
  <2> QED
    BY <1>1, <1>3, <2>2, MovingShowsNothing DEF PackPhases
<1> QED
  BY <1>2, <1>3 DEF SyncPack

(* A creation that is taken back was not seen.                             *)
LEMMA UnlinkKeepsContract ==
    ASSUME IPackCalls, NEW w \in Writers, UndoPack(w)
    PROVE  PackPromise!Next \/ UNCHANGED PackPromise!contractVars
<1>1. PICK k \in PackIds : k = call[w].pack
  BY DEF UndoPack, IPackCalls, IPack, Holds, At
<1>2. /\ IPack /\ ~At(w, "idle") /\ ~At(w, "done") /\ packLock[k] = w
      /\ Creates(w) /\ ~At(w, "unlinked") /\ acked' = acked
  BY <1>1 DEF UndoPack, IPackCalls, IPack, Holds, At, Creates
<1>3. CASE Answer(w, "failed") /\ packs' = packs /\ emptied' = emptied
  <2>1. PICK a \in {"ok", "failed", "died"} : a = "failed"
    OBVIOUS
  <2>2. acked' = acked \cup
               IF a = "ok" THEN {[pack |-> call[w].pack, rev |-> 1,
                                  content |-> Revision(w, "none")]} ELSE {}
    BY <1>2, <2>1
  <2> QED
    BY <1>2, <1>3, <2>1, <2>2, CreationKeepsContract
<1>4. CASE /\ To(w, "unlinked") /\ packs' = [packs EXCEPT ![k] = NoPack]
           /\ emptied' = emptied \cup {k}
  <2>1. /\ \A v \in Writers \ {w} : call'[v] = call[v]
        /\ call'[w].pack = k /\ Creates(w)'
    BY <1>1, <1>2, <1>4, Moved DEF Creates, At, PackPhases
  <2>2. PackHistory'[k] = PackHistory[k] /\ (k \in PackSpoiled' <=> k \in PackSpoiled)
    BY <1>1, <1>2, <2>1, HolderShows
  <2>3. \A j \in PackIds \ {k} : packs'[j] = packs[j]
    BY <1>2, <1>4 DEF IPack, PackOK
  <2>4. NothingSeen
    BY <1>1, <1>2, <1>4, <2>1, <2>2, <2>3, ItsPackIsUnseen
  <2> QED
    BY <1>2, <1>4, <2>4, MovingShowsNothing DEF PackPhases
<1> QED
  BY <1>1, <1>3, <1>4 DEF UndoPack

LEMMA UndoKeepsContract ==
    ASSUME IPackCalls, NEW w \in Writers, UndoStaging(w) \/ UndoDirectory(w)
    PROVE  PackPromise!Next
<1>1. PICK k \in PackIds : k = call[w].pack
  BY DEF UndoStaging, UndoDirectory, IPackCalls, IPack, Holds, At
<1>2. /\ IPack /\ ~At(w, "idle") /\ ~At(w, "done") /\ packLock[k] = w
      /\ Answer(w, "failed") /\ "failed" \in PackAnswers /\ acked' = acked /\ packs' = packs
  BY <1>1 DEF UndoStaging, UndoDirectory, IPackCalls, IPack, Holds, At, PackAnswers
<1>3. CASE UndoStaging(w)
  <2>1. ~Creates(w) /\ emptied' = emptied
    BY <1>3 DEF UndoStaging, Creates, At
  <2>2. NothingSeen
    BY <1>2, <2>1, AnswersCreateNothing
  <2> QED
    BY <1>2, <2>2, GivesUp
<1>4. CASE UndoDirectory(w) /\ emptied' = emptied
  <2>1. PICK a \in {"failed", "died"} : a = "failed"
    OBVIOUS
  <2> QED
    BY <1>2, <1>4, <2>1, SpoilingKeepsContract DEF UndoDirectory
<1>5. CASE UndoDirectory(w) /\ emptied' = emptied \ {k}
  <2>1. Creates(w) /\ ~Visible(k)
    BY <1>1, <1>2, <1>5 DEF UndoDirectory, Creates, IPack, PackOK, Finds
  <2>2. /\ \A v \in Writers \ {w} : call'[v] = call[v]
        /\ call'[w].pack = k /\ ~Creates(w)'
    BY <1>1, <1>2, Answered DEF Creates, At
  <2>3. /\ PackHistory[k] = <<>> /\ PackHistory'[k] = WrittenBy(k)'
        /\ k \notin PackSpoiled /\ k \notin PackSpoiled'
    BY <1>1, <1>2, <1>5, <2>1, <2>2, HolderShows
  <2>4. PICK p : p = packs'[k]
    OBVIOUS
  <2>5. WrittenBy(k)' = <<>>
    BY <1>2, <2>1, <2>4, WritersOfNothing DEF WrittenBy, Visible
  <2>6. NothingSeen
    BY <1>1, <1>2, <1>5, <2>2, <2>3, <2>5, ItsPackIsUnseen
  <2> QED
    BY <1>2, <2>6, GivesUp
<1> QED
  BY <1>1, <1>3, <1>4, <1>5 DEF UndoDirectory

LEMMA LatestKeepsContract ==
    ASSUME IPackCalls, NEW w \in Writers, ReadLatest(w)
    PROVE  PackPromise!Next \/ UNCHANGED PackPromise!contractVars
<1>1. PICK k \in PackIds : k = call[w].pack
  BY DEF ReadLatest, IPackCalls, IPack, Holds, At
<1>2. /\ IPack /\ ~At(w, "idle") /\ ~At(w, "done") /\ ~Creates(w) /\ packLock[k] = w
      /\ call[w].kind = "revise" /\ packs' = packs /\ emptied' = emptied /\ acked' = acked
  BY <1>1 DEF ReadLatest, IPackCalls, IPack, Holds, Serves, At, Creates
<1>3. CASE ~Visible(k)
  <2>1. PICK a \in {"unknown", "corrupt"} :
            /\ Answer(w, a) /\ a \in PackAnswers
            /\ IF k \in emptied THEN a = "corrupt" ELSE a = "unknown"
    BY <1>1, <1>3 DEF ReadLatest, PackAnswers
  <2>2. NothingSeen
    BY <1>2, <2>1, AnswersCreateNothing
  <2>3. ~PackPromise!Exists(k) /\ (k \in PackSpoiled <=> k \in emptied)
    BY <1>2, <1>3, SeenUnderLock
  <2>4. /\ PackPromise!Asks(w, {"create", "revise", "history", "list"})
        /\ PackReplies[w].kind = "revise" /\ PackReplies[w].pack = k
    BY <1>1, <1>2, AskedFor DEF PackPromise!Asks
  <2>5. PackPromise!Reply(w, a)
    BY <2>1, AnswerShows
  <2>6. PackPromise!Refuse(w)
    BY <2>1, <2>2, <2>3, <2>4, <2>5 DEF PackPromise!Refuse, NothingSeen
  <2> QED
    BY <2>6 DEF PackPromise!Next
<1>4. CASE Visible(k)
  <2>1. call' = [call EXCEPT ![w].phase = "write", ![w].latest = Latest(k)]
    BY <1>1, <1>4 DEF ReadLatest
  <2>2. call \in [Writers -> PackCallRecords]
    BY <1>2 DEF IPack, PackOK
  <2>3. /\ \A v \in Writers \ {w} : call'[v] = call[v]
        /\ call'[w].kind = call[w].kind /\ call'[w].pack = call[w].pack
        /\ call'[w].result = call[w].result /\ call'[w].phase = "write"
    BY <2>1, <2>2 DEF PackCallRecords
  <2>4. call'[w].result = "none" /\ ~Creates(w)'
    BY <1>2, <2>3 DEF IPackCalls, Serves, Creates, At
  <2>5. NothingSeen
    BY <1>2, <2>3, <2>4, NothingShows
  <2> QED
    BY <1>2, <2>3, <2>4, <2>5, GoingOnShowsNothing
<1> QED
  BY <1>3, <1>4

(* A revision that is written is added at the end, told of or not.         *)
LEMMA RevisionKeepsContract ==
    ASSUME IPackCalls, NEW w \in Writers, WriteRevision(w)
    PROVE  PackPromise!Next
<1>1. PICK k \in PackIds : k = call[w].pack
  BY DEF WriteRevision, IPackCalls, IPack, Holds, At
<1>2. /\ IPack /\ ~At(w, "idle") /\ ~At(w, "done") /\ ~Creates(w) /\ packLock[k] = w
      /\ call[w].kind = "revise" /\ Visible(k) /\ call[w].latest = Latest(k)
      /\ k \notin emptied /\ emptied' = emptied
  BY <1>1 DEF WriteRevision, IPackCalls, IPack, PackOK, Holds, Finds, Serves, At, Creates
<1>3. PICK n \in Nat \ {0} : n = Latest(k) /\ DOMAIN packs[k] = 1 .. n
  <2>1. Latest(k) \in Nat \ {0}
    BY <1>2 DEF IPack, PackOK
  <2>2. DOMAIN packs[k] = 1 .. Latest(k)
    BY <1>2 DEF IPack, RevisionsAreKept
  <2> QED
    BY <2>1, <2>2
<1>4. PICK content : content = Revision(w, packs[k][n].by)
  OBVIOUS
<1>5. content.by = w
  BY <1>4 DEF Revision
<1>6. PICK new : new = {[pack |-> k, rev |-> n + 1, content |-> content]}
  OBVIOUS
<1>7. PICK written : written = [packs EXCEPT ![k] =
                          [r \in DOMAIN packs[k] \cup {n + 1} |->
                              IF r = n + 1 THEN content ELSE packs[k][r]]]
  OBVIOUS
<1>8. \/ packs' = written /\ acked' = acked \cup new /\ Answer(w, "ok")
      \/ packs' \in {packs, written} /\ Answer(w, "failed") /\ acked' = acked
  <2>1. call[w].pack = k /\ call[w].latest = n
    BY <1>1, <1>2, <1>3
  <2> QED
    BY <1>4, <1>6, <1>7, <2>1, SMTT(60) DEF WriteRevision
<1>9. CASE packs' = packs /\ Answer(w, "failed") /\ acked' = acked
  <2>1. NothingSeen
    BY <1>2, <1>9, AnswersCreateNothing DEF PackAnswers
  <2> QED
    BY <1>2, <1>9, <2>1, GivesUp
<1>10. ASSUME NEW a \in {"ok", "failed"}, packs' = written, Answer(w, a),
              acked' = acked \cup IF a = "ok" THEN new ELSE {}
       PROVE  PackPromise!Next
  <2>1. a \in PackAnswers
    BY DEF PackAnswers
  <2>2. /\ \A v \in Writers \ {w} : call'[v] = call[v]
        /\ call'[w].pack = k /\ ~Creates(w)'
    BY <1>1, <1>2, <1>10, <2>1, Answered DEF Creates, At
  <2>3. PackHistory[k] = WrittenBy(k) /\ PackHistory'[k] = WrittenBy(k)'
    BY <1>1, <1>2, <2>2, HolderShows
  <2>4. PackPromise!Exists(k) /\ Len(PackHistory[k]) = n /\ k \notin PackSpoiled
    BY <1>2, <1>3, <2>3, SeenUnderLock, WritersOfPack
  <2>5. packs = [j \in PackIds |-> packs[j]]
    BY <1>2 DEF IPack, PackOK
  <2>6. /\ packs'[k] = [r \in 1 .. n \cup {n + 1} |-> IF r = n + 1 THEN content ELSE packs[k][r]]
        /\ \A j \in PackIds \ {k} : packs'[j] = packs[j]
    BY <1>3, <1>7, <1>10, <2>5
  <2>7. 1 .. n \cup {n + 1} = 1 .. (n + 1) /\ n + 1 \notin 1 .. n
    OBVIOUS
  <2>8. PICK f, g : f = WrittenBy(k) /\ g = WrittenBy(k)'
    OBVIOUS
  <2>9. f = [r \in 1 .. n |-> packs[k][r].by]
    BY <1>3, <2>8 DEF WrittenBy
  <2>10. packs'[k] = [r \in 1 .. (n + 1) |-> IF r = n + 1 THEN content ELSE packs[k][r]]
    BY <2>6, <2>7
  <2>11. g = [r \in 1 .. (n + 1) |-> packs'[k][r].by]
    BY <2>8, <2>10 DEF WrittenBy
  <2>12. /\ f = [r \in 1 .. n |-> f[r]] /\ g = [r \in 1 .. (n + 1) |-> g[r]]
         /\ g[n + 1] = w
    BY <1>5, <2>9, <2>10, <2>11
  <2>13. ASSUME NEW r \in 1 .. n
         PROVE  g[r] = f[r]
    <3>1. r \in 1 .. (n + 1) /\ r # n + 1
      BY <2>7
    <3> QED
      BY <2>9, <2>10, <2>11, <3>1
  <2>14. g = Append(f, w)
    BY <2>12, <2>13, AppendedAsFunction
  <2>15. PackTold'[k] = PackTold[k] \cup IF a = "ok" THEN {n + 1} ELSE {}
    <3>1. CASE a = "ok"
      <4>1. PackTold'[k] = PackTold[k] \cup {one.rev : one \in new}
        <5>1. acked' = acked \cup new
          BY <1>10, <3>1
        <5>2. \A one \in new : one.pack = k
          BY <1>6
        <5> QED
          BY <5>1, <5>2, TellingOfMore
      <4>2. {one.rev : one \in new} = {n + 1}
        BY <1>6
      <4> QED
        BY <3>1, <4>1, <4>2
    <3>2. CASE a = "failed"
      BY <1>10, <3>2 DEF PackTold
    <3> QED
      BY <3>1, <3>2
  <2>16. PICK t : t = PackTold[k] \cup IF a = "ok" THEN {n + 1} ELSE {}
    OBVIOUS
  <2>17. \A one : one.pack # k => (one \in acked' <=> one \in acked)
    BY <1>6, <1>10
  <2>18. PackHistory'[k] = g /\ PackTold'[k] = t
    BY <2>3, <2>8, <2>15, <2>16
  <2>19. /\ PackHistory' = [PackHistory EXCEPT ![k] = g]
         /\ PackTold' = [PackTold EXCEPT ![k] = t]
         /\ PackSpoiled' \ {k} = PackSpoiled \ {k}
    BY <1>1, <1>2, <2>2, <2>6, <2>17, <2>18, OnlyItsPackShows
  <2>25. PackSpoiled' = PackSpoiled
    <3>1. k \notin PackSpoiled'
      BY <1>1, <1>2, <2>2, HolderShows
    <3> QED
      BY <2>4, <2>19, <3>1
  <2>20. PackHistory' = [PackHistory EXCEPT ![k] = Append(@, w)]
    BY <2>3, <2>8, <2>14, <2>19
  <2>21. /\ PackPromise!Asks(w, {"create", "revise"})
         /\ PackReplies[w].kind = "revise" /\ PackReplies[w].pack = k
    BY <1>1, <1>2, AskedFor DEF PackPromise!Asks
  <2>22. PackPromise!Reply(w, a)
    BY <1>10, <2>1, AnswerShows
  <2>23. CASE a = "ok"
    <3>1. PackTold' = [PackTold EXCEPT ![k] = @ \cup {Len(PackHistory[k]) + 1}]
      BY <2>4, <2>16, <2>19, <2>23
    <3>2. PackPromise!Write(w)
      BY <2>4, <2>20, <2>21, <2>22, <2>23, <2>25, <3>1 DEF PackPromise!Write
    <3> QED
      BY <3>2 DEF PackPromise!Next
  <2>24. CASE a = "failed"
    <3>1. PackTold = [j \in PackIds |-> PackTold[j]]
      BY DEF PackTold
    <3>2. PackTold' = PackTold
      BY <2>16, <2>19, <2>24, <3>1
    <3>3. PackPromise!Write(w)
      BY <2>4, <2>20, <2>21, <2>22, <2>24, <2>25, <3>2 DEF PackPromise!Write
    <3> QED
      BY <3>3 DEF PackPromise!Next
  <2> QED
    BY <2>23, <2>24
<1>11. PICK ok, failed : ok = "ok" /\ failed = "failed"
  OBVIOUS
<1>12. CASE packs' = written /\ acked' = acked \cup new /\ Answer(w, "ok")
  BY <1>10, <1>11, <1>12
<1>13. CASE packs' = written /\ acked' = acked /\ Answer(w, "failed")
  <2>1. acked' = acked \cup IF failed = "ok" THEN new ELSE {}
    BY <1>11, <1>13
  <2> QED
    BY <1>10, <1>11, <1>13, <2>1
<1> QED
  BY <1>8, <1>9, <1>12, <1>13

(* A read is told of all there is, and never that the pack is corrupt, but *)
(* where a creation has spoiled it.                                        *)
LEMMA ReadKeepsContract ==
    ASSUME IPackCalls, NEW w \in Writers, ReadPack(w)
    PROVE  PackPromise!Next
<1>1. PICK k \in PackIds : k = call[w].pack
  BY DEF ReadPack, IPackCalls, IPack, Holds, At
<1>2. /\ IPack /\ ~At(w, "idle") /\ ~At(w, "done") /\ ~Creates(w) /\ packLock[k] = w
      /\ call[w].kind \in {"history", "list"} /\ call[w].kind = call[w].phase
      /\ packs' = packs /\ emptied' = emptied
  BY <1>1 DEF ReadPack, IPackCalls, IPack, Holds, Serves, At, Creates
<1>3. PackReplies[w].kind = call[w].kind /\ PackReplies[w].pack = k /\ PackReplies[w].result = "none"
  BY <1>1, <1>2, AskedFor
<1>4. CASE ~Visible(k)
  <2>1. PICK a \in {"unknown", "corrupt"} :
            /\ Answer(w, a) /\ a \in PackAnswers
            /\ IF k \in emptied THEN a = "unknown" => call[w].kind = "history" ELSE a = "unknown"
    BY <1>1, <1>2, <1>4 DEF ReadPack, At, PackAnswers
  <2>2. acked' = acked
    BY <1>1, <1>4 DEF ReadPack
  <2>3. NothingSeen
    BY <1>2, <2>1, <2>2, AnswersCreateNothing
  <2>4. ~PackPromise!Exists(k) /\ (k \in PackSpoiled <=> k \in emptied)
    BY <1>2, <1>4, SeenUnderLock
  <2>5. /\ PackPromise!Asks(w, {"create", "revise", "history", "list"})
        /\ PackReplies[w].kind # "create"
    BY <1>2, <1>3 DEF PackPromise!Asks
  <2>6. PackPromise!Reply(w, a)
    BY <2>1, AnswerShows
  <2>7. PackPromise!Refuse(w)
    BY <1>3, <2>1, <2>3, <2>4, <2>5, <2>6 DEF PackPromise!Refuse, NothingSeen
  <2> QED
    BY <2>7 DEF PackPromise!Next
<1>5. CASE Visible(k)
  <2>1. PICK n : n = Latest(k) /\ DOMAIN packs[k] = 1 .. n
    BY <1>2, <1>5 DEF IPack, RevisionsAreKept
  <2>2. PICK new : new = {[pack |-> k, rev |-> r, content |-> packs[k][r]] : r \in 1 .. n}
    OBVIOUS
  <2>3. Answer(w, "ok") /\ "ok" \in PackAnswers /\ acked' = acked \cup new
    BY <1>1, <1>5, <2>1, <2>2 DEF ReadPack, PackAnswers
  <2>4. /\ \A v \in Writers \ {w} : call'[v] = call[v]
        /\ call'[w].pack = k /\ ~Creates(w)'
    BY <1>1, <1>2, <2>3, Answered DEF Creates, At
  <2>5. PackHistory[k] = WrittenBy(k) /\ PackHistory'[k] = WrittenBy(k)'
    BY <1>1, <1>2, <2>4, HolderShows
  <2>6. PackHistory'[k] = PackHistory[k]
    BY <1>2, <2>5 DEF WrittenBy
  <2>7. PackPromise!Exists(k) /\ Len(PackHistory[k]) = n
    BY <1>2, <1>5, <2>1, <2>5, SeenUnderLock, WritersOfPack
  <2>8. PackTold'[k] = PackTold[k] \cup 1 .. n
    <3>1. \A one \in new : one.pack = k
      BY <2>2
    <3>2. PackTold'[k] = PackTold[k] \cup {one.rev : one \in new}
      BY <2>3, <3>1, TellingOfMore
    <3>3. \A one \in new : one.rev \in 1 .. n
      BY <2>2
    <3>4. ASSUME NEW r \in 1 .. n
          PROVE  \E one \in new : one.rev = r
      <4>1. PICK one : one = [pack |-> k, rev |-> r, content |-> packs[k][r]]
        OBVIOUS
      <4>2. one \in new /\ one.rev = r
        BY <2>2, <4>1
      <4> QED
        BY <4>2
    <3>5. {one.rev : one \in new} = 1 .. n
      BY <3>3, <3>4
    <3> QED
      BY <3>2, <3>5
  <2>9. PICK h, t : h = PackHistory[k] /\ t = PackTold[k] \cup 1 .. n
    OBVIOUS
  <2>10. \A one : one.pack # k => (one \in acked' <=> one \in acked)
    BY <2>2, <2>3
  <2>11. /\ PackHistory' = [PackHistory EXCEPT ![k] = h]
         /\ PackTold' = [PackTold EXCEPT ![k] = t]
         /\ PackSpoiled' \ {k} = PackSpoiled \ {k}
    BY <1>1, <1>2, <2>4, <2>6, <2>8, <2>9, <2>10, OnlyItsPackShows
  <2>17. PackSpoiled' = PackSpoiled
    <3>1. k \in PackSpoiled' <=> k \in PackSpoiled
      BY <1>1, <1>2, <2>4, HolderShows
    <3> QED
      BY <2>11, <3>1
  <2>12. PackHistory' = PackHistory
    <3>1. PackHistory = [j \in PackIds |-> PackHistory[j]]
      BY DEF PackHistory
    <3> QED
      BY <2>9, <2>11, <3>1
  <2>13. PackTold' = [PackTold EXCEPT ![k] = @ \cup 1 .. Len(PackHistory[k])]
    BY <2>7, <2>9, <2>11
  <2>14. PackPromise!Reply(w, "ok")
    BY <2>3, AnswerShows
  <2>15. PackPromise!Asks(w, {"history", "list"})
    BY <1>2, <1>3 DEF PackPromise!Asks
  <2>16. PackPromise!Read(w)
    BY <1>3, <2>7, <2>12, <2>13, <2>14, <2>15, <2>17 DEF PackPromise!Read
  <2> QED
    BY <2>16 DEF PackPromise!Next
<1> QED
  BY <1>4, <1>5

(* A process that dies shows what it had renamed, or nothing.              *)
LEMMA DeathKeepsContract ==
    ASSUME IPackCalls, NEW w \in Writers, DiePack(w)
    PROVE  PackPromise!Next
<1>1. /\ IPack /\ ~At(w, "idle") /\ ~At(w, "done") /\ Answer(w, "died")
      /\ packs' = packs /\ emptied' = emptied /\ acked' = acked
  BY DEF DiePack, IPackCalls, At
<1>2. CASE At(w, "unlinked")
  <2>1. PICK a \in {"failed", "died"} : a = "died"
    OBVIOUS
  <2> QED
    BY <1>1, <1>2, <2>1, SpoilingKeepsContract
<1>3. CASE Creates(w) /\ ~At(w, "unlinked")
  <2>1. PICK a \in {"ok", "failed", "died"} : a = "died"
    OBVIOUS
  <2>2. acked' = acked \cup
               IF a = "ok" THEN {[pack |-> call[w].pack, rev |-> 1,
                                  content |-> Revision(w, "none")]} ELSE {}
    BY <1>1, <2>1
  <2> QED
    BY <1>1, <1>3, <2>1, <2>2, CreationKeepsContract
<1>4. CASE ~Creates(w)
  <2>1. NothingSeen
    BY <1>1, <1>4, AnswersCreateNothing DEF PackAnswers
  <2> QED
    BY <1>1, <2>1, GivesUp
<1> QED
  BY <1>2, <1>3, <1>4

LEMMA PackStepKeepsContract ==
    ASSUME IPackCalls, [PackNext]_packVars
    PROVE  [PackPromise!Next]_PackPromise!contractVars
<1>1. ASSUME NEW w \in Writers, PackStep(w)
      PROVE  PackPromise!Next \/ UNCHANGED PackPromise!contractVars
  BY <1>1, BeginKeepsContract, CleanUpKeepsContract, LockKeepsContract,
     PublishKeepsContract, SyncKeepsContract, UnlinkKeepsContract, UndoKeepsContract,
     LatestKeepsContract,
     RevisionKeepsContract, ReadKeepsContract, DeathKeepsContract
     DEF PackStep
<1>2. CASE AgeStaging \/ UNCHANGED packVars
  <2>1. packs' = packs /\ emptied' = emptied /\ call' = call /\ acked' = acked
    BY <1>2 DEF AgeStaging, packVars
  <2>2. NothingSeen /\ PackReplies' = PackReplies
    BY <2>1 DEF NothingSeen, PackHistory, PackTold, PackSpoiled, PackReplies, BeingCreated,
                Creates, At, WrittenBy
  <2> QED
    BY <2>2 DEF PackPromise!contractVars, NothingSeen
<1> QED
  BY <1>1, <1>2 DEF PackNext

LEMMA PackInitKeepsContract ==
    ASSUME PackInit
    PROVE  PackPromise!Init
<1>1. ASSUME NEW k \in PackIds
      PROVE  PackHistory[k] \in {<<>>, <<Seed>>} /\ PackTold[k] = {}
  <2>1. ~BeingCreated(k)
    BY DEF PackInit, BeingCreated, Creates, At
  <2>2. PICK p : p = packs[k]
    OBVIOUS
  <2>3. p = NoPack \/ p = FirstRevision(Seed)
    BY <2>2 DEF PackInit
  <2>4. PackHistory[k] = [r \in DOMAIN p |-> p[r].by]
    BY <2>1, <2>2 DEF PackHistory, WrittenBy
  <2>5. PackHistory[k] \in {<<>>, <<Seed>>}
    BY <2>3, <2>4, WritersOfNothing, WriterOfFirst
  <2> QED
    BY <2>5 DEF PackInit, PackTold
<1>2. PackHistory \in [PackIds -> {<<>>, <<Seed>>}]
  BY <1>1 DEF PackHistory
<1>3. PackTold = [k \in PackIds |-> {}]
  BY <1>1 DEF PackTold
<1>4. PackReplies = [w \in Writers |-> [kind |-> "none", pack |-> "none", result |-> "none"]]
  BY DEF PackInit, PackReplies
<1>5. PackSpoiled = {}
  BY DEF PackInit, PackSpoiled
<1> QED
  BY <1>2, <1>3, <1>4, <1>5 DEF PackPromise!Init, PackPromise!Seed, Seed

(* The files, locks, clean-ups, failures and deaths of the reference packs *)
(* are seen by their callers as single steps: a creation is there as a     *)
(* whole, or not at all, or - when its undoing fails or is cut short - as  *)
(* a spoiled pack every call refuses; no revision is lost or doubled, and  *)
(* no read finds a pack that was written corrupt (ReferencePackStore and   *)
(* its path locks).                                                        *)
THEOREM PackCallsAreSteps == PackSpec => EveryPackCallIsOneStep
<1>1. PackInit => PackPromise!Init
  BY PackInitKeepsContract
<1>2. IPackCalls /\ [PackNext]_packVars => [PackPromise!Next]_PackPromise!contractVars
  BY PackStepKeepsContract
<1> QED
  BY <1>1, <1>2, PackCallsInvariance, PTL DEF PackSpec, EveryPackCallIsOneStep, PackPromise!Spec
=============================================================================
