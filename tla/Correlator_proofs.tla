-------------------------- MODULE Correlator_proofs --------------------------
(***************************************************************************)
(* The invariants of the correlator, for every set of threads, every       *)
(* window and every bound.  CorrInv is inductive: it adds to the checked   *)
(* properties what is true of the dependencies that are still pending.     *)
(***************************************************************************)
EXTENDS Correlator, SequenceTheorems, TLAPS

\* Where a pending dependency is, it is filed under its own thread, started in
\* the past and arrived after every request of the thread handled so far.
PendingInv ==
    \A k \in Keys : \A d \in pendingDeps[k] :
        /\ d.key = k
        /\ d.seq <= depCount
        /\ d.start <= mono
        /\ \A i \in DOMAIN handled : handled[i].key = k => handled[i].seen < d.seq

\* Arrival numbers identify pending dependencies.
PendingUnique ==
    \A k, l \in Keys : \A c \in pendingDeps[k], d \in pendingDeps[l] :
        c.seq = d.seq => c = d

\* A profile reports what had arrived when it was built.
SeenInv ==
    /\ \A i \in DOMAIN handled : handled[i].seen <= depCount
    /\ \A i \in DOMAIN handled : \A d \in handled[i].deps : d.seq <= handled[i].seen

CorrInv ==
    /\ CorrTypeOK
    /\ IdsAndTimesInOrder
    /\ PendingInv
    /\ PendingUnique
    /\ SeenInv
    /\ DepsUsedOnce
    /\ DepsGoToNextRequest

-----------------------------------------------------------------------------
\* The types of what the history holds.
LEMMA HandledProfiles ==
    ASSUME CorrTypeOK
    PROVE  /\ \A i \in DOMAIN handled : handled[i] \in Profile
           /\ \A i \in DOMAIN handled : handled[i].ts \in Nat /\ handled[i].seen \in Nat
           /\ \A i \in DOMAIN handled : \A d \in handled[i].deps : d.seq \in Nat
<1>1. handled \in Seq(Profile)
  BY DEF CorrTypeOK
<1>2. \A i \in DOMAIN handled : handled[i] \in Profile
  BY <1>1, LenProperties, ElementOfSeq
<1>3. \A q \in Profile : q.ts \in Nat /\ q.seen \in Nat /\ q.deps \subseteq Dependency
  BY DEF Profile
<1>4. \A d \in Dependency : d.seq \in Nat
  BY DEF Dependency
<1>. QED
  BY <1>2, <1>3, <1>4

\* What handle_request does to the history: one more profile at the end.
LEMMA HandledAfterRequest ==
    ASSUME CorrTypeOK, NEW e \in RequestEvent, HandleRequest(e)
    PROVE  /\ BuildProfile(e) \in Profile
           /\ handled' \in Seq(Profile)
           /\ completed' \in Seq(Profile)
           /\ Len(handled) \in Nat
           /\ Len(handled') = Len(handled) + 1
           /\ DOMAIN handled = 1 .. Len(handled)
           /\ DOMAIN handled' = 1 .. (Len(handled) + 1)
           /\ \A i \in 1 .. Len(handled) : handled'[i] = handled[i]
           /\ handled'[Len(handled) + 1] = BuildProfile(e)
<1>1. BuildProfile(e) \in Profile
  BY ClockAssumption DEF CorrTypeOK, BuildProfile, Profile, RequestEvent, Wall, HandleRequest
<1>2. handled' = Append(handled, BuildProfile(e))
      /\ completed' = Append(completed, BuildProfile(e))
  BY DEF HandleRequest
<1>3. handled \in Seq(Profile) /\ completed \in Seq(Profile)
  BY DEF CorrTypeOK
<1>. QED
  BY <1>1, <1>2, <1>3, AppendProperties, LenProperties

\* The correlator starts empty.
LEMMA CorrInitInv == CorrInit => CorrInv
  BY DEF CorrInit, CorrInv, CorrTypeOK, IdsAndTimesInOrder, PendingInv, PendingUnique,
         SeenInv, DepsUsedOnce, DepsGoToNextRequest

\* Each method of the correlator preserves the type invariant.
LEMMA CorrTypeStep ==
    ASSUME CorrTypeOK, [CorrNext]_corrVars
    PROVE  CorrTypeOK'
<1>1. ASSUME NEW e \in RequestEvent, HandleRequest(e)
      PROVE  CorrTypeOK'
  <2>1. handled' \in Seq(Profile) /\ completed' \in Seq(Profile)
    BY <1>1, HandledAfterRequest
  <2>2. pendingDeps' \in [Keys -> SUBSET Dependency]
    <3>1. pendingDeps \in [Keys -> SUBSET Dependency]
      BY DEF CorrTypeOK
    <3>2. pendingDeps' = [pendingDeps EXCEPT ![e.key] = {}]
      BY <1>1 DEF HandleRequest
    <3>. QED
      BY <3>1, <3>2, Zenon
  <2>. QED
    BY <1>1, <2>1, <2>2 DEF HandleRequest, CorrTypeOK
<1>2. ASSUME NEW k \in Keys, NEW age \in DepAges, age <= mono,
             HandleDependency(k, mono - age)
      PROVE  CorrTypeOK'
  <2>1. [key |-> k, start |-> mono - age, seq |-> depCount + 1] \in Dependency
    BY <1>2, ClockAssumption DEF Dependency, CorrTypeOK
  <2>. QED
    BY <1>2, <2>1 DEF HandleDependency, CorrTypeOK
<1>3. ASSUME NEW p \in Pids, NEW rss \in MemValues, HandleMemory(p, rss)
      PROVE  CorrTypeOK'
  BY <1>3 DEF HandleMemory, CorrTypeOK
<1>4. CASE DrainCompleted
  BY <1>4 DEF DrainCompleted, CorrTypeOK
<1>5. CASE CleanupStale
  BY <1>5 DEF CleanupStale, CorrTypeOK
<1>6. CASE Tick
  BY <1>6 DEF Tick, CorrTypeOK
<1>7. CASE UNCHANGED corrVars
  BY <1>7 DEF corrVars, CorrTypeOK
<1>. QED
  BY <1>1, <1>2, <1>3, <1>4, <1>5, <1>6, <1>7 DEF CorrNext, Collect, CollectMemory

\* Each method of the correlator preserves the invariant.  Only handle_request
\* and handle_dependency disturb the parts about dependencies.
LEMMA CorrInvStep ==
    ASSUME CorrInv, [CorrNext]_corrVars
    PROVE  CorrInv'
<1>. USE DEF CorrInv
<1>0. CorrTypeOK'
  BY CorrTypeStep
<1>1. ASSUME NEW e \in RequestEvent, HandleRequest(e)
      PROVE  CorrInv'
  <2>. DEFINE n == Len(handled)
  <2>1. /\ n \in Nat
        /\ DOMAIN handled = 1 .. n
        /\ DOMAIN handled' = 1 .. (n + 1)
        /\ \A i \in 1 .. n : handled'[i] = handled[i]
        /\ handled'[n + 1] = BuildProfile(e)
        /\ Len(handled') = n + 1
        /\ \A i \in DOMAIN handled' : handled'[i] \in Profile
    BY <1>1, HandledAfterRequest, LenProperties, ElementOfSeq
  <2>2. /\ mono' = mono /\ depCount' = depCount
        /\ counter' = counter + 1
        /\ mono \in Nat /\ depCount \in Nat /\ counter \in Nat
    BY <1>1 DEF HandleRequest, CorrTypeOK
  <2>3. e.key \in Keys
    BY DEF RequestEvent
  <2>4. \A k \in Keys : pendingDeps'[k] = IF k = e.key THEN {} ELSE pendingDeps[k]
    BY <1>1, <2>3 DEF HandleRequest, CorrTypeOK
  <2>5. /\ BuildProfile(e).id = counter + 1
        /\ BuildProfile(e).ts = Wall
        /\ BuildProfile(e).key = e.key
        /\ BuildProfile(e).deps = pendingDeps[e.key]
        /\ BuildProfile(e).seen = depCount
    BY DEF BuildProfile
  <2>6. \A k \in Keys : \A d \in pendingDeps[k] : d \in Dependency /\ d.seq \in Nat
    BY DEF CorrTypeOK, Dependency
  <2>. HIDE DEF n
  <2>7. IdsAndTimesInOrder'
    <3>1. Wall' = Wall
      BY <2>2 DEF Wall
    <3>2. Wall \in Nat
      BY <2>2, ClockAssumption DEF Wall
    <3>3. \A i \in 1 .. n : handled[i].ts <= Wall /\ handled[i].id = i
      BY <2>1 DEF IdsAndTimesInOrder
    <3>4. counter = n
      BY DEF IdsAndTimesInOrder, n
    <3>5. \A i, j \in 1 .. (n + 1) : i < j => handled'[i].ts <= handled'[j].ts
      <4>. SUFFICES ASSUME NEW i \in 1 .. (n + 1), NEW j \in 1 .. (n + 1), i < j
                    PROVE  handled'[i].ts <= handled'[j].ts
        OBVIOUS
      <4>1. i \in 1 .. n
        BY <2>1
      <4>2. CASE j = n + 1
        BY <2>1, <2>5, <3>3, <4>1, <4>2
      <4>3. CASE j \in 1 .. n
        BY <2>1, <4>1, <4>3 DEF IdsAndTimesInOrder
      <4>. QED
        BY <2>1, <4>2, <4>3
    <3>6. \A i \in 1 .. (n + 1) : handled'[i].id = i /\ handled'[i].ts <= Wall
      <4>. SUFFICES ASSUME NEW i \in 1 .. (n + 1)
                    PROVE  handled'[i].id = i /\ handled'[i].ts <= Wall
        OBVIOUS
      <4>1. CASE i = n + 1
        BY <2>1, <2>5, <3>2, <3>4, <4>1
      <4>2. CASE i \in 1 .. n
        BY <2>1, <3>3, <4>2
      <4>. QED
        BY <2>1, <4>1, <4>2
    <3>. QED
      BY <2>1, <2>2, <3>1, <3>4, <3>5, <3>6 DEF IdsAndTimesInOrder
  <2>8. PendingInv'
    BY <2>1, <2>2, <2>3, <2>4, <2>5, <2>6 DEF PendingInv
  <2>9. PendingUnique'
    BY <2>4 DEF PendingUnique
  <2>10. SeenInv'
    BY <2>1, <2>2, <2>3, <2>5 DEF SeenInv, PendingInv
  <2>11. DepsUsedOnce'
    BY <2>1, <2>3, <2>4, <2>5 DEF DepsUsedOnce, PendingInv, PendingUnique
  <2>12. DepsGoToNextRequest'
    BY <2>1, <2>2, <2>3, <2>5 DEF DepsGoToNextRequest, PendingInv
  <2>. QED
    BY <1>0, <2>7, <2>8, <2>9, <2>10, <2>11, <2>12
<1>2. ASSUME NEW k \in Keys, NEW age \in DepAges, age <= mono,
             HandleDependency(k, mono - age)
      PROVE  CorrInv'
  <2>. DEFINE dep == [key |-> k, start |-> mono - age, seq |-> depCount + 1]
  <2>1. /\ UNCHANGED <<mono, counter, handled>>
        /\ depCount' = depCount + 1
        /\ mono \in Nat /\ depCount \in Nat /\ age \in Nat
    BY <1>2, ClockAssumption DEF HandleDependency, CorrTypeOK
  <2>2. \A l \in Keys : pendingDeps'[l] = IF l = k THEN pendingDeps[k] \cup {dep}
                                                  ELSE pendingDeps[l]
    BY <1>2 DEF HandleDependency, CorrTypeOK
  <2>3. dep.key = k /\ dep.start = mono - age /\ dep.seq = depCount + 1
    OBVIOUS
  <2>. HIDE DEF dep
  <2>4. \A i \in DOMAIN handled : /\ handled[i].seen \in Nat
                                  /\ \A d \in handled[i].deps : d.seq \in Nat
    BY HandledProfiles
  <2>5. \A l \in Keys : \A d \in pendingDeps[l] : d.seq \in Nat
    BY DEF CorrTypeOK, Dependency
  <2>6. IdsAndTimesInOrder'
    BY <2>1 DEF IdsAndTimesInOrder, Wall
  <2>7. PendingInv'
    BY <2>1, <2>2, <2>3, <2>4, <2>5 DEF PendingInv, SeenInv
  <2>8. PendingUnique'
    BY <2>1, <2>2, <2>3, <2>5 DEF PendingUnique, PendingInv
  <2>9. SeenInv'
    BY <2>1, <2>4 DEF SeenInv
  <2>10. DepsUsedOnce'
    BY <2>1, <2>2, <2>3, <2>4 DEF DepsUsedOnce, SeenInv
  <2>11. DepsGoToNextRequest'
    BY <2>1 DEF DepsGoToNextRequest
  <2>. QED
    BY <1>0, <2>6, <2>7, <2>8, <2>9, <2>10, <2>11
<1>3. CASE CleanupStale
  <2>1. UNCHANGED <<mono, counter, handled, depCount>>
    BY <1>3 DEF CleanupStale
  <2>2. \A k \in Keys : pendingDeps'[k] \subseteq pendingDeps[k]
    BY <1>3 DEF CleanupStale
  <2>. QED
    BY <1>0, <2>1, <2>2 DEF IdsAndTimesInOrder, Wall, PendingInv, PendingUnique, SeenInv,
         DepsUsedOnce, DepsGoToNextRequest
<1>4. ASSUME UNCHANGED <<counter, handled, depCount, pendingDeps>>,
             mono' \in Nat, mono <= mono'
      PROVE  CorrInv'
  <2>1. mono \in Nat /\ \A i \in DOMAIN handled : handled[i].ts \in Nat
    BY HandledProfiles DEF CorrTypeOK
  <2>2. IdsAndTimesInOrder'
    BY <1>4, <2>1, ClockAssumption DEF IdsAndTimesInOrder, Wall
  <2>3. \A k \in Keys : \A d \in pendingDeps[k] : d.start \in Nat
    BY DEF CorrTypeOK, Dependency
  <2>4. PendingInv'
    BY <1>4, <2>1, <2>3 DEF PendingInv
  <2>. QED
    BY <1>0, <1>4, <2>2, <2>4 DEF PendingUnique, SeenInv,
         DepsUsedOnce, DepsGoToNextRequest
<1>5. ASSUME NEW p \in Pids, NEW rss \in MemValues, HandleMemory(p, rss)
      PROVE  CorrInv'
  BY <1>4, <1>5 DEF HandleMemory, CorrTypeOK
<1>6. CASE DrainCompleted
  BY <1>4, <1>6 DEF DrainCompleted, CorrTypeOK
<1>7. CASE Tick
  BY <1>4, <1>7 DEF Tick, CorrTypeOK
<1>8. CASE UNCHANGED corrVars
  BY <1>4, <1>8 DEF corrVars, CorrTypeOK
<1>. QED
  BY <1>1, <1>2, <1>3, <1>5, <1>6, <1>7, <1>8 DEF CorrNext, Collect, CollectMemory

\* CorrInv holds in every state of the correlator.
THEOREM CorrInvariant == CorrSpec => []CorrInv
<1>1. CorrInit => CorrInv
  BY CorrInitInv
<1>2. CorrInv /\ [CorrNext]_corrVars => CorrInv'
  BY CorrInvStep
<1>. QED
  BY <1>1, <1>2, PTL DEF CorrSpec

\* The state of the correlator is well typed.
THEOREM CorrTypeCorrect == CorrSpec => []CorrTypeOK
  BY CorrInvariant, PTL DEF CorrInv

\* Ids number the profiles and timestamps are in order: what lets the store's
\* queries stop at the first entry that is too old.
THEOREM IdsAndTimesCorrect == CorrSpec => []IdsAndTimesInOrder
  BY CorrInvariant, PTL DEF CorrInv

\* A dependency is reported by at most one profile and not pending any more then.
THEOREM DepsUsedOnceCorrect == CorrSpec => []DepsUsedOnce
  BY CorrInvariant, PTL DEF CorrInv

\* A dependency is reported by the first request of its thread handled after it.
THEOREM DepsGoToNextRequestCorrect == CorrSpec => []DepsGoToNextRequest
  BY CorrInvariant, PTL DEF CorrInv
=============================================================================
