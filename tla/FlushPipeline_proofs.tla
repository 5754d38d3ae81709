------------------------ MODULE FlushPipeline_proofs ------------------------
(***************************************************************************)
(* The flush pipeline, for every number of requests, every buffer size and *)
(* every flush interval: its steps are steps of the correlator, its        *)
(* variables keep their types, no profile is lost or reordered between the *)
(* correlator and the store, and what readers see is the bounded log of    *)
(* BoundedLog.  Both deques are ends of the history, so that queries       *)
(* answer as the history would, and no profile is exported twice.          *)
(***************************************************************************)
EXTENDS FlushPipeline, Correlator_proofs, RingBuffer_proofs

-----------------------------------------------------------------------------
(* The correlator inside the pipeline. *)

\* Every step of the agent is a step of the correlator or leaves it alone.
LEMMA StepIsCorrStep ==
    ASSUME [Next]_vars
    PROVE  [CorrNext]_corrVars
<1>1. CASE MainNext
  BY <1>1 DEF MainNext, StartCollecting, Poll, Signal, PollLoopEnds, Exit, CorrNext
<1>2. CASE FlushNext
  BY <1>2 DEF FlushNext, CheckRunning, WakeAndCleanup, Drain, FlushStoreMain,
     FlushStoreCorrelated, Persist, Export, CorrNext
<1>3. CASE PipelineTick
  BY <1>3 DEF PipelineTick, CorrNext
<1>4. CASE UNCHANGED vars
  BY <1>4 DEF vars
<1>. QED
  BY <1>1, <1>2, <1>3, <1>4 DEF Next

\* The pipeline implements the correlator's specification, so whatever was proved
\* of the correlator holds in the agent.
THEOREM PipelineImplementsCorrelator == Spec => CorrSpec
<1>1. Init => CorrInit
  BY DEF Init
<1>2. [Next]_vars => [CorrNext]_corrVars
  BY StepIsCorrStep
<1>. QED
  BY <1>1, <1>2, PTL DEF Spec, CorrSpec

-----------------------------------------------------------------------------
(* Nothing is lost, and the deque is the end of the history. *)

\* A batch that is on its way is not empty.
BatchInv == flush \in {"storeMain", "storeCorrelated", "persist", "export"} => batch # <<>>

PipelineInv ==
    /\ TypeOK
    /\ Conservation
    /\ RingIsRecent
    /\ BatchInv

LEMMA PipelineInitInv == Init => PipelineInv
<1>. SUFFICES ASSUME Init PROVE PipelineInv
  OBVIOUS
<1>. USE DEF Init, CorrInit, RingInit
<1>1. TypeOK
  BY CorrInitInv, EmptySeq DEF TypeOK, CorrInv, FlushStates, MainStates
<1>2. Conservation
  BY EmptySeq, ConcatEmptySeq DEF Conservation, InFlight
<1>3. RingIsRecent
  BY EmptyLastN, SizeAssumption DEF RingIsRecent
<1>. QED
  BY <1>1, <1>2, <1>3 DEF PipelineInv, BatchInv

\* The ids of a sequence of profiles.
LEMMA IdsProperties ==
    ASSUME NEW s \in Seq(Profile)
    PROVE  /\ Ids(s) \in Seq(Nat) /\ Len(Ids(s)) = Len(s) /\ DOMAIN Ids(s) = 1..Len(s)
           /\ \A i \in 1..Len(s) : Ids(s)[i] = s[i].id
<1>1. Len(s) \in Nat /\ DOMAIN s = 1..Len(s) /\ \A i \in 1..Len(s) : s[i].id \in Nat
  <2>1. \A i \in 1..Len(s) : s[i] \in Profile
    BY ElementOfSeq
  <2>. QED
    BY <2>1, LenProperties DEF Profile
<1>2. Ids(s) = [i \in 1..Len(s) |-> s[i].id]
  BY <1>1 DEF Ids
<1>. QED
  BY <1>1, <1>2

\* Every step keeps the types.
LEMMA PipelineTypeStep ==
    ASSUME TypeOK, [Next]_vars
    PROVE  TypeOK'
<1>. USE DEF TypeOK
<1>1. CorrTypeOK'
  BY StepIsCorrStep, CorrTypeStep
<1>2. CASE MainNext
  BY <1>1, <1>2 DEF MainNext, StartCollecting, Poll, Signal, PollLoopEnds, Exit,
     ringVars, threadVars, flushVars, MainStates
<1>3. CASE CheckRunning
  BY <1>1, <1>3, FlushAssumption DEF CheckRunning, FlushStep, ringVars, threadVars,
     FlushStates, CorrTypeOK
<1>4. CASE WakeAndCleanup
  BY <1>1, <1>4 DEF WakeAndCleanup, FlushStep, ringVars, threadVars, FlushStates
<1>5. CASE Drain
  BY <1>1, <1>5 DEF Drain, FlushStep, ringVars, threadVars, FlushStates, CorrTypeOK
<1>6. CASE FlushStoreMain
  <2>1. stored' = stored \o batch /\ buffer' = LastN(buffer \o batch, BufferSize)
    BY <1>6 DEF FlushStoreMain, StoreMain, ExtendDeque
  <2>2. stored' \in Seq(Profile) /\ buffer' \in Seq(Profile)
    BY <2>1, ConcatProperties, LastNProperties, SizeAssumption
  <2>. QED
    BY <1>1, <1>6, <2>2 DEF FlushStoreMain, StoreMain, FlushStep, threadVars, FlushStates
<1>7. CASE FlushStoreCorrelated
  <2>1. correlatedBuffer'
          = LastN(correlatedBuffer \o OfKinds(batch, Correlated), CorrelatedSize)
    BY <1>7 DEF FlushStoreCorrelated, StoreCorrelated, ExtendDeque
  <2>2. correlatedBuffer' \in Seq(Profile)
    BY <2>1, OfKindsIsWhere, ConcatProperties, LastNProperties, SizeAssumption
  <2>. QED
    BY <1>1, <1>7, <2>2 DEF FlushStoreCorrelated, StoreCorrelated, FlushStep, threadVars,
       FlushStates
<1>8. CASE Persist
  BY <1>1, <1>8 DEF Persist, FlushStep, ringVars, threadVars, FlushStates
<1>11. CASE Export
  <2>. DEFINE q == QueryRecent(Wall, FlushInterval + 1, Len(batch))
  <2>1. q \in Seq(Profile)
    BY QueryType, LenProperties DEF QueryRecent
  <2>. HIDE DEF q
  <2>2. Ids(q) \in Seq(Nat)
    BY <2>1, IdsProperties
  <2>3. exported' = exported \o Ids(q)
    BY <1>11 DEF Export, q
  <2>4. exported' \in Seq(Nat)
    BY <2>2, <2>3, ConcatProperties
  <2>. QED
    BY <1>1, <1>11, <2>4 DEF Export, FlushStep, ringVars, threadVars, FlushStates
<1>9. CASE PipelineTick
  BY <1>1, <1>9 DEF PipelineTick, ringVars, threadVars, flushVars
<1>10. CASE UNCHANGED vars
  BY <1>1, <1>10 DEF vars, ringVars, threadVars, flushVars
<1>. QED
  BY <1>2, <1>3, <1>4, <1>5, <1>6, <1>7, <1>8, <1>9, <1>10,
     <1>11 DEF Next, FlushNext

\* A step that touches none of the sequences keeps what is said of them.
LEMMA PipelineStutter ==
    ASSUME PipelineInv, TypeOK',
           UNCHANGED <<handled, completed, stored, buffer, batch>>,
           InFlight' = InFlight, BatchInv'
    PROVE  PipelineInv'
  BY DEF PipelineInv, Conservation, RingIsRecent

\* The correlator's methods, seen from the pipeline.
LEMMA PipelineCollectStep ==
    ASSUME PipelineInv, TypeOK', Poll
    PROVE  PipelineInv'
<1>1. UNCHANGED <<stored, buffer, batch, flush>> /\ InFlight' = InFlight /\ BatchInv'
  BY DEF Poll, flushVars, ringVars, InFlight, PipelineInv, BatchInv
<1>2. ASSUME NEW e \in RequestEvent, HandleRequest(e)
      PROVE  PipelineInv'
  <2>. DEFINE q == BuildProfile(e)
  <2>1. q \in Profile
    BY <1>2, HandledAfterRequest DEF PipelineInv, TypeOK
  <2>2. handled' = Append(handled, q) /\ completed' = Append(completed, q)
    BY <1>2 DEF HandleRequest
  <2>. HIDE DEF q
  <2>3. /\ stored \in Seq(Profile) /\ InFlight \in Seq(Profile)
        /\ completed \in Seq(Profile) /\ handled \in Seq(Profile)
    BY EmptySeq DEF PipelineInv, TypeOK, CorrTypeOK, InFlight
  <2>4. <<q>> \in Seq(Profile)
    BY <2>1
  <2>. DEFINE before == stored \o InFlight
  <2>5. before \in Seq(Profile)
    BY <2>3, ConcatProperties
  <2>6. handled' = (before \o completed) \o <<q>>
    BY <2>1, <2>2, <2>3, AppendIsConcat DEF PipelineInv, Conservation
  <2>7. completed' = completed \o <<q>>
    BY <2>1, <2>2, <2>3, AppendIsConcat
  <2>8. handled' = before \o completed'
    <3>. HIDE DEF before
    <3>. QED
      BY <2>3, <2>4, <2>5, <2>6, <2>7, ConcatAssociative, SMTT(30)
  <2>. QED
    BY <1>1, <2>8 DEF PipelineInv, Conservation, RingIsRecent
<1>3. ASSUME NEW k \in Keys, NEW age \in DepAges, HandleDependency(k, mono - age)
      PROVE  PipelineInv'
  BY <1>1, <1>3, PipelineStutter DEF HandleDependency
<1>. QED
  BY <1>2, <1>3 DEF Poll, Collect

\* Every step keeps the invariant: draining moves profiles into the batch and
\* storing moves the batch to the end of the history.
LEMMA PipelineInvStep ==
    ASSUME PipelineInv, [Next]_vars
    PROVE  PipelineInv'
<1>0. TypeOK /\ TypeOK'
  BY PipelineTypeStep DEF PipelineInv
<1>1. /\ stored \in Seq(Profile) /\ batch \in Seq(Profile) /\ buffer \in Seq(Profile)
      /\ completed \in Seq(Profile)
  BY <1>0 DEF TypeOK, CorrTypeOK
<1>2. CASE Poll
  BY <1>0, <1>2, PipelineCollectStep
<1>3. CASE StartCollecting \/ Signal \/ PollLoopEnds \/ Exit
  BY <1>0, <1>3, PipelineStutter DEF StartCollecting, Signal, PollLoopEnds, Exit,
     corrVars, ringVars, flushVars, InFlight, PipelineInv, BatchInv
<1>4. CASE CheckRunning
  BY <1>0, <1>4, PipelineStutter DEF CheckRunning, FlushStep, corrVars, ringVars, InFlight, BatchInv
<1>5. CASE WakeAndCleanup
  BY <1>0, <1>5, PipelineStutter DEF WakeAndCleanup, FlushStep, CleanupStale, ringVars,
     InFlight, BatchInv
<1>6. CASE Drain
  <2>1. /\ InFlight = <<>> /\ completed' = <<>> /\ batch' = completed
        /\ UNCHANGED <<handled, stored, buffer>>
        /\ flush' = IF completed = <<>> THEN "top" ELSE "storeMain"
    BY <1>6 DEF Drain, FlushStep, DrainCompleted, InFlight, ringVars
  <2>2. InFlight' = completed
    BY <2>1 DEF InFlight
  <2>3. handled = stored \o completed
    BY <1>1, <2>1, ConcatEmptySeq DEF PipelineInv, Conservation
  <2>4. handled' = stored' \o InFlight' \o completed'
    <3>1. stored \o completed \in Seq(Profile)
      BY <1>1, ConcatProperties
    <3>. QED
      BY <2>1, <2>2, <2>3, <3>1, ConcatEmptySeq
  <2>. QED
    BY <1>0, <2>1, <2>4 DEF PipelineInv, Conservation, RingIsRecent, BatchInv
<1>7. CASE FlushStoreMain
  <2>1. /\ InFlight = batch /\ InFlight' = <<>> /\ stored' = stored \o batch
        /\ buffer' = LastN(buffer \o batch, BufferSize)
        /\ UNCHANGED <<handled, completed, batch>>
    BY <1>7 DEF FlushStoreMain, StoreMain, ExtendDeque, FlushStep, InFlight, corrVars
  <2>2. Conservation'
    <3>1. stored' \in Seq(Profile)
      BY <1>1, <2>1, ConcatProperties
    <3>2. stored' \o InFlight' = stored'
      BY <2>1, <3>1, ConcatEmptySeq
    <3>. QED
      BY <2>1, <3>2 DEF PipelineInv, Conservation
  <2>3. RingIsRecent'
    <3>1. buffer = LastN(stored, BufferSize)
      BY DEF PipelineInv, RingIsRecent
    <3>2. LastN(buffer \o batch, BufferSize) = LastN(stored \o batch, BufferSize)
      BY <1>1, <3>1, LastNExtend, SizeAssumption
    <3>. QED
      BY <2>1, <3>2 DEF RingIsRecent
  <2>4. BatchInv'
    BY <1>7, <2>1 DEF FlushStoreMain, FlushStep, PipelineInv, BatchInv
  <2>. QED
    BY <1>0, <2>2, <2>3, <2>4 DEF PipelineInv
<1>8. CASE FlushStoreCorrelated \/ Persist \/ Export
  BY <1>0, <1>8, PipelineStutter DEF FlushStoreCorrelated, StoreCorrelated, Persist, Export,
     FlushStep, corrVars, ringVars, InFlight, PipelineInv, BatchInv
<1>9. CASE PipelineTick
  BY <1>0, <1>9, PipelineStutter DEF PipelineTick, Tick, ringVars, flushVars,
     InFlight, PipelineInv, BatchInv
<1>10. CASE UNCHANGED vars
  BY <1>0, <1>10, PipelineStutter DEF vars, corrVars, ringVars, flushVars,
     InFlight, PipelineInv, BatchInv
<1>. QED
  BY <1>2, <1>3, <1>4, <1>5, <1>6, <1>7, <1>8, <1>9, <1>10 DEF Next, MainNext, FlushNext

\* PipelineInv holds in every state of the agent.
THEOREM PipelineInvariant == Spec => []PipelineInv
<1>1. Init => PipelineInv
  BY PipelineInitInv
<1>2. PipelineInv /\ [Next]_vars => PipelineInv'
  BY PipelineInvStep
<1>. QED
  BY <1>1, <1>2, PTL DEF Spec

\* No profile is lost, duplicated or reordered on its way to the store.
THEOREM ConservationCorrect == Spec => []Conservation
  BY PipelineInvariant, PTL DEF PipelineInv

\* The main deque is the end of the history of what was stored.
THEOREM RingIsRecentCorrect == Spec => []RingIsRecent
  BY PipelineInvariant, PTL DEF PipelineInv

\* The variables keep their types.
THEOREM PipelineTypeCorrect == Spec => []TypeOK
  BY PipelineInvariant, PTL DEF PipelineInv

-----------------------------------------------------------------------------
(* The correlated deque, the queries and the export. *)

Handing == flush \in {"storeCorrelated", "persist", "export"}

\* Between the first lock and the export the batch is the end of the history.
BatchIsEnd ==
    Handing => /\ Len(batch) <= Len(stored)
               /\ stored = SubSeq(stored, 1, Len(stored) - Len(batch)) \o batch

\* How far the export has been.
Exportable == IF Handing THEN Len(stored) - Len(batch) ELSE Len(stored)

\* What was exported are ids of earlier batches, each at most once.
ExportedInv ==
    /\ \A i \in DOMAIN exported : exported[i] \in 1..Exportable
    /\ \A i, j \in DOMAIN exported : exported[i] = exported[j] => i = j

ExportInv ==
    /\ PipelineInv
    /\ IdsAndTimesInOrder
    /\ BatchIsEnd
    /\ CorrelatedIsRecent
    /\ ExportedInv

\* What is stored is the front of what was handled: the ids number it, and the
\* timestamps are in order.
LEMMA StoredInOrder ==
    ASSUME PipelineInv, IdsAndTimesInOrder
    PROVE  /\ Len(stored) \in Nat /\ DOMAIN stored = 1..Len(stored)
           /\ \A i \in 1..Len(stored) : /\ stored[i] \in Profile
                                        /\ stored[i].id = i
                                        /\ stored[i].ts \in Nat
           /\ \A i, j \in 1..Len(stored) : i < j => stored[i].ts <= stored[j].ts
<1>. DEFINE n == Len(stored)
            rest == InFlight \o completed
<1>1. /\ stored \in Seq(Profile) /\ InFlight \in Seq(Profile) /\ completed \in Seq(Profile)
      /\ handled \in Seq(Profile)
  BY EmptySeq DEF PipelineInv, TypeOK, CorrTypeOK, InFlight
<1>2. rest \in Seq(Profile)
  BY <1>1, ConcatProperties
<1>3. handled = stored \o rest
  BY <1>1, ConcatAssociative, SMTT(30) DEF PipelineInv, Conservation
<1>. HIDE DEF rest
<1>4. /\ n \in Nat /\ Len(rest) \in Nat /\ DOMAIN stored = 1..n
      /\ \A i \in 1..n : stored[i] \in Profile
  BY <1>1, <1>2, LenProperties, ElementOfSeq
<1>5. /\ Len(handled) = n + Len(rest)
      /\ \A i \in 1..(n + Len(rest)) : handled[i] = IF i <= n THEN stored[i] ELSE rest[i - n]
  BY <1>1, <1>2, <1>3, ConcatProperties
<1>6. DOMAIN handled = 1..(n + Len(rest))
  BY <1>1, <1>5, LenProperties
<1>. HIDE DEF n
<1>7. \A i \in 1..n : i \in DOMAIN handled /\ handled[i] = stored[i]
  BY <1>4, <1>5, <1>6
<1>8. \A i \in 1..n : stored[i].id = i /\ stored[i].ts \in Nat
  BY <1>4, <1>7 DEF IdsAndTimesInOrder, Profile
<1>9. \A i, j \in 1..n : i < j => stored[i].ts <= stored[j].ts
  BY <1>7 DEF IdsAndTimesInOrder
<1>. QED
  BY <1>4, <1>8, <1>9 DEF n

LEMMA ExportInitInv == Init => ExportInv
<1>. SUFFICES ASSUME Init PROVE ExportInv
  OBVIOUS
<1>1. PipelineInv /\ IdsAndTimesInOrder
  BY PipelineInitInv, CorrInitInv DEF Init, CorrInv
<1>2. flush = "top" /\ stored = <<>> /\ correlatedBuffer = <<>> /\ exported = <<>>
  BY DEF Init, RingInit
<1>3. BatchIsEnd
  BY <1>2 DEF BatchIsEnd, Handing
<1>4. CorrelatedIsRecent
  <2>1. <<>> \in Seq(Profile) /\ Len(<<>>) = 0
    BY EmptySeq
  <2>2. SubSeq(stored, 1, Len(stored) - 0) = <<>>
    BY <1>2, <2>1, SubSeqEmpty
  <2>3. CorrelatedStored = <<>>
    BY <1>2, <2>2, EmptyOfKinds DEF CorrelatedStored
  <2>. QED
    BY <1>2, <2>3, EmptyLastN, SizeAssumption DEF CorrelatedIsRecent
<1>5. ExportedInv
  BY <1>2 DEF ExportedInv
<1>. QED
  BY <1>1, <1>3, <1>4, <1>5 DEF ExportInv

\* The newest entries of the main deque are the end of the history.
LEMMA RecentIsEnd ==
    ASSUME PipelineInv, NEW since, NEW limit \in Nat \ {0}
    PROVE  LET q == QueryRecent(Wall, since, limit)
           IN  /\ q \in Seq(Profile) /\ Len(q) \in Nat
               /\ Len(q) <= limit /\ Len(q) <= Len(stored)
               /\ \A k \in 1..Len(q) : q[k] = stored[Len(stored) - k + 1]
<1>. DEFINE w == InWindow(buffer, Wall - since)
            q == Newest(w, limit)
            c == Len(w)
            l == Len(buffer)
            n == Len(stored)
<1>1. /\ stored \in Seq(Profile) /\ buffer \in Seq(Profile)
      /\ buffer = LastN(stored, BufferSize)
  BY DEF PipelineInv, TypeOK, RingIsRecent
<1>2. /\ n \in Nat /\ l \in Nat /\ l <= n
      /\ \A k \in 1..l : buffer[k] = stored[n - l + k]
  <2>1. /\ l = MinOf(n, BufferSize)
        /\ \A k \in 1..MinOf(n, BufferSize) :
              buffer[k] = stored[n - MinOf(n, BufferSize) + k]
    BY <1>1, LastNProperties, SizeAssumption
  <2>2. n \in Nat /\ MinOf(n, BufferSize) \in Nat /\ MinOf(n, BufferSize) <= n
    BY <1>1, LenProperties, SizeAssumption DEF MinOf
  <2>. HIDE DEF l, n
  <2>. QED
    BY <2>1, <2>2
<1>3. c \in 0..l /\ w \in Seq(Profile) /\ \A k \in 1..c : w[k] = buffer[l - c + k]
  <2>. DEFINE d == Cardinality(Scanned(buffer, Wall - since))
  <2>1. /\ d \in 0..l /\ w \in Seq(Profile) /\ c = d
        /\ \A k \in 1..d : w[k] = buffer[l - d + k]
    BY <1>1, InWindowProperties
  <2>. HIDE DEF d, w, l, c
  <2>. QED
    BY <2>1
<1>4. OfKinds(w, Anything) = w
  <2>1. \A e \in Profile : e.correlated \in BOOLEAN
    BY DEF Profile
  <2>2. w \in Seq(Profile)
    BY <1>3
  <2>. HIDE DEF w
  <2>. QED
    BY <2>1, <2>2, OfAnyKind
<1>5. QueryRecent(Wall, since, limit) = q
  BY <1>4 DEF QueryRecent, Query
<1>6. /\ q \in Seq(Profile) /\ Len(q) = MinOf(c, limit)
      /\ \A k \in 1..MinOf(c, limit) : q[k] = w[c - k + 1]
  <2>1. MaxOf(limit, 1) = limit /\ limit \in Int
    BY DEF MaxOf
  <2>2. w \in Seq(Profile)
    BY <1>3
  <2>. HIDE DEF w
  <2>3. /\ q \in Seq(Profile) /\ Len(q) = MinOf(Len(w), MaxOf(limit, 1))
        /\ \A k \in 1..MinOf(Len(w), MaxOf(limit, 1)) : q[k] = w[Len(w) - k + 1]
    BY <2>1, <2>2, NewestProperties
  <2>. QED
    BY <2>1, <2>3
<1>7. Len(q) \in Nat /\ Len(q) <= limit /\ Len(q) <= c
  BY <1>2, <1>3, <1>6 DEF MinOf
<1>. HIDE DEF w, c, l, n, q
<1>8. ASSUME NEW k \in 1..Len(q) PROVE q[k] = stored[n - k + 1]
  <2>1. /\ k \in 1..MinOf(c, limit) /\ c - k + 1 \in 1..c /\ l - c + (c - k + 1) \in 1..l
        /\ n - l + (l - c + (c - k + 1)) = n - k + 1
    BY <1>2, <1>3, <1>6, <1>7
  <2>2. q[k] = w[c - k + 1]
    BY <1>6, <2>1
  <2>. QED
    BY <1>2, <1>3, <2>1, <2>2
<1>. QED
  BY <1>2, <1>3, <1>5, <1>6, <1>7, <1>8, SMTT(30) DEF n

\* A step that neither stores nor exports keeps the invariant.
LEMMA ExportStutter ==
    ASSUME ExportInv, PipelineInv', IdsAndTimesInOrder',
           UNCHANGED <<stored, correlatedBuffer, exported>>,
           Handing' <=> Handing, Handing => batch' = batch,
           flush' = "storeCorrelated" <=> flush = "storeCorrelated"
    PROVE  ExportInv'
<1>1. BatchIsEnd'
  BY DEF ExportInv, BatchIsEnd
<1>2. CorrelatedStored' = CorrelatedStored
  BY DEF CorrelatedStored, Handing
<1>3. Exportable' = Exportable
  BY DEF Exportable
<1>. QED
  BY <1>1, <1>2, <1>3 DEF ExportInv, CorrelatedIsRecent, ExportedInv

\* Every step keeps the invariant: what is stored next becomes exportable, and an
\* export takes no more than the last batch.
LEMMA ExportInvStep ==
    ASSUME ExportInv, IdsAndTimesInOrder', [Next]_vars
    PROVE  ExportInv'
<1>0. PipelineInv /\ PipelineInv'
  BY PipelineInvStep DEF ExportInv
<1>1. /\ stored \in Seq(Profile) /\ batch \in Seq(Profile)
      /\ Len(stored) \in Nat /\ Len(batch) \in Nat
  <2>1. stored \in Seq(Profile) /\ batch \in Seq(Profile)
    BY <1>0 DEF PipelineInv, TypeOK
  <2>. QED
    BY <2>1, LenProperties
<1>2. CASE MainNext \/ PipelineTick \/ UNCHANGED vars
  <2>1. UNCHANGED <<flush, batch, stored, correlatedBuffer, exported>>
    BY <1>2 DEF MainNext, StartCollecting, Poll, Signal, PollLoopEnds, Exit, PipelineTick,
       vars, ringVars, flushVars
  <2>. QED
    BY <1>0, <2>1, ExportStutter DEF Handing
<1>3. CASE CheckRunning \/ WakeAndCleanup \/ Drain \/ Persist
  <2>1. /\ UNCHANGED <<stored, correlatedBuffer, exported>>
        /\ flush # "storeCorrelated" /\ flush' # "storeCorrelated"
        /\ (Handing' <=> Handing) /\ (Handing => batch' = batch)
    BY <1>3 DEF CheckRunning, WakeAndCleanup, Drain, Persist, FlushStep, ringVars, Handing
  <2>. QED
    BY <1>0, <2>1, ExportStutter
<1>4. CASE FlushStoreMain
  <2>1. /\ flush = "storeMain" /\ flush' = "storeCorrelated"
        /\ stored' = stored \o batch
        /\ UNCHANGED <<batch, correlatedBuffer, exported>>
    BY <1>4 DEF FlushStoreMain, StoreMain, FlushStep
  <2>2. Len(stored') = Len(stored) + Len(batch) /\ Len(stored') - Len(batch') = Len(stored)
    BY <1>1, <2>1, ConcatProperties
  <2>3. SubSeq(stored', 1, Len(stored') - Len(batch')) = stored
    BY <1>1, <2>1, <2>2, FrontOfConcat
  <2>4. BatchIsEnd'
    BY <1>1, <2>1, <2>2, <2>3 DEF BatchIsEnd
  <2>5. CorrelatedIsRecent'
    <3>1. SubSeq(stored, 1, Len(stored) - 0) = stored
      BY <1>1, SubSeqFull
    <3>2. CorrelatedStored = OfKinds(stored, Correlated)
      BY <2>1, <3>1 DEF CorrelatedStored
    <3>3. CorrelatedStored' = OfKinds(stored, Correlated)
      BY <2>1, <2>3 DEF CorrelatedStored
    <3>. QED
      BY <2>1, <3>2, <3>3 DEF ExportInv, CorrelatedIsRecent
  <2>6. ExportedInv'
    <3>1. Exportable' = Exportable
      BY <2>1, <2>2 DEF Exportable, Handing
    <3>. QED
      BY <2>1, <3>1 DEF ExportInv, ExportedInv
  <2>. QED
    BY <1>0, <2>4, <2>5, <2>6 DEF ExportInv
<1>5. CASE FlushStoreCorrelated
  <2>1. /\ flush = "storeCorrelated" /\ flush' = "persist" /\ Handing /\ Handing'
        /\ UNCHANGED <<stored, batch, exported>>
        /\ correlatedBuffer'
              = LastN(correlatedBuffer \o OfKinds(batch, Correlated), CorrelatedSize)
    BY <1>5 DEF FlushStoreCorrelated, StoreCorrelated, ExtendDeque, FlushStep, Handing
  <2>. DEFINE old == SubSeq(stored, 1, Len(stored) - Len(batch))
  <2>2. old \in Seq(Profile) /\ stored = old \o batch
    <3>1. Len(batch) <= Len(stored) /\ stored = old \o batch
      BY <2>1 DEF ExportInv, BatchIsEnd
    <3>. DEFINE b == Len(stored) - Len(batch)
    <3>2. b \in Int /\ \A i \in 1..b : stored[i] \in Profile
      BY <1>1, <3>1, ElementOfSeq
    <3>. HIDE DEF b
    <3>3. SubSeq(stored, 1, b) \in Seq(Profile)
      BY <3>2, SubSeqProperties
    <3>. QED
      BY <3>1, <3>3 DEF b
  <2>3. correlatedBuffer = LastN(OfKinds(old, Correlated), CorrelatedSize)
    BY <2>1 DEF ExportInv, CorrelatedIsRecent, CorrelatedStored
  <2>. HIDE DEF old
  <2>4. OfKinds(stored, Correlated) = OfKinds(old, Correlated) \o OfKinds(batch, Correlated)
    BY <1>1, <2>2, OfKindsConcat
  <2>5. OfKinds(old, Correlated) \in Seq(Profile) /\ OfKinds(batch, Correlated) \in Seq(Profile)
    BY <1>1, <2>2, OfKindsIsWhere
  <2>6. correlatedBuffer' = LastN(OfKinds(stored, Correlated), CorrelatedSize)
    <3>. DEFINE a == OfKinds(old, Correlated)
                b == OfKinds(batch, Correlated)
    <3>. HIDE DEF a, b
    <3>1. LastN(LastN(a, CorrelatedSize) \o b, CorrelatedSize) = LastN(a \o b, CorrelatedSize)
      BY <2>5, LastNExtend, SizeAssumption DEF a, b
    <3>. QED
      BY <2>1, <2>3, <2>4, <3>1 DEF a, b
  <2>7. CorrelatedIsRecent'
    <3>1. SubSeq(stored', 1, Len(stored') - 0) = stored
      BY <1>1, <2>1, SubSeqFull
    <3>2. CorrelatedStored' = OfKinds(stored, Correlated)
      BY <2>1, <3>1 DEF CorrelatedStored
    <3>. QED
      BY <2>6, <3>2 DEF CorrelatedIsRecent
  <2>8. BatchIsEnd'
    BY <2>1 DEF ExportInv, BatchIsEnd
  <2>9. ExportedInv'
    BY <2>1 DEF ExportInv, ExportedInv, Exportable
  <2>. QED
    BY <1>0, <2>7, <2>8, <2>9 DEF ExportInv
<1>6. CASE Export
  <2>. DEFINE q == QueryRecent(Wall, FlushInterval + 1, Len(batch))
              n == Len(stored)
              e == Len(exported)
  <2>1. /\ flush = "export" /\ flush' = "top"
        /\ exported' = exported \o Ids(q)
        /\ UNCHANGED <<stored, correlatedBuffer>>
    BY <1>6 DEF Export, FlushStep, ringVars
  <2>2. Len(batch) \in Nat \ {0}
    BY <1>0, <1>1, <2>1, EmptySeq DEF PipelineInv, BatchInv
  <2>3. /\ q \in Seq(Profile) /\ Len(q) \in Nat /\ Len(q) <= Len(batch) /\ Len(q) <= n
        /\ \A k \in 1..Len(q) : q[k] = stored[n - k + 1]
    BY <1>0, <2>2, RecentIsEnd
  <2>. HIDE DEF q
  <2>4. \A k \in 1..Len(q) : Ids(q)[k] = n - k + 1
    <3>1. \A i \in 1..n : stored[i].id = i
      BY <1>0, StoredInOrder DEF ExportInv
    <3>2. \A k \in 1..Len(q) : n - k + 1 \in 1..n /\ Ids(q)[k] = q[k].id
      BY <1>1, <2>3, IdsProperties
    <3>. HIDE DEF n
    <3>. QED
      BY <2>3, <3>1, <3>2
  <2>5. exported \in Seq(Nat) /\ Ids(q) \in Seq(Nat) /\ Len(Ids(q)) = Len(q)
    BY <1>0, <2>3, IdsProperties DEF PipelineInv, TypeOK
  <2>6. e \in Nat /\ DOMAIN exported = 1..e /\ \A i \in 1..e : exported[i] \in 1..(n - Len(batch))
    <3>1. DOMAIN exported = 1..e /\ e \in Nat
      BY <2>5, LenProperties
    <3>2. Exportable = n - Len(batch)
      BY <2>1 DEF Exportable, Handing
    <3>. QED
      BY <3>1, <3>2 DEF ExportInv, ExportedInv
  <2>7. /\ DOMAIN exported' = 1..(e + Len(q))
        /\ \A i \in 1..(e + Len(q)) :
              exported'[i] = IF i <= e THEN exported[i] ELSE Ids(q)[i - e]
    <3>. DEFINE x == Ids(q)
                y == exported \o x
    <3>1. x \in Seq(Nat) /\ Len(x) = Len(q) /\ exported \in Seq(Nat)
      BY <2>5
    <3>. HIDE DEF x
    <3>4. /\ y \in Seq(Nat) /\ Len(y) = Len(exported) + Len(x)
          /\ \A i \in 1..(Len(exported) + Len(x)) :
                y[i] = IF i <= Len(exported) THEN exported[i] ELSE x[i - Len(exported)]
      BY <3>1, ConcatProperties
    <3>2. /\ y \in Seq(Nat) /\ Len(y) = e + Len(q)
          /\ \A i \in 1..(e + Len(q)) : y[i] = IF i <= e THEN exported[i] ELSE x[i - e]
      BY <3>1, <3>4
    <3>3. DOMAIN y = 1..(e + Len(q))
      BY <3>2, LenProperties
    <3>. QED
      BY <2>1, <3>2, <3>3 DEF x
  <2>8. n \in Nat /\ Len(batch) <= n
    BY <1>1, <2>1 DEF ExportInv, BatchIsEnd, Handing
  <2>9. \A i, j \in 1..e : exported[i] = exported[j] => i = j
    BY <2>6 DEF ExportInv, ExportedInv
  <2>. HIDE DEF n, e
  <2>10. \A i \in (e + 1)..(e + Len(q)) : /\ exported'[i] = n - (i - e) + 1
                                         /\ exported'[i] \in (n - Len(batch) + 1)..n
    <3>. SUFFICES ASSUME NEW i \in (e + 1)..(e + Len(q))
                  PROVE  /\ exported'[i] = n - (i - e) + 1
                         /\ n - (i - e) + 1 \in (n - Len(batch) + 1)..n
      OBVIOUS
    <3>1. i - e \in 1..Len(q) /\ i \in 1..(e + Len(q)) /\ ~ (i <= e)
      BY <2>3, <2>6
    <3>. QED
      BY <1>1, <2>3, <2>4, <2>7, <2>8, <3>1
  <2>11. \A i \in 1..e : exported'[i] = exported[i] /\ exported'[i] \in 1..(n - Len(batch))
    BY <2>3, <2>6, <2>7
  <2>12. \A i \in DOMAIN exported' : i \in 1..e \/ i \in (e + 1)..(e + Len(q))
    BY <2>3, <2>6, <2>7
  <2>13. ExportedInv'
    <3>1. Exportable' = n
      BY <2>1 DEF Exportable, Handing, n
    <3>2. \A i \in DOMAIN exported' : exported'[i] \in 1..n
      BY <1>1, <2>8, <2>10, <2>11, <2>12
    <3>3. ASSUME NEW i \in DOMAIN exported', NEW j \in DOMAIN exported', exported'[i] = exported'[j]
          PROVE  i = j
      <4>1. CASE i \in 1..e /\ j \in 1..e
        BY <2>9, <2>11, <3>3, <4>1
      <4>2. CASE i \in (e + 1)..(e + Len(q)) /\ j \in (e + 1)..(e + Len(q))
        BY <2>6, <2>8, <2>10, <3>3, <4>2
      <4>3. CASE i \in 1..e /\ j \in (e + 1)..(e + Len(q))
        BY <1>1, <2>8, <2>10, <2>11, <3>3, <4>3
      <4>4. CASE i \in (e + 1)..(e + Len(q)) /\ j \in 1..e
        BY <1>1, <2>8, <2>10, <2>11, <3>3, <4>4
      <4>. QED
        BY <2>12, <4>1, <4>2, <4>3, <4>4
    <3>. QED
      BY <3>1, <3>2, <3>3 DEF ExportedInv
  <2>14. BatchIsEnd'
    BY <2>1 DEF BatchIsEnd, Handing
  <2>15. CorrelatedIsRecent'
    BY <2>1 DEF ExportInv, CorrelatedIsRecent, CorrelatedStored
  <2>. QED
    BY <1>0, <2>13, <2>14, <2>15 DEF ExportInv
<1>. QED
  BY <1>2, <1>3, <1>4, <1>5, <1>6 DEF Next, FlushNext

\* ExportInv holds in every state of the agent.
THEOREM ExportInvariant == Spec => []ExportInv
<1>1. Init => ExportInv
  BY ExportInitInv
<1>2. ExportInv /\ IdsAndTimesInOrder' /\ [Next]_vars => ExportInv'
  BY ExportInvStep
<1>3. Spec => []IdsAndTimesInOrder
  BY PipelineImplementsCorrelator, IdsAndTimesCorrect, PTL
<1>. QED
  BY <1>1, <1>2, <1>3, PTL DEF Spec

\* The correlated deque is the end of the history of correlated profiles it has
\* been given, a batch behind the main deque between the two locks.
THEOREM CorrelatedIsRecentCorrect == Spec => []CorrelatedIsRecent
  BY ExportInvariant, PTL DEF ExportInv

\* No request is handed to the remote writer twice, and none that is not stored.
THEOREM ExportedAtMostOnceCorrect == Spec => []ExportedAtMostOnce
<1>1. ExportInv => ExportedAtMostOnce
  <2>. SUFFICES ASSUME ExportInv PROVE ToSet(exported) \subseteq ToSet(Ids(stored))
    BY DEF ExportInv, ExportedInv, ExportedAtMostOnce
  <2>. DEFINE n == Len(stored)
  <2>1. /\ n \in Nat /\ DOMAIN Ids(stored) = 1..n /\ \A i \in 1..n : Ids(stored)[i] = i
    <3>1. stored \in Seq(Profile)
      BY DEF ExportInv, PipelineInv, TypeOK
    <3>. QED
      BY <3>1, StoredInOrder, IdsProperties DEF ExportInv
  <2>2. Exportable \in Int /\ Exportable <= n
    <3>1. Len(batch) \in Nat
      BY LenProperties DEF ExportInv, PipelineInv, TypeOK
    <3>. QED
      BY <2>1, <3>1 DEF Exportable
  <2>3. \A i \in DOMAIN exported : exported[i] \in 1..n
    BY <2>1, <2>2 DEF ExportInv, ExportedInv
  <2>. HIDE DEF n
  <2>. QED
    BY <2>1, <2>3 DEF ToSet
<1>. QED
  BY <1>1, ExportInvariant, PTL

\* A deque that is the end of a history in order answers for all of it.
LEMMA QueryAnswersFromHistory ==
    ASSUME NEW s \in Seq(Profile), InOrder(s),
           NEW n \in Nat, NEW kept, kept = LastN(s, n),
           NEW cutoff \in Int, ReachesBack(kept, s, cutoff),
           NEW limit \in Nat \ {0}, NEW K
    PROVE  Query(kept, cutoff, limit, K) = QueryOfHistory(s, cutoff, limit, K)
<1>. DEFINE found == At(s, Wanted(s, cutoff, K))
<1>1. found = OfKinds(InWindow(kept, cutoff), K)
  <2>1. DroppedIsOld(s, Len(LastN(s, n)), cutoff)
    BY DEF ReachesBack, DroppedIsOld
  <2>2. At(s, Selected(s, cutoff, K)) = OfKinds(InWindow(LastN(s, n), cutoff), K)
    BY <2>1, WindowIsFilter
  <2>3. DOMAIN s = 1..Len(s)
    BY LenProperties
  <2>4. Wanted(s, cutoff, K) = Selected(s, cutoff, K)
    BY <2>3 DEF Wanted, Selected
  <2>. QED
    BY <2>2, <2>4
<1>2. OfKinds(InWindow(kept, cutoff), K) \in Seq(Profile)
  <2>1. kept \in Seq(Profile)
    BY LastNProperties
  <2>2. InWindow(kept, cutoff) \in Seq(Profile)
    BY <2>1, InWindowProperties
  <2>. QED
    BY <2>2, OfKindsIsWhere
<1>3. Query(kept, cutoff, limit, K) = Newest(found, limit)
  BY <1>1 DEF Query
<1>4. QueryOfHistory(s, cutoff, limit, K) = SubSeq(Reverse(found), 1, MinOf(Len(Reverse(found)), limit))
  BY DEF QueryOfHistory
<1>. HIDE DEF found
<1>. QED
  BY <1>1, <1>2, <1>3, <1>4, NewestIsReverse

\* What the correlated deque has been given is in order too.
LEMMA CorrelatedStoredInOrder ==
    ASSUME ExportInv
    PROVE  CorrelatedStored \in Seq(Profile) /\ InOrder(CorrelatedStored)
<1>. DEFINE behind == IF flush = "storeCorrelated" THEN Len(batch) ELSE 0
            b == Len(stored) - behind
            s == SubSeq(stored, 1, b)
<1>1. /\ stored \in Seq(Profile) /\ Len(stored) \in Nat /\ Len(batch) \in Nat
      /\ \A i \in 1..Len(stored) : stored[i] \in Profile /\ stored[i].ts \in Int
      /\ \A i, j \in 1..Len(stored) : i < j => stored[i].ts <= stored[j].ts
  BY StoredInOrder, LenProperties DEF ExportInv, PipelineInv, TypeOK
<1>2. b \in Int /\ b >= 0 /\ b <= Len(stored)
  BY <1>1 DEF ExportInv, BatchIsEnd, Handing
<1>3. CorrelatedStored = OfKinds(s, Correlated)
  BY DEF CorrelatedStored
<1>. HIDE DEF b
<1>4. /\ s \in Seq(Profile) /\ Len(s) = b
      /\ \A i \in 1..b : s[i] = stored[i]
  <2>1. \A i \in 1..b : stored[i] \in Profile
    BY <1>1, <1>2
  <2>2. /\ s \in Seq(Profile) /\ Len(s) = IF 1 <= b THEN b - 1 + 1 ELSE 0
        /\ \A i \in 1..(b - 1 + 1) : s[i] = stored[1 + i - 1]
    BY <1>2, <2>1, SubSeqProperties
  <2>. HIDE DEF s
  <2>. QED
    BY <1>2, <2>2
<1>5. InOrder(s)
  <2>. HIDE DEF s
  <2>1. \A i \in 1..b : i \in 1..Len(stored)
    BY <1>1, <1>2
  <2>2. \A i \in 1..b : s[i].ts = stored[i].ts /\ s[i].ts \in Int
    BY <1>1, <1>4, <2>1
  <2>3. \A i, j \in 1..b : i < j => s[i].ts <= s[j].ts
    BY <1>1, <2>1, <2>2
  <2>. QED
    BY <1>4, <2>2, <2>3 DEF InOrder
<1>. HIDE DEF s
<1>. DEFINE P == Where(s, {e \in Profile : e.correlated \in Correlated})
<1>6. OfKinds(s, Correlated) = At(s, P) /\ At(s, P) \in Seq(Profile) /\ P \in SUBSET (1..Len(s))
  <2>1. P \in SUBSET (1..Len(s))
    BY DEF Where
  <2>. QED
    BY <1>4, <2>1, OfKindsIsWhere, SMTT(30)
<1>. HIDE DEF P
<1>7. InOrder(At(s, P))
  BY <1>4, <1>5, <1>6, AtSorted
<1>. QED
  BY <1>3, <1>6, <1>7

\* A query of a deque answers as a query of everything ever stored would.
THEOREM QueriesAnswerCorrect == Spec => []QueriesAnswerFromHistory
<1>1. ExportInv => QueriesAnswerFromHistory
  <2>. SUFFICES ASSUME ExportInv, NEW since \in 0..MaxClock, NEW limit \in 1..MaxRequests
                PROVE  LET cutoff == Wall - since
                       IN  /\ ReachesBack(buffer, stored, cutoff) =>
                               /\ QueryRecent(Wall, since, limit)
                                    = QueryOfHistory(stored, cutoff, limit, Anything)
                               /\ GetUncorrelatedRecent(Wall, since, limit)
                                    = QueryOfHistory(stored, cutoff, limit, Uncorrelated)
                           /\ ReachesBack(correlatedBuffer, CorrelatedStored, cutoff) =>
                               GetCorrelated(Wall, since, limit)
                                 = QueryOfHistory(CorrelatedStored, cutoff, limit, Anything)
    BY DEF QueriesAnswerFromHistory
  <2>. DEFINE cutoff == Wall - since
              cs == CorrelatedStored
  <2>1. cutoff \in Int /\ limit \in Nat \ {0} /\ stored \in Seq(Profile)
    BY ClockAssumption, CorrBoundsAssumption
       DEF ExportInv, PipelineInv, TypeOK, CorrTypeOK, Wall
  <2>2. InOrder(stored)
    BY StoredInOrder DEF ExportInv, InOrder
  <2>3. cs \in Seq(Profile) /\ InOrder(cs)
    BY CorrelatedStoredInOrder
  <2>4. buffer = LastN(stored, BufferSize) /\ correlatedBuffer = LastN(cs, CorrelatedSize)
    BY DEF ExportInv, PipelineInv, RingIsRecent, CorrelatedIsRecent
  <2>. HIDE DEF cutoff, cs
  <2>5. ASSUME NEW K, ReachesBack(buffer, stored, cutoff)
        PROVE  Query(buffer, cutoff, limit, K) = QueryOfHistory(stored, cutoff, limit, K)
    BY <2>1, <2>2, <2>4, <2>5, QueryAnswersFromHistory, SizeAssumption
  <2>6. ASSUME ReachesBack(correlatedBuffer, cs, cutoff)
        PROVE  Query(correlatedBuffer, cutoff, limit, Anything)
                 = QueryOfHistory(cs, cutoff, limit, Anything)
    BY <2>1, <2>3, <2>4, <2>6, QueryAnswersFromHistory, SizeAssumption
  <2>. QED
    BY <2>5, <2>6 DEF QueryRecent, GetUncorrelatedRecent, GetCorrelated, cutoff, cs
<1>. QED
  BY <1>1, ExportInvariant, PTL

-----------------------------------------------------------------------------
(* The pipeline implements the bounded log. *)

\* The two ways of writing the last n elements agree.
LEMMA NewestIsLastN ==
    ASSUME NEW S, NEW s \in Seq(S), NEW n \in Nat
    PROVE  Log!Newest(s, n) = LastN(s, n)
<1>1. Len(s) \in Nat
  BY LenProperties
<1>2. MaxOf(Len(s) - n, 0) + 1 = IF Len(s) > n THEN Len(s) - n + 1 ELSE 1
  BY <1>1 DEF MaxOf
<1>. QED
  BY <1>2 DEF Log!Newest, LastN

queue == InFlight \o completed

\* Handling a request is accepting it.
LEMMA HandleRequestAccepts ==
    ASSUME PipelineInv, NEW e \in RequestEvent, HandleRequest(e),
           UNCHANGED <<flush, batch, buffer>>
    PROVE  Log!Accept
<1>. DEFINE q == BuildProfile(e)
<1>1. q \in Profile /\ completed' = Append(completed, q) /\ InFlight' = InFlight
  BY HandledAfterRequest DEF PipelineInv, TypeOK, HandleRequest, InFlight
<1>2. InFlight \in Seq(Profile) /\ completed \in Seq(Profile)
  BY EmptySeq DEF PipelineInv, TypeOK, CorrTypeOK, InFlight
<1>. HIDE DEF q
<1>3. <<q>> \in Seq(Profile) /\ Len(<<q>>) = 1
  BY <1>1
<1>4. queue \in Seq(Profile) /\ Len(queue) \in Nat
  BY <1>2, ConcatProperties, LenProperties DEF queue
<1>5. queue' = queue \o <<q>>
  <2>1. completed' = completed \o <<q>>
    BY <1>1, <1>2, AppendIsConcat
  <2>. QED
    BY <1>1, <1>2, <1>3, <2>1, ConcatAssociative DEF queue
<1>6. Len(queue') = Len(queue) + 1
  BY <1>3, <1>4, <1>5, ConcatProperties
<1>7. SubSeq(queue', 1, Len(queue)) = queue
  BY <1>3, <1>4, <1>5, FrontOfConcat
<1>. QED
  BY <1>6, <1>7 DEF Log!Accept, queue

\* Storing a batch in the main deque is publishing it.
LEMMA StoreMainPublishes ==
    ASSUME PipelineInv, FlushStoreMain
    PROVE  Log!Publish
<1>1. /\ InFlight = batch /\ InFlight' = <<>> /\ completed' = completed
      /\ buffer' = LastN(buffer \o batch, BufferSize)
      /\ batch # <<>>
  BY DEF FlushStoreMain, StoreMain, ExtendDeque, FlushStep, InFlight, corrVars,
     PipelineInv, BatchInv
<1>2. /\ batch \in Seq(Profile) /\ completed \in Seq(Profile) /\ buffer \in Seq(Profile)
  BY DEF PipelineInv, TypeOK, CorrTypeOK
<1>. DEFINE n == Len(batch)
            s == batch \o completed
<1>3. n \in Nat /\ n # 0 /\ Len(completed) \in Nat
  BY <1>1, <1>2, EmptySeq, LenProperties
<1>4. s \in Seq(Profile) /\ Len(s) = n + Len(completed)
  BY <1>2, ConcatProperties
<1>6. SubSeq(s, 1, n) = batch
  BY <1>2, FrontOfConcat
<1>7. SubSeq(s, n + 1, Len(s)) = completed
  BY <1>2, BackOfConcat
<1>8. queue = s /\ queue' = completed
  BY <1>1, <1>2, ConcatEmptySeq DEF queue, s
<1>9. buffer' = Log!Newest(buffer \o SubSeq(s, 1, n), BufferSize)
  <2>1. buffer \o batch \in Seq(Profile)
    BY <1>2, ConcatProperties
  <2>. QED
    BY <1>1, <1>6, <2>1, NewestIsLastN, SizeAssumption
<1>10. n \in 1 .. Len(s)
  BY <1>3, <1>4
<1>. QED
  BY <1>7, <1>8, <1>9, <1>10 DEF Log!Publish, queue

\* The remaining steps show a reader nothing.
LEMMA StepIsLogStep ==
    ASSUME PipelineInv, [Next]_vars
    PROVE  [Log!Next]_<<queue, buffer>>
<1>1. ASSUME UNCHANGED <<flush, batch, buffer, completed>>
      PROVE  UNCHANGED <<queue, buffer>>
  BY <1>1 DEF queue, InFlight
<1>2. CASE Poll
  <2>1. UNCHANGED <<flush, batch, buffer>>
    BY <1>2 DEF Poll, flushVars, ringVars
  <2>2. ASSUME NEW e \in RequestEvent, HandleRequest(e) PROVE Log!Accept
    BY <2>1, <2>2, HandleRequestAccepts
  <2>3. ASSUME NEW k \in Keys, NEW age \in DepAges, HandleDependency(k, mono - age)
        PROVE  UNCHANGED completed
    BY <2>3 DEF HandleDependency
  <2>. QED
    BY <1>1, <1>2, <2>1, <2>2, <2>3 DEF Poll, Collect, Log!Next
<1>3. CASE StartCollecting \/ Signal \/ PollLoopEnds \/ Exit
  BY <1>1, <1>3 DEF StartCollecting, Signal, PollLoopEnds, Exit, corrVars, ringVars, flushVars
<1>4. CASE CheckRunning \/ WakeAndCleanup \/ FlushStoreCorrelated \/ Persist \/ Export
  BY <1>4 DEF CheckRunning, WakeAndCleanup, FlushStoreCorrelated, Persist, Export, FlushStep,
     StoreCorrelated, CleanupStale, corrVars, ringVars, queue, InFlight
<1>5. CASE Drain
  <2>1. /\ InFlight = <<>> /\ InFlight' = completed /\ completed' = <<>> /\ buffer' = buffer
    BY <1>5 DEF Drain, FlushStep, DrainCompleted, InFlight, ringVars
  <2>2. completed \in Seq(Profile)
    BY DEF PipelineInv, TypeOK, CorrTypeOK
  <2>. QED
    BY <2>1, <2>2, ConcatEmptySeq DEF queue
<1>6. CASE FlushStoreMain
  BY <1>6, StoreMainPublishes DEF Log!Next
<1>7. CASE PipelineTick
  BY <1>1, <1>7 DEF PipelineTick, Tick, ringVars, flushVars
<1>8. CASE UNCHANGED vars
  BY <1>1, <1>8 DEF vars, corrVars, ringVars, flushVars
<1>. QED
  BY <1>2, <1>3, <1>4, <1>5, <1>6, <1>7, <1>8 DEF Next, MainNext, FlushNext

\* Whatever the interleaving of the two threads, what the store shows is a bounded
\* log of the requests handled, in the order they were handled.
THEOREM PipelineImplementsLog == Spec => LogSpec
<1>1. Init => Log!Init
  BY EmptySeq, ConcatEmptySeq DEF Init, CorrInit, RingInit, Log!Init, InFlight
<1>2. PipelineInv /\ [Next]_vars => [Log!Next]_<<queue, buffer>>
  BY StepIsLogStep
<1>. QED
  BY <1>1, <1>2, PipelineInvariant, PTL DEF Spec, LogSpec, Log!Spec, queue
=============================================================================
