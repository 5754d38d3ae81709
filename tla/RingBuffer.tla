----------------------------- MODULE RingBuffer -----------------------------
(***************************************************************************)
(* store/ringbuffer.py: the RingBufferStore.  Two deques of bounded length *)
(* hold the most recent requests, one all of them and one only those with  *)
(* a correlation id.  Each deque has its lock, and store_profiles takes    *)
(* the two one after the other: storing is two actions.  The queries walk  *)
(* one deque from the newest entry back, under its lock.                   *)
(***************************************************************************)
EXTENDS Integers, SequencesExt

CONSTANTS
    BufferSize,        \* PERFCATCH_BUFFER_SIZE, the maxlen of _buffer
    CorrelatedSize     \* the maxlen of _correlated_buffer

ASSUME SizeAssumption == BufferSize \in Nat /\ CorrelatedSize \in Nat

VARIABLES
    buffer,            \* _buffer, oldest first
    correlatedBuffer   \* _correlated_buffer, oldest first

ringVars == <<buffer, correlatedBuffer>>

MinOf(a, b) == IF a <= b THEN a ELSE b
MaxOf(a, b) == IF a >= b THEN a ELSE b

\* The last n elements of s, or all of s when it is shorter.
LastN(s, n) == SubSeq(s, MaxOf(Len(s) - n, 0) + 1, Len(s))

\* The elements of s at the positions P, in the order of s.  (A filter by positions,
\* not SelectSeq, so that what it selects can be proved.)
Rank(P, i) == Cardinality({j \in P : j <= i})
Nth(P, k) == CHOOSE i \in P : Rank(P, i) = k
At(s, P) == [k \in 1..Cardinality(P) |-> s[Nth(P, k)]]

\* Of the entries of s those that are correlated, those that are not, or both.
OfKinds(s, kinds) == At(s, {i \in DOMAIN s : s[i].correlated \in kinds})

\* Mutant: a full deque refuses what is new.
ExtendKeepsOldest(d, s, n) == SubSeq(d \o s, 1, MinOf(Len(d \o s), n))

\* deque(maxlen=n).extend(s): entries fall off the old end.
ExtendDeque(d, s, n) == LastN(d \o s, n)

Anything == BOOLEAN
Correlated == {TRUE}
Uncorrelated == {FALSE}

RingInit == buffer = <<>> /\ correlatedBuffer = <<>>

\* store_profiles up to the release of _lock.
StoreMain(entries) ==
    /\ buffer' = ExtendDeque(buffer, entries, BufferSize)
    /\ UNCHANGED correlatedBuffer

\* Mutant: every entry goes to the correlated deque.
StoreCorrelatedAll(entries) ==
    /\ correlatedBuffer' = ExtendDeque(correlatedBuffer, entries, CorrelatedSize)
    /\ UNCHANGED buffer

\* The rest of it: the second lock is taken only if some entry is correlated,
\* and extending by nothing changes nothing.
StoreCorrelated(entries) ==
    /\ correlatedBuffer' =
          ExtendDeque(correlatedBuffer, OfKinds(entries, Correlated), CorrelatedSize)
    /\ UNCHANGED buffer

-----------------------------------------------------------------------------
(* The queries. *)

\* The positions the walk from the newest entry visits before it meets one that
\* is older than the cutoff.
Scanned(s, cutoff) ==
    {i \in DOMAIN s : \A j \in i..Len(s) : s[j].ts >= cutoff}

\* The newest of s, newest first.  The bound is tested after an entry has been
\* appended, so a limit of 0 or less returns one.
Newest(s, limit) ==
    [k \in 1..MinOf(Len(s), MaxOf(limit, 1)) |-> s[Len(s) - k + 1]]

\* What the walk visits, oldest first.
InWindow(s, cutoff) == SubSeq(s, Len(s) - Cardinality(Scanned(s, cutoff)) + 1, Len(s))

\* Mutant: the limit is applied to the entries visited, not to those that match.
QueryLimitsVisited(s, cutoff, limit, kinds) ==
    OfKinds(Newest(InWindow(s, cutoff), limit), kinds)

\* query(): that an entry is of one of the kinds, correlated or not, stands for the
\* filters that are set.
Query(s, cutoff, limit, kinds) ==
    Newest(OfKinds(InWindow(s, cutoff), kinds), limit)

\* The readers of the daemon, the exporter and the API server.
QueryRecent(now, since, limit) == Query(buffer, now - since, limit, Anything)
GetCorrelated(now, since, limit) == Query(correlatedBuffer, now - since, limit, Anything)
GetUncorrelatedRecent(now, since, limit) == Query(buffer, now - since, limit, Uncorrelated)
=============================================================================
