-------------------------- MODULE RingBuffer_proofs --------------------------
(***************************************************************************)
(* Lemmas about the operators of RingBuffer, for all sequences: what the   *)
(* end of a bounded deque and a filter by positions contain, and that a    *)
(* query which stops at the first old entry finds what a search of the     *)
(* whole history would find.                                               *)
(***************************************************************************)
EXTENDS RingBuffer, SequenceTheorems, FiniteSetTheorems, TLAPS

-----------------------------------------------------------------------------
(* What extending a bounded deque keeps. *)

\* The two parts of a concatenation.
LEMMA FrontOfConcat ==
    ASSUME NEW S, NEW s \in Seq(S), NEW t \in Seq(S)
    PROVE  SubSeq(s \o t, 1, Len(s)) = s
<1>1. Len(s) \in Nat
  BY LenProperties
<1>2. CASE Len(s) = 0
  <2>1. s = <<>> /\ SubSeq(s \o t, 1, 0) = <<>>
    BY <1>2, EmptySeq, SubSeqEmpty
  <2>. QED
    BY <1>2, <2>1
<1>3. CASE Len(s) # 0
  <2>1. 1 \in 1..Len(s) /\ Len(s) \in 1..Len(s)
    BY <1>1, <1>3
  <2>. QED
    BY <2>1, SubSeqOfConcat1, SubSeqFull
<1>. QED
  BY <1>2, <1>3

LEMMA BackOfConcat ==
    ASSUME NEW S, NEW s \in Seq(S), NEW t \in Seq(S)
    PROVE  SubSeq(s \o t, Len(s) + 1, Len(s \o t)) = t
<1>. DEFINE m == Len(s)
            n == Len(t)
<1>1. m \in Nat /\ n \in Nat /\ Len(s \o t) = m + n
  BY LenProperties, ConcatProperties
<1>2. CASE n = 0
  <2>1. t = <<>>
    BY <1>2, EmptySeq
  <2>2. SubSeq(s \o t, m + 1, m + n) = <<>>
    <3>1. m + 1 \in Int /\ m + n \in Int /\ m + n < m + 1
      BY <1>1, <1>2
    <3>. HIDE DEF m, n
    <3>. QED
      BY <3>1, SubSeqEmpty
  <2>. QED
    BY <1>1, <2>1, <2>2
<1>3. CASE n # 0
  <2>1. /\ m + 1 \in (m + 1)..(m + n) /\ m + n \in (m + 1)..(m + n)
        /\ (m + 1) - m = 1 /\ (m + n) - m = n
    BY <1>1, <1>3
  <2>2. SubSeq(s \o t, m + 1, m + n) = SubSeq(t, (m + 1) - m, (m + n) - m)
    BY <2>1, SubSeqOfConcat2
  <2>. QED
    BY <1>1, <2>1, <2>2, SubSeqFull
<1>. QED
  BY <1>2, <1>3

\* LastN yields a sequence of the same elements, of length min(Len(s), n).
LEMMA LastNProperties ==
    ASSUME NEW S, NEW s \in Seq(S), NEW n \in Nat
    PROVE  /\ LastN(s, n) \in Seq(S)
           /\ Len(LastN(s, n)) = MinOf(Len(s), n)
           /\ \A i \in 1 .. MinOf(Len(s), n) :
                 LastN(s, n)[i] = s[Len(s) - MinOf(Len(s), n) + i]
<1>. DEFINE m == MaxOf(Len(s) - n, 0) + 1
<1>1. Len(s) \in Nat /\ m \in 1 .. (Len(s) + 1)
  BY LenProperties DEF MaxOf
<1>2. \A i \in m .. Len(s) : s[i] \in S
  BY <1>1, ElementOfSeq
<1>3. Len(s) - m + 1 = MinOf(Len(s), n)
  <2>1. CASE Len(s) <= n
    <3>1. MinOf(Len(s), n) = Len(s) /\ MaxOf(Len(s) - n, 0) = 0
      BY <1>1, <2>1 DEF MinOf, MaxOf
    <3>. QED
      BY <1>1, <3>1
  <2>2. CASE Len(s) > n
    <3>1. MinOf(Len(s), n) = n /\ MaxOf(Len(s) - n, 0) = Len(s) - n
      BY <1>1, <2>2 DEF MinOf, MaxOf
    <3>. QED
      BY <1>1, <3>1
  <2>. QED
    BY <1>1, <2>1, <2>2
<1>4. LastN(s, n) = SubSeq(s, m, Len(s))
  BY DEF LastN
<1>. HIDE DEF m
<1>5. /\ SubSeq(s, m, Len(s)) \in Seq(S)
      /\ Len(SubSeq(s, m, Len(s))) = IF m <= Len(s) THEN Len(s) - m + 1 ELSE 0
      /\ \A i \in 1 .. Len(s) - m + 1 : SubSeq(s, m, Len(s))[i] = s[m + i - 1]
  BY <1>1, <1>2, SubSeqProperties
<1>. QED
  BY <1>1, <1>3, <1>4, <1>5

LEMMA EmptyLastN == ASSUME NEW n \in Nat PROVE LastN(<<>>, n) = <<>>
<1>1. <<>> \in Seq({}) /\ Len(<<>>) = 0
  BY EmptySeq
<1>. QED
  BY <1>1, SubSeqEmpty DEF LastN, MaxOf

\* What a full deque has already dropped makes no difference to what it keeps:
\* extending the last n of s by t leaves the last n of s \o t.
LEMMA LastNExtend ==
    ASSUME NEW S, NEW s \in Seq(S), NEW t \in Seq(S), NEW n \in Nat
    PROVE  LastN(LastN(s, n) \o t, n) = LastN(s \o t, n)
<1>. DEFINE a == LastN(s, n)
            u == a \o t
            v == s \o t
<1>1. /\ a \in Seq(S) /\ Len(a) = MinOf(Len(s), n)
      /\ \A i \in 1 .. Len(a) : a[i] = s[Len(s) - Len(a) + i]
  <2>1. /\ a \in Seq(S)
        /\ Len(a) = MinOf(Len(s), n)
        /\ \A i \in 1 .. MinOf(Len(s), n) : a[i] = s[Len(s) - MinOf(Len(s), n) + i]
    BY LastNProperties
  <2>. HIDE DEF a
  <2>. QED
    BY <2>1
<1>2. Len(s) \in Nat /\ Len(t) \in Nat /\ Len(a) \in Nat
  BY <1>1, LenProperties
<1>. HIDE DEF a
<1>3. /\ u \in Seq(S) /\ Len(u) = Len(a) + Len(t)
      /\ \A i \in 1 .. Len(a) + Len(t) : u[i] = IF i <= Len(a) THEN a[i] ELSE t[i - Len(a)]
  BY <1>1, ConcatProperties
<1>4. /\ v \in Seq(S) /\ Len(v) = Len(s) + Len(t)
      /\ \A i \in 1 .. Len(s) + Len(t) : v[i] = IF i <= Len(s) THEN s[i] ELSE t[i - Len(s)]
  BY ConcatProperties
<1>. HIDE DEF u, v
<1>. DEFINE p == MinOf(Len(u), n)
            q == MinOf(Len(v), n)
<1>5. /\ LastN(u, n) \in Seq(S) /\ Len(LastN(u, n)) = p
      /\ \A i \in 1 .. p : LastN(u, n)[i] = u[Len(u) - p + i]
  BY <1>3, LastNProperties
<1>6. /\ LastN(v, n) \in Seq(S) /\ Len(LastN(v, n)) = q
      /\ \A i \in 1 .. q : LastN(v, n)[i] = v[Len(v) - q + i]
  BY <1>4, LastNProperties
<1>7. p = q /\ p \in Nat
  BY <1>1, <1>2, <1>3, <1>4 DEF MinOf
<1>8. \A i \in 1 .. p : u[Len(u) - p + i] = v[Len(v) - p + i]
  <2>. SUFFICES ASSUME NEW i \in 1 .. p
                PROVE  u[Len(u) - p + i] = v[Len(v) - p + i]
    OBVIOUS
  <2>. DEFINE j == Len(u) - p + i
              k == Len(v) - p + i
  <2>1. /\ p <= Len(u) /\ p <= Len(v)
        /\ j \in 1 .. Len(u) /\ k \in 1 .. Len(v)
        /\ k - Len(s) = j - Len(a)
    BY <1>2, <1>3, <1>4, <1>7, SMTT(30) DEF MinOf
  <2>. HIDE DEF p, q
  <2>2. CASE j <= Len(a)
    <3>1. k <= Len(s) /\ k = Len(s) - Len(a) + j
      BY <1>2, <1>7, <2>1, <2>2
    <3>2. u[j] = a[j] /\ v[k] = s[k]
      BY <1>2, <1>3, <1>4, <2>1, <2>2, <3>1
    <3>3. a[j] = s[k]
      BY <1>1, <1>2, <2>1, <2>2, <3>1
    <3>. QED
      BY <3>2, <3>3
  <2>3. CASE j > Len(a)
    <3>1. k > Len(s)
      BY <1>2, <1>7, <2>1, <2>3
    <3>2. u[j] = t[j - Len(a)] /\ v[k] = t[k - Len(s)]
      BY <1>2, <1>3, <1>4, <2>1, <2>3, <3>1
    <3>. QED
      BY <2>1, <3>2
  <2>4. Len(a) \in Nat /\ j \in Int
    BY <1>2, <2>1
  <2>. QED
    BY <2>2, <2>3, <2>4
<1>9. \A i \in 1 .. p : LastN(u, n)[i] = LastN(v, n)[i]
  BY <1>5, <1>6, <1>7, <1>8
<1>10. Len(LastN(u, n)) = Len(LastN(v, n)) /\ Len(LastN(u, n)) = p
  BY <1>5, <1>6, <1>7
<1>11. LastN(u, n) = LastN(v, n)
  <2>. HIDE DEF p, q
  <2>. QED
    BY <1>5, <1>6, <1>9, <1>10, SeqEqual
<1>. QED
  BY <1>11 DEF u, v, a

-----------------------------------------------------------------------------
(* The positions of a filter. *)

\* Among finitely many positions each has a rank, and a later one has a higher rank.
LEMMA RankProperties ==
    ASSUME NEW n \in Nat, NEW P \in SUBSET (1..n)
    PROVE  /\ IsFiniteSet(P) /\ Cardinality(P) \in Nat
           /\ \A i \in Int : Rank(P, i) \in 0..Cardinality(P)
           /\ \A i \in P : Rank(P, i) \in 1..Cardinality(P)
           /\ \A i, j \in P : i < j => Rank(P, i) < Rank(P, j)
<1>. DEFINE Below(i) == {j \in P : j <= i}
<1>1. IsFiniteSet(P) /\ Cardinality(P) \in Nat
  <2>1. IsFiniteSet(1..n)
    BY FS_Interval
  <2>. QED
    BY <2>1, FS_Subset, FS_CardinalityType
<1>2. \A i \in Int : /\ IsFiniteSet(Below(i)) /\ Cardinality(Below(i)) \in Nat
                     /\ Cardinality(Below(i)) <= Cardinality(P)
  <2>1. ASSUME NEW i \in Int PROVE Below(i) \in SUBSET P
    OBVIOUS
  <2>. HIDE DEF Below
  <2>. QED
    BY <1>1, <2>1, FS_Subset, FS_CardinalityType
<1>3. \A i \in P : i \in Below(i) /\ i \in Int
  OBVIOUS
<1>4. \A i \in P : Cardinality(Below(i)) # 0
  <2>. HIDE DEF Below
  <2>. QED
    BY <1>2, <1>3, FS_EmptySet
<1>5. ASSUME NEW i \in P, NEW j \in P, i < j
      PROVE  Cardinality(Below(i)) < Cardinality(Below(j))
  <2>1. Below(i) \in SUBSET Below(j) /\ j \in Below(j) /\ j \notin Below(i)
    <3>1. i \in Int /\ j \in Int /\ \A k \in P : k \in Int
      OBVIOUS
    <3>2. Below(i) \in SUBSET Below(j)
      <4>1. ASSUME NEW k \in P, k <= i PROVE k <= j
        BY <1>5, <3>1, <4>1
      <4>. QED
        BY <4>1
    <3>3. j \in Below(j)
      BY <3>1
    <3>4. ~ (j <= i)
      BY <1>5, <3>1
    <3>. QED
      BY <3>2, <3>3, <3>4
  <2>. HIDE DEF Below
  <2>2. /\ Cardinality(Below(i)) <= Cardinality(Below(j))
        /\ Cardinality(Below(j)) = Cardinality(Below(i)) => Below(j) = Below(i)
    BY <1>2, <1>3, <2>1, FS_Subset
  <2>. QED
    BY <1>2, <1>3, <2>1, <2>2
<1>6. \A i : Rank(P, i) = Cardinality(Below(i))
  BY DEF Rank
<1>. HIDE DEF Below
<1>. QED
  BY <1>1, <1>2, <1>3, <1>4, <1>5, <1>6

\* There is one position of each rank, and they are in order.
LEMMA NthProperties ==
    ASSUME NEW n \in Nat, NEW P \in SUBSET (1..n)
    PROVE  /\ \A k \in 1..Cardinality(P) : Nth(P, k) \in P /\ Rank(P, Nth(P, k)) = k
           /\ \A i \in P : Nth(P, Rank(P, i)) = i
           /\ \A k, l \in 1..Cardinality(P) : k < l => Nth(P, k) < Nth(P, l)
<1>. DEFINE c == Cardinality(P)
            rank == [i \in P |-> Rank(P, i)]
<1>1. /\ IsFiniteSet(P) /\ c \in Nat
      /\ \A i \in P : Rank(P, i) \in 1..c
      /\ \A i, j \in P : i < j => Rank(P, i) < Rank(P, j)
  BY RankProperties
<1>2. \A i, j \in P : Rank(P, i) = Rank(P, j) => i = j
  <2>1. ASSUME NEW i \in P, NEW j \in P, Rank(P, i) = Rank(P, j) PROVE i = j
    <3>1. i \in Int /\ j \in Int /\ Rank(P, i) \in Int
      BY <1>1
    <3>2. ~ (i < j) /\ ~ (j < i)
      BY <1>1, <2>1, <3>1
    <3>. QED
      BY <3>1, <3>2
  <2>. QED
    BY <2>1
<1>3. rank \in Injection(P, 1..c)
  BY <1>1, <1>2 DEF Injection, IsInjective
<1>4. IsFiniteSet(1..c) /\ Cardinality(1..c) = c
  BY <1>1, FS_Interval
<1>. HIDE DEF rank
<1>5. rank \in Surjection(P, 1..c)
  BY <1>3, <1>4, FS_Injection
<1>6. \A k \in 1..c : \E i \in P : Rank(P, i) = k
  BY <1>5 DEF Surjection, rank
<1>7. \A k \in 1..c : Nth(P, k) \in P /\ Rank(P, Nth(P, k)) = k
  BY <1>6 DEF Nth
<1>8. \A i \in P : Nth(P, Rank(P, i)) = i
  BY <1>1, <1>2, <1>7
<1>. HIDE DEF c
<1>9. ASSUME NEW k \in 1..c, NEW l \in 1..c, k < l
      PROVE  Nth(P, k) < Nth(P, l)
  <2>0. \A i \in P : i \in Int
    OBVIOUS
  <2>1. Nth(P, k) \in Int /\ Nth(P, l) \in Int
    BY <1>7, <2>0
  <2>2. /\ Nth(P, k) \in P /\ Rank(P, Nth(P, k)) = k
        /\ Nth(P, l) \in P /\ Rank(P, Nth(P, l)) = l
    BY <1>7
  <2>3. k \in Int /\ l \in Int
    BY <1>1
  <2>4. CASE Nth(P, l) < Nth(P, k)
    <3>1. l < k
      BY <1>1, <2>2, <2>4
    <3>. QED
      BY <1>9, <2>3, <3>1
  <2>5. CASE Nth(P, l) = Nth(P, k)
    BY <1>9, <2>2, <2>3, <2>5
  <2>. QED
    BY <2>1, <2>4, <2>5
<1>. QED
  BY <1>7, <1>8, <1>9 DEF c

\* Positions above which there is no gap are an interval that ends at the last one.
LEMMA UpwardClosed ==
    ASSUME NEW n \in Nat, NEW P \in SUBSET (1..n),
           \A i \in P : \A j \in i..n : j \in P
    PROVE  Cardinality(P) \in 0..n /\ P = (n - Cardinality(P) + 1)..n
<1>1. CASE P = {}
  BY <1>1, FS_EmptySet
<1>2. CASE P # {}
  <2>1. IsFiniteSet(P) /\ Cardinality(P) \in Nat /\ Cardinality(P) # 0
    BY <1>2, RankProperties, FS_EmptySet
  <2>. DEFINE a == Nth(P, 1)
  <2>2. a \in P
    BY <2>1, NthProperties
  <2>3. \A i \in P : a <= i
    <3>1. ASSUME NEW i \in P, i < a PROVE FALSE
      <4>1. 1 \in 1..Cardinality(P)
        BY <2>1
      <4>2. Rank(P, a) = 1
        BY <4>1, NthProperties
      <4>. HIDE DEF a
      <4>3. Rank(P, i) < Rank(P, a) /\ Rank(P, i) \in 1..Cardinality(P)
        BY <2>2, <3>1, RankProperties
      <4>. QED
        BY <2>1, <4>2, <4>3
    <3>2. \A i \in P : i \in Int
      OBVIOUS
    <3>. HIDE DEF a
    <3>. QED
      BY <2>2, <3>1, <3>2
  <2>. HIDE DEF a
  <2>4. a \in 1..n /\ P = a..n
    <3>1. \A i \in P : i \in 1..n /\ i \in a..n
      BY <2>2, <2>3
    <3>2. \A i \in a..n : i \in P
      BY <2>2
    <3>. QED
      BY <2>2, <3>1, <3>2
  <2>5. Cardinality(P) = n - a + 1
    BY <2>4, FS_Interval
  <2>. QED
    BY <2>4, <2>5
<1>. QED
  BY <1>1, <1>2

\* Moving a set of numbers does not change how many they are.
LEMMA ShiftedCardinality ==
    ASSUME NEW m \in Int, NEW Q \in SUBSET Int, IsFiniteSet(Q)
    PROVE  /\ IsFiniteSet({m + j : j \in Q})
           /\ Cardinality({m + j : j \in Q}) = Cardinality(Q)
<1>. DEFINE R == {m + j : j \in Q}
            f == [j \in Q |-> m + j]
<1>1. f \in Bijection(Q, R)
  <2>1. f \in [Q -> R] /\ (\A i, j \in Q : f[i] = f[j] => i = j) /\ \A r \in R : \E j \in Q : f[j] = r
    OBVIOUS
  <2>. QED
    BY <2>1 DEF Bijection, Injection, Surjection, IsInjective
<1>. QED
  BY <1>1, FS_Bijection DEF ExistsBijection

\* The positions in a concatenation, those of the second part shifted by m.
Joined(P, m, Q) == P \cup {m + j : j \in Q}

\* Their ranks.
LEMMA JoinedRanks ==
    ASSUME NEW m \in Nat, NEW n \in Nat, NEW P \in SUBSET (1..m), NEW Q \in SUBSET (1..n)
    PROVE  /\ Joined(P, m, Q) \in SUBSET (1..(m + n))
           /\ Cardinality(Joined(P, m, Q)) = Cardinality(P) + Cardinality(Q)
           /\ \A i \in 1..m : Rank(Joined(P, m, Q), i) = Rank(P, i)
           /\ \A j \in 1..n : Rank(Joined(P, m, Q), m + j) = Cardinality(P) + Rank(Q, j)
<1>. DEFINE R == Joined(P, m, Q)
<1>1. R \in SUBSET (1..(m + n))
  <2>1. \A i \in P : i \in 1..(m + n)
    OBVIOUS
  <2>2. \A j \in Q : m + j \in 1..(m + n)
    OBVIOUS
  <2>. QED
    BY <2>1, <2>2 DEF Joined
<1>2. ASSUME NEW A \in SUBSET (1..n), NEW T, T = P \cup {m + j : j \in A}
      PROVE  Cardinality(T) = Cardinality(P) + Cardinality(A)
  <2>1. IsFiniteSet(P) /\ IsFiniteSet(A) /\ A \in SUBSET Int /\ m \in Int
    BY RankProperties
  <2>. DEFINE B == {m + j : j \in A}
  <2>2. IsFiniteSet(B) /\ Cardinality(B) = Cardinality(A)
    BY <2>1, ShiftedCardinality
  <2>5. P \cap B = {}
    <3>1. ASSUME NEW j \in A, m + j \in P PROVE FALSE
      <4>1. j \in 1..n /\ m + j \in 1..m
        BY <3>1
      <4>. QED
        BY <4>1
    <3>. QED
      BY <3>1
  <2>. HIDE DEF B
  <2>3. Cardinality(P \cup B) = Cardinality(P) + Cardinality(B) - Cardinality(P \cap B)
    BY <2>1, <2>2, FS_Union
  <2>4. Cardinality(P \cap B) = 0 /\ Cardinality(P) \in Nat /\ Cardinality(B) \in Nat
    BY <2>1, <2>2, <2>5, FS_EmptySet, FS_CardinalityType
  <2>. QED
    BY <1>2, <2>2, <2>3, <2>4 DEF B
<1>3. Cardinality(R) = Cardinality(P) + Cardinality(Q)
  BY <1>2 DEF Joined
<1>4. ASSUME NEW i \in 1..m
      PROVE  Rank(R, i) = Rank(P, i)
  <2>1. {j \in R : j <= i} = {j \in P : j <= i}
    BY DEF Joined
  <2>. QED
    BY <2>1 DEF Rank
<1>5. ASSUME NEW j \in 1..n
      PROVE  Rank(R, m + j) = Cardinality(P) + Rank(Q, j)
  <2>1. \A k \in P : k <= m + j
    <3>1. \A k \in P : k \in 1..m
      OBVIOUS
    <3>. QED
      BY <3>1
  <2>2. \A k \in Q : m + k <= m + j <=> k <= j
    <3>1. \A k \in Q : k \in 1..n
      OBVIOUS
    <3>. QED
      BY <3>1
  <2>3. {k \in R : k <= m + j} = P \cup {m + k : k \in {l \in Q : l <= j}}
    BY <2>1, <2>2 DEF Joined
  <2>. QED
    BY <1>2, <2>3 DEF Rank
<1>. QED
  BY <1>1, <1>3, <1>4, <1>5

-----------------------------------------------------------------------------
(* What a filter selects. *)

\* Filtering yields a sequence of the elements at those positions, in their order.
LEMMA AtProperties ==
    ASSUME NEW S, NEW s \in Seq(S), NEW P \in SUBSET (1..Len(s))
    PROVE  /\ At(s, P) \in Seq(S)
           /\ Len(At(s, P)) = Cardinality(P) /\ Cardinality(P) \in Nat
           /\ \A k \in 1..Cardinality(P) : /\ Nth(P, k) \in P /\ Nth(P, k) \in 1..Len(s)
                                           /\ At(s, P)[k] = s[Nth(P, k)]
           /\ \A k, l \in 1..Cardinality(P) : k < l => Nth(P, k) < Nth(P, l)
           /\ \A i \in P : \E k \in 1..Cardinality(P) : Nth(P, k) = i
<1>. DEFINE c == Cardinality(P)
<1>1. Len(s) \in Nat
  BY LenProperties
<1>2. /\ c \in Nat
      /\ \A k \in 1..c : Nth(P, k) \in P
      /\ \A k, l \in 1..c : k < l => Nth(P, k) < Nth(P, l)
      /\ \A i \in P : Rank(P, i) \in 1..c /\ Nth(P, Rank(P, i)) = i
  BY <1>1, RankProperties, NthProperties
<1>. HIDE DEF c
<1>3. \A k \in 1..c : Nth(P, k) \in 1..Len(s)
  BY <1>2
<1>4. \A k \in 1..c : s[Nth(P, k)] \in S
  BY <1>3, ElementOfSeq
<1>5. At(s, P) = [k \in 1..c |-> s[Nth(P, k)]]
  BY DEF At, c
<1>6. At(s, P) \in Seq(S) /\ Len(At(s, P)) = c
  BY <1>2, <1>4, <1>5
<1>7. \A k \in 1..c : At(s, P)[k] = s[Nth(P, k)]
  BY <1>5
<1>8. \A i \in P : \E k \in 1..c : Nth(P, k) = i
  BY <1>2
<1>. QED
  BY <1>2, <1>3, <1>6, <1>7, <1>8 DEF c

\* A filter that every element passes changes nothing.
LEMMA AtAll ==
    ASSUME NEW S, NEW s \in Seq(S)
    PROVE  At(s, 1..Len(s)) = s
<1>. DEFINE n == Len(s)
            P == 1..n
<1>1. n \in Nat /\ Cardinality(P) = n
  BY LenProperties, FS_Interval
<1>2. ASSUME NEW i \in 1..n PROVE Nth(P, i) = i
  <2>1. {j \in P : j <= i} = 1..i
    BY <1>1
  <2>2. Rank(P, i) = i
    <3>1. Cardinality(1..i) = i
      BY FS_Interval
    <3>. QED
      BY <2>1, <3>1 DEF Rank
  <2>3. Nth(P, Rank(P, i)) = i
    BY <1>1, NthProperties
  <2>. QED
    BY <2>2, <2>3
<1>3. /\ At(s, P) \in Seq(S) /\ Len(At(s, P)) = n
      /\ \A k \in 1..n : At(s, P)[k] = s[Nth(P, k)]
  BY <1>1, AtProperties
<1>. HIDE DEF n, P
<1>4. \A k \in 1..n : At(s, P)[k] = s[k]
  BY <1>2, <1>3
<1>5. At(s, P) = s
  BY <1>3, <1>4, SeqEqual DEF n
<1>. QED
  BY <1>5 DEF n, P

\* Filtering a concatenation is filtering its parts.
LEMMA AtConcat ==
    ASSUME NEW S, NEW s \in Seq(S), NEW t \in Seq(S),
           NEW P \in SUBSET (1..Len(s)), NEW Q \in SUBSET (1..Len(t)),
           NEW R, R = Joined(P, Len(s), Q)
    PROVE  At(s \o t, R) = At(s, P) \o At(t, Q)
<1>. DEFINE m == Len(s)
            n == Len(t)
            p == Cardinality(P)
            q == Cardinality(Q)
            u == At(s \o t, R)
            v == At(s, P) \o At(t, Q)
<1>1. m \in Nat /\ n \in Nat
  BY LenProperties
<1>2. /\ R \in SUBSET (1..(m + n)) /\ Cardinality(R) = p + q
      /\ \A i \in 1..m : Rank(R, i) = Rank(P, i)
      /\ \A j \in 1..n : Rank(R, m + j) = p + Rank(Q, j)
  <2>. DEFINE J == Joined(P, m, Q)
  <2>1. P \in SUBSET (1..m) /\ Q \in SUBSET (1..n) /\ R = J
    OBVIOUS
  <2>. HIDE DEF m, n
  <2>2. J \in SUBSET (1..(m + n)) /\ Cardinality(J) = Cardinality(P) + Cardinality(Q)
    BY <1>1, <2>1, JoinedRanks
  <2>3. /\ \A i \in 1..m : Rank(J, i) = Rank(P, i)
        /\ \A j \in 1..n : Rank(J, m + j) = Cardinality(P) + Rank(Q, j)
    BY <1>1, <2>1, JoinedRanks
  <2>. HIDE DEF J
  <2>. QED
    BY <2>1, <2>2, <2>3
<1>3. /\ s \o t \in Seq(S) /\ Len(s \o t) = m + n
      /\ \A i \in 1..(m + n) : (s \o t)[i] = IF i <= m THEN s[i] ELSE t[i - m]
  BY ConcatProperties
<1>4. /\ At(s, P) \in Seq(S) /\ Len(At(s, P)) = p /\ p \in Nat
      /\ \A k \in 1..p : Nth(P, k) \in P /\ Nth(P, k) \in 1..m /\ At(s, P)[k] = s[Nth(P, k)]
  BY AtProperties
<1>5. /\ At(t, Q) \in Seq(S) /\ Len(At(t, Q)) = q /\ q \in Nat
      /\ \A k \in 1..q : Nth(Q, k) \in Q /\ Nth(Q, k) \in 1..n /\ At(t, Q)[k] = t[Nth(Q, k)]
  BY AtProperties
<1>6. /\ u \in Seq(S) /\ Len(u) = p + q
      /\ \A k \in 1..(p + q) : u[k] = (s \o t)[Nth(R, k)]
  <2>. DEFINE w == s \o t
  <2>1. w \in Seq(S) /\ R \in SUBSET (1..Len(w)) /\ Cardinality(R) = p + q
    BY <1>2, <1>3
  <2>. HIDE DEF w, p, q
  <2>2. /\ At(w, R) \in Seq(S) /\ Len(At(w, R)) = p + q
        /\ \A k \in 1..(p + q) : At(w, R)[k] = w[Nth(R, k)]
    BY <2>1, AtProperties
  <2>. QED
    BY <2>2 DEF w
<1>7. /\ v \in Seq(S) /\ Len(v) = p + q
      /\ \A k \in 1..(p + q) : v[k] = IF k <= p THEN At(s, P)[k] ELSE At(t, Q)[k - p]
  <2>. DEFINE a == At(s, P)
              b == At(t, Q)
  <2>1. a \in Seq(S) /\ b \in Seq(S) /\ Len(a) = p /\ Len(b) = q
    BY <1>4, <1>5
  <2>. HIDE DEF a, b, p, q
  <2>2. /\ a \o b \in Seq(S) /\ Len(a \o b) = p + q
        /\ \A k \in 1..(p + q) : (a \o b)[k] = IF k <= p THEN a[k] ELSE b[k - p]
    BY <2>1, ConcatProperties
  <2>. QED
    BY <2>2 DEF a, b
<1>8. \A i \in R : Nth(R, Rank(R, i)) = i
  <2>1. m + n \in Nat /\ R \in SUBSET (1..(m + n))
    BY <1>1, <1>2
  <2>. HIDE DEF m, n
  <2>. QED
    BY <2>1, NthProperties
<1>9. /\ \A k \in 1..p : Rank(P, Nth(P, k)) = k
      /\ \A k \in 1..q : Rank(Q, Nth(Q, k)) = k
  BY <1>1, NthProperties
<1>10. (\A i \in P : i \in R) /\ (\A j \in Q : m + j \in R)
  BY DEF Joined
<1>. HIDE DEF m, n, p, q, u, v
<1>11. ASSUME NEW k \in 1..p PROVE u[k] = v[k]
  <2>1. Nth(P, k) \in R /\ Nth(P, k) \in 1..m /\ Rank(R, Nth(P, k)) = k
    BY <1>2, <1>4, <1>9, <1>10
  <2>2. Nth(R, k) = Nth(P, k)
    BY <1>8, <2>1
  <2>3. (s \o t)[Nth(R, k)] = s[Nth(P, k)]
    BY <1>1, <1>3, <2>1, <2>2
  <2>4. u[k] = s[Nth(P, k)]
    <3>1. k \in 1..(p + q)
      BY <1>4, <1>5
    <3>. QED
      BY <1>6, <2>3, <3>1
  <2>5. v[k] = At(s, P)[k]
    BY <1>4, <1>5, <1>7
  <2>. QED
    BY <1>4, <2>4, <2>5
<1>12. ASSUME NEW k \in 1..q PROVE u[p + k] = v[p + k]
  <2>1. m + Nth(Q, k) \in R /\ Nth(Q, k) \in 1..n /\ Rank(R, m + Nth(Q, k)) = p + k
    BY <1>2, <1>5, <1>9, <1>10
  <2>2. Nth(R, p + k) = m + Nth(Q, k)
    BY <1>8, <2>1
  <2>3. (s \o t)[Nth(R, p + k)] = t[Nth(Q, k)]
    <3>1. m + Nth(Q, k) \in 1..(m + n) /\ ~ (m + Nth(Q, k) <= m) /\ (m + Nth(Q, k)) - m = Nth(Q, k)
      BY <1>1, <2>1
    <3>. QED
      BY <1>3, <2>2, <3>1
  <2>4. p + k \in 1..(p + q) /\ ~ (p + k <= p) /\ (p + k) - p = k
    BY <1>4, <1>5
  <2>5. u[p + k] = t[Nth(Q, k)]
    BY <1>6, <2>3, <2>4
  <2>6. v[p + k] = At(t, Q)[k]
    BY <1>7, <2>4
  <2>. QED
    BY <1>5, <2>5, <2>6
<1>13. ASSUME NEW k \in 1..(p + q) PROVE u[k] = v[k]
  <2>1. CASE k <= p
    <3>1. k \in 1..p
      BY <1>4, <1>5, <2>1
    <3>. QED
      BY <1>11, <3>1
  <2>2. CASE ~ (k <= p)
    <3>1. k - p \in 1..q /\ p + (k - p) = k
      BY <1>4, <1>5, <2>2
    <3>. QED
      BY <1>12, <3>1
  <2>. QED
    BY <2>1, <2>2
<1>14. u = v
  BY <1>6, <1>7, <1>13, SeqEqual
<1>. QED
  BY <1>14 DEF u, v

\* The positions of the elements that are in T.
Where(s, T) == {i \in 1..Len(s) : s[i] \in T}

LEMMA WhereConcat ==
    ASSUME NEW S, NEW s \in Seq(S), NEW t \in Seq(S), NEW T
    PROVE  At(s \o t, Where(s \o t, T)) = At(s, Where(s, T)) \o At(t, Where(t, T))
<1>. DEFINE m == Len(s)
            n == Len(t)
            w == s \o t
<1>1. m \in Nat /\ n \in Nat
  BY LenProperties
<1>2. /\ Len(w) = m + n
      /\ \A i \in 1..(m + n) : w[i] = IF i <= m THEN s[i] ELSE t[i - m]
  BY ConcatProperties
<1>3. Where(s, T) \in SUBSET (1..m) /\ Where(t, T) \in SUBSET (1..n)
  BY DEF Where
<1>. HIDE DEF w, m, n
<1>4. ASSUME NEW i \in 1..(m + n)
      PROVE  w[i] \in T <=> i \in Joined(Where(s, T), m, Where(t, T))
  <2>1. CASE i <= m
    <3>1. i \in 1..m /\ w[i] = s[i] /\ \A j \in 1..n : i # m + j
      BY <1>1, <1>2, <2>1
    <3>. QED
      BY <3>1 DEF Joined, Where, m, n
  <2>2. CASE ~ (i <= m)
    <3>1. i - m \in 1..n /\ i = m + (i - m) /\ w[i] = t[i - m] /\ i \notin 1..m
      BY <1>1, <1>2, <2>2
    <3>2. \A j \in 1..n : i = m + j => j = i - m
      BY <1>1
    <3>. QED
      BY <3>1, <3>2 DEF Joined, Where, m, n
  <2>. QED
    BY <2>1, <2>2
<1>5. Joined(Where(s, T), m, Where(t, T)) \in SUBSET (1..(m + n))
  BY <1>1, <1>3, JoinedRanks
<1>6. Where(w, T) = Joined(Where(s, T), m, Where(t, T))
  BY <1>2, <1>4, <1>5 DEF Where
<1>7. At(s \o t, Where(w, T)) = At(s, Where(s, T)) \o At(t, Where(t, T))
  <2>. DEFINE P == Where(s, T)
              Q == Where(t, T)
              R == Where(w, T)
  <2>1. P \in SUBSET (1..Len(s)) /\ Q \in SUBSET (1..Len(t)) /\ R = Joined(P, Len(s), Q)
    BY <1>3, <1>6 DEF m, n
  <2>. HIDE DEF P, Q, R
  <2>2. At(s \o t, R) = At(s, P) \o At(t, Q)
    BY <2>1, AtConcat
  <2>. QED
    BY <2>2 DEF P, Q, R
<1>. QED
  BY <1>6, <1>7 DEF w

\* A filter that no element passes leaves nothing.
LEMMA AtNone == ASSUME NEW s PROVE At(s, {}) = <<>>
  BY FS_EmptySet DEF At

LEMMA EmptyOfKinds == ASSUME NEW K PROVE OfKinds(<<>>, K) = <<>>
<1>1. {i \in DOMAIN <<>> : <<>>[i].correlated \in K} = {}
  BY EmptySeq
<1>. QED
  BY <1>1, AtNone DEF OfKinds

\* A query by kind is a filter by membership.
LEMMA OfKindsIsWhere ==
    ASSUME NEW S, NEW s \in Seq(S), NEW K
    PROVE  /\ OfKinds(s, K) = At(s, Where(s, {e \in S : e.correlated \in K}))
           /\ OfKinds(s, K) \in Seq(S)
<1>1. DOMAIN s = 1..Len(s) /\ \A i \in 1..Len(s) : s[i] \in S
  BY LenProperties, ElementOfSeq
<1>2. {i \in DOMAIN s : s[i].correlated \in K} = Where(s, {e \in S : e.correlated \in K})
  BY <1>1 DEF Where
<1>3. Where(s, {e \in S : e.correlated \in K}) \in SUBSET (1..Len(s))
  BY DEF Where
<1>. QED
  BY <1>2, <1>3, AtProperties DEF OfKinds

LEMMA OfKindsConcat ==
    ASSUME NEW S, NEW s \in Seq(S), NEW t \in Seq(S), NEW K
    PROVE  OfKinds(s \o t, K) = OfKinds(s, K) \o OfKinds(t, K)
<1>. DEFINE T == {e \in S : e.correlated \in K}
<1>1. s \o t \in Seq(S)
  BY ConcatProperties
<1>2. /\ OfKinds(s \o t, K) = At(s \o t, Where(s \o t, T))
      /\ OfKinds(s, K) = At(s, Where(s, T))
      /\ OfKinds(t, K) = At(t, Where(t, T))
  BY <1>1, OfKindsIsWhere
<1>. QED
  BY <1>2, WhereConcat, SMTT(30)

LEMMA OfAnyKind ==
    ASSUME NEW S, NEW s \in Seq(S), \A e \in S : e.correlated \in BOOLEAN
    PROVE  OfKinds(s, Anything) = s
<1>1. DOMAIN s = 1..Len(s) /\ \A i \in 1..Len(s) : s[i] \in S
  BY LenProperties, ElementOfSeq
<1>2. {i \in DOMAIN s : s[i].correlated \in Anything} = 1..Len(s)
  BY <1>1 DEF Anything
<1>. QED
  BY <1>2, AtAll DEF OfKinds

-----------------------------------------------------------------------------
(* What a query finds. *)

\* The newest entries, the last one first.
LEMMA NewestProperties ==
    ASSUME NEW S, NEW s \in Seq(S), NEW limit \in Int
    PROVE  /\ Newest(s, limit) \in Seq(S)
           /\ Len(Newest(s, limit)) = MinOf(Len(s), MaxOf(limit, 1))
           /\ \A k \in 1..MinOf(Len(s), MaxOf(limit, 1)) :
                 /\ Len(s) - k + 1 \in 1..Len(s)
                 /\ Newest(s, limit)[k] = s[Len(s) - k + 1]
<1>. DEFINE c == MinOf(Len(s), MaxOf(limit, 1))
<1>1. Len(s) \in Nat /\ c \in Nat /\ c <= Len(s)
  BY LenProperties DEF MinOf, MaxOf
<1>2. Newest(s, limit) = [k \in 1..c |-> s[Len(s) - k + 1]]
  BY DEF Newest
<1>. HIDE DEF c
<1>3. \A k \in 1..c : Len(s) - k + 1 \in 1..Len(s)
  BY <1>1
<1>4. \A k \in 1..c : s[Len(s) - k + 1] \in S
  BY <1>3, ElementOfSeq
<1>5. Newest(s, limit) \in Seq(S) /\ Len(Newest(s, limit)) = c
  BY <1>1, <1>2, <1>4
<1>. QED
  BY <1>2, <1>3, <1>5 DEF c

\* The entries a walk visits are the last ones, down to the first that is too old.
LEMMA InWindowProperties ==
    ASSUME NEW S, NEW s \in Seq(S), NEW cutoff
    PROVE  LET c == Cardinality(Scanned(s, cutoff))
           IN  /\ c \in 0..Len(s) /\ Len(s) \in Nat
               /\ Scanned(s, cutoff) = (Len(s) - c + 1)..Len(s)
               /\ InWindow(s, cutoff) \in Seq(S) /\ Len(InWindow(s, cutoff)) = c
               /\ \A k \in 1..c : InWindow(s, cutoff)[k] = s[Len(s) - c + k]
<1>. DEFINE n == Len(s)
            P == Scanned(s, cutoff)
            c == Cardinality(P)
<1>1. n \in Nat /\ DOMAIN s = 1..n /\ \A i \in 1..n : s[i] \in S
  BY LenProperties, ElementOfSeq
<1>2. P = {i \in 1..n : \A j \in i..n : s[j].ts >= cutoff}
  BY <1>1 DEF Scanned
<1>3. ASSUME NEW i \in P, NEW j \in i..n PROVE j \in P
  <2>1. i \in 1..n /\ \A k \in i..n : s[k].ts >= cutoff
    BY <1>2
  <2>2. j \in 1..n /\ \A k \in j..n : k \in i..n
    BY <1>1, <2>1
  <2>. QED
    BY <1>2, <2>1, <2>2
<1>4. c \in 0..n /\ P = (n - c + 1)..n
  <2>1. P \in SUBSET (1..n)
    BY <1>2
  <2>. HIDE DEF P, n
  <2>. QED
    BY <1>1, <1>3, <2>1, UpwardClosed
<1>5. InWindow(s, cutoff) = SubSeq(s, n - c + 1, n)
  BY DEF InWindow
<1>. DEFINE a == n - c + 1
<1>. HIDE DEF n, P, c
<1>6. a \in Int /\ a >= 1 /\ n \in Int /\ \A i \in a..n : s[i] \in S
  BY <1>1, <1>4
<1>7. /\ InWindow(s, cutoff) \in Seq(S)
      /\ Len(InWindow(s, cutoff)) = IF a <= n THEN n - a + 1 ELSE 0
      /\ \A k \in 1..(n - a + 1) : InWindow(s, cutoff)[k] = s[a + k - 1]
  <2>. HIDE DEF a
  <2>1. /\ SubSeq(s, a, n) \in Seq(S)
        /\ Len(SubSeq(s, a, n)) = IF a <= n THEN n - a + 1 ELSE 0
        /\ \A k \in 1..(n - a + 1) : SubSeq(s, a, n)[k] = s[a + k - 1]
    BY <1>6, SubSeqProperties
  <2>. QED
    BY <1>5, <2>1 DEF a
<1>8. /\ Len(InWindow(s, cutoff)) = c
      /\ \A k \in 1..c : InWindow(s, cutoff)[k] = s[n - c + k]
  <2>1. n - a + 1 = c /\ (a <= n <=> c # 0) /\ \A k \in 1..c : a + k - 1 = n - c + k
    BY <1>1, <1>4
  <2>. HIDE DEF a
  <2>. QED
    BY <1>4, <1>7, <2>1
<1>. QED
  BY <1>1, <1>4, <1>7, <1>8 DEF n, P, c

\* A query yields entries of the deque.
LEMMA QueryType ==
    ASSUME NEW S, NEW s \in Seq(S), NEW cutoff, NEW limit \in Int, NEW K
    PROVE  Query(s, cutoff, limit, K) \in Seq(S)
<1>1. InWindow(s, cutoff) \in Seq(S)
  BY InWindowProperties
<1>2. OfKinds(InWindow(s, cutoff), K) \in Seq(S)
  BY <1>1, OfKindsIsWhere
<1>. QED
  BY <1>2, NewestProperties DEF Query

\* Timestamps that are numbers and never run backwards.
InOrder(s) ==
    /\ \A i \in 1..Len(s) : s[i].ts \in Int
    /\ \A i, j \in 1..Len(s) : i < j => s[i].ts <= s[j].ts

\* Whatever of s is not among its last l is too old.
DroppedIsOld(s, l, cutoff) == \A i \in 1..(Len(s) - l) : s[i].ts < cutoff

\* The positions a search of the whole of s selects.
Selected(s, cutoff, K) == {i \in 1..Len(s) : s[i].ts >= cutoff /\ s[i].correlated \in K}

\* A query is what a search of the whole history finds, if whatever the deque has
\* dropped is too old and the timestamps never run backwards.
LEMMA WindowIsFilter ==
    ASSUME NEW S, NEW s \in Seq(S), InOrder(s),
           NEW n \in Nat, NEW cutoff \in Int, NEW K,
           DroppedIsOld(s, Len(LastN(s, n)), cutoff)
    PROVE  At(s, Selected(s, cutoff, K)) = OfKinds(InWindow(LastN(s, n), cutoff), K)
<1>. DEFINE T == {e \in S : e.ts >= cutoff /\ e.correlated \in K}
            kept == LastN(s, n)
            m == Len(s)
            l == Len(kept)
            w == InWindow(kept, cutoff)
            c == Len(w)
            old == SubSeq(s, 1, m - c)
<1>1. /\ m \in Nat /\ l \in Nat /\ l <= m /\ kept \in Seq(S)
      /\ \A k \in 1..l : kept[k] = s[m - l + k]
  <2>1. /\ kept \in Seq(S) /\ l = MinOf(m, n)
        /\ \A k \in 1..MinOf(m, n) : kept[k] = s[m - MinOf(m, n) + k]
    BY LastNProperties
  <2>2. m \in Nat /\ MinOf(m, n) \in Nat /\ MinOf(m, n) <= m
    BY LenProperties DEF MinOf
  <2>. QED
    BY <2>1, <2>2
<1>2. /\ c \in 0..l /\ w \in Seq(S)
      /\ Scanned(kept, cutoff) = (l - c + 1)..l
      /\ \A k \in 1..c : w[k] = kept[l - c + k]
  <2>. DEFINE d == Cardinality(Scanned(kept, cutoff))
  <2>1. /\ d \in 0..l /\ w \in Seq(S) /\ c = d
        /\ Scanned(kept, cutoff) = (l - d + 1)..l
        /\ \A k \in 1..d : w[k] = kept[l - d + k]
    BY <1>1, InWindowProperties
  <2>. HIDE DEF d, w, l, c
  <2>. QED
    BY <2>1
<1>3. /\ \A i \in 1..m : s[i] \in S /\ s[i].ts \in Int
      /\ \A i, j \in 1..m : i < j => s[i].ts <= s[j].ts
  BY ElementOfSeq DEF InOrder
<1>. HIDE DEF kept, m, l, w, c
<1>4. ASSUME NEW i \in 1..(m - c) PROVE s[i].ts < cutoff
  <2>1. CASE i <= m - l
    <3>1. i \in 1..(Len(s) - Len(LastN(s, n)))
      BY <1>1, <1>2, <2>1 DEF m, l, kept
    <3>. QED
      BY <3>1 DEF DroppedIsOld
  <2>2. CASE i > m - l
    <3>. DEFINE k == i - (m - l)
    <3>1. k \in 1..l /\ k \notin (l - c + 1)..l /\ m - l + k = i /\ i \in 1..m
      BY <1>1, <1>2, <2>2
    <3>. HIDE DEF k
    <3>2. PICK j \in k..l : ~ (kept[j].ts >= cutoff)
      <4>1. DOMAIN kept = 1..l
        BY <1>1, LenProperties DEF l
      <4>. QED
        BY <1>2, <3>1, <4>1 DEF Scanned, l
    <3>3. j \in 1..l /\ m - l + j \in 1..m /\ (k = j \/ i < m - l + j) /\ m - l + j \in Int
      BY <1>1, <3>1
    <3>4. kept[j] = s[m - l + j] /\ s[i].ts <= s[m - l + j].ts
      <4>1. s[i].ts \in Int /\ s[m - l + j].ts \in Int
        BY <1>3, <3>1, <3>3
      <4>2. CASE k = j
        <5>1. m - l + j = i /\ kept[j] = s[m - l + j]
          BY <1>1, <3>1, <3>3, <4>2
        <5>. QED
          BY <4>1, <5>1
      <4>3. CASE i < m - l + j
        BY <1>1, <1>3, <3>1, <3>3, <4>3
      <4>. QED
        BY <3>3, <4>2, <4>3
    <3>. QED
      BY <1>3, <3>1, <3>2, <3>3, <3>4
  <2>. QED
    BY <1>1, <1>2, <2>1, <2>2
<1>5. /\ old \in Seq(S) /\ Len(old) = m - c
      /\ \A i \in 1..(m - c) : old[i] = s[i]
  <2>. DEFINE b == m - c
  <2>1. b \in Nat /\ \A i \in 1..b : s[i] \in S
    BY <1>1, <1>2, <1>3
  <2>. HIDE DEF b
  <2>2. /\ SubSeq(s, 1, b) \in Seq(S)
        /\ Len(SubSeq(s, 1, b)) = IF 1 <= b THEN b - 1 + 1 ELSE 0
        /\ \A i \in 1..(b - 1 + 1) : SubSeq(s, 1, b)[i] = s[1 + i - 1]
    BY <2>1, SubSeqProperties
  <2>3. /\ SubSeq(s, 1, b) \in Seq(S) /\ Len(SubSeq(s, 1, b)) = b
        /\ \A i \in 1..b : SubSeq(s, 1, b)[i] = s[i]
    BY <2>1, <2>2
  <2>. QED
    BY <2>3 DEF b
<1>. HIDE DEF old
<1>6. s = old \o w
  <2>1. /\ old \o w \in Seq(S) /\ Len(old \o w) = (m - c) + c
        /\ \A i \in 1..((m - c) + c) : (old \o w)[i] = IF i <= m - c THEN old[i] ELSE w[i - (m - c)]
    <3>1. Len(old) = m - c /\ Len(w) = c /\ old \in Seq(S) /\ w \in Seq(S)
      BY <1>2, <1>5 DEF c
    <3>2. /\ old \o w \in Seq(S) /\ Len(old \o w) = Len(old) + Len(w)
          /\ \A i \in 1..(Len(old) + Len(w)) :
                (old \o w)[i] = IF i <= Len(old) THEN old[i] ELSE w[i - Len(old)]
      BY <3>1, ConcatProperties
    <3>. QED
      BY <3>1, <3>2
  <2>. DEFINE u == old \o w
  <2>2. u \in Seq(S) /\ Len(u) = m
    BY <1>1, <1>2, <2>1
  <2>3. ASSUME NEW i \in 1..m PROVE u[i] = s[i]
    <3>1. CASE i <= m - c
      BY <1>1, <1>2, <1>5, <2>1, <3>1, SMTT(30)
    <3>2. CASE i > m - c
      <4>1. i - (m - c) \in 1..c /\ l - c + (i - (m - c)) \in 1..l
            /\ m - l + (l - c + (i - (m - c))) = i
        BY <1>1, <1>2, <3>2
      <4>2. u[i] = w[i - (m - c)]
        BY <1>1, <1>2, <2>1, <3>2, SMTT(30)
      <4>. QED
        BY <1>1, <1>2, <4>1, <4>2
    <3>3. m - c \in Int /\ i \in Int
      BY <1>1, <1>2
    <3>. HIDE DEF u
    <3>. QED
      BY <3>1, <3>2, <3>3
  <2>. HIDE DEF u
  <2>4. u = s
    BY <2>2, <2>3, SeqEqual DEF m
  <2>. QED
    BY <2>4 DEF u
<1>7. Where(old, T) = {}
  <2>1. \A i \in 1..(m - c) : old[i] \notin T
    <3>. SUFFICES ASSUME NEW i \in 1..(m - c) PROVE ~ (old[i].ts >= cutoff)
      OBVIOUS
    <3>1. i \in 1..m
      BY <1>1, <1>2
    <3>2. s[i].ts \in Int /\ s[i].ts < cutoff /\ old[i] = s[i]
      BY <1>3, <1>4, <1>5, <3>1
    <3>. QED
      BY <3>2
  <2>. QED
    BY <1>5, <2>1 DEF Where
<1>8. At(w, Where(w, T)) = OfKinds(w, K)
  <2>1. ASSUME NEW k \in 1..c
        PROVE  w[k] \in S /\ w[k].ts >= cutoff
    <3>1. l - c + k \in (l - c + 1)..l /\ l - c + k \in (l - c + k)..l
      BY <1>1, <1>2
    <3>2. kept[l - c + k].ts >= cutoff
      BY <1>2, <3>1 DEF Scanned, l
    <3>. QED
      BY <1>2, <3>2, ElementOfSeq DEF c
  <2>2. Where(w, T) = Where(w, {e \in S : e.correlated \in K})
    BY <2>1 DEF Where, c
  <2>. QED
    BY <1>2, <2>2, OfKindsIsWhere
<1>9. At(s, Where(s, T)) = OfKinds(w, K)
  <2>1. At(old \o w, Where(old \o w, T)) = At(old, Where(old, T)) \o At(w, Where(w, T))
    <3>1. old \in Seq(S) /\ w \in Seq(S)
      BY <1>2, <1>5
    <3>. HIDE DEF T
    <3>. QED
      BY <3>1, WhereConcat, SMTT(30)
  <2>2. At(old, Where(old, T)) = <<>>
    BY <1>7, AtNone
  <2>3. OfKinds(w, K) \in Seq(S)
    BY <1>2, OfKindsIsWhere
  <2>. QED
    BY <1>6, <1>8, <2>1, <2>2, <2>3, ConcatEmptySeq
<1>10. Where(s, T) = Selected(s, cutoff, K)
  BY <1>3 DEF Where, Selected, m
<1>. QED
  BY <1>9, <1>10 DEF w, kept

\* The newest of s are the front of s reversed.
LEMMA NewestIsReverse ==
    ASSUME NEW S, NEW s \in Seq(S), NEW limit \in Nat \ {0}
    PROVE  SubSeq(Reverse(s), 1, MinOf(Len(Reverse(s)), limit)) = Newest(s, limit)
<1>. DEFINE r == Reverse(s)
            n == Len(s)
            c == MinOf(n, limit)
<1>1. n \in Nat /\ c \in Nat /\ c <= n /\ MaxOf(limit, 1) = limit
  BY LenProperties DEF MinOf, MaxOf
<1>2. \A i \in 1..n : n - i + 1 \in 1..n /\ s[n - i + 1] \in S /\ (n - i) + 1 = n - i + 1
  BY <1>1, ElementOfSeq
<1>3. r = [i \in 1..n |-> s[(n - i) + 1]]
  BY DEF Reverse
<1>. HIDE DEF r, n, c
<1>4. \A i \in 1..c : r[i] = s[n - i + 1] /\ r[i] \in S
  BY <1>1, <1>2, <1>3
<1>5. /\ SubSeq(r, 1, c) \in Seq(S)
      /\ Len(SubSeq(r, 1, c)) = IF 1 <= c THEN c - 1 + 1 ELSE 0
      /\ \A i \in 1..(c - 1 + 1) : SubSeq(r, 1, c)[i] = r[1 + i - 1]
  BY <1>1, <1>4, SubSeqProperties
<1>6. /\ Len(SubSeq(r, 1, c)) = c
      /\ \A i \in 1..c : SubSeq(r, 1, c)[i] = s[n - i + 1]
  BY <1>1, <1>4, <1>5
<1>7. /\ Newest(s, limit) \in Seq(S) /\ Len(Newest(s, limit)) = c
      /\ \A i \in 1..c : Newest(s, limit)[i] = s[n - i + 1]
  <2>1. limit \in Int
    OBVIOUS
  <2>. QED
    BY <1>1, <2>1, NewestProperties DEF n, c
<1>8. SubSeq(r, 1, c) = Newest(s, limit)
  BY <1>5, <1>6, <1>7, SeqEqual
<1>9. Len(r) = n
  BY <1>1, <1>2, <1>3
<1>. QED
  BY <1>8, <1>9 DEF r, n, c

\* Filtering keeps the order of the timestamps.
LEMMA AtSorted ==
    ASSUME NEW S, NEW s \in Seq(S), NEW P \in SUBSET (1..Len(s)), InOrder(s)
    PROVE  InOrder(At(s, P))
<1>. DEFINE c == Cardinality(P)
            r == At(s, P)
<1>1. /\ Len(r) = c
      /\ \A k \in 1..c : Nth(P, k) \in 1..Len(s) /\ r[k] = s[Nth(P, k)]
      /\ \A k, l \in 1..c : k < l => Nth(P, k) < Nth(P, l)
  BY AtProperties
<1>. HIDE DEF c, r
<1>2. \A k \in 1..c : r[k].ts \in Int
  BY <1>1 DEF InOrder
<1>3. \A k, l \in 1..c : k < l => r[k].ts <= r[l].ts
  BY <1>1 DEF InOrder
<1>4. InOrder(r)
  BY <1>1, <1>2, <1>3 DEF InOrder
<1>. QED
  BY <1>4 DEF r

\* What the walk visits of the last n is the end of the whole sequence.
LEMMA WindowIsEnd ==
    ASSUME NEW S, NEW s \in Seq(S), NEW n \in Nat, NEW cutoff
    PROVE  LET w == InWindow(LastN(s, n), cutoff)
           IN  /\ w \in Seq(S) /\ Len(s) \in Nat /\ Len(w) \in 0..Len(s)
               /\ \A k \in 1..Len(w) : w[k] = s[Len(s) - Len(w) + k]
<1>. DEFINE kept == LastN(s, n)
            w == InWindow(kept, cutoff)
            m == Len(s)
            l == Len(kept)
            c == Len(w)
<1>1. /\ m \in Nat /\ l \in Nat /\ l <= m /\ kept \in Seq(S)
      /\ \A k \in 1..l : kept[k] = s[m - l + k]
  <2>1. /\ kept \in Seq(S) /\ l = MinOf(m, n)
        /\ \A k \in 1..MinOf(m, n) : kept[k] = s[m - MinOf(m, n) + k]
    BY LastNProperties
  <2>2. m \in Nat /\ MinOf(m, n) \in Nat /\ MinOf(m, n) <= m
    BY LenProperties DEF MinOf
  <2>. HIDE DEF kept, m, l
  <2>. QED
    BY <2>1, <2>2
<1>. HIDE DEF kept
<1>2. c \in 0..l /\ w \in Seq(S) /\ \A k \in 1..c : w[k] = kept[l - c + k]
  <2>. DEFINE d == Cardinality(Scanned(kept, cutoff))
  <2>1. /\ d \in 0..l /\ w \in Seq(S) /\ c = d
        /\ \A k \in 1..d : w[k] = kept[l - d + k]
    BY <1>1, InWindowProperties
  <2>. HIDE DEF d, w, l, c
  <2>. QED
    BY <2>1
<1>. HIDE DEF w, m, l, c
<1>3. ASSUME NEW k \in 1..c PROVE w[k] = s[m - c + k]
  <2>1. l - c + k \in 1..l /\ m - l + (l - c + k) = m - c + k
    BY <1>1, <1>2
  <2>. QED
    BY <1>1, <1>2, <2>1
<1>4. m \in Nat /\ c \in 0..m
  BY <1>1, <1>2
<1>5. \A k \in 1..c : w[k] = s[m - c + k]
  BY <1>3
<1>. QED
  BY <1>2, <1>4, <1>5 DEF kept, w, m, c

\* An element is visited if it is recent enough and has fewer than n behind it.
LEMMA WindowContains ==
    ASSUME NEW S, NEW s \in Seq(S), InOrder(s), NEW n \in Nat, NEW cutoff \in Int,
           NEW i \in 1..Len(s), s[i].ts >= cutoff, Len(s) - i < n
    PROVE  i > Len(s) - Len(InWindow(LastN(s, n), cutoff))
<1>. DEFINE kept == LastN(s, n)
            w == InWindow(kept, cutoff)
            m == Len(s)
            l == Len(kept)
            c == Len(w)
            k == i - (m - l)
<1>1. /\ m \in Nat /\ l \in Nat /\ l <= m /\ kept \in Seq(S) /\ i > m - l
      /\ \A j \in 1..l : kept[j] = s[m - l + j]
  <2>1. /\ kept \in Seq(S) /\ l = MinOf(m, n)
        /\ \A j \in 1..MinOf(m, n) : kept[j] = s[m - MinOf(m, n) + j]
    BY LastNProperties
  <2>2. m \in Nat /\ MinOf(m, n) \in Nat /\ MinOf(m, n) <= m /\ i > m - MinOf(m, n)
    BY LenProperties DEF MinOf
  <2>. HIDE DEF kept, m, l
  <2>. QED
    BY <2>1, <2>2
<1>2. i \in 1..m
  OBVIOUS
<1>3. /\ \A j \in 1..m : s[j].ts \in Int
      /\ \A j \in 1..m : i < j => s[i].ts <= s[j].ts
  BY DEF InOrder
<1>. HIDE DEF kept
<1>4. c \in 0..l /\ Scanned(kept, cutoff) = (l - c + 1)..l
  <2>. DEFINE d == Cardinality(Scanned(kept, cutoff))
  <2>1. d \in 0..l /\ c = d /\ Scanned(kept, cutoff) = (l - d + 1)..l
    BY <1>1, InWindowProperties
  <2>. HIDE DEF d, w, l, c
  <2>. QED
    BY <2>1
<1>5. DOMAIN kept = 1..l
  BY <1>1, LenProperties
<1>. HIDE DEF w, m, c
<1>6. k \in Scanned(kept, cutoff)
  <2>1. k \in 1..l
    BY <1>1, <1>2
  <2>2. ASSUME NEW j \in k..l PROVE kept[j].ts >= cutoff
    <3>. HIDE DEF l
    <3>1. j \in 1..l /\ m - l + j \in 1..m /\ (m - l + j = i \/ i < m - l + j)
      BY <1>1, <1>2, <2>1
    <3>2. kept[j] = s[m - l + j] /\ s[m - l + j].ts \in Int /\ s[i].ts \in Int
      BY <1>1, <1>2, <1>3, <3>1
    <3>3. CASE m - l + j = i
      BY <3>2, <3>3
    <3>4. CASE i < m - l + j
      <4>1. s[i].ts <= s[m - l + j].ts
        BY <1>3, <3>1, <3>4
      <4>. QED
        BY <3>2, <4>1
    <3>. QED
      BY <3>1, <3>3, <3>4
  <2>. HIDE DEF k
  <2>. QED
    BY <1>5, <2>1, <2>2 DEF Scanned
<1>. HIDE DEF l
<1>7. i > m - c
  BY <1>1, <1>2, <1>4, <1>6
<1>. QED
  BY <1>7 DEF kept, w, m, c

\* The rank of a position says how many come after it.
LEMMA RanksAbove ==
    ASSUME NEW n \in Nat, NEW P \in SUBSET (1..n), NEW i \in P
    PROVE  /\ IsFiniteSet({j \in P : j > i})
           /\ Cardinality({j \in P : j > i}) = Cardinality(P) - Rank(P, i)
<1>. DEFINE A == {j \in P : j <= i}
            B == {j \in P : j > i}
<1>1. IsFiniteSet(P)
  BY RankProperties
<1>2. IsFiniteSet(A) /\ IsFiniteSet(B)
  <2>1. A \in SUBSET P /\ B \in SUBSET P
    OBVIOUS
  <2>. HIDE DEF A, B
  <2>. QED
    BY <1>1, <2>1, FS_Subset
<1>3. \A j \in P : j \in Int
  OBVIOUS
<1>4. A \cup B = P /\ A \cap B = {}
  <2>1. \A j \in P : j <= i \/ j > i
    BY <1>3
  <2>2. \A j \in P : ~ (j <= i /\ j > i)
    BY <1>3
  <2>. QED
    BY <2>1, <2>2
<1>. HIDE DEF A, B
<1>5. Cardinality(A \cup B) = Cardinality(A) + Cardinality(B) - Cardinality(A \cap B)
  BY <1>2, FS_Union
<1>6. Cardinality(A \cap B) = 0 /\ Cardinality(A) \in Nat /\ Cardinality(B) \in Nat
  BY <1>2, <1>4, FS_EmptySet, FS_CardinalityType
<1>7. Cardinality(B) = Cardinality(P) - Cardinality(A)
  <2>1. Cardinality(P) = Cardinality(A) + Cardinality(B) - 0
    BY <1>4, <1>5, <1>6
  <2>. QED
    BY <1>6, <2>1
<1>. QED
  BY <1>2, <1>7 DEF Rank, A, B

\* The positions behind i of the entries of those kinds.
Behind(s, i, kinds) == {j \in (i + 1)..Len(s) : s[j].correlated \in kinds}

\* The entry at i is one a query of the last n entries cannot miss.
InReach(s, i, n, cutoff, limit, kinds) ==
    /\ s[i].ts >= cutoff /\ s[i].correlated \in kinds
    /\ Len(s) - i < n /\ Cardinality(Behind(s, i, kinds)) < limit

\* What was asked for and is recent enough is in the answer, unless n entries or the
\* limit of those asked for came after it.
LEMMA QueryContains ==
    ASSUME NEW S, NEW s \in Seq(S), InOrder(s), NEW n \in Nat, NEW cutoff \in Int,
           NEW limit \in Nat \ {0}, NEW K,
           NEW i \in 1..Len(s), InReach(s, i, n, cutoff, limit, K)
    PROVE  \E k \in 1..Len(Query(LastN(s, n), cutoff, limit, K)) :
                Query(LastN(s, n), cutoff, limit, K)[k] = s[i]
<1>. DEFINE w == InWindow(LastN(s, n), cutoff)
            m == Len(s)
            c == Len(w)
            x == i - (m - c)
            P == {k \in DOMAIN w : w[k].correlated \in K}
            p == Cardinality(P)
            r == Rank(P, x)
            A == {k \in P : k > x}
            B == Behind(s, i, K)
            found == OfKinds(w, K)
<1>1. /\ w \in Seq(S) /\ m \in Nat /\ c \in 0..m
      /\ \A k \in 1..c : w[k] = s[m - c + k]
  BY WindowIsEnd, SMTT(30)
<1>2. i > m - c /\ i \in 1..m
  BY WindowContains DEF InReach
<1>3. DOMAIN w = 1..c
  BY <1>1, LenProperties
<1>. HIDE DEF w, m, c
<1>4. x \in 1..c /\ m - c + x = i
  BY <1>1, <1>2
<1>5. w[x] = s[i] /\ s[i].correlated \in K
  BY <1>1, <1>4 DEF InReach
<1>. HIDE DEF x
<1>6. P \in SUBSET (1..c) /\ x \in P
  BY <1>3, <1>4, <1>5
<1>7. /\ \A k \in P : k \in Int
      /\ \A k \in P : w[k].correlated \in K
  BY <1>6
<1>8. IsFiniteSet(B)
  <2>1. IsFiniteSet((i + 1)..m)
    <3>1. i + 1 \in Int /\ m \in Int
      BY <1>1
    <3>. QED
      BY <3>1, FS_Interval
  <2>2. B \in SUBSET ((i + 1)..m)
    BY DEF Behind, m
  <2>. HIDE DEF B
  <2>. QED
    BY <2>1, <2>2, FS_Subset
<1>9. found = At(w, P)
  BY DEF OfKinds
<1>. HIDE DEF P
<1>10. /\ found \in Seq(S) /\ Len(found) = p /\ p \in Nat
       /\ \A k \in 1..p : found[k] = w[Nth(P, k)]
  <2>1. P \in SUBSET (1..Len(w))
    BY <1>6 DEF c
  <2>. HIDE DEF found, p
  <2>. QED
    BY <1>1, <1>9, <2>1, AtProperties DEF p
<1>11. r \in 1..p /\ Nth(P, r) = x
  <2>1. c \in Nat
    BY <1>1
  <2>. QED
    BY <1>6, <2>1, RankProperties, NthProperties
<1>12. IsFiniteSet(A) /\ Cardinality(A) = p - r
  <2>1. c \in Nat
    BY <1>1
  <2>. QED
    BY <1>6, <2>1, RanksAbove
<1>. HIDE DEF found, p, r
<1>13. p - r < limit
  <2>. DEFINE D == {(m - c) + k : k \in A}
  <2>1. A \in SUBSET Int /\ m - c \in Int
    BY <1>1, <1>7
  <2>2. ASSUME NEW k \in A PROVE (m - c) + k \in B
    <3>1. k \in 1..c /\ k > x /\ w[k].correlated \in K
      BY <1>6, <1>7
    <3>2. (m - c) + k \in (i + 1)..m /\ w[k] = s[(m - c) + k]
      BY <1>1, <1>4, <3>1
    <3>. QED
      BY <3>1, <3>2 DEF Behind, m
  <2>. HIDE DEF A, B
  <2>3. D \in SUBSET B
    BY <2>2
  <2>4. Cardinality(D) = Cardinality(A)
    <3>. DEFINE d == m - c
    <3>1. d \in Int
      BY <2>1
    <3>. HIDE DEF d
    <3>2. Cardinality({d + k : k \in A}) = Cardinality(A)
      BY <1>12, <2>1, <3>1, ShiftedCardinality
    <3>. QED
      BY <3>2 DEF d
  <2>. HIDE DEF D
  <2>5. Cardinality(D) <= Cardinality(B) /\ Cardinality(B) \in Nat
    BY <1>8, <2>3, FS_Subset, FS_CardinalityType
  <2>6. Cardinality(B) < limit
    BY DEF B, InReach
  <2>. QED
    BY <1>10, <1>11, <1>12, <2>4, <2>5, <2>6
<1>. DEFINE q == Newest(found, limit)
            k == p - r + 1
<1>14. /\ Len(q) = MinOf(p, MaxOf(limit, 1))
       /\ \A j \in 1..MinOf(p, MaxOf(limit, 1)) : q[j] = found[p - j + 1]
  <2>1. limit \in Int
    OBVIOUS
  <2>. QED
    BY <1>10, <2>1, NewestProperties
<1>15. k \in 1..MinOf(p, MaxOf(limit, 1)) /\ p - k + 1 = r
  BY <1>10, <1>11, <1>13 DEF MinOf, MaxOf
<1>. HIDE DEF q, k
<1>16. k \in 1..Len(q) /\ q[k] = s[i]
  BY <1>5, <1>10, <1>11, <1>14, <1>15
<1>17. Query(LastN(s, n), cutoff, limit, K) = q
  BY DEF Query, q, found, w
<1>. QED
  BY <1>16, <1>17
=============================================================================
