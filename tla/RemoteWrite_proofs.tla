-------------------------- MODULE RemoteWrite_proofs --------------------------
(***************************************************************************)
(* Where the lines are, for every size of queue and batch, every number of *)
(* retries and every depth of interrupted calls of stop(): each line is in *)
(* one place, the queue holds the newest, and the server has none of them  *)
(* more often than it was tried.                                           *)
(***************************************************************************)
EXTENDS RemoteWrite, SequenceTheorems, TLAPS

\* The hands a batch can be in: 0 is the push thread, the others are calls of stop().
HandIds == 0..Len(stops)
Hand(i) == IF i = 0 THEN push ELSE stops[i]
LinesOf(i) == ToSet(Hand(i).batch)

\* How many lines have left the queue; they are numbered up to here.
Gone == queued - Len(queue)
Done == acked \cup givenUp \cup dropped

Call == [at : {"join", "take", "locked", "send", "returned"}, batch : Seq(Lines),
         attempt : 0..(MaxRetries - 1)]
PushState == [at : {"top", "sleep", "take", "send", "ended"}, batch : Seq(Lines),
              attempt : 0..(MaxRetries - 1)]

TypeInv ==
    /\ lock \in BOOLEAN /\ running \in BOOLEAN
    /\ push \in PushState
    /\ stops \in Seq(Call)
    /\ main \in {"polling", "stopping", "exited"}
    /\ signals \in 0..MaxSignals
    /\ copies \in [Lines -> Nat]

\* The queue is what was queued last.
QueueRight ==
    /\ queue \in Seq(Lines) /\ Len(queue) <= QueueSize
    /\ queued \in 0..MaxLines
    /\ Len(queue) <= queued
    /\ \A i \in DOMAIN queue : queue[i] = Gone + i

\* A batch is in one hand, while it is being sent, and was sent as often as it was tried.
HandsRight ==
    /\ \A i \in HandIds : Hand(i).at # "send" => Hand(i).batch = <<>>
    /\ \A i \in HandIds : Hand(i).at \in {"join", "take", "locked"} => i = 0 \/ Hand(i).attempt = 0
    /\ \A i, j \in HandIds : \A l \in LinesOf(i) : l \in LinesOf(j) => i = j
    /\ \A i \in HandIds : \A l \in LinesOf(i) : copies[l] <= Hand(i).attempt

\* Whatever has left the queue is in a hand or done with, in one way.
PlacesRight ==
    /\ \A i \in HandIds : \A l \in LinesOf(i) : l \in 1..Gone /\ l \notin Done
    /\ Done \subseteq 1..Gone
    /\ acked \cap givenUp = {} /\ acked \cap dropped = {} /\ givenUp \cap dropped = {}
    /\ \A l \in 1..Gone : l \in Done \/ \E i \in HandIds : l \in LinesOf(i)

CopiesRight ==
    /\ \A l \in Lines : copies[l] <= MaxRetries
    /\ \A l \in Lines : l > Gone \/ l \in dropped => copies[l] = 0
    /\ \A l \in acked : copies[l] > 0

WriterInv == TypeInv /\ QueueRight /\ HandsRight /\ PlacesRight /\ CopiesRight

-----------------------------------------------------------------------------
\* The numbers the bounds stand for.
LEMMA Numbers ==
    ASSUME QueueRight
    PROVE  /\ Len(queue) \in Nat /\ queued \in Nat /\ MaxLines \in Nat /\ Gone \in Nat
           /\ Gone <= queued /\ queued <= MaxLines /\ queued = Gone + Len(queue)
           /\ DOMAIN queue = 1..Len(queue)
  BY RemoteWriteAssumption, LenProperties DEF QueueRight, Gone

\* Counting from a.
LEMMA Rebased ==
    ASSUME NEW a \in Int, NEW m \in Int, NEW l \in (a + 1)..(a + m)
    PROVE  \E j \in 1..m : l = a + j
<1>1. l - a \in 1..m /\ l = a + (l - a)
  OBVIOUS
<1>. QED
  BY <1>1

\* The lines of a sequence that counts up to a number.
LEMMA CountingSet ==
    ASSUME NEW q \in Seq(Lines), NEW total \in Nat,
           \A i \in DOMAIN q : q[i] = (total - Len(q)) + i
    PROVE  ToSet(q) = (total - Len(q) + 1)..total
<1>1. Len(q) \in Nat /\ DOMAIN q = 1..Len(q)
  BY LenProperties
<1>. DEFINE a == total - Len(q)
<1>2. a \in Int /\ total = a + Len(q)
  BY <1>1
<1>3. \A i \in DOMAIN q : q[i] = a + i
  OBVIOUS
<1>. HIDE DEF a
<1>4. ASSUME NEW l \in (a + 1)..total
      PROVE  l \in ToSet(q)
  <2>1. \E j \in 1..Len(q) : l = a + j
    BY <1>1, <1>2, Rebased
  <2>. QED
    BY <1>1, <1>3, <2>1 DEF ToSet
<1>5. \A l \in ToSet(q) : l \in (a + 1)..total
  BY <1>1, <1>2, <1>3 DEF ToSet
<1>. QED
  BY <1>4, <1>5 DEF a

\* The lines that wait.
LEMMA QueueSet ==
    ASSUME QueueRight
    PROVE  ToSet(queue) = (Gone + 1)..queued
  BY CountingSet, Numbers DEF QueueRight, Gone

\* A slice of a sequence.
LEMMA Slice ==
    ASSUME NEW S, NEW s, NEW a \in Nat, NEW b \in Nat, a <= b, \A i \in (a + 1)..b : s[i] \in S
    PROVE  /\ SubSeq(s, a + 1, b) \in Seq(S)
           /\ Len(SubSeq(s, a + 1, b)) = b - a
           /\ \A i \in 1..(b - a) : SubSeq(s, a + 1, b)[i] = s[a + i]
<1>. DEFINE c == a + 1
<1>1. c \in Int /\ b \in Int /\ \A i \in c..b : s[i] \in S
  OBVIOUS
<1>2. /\ SubSeq(s, c, b) \in Seq(S)
      /\ Len(SubSeq(s, c, b)) = IF c <= b THEN b - c + 1 ELSE 0
      /\ \A i \in 1..(b - c + 1) : SubSeq(s, c, b)[i] = s[c + i - 1]
  <2>. HIDE DEF c
  <2>. QED
    BY <1>1, SubSeqProperties
<1>3. \A i \in 1..(b - a) : c + i - 1 = a + i /\ i \in 1..(b - c + 1)
  OBVIOUS
<1>. QED
  BY <1>2, <1>3

\* A batch is the oldest lines of the queue; what stays is the newest.
LEMMA TakenBatch ==
    ASSUME QueueRight, NEW batch, BatchTaken(batch), UNCHANGED queued
    PROVE  /\ batch \in Seq(Lines)
           /\ ToSet(batch) = (Gone + 1)..Gone'
           /\ Gone' \in Nat /\ Gone <= Gone'
           /\ QueueRight'
           /\ batch = <<>> => Gone' = Gone
<1>. DEFINE k == Least(BatchLines, Len(queue))
<1>1. k \in Nat /\ k <= Len(queue)
  BY Numbers, RemoteWriteAssumption DEF Least
<1>2. batch = SubSeq(queue, 1, k) /\ queue' = SubSeq(queue, Len(batch) + 1, Len(queue))
  BY DEF BatchTaken
<1>. HIDE DEF k
<1>3. \A i \in 1..Len(queue) : queue[i] \in Lines /\ queue[i] = Gone + i
  BY Numbers, ElementOfSeq DEF QueueRight
<1>4. /\ batch \in Seq(Lines)
      /\ Len(batch) = k
      /\ \A i \in 1..k : batch[i] = queue[i]
  BY <1>1, <1>2, <1>3, Numbers, SubSeqProperties
<1>5. /\ queue' \in Seq(Lines)
      /\ Len(queue') = Len(queue) - k
      /\ \A i \in 1..(Len(queue) - k) : queue'[i] = queue[k + i]
  <2>1. queue' = SubSeq(queue, k + 1, Len(queue))
    BY <1>2, <1>4
  <2>2. \A i \in (k + 1)..Len(queue) : queue[i] \in Lines
    BY <1>1, <1>3, Numbers
  <2>3. k \in Nat /\ Len(queue) \in Nat /\ k <= Len(queue)
    BY <1>1, Numbers
  <2>. QED
    BY <2>1, <2>2, <2>3, Slice
<1>6. Gone' = Gone + k
  BY <1>1, <1>5, Numbers DEF Gone
<1>7. DOMAIN queue' = 1..(Len(queue) - k) /\ DOMAIN batch = 1..k
  BY <1>4, <1>5, LenProperties
<1>8. \A i \in DOMAIN queue' : queue'[i] = Gone' + i
  <2>1. ASSUME NEW i \in 1..(Len(queue) - k)
        PROVE  queue[k + i] = Gone + (k + i)
    <3>1. k + i \in 1..Len(queue)
      BY <1>1, Numbers
    <3>. QED
      BY <1>3, <3>1
  <2>2. ASSUME NEW i \in 1..(Len(queue) - k)
        PROVE  Gone + (k + i) = Gone' + i
    BY <1>1, <1>6, Numbers
  <2>. QED
    BY <1>5, <1>7, <2>1, <2>2
<1>9. QueueRight'
  BY <1>1, <1>5, <1>8, Numbers, RemoteWriteAssumption DEF QueueRight
<1>10. ToSet(batch) = (Gone + 1)..(Gone + k)
  <2>1. \A i \in 1..k : batch[i] = Gone + i
    BY <1>1, <1>3, <1>4, Numbers
  <2>2. ASSUME NEW l \in (Gone + 1)..(Gone + k)
        PROVE  l \in ToSet(batch)
    <3>1. l - Gone \in 1..k /\ batch[l - Gone] = l
      BY <1>1, <2>1, Numbers
    <3>. QED
      BY <1>7, <3>1 DEF ToSet
  <2>3. \A l \in ToSet(batch) : l \in (Gone + 1)..(Gone + k)
    BY <1>1, <1>7, <2>1, Numbers DEF ToSet
  <2>. QED
    BY <2>2, <2>3
<1>11. batch = <<>> => k = 0
  BY <1>4, EmptySeq
<1>. QED
  BY <1>1, <1>4, <1>6, <1>9, <1>10, <1>11, Numbers

\* New lines come behind the others, and the queue keeps the newest of both.
LEMMA QueueExtended ==
    ASSUME QueueRight, NEW n \in Nat, EnqueueRequests(n)
    PROVE  /\ QueueRight'
           /\ Gone' \in Nat /\ Gone <= Gone'
           /\ dropped' = dropped \cup ((Gone + 1)..Gone')
<1>. DEFINE m == n * LinesPerRequest
            new == [i \in 1..m |-> queued + i]
            all == queue \o new
            k == Least(Len(all), QueueSize)
<1>1. m \in Nat /\ queued + m <= MaxLines /\ queued' = queued + m
  BY RemoteWriteAssumption DEF EnqueueRequests
<1>2. queue' = SubSeq(all, Len(all) - k + 1, Len(all))
      /\ dropped' = dropped \cup ((ToSet(queue) \cup ToSet(new)) \ ToSet(queue'))
  BY DEF EnqueueRequests, Kept
<1>. HIDE DEF m
<1>3. new \in Seq(Lines) /\ Len(new) = m /\ DOMAIN new = 1..m /\ \A i \in 1..m : new[i] = queued + i
  BY <1>1, Numbers DEF Lines
<1>. HIDE DEF new
<1>4. queue \in Seq(Lines) /\ \A i \in 1..Len(queue) : queue[i] = Gone + i
  BY Numbers DEF QueueRight
<1>5. /\ all \in Seq(Lines)
      /\ Len(all) = Len(queue) + m
      /\ \A i \in 1..(Len(queue) + m) : all[i] = Gone + i
  <2>1. /\ all \in Seq(Lines)
        /\ Len(all) = Len(queue) + m
        /\ \A i \in 1..(Len(queue) + m) :
              all[i] = IF i <= Len(queue) THEN queue[i] ELSE new[i - Len(queue)]
    BY <1>3, <1>4, ConcatProperties
  <2>2. \A i \in 1..(Len(queue) + m) : i > Len(queue) => new[i - Len(queue)] = Gone + i
    BY <1>1, <1>3, Numbers
  <2>. QED
    BY <1>1, <1>4, <2>1, <2>2, Numbers
<1>. HIDE DEF all
<1>6. k \in Nat /\ k <= Len(queue) + m /\ k <= QueueSize
  BY <1>1, <1>5, Numbers, RemoteWriteAssumption DEF Least
<1>. HIDE DEF k
<1>. DEFINE d == Len(queue) + m - k
<1>7. d \in Nat /\ d <= Len(queue) + m
  BY <1>1, <1>6, Numbers
<1>8. /\ queue' \in Seq(Lines)
      /\ Len(queue') = k
      /\ \A i \in 1..k : queue'[i] = all[d + i]
  <2>1. \A i \in (d + 1)..(d + k) : all[i] \in Lines
    BY <1>1, <1>5, <1>6, Numbers, ElementOfSeq
  <2>2. queue' = SubSeq(all, d + 1, d + k)
    <3>1. Len(all) - k + 1 = d + 1 /\ Len(all) = d + k
      BY <1>1, <1>5, <1>6, Numbers
    <3>. HIDE DEF d
    <3>. QED
      BY <1>2, <3>1
  <2>3. d <= d + k /\ d + k \in Nat /\ (d + k) - d = k
    BY <1>6, <1>7
  <2>. HIDE DEF d
  <2>. QED
    BY <1>6, <1>7, <2>1, <2>2, <2>3, Slice
<1>9. Gone' = Gone + d
  BY <1>1, <1>6, <1>8, Numbers, SMTT(30) DEF Gone
<1>10. DOMAIN queue' = 1..k
  BY <1>8, LenProperties
<1>11. \A i \in DOMAIN queue' : queue'[i] = Gone' + i
  <2>1. \A i \in 1..k : d + i \in 1..(Len(queue) + m)
    BY <1>1, <1>6, <1>7, Numbers
  <2>. HIDE DEF d
  <2>. QED
    <3>1. \A i \in 1..k : queue'[i] = Gone + (d + i)
      BY <1>5, <1>8, <2>1
    <3>2. \A i \in 1..k : Gone + (d + i) = Gone' + i
      BY <1>6, <1>7, <1>9, Numbers
    <3>. QED
      BY <1>10, <3>1, <3>2
<1>12. QueueRight'
  BY <1>1, <1>6, <1>8, <1>11, Numbers DEF QueueRight
<1>13. ToSet(new) = (queued + 1)..(queued + m)
  <2>1. ASSUME NEW l \in (queued + 1)..(queued + m)
        PROVE  l \in ToSet(new)
    <3>1. PICK j \in 1..m : l = queued + j
      <4>1. queued \in Int /\ m \in Int
        BY <1>1, Numbers
      <4>. QED
        BY <4>1, Rebased
    <3>. QED
      BY <1>3, <3>1 DEF ToSet
  <2>2. \A l \in ToSet(new) : l \in (queued + 1)..(queued + m)
    BY <1>1, <1>3, Numbers, SMTT(30) DEF ToSet
  <2>. QED
    BY <2>1, <2>2
<1>14. ToSet(queue)' = (Gone' + 1)..queued'
  <2>1. queued' \in Nat
    BY <1>1, Numbers
  <2>. QED
    BY <1>8, <1>11, <2>1, CountingSet DEF Gone
<1>15. (ToSet(queue) \cup ToSet(new)) \ ToSet(queue)' = (Gone + 1)..Gone'
  <2>1. /\ Gone \in Nat /\ Gone' \in Nat /\ queued \in Nat /\ queued' \in Nat
        /\ Gone <= Gone' /\ Gone' <= queued' /\ Gone <= queued /\ queued <= queued'
        /\ queued' = queued + m
    BY <1>1, <1>6, <1>7, <1>9, Numbers, SMTT(30)
  <2>2. ToSet(queue) \cup ToSet(new) = (Gone + 1)..queued'
    BY <1>13, <2>1, QueueSet
  <2>3. ((Gone + 1)..queued') \ ((Gone' + 1)..queued') = (Gone + 1)..Gone'
    BY <2>1
  <2>. QED
    BY <1>14, <2>2, <2>3
<1>. QED
  BY <1>2, <1>7, <1>9, <1>12, <1>15, Numbers
-----------------------------------------------------------------------------
\* The hands: what a step of the queue or of one hand does to the whole.

\* No hand changes; the queue may lose its oldest lines.
LEMMA QueueStep ==
    ASSUME WriterInv, NEW n \in Nat, EnqueueRequests(n)
    PROVE  (QueueRight /\ HandsRight /\ PlacesRight /\ CopiesRight)'
<1>. USE DEF WriterInv
<1>1. UNCHANGED <<push, stops, copies, acked, givenUp>>
  BY DEF EnqueueRequests, wire
<1>2. /\ QueueRight'
      /\ Gone \in Nat /\ Gone' \in Nat /\ Gone <= Gone'
      /\ dropped' = dropped \cup ((Gone + 1)..Gone')
  BY QueueExtended, Numbers
<1>3. HandIds' = HandIds /\ \A i \in HandIds : LinesOf(i)' = LinesOf(i)
  BY <1>1 DEF HandIds, LinesOf, Hand
<1>4. HandsRight'
  BY <1>1 DEF HandsRight, HandIds, LinesOf, Hand
<1>5. \A l \in (Gone + 1)..Gone' : l > Gone /\ l \in Lines
  BY <1>2, Numbers DEF QueueRight, Lines, Gone
<1>6. PlacesRight'
  BY <1>1, <1>2, <1>3, <1>5 DEF PlacesRight, Done
<1>7. CopiesRight'
  BY <1>1, <1>2, <1>5 DEF CopiesRight, Lines
<1>. QED
  BY <1>2, <1>4, <1>6, <1>7

\* An empty hand takes a batch.
LEMMA TakeStep ==
    ASSUME WriterInv, NEW i \in HandIds, NEW batch, BatchTaken(batch),
           HandIds' = HandIds,
           Hand(i).batch = <<>>,
           Hand(i)'.batch = batch,
           Hand(i)'.at # "send" => batch = <<>>,
           Hand(i)'.at \notin {"join", "take", "locked"},
           Hand(i)'.attempt \in Nat,
           \A j \in HandIds : j # i => Hand(j)' = Hand(j),
           UNCHANGED <<queued, dropped, wire>>
    PROVE  (QueueRight /\ HandsRight /\ PlacesRight /\ CopiesRight)'
<1>. USE DEF WriterInv
<1>1. UNCHANGED <<copies, acked, givenUp>>
  BY DEF wire
<1>2. /\ QueueRight'
      /\ ToSet(batch) = (Gone + 1)..Gone'
      /\ Gone \in Nat /\ Gone' \in Nat /\ Gone <= Gone'
      /\ Gone' <= MaxLines
  <2>1. Gone' <= MaxLines
    BY TakenBatch, RemoteWriteAssumption, LenProperties DEF QueueRight, Gone
  <2>. QED
    BY <2>1, TakenBatch, Numbers
<1>3. LinesOf(i) = {} /\ LinesOf(i)' = (Gone + 1)..Gone'
      /\ \A j \in HandIds : j # i => LinesOf(j)' = LinesOf(j)
  BY <1>2 DEF LinesOf, ToSet
<1>4. \A l \in (Gone + 1)..Gone' : l > Gone /\ l \in Lines /\ l \notin 1..Gone
  BY <1>2, RemoteWriteAssumption DEF Lines
<1>5. HandsRight'
  <2>1. \A j \in HandIds : Hand(j)'.at # "send" => Hand(j)'.batch = <<>>
    BY DEF HandsRight
  <2>2. \A j \in HandIds : Hand(j)'.at \in {"join", "take", "locked"} => j = 0 \/ Hand(j)'.attempt = 0
    BY DEF HandsRight
  <2>3. \A j, k \in HandIds : \A l \in LinesOf(j)' : l \in LinesOf(k)' => j = k
    <3>1. \A j \in HandIds : j # i => \A l \in LinesOf(j) : l \notin LinesOf(i)'
      BY <1>3, <1>4 DEF PlacesRight
    <3>2. \A j, k \in HandIds : \A l \in LinesOf(j) : l \in LinesOf(k) => j = k
      BY DEF HandsRight
    <3>3. SUFFICES ASSUME NEW j \in HandIds, NEW k \in HandIds, NEW l \in LinesOf(j)',
                          l \in LinesOf(k)', j # k
                   PROVE  FALSE
      OBVIOUS
    <3>4. CASE j # i /\ k # i
      BY <1>3, <3>2, <3>3, <3>4
    <3>5. CASE j = i \/ k = i
      BY <1>3, <3>1, <3>3, <3>5
    <3>. QED
      BY <3>4, <3>5
  <2>4. \A j \in HandIds : \A l \in LinesOf(j)' : copies'[l] <= Hand(j)'.attempt
    <3>1. \A l \in LinesOf(i)' : copies'[l] <= Hand(i)'.attempt
      BY <1>1, <1>3, <1>4 DEF CopiesRight
    <3>2. \A j \in HandIds : j # i => \A l \in LinesOf(j)' : copies'[l] <= Hand(j)'.attempt
      BY <1>1, <1>3 DEF HandsRight
    <3>. QED
      BY <3>1, <3>2
  <2>. QED
    BY <2>1, <2>2, <2>3, <2>4 DEF HandsRight
<1>6. PlacesRight'
  <2>1. \A j \in HandIds : \A l \in LinesOf(j)' : l \in 1..Gone' /\ l \notin Done
    BY <1>2, <1>3, <1>4 DEF PlacesRight
  <2>2. \A l \in 1..Gone' : l \in Done \/ \E j \in HandIds : l \in LinesOf(j)'
    <3>1. ASSUME NEW l \in 1..Gone, l \notin Done
          PROVE  \E j \in HandIds : l \in LinesOf(j)'
      <4>1. PICK j \in HandIds : l \in LinesOf(j)
        BY <3>1 DEF PlacesRight
      <4>. QED
        BY <1>3, <4>1
    <3>. QED
      BY <1>2, <1>3, <3>1
  <2>. QED
    BY <1>1, <1>2, <2>1, <2>2 DEF PlacesRight, Done
<1>7. CopiesRight'
  BY <1>1, <1>2 DEF CopiesRight, Lines
<1>. QED
  BY <1>2, <1>5, <1>6, <1>7

\* A hand sends its batch once: it keeps it for the next attempt, or is done with it.
LEMMA SendStep ==
    ASSUME WriterInv, NEW i \in HandIds, NEW outcome \in Outcomes,
           Hand(i).at = "send",
           Hand(i).attempt \in 0..(MaxRetries - 1),
           Attempted(Hand(i).batch, outcome),
           HandIds' = HandIds,
           \A j \in HandIds : j # i => Hand(j)' = Hand(j),
           \/ /\ SendReturns(Hand(i).batch, Hand(i).attempt, outcome)
              /\ Hand(i)'.at \notin {"join", "take", "locked", "send"}
              /\ Hand(i)'.batch = <<>>
           \/ /\ SendRetries(Hand(i).attempt, outcome)
              /\ Hand(i)' = [Hand(i) EXCEPT !.attempt = @ + 1]
              /\ Hand(i)'.at = "send" /\ Hand(i)'.batch = Hand(i).batch
              /\ Hand(i)'.attempt = Hand(i).attempt + 1,
           UNCHANGED <<queue, queued, dropped>>
    PROVE  (QueueRight /\ HandsRight /\ PlacesRight /\ CopiesRight)'
<1>. USE DEF WriterInv
<1>. DEFINE lines == LinesOf(i)
<1>1. Gone' = Gone /\ QueueRight'
  BY DEF Gone, QueueRight
<1>2. lines \subseteq Lines /\ lines \subseteq 1..Gone
  BY Numbers DEF PlacesRight, Lines
<1>3. /\ copies \in [Lines -> Nat]
      /\ MaxRetries \in Nat
      /\ \A l \in Lines \ lines : copies'[l] = copies[l]
      /\ \A l \in lines : copies'[l] \in {copies[l], copies[l] + 1}
      /\ outcome = "stored" => \A l \in lines : copies'[l] = copies[l] + 1
  BY <1>2, RemoteWriteAssumption DEF Attempted, TypeInv, LinesOf
<1>4. \A l \in lines : copies[l] <= Hand(i).attempt /\ copies'[l] <= Hand(i).attempt + 1
                       /\ copies'[l] <= MaxRetries
  BY <1>2, <1>3 DEF HandsRight
<1>5. \A j \in HandIds : j # i => LinesOf(j)' = LinesOf(j) /\ LinesOf(j) \cap lines = {}
                                 /\ LinesOf(j) \subseteq Lines
  <2>1. \A j \in HandIds : j # i => LinesOf(j)' = LinesOf(j)
    BY DEF LinesOf
  <2>2. \A j \in HandIds : j # i => LinesOf(j) \cap lines = {}
    BY DEF HandsRight
  <2>3. \A j \in HandIds : LinesOf(j) \subseteq Lines
    BY Numbers DEF PlacesRight, Lines
  <2>. QED
    BY <2>1, <2>2, <2>3
<1>6. Done \cap lines = {} /\ Done \subseteq Lines
  BY Numbers DEF PlacesRight, Lines
<1>7. CASE /\ SendReturns(Hand(i).batch, Hand(i).attempt, outcome)
           /\ Hand(i)'.at \notin {"join", "take", "locked", "send"}
           /\ Hand(i)'.batch = <<>>
  <2>1. LinesOf(i)' = {}
    BY <1>7 DEF LinesOf, ToSet
  <2>2. \/ outcome = "stored" /\ acked' = acked \cup lines /\ givenUp' = givenUp
        \/ acked' = acked /\ givenUp' = givenUp \cup lines
    BY <1>7 DEF SendReturns, LinesOf
  <2>3. HandsRight'
    <3>1. \A j \in HandIds : Hand(j)'.at # "send" => Hand(j)'.batch = <<>>
      BY <1>7 DEF HandsRight
    <3>2. \A j \in HandIds : Hand(j)'.at \in {"join", "take", "locked"} => j = 0 \/ Hand(j)'.attempt = 0
      BY <1>7 DEF HandsRight
    <3>3. \A j, k \in HandIds : \A l \in LinesOf(j)' : l \in LinesOf(k)' => j = k
      BY <1>5, <2>1 DEF HandsRight
    <3>4. \A j \in HandIds : \A l \in LinesOf(j)' : copies'[l] <= Hand(j)'.attempt
      BY <1>3, <1>5, <2>1 DEF HandsRight
    <3>. QED
      BY <3>1, <3>2, <3>3, <3>4 DEF HandsRight
  <2>4. Done' = Done \cup lines
    BY <2>2 DEF Done
  <2>5. PlacesRight'
    <3>1. \A j \in HandIds : \A l \in LinesOf(j)' : l \in 1..Gone /\ l \notin Done'
      BY <1>5, <2>1, <2>4 DEF PlacesRight
    <3>2. \A l \in 1..Gone : l \in Done' \/ \E j \in HandIds : l \in LinesOf(j)'
      BY <1>5, <2>4 DEF PlacesRight
    <3>3. Done' \subseteq 1..Gone
      BY <1>2, <2>4 DEF PlacesRight
    <3>4. acked' \cap givenUp' = {} /\ acked' \cap dropped = {} /\ givenUp' \cap dropped = {}
      BY <1>6, <2>2 DEF PlacesRight, Done
    <3>. QED
      BY <1>1, <3>1, <3>2, <3>3, <3>4 DEF PlacesRight
  <2>6. CopiesRight'
    <3>1. \A l \in Lines : copies'[l] <= MaxRetries
      BY <1>3, <1>4 DEF CopiesRight
    <3>2. \A l \in Lines : l > Gone \/ l \in dropped => copies'[l] = 0
      BY <1>2, <1>3, <1>6, Numbers DEF CopiesRight, Done
    <3>3. \A l \in acked' : copies'[l] > 0
      BY <1>2, <1>3, <1>6, <2>2 DEF CopiesRight, Done
    <3>. QED
      BY <1>1, <3>1, <3>2, <3>3 DEF CopiesRight
  <2>. QED
    BY <1>1, <2>3, <2>5, <2>6
<1>8. CASE /\ SendRetries(Hand(i).attempt, outcome)
           /\ Hand(i)'.at = "send" /\ Hand(i)'.batch = Hand(i).batch
           /\ Hand(i)'.attempt = Hand(i).attempt + 1
  <2>1. LinesOf(i)' = lines /\ acked' = acked /\ givenUp' = givenUp
    BY <1>8 DEF LinesOf, SendRetries
  <2>2. \A j \in HandIds : LinesOf(j)' = LinesOf(j)
    BY <1>5, <2>1
  <2>3. HandsRight'
    <3>1. \A j \in HandIds : Hand(j)'.at # "send" => Hand(j)'.batch = <<>>
      BY <1>8 DEF HandsRight
    <3>2. \A j \in HandIds : Hand(j)'.at \in {"join", "take", "locked"} => j = 0 \/ Hand(j)'.attempt = 0
      BY <1>8 DEF HandsRight
    <3>3. \A j, k \in HandIds : \A l \in LinesOf(j)' : l \in LinesOf(k)' => j = k
      BY <2>2 DEF HandsRight
    <3>4. \A j \in HandIds : \A l \in LinesOf(j)' : copies'[l] <= Hand(j)'.attempt
      BY <1>3, <1>4, <1>5, <1>8, <2>1 DEF HandsRight
    <3>. QED
      BY <3>1, <3>2, <3>3, <3>4 DEF HandsRight
  <2>4. PlacesRight'
    BY <1>1, <2>1, <2>2 DEF PlacesRight, Done
  <2>5. CopiesRight'
    <3>1. \A l \in Lines : copies'[l] <= MaxRetries
      BY <1>3, <1>4 DEF CopiesRight
    <3>2. \A l \in Lines : l > Gone \/ l \in dropped => copies'[l] = 0
      BY <1>2, <1>3, <1>6, Numbers DEF CopiesRight, Done
    <3>3. \A l \in acked : copies'[l] > 0
      BY <1>3, <1>6 DEF CopiesRight, Done
    <3>. QED
      BY <1>1, <2>1, <3>1, <3>2, <3>3 DEF CopiesRight
  <2>. QED
    BY <1>1, <2>3, <2>4, <2>5
<1>. QED
  BY <1>7, <1>8

\* A hand gets on without touching a line, or an empty one comes or goes.
LEMMA HandStep ==
    ASSUME WriterInv,
           \A i \in HandIds' : /\ Hand(i)'.at # "send" => Hand(i)'.batch = <<>>
                               /\ Hand(i)'.at \in {"join", "take", "locked"} =>
                                     i = 0 \/ Hand(i)'.attempt = 0,
           \A i \in HandIds' : \/ Hand(i)'.batch = <<>>
                               \/ /\ i \in HandIds
                                  /\ Hand(i)'.batch = Hand(i).batch
                                  /\ Hand(i)'.attempt = Hand(i).attempt,
           \A i \in HandIds : \/ Hand(i).batch = <<>>
                              \/ i \in HandIds' /\ Hand(i)'.batch = Hand(i).batch,
           UNCHANGED <<queue, queued, dropped, wire>>
    PROVE  (QueueRight /\ HandsRight /\ PlacesRight /\ CopiesRight)'
<1>. USE DEF WriterInv
<1>1. UNCHANGED <<queue, queued, dropped, copies, acked, givenUp, Done, Gone>>
  BY DEF wire, Done, Gone
<1>2. \A i \in HandIds' : \/ LinesOf(i)' = {}
                          \/ /\ i \in HandIds /\ LinesOf(i)' = LinesOf(i)
                             /\ Hand(i)'.attempt = Hand(i).attempt
  BY DEF LinesOf, ToSet
<1>3. \A i \in HandIds : LinesOf(i) = {} \/ (i \in HandIds' /\ LinesOf(i)' = LinesOf(i))
  BY DEF LinesOf, ToSet
<1>4. QueueRight' /\ CopiesRight'
  BY <1>1 DEF QueueRight, CopiesRight
<1>5. HandsRight'
  <2>1. \A j, k \in HandIds' : \A l \in LinesOf(j)' : l \in LinesOf(k)' => j = k
    BY <1>2 DEF HandsRight
  <2>2. \A j \in HandIds' : \A l \in LinesOf(j)' : copies'[l] <= Hand(j)'.attempt
    BY <1>1, <1>2 DEF HandsRight
  <2>. QED
    BY <2>1, <2>2 DEF HandsRight
<1>6. PlacesRight'
  <2>1. \A j \in HandIds' : \A l \in LinesOf(j)' : l \in 1..Gone' /\ l \notin Done'
    BY <1>1, <1>2 DEF PlacesRight
  <2>2. \A l \in 1..Gone' : l \in Done' \/ \E j \in HandIds' : l \in LinesOf(j)'
    BY <1>1, <1>3 DEF PlacesRight
  <2>. QED
    BY <1>1, <2>1, <2>2 DEF PlacesRight
<1>. QED
  BY <1>4, <1>5, <1>6
-----------------------------------------------------------------------------
\* The types of a call and of the stack.
LEMMA TopOfStack ==
    ASSUME TypeInv, stops # <<>>
    PROVE  /\ Len(stops) \in Nat \ {0} /\ Len(stops) \in HandIds
           /\ Top \in Call /\ Hand(Len(stops)) = Top
<1>1. Len(stops) \in Nat \ {0}
  BY EmptySeq DEF TypeInv
<1>2. Top \in Call
  BY <1>1, ElementOfSeq DEF TypeInv, Top
<1>. QED
  BY <1>1, <1>2 DEF HandIds, Hand, Top

\* The innermost call of stop() gets on; the others and the push thread wait.
LEMMA Continued ==
    ASSUME TypeInv, stops # <<>>, NEW n, n = Len(stops), NEW call \in Call, Continue(call),
           UNCHANGED push
    PROVE  /\ stops' \in Seq(Call) /\ HandIds' = HandIds
           /\ Hand(n)' = call
           /\ \A j \in HandIds : j # n => Hand(j)' = Hand(j)
<1>1. stops \in Seq(Call) /\ Len(stops) \in 1..Len(stops)
  BY TopOfStack DEF TypeInv
<1>2. /\ stops' \in Seq(Call) /\ Len(stops') = Len(stops)
      /\ \A j \in 1..Len(stops) : stops'[j] = IF j = Len(stops) THEN call ELSE stops[j]
  BY <1>1, ExceptSeq DEF Continue
<1>3. HandIds' = HandIds
  BY <1>2 DEF HandIds
<1>4. stops'[n] = call /\ n # 0
  BY <1>1, <1>2, TopOfStack
<1>5. Hand(n)' = call
  BY <1>4 DEF Hand
<1>6. \A j \in HandIds : j # n => Hand(j)' = Hand(j)
  BY <1>1, <1>2, TopOfStack DEF HandIds, Hand
<1>. QED
  BY <1>2, <1>3, <1>5, <1>6

\* Every hand is a record with a batch and an attempt.
LEMMA HandTypes ==
    ASSUME TypeInv
    PROVE  \A i \in HandIds : /\ Hand(i) \in Call \cup PushState
                              /\ Hand(i).attempt \in 0..(MaxRetries - 1)
<1>1. ASSUME NEW i \in HandIds, i # 0 PROVE stops[i] \in Call
  BY <1>1, ElementOfSeq, LenProperties DEF TypeInv, HandIds
<1>. QED
  BY <1>1 DEF TypeInv, Hand, Call, PushState

\* At first nothing is queued.
LEMMA WriterInitInv == Init => WriterInv
<1>. SUFFICES ASSUME Init PROVE WriterInv
  OBVIOUS
<1>1. TypeInv
  <2>1. push \in PushState
    BY RemoteWriteAssumption, EmptySeq DEF Init, PushState
  <2>2. stops \in Seq(Call)
    BY EmptySeq DEF Init
  <2>3. copies \in [Lines -> Nat] /\ signals \in 0..MaxSignals
    BY RemoteWriteAssumption DEF Init
  <2>. QED
    BY <2>1, <2>2, <2>3 DEF Init, TypeInv
<1>2. Len(queue) = 0 /\ Gone = 0 /\ HandIds = {0} /\ Hand(0) = push /\ LinesOf(0) = {}
  <2>1. Len(queue) = 0 /\ Len(stops) = 0
    BY EmptySeq DEF Init
  <2>2. queued = 0
    BY DEF Init
  <2>3. Gone = 0 /\ HandIds = {0} /\ Hand(0) = push
    BY <2>1, <2>2 DEF Gone, HandIds, Hand
  <2>4. push.batch = <<>>
    BY DEF Init
  <2>. QED
    BY <2>1, <2>3, <2>4 DEF LinesOf, ToSet
<1>3. QueueRight
  BY <1>2, RemoteWriteAssumption, EmptySeq DEF Init, QueueRight
<1>4. HandsRight
  BY <1>2 DEF Init, HandsRight
<1>5. PlacesRight /\ CopiesRight
  BY <1>2, RemoteWriteAssumption DEF Init, PlacesRight, CopiesRight, Done
<1>. QED
  BY <1>1, <1>3, <1>4, <1>5 DEF WriterInv

\* The push thread preserves the invariant.
LEMMA PushNextStep ==
    ASSUME WriterInv, PushNext
    PROVE  WriterInv'
<1>. USE DEF WriterInv
<1>0. /\ stops' = stops /\ HandIds' = HandIds /\ 0 \in HandIds
      /\ Hand(0) = push /\ Hand(0)' = push'
      /\ \A j \in HandIds : j # 0 => Hand(j)' = Hand(j)
      /\ UNCHANGED <<queued, dropped, signals, running, main, lock>>
  BY LenProperties DEF PushNext, PushTop, PushWake, PushStep, PushTake, PushSend, HandIds, Hand, TypeInv
<1>1. CASE PushTop \/ PushWake
  <2>1. /\ push.at \in {"top", "sleep"} /\ push'.at \in {"sleep", "take", "ended"}
        /\ push' = [push EXCEPT !.at = push'.at]
        /\ UNCHANGED <<queue, wire>>
    BY <1>1 DEF PushTop, PushWake, PushStep, TypeInv, PushState
  <2>2. push' \in PushState /\ push'.batch = push.batch /\ push'.attempt = push.attempt
    BY <2>1 DEF TypeInv, PushState
  <2>3. TypeInv'
    BY <1>0, <2>1, <2>2 DEF TypeInv, wire
  <2>4. push.batch = <<>>
    BY <1>0, <2>1 DEF HandsRight
  <2>. QED
    BY <1>0, <2>1, <2>2, <2>3, <2>4, HandStep DEF HandsRight
<1>2. CASE PushTake
  <2>1. PICK n \in 0..Len(queue) : LET batch == SubSeq(queue, 1, n) IN
            /\ BatchTaken(batch)
            /\ push' = IF batch = <<>> THEN [push EXCEPT !.at = "top"]
                       ELSE [at |-> "send", batch |-> batch, attempt |-> 0]
    BY <1>2 DEF PushTake
  <2>. DEFINE batch == SubSeq(queue, 1, n)
  <2>2. push.at = "take" /\ push.batch = <<>> /\ UNCHANGED wire
    BY <1>0, <1>2 DEF PushTake, HandsRight
  <2>3. BatchTaken(batch)
        /\ push' = IF batch = <<>> THEN [push EXCEPT !.at = "top"]
                   ELSE [at |-> "send", batch |-> batch, attempt |-> 0]
    BY <2>1
  <2>. HIDE DEF batch
  <2>4. batch \in Seq(Lines)
    BY <1>0, <2>3, TakenBatch
  <2>5. /\ push' \in PushState /\ push'.batch = batch /\ push'.at \in {"top", "send"}
        /\ push'.at # "send" => batch = <<>>
        /\ push'.attempt \in Nat
    BY <2>2, <2>3, <2>4, RemoteWriteAssumption, SMTT(30) DEF TypeInv, PushState
  <2>6. TypeInv'
    BY <1>0, <2>2, <2>5 DEF TypeInv, wire
  <2>. QED
    BY <1>0, <2>2, <2>3, <2>5, <2>6, TakeStep
<1>3. ASSUME NEW outcome \in Outcomes, PushSend(outcome)
      PROVE  WriterInv'
  <2>1. /\ push.at = "send" /\ Attempted(push.batch, outcome) /\ UNCHANGED <<queue, dropped, queued>>
        /\ push \in PushState
    BY <1>3 DEF PushSend, TypeInv
  <2>2. push.attempt \in 0..(MaxRetries - 1)
    BY <2>1 DEF PushState
  <2>3. \/ /\ SendReturns(push.batch, push.attempt, outcome)
           /\ push' = [at |-> "top", batch |-> <<>>, attempt |-> 0]
        \/ /\ SendRetries(push.attempt, outcome)
           /\ push' = [push EXCEPT !.attempt = @ + 1]
    BY <1>3 DEF PushSend
  <2>4. \/ /\ SendReturns(push.batch, push.attempt, outcome)
           /\ push' = [at |-> "top", batch |-> <<>>, attempt |-> 0]
           /\ push'.at = "top" /\ push'.batch = <<>>
        \/ /\ SendRetries(push.attempt, outcome)
           /\ push' = [push EXCEPT !.attempt = @ + 1]
           /\ push'.at = "send" /\ push'.batch = push.batch /\ push'.attempt = push.attempt + 1
           /\ push'.attempt \in 0..(MaxRetries - 1)
    BY <2>1, <2>2, <2>3, RemoteWriteAssumption DEF PushState, SendRetries, LastAttempt
  <2>5. push' \in PushState
    <3>1. [at |-> "top", batch |-> <<>>, attempt |-> 0] \in PushState
      BY RemoteWriteAssumption, EmptySeq DEF PushState
    <3>2. CASE /\ push' = [push EXCEPT !.attempt = @ + 1]
               /\ push'.at = "send" /\ push'.batch = push.batch
               /\ push'.attempt \in 0..(MaxRetries - 1)
      BY <2>1, <3>2 DEF PushState
    <3>. QED
      BY <2>4, <3>1, <3>2
  <2>6. copies' \in [Lines -> Nat]
    BY <2>1 DEF Attempted, TypeInv
  <2>7. TypeInv'
    BY <1>0, <2>5, <2>6 DEF TypeInv
  <2>. QED
    BY <1>0, <2>1, <2>2, <2>4, <2>7, SendStep
<1>. QED
  BY <1>1, <1>2, <1>3 DEF PushNext
\* The part of the type invariant that a step of the main thread leaves alone.
LEMMA MainTypes ==
    ASSUME TypeInv, stops' \in Seq(Call), copies' \in [Lines -> Nat],
           lock' \in BOOLEAN, main' \in {"polling", "stopping", "exited"},
           running' \in BOOLEAN, signals' \in 0..MaxSignals, UNCHANGED push
    PROVE  TypeInv'
  BY DEF TypeInv

\* An empty call is put on the stack or taken from it.
LEMMA StackStep ==
    ASSUME WriterInv, stops' \in Seq(Call), UNCHANGED <<push, queue, queued, dropped, wire>>,
           \/ stops' = Append(stops, Stop)
           \/ stops = <<>> /\ stops' = <<Stop>>
           \/ stops # <<>> /\ Top.batch = <<>> /\ stops' = Front(stops)
    PROVE  (QueueRight /\ HandsRight /\ PlacesRight /\ CopiesRight)'
<1>. USE DEF WriterInv
<1>1. stops \in Seq(Call) /\ Len(stops) \in Nat /\ Stop \in Call
  BY LenProperties, RemoteWriteAssumption, EmptySeq DEF TypeInv, Stop, Call
<1>2. Stop.at = "join" /\ Stop.batch = <<>> /\ Stop.attempt = 0
  BY DEF Stop
<1>3. CASE stops' = Append(stops, Stop) \/ (stops = <<>> /\ stops' = <<Stop>>)
  <2>1. /\ Len(stops') = Len(stops) + 1 /\ stops'[Len(stops) + 1] = Stop
        /\ \A i \in 1..Len(stops) : stops'[i] = stops[i]
    <3>1. CASE stops' = Append(stops, Stop)
      BY <1>1, <3>1, AppendProperties
    <3>2. CASE stops = <<>> /\ stops' = <<Stop>>
      BY <3>2
    <3>. QED
      BY <1>3, <3>1, <3>2
  <2>. PICK n : n = Len(stops) + 1
    OBVIOUS
  <2>2. HandIds' = HandIds \cup {n} /\ n \notin HandIds
    BY <1>1, <2>1 DEF HandIds
  <2>3. Hand(n)' = Stop
    <3>1. n # 0 /\ stops'[n] = Stop
      BY <1>1, <2>1
    <3>. QED
      BY <3>1 DEF Hand
  <2>4. \A i \in HandIds : Hand(i)' = Hand(i)
    BY <1>1, <2>1 DEF HandIds, Hand
  <2>. QED
    BY <1>2, <2>2, <2>3, <2>4, HandStep DEF HandsRight
<1>4. CASE stops # <<>> /\ Top.batch = <<>> /\ stops' = Front(stops)
  <2>1. Len(stops) \in Nat \ {0} /\ Hand(Len(stops)).batch = <<>>
    BY <1>4, TopOfStack
  <2>2. /\ Len(stops') = Len(stops) - 1
        /\ \A i \in 1..(Len(stops) - 1) : stops'[i] = stops[i]
    <3>1. \A i \in 1..(Len(stops) - 1) : stops[i] \in Call
      BY <1>1, <2>1, ElementOfSeq
    <3>. DEFINE b == Len(stops) - 1
    <3>2. stops' = SubSeq(stops, 1, b) /\ b \in Nat /\ \A i \in 1..b : stops[i] \in Call
      BY <1>4, <2>1, <3>1 DEF Front
    <3>. HIDE DEF b
    <3>3. Len(stops') = b /\ \A i \in 1..b : stops'[i] = stops[i]
      BY <3>2, SubSeqProperties
    <3>. QED
      BY <3>3 DEF b
  <2>3. HandIds = HandIds' \cup {Len(stops)}
    BY <2>1, <2>2 DEF HandIds
  <2>4. \A i \in HandIds' : i \in HandIds /\ Hand(i)' = Hand(i)
    BY <2>1, <2>2 DEF HandIds, Hand
  <2>. QED
    BY <2>1, <2>3, <2>4, HandStep DEF HandsRight
<1>. QED
  BY <1>3, <1>4

\* A call of stop() gets on without a batch.
LEMMA CallStep ==
    ASSUME WriterInv, NEW from \in {"join", "take", "locked"}, NEW to \in {"take", "locked"},
           InStop(from), Continue([Top EXCEPT !.at = to]),
           UNCHANGED <<push, queue, queued, dropped, wire>>
    PROVE  (QueueRight /\ HandsRight /\ PlacesRight /\ CopiesRight)' /\ stops' \in Seq(Call)
<1>. USE DEF WriterInv
<1>. PICK n : n = Len(stops)
  OBVIOUS
<1>. DEFINE call == [Top EXCEPT !.at = to]
<1>1. stops # <<>> /\ Top.at = from
  BY DEF InStop
<1>2. /\ n \in HandIds /\ n # 0 /\ Hand(n) = Top /\ Top \in Call
  BY <1>1, TopOfStack
<1>3. call \in Call /\ call.at = to /\ call.batch = Top.batch /\ call.attempt = Top.attempt
  BY <1>2 DEF Call
<1>4. Top.batch = <<>> /\ Top.attempt = 0
  BY <1>1, <1>2 DEF HandsRight
<1>. HIDE DEF call
<1>5. /\ stops' \in Seq(Call) /\ HandIds' = HandIds
      /\ Hand(n)' = call
      /\ \A j \in HandIds : j # n => Hand(j)' = Hand(j)
  BY <1>1, <1>3, Continued DEF call
<1>6. \A j \in HandIds : /\ Hand(j)'.batch = Hand(j).batch
                         /\ Hand(j)'.attempt = Hand(j).attempt
                         /\ Hand(j)'.at # "send" => Hand(j)'.batch = <<>>
                         /\ Hand(j)'.at \in {"join", "take", "locked"} => j = 0 \/ Hand(j)'.attempt = 0
  <2>1. ASSUME NEW j \in HandIds, j # n
        PROVE  /\ Hand(j)' = Hand(j)
               /\ Hand(j).at # "send" => Hand(j).batch = <<>>
               /\ Hand(j).at \in {"join", "take", "locked"} => j = 0 \/ Hand(j).attempt = 0
    BY <1>5, <2>1 DEF HandsRight
  <2>2. /\ Hand(n)'.batch = <<>> /\ Hand(n).batch = <<>>
        /\ Hand(n)'.attempt = 0 /\ Hand(n).attempt = 0
    BY <1>2, <1>3, <1>4, <1>5
  <2>. QED
    BY <2>1, <2>2
<1>. QED
  BY <1>5, <1>6, HandStep

\* The main thread preserves the invariant.
LEMMA MainNextStep ==
    ASSUME WriterInv, MainNext
    PROVE  WriterInv'
<1>. USE DEF WriterInv
<1>0. push' = push /\ UNCHANGED <<running, signals, queued, dropped>>
  BY DEF MainNext, PollLoopEnds, JoinReturns, StopLocks, StopTakes, StopReturns, StopSends
<1>1. CASE PollLoopEnds
  <2>1. stops = <<>> /\ stops' = <<Stop>> /\ UNCHANGED <<queue, lock, wire>> /\ main' = "stopping"
    BY <1>1 DEF PollLoopEnds
  <2>2. stops' \in Seq(Call)
    BY <2>1, RemoteWriteAssumption, EmptySeq DEF Stop, Call
  <2>. QED
    BY <1>0, <2>1, <2>2, StackStep, MainTypes DEF TypeInv, wire
<1>2. CASE JoinReturns
  BY <1>0, <1>2, CallStep, MainTypes DEF JoinReturns, TypeInv, wire
<1>3. CASE StopLocks
  BY <1>0, <1>3, CallStep, MainTypes DEF StopLocks, TypeInv, wire
<1>4. CASE StopTakes
  <2>1. PICK m \in 0..Len(queue) : LET batch == SubSeq(queue, 1, m) IN
            /\ BatchTaken(batch)
            /\ Released(batch)
            /\ Continue([Top EXCEPT !.at = IF batch = <<>> THEN "returned" ELSE "send",
                                    !.batch = batch])
    BY <1>4 DEF StopTakes
  <2>. DEFINE batch == SubSeq(queue, 1, m)
              call == [Top EXCEPT !.at = IF batch = <<>> THEN "returned" ELSE "send", !.batch = batch]
  <2>. PICK n : n = Len(stops)
    OBVIOUS
  <2>2. BatchTaken(batch) /\ lock' = FALSE /\ Continue(call)
    BY <2>1 DEF Released
  <2>3. stops # <<>> /\ Top.at = "locked" /\ UNCHANGED <<main, wire>>
    BY <1>4 DEF StopTakes, InStop
  <2>4. n \in HandIds /\ n # 0 /\ Hand(n) = Top /\ Top \in Call /\ Top.batch = <<>>
    BY <2>3, TopOfStack DEF HandsRight
  <2>. HIDE DEF batch
  <2>5. batch \in Seq(Lines)
    BY <1>0, <2>2, TakenBatch
  <2>6. /\ call \in Call /\ call.batch = batch /\ call.at \in {"returned", "send"}
        /\ call.at # "send" => batch = <<>>
        /\ call.attempt \in Nat
    <3>. DEFINE at == IF batch = <<>> THEN "returned" ELSE "send"
    <3>1. at \in {"returned", "send"} /\ (at # "send" => batch = <<>>)
      OBVIOUS
    <3>. HIDE DEF at
    <3>2. call = [Top EXCEPT !.at = at, !.batch = batch]
      BY DEF at
    <3>3. call \in Call
      BY <2>4, <2>5, <3>1, <3>2 DEF Call
    <3>4. call.at = at
      BY <2>4, <3>2 DEF Call
    <3>5. call.batch = batch
      BY <2>4, <3>2 DEF Call
    <3>6. call.attempt = Top.attempt /\ Top.attempt \in Nat
      BY <2>4, <3>2, RemoteWriteAssumption DEF Call
    <3>. HIDE DEF call
    <3>. QED
      BY <3>1, <3>3, <3>4, <3>5, <3>6
  <2>. HIDE DEF call
  <2>7. /\ stops' \in Seq(Call) /\ HandIds' = HandIds
        /\ Hand(n)' = call
        /\ \A j \in HandIds : j # n => Hand(j)' = Hand(j)
    BY <1>0, <2>2, <2>3, <2>6, Continued
  <2>8. (QueueRight /\ HandsRight /\ PlacesRight /\ CopiesRight)'
    <3>1. /\ Hand(n).batch = <<>> /\ Hand(n)'.batch = batch
          /\ Hand(n)'.at # "send" => batch = <<>>
          /\ Hand(n)'.at \notin {"join", "take", "locked"}
          /\ Hand(n)'.attempt \in Nat
      BY <2>4, <2>6, <2>7
    <3>2. UNCHANGED <<queued, dropped, wire>>
      BY <1>0, <2>3
    <3>. QED
      BY <2>2, <2>4, <2>7, <3>1, <3>2, TakeStep
  <2>9. TypeInv'
    BY <1>0, <2>2, <2>3, <2>7, MainTypes DEF TypeInv, wire
  <2>. QED
    BY <2>8, <2>9
<1>5. CASE StopReturns
  <2>1. /\ stops # <<>> /\ Top.at = "returned" /\ stops' = Front(stops)
        /\ UNCHANGED <<queue, lock, wire>> /\ main' \in {main, "exited"}
    BY <1>5 DEF StopReturns, InStop
  <2>2. Top.batch = <<>>
    BY <2>1, TopOfStack DEF HandsRight
  <2>3. stops' \in Seq(Call)
    <3>1. Len(stops) - 1 \in Int /\ \A i \in 1..(Len(stops) - 1) : stops[i] \in Call
      BY <2>1, TopOfStack, ElementOfSeq DEF TypeInv
    <3>. QED
      BY <2>1, <3>1, SubSeqProperties DEF Front
  <2>. QED
    BY <1>0, <2>1, <2>2, <2>3, StackStep, MainTypes DEF TypeInv, wire
<1>6. ASSUME NEW outcome \in Outcomes, StopSends(outcome)
      PROVE  WriterInv'
  <2>. PICK n : n = Len(stops)
    OBVIOUS
  <2>. DEFINE done == [Top EXCEPT !.at = "returned", !.batch = <<>>, !.attempt = 0]
              again == [Top EXCEPT !.attempt = @ + 1]
  <2>1. /\ stops # <<>> /\ Top.at = "send" /\ Attempted(Top.batch, outcome)
        /\ UNCHANGED <<queue, lock, main>>
    BY <1>6 DEF StopSends, InStop
  <2>2. n \in HandIds /\ n # 0 /\ Hand(n) = Top /\ Top \in Call
    BY <2>1, TopOfStack
  <2>3. Top.attempt \in 0..(MaxRetries - 1)
    BY <2>2 DEF Call
  <2>4. PICK call \in {done, again} :
           /\ Continue(call)
           /\ \/ call = done /\ SendReturns(Top.batch, Top.attempt, outcome)
              \/ call = again /\ SendRetries(Top.attempt, outcome)
    BY <1>6 DEF StopSends
  <2>5. done \in Call /\ done.at = "returned" /\ done.batch = <<>>
    <3>1. done \in Call
      <4>1. <<>> \in Seq(Lines) /\ 0 \in 0..(MaxRetries - 1)
        BY RemoteWriteAssumption, EmptySeq
      <4>. QED
        BY <2>2, <4>1 DEF Call
    <3>2. done.at = "returned"
      BY <2>2 DEF Call
    <3>3. done.batch = <<>>
      BY <2>2 DEF Call
    <3>. QED
      BY <3>1, <3>2, <3>3
  <2>6. SendRetries(Top.attempt, outcome) =>
           again \in Call /\ again.at = "send" /\ again.batch = Top.batch
             /\ again.attempt = Top.attempt + 1
    BY <2>1, <2>2, <2>3, RemoteWriteAssumption, SMTT(30) DEF Call, SendRetries, LastAttempt
  <2>7. call \in Call
    BY <2>4, <2>5, <2>6
  <2>8. /\ stops' \in Seq(Call) /\ HandIds' = HandIds
        /\ Hand(n)' = call
        /\ \A j \in HandIds : j # n => Hand(j)' = Hand(j)
    BY <1>0, <2>1, <2>4, <2>7, Continued
  <2>9. \/ /\ SendReturns(Hand(n).batch, Hand(n).attempt, outcome)
           /\ Hand(n)'.at \notin {"join", "take", "locked", "send"}
           /\ Hand(n)'.batch = <<>>
        \/ /\ SendRetries(Hand(n).attempt, outcome)
           /\ Hand(n)' = [Hand(n) EXCEPT !.attempt = @ + 1]
           /\ Hand(n)'.at = "send" /\ Hand(n)'.batch = Hand(n).batch
           /\ Hand(n)'.attempt = Hand(n).attempt + 1
    BY <2>2, <2>4, <2>5, <2>6, <2>8
  <2>10. (QueueRight /\ HandsRight /\ PlacesRight /\ CopiesRight)'
    <3>1. /\ Hand(n).at = "send" /\ Hand(n).attempt \in 0..(MaxRetries - 1)
          /\ Attempted(Hand(n).batch, outcome)
      BY <2>1, <2>2, <2>3
    <3>2. UNCHANGED <<queue, queued, dropped>>
      BY <1>0, <2>1
    <3>. QED
      BY <2>2, <2>8, <2>9, <3>1, <3>2, SendStep
  <2>11. copies' \in [Lines -> Nat]
    BY <2>1 DEF Attempted, TypeInv
  <2>12. TypeInv'
    BY <1>0, <2>1, <2>8, <2>11, MainTypes DEF TypeInv
  <2>. QED
    BY <2>10, <2>12
<1>. QED
  BY <1>1, <1>2, <1>3, <1>4, <1>5, <1>6 DEF MainNext

\* A signal puts a call of stop() on the stack.
LEMMA SignalStep ==
    ASSUME WriterInv, Signal
    PROVE  WriterInv'
<1>. USE DEF WriterInv
<1>1. /\ stops' = Append(stops, Stop) /\ running' = FALSE /\ signals' = signals + 1
      /\ signals < MaxSignals
      /\ UNCHANGED <<queue, lock, push, main, queued, dropped, wire>>
  BY DEF Signal
<1>2. stops' \in Seq(Call)
  BY <1>1, AppendProperties, RemoteWriteAssumption, EmptySeq DEF Stop, Call, TypeInv
<1>3. signals' \in 0..MaxSignals
  BY <1>1, RemoteWriteAssumption DEF TypeInv
<1>. QED
  BY <1>1, <1>2, <1>3, StackStep, MainTypes DEF TypeInv, wire

-----------------------------------------------------------------------------
\* The invariant holds however the threads and the signals interleave.
THEOREM WriterInvariant == Spec => []WriterInv
<1>1. ASSUME WriterInv, [Next]_vars PROVE WriterInv'
  <2>1. ASSUME NEW n \in 1..MaxLines, EnqueueRequests(n) PROVE WriterInv'
    <3>1. n \in Nat
      BY RemoteWriteAssumption
    <3>2. TypeInv'
      BY <1>1, <2>1 DEF EnqueueRequests, WriterInv, TypeInv, wire
    <3>. QED
      BY <1>1, <2>1, <3>1, <3>2, QueueStep DEF WriterInv
  <2>2. CASE UNCHANGED vars
    BY <1>1, <2>2 DEF vars, wire, WriterInv, TypeInv, QueueRight, HandsRight, PlacesRight,
       CopiesRight, HandIds, Hand, LinesOf, Gone, Done
  <2>. QED
    BY <1>1, <2>1, <2>2, PushNextStep, MainNextStep, SignalStep DEF Next
<1>. QED
  BY <1>1, WriterInitInv, PTL DEF Spec

\* The client keeps its types.
THEOREM WriterTypeCorrect == Spec => []WriterTypeOK
<1>1. ASSUME WriterInv PROVE WriterTypeOK
  <2>1. \A i \in DOMAIN stops : stops[i] \in Call
    BY <1>1, ElementOfSeq, LenProperties DEF WriterInv, TypeInv
  <2>2. dropped \cup acked \cup givenUp \subseteq Lines
    BY <1>1, Numbers DEF WriterInv, PlacesRight, Done, Lines
  <2>. QED
    BY <1>1, <2>1, <2>2 DEF WriterInv, TypeInv, QueueRight, WriterTypeOK, PushState, Call
<1>. QED
  BY <1>1, WriterInvariant, PTL

\* The queue holds the newest lines in order.
THEOREM QueueIsNewestCorrect == Spec => []QueueIsNewest
<1>1. ASSUME WriterInv PROVE QueueIsNewest
  <2>1. \A l \in dropped : l <= Gone
    BY <1>1, Numbers DEF WriterInv, PlacesRight, Done
  <2>. QED
    BY <1>1, <2>1 DEF WriterInv, QueueRight, QueueIsNewest, Gone
<1>. QED
  BY <1>1, WriterInvariant, PTL

\* No line is stored more than max_retries times, or before it was sent.
THEOREM BoundedDuplicationCorrect == Spec => []BoundedDuplication
<1>1. ASSUME WriterInv PROVE BoundedDuplication
  <2>1. \A l \in ToSet(queue) : l > Gone /\ l \in Lines
    BY <1>1, QueueSet, Numbers DEF WriterInv, Lines
  <2>2. dropped \subseteq Lines
    BY <1>1, Numbers DEF WriterInv, PlacesRight, Done, Lines
  <2>. QED
    BY <1>1, <2>1, <2>2 DEF WriterInv, CopiesRight, BoundedDuplication
<1>. QED
  BY <1>1, WriterInvariant, PTL

\* Every line that was queued is in one place.
THEOREM EveryLineAccountedCorrect == Spec => []EveryLineAccounted
<1>1. ASSUME WriterInv PROVE EveryLineAccounted
  <2>1. InHand = UNION {LinesOf(i) : i \in HandIds}
    <3>1. \A l \in ToSet(push.batch) : \E i \in HandIds : l \in LinesOf(i)
      BY <1>1, LenProperties DEF WriterInv, TypeInv, HandIds, LinesOf, Hand
    <3>2. \A k \in DOMAIN stops : k \in HandIds /\ LinesOf(k) = ToSet(stops[k].batch)
      BY <1>1, LenProperties DEF WriterInv, TypeInv, HandIds, LinesOf, Hand
    <3>3. \A i \in HandIds : LinesOf(i) = ToSet(push.batch)
                             \/ (i \in DOMAIN stops /\ LinesOf(i) = ToSet(stops[i].batch))
      BY <1>1, LenProperties DEF WriterInv, TypeInv, HandIds, LinesOf, Hand
    <3>. QED
      BY <3>1, <3>2, <3>3 DEF InHand
  <2>2. /\ ToSet(queue) = (Gone + 1)..queued
        /\ Gone \in Nat /\ queued \in Nat /\ Gone <= queued
    BY <1>1, QueueSet, Numbers DEF WriterInv
  <2>3. /\ \A l \in InHand : l \in 1..Gone /\ l \notin Done
        /\ \A l \in 1..Gone : l \in Done \/ l \in InHand
        /\ Done \subseteq 1..Gone
        /\ acked \cap givenUp = {} /\ acked \cap dropped = {} /\ givenUp \cap dropped = {}
    BY <1>1, <2>1 DEF WriterInv, PlacesRight
  <2>. DEFINE places == <<ToSet(queue), InHand, acked, givenUp, dropped>>
  <2>4. UNION {places[i] : i \in 1..5} = ToSet(queue) \cup InHand \cup acked \cup givenUp \cup dropped
    <3>1. 1..5 = {1, 2, 3, 4, 5}
      OBVIOUS
    <3>. QED
      BY <3>1
  <2>5. UNION {places[i] : i \in 1..5} = 1..queued
    <3>1. ToSet(queue) \cup InHand \cup Done = 1..queued
      <4>1. 1..queued = (1..Gone) \cup ((Gone + 1)..queued)
        BY <2>2
      <4>2. InHand \cup Done = 1..Gone
        BY <2>3, Zenon
      <4>. QED
        BY <2>2, <4>1, <4>2, Zenon
    <3>. QED
      BY <2>4, <3>1 DEF Done
  <2>6. \A i, j \in 1..5 : i # j => places[i] \cap places[j] = {}
    <3>1. \A l \in ToSet(queue) : l \notin 1..Gone
      BY <2>2
    <3>2. /\ ToSet(queue) \cap InHand = {} /\ ToSet(queue) \cap acked = {}
          /\ ToSet(queue) \cap givenUp = {} /\ ToSet(queue) \cap dropped = {}
          /\ InHand \cap acked = {} /\ InHand \cap givenUp = {} /\ InHand \cap dropped = {}
      BY <2>3, <3>1 DEF Done
    <3>. QED
      BY <2>3, <3>2
  <2>. QED
    BY <2>5, <2>6 DEF EveryLineAccounted
<1>. QED
  BY <1>1, WriterInvariant, PTL
=============================================================================
