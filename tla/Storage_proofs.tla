--------------------------- MODULE Storage_proofs ---------------------------
(***************************************************************************)
(* What the SQLite file holds, for every number and kind of profiles, and  *)
(* wherever a store raises or the process ends: whole batches, beginnings  *)
(* of batches that were interrupted, and everything a store has returned   *)
(* for.  And what the deques hold and a scrape of them shows, however far  *)
(* the flush thread is when its snapshots are taken.                       *)
(***************************************************************************)
EXTENDS Storage, RingBuffer_proofs

ReportRecord == [at : ReportStages, since : Nat, total : Nat, durations : Nat]

ProfilesRight ==
    /\ now \in Nat /\ profiles \in Seq(Profile)
    /\ \A i \in Ids : profiles[i].first \in 1..i

\* The flush thread has a batch in its hands unless it drains.
FlushRight ==
    /\ flush \in {"drain", "storeMain", "storeCorrelated", "persist"}
    /\ persisting = (flush = "persist")
    /\ flush # "drain" =>
        /\ Len(profiles) > 0
        /\ \A i \in First..Len(profiles) : profiles[i].first = First

\* Rows that were inserted from the beginning of their batch, the first row of each
\* profile before the others.
FromTheBeginning(rows) ==
    \A r \in rows :
        /\ r[1] \in Ids
        /\ <<r[1], 0>> \in rows
        /\ \A j \in profiles[r[1]].first..(r[1] - 1) : Row(j) \subseteq rows

\* The only profiles of which a row may be missing.
Complete(rows, torn) == \A r \in rows : Row(r[1]) \subseteq rows \/ r[1] \in torn

\* The profile whose rows are being inserted.
Inserting == IF persisting THEN {insert.id} ELSE {}

RowsRight ==
    /\ persisted \subseteq Ids /\ raisedAt \subseteq Ids
    /\ FromTheBeginning(file) /\ Complete(file, raisedAt)
    /\ FromTheBeginning(file \cup tx) /\ Complete(file \cup tx, raisedAt \cup Inserting)
    /\ PersistedSurvives

\* What has been inserted of the batch is in the transaction.
InsertRight ==
    /\ insert \in [id : Nat, dep : Nat]
    /\ persisting =>
        /\ insert.id \in First..(Len(profiles) + 1)
        /\ \A j \in First..(insert.id - 1) : Row(j) \subseteq tx
        /\ insert.id \in Ids =>
            /\ insert.dep <= profiles[insert.id].deps
            /\ \A k \in 0..(insert.dep - 1) : <<insert.id, k>> \in tx

\* The requests a report has counted are in the file.
ReportRight ==
    /\ IsFiniteSet(file) /\ IsFiniteSet(tx)
    /\ report \in ReportRecord
    /\ report.at = "percentiles" =>
        report.total > 0 /\ report.total <= Cardinality(Matching(report.since))
    /\ PercentilesCoverCount

StorageInv == ProfilesRight /\ FlushRight /\ RowsRight /\ InsertRight /\ ReportRight

-----------------------------------------------------------------------------
\* The file only grows, and with it what matches.
LEMMA MatchingGrows ==
    ASSUME IsFiniteSet(file'), file \subseteq file', NEW since \in Nat
    PROVE  /\ Cardinality(Matching(since)) \in Nat /\ Cardinality(Matching(since))' \in Nat
           /\ Cardinality(Matching(since)) <= Cardinality(Matching(since))'
<1>1. Matching(since) \subseteq Matching(since)' /\ Matching(since)' \subseteq file'
  BY DEF Matching
<1>2. IsFiniteSet(Matching(since)')
  BY <1>1, FS_Subset
<1>. QED
  BY <1>1, <1>2, FS_Subset, FS_CardinalityType

\* The profiles a batch ends with.
LEMMA BatchFacts ==
    ASSUME ProfilesRight, FlushRight
    PROVE  /\ Len(profiles) \in Nat /\ Ids = 1..Len(profiles)
           /\ \A i \in Ids : profiles[i] \in Profile /\ profiles[i].deps \in Nat
                             /\ profiles[i].first \in 1..i
           /\ flush # "drain" => /\ First \in Ids
                                 /\ \A i \in First..Len(profiles) : i \in Ids /\ profiles[i].first = First
<1>1. Len(profiles) \in Nat /\ Ids = 1..Len(profiles)
  BY LenProperties DEF ProfilesRight, Ids
<1>2. \A i \in Ids : profiles[i] \in Profile
  BY <1>1, ElementOfSeq DEF ProfilesRight
<1>3. \A i \in Ids : profiles[i] \in Profile /\ profiles[i].deps \in Nat /\ profiles[i].first \in 1..i
  <2>1. \A i \in Ids : profiles[i].deps \in Nat
    BY <1>2 DEF Profile
  <2>. QED
    BY <1>2, <2>1 DEF ProfilesRight
<1>4. ASSUME flush # "drain"
      PROVE  First \in Ids /\ \A i \in First..Len(profiles) : i \in Ids /\ profiles[i].first = First
  <2>1. Len(profiles) \in Ids /\ Len(profiles) > 0
    BY <1>1, <1>4 DEF FlushRight
  <2>2. First \in 1..Len(profiles)
    BY <1>3, <2>1 DEF First
  <2>3. \A i \in First..Len(profiles) : i \in Ids
    BY <1>1, <2>2
  <2>. QED
    BY <1>1, <1>4, <2>2, <2>3 DEF FlushRight
<1>. QED
  BY <1>1, <1>3, <1>4

\* Nothing of the backend changes.
LEMMA BackendStutters ==
    ASSUME StorageInv, now' \in Nat, UNCHANGED <<profiles, flush, backendVars>>
    PROVE  StorageInv'
  BY DEF StorageInv, backendVars, txVars, ProfilesRight, FlushRight, RowsRight, InsertRight,
         ReportRight, FromTheBeginning, Complete, Inserting, PersistedSurvives,
         PercentilesCoverCount, Matching, Row, Ids, First

\* At first there is neither a profile nor a row.
LEMMA StorageInitInv == Init => StorageInv
<1>. SUFFICES ASSUME Init PROVE StorageInv
  OBVIOUS
<1>1. ProfilesRight /\ Ids = {}
  BY EmptySeq DEF Init, ProfilesRight, Ids
<1>2. RowsRight /\ InsertRight
  BY <1>1 DEF Init, BackendInit, RowsRight, InsertRight, FromTheBeginning, Complete,
              PersistedSurvives
<1>3. ReportRight
  BY FS_EmptySet DEF Init, BackendInit, NoReport, ReportRight, ReportRecord, ReportStages,
              PercentilesCoverCount
<1>4. FlushRight
  BY DEF Init, BackendInit, FlushRight
<1>. QED
  BY <1>1, <1>2, <1>3, <1>4 DEF StorageInv

\* A batch comes behind the profiles there are.
LEMMA DrainAppends ==
    ASSUME StorageInv, NEW n \in 1..MaxBatch, NEW new \in [1..n -> NewProfiles],
             NEW ts \in Stamps(n), Drain(new, ts)
    PROVE  LET len == Len(profiles)
           IN  /\ len \in Nat /\ profiles' \in Seq(Profile) /\ Len(profiles') = len + n
               /\ Ids = 1..len /\ Ids' = 1..(len + n)
               /\ \A i \in Ids : i \in Ids' /\ profiles'[i] = profiles[i] /\ Row(i)' = Row(i)
               /\ \A i \in (len + 1)..(len + n) :
                     /\ profiles'[i].first = len + 1
                     /\ profiles'[i].ts \in 0..now /\ profiles'[i].ts >= drained
                     /\ \A j \in (len + 1)..i : profiles'[j].ts <= profiles'[i].ts
               /\ First' = len + 1
<1>. USE DEF StorageInv
<1>. DEFINE len == Len(profiles)
            batch == [i \in 1..n |-> [ts |-> ts[i], correlated |-> new[i].correlated,
                                      system |-> new[i].system, deps |-> new[i].deps,
                                      first |-> len + 1]]
<1>1. /\ flush = "drain" /\ flush' = "storeMain" /\ profiles' = profiles \o batch
  BY DEF Drain
<1>2. len \in Nat /\ now \in Nat /\ DOMAIN batch = 1..n /\ Ids = 1..len
  BY BatchFacts DEF ProfilesRight
<1>8. \A i \in 1..n : /\ ts[i] \in 0..now /\ ts[i] \in Nat /\ drained <= ts[i]
                      /\ \A j \in 1..i : ts[j] <= ts[i]
  BY <1>2 DEF Stamps
<1>3. /\ batch \in Seq(Profile) /\ Len(batch) = n
      /\ \A i \in 1..n : batch[i].first = len + 1 /\ batch[i].ts = ts[i]
  <2>1. ASSUME NEW i \in 1..n
        PROVE  /\ new[i].correlated \in BOOLEAN /\ new[i].system \in BOOLEAN /\ new[i].deps \in Nat
    BY StorageAssumption
  <2>2. \A i \in 1..n : batch[i] \in Profile /\ batch[i].first = len + 1 /\ batch[i].ts = ts[i]
    BY <1>2, <1>8, <2>1 DEF Profile
  <2>. QED
    BY <2>2
<1>. HIDE DEF batch
<1>4. /\ profiles' \in Seq(Profile) /\ Len(profiles') = len + n
      /\ \A i \in 1..(len + n) :
            profiles'[i] = IF i <= len THEN profiles[i] ELSE batch[i - len]
  BY <1>1, <1>3, ConcatProperties DEF ProfilesRight
<1>5. /\ Ids' = 1..(len + n)
      /\ \A i \in Ids : i \in Ids' /\ profiles'[i] = profiles[i] /\ Row(i)' = Row(i)
  BY <1>2, <1>4 DEF Ids, Row
<1>6. ASSUME NEW i \in (len + 1)..(len + n)
      PROVE  /\ profiles'[i].first = len + 1
             /\ profiles'[i].ts \in 0..now /\ profiles'[i].ts >= drained
             /\ \A j \in (len + 1)..i : profiles'[j].ts <= profiles'[i].ts
  <2>1. ASSUME NEW j \in (len + 1)..i
        PROVE  /\ j - len \in 1..n /\ j - len \in 1..(i - len)
               /\ profiles'[j] = batch[j - len]
    <3>1. j - len \in 1..n /\ ~ (j <= len) /\ j \in 1..(len + n) /\ j - len \in 1..(i - len)
      BY <1>2
    <3>. QED
      BY <1>4, <3>1
  <2>2. i \in (len + 1)..i
    BY <1>2
  <2>3. /\ profiles'[i].first = len + 1 /\ profiles'[i].ts = ts[i - len]
        /\ i - len \in 1..n
    BY <1>3, <2>1, <2>2
  <2>4. \A j \in (len + 1)..i : profiles'[j].ts = ts[j - len] /\ j - len \in 1..(i - len)
    BY <1>3, <2>1
  <2>. QED
    BY <1>8, <2>3, <2>4
<1>7. First' = len + 1
  <2>1. len + n \in (len + 1)..(len + n)
    BY <1>2
  <2>. QED
    BY <1>4, <1>6, <2>1 DEF First
<1>. QED
  BY <1>2, <1>4, <1>5, <1>6, <1>7

LEMMA DrainStep ==
    ASSUME StorageInv, NEW n \in 1..MaxBatch, NEW new \in [1..n -> NewProfiles],
             NEW ts \in Stamps(n), Drain(new, ts)
    PROVE  StorageInv'
<1>. USE DEF StorageInv
<1>. DEFINE len == Len(profiles)
<1>1. flush = "drain" /\ flush' = "storeMain" /\ now' = now /\ UNCHANGED backendVars
  BY DEF Drain
<1>2. len \in Nat /\ now \in Nat /\ Ids = 1..len
  BY DrainAppends DEF ProfilesRight
<1>4. profiles' \in Seq(Profile) /\ Len(profiles') = len + n /\ First' = len + 1
  BY DrainAppends
<1>5. /\ Ids' = 1..(len + n)
      /\ \A i \in Ids : i \in Ids' /\ profiles'[i] = profiles[i] /\ Row(i)' = Row(i)
  BY DrainAppends
<1>6. \A i \in (len + 1)..(len + n) : profiles'[i].first = len + 1
  BY DrainAppends
<1>7. ProfilesRight'
  <2>1. \A i \in Ids' : profiles'[i].first \in 1..i
    <3>1. \A i \in Ids' : i \in Ids \/ i \in (len + 1)..(len + n)
      BY <1>2, <1>5
    <3>2. \A i \in Ids : profiles'[i].first \in 1..i
      BY <1>5 DEF ProfilesRight
    <3>3. \A i \in (len + 1)..(len + n) : profiles'[i].first \in 1..i
      BY <1>2, <1>6
    <3>. QED
      BY <3>1, <3>2, <3>3
  <2>. QED
    BY <1>1, <1>2, <1>4, <2>1 DEF ProfilesRight
<1>8. FlushRight'
  BY <1>1, <1>2, <1>4, <1>6 DEF FlushRight, backendVars, txVars
<1>9. UNCHANGED <<file, tx, persisting, insert, persisted, raisedAt, report>> /\ ~ persisting
  BY <1>1 DEF backendVars, txVars, FlushRight
<1>10. RowsRight'
  <2>1. \A rows : FromTheBeginning(rows) =>
           \A r \in rows : /\ r[1] \in Ids' /\ Row(r[1])' = Row(r[1]) /\ <<r[1], 0>> \in rows
                           /\ \A j \in profiles'[r[1]].first..(r[1] - 1) : Row(j)' \subseteq rows
    <3>1. ASSUME NEW rows, FromTheBeginning(rows), NEW r \in rows,
                 NEW j \in profiles'[r[1]].first..(r[1] - 1)
          PROVE  Row(j)' \subseteq rows
      <4>1. r[1] \in Ids /\ profiles'[r[1]] = profiles[r[1]] /\ profiles[r[1]].first \in 1..r[1]
        BY <1>5, <3>1 DEF FromTheBeginning, ProfilesRight
      <4>2. j \in Ids
        BY <1>2, <4>1
      <4>3. Row(j) \subseteq rows
        BY <3>1, <4>1 DEF FromTheBeginning
      <4>4. Row(j)' = Row(j)
        BY <1>5, <4>2
      <4>. QED
        BY <4>3, <4>4
    <3>. QED
      BY <1>5, <3>1 DEF FromTheBeginning
  <2>2. FromTheBeginning(file)' /\ FromTheBeginning(file \cup tx)'
    BY <1>9, <2>1 DEF RowsRight, FromTheBeginning
  <2>3. Complete(file, raisedAt)' /\ Complete(file \cup tx, raisedAt \cup Inserting)'
    <3>1. /\ \A r \in file : Row(r[1])' = Row(r[1])
          /\ \A r \in file \cup tx : Row(r[1])' = Row(r[1])
      BY <2>1 DEF RowsRight
    <3>2. Inserting = {} /\ Inserting' = {}
      BY <1>9 DEF Inserting
    <3>. QED
      BY <1>9, <3>1, <3>2 DEF RowsRight, Complete
  <2>4. PersistedSurvives' /\ persisted' \subseteq Ids' /\ raisedAt' \subseteq Ids'
    BY <1>5, <1>9 DEF RowsRight, PersistedSurvives
  <2>. QED
    BY <2>2, <2>3, <2>4 DEF RowsRight
<1>11. InsertRight'
  BY <1>9 DEF InsertRight
<1>12. ReportRight'
  BY <1>9 DEF ReportRight, PercentilesCoverCount, Matching
<1>. QED
  BY <1>7, <1>8, <1>10, <1>11, <1>12

\* The store of a batch begins.
LEMMA StoreStep ==
    ASSUME StorageInv, FlushStoreMain \/ FlushStoreCorrelated
    PROVE  StorageInv'
<1>. USE DEF StorageInv
<1>1. profiles' = profiles /\ now' = now /\ flush # "drain" /\ ~ persisting
  BY DEF FlushStoreMain, FlushStoreCorrelated, FlushRight
<1>2. ProfilesRight' /\ Ids' = Ids
  BY <1>1 DEF ProfilesRight, Ids
<1>3. CASE FlushStoreMain
  <2>1. flush' = "storeCorrelated" /\ UNCHANGED backendVars
    BY <1>3 DEF FlushStoreMain
  <2>2. FlushRight'
    BY <1>1, <2>1 DEF FlushRight, First, backendVars, txVars
  <2>3. RowsRight' /\ InsertRight' /\ ReportRight'
    BY <1>1, <2>1 DEF backendVars, txVars, RowsRight, InsertRight, ReportRight, FromTheBeginning,
       Complete, Inserting, PersistedSurvives, PercentilesCoverCount, Matching, Row, Ids, First
  <2>. QED
    BY <1>2, <2>2, <2>3
<1>4. CASE FlushStoreCorrelated
  <2>1. /\ flush' = "persist" /\ persisting' = TRUE /\ insert' = [id |-> First, dep |-> 0]
        /\ UNCHANGED <<file, tx, persisted, raisedAt, report>>
    BY <1>4 DEF FlushStoreCorrelated, StoreProfiles
  <2>2. FlushRight'
    BY <1>1, <2>1 DEF FlushRight, First
  <2>3. First' = First /\ First \in Ids /\ Ids = 1..Len(profiles) /\ profiles[First].deps \in Nat
    BY <1>1, BatchFacts DEF First
  <2>4. RowsRight'
    BY <1>1, <2>1 DEF RowsRight, FromTheBeginning,
       Complete, Inserting, PersistedSurvives, Row, Ids
  <2>5. InsertRight'
    <3>1. insert'.id = First /\ insert'.dep = 0 /\ insert' \in [id : Nat, dep : Nat]
      BY <2>1, <2>3
    <3>. QED
      BY <1>1, <1>2, <2>3, <3>1, LenProperties DEF InsertRight, ProfilesRight
  <2>6. ReportRight'
    BY <2>1 DEF ReportRight, PercentilesCoverCount, Matching
  <2>. QED
    BY <1>2, <2>2, <2>4, <2>5, <2>6
<1>. QED
  BY <1>3, <1>4

\* One row more in the transaction.
LEMMA InsertStep ==
    ASSUME StorageInv, InsertRow, UNCHANGED <<profiles, now, flush>>
    PROVE  StorageInv'
<1>. USE DEF StorageInv
<1>. DEFINE id == insert.id
            dep == insert.dep
            row == <<id, dep>>
<1>1. /\ persisting /\ id \in Ids
      /\ tx' = tx \cup {row}
      /\ insert' = IF dep < profiles[id].deps THEN [insert EXCEPT !.dep = @ + 1]
                   ELSE [id |-> id + 1, dep |-> 0]
      /\ UNCHANGED <<file, persisting, persisted, raisedAt, report>>
  BY DEF InsertRow
<1>2. /\ Ids = 1..Len(profiles) /\ Len(profiles) \in Nat /\ Ids' = Ids /\ First' = First
      /\ \A i : Row(i)' = Row(i)
      /\ First \in Ids /\ id \in First..Len(profiles) /\ profiles[id].first = First
      /\ dep \in 0..profiles[id].deps /\ profiles[id].deps \in Nat
      /\ insert \in [id : Nat, dep : Nat]
  <2>1. flush # "drain"
    BY <1>1 DEF FlushRight
  <2>2. Ids' = Ids /\ First' = First /\ \A i : Row(i)' = Row(i)
    BY DEF Ids, First, Row
  <2>. QED
    BY <1>1, <2>1, <2>2, BatchFacts DEF InsertRight
<1>3. /\ \A j \in First..(id - 1) : Row(j) \subseteq tx
      /\ \A k \in 0..(dep - 1) : <<id, k>> \in tx
  BY <1>1 DEF InsertRight
<1>4. row[1] = id /\ row[2] = dep
  OBVIOUS
<1>5. <<id, 0>> \in tx'
  BY <1>1, <1>2, <1>3
<1>6. ProfilesRight' /\ FlushRight'
  BY <1>1, <1>2 DEF ProfilesRight, FlushRight
<1>7. insert' \in [id : Nat, dep : Nat]
      /\ \/ dep < profiles[id].deps /\ insert'.id = id /\ insert'.dep = dep + 1
         \/ dep = profiles[id].deps /\ insert'.id = id + 1 /\ insert'.dep = 0
  BY <1>1, <1>2
<1>. HIDE DEF id, dep, row
<1>8. FromTheBeginning(file)' /\ FromTheBeginning(file \cup tx)'
  <2>1. FromTheBeginning(file)'
    BY <1>1, <1>2 DEF RowsRight, FromTheBeginning
  <2>2. ASSUME NEW r \in file \cup tx
        PROVE  /\ r[1] \in Ids /\ <<r[1], 0>> \in (file \cup tx)'
               /\ \A j \in profiles[r[1]].first..(r[1] - 1) : Row(j) \subseteq (file \cup tx)'
    BY <1>1 DEF RowsRight, FromTheBeginning
  <2>3. /\ row[1] \in Ids /\ <<row[1], 0>> \in (file \cup tx)'
        /\ \A j \in profiles[row[1]].first..(row[1] - 1) : Row(j) \subseteq (file \cup tx)'
    BY <1>1, <1>2, <1>3, <1>4, <1>5
  <2>. DEFINE all == file \cup tx
              all1 == file' \cup tx'
  <2>4. all1 = all \cup {row}
    BY <1>1
  <2>5. ASSUME NEW r \in all1
        PROVE  /\ r[1] \in Ids' /\ <<r[1], 0>> \in all1
               /\ \A j \in profiles'[r[1]].first..(r[1] - 1) : Row(j)' \subseteq all1
    <3>1. CASE r \in all
      BY <1>2, <2>2, <3>1
    <3>2. CASE r = row
      BY <1>2, <2>3, <3>2
    <3>. QED
      BY <2>4, <3>1, <3>2
  <2>6. FromTheBeginning(file \cup tx)'
    BY <2>5 DEF FromTheBeginning
  <2>. QED
    BY <2>1, <2>6
<1>9. \A j \in First..(insert'.id - 1) : Row(j) \subseteq tx'
  <2>1. CASE insert'.id = id
    BY <1>1, <1>3, <2>1
  <2>2. CASE dep = profiles[id].deps /\ insert'.id = id + 1
    <3>1. Row(id) \subseteq tx'
      <4>1. ASSUME NEW k \in 0..profiles[id].deps PROVE <<id, k>> \in tx'
        BY <1>1, <1>2, <1>3, <2>2 DEF row
      <4>. QED
        BY <4>1 DEF Row
    <3>2. \A j \in First..(insert'.id - 1) : j = id \/ j \in First..(id - 1)
      BY <1>2, <2>2
    <3>. QED
      BY <1>1, <1>3, <3>1, <3>2
  <2>. QED
    BY <1>7, <2>1, <2>2
<1>10. Complete(file, raisedAt)' /\ Complete(file \cup tx, raisedAt \cup Inserting)'
  <2>1. Complete(file, raisedAt)'
    BY <1>1, <1>2 DEF RowsRight, Complete
  <2>2. Inserting = {id} /\ Inserting' = {insert'.id}
    BY <1>1 DEF Inserting, id
  <2>3. Row(id) \subseteq tx' \/ id \in Inserting'
    <3>1. insert'.id = id + 1 => id \in First..(insert'.id - 1)
      BY <1>2
    <3>. QED
      BY <1>7, <1>9, <2>2, <3>1
  <2>4. \A r \in (file \cup tx)' : r \in file \cup tx \/ r[1] = id
    BY <1>1, <1>4
  <2>5. \A r \in file \cup tx : Row(r[1]) \subseteq file \cup tx \/ r[1] \in raisedAt \/ r[1] = id
    BY <2>2 DEF RowsRight, Complete
  <2>. QED
    BY <1>1, <1>2, <2>1, <2>3, <2>4, <2>5 DEF Complete
<1>11. RowsRight'
  BY <1>1, <1>2, <1>8, <1>10 DEF RowsRight, PersistedSurvives
<1>12. InsertRight'
  <2>1. insert'.id \in First..(Len(profiles) + 1)
    BY <1>2, <1>7
  <2>2. insert'.id \in Ids => /\ insert'.dep <= profiles[insert'.id].deps
                              /\ \A k \in 0..(insert'.dep - 1) : <<insert'.id, k>> \in tx'
    <3>1. CASE insert'.id = id /\ insert'.dep = dep + 1 /\ dep < profiles[id].deps
      <4>1. \A k \in 0..dep : k = dep \/ k \in 0..(dep - 1)
        BY <1>2
      <4>2. \A k \in 0..dep : <<id, k>> \in tx'
        BY <1>1, <1>3, <4>1 DEF row
      <4>. QED
        BY <1>2, <3>1, <4>2
    <3>2. CASE insert'.dep = 0
      BY <3>2, BatchFacts
    <3>. QED
      BY <1>7, <3>1, <3>2
  <2>. QED
    BY <1>2, <1>7, <1>9, <2>1, <2>2 DEF InsertRight
<1>13. ReportRight'
  BY <1>1, FS_AddElement DEF ReportRight, PercentilesCoverCount, Matching
<1>. QED
  BY <1>6, <1>11, <1>12, <1>13

\* The batch is committed.
LEMMA CommitStep ==
    ASSUME StorageInv, Commit, UNCHANGED <<profiles, now>>, flush' = "drain"
    PROVE  StorageInv'
<1>. USE DEF StorageInv
<1>1. /\ persisting /\ insert.id \notin Ids
      /\ file' = file \cup tx /\ tx' = {} /\ persisting' = FALSE
      /\ persisted' = persisted \cup (First..Len(profiles))
      /\ UNCHANGED <<insert, raisedAt, report>>
  BY DEF Commit, First
<1>2. /\ Ids = 1..Len(profiles) /\ Len(profiles) \in Nat /\ Ids' = Ids
      /\ \A i : Row(i)' = Row(i)
      /\ First \in Ids /\ First..Len(profiles) \subseteq Ids
  <2>1. flush # "drain"
    BY <1>1 DEF FlushRight
  <2>. QED
    BY <2>1, BatchFacts DEF Ids, Row
<1>3. insert.id = Len(profiles) + 1
  BY <1>1, <1>2 DEF InsertRight
<1>4. \A j \in First..Len(profiles) : Row(j) \subseteq tx
  BY <1>1, <1>2, <1>3 DEF InsertRight
<1>5. FromTheBeginning(file)' /\ FromTheBeginning(file \cup tx)'
  <2>1. (file \cup tx)' = file \cup tx /\ file' = file \cup tx
    BY <1>1
  <2>. QED
    BY <1>2, <2>1 DEF RowsRight, FromTheBeginning
<1>6. Complete(file, raisedAt)' /\ Complete(file \cup tx, raisedAt \cup Inserting)'
  <2>1. \A r \in file \cup tx : r[1] # insert.id
    BY <1>1 DEF RowsRight, FromTheBeginning
  <2>2. Inserting = {insert.id} /\ Inserting' = {}
    BY <1>1 DEF Inserting
  <2>3. Complete(file \cup tx, raisedAt)
    BY <2>1, <2>2 DEF RowsRight, Complete
  <2>4. (file \cup tx)' = file \cup tx /\ file' = file \cup tx
    BY <1>1
  <2>. QED
    BY <1>1, <1>2, <2>2, <2>3, <2>4 DEF Complete
<1>7. RowsRight'
  BY <1>1, <1>2, <1>4, <1>5, <1>6 DEF RowsRight, PersistedSurvives
<1>8. ProfilesRight' /\ FlushRight' /\ InsertRight'
  BY <1>1, <1>2 DEF ProfilesRight, FlushRight, InsertRight
<1>9. ReportRight'
  <2>1. IsFiniteSet(file') /\ IsFiniteSet(tx')
    BY <1>1, FS_EmptySet, FS_Union DEF ReportRight
  <2>2. report.since \in Nat /\ report.total \in Nat
    BY DEF ReportRight, ReportRecord
  <2>3. /\ Cardinality(Matching(report.since)) \in Nat
        /\ Cardinality(Matching(report.since)') \in Nat
        /\ Cardinality(Matching(report.since)) <= Cardinality(Matching(report.since)')
    <3>. PICK since : since = report.since
      OBVIOUS
    <3>1. file \subseteq file' /\ Matching(since)' = Matching(report.since)'
      BY <1>1 DEF Matching
    <3>. QED
      BY <2>1, <2>2, <3>1, MatchingGrows
  <2>. QED
    BY <1>1, <2>1, <2>2, <2>3 DEF ReportRight, PercentilesCoverCount
<1>. QED
  BY <1>7, <1>8, <1>9

\* A store raises, or the process ends: the transaction is kept or lost as a whole.
LEMMA InterruptedStep ==
    ASSUME StorageInv, UNCHANGED <<profiles, now, file, insert, persisted, report>>,
           flush' = "drain", persisting' = FALSE, tx' \in {tx, {}},
           raisedAt' \subseteq Ids, raisedAt \subseteq raisedAt',
           tx' = {} \/ \A i \in Inserting \cap Ids : i \in raisedAt'
    PROVE  StorageInv'
<1>. USE DEF StorageInv
<1>1. Ids' = Ids /\ (\A i : Row(i)' = Row(i)) /\ Inserting' = {}
  BY DEF Ids, Row, Inserting
<1>2. ProfilesRight' /\ FlushRight' /\ InsertRight'
  BY <1>1 DEF ProfilesRight, FlushRight, InsertRight
<1>3. FromTheBeginning(file)' /\ FromTheBeginning(file \cup tx)'
  <2>1. (file \cup tx)' \in {file, file \cup tx}
    OBVIOUS
  <2>. QED
    BY <1>1, <2>1 DEF RowsRight, FromTheBeginning
<1>4. Complete(file, raisedAt)' /\ Complete(file \cup tx, raisedAt \cup Inserting)'
  <2>1. Complete(file, raisedAt)'
    BY <1>1 DEF RowsRight, Complete
  <2>2. CASE tx' = {}
    <3>1. (file \cup tx)' = file
      BY <2>2
    <3>. QED
      BY <1>1, <2>1, <3>1 DEF Complete
  <2>3. CASE tx' = tx /\ \A i \in Inserting \cap Ids : i \in raisedAt'
    <3>1. \A r \in file \cup tx : Row(r[1]) \subseteq file \cup tx \/ r[1] \in raisedAt'
      BY <2>3 DEF RowsRight, FromTheBeginning, Complete
    <3>2. (file \cup tx)' = file \cup tx
      BY <2>3
    <3>. QED
      BY <1>1, <2>1, <3>1, <3>2 DEF Complete
  <2>. QED
    BY <2>2, <2>3
<1>5. RowsRight'
  BY <1>1, <1>3, <1>4 DEF RowsRight, PersistedSurvives
<1>6. ReportRight'
  BY FS_EmptySet DEF ReportRight, PercentilesCoverCount, Matching
<1>. QED
  BY <1>2, <1>5, <1>6

\* A statement of a report.
LEMMA ReportStep ==
    ASSUME StorageInv, ReportNext, UNCHANGED <<profiles, now, flush>>
    PROVE  StorageInv'
<1>. USE DEF StorageInv
<1>1. UNCHANGED <<file, tx, persisting, insert, persisted, raisedAt>>
  BY DEF ReportNext, ReportCounts, ReportPercentiles, ReportJoins, ReportRows, txVars
<1>2. ProfilesRight' /\ FlushRight' /\ RowsRight' /\ InsertRight'
  BY <1>1 DEF ProfilesRight, FlushRight, RowsRight, InsertRight, FromTheBeginning, Complete,
              Inserting, PersistedSurvives, Row, Ids, First
<1>3. \A since : /\ Matching(since)' = Matching(since)
                 /\ Cardinality(Matching(since)) \in Nat
                 /\ Cardinality(Matching(since)) = 0 => Matching(since) = {}
  <2>1. ASSUME NEW since PROVE IsFiniteSet(Matching(since)) /\ Matching(since)' = Matching(since)
    <3>1. Matching(since) \subseteq file
      BY DEF Matching
    <3>. QED
      BY <1>1, <3>1, FS_Subset DEF ReportRight, Matching
  <2>. QED
    BY <2>1, FS_CardinalityType, FS_EmptySet
<1>4. ReportRight'
  <2>1. ASSUME NEW since \in Ids, ReportCounts(since) PROVE ReportRight'
    <3>1. report' = [at |-> IF Matching(since) = {} THEN "rows" ELSE "percentiles",
                     since |-> since, total |-> Cardinality(Matching(since)), durations |-> 0]
      BY <2>1 DEF ReportCounts
    <3>2. since \in Nat
      BY BatchFacts
    <3>3. report' \in ReportRecord
      BY <1>3, <3>1, <3>2 DEF ReportRecord, ReportStages
    <3>4. /\ report'.at \in {"rows", "percentiles"}
          /\ report'.at = "percentiles" => Matching(since) # {}
          /\ report'.total = Cardinality(Matching(since)) /\ report'.since = since
      BY <3>1
    <3>. QED
      BY <1>1, <1>3, <3>3, <3>4 DEF ReportRight, PercentilesCoverCount
  <2>2. CASE ReportPercentiles
    <3>1. /\ report.at = "percentiles" /\ report \in ReportRecord
          /\ report' = [report EXCEPT !.at = "joins",
                                      !.durations = Cardinality(Matching(report.since))]
      BY <2>2 DEF ReportPercentiles, ReportRight
    <3>2. report' \in ReportRecord
      BY <1>3, <3>1 DEF ReportRecord, ReportStages
    <3>3. report'.at = "joins"
      BY <3>1 DEF ReportRecord
    <3>4. report'.durations = Cardinality(Matching(report.since))
      BY <3>1 DEF ReportRecord
    <3>5. report'.total = report.total
      BY <3>1 DEF ReportRecord
    <3>. QED
      BY <1>1, <3>1, <3>2, <3>3, <3>4, <3>5 DEF ReportRight, PercentilesCoverCount
  <2>3. CASE ReportJoins
    <3>1. report' \in ReportRecord /\ report'.at \in {"rows", "raised"}
      BY <2>3 DEF ReportJoins, NoReport, ReportRight, ReportRecord, ReportStages
    <3>. QED
      BY <1>1, <3>1 DEF ReportRight, PercentilesCoverCount
  <2>4. CASE ReportRows
    <3>1. report \in ReportRecord
          /\ report' = [NoReport EXCEPT !.at = "printed"]
      BY <2>4 DEF ReportRows, ReportRight
    <3>2. report' \in ReportRecord
      BY <3>1 DEF NoReport, ReportRecord, ReportStages
    <3>3. report'.at = "printed"
      BY <3>1 DEF NoReport
    <3>. QED
      BY <1>1, <3>2, <3>3 DEF ReportRight, PercentilesCoverCount
  <2>. QED
    BY <2>1, <2>2, <2>3, <2>4 DEF ReportNext
<1>. QED
  BY <1>2, <1>4

-----------------------------------------------------------------------------
\* The file stays sound whatever fails, ends or is read in between.
THEOREM StorageInvariant == Spec => []StorageInv
<1>1. ASSUME StorageInv, [Next]_vars PROVE StorageInv'
  <2>1. CASE Tick \/ ScrapeAggregates \/ ScrapeCorrelated \/ ScrapeUncorrelated \/ UNCHANGED vars
    <3>1. now' \in Nat /\ UNCHANGED <<profiles, flush, backendVars>>
      BY <1>1, <2>1 DEF Tick, ScrapeAggregates, ScrapeCorrelated, ScrapeUncorrelated, vars,
                        StorageInv, ProfilesRight
    <3>. QED
      BY <1>1, <3>1, BackendStutters
  <2>2. CASE Persist
    <3>1. UNCHANGED <<profiles, now>> /\ flush' = IF persisting' THEN "persist" ELSE "drain"
      BY <2>2 DEF Persist
    <3>2. CASE InsertRow
      <4>1. flush = "persist" /\ flush' = "persist"
        BY <1>1, <3>1, <3>2 DEF InsertRow, StorageInv, FlushRight
      <4>. QED
        BY <1>1, <3>1, <3>2, <4>1, InsertStep
    <3>3. CASE Commit
      BY <1>1, <3>1, <3>3, CommitStep DEF Commit
    <3>4. CASE StoreRaises
      <4>1. /\ flush' = "drain" /\ persisting' = FALSE /\ tx' \in {tx, {}}
            /\ UNCHANGED <<file, insert, persisted, report>>
        BY <3>1, <3>4 DEF StoreRaises
      <4>2. /\ raisedAt' \subseteq Ids /\ raisedAt \subseteq raisedAt'
            /\ \A i \in Inserting \cap Ids : i \in raisedAt'
        BY <1>1, <3>4 DEF StoreRaises, Inserting, StorageInv, RowsRight
      <4>. QED
        BY <1>1, <3>1, <4>1, <4>2, InterruptedStep
    <3>. QED
      BY <2>2, <3>2, <3>3, <3>4 DEF Persist
  <2>3. CASE Restart
    <3>1. /\ UNCHANGED <<profiles, now, file, insert, persisted, raisedAt, report>>
          /\ flush' = "drain" /\ persisting' = FALSE /\ tx' = {}
      BY <2>3 DEF Restart, Reopen
    <3>2. raisedAt' \subseteq Ids /\ raisedAt \subseteq raisedAt'
      BY <1>1, <3>1 DEF StorageInv, RowsRight
    <3>. QED
      BY <1>1, <3>1, <3>2, InterruptedStep
  <2>4. CASE reader = "report" /\ ReportNext /\ UNCHANGED <<now, flush, profiles>>
    BY <1>1, <2>4, ReportStep
  <2>5. ASSUME NEW n \in 1..MaxBatch, NEW new \in [1..n -> NewProfiles],
             NEW ts \in Stamps(n), Drain(new, ts) PROVE StorageInv'
    BY <1>1, <2>5, DrainStep
  <2>6. CASE FlushStoreMain \/ FlushStoreCorrelated
    BY <1>1, <2>6, StoreStep
  <2>. QED
    BY <1>1, <2>1, <2>2, <2>3, <2>4, <2>5, <2>6 DEF Next
<1>. QED
  BY <1>1, StorageInitInv, PTL DEF Spec

\* What a store has returned for is in the file, however often the process ends.
THEOREM PersistedSurvivesCorrect == Spec => []PersistedSurvives
<1>1. StorageInv => PersistedSurvives
  BY DEF StorageInv, RowsRight
<1>. QED
  BY <1>1, StorageInvariant, PTL

\* No report sees a torn profile or a gap in a batch.
THEOREM BeginningOfBatchCorrect == Spec => []BeginningOfBatch
<1>1. StorageInv => BeginningOfBatch
  BY DEF StorageInv, RowsRight, FromTheBeginning, Complete, BeginningOfBatch
<1>. QED
  BY <1>1, StorageInvariant, PTL

\* The percentiles of a report are taken over at least the requests it counted.
THEOREM PercentilesCoverCountCorrect == Spec => []PercentilesCoverCount
<1>1. StorageInv => PercentilesCoverCount
  BY DEF StorageInv, ReportRight
<1>. QED
  BY <1>1, StorageInvariant, PTL

-----------------------------------------------------------------------------
(* The types. *)

\* A profile that is there keeps its rows.
LEMMA RowsStay ==
    ASSUME StorageInv, [Next]_vars
    PROVE  \A i \in Ids : i \in Ids' /\ profiles'[i] = profiles[i] /\ Row(i)' = Row(i)
<1>1. CASE UNCHANGED profiles
  BY <1>1 DEF Ids, Row
<1>2. ASSUME NEW n \in 1..MaxBatch, NEW new \in [1..n -> NewProfiles],
             NEW ts \in Stamps(n), Drain(new, ts)
      PROVE  \A i \in Ids : i \in Ids' /\ profiles'[i] = profiles[i] /\ Row(i)' = Row(i)
  BY <1>2, DrainAppends
<1>. QED
  BY <1>1, <1>2 DEF Next, vars, Tick, FlushStoreMain, FlushStoreCorrelated, Persist, Restart,
     ScrapeAggregates, ScrapeCorrelated, ScrapeUncorrelated

EveryRow == UNION {Row(i) : i \in Ids}

\* Every row is a row of a profile.
LEMMA RowsTypeStep ==
    ASSUME StorageInv, file \subseteq EveryRow, tx \subseteq EveryRow, [Next]_vars
    PROVE  file' \subseteq EveryRow' /\ tx' \subseteq EveryRow'
<1>1. EveryRow \subseteq EveryRow'
  BY RowsStay DEF EveryRow
<1>2. CASE UNCHANGED <<file, tx>>
  BY <1>1, <1>2
<1>3. CASE InsertRow
  <2>1. /\ insert.id \in Ids /\ insert.dep \in 0..profiles[insert.id].deps
    BY <1>3, BatchFacts DEF InsertRow, StorageInv, InsertRight
  <2>2. <<insert.id, insert.dep>> \in Row(insert.id)
    BY <2>1 DEF Row
  <2>3. <<insert.id, insert.dep>> \in EveryRow
    BY <2>1, <2>2 DEF EveryRow
  <2>. QED
    BY <1>1, <1>3, <2>3 DEF InsertRow
<1>4. CASE Commit
  BY <1>1, <1>4 DEF Commit
<1>5. CASE StoreRaises \/ Restart
  BY <1>1, <1>5 DEF StoreRaises, Restart, Reopen
<1>. QED
  BY <1>2, <1>3, <1>4, <1>5 DEF Next, vars, Tick, Drain, FlushStoreMain, FlushStoreCorrelated,
     StoreProfiles, Persist, ScrapeAggregates, ScrapeCorrelated, ScrapeUncorrelated, ReportNext,
     ReportCounts, ReportPercentiles, ReportJoins, ReportRows, backendVars, txVars

EntryOf(i) == [id |-> i, ts |-> profiles[i].ts, correlated |-> profiles[i].correlated,
               system |-> profiles[i].system]

\* The entry of a profile.
LEMMA EntryOfType ==
    ASSUME StorageInv, NEW i \in Ids
    PROVE  /\ EntryOf(i) \in Entry /\ EntryOf(i).id = i /\ EntryOf(i).ts = profiles[i].ts
           /\ EntryOf(i).correlated = profiles[i].correlated
           /\ EntryOf(i).system = profiles[i].system
<1>1. i \in Nat /\ profiles[i] \in Profile
  BY BatchFacts DEF StorageInv
<1>2. profiles[i].ts \in Nat
  BY <1>1 DEF Profile
<1>3. profiles[i].correlated \in BOOLEAN
  BY <1>1 DEF Profile
<1>4. profiles[i].system \in BOOLEAN
  BY <1>1 DEF Profile
<1>. QED
  BY <1>1, <1>2, <1>3, <1>4 DEF EntryOf, Entry

\* The entries the flush thread stores.
LEMMA EntriesProperties ==
    ASSUME StorageInv, flush # "drain"
    PROVE  /\ Entries \in Seq(Entry) /\ Len(Entries) = Len(profiles) - First + 1
           /\ \A k \in 1..(Len(profiles) - First + 1) : Entries[k] = EntryOf(First + k - 1)
<1>. DEFINE c == Len(profiles) - First + 1
<1>1. c \in Nat /\ \A k \in 1..c : First + k - 1 \in Ids
  BY BatchFacts DEF StorageInv
<1>2. Entries = [k \in 1..c |-> EntryOf(First + k - 1)]
  BY DEF Entries, EntryOf
<1>. HIDE DEF c
<1>3. \A k \in 1..c : EntryOf(First + k - 1) \in Entry
  BY <1>1, EntryOfType
<1>4. Entries \in Seq(Entry) /\ Len(Entries) = c /\ \A k \in 1..c : Entries[k] = EntryOf(First + k - 1)
  BY <1>1, <1>2, <1>3
<1>. QED
  BY <1>4 DEF c

\* The ids of a sequence of entries.
LEMMA EntryIdsProperties ==
    ASSUME NEW s \in Seq(Entry)
    PROVE  /\ EntryIds(s) \in Seq(Nat) /\ Len(EntryIds(s)) = Len(s)
           /\ DOMAIN EntryIds(s) = 1..Len(s) /\ Len(s) \in Nat
           /\ \A k \in 1..Len(s) : EntryIds(s)[k] = s[k].id /\ s[k] \in Entry
<1>1. /\ Len(s) \in Nat /\ DOMAIN s = 1..Len(s)
      /\ \A k \in 1..Len(s) : s[k] \in Entry /\ s[k].id \in Nat
  <2>1. \A k \in 1..Len(s) : s[k] \in Entry
    BY ElementOfSeq
  <2>. QED
    BY <2>1, LenProperties DEF Entry
<1>2. EntryIds(s) = [k \in 1..Len(s) |-> s[k].id]
  BY <1>1 DEF EntryIds
<1>. QED
  BY <1>1, <1>2

\* The rows that are given are ids, those of the entries that are shown.
LEMMA RowsProperties ==
    ASSUME NEW s \in Seq(Entry), NEW given
    PROVE  /\ Rows(s, given) \in Seq(Nat)
           /\ \A k \in 1..Len(s) : ~ s[k].system /\ s[k].id \notin given
                                     => s[k].id \in ToSet(Rows(s, given))
<1>. DEFINE P == {i \in DOMAIN s : ~ s[i].system /\ s[i].id \notin given}
            r == At(s, P)
<1>1. DOMAIN s = 1..Len(s)
  BY LenProperties
<1>2. P \in SUBSET (1..Len(s)) /\ \A k \in 1..Len(s) : ~ s[k].system /\ s[k].id \notin given => k \in P
  BY <1>1
<1>3. Rows(s, given) = EntryIds(r)
  BY DEF Rows
<1>. HIDE DEF P
<1>4. /\ r \in Seq(Entry) /\ Len(r) = Cardinality(P)
      /\ \A k \in 1..Cardinality(P) : r[k] = s[Nth(P, k)]
      /\ \A i \in P : \E k \in 1..Cardinality(P) : Nth(P, k) = i
  BY <1>2, AtProperties
<1>. HIDE DEF r
<1>5. ASSUME NEW i \in P PROVE s[i].id \in ToSet(EntryIds(r))
  <2>1. PICK k \in 1..Len(r) : r[k] = s[i]
    BY <1>4
  <2>. QED
    BY <1>4, <2>1, EntryIdsProperties DEF ToSet
<1>. QED
  BY <1>2, <1>3, <1>4, <1>5, EntryIdsProperties

\* What is in two sequences is in the one or the other.
LEMMA ToSetConcat ==
    ASSUME NEW S, NEW s \in Seq(S), NEW t \in Seq(S)
    PROVE  ToSet(s \o t) = ToSet(s) \cup ToSet(t)
<1>. DEFINE m == Len(s)
            n == Len(t)
            u == s \o t
<1>1. /\ m \in Nat /\ n \in Nat /\ DOMAIN s = 1..m /\ DOMAIN t = 1..n
  BY LenProperties
<1>2. /\ u \in Seq(S) /\ Len(u) = m + n
      /\ \A i \in 1..(m + n) : u[i] = IF i <= m THEN s[i] ELSE t[i - m]
  BY ConcatProperties
<1>3. DOMAIN u = 1..(m + n)
  BY <1>2, LenProperties
<1>. HIDE DEF m, n, u
<1>4. ASSUME NEW i \in 1..(m + n) PROVE u[i] \in ToSet(s) \cup ToSet(t)
  <2>1. CASE i <= m
    <3>1. i \in 1..m
      BY <1>1, <2>1
    <3>2. u[i] = s[i]
      BY <1>2, <2>1
    <3>. QED
      BY <1>1, <3>1, <3>2 DEF ToSet
  <2>2. CASE i > m
    <3>1. i - m \in 1..n /\ ~ (i <= m)
      BY <1>1, <2>2
    <3>. QED
      BY <1>1, <1>2, <3>1 DEF ToSet
  <2>. QED
    BY <1>1, <2>1, <2>2
<1>5. ASSUME NEW i \in 1..m PROVE s[i] \in ToSet(u)
  <2>1. i \in 1..(m + n) /\ i <= m
    BY <1>1
  <2>. QED
    BY <1>2, <1>3, <2>1 DEF ToSet
<1>6. ASSUME NEW i \in 1..n PROVE t[i] \in ToSet(u)
  <2>1. m + i \in 1..(m + n) /\ ~ (m + i <= m) /\ (m + i) - m = i
    BY <1>1
  <2>. QED
    BY <1>2, <1>3, <2>1 DEF ToSet
<1>7. ToSet(u) \subseteq ToSet(s) \cup ToSet(t)
  BY <1>3, <1>4 DEF ToSet
<1>8. ToSet(s) \subseteq ToSet(u)
  BY <1>1, <1>5 DEF ToSet
<1>9. ToSet(t) \subseteq ToSet(u)
  BY <1>1, <1>6 DEF ToSet
<1>10. ToSet(u) = ToSet(s) \cup ToSet(t)
  BY <1>7, <1>8, <1>9
<1>. QED
  BY <1>10 DEF u

\* What is extended by entries is a sequence of entries.
LEMMA ExtendDequeType ==
    ASSUME NEW S, NEW d \in Seq(S), NEW s \in Seq(S), NEW n \in Nat
    PROVE  ExtendDeque(d, s, n) \in Seq(S)
  BY ConcatProperties, LastNProperties DEF ExtendDeque

\* Every step keeps the types.
LEMMA StorageTypeStep ==
    ASSUME StorageInv, StorageInv', StorageTypeOK, [Next]_vars
    PROVE  StorageTypeOK'
<1>1. /\ profiles' \in Seq(Profile)
      /\ flush' \in {"drain", "storeMain", "storeCorrelated", "persist"}
      /\ (flush' = "persist") = persisting'
      /\ persisting' \in BOOLEAN /\ insert' \in [id : Nat, dep : Nat]
      /\ persisted' \subseteq Ids' /\ raisedAt' \subseteq Ids'
      /\ report' \in [at : ReportStages, since : Nat, total : Nat, durations : Nat]
  BY DEF StorageInv, ProfilesRight, FlushRight, InsertRight, RowsRight, ReportRight, ReportRecord
<1>2. file' \subseteq EveryRow' /\ tx' \subseteq EveryRow'
  BY RowsTypeStep DEF StorageTypeOK, BackendTypeOK, EveryRow
<1>3. migrated' \in BOOLEAN
  BY DEF StorageTypeOK, BackendTypeOK, Next, vars, backendVars, Tick, Drain, FlushStoreMain,
     FlushStoreCorrelated, StoreProfiles, Persist, InsertRow, Commit, StoreRaises, Restart,
     Reopen, CreateTables, ScrapeAggregates, ScrapeCorrelated, ScrapeUncorrelated, ReportNext,
     ReportCounts, ReportPercentiles, ReportJoins, ReportRows
<1>4. BackendTypeOK'
  BY <1>1, <1>2, <1>3 DEF BackendTypeOK, EveryRow
<1>5. Len(profiles) \in Nat /\ Len(profiles') \in Nat /\ Len(profiles) <= Len(profiles')
  <2>1. Len(profiles) \in Nat /\ Len(profiles') \in Nat
    BY <1>1, LenProperties DEF StorageInv, ProfilesRight
  <2>2. ASSUME NEW i \in Ids PROVE i \in Ids'
    BY RowsStay
  <2>. QED
    BY <2>1, <2>2 DEF Ids
<1>6. /\ now' \in 0..MaxTime /\ drained' \in 0..now' /\ restarts' \in 0..MaxRestarts /\ boot' \in 0..Len(profiles')
      /\ reader' \in {"scrape", "report"}
  <2>1. now' \in 0..MaxTime
    <3>1. UNCHANGED now \/ (now < MaxTime /\ now' = now + 1)
      BY DEF Next, vars, Tick, Drain, FlushStoreMain, FlushStoreCorrelated, Persist, Restart,
         ScrapeAggregates, ScrapeCorrelated, ScrapeUncorrelated
    <3>. QED
      BY <3>1, StorageAssumption DEF StorageTypeOK
  <2>6. drained' \in 0..now'
    <3>1. /\ UNCHANGED now \/ (now < MaxTime /\ now' = now + 1)
          /\ UNCHANGED drained \/ (UNCHANGED now /\ drained' = now)
      BY DEF Next, vars, Tick, Drain, FlushStoreMain, FlushStoreCorrelated, Persist, Restart,
         ScrapeAggregates, ScrapeCorrelated, ScrapeUncorrelated
    <3>2. now \in Nat /\ drained \in 0..now
      BY StorageAssumption DEF StorageTypeOK
    <3>. QED
      BY <3>1, <3>2
  <2>2. restarts' \in 0..MaxRestarts
    <3>1. UNCHANGED restarts \/ (restarts < MaxRestarts /\ restarts' = restarts + 1)
      BY DEF Next, vars, Tick, Drain, FlushStoreMain, FlushStoreCorrelated, Persist, Restart,
         ScrapeAggregates, ScrapeCorrelated, ScrapeUncorrelated
    <3>. QED
      BY <3>1, StorageAssumption DEF StorageTypeOK
  <2>3. boot' = boot \/ boot' = Len(profiles)
    BY DEF Next, vars, Tick, Drain, FlushStoreMain, FlushStoreCorrelated, Persist, Restart,
       ScrapeAggregates, ScrapeCorrelated, ScrapeUncorrelated
  <2>4. boot' \in 0..Len(profiles')
    BY <1>5, <2>3 DEF StorageTypeOK
  <2>5. UNCHANGED reader
    BY DEF Next, vars, Tick, Drain, FlushStoreMain, FlushStoreCorrelated, Persist, Restart,
       ScrapeAggregates, ScrapeCorrelated, ScrapeUncorrelated
  <2>. QED
    BY <2>1, <2>2, <2>4, <2>5, <2>6 DEF StorageTypeOK
<1>7. buffer' \in Seq(Entry) /\ correlatedBuffer' \in Seq(Entry)
  <2>1. CASE FlushStoreMain
    <3>1. buffer' = ExtendDeque(buffer, Entries, BufferSize) /\ UNCHANGED correlatedBuffer
      BY <2>1 DEF FlushStoreMain, StoreMain
    <3>2. Entries \in Seq(Entry)
      BY <2>1, EntriesProperties DEF FlushStoreMain
    <3>. QED
      BY <3>1, <3>2, ExtendDequeType, SizeAssumption DEF StorageTypeOK
  <2>2. CASE FlushStoreCorrelated
    <3>1. /\ correlatedBuffer'
                = ExtendDeque(correlatedBuffer, OfKinds(Entries, Correlated), CorrelatedSize)
          /\ UNCHANGED buffer
      BY <2>2 DEF FlushStoreCorrelated, StoreCorrelated
    <3>2. OfKinds(Entries, Correlated) \in Seq(Entry)
      BY <2>2, EntriesProperties, OfKindsIsWhere DEF FlushStoreCorrelated
    <3>. QED
      BY <3>1, <3>2, ExtendDequeType, SizeAssumption DEF StorageTypeOK
  <2>3. CASE Restart
    BY <2>3, EmptySeq DEF Restart
  <2>4. CASE UNCHANGED ringVars
    BY <2>4 DEF StorageTypeOK, ringVars
  <2>. QED
    BY <2>1, <2>2, <2>3, <2>4 DEF Next, vars, Tick, Drain, Persist, ScrapeAggregates,
       ScrapeCorrelated, ScrapeUncorrelated
<1>8. scrape' \in Scrape
  <2>1. CASE ScrapeAggregates
    <3>1. InWindow(buffer, now - ShortWindow) \in Seq(Entry)
      BY InWindowProperties DEF StorageTypeOK
    <3>2. GetAggregates(ShortWindow) \subseteq Nat
      BY <3>1, EntryIdsProperties, ElementOfSeq DEF GetAggregates, ToSet
    <3>3. StoredByNow \in Nat
      BY BatchFacts DEF StoredByNow, StorageInv
    <3>. QED
      BY <2>1, <3>2, <3>3, EmptySeq DEF ScrapeAggregates, Scrape
  <2>2. CASE ScrapeCorrelated
    <3>1. GetCorrelated(now, LongWindow, CorrelatedLimit) \in Seq(Entry)
      BY QueryType, StorageAssumption DEF GetCorrelated, StorageTypeOK
    <3>2. Rows(GetCorrelated(now, LongWindow, CorrelatedLimit), {}) \in Seq(Nat)
      BY <3>1, RowsProperties
    <3>. QED
      BY <2>2, <3>2 DEF ScrapeCorrelated, Scrape, StorageTypeOK
  <2>3. CASE ScrapeUncorrelated
    <3>. DEFINE q == GetUncorrelatedRecent(now, ShortWindow, UncorrelatedLimit)
                r == Rows(q, ToSet(scrape.rows))
    <3>1. q \in Seq(Entry)
      BY QueryType, StorageAssumption DEF GetUncorrelatedRecent, StorageTypeOK
    <3>. HIDE DEF q
    <3>2. r \in Seq(Nat)
      BY <3>1, RowsProperties
    <3>3. scrape' = [scrape EXCEPT !.at = "done", !.rows = @ \o r]
      BY <2>3 DEF ScrapeUncorrelated, q
    <3>. HIDE DEF r
    <3>4. scrape.rows \o r \in Seq(Nat)
      BY <3>2, ConcatProperties DEF StorageTypeOK, Scrape
    <3>. QED
      BY <3>3, <3>4 DEF Scrape, StorageTypeOK
  <2>4. CASE Restart
    BY <2>4, EmptySeq DEF Restart, NoScrape, Scrape, StorageTypeOK
  <2>5. CASE UNCHANGED scrape
    BY <2>5 DEF StorageTypeOK
  <2>. QED
    BY <2>1, <2>2, <2>3, <2>4, <2>5 DEF Next, vars, Tick, Drain, FlushStoreMain,
       FlushStoreCorrelated, Persist
<1>. QED
  BY <1>1, <1>4, <1>6, <1>7, <1>8 DEF StorageTypeOK

\* The types of the initial state.
LEMMA StorageTypeInit == Init => StorageTypeOK
<1>. SUFFICES ASSUME Init PROVE StorageTypeOK
  OBVIOUS
<1>1. BackendTypeOK
  BY DEF Init, BackendInit, NoReport, BackendTypeOK, ReportStages
<1>2. Len(profiles) = 0 /\ profiles \in Seq(Profile) /\ <<>> \in Seq(Entry) /\ <<>> \in Seq(Nat)
  BY EmptySeq DEF Init
<1>3. scrape \in Scrape
  BY <1>2 DEF Init, NoScrape, Scrape
<1>4. now \in 0..MaxTime /\ drained \in 0..now /\ restarts \in 0..MaxRestarts /\ boot \in 0..Len(profiles)
  BY <1>2, StorageAssumption DEF Init
<1>5. /\ flush = "drain" /\ persisting = FALSE /\ reader \in {"scrape", "report"}
      /\ buffer = <<>> /\ correlatedBuffer = <<>>
  BY DEF Init, RingInit, BackendInit
<1>. QED
  BY <1>1, <1>2, <1>3, <1>4, <1>5 DEF StorageTypeOK

\* The variables keep their types.
THEOREM StorageTypeCorrect == Spec => []StorageTypeOK
<1>1. StorageInv /\ StorageInv' /\ StorageTypeOK /\ [Next]_vars => StorageTypeOK'
  BY StorageTypeStep
<1>. QED
  BY <1>1, StorageTypeInit, StorageInvariant, PTL DEF Spec

-----------------------------------------------------------------------------
(* The deques and the scrapes. *)

\* Profiles are numbered in the order of their times, and a restart falls between
\* two batches.
TimesRight ==
    /\ drained \in 0..now
    /\ \A i \in Ids : profiles[i].ts <= drained
    /\ \A i, j \in Ids : i < j => profiles[i].ts <= profiles[j].ts
    /\ flush # "drain" => boot < First

\* The entries of the profiles up to m of the process that runs.
EntriesOf(ps, b, m) ==
    [k \in 1..(m - b) |-> [id |-> b + k, ts |-> ps[b + k].ts,
                           correlated |-> ps[b + k].correlated, system |-> ps[b + k].system]]
Given(m) == EntriesOf(profiles, boot, m)

StoredInMain == IF flush = "storeMain" THEN First - 1 ELSE Len(profiles)

RingsRight ==
    /\ buffer = LastN(Given(StoredInMain), BufferSize)
    /\ correlatedBuffer = LastN(OfKinds(Given(StoredByNow), Correlated), CorrelatedSize)

Recent(i, window) == profiles[i].ts >= now - window
FewerAfter(i, kinds, limit) == Cardinality(After(i, kinds)) < limit

\* What both deques had when the scrape began.
Began == (boot + 1)..scrape.start

CountedRight ==
    \A i \in Began :
        Recent(i, ShortWindow) /\ FewerAfter(i, BOOLEAN, BufferSize) => i \in scrape.counted

CorrelatedShown ==
    \A i \in Began :
        /\ ~ profiles[i].system /\ profiles[i].correlated
        /\ Recent(i, LongWindow)
        /\ FewerAfter(i, {TRUE}, MinOf(CorrelatedLimit, CorrelatedSize))
        => i \in Shown

UncorrelatedShown ==
    \A i \in Began :
        /\ ~ profiles[i].system /\ ~ profiles[i].correlated
        /\ Recent(i, ShortWindow)
        /\ FewerAfter(i, {FALSE}, UncorrelatedLimit)
        /\ FewerAfter(i, BOOLEAN, BufferSize)
        => i \in Shown

ScrapeRight ==
    /\ scrape.at # "idle" => scrape.start <= StoredByNow /\ CountedRight
    /\ scrape.at \in {"correlated", "done"} => CorrelatedShown
    /\ scrape.at = "done" => UncorrelatedShown

ScrapeInv == StorageTypeOK /\ TimesRight /\ RingsRight /\ ScrapeRight

\* What has been stored of the profiles.
LEMMA StoredBounds ==
    ASSUME StorageInv, StorageTypeOK, TimesRight
    PROVE  /\ Len(profiles) \in Nat /\ Ids = 1..Len(profiles) /\ boot \in 0..Len(profiles)
           /\ StoredInMain \in boot..Len(profiles)
           /\ StoredByNow \in boot..StoredInMain
           /\ flush # "drain" => First \in (boot + 1)..Len(profiles)
  BY BatchFacts DEF StorageInv, StorageTypeOK, TimesRight, StoredInMain, StoredByNow

\* The entries given to the deques are in order.
LEMMA GivenProperties ==
    ASSUME StorageInv, StorageTypeOK, TimesRight, NEW m \in boot..Len(profiles)
    PROVE  /\ Given(m) \in Seq(Entry) /\ Len(Given(m)) = m - boot /\ InOrder(Given(m))
           /\ \A k \in 1..(m - boot) : boot + k \in Ids /\ Given(m)[k] = EntryOf(boot + k)
<1>. DEFINE c == m - boot
            g == Given(m)
<1>1. Ids = 1..Len(profiles) /\ Len(profiles) \in Nat /\ boot \in Nat /\ c \in Nat
  BY StoredBounds
<1>2. \A k \in 1..c : boot + k \in Ids
  BY <1>1
<1>3. g = [k \in 1..c |-> EntryOf(boot + k)]
  BY DEF Given, EntriesOf, EntryOf
<1>. HIDE DEF c, g
<1>4. \A k \in 1..c : /\ EntryOf(boot + k) \in Entry
                      /\ EntryOf(boot + k).ts = profiles[boot + k].ts
  BY <1>2, EntryOfType
<1>5. g \in Seq(Entry) /\ Len(g) = c /\ \A k \in 1..c : g[k] = EntryOf(boot + k)
  <2>1. \A k \in 1..c : EntryOf(boot + k) \in Entry
    BY <1>4
  <2>. QED
    BY <1>1, <1>3, <2>1
<1>6. \A k \in 1..c : g[k].ts = profiles[boot + k].ts /\ profiles[boot + k].ts \in Int
  <2>1. \A i \in Ids : profiles[i].ts \in Nat
    BY BatchFacts DEF StorageInv, Profile
  <2>. QED
    BY <1>2, <1>4, <1>5, <2>1
<1>7. \A k, l \in 1..c : k < l => profiles[boot + k].ts <= profiles[boot + l].ts
  <2>. SUFFICES ASSUME NEW k \in 1..c, NEW l \in 1..c, k < l
                PROVE  profiles[boot + k].ts <= profiles[boot + l].ts
    OBVIOUS
  <2>1. boot + k \in Ids /\ boot + l \in Ids /\ boot + k < boot + l
    BY <1>1, <1>2
  <2>. QED
    BY <2>1 DEF TimesRight
<1>8. InOrder(g)
  BY <1>5, <1>6, <1>7 DEF InOrder
<1>. QED
  BY <1>2, <1>5, <1>8 DEF c, g

\* Storing the batch gives the deques the rest of the profiles.
LEMMA GivenBatch ==
    ASSUME StorageInv, StorageTypeOK, TimesRight, flush # "drain"
    PROVE  Given(Len(profiles)) = Given(First - 1) \o Entries
<1>. DEFINE len == Len(profiles)
            a == Given(First - 1)
            b == Given(len)
            e == Entries
            f == First
<1>1. len \in Nat /\ boot \in Nat /\ f \in (boot + 1)..len /\ f - 1 \in boot..len /\ len \in boot..len
  BY StoredBounds
<1>2. /\ a \in Seq(Entry) /\ Len(a) = (f - 1) - boot
      /\ \A k \in 1..((f - 1) - boot) : a[k] = EntryOf(boot + k)
  BY <1>1, GivenProperties
<1>3. /\ b \in Seq(Entry) /\ Len(b) = len - boot
      /\ \A k \in 1..(len - boot) : b[k] = EntryOf(boot + k)
  BY <1>1, GivenProperties
<1>4. /\ e \in Seq(Entry) /\ Len(e) = len - f + 1
      /\ \A k \in 1..(len - f + 1) : e[k] = EntryOf(f + k - 1)
  BY EntriesProperties
<1>. DEFINE u == a \o e
<1>. HIDE DEF len, a, b, e, f
<1>5. /\ u \in Seq(Entry) /\ Len(u) = Len(a) + Len(e)
      /\ \A k \in 1..(Len(a) + Len(e)) : u[k] = IF k <= Len(a) THEN a[k] ELSE e[k - Len(a)]
  BY <1>2, <1>4, ConcatProperties
<1>. HIDE DEF u
<1>6. Len(a) + Len(e) = len - boot /\ Len(u) = len - boot
  BY <1>1, <1>2, <1>4, <1>5
<1>7. ASSUME NEW k \in 1..(len - boot) PROVE u[k] = b[k]
  <2>1. CASE k <= Len(a)
    <3>1. k \in 1..((f - 1) - boot) /\ k \in 1..(Len(a) + Len(e))
      BY <1>1, <1>2, <1>6, <2>1
    <3>2. u[k] = a[k]
      BY <1>5, <2>1, <3>1
    <3>. QED
      BY <1>2, <1>3, <3>1, <3>2
  <2>2. CASE k > Len(a)
    <3>1. /\ k - Len(a) \in 1..(len - f + 1) /\ f + (k - Len(a)) - 1 = boot + k
          /\ ~ (k <= Len(a)) /\ k \in 1..(Len(a) + Len(e))
      BY <1>1, <1>2, <1>6, <2>2
    <3>2. u[k] = e[k - Len(a)]
      BY <1>5, <3>1
    <3>. QED
      BY <1>3, <1>4, <3>1, <3>2
  <2>3. Len(a) \in Int /\ k \in Int
    BY <1>1, <1>2
  <2>. QED
    BY <2>1, <2>2, <2>3
<1>8. u = b
  BY <1>3, <1>5, <1>6, <1>7, SeqEqual
<1>. QED
  BY <1>8 DEF u, a, b, e, len, f

\* The order of the profiles is kept.
LEMMA TimesStep ==
    ASSUME StorageInv, StorageTypeOK, TimesRight, [Next]_vars
    PROVE  TimesRight'
<1>0. /\ Len(profiles) \in Nat /\ Ids = 1..Len(profiles) /\ boot \in 0..Len(profiles)
      /\ now \in Nat /\ \A i \in Ids : profiles[i].ts \in Nat
  <2>1. \A i \in Ids : profiles[i].ts \in Nat
    BY BatchFacts DEF StorageInv, Profile
  <2>. QED
    BY <2>1, StoredBounds, StorageAssumption DEF StorageTypeOK
<1>1. ASSUME NEW n \in 1..MaxBatch, NEW new \in [1..n -> NewProfiles],
             NEW ts \in Stamps(n), Drain(new, ts)
      PROVE  TimesRight'
  <2>. DEFINE len == Len(profiles)
  <2>1. /\ Ids' = 1..(len + n) /\ First' = len + 1
        /\ \A i \in Ids : profiles'[i] = profiles[i]
        /\ \A i \in (len + 1)..(len + n) :
              /\ profiles'[i].ts \in 0..now /\ profiles'[i].ts >= drained
              /\ \A j \in (len + 1)..i : profiles'[j].ts <= profiles'[i].ts
        /\ UNCHANGED <<now, boot>> /\ drained' = now
    BY <1>1, DrainAppends DEF Drain
  <2>2. \A i \in Ids' : i \in Ids \/ i \in (len + 1)..(len + n)
    BY <1>0, <2>1
  <2>3. drained \in 0..now /\ \A i \in Ids' : profiles'[i].ts \in Nat /\ profiles'[i].ts <= now
    <3>1. drained \in 0..now /\ \A i \in Ids : profiles[i].ts <= drained
      BY DEF TimesRight
    <3>2. \A i \in Ids : profiles'[i].ts \in Nat /\ profiles'[i].ts <= now
      BY <1>0, <2>1, <3>1
    <3>3. \A i \in (len + 1)..(len + n) : profiles'[i].ts \in Nat /\ profiles'[i].ts <= now
      BY <1>0, <2>1
    <3>. QED
      BY <2>2, <3>1, <3>2, <3>3
  <2>4. ASSUME NEW i \in Ids', NEW j \in Ids', i < j
        PROVE  profiles'[i].ts <= profiles'[j].ts
    <3>1. CASE i \in Ids /\ j \in Ids
      BY <2>1, <2>4, <3>1 DEF TimesRight
    <3>2. CASE j \in (len + 1)..(len + n)
      <4>1. CASE i \in Ids
        <5>1. profiles'[i].ts = profiles[i].ts
          BY <2>1, <4>1
        <5>2. profiles[i].ts <= drained
          BY <4>1 DEF TimesRight
        <5>3. drained <= profiles'[j].ts
          BY <2>1, <3>2
        <5>4. /\ profiles'[i].ts \in Nat /\ profiles'[j].ts \in Nat
              /\ drained \in Nat
          BY <2>3, <1>0
        <5>. QED
          BY <5>1, <5>2, <5>3, <5>4
      <4>2. CASE i \in (len + 1)..(len + n)
        <5>1. i \in (len + 1)..j
          BY <1>0, <2>4, <3>2, <4>2
        <5>. QED
          BY <2>1, <3>2, <5>1
      <4>. QED
        BY <2>2, <4>1, <4>2
    <3>3. ~ (i \in (len + 1)..(len + n) /\ j \in Ids)
      BY <1>0, <2>4
    <3>. QED
      BY <2>2, <3>1, <3>2, <3>3
  <2>5. boot' < First'
    BY <1>0, <2>1
  <2>. QED
    BY <1>0, <2>1, <2>3, <2>4, <2>5 DEF TimesRight
<1>2. CASE Restart
  BY <1>0, <1>2 DEF Restart, Reopen, TimesRight, Ids
<1>3. CASE UNCHANGED <<profiles, boot, drained>> /\ now' \in {now, now + 1} /\ (flush' # "drain" => flush # "drain")
  <2>1. Ids' = Ids /\ First' = First
    BY <1>3 DEF Ids, First
  <2>. QED
    BY <1>0, <1>3, <2>1 DEF TimesRight
<1>4. CASE Tick
  BY <1>3, <1>4 DEF Tick
<1>5. CASE Persist
  BY <1>3, <1>5 DEF Persist, InsertRow, Commit, StoreRaises, StorageInv, FlushRight
<1>6. CASE FlushStoreMain \/ FlushStoreCorrelated
  BY <1>3, <1>6 DEF FlushStoreMain, FlushStoreCorrelated
<1>7. CASE \/ ScrapeAggregates \/ ScrapeCorrelated \/ ScrapeUncorrelated \/ UNCHANGED vars
           \/ ReportNext /\ UNCHANGED <<now, drained, restarts, boot, flush, reader, scrape, profiles, ringVars>>
  BY <1>3, <1>7 DEF ScrapeAggregates, ScrapeCorrelated, ScrapeUncorrelated, vars
<1>. QED
  BY <1>1, <1>2, <1>4, <1>5, <1>6, <1>7 DEF Next

\* What was given is not changed by profiles that come later.
LEMMA GivenStays ==
    ASSUME StorageInv, StorageTypeOK, TimesRight, NEW m \in boot..Len(profiles),
           NEW ps, \A i \in Ids : ps[i] = profiles[i]
    PROVE  EntriesOf(ps, boot, m) = Given(m)
<1>1. \A k \in 1..(m - boot) : ps[boot + k] = profiles[boot + k]
  BY GivenProperties
<1>. QED
  BY <1>1 DEF Given, EntriesOf

LEMMA RingsStutter ==
    ASSUME ScrapeInv, StorageInv, UNCHANGED <<ringVars, boot>>,
           \A i \in Ids : profiles'[i] = profiles[i],
           StoredInMain' = StoredInMain, StoredByNow' = StoredByNow
    PROVE  RingsRight'
<1>1. StoredInMain \in boot..Len(profiles) /\ StoredByNow \in boot..Len(profiles)
  BY StoredBounds DEF ScrapeInv
<1>2. /\ EntriesOf(profiles', boot, StoredInMain) = Given(StoredInMain)
      /\ EntriesOf(profiles', boot, StoredByNow) = Given(StoredByNow)
  BY <1>1, GivenStays DEF ScrapeInv
<1>3. /\ buffer' = LastN(EntriesOf(profiles', boot', StoredInMain'), BufferSize)
      /\ correlatedBuffer'
            = LastN(OfKinds(EntriesOf(profiles', boot', StoredByNow'), Correlated), CorrelatedSize)
  BY <1>2 DEF ScrapeInv, RingsRight, ringVars
<1>. QED
  BY <1>3 DEF RingsRight, Given

\* Every step keeps the deques the end of what was given to them.
LEMMA RingsStep ==
    ASSUME ScrapeInv, StorageInv, [Next]_vars
    PROVE  RingsRight'
<1>0. /\ StorageTypeOK /\ TimesRight /\ RingsRight
      /\ Len(profiles) \in Nat /\ Len(profiles) \in boot..Len(profiles)
  BY StoredBounds DEF ScrapeInv
<1>1. ASSUME NEW n \in 1..MaxBatch, NEW new \in [1..n -> NewProfiles],
             NEW ts \in Stamps(n), Drain(new, ts)
      PROVE  RingsRight'
  <2>1. /\ UNCHANGED <<ringVars, boot>> /\ flush = "drain" /\ flush' = "storeMain"
        /\ First' - 1 = Len(profiles)
        /\ \A i \in Ids : profiles'[i] = profiles[i]
    <3>1. UNCHANGED <<ringVars, boot>> /\ flush = "drain" /\ flush' = "storeMain"
      BY <1>1 DEF Drain
    <3>2. First' = Len(profiles) + 1 /\ \A i \in Ids : profiles'[i] = profiles[i]
      BY <1>1, DrainAppends
    <3>. QED
      BY <1>0, <3>1, <3>2
  <2>2. StoredInMain' = StoredInMain /\ StoredByNow' = StoredByNow
    BY <2>1 DEF StoredInMain, StoredByNow
  <2>. QED
    BY <2>1, <2>2, RingsStutter
<1>2. ASSUME UNCHANGED <<ringVars, boot, profiles>>, UNCHANGED flush \/ flush = "persist",
             flush' \in {flush, "drain", "persist"}
      PROVE  RingsRight'
  <2>1. First' = First
    BY <1>2 DEF First
  <2>2. StoredInMain' = StoredInMain /\ StoredByNow' = StoredByNow
    BY <1>2, <2>1 DEF StoredInMain, StoredByNow
  <2>. QED
    BY <1>2, <2>2, RingsStutter
<1>3. CASE FlushStoreMain
  <2>. DEFINE a == Given(First - 1)
              b == Given(Len(profiles))
  <2>1. /\ flush = "storeMain" /\ flush' = "storeCorrelated"
        /\ UNCHANGED <<profiles, boot, correlatedBuffer>>
        /\ buffer' = LastN(buffer \o Entries, BufferSize)
    BY <1>3 DEF FlushStoreMain, StoreMain, ExtendDeque
  <2>2. First - 1 \in boot..Len(profiles) /\ Entries \in Seq(Entry) /\ b = a \o Entries
    BY <1>0, <2>1, StoredBounds, EntriesProperties, GivenBatch, SMTT(30)
  <2>3. a \in Seq(Entry) /\ buffer = LastN(a, BufferSize)
    BY <1>0, <2>1, <2>2, GivenProperties DEF RingsRight, StoredInMain
  <2>. HIDE DEF a, b
  <2>4. buffer' = LastN(b, BufferSize)
    BY <2>1, <2>2, <2>3, LastNExtend, SizeAssumption
  <2>5. First' = First
    BY <2>1 DEF First
  <2>6. StoredInMain' = Len(profiles) /\ StoredByNow' = First - 1 /\ StoredByNow = First - 1
    BY <2>1, <2>5 DEF StoredInMain, StoredByNow
  <2>7. correlatedBuffer' = LastN(OfKinds(Given(First - 1), Correlated), CorrelatedSize)
    BY <1>0, <2>1, <2>6 DEF RingsRight
  <2>. QED
    BY <2>1, <2>4, <2>6, <2>7 DEF RingsRight, Given, b
<1>4. CASE FlushStoreCorrelated
  <2>. DEFINE a == Given(First - 1)
              b == Given(Len(profiles))
              x == OfKinds(a, Correlated)
              y == OfKinds(Entries, Correlated)
  <2>1. /\ flush = "storeCorrelated" /\ flush' = "persist"
        /\ UNCHANGED <<profiles, boot, buffer>>
        /\ correlatedBuffer' = LastN(correlatedBuffer \o y, CorrelatedSize)
    BY <1>4 DEF FlushStoreCorrelated, StoreCorrelated, ExtendDeque
  <2>2. First - 1 \in boot..Len(profiles) /\ Entries \in Seq(Entry) /\ b = a \o Entries
    BY <1>0, <2>1, StoredBounds, EntriesProperties, GivenBatch, SMTT(30)
  <2>3. a \in Seq(Entry) /\ correlatedBuffer = LastN(x, CorrelatedSize)
    BY <1>0, <2>1, <2>2, GivenProperties DEF RingsRight, StoredByNow
  <2>4. x \in Seq(Entry) /\ y \in Seq(Entry) /\ OfKinds(b, Correlated) = x \o y
    <3>. HIDE DEF a, b
    <3>1. x \in Seq(Entry) /\ y \in Seq(Entry)
      BY <2>2, <2>3, OfKindsIsWhere
    <3>2. OfKinds(a \o Entries, Correlated) = x \o y
      BY <2>2, <2>3, OfKindsConcat
    <3>. QED
      BY <2>2, <3>1, <3>2
  <2>. HIDE DEF a, b, x, y
  <2>5. correlatedBuffer' = LastN(OfKinds(b, Correlated), CorrelatedSize)
    BY <2>1, <2>3, <2>4, LastNExtend, SizeAssumption
  <2>6. /\ StoredInMain' = Len(profiles) /\ StoredByNow' = Len(profiles)
        /\ StoredInMain = Len(profiles)
    BY <2>1 DEF StoredInMain, StoredByNow
  <2>7. buffer' = LastN(Given(Len(profiles)), BufferSize)
    BY <1>0, <2>1, <2>6 DEF RingsRight
  <2>. QED
    BY <2>1, <2>5, <2>6, <2>7 DEF RingsRight, Given, b
<1>5. CASE Restart
  <2>1. /\ UNCHANGED profiles /\ flush' = "drain" /\ boot' = Len(profiles)
        /\ buffer' = <<>> /\ correlatedBuffer' = <<>>
    BY <1>5 DEF Restart
  <2>2. StoredInMain' = Len(profiles) /\ StoredByNow' = Len(profiles)
    BY <2>1 DEF StoredInMain, StoredByNow
  <2>3. EntriesOf(profiles, Len(profiles), Len(profiles)) = <<>>
    <3>1. 1..(Len(profiles) - Len(profiles)) = {}
      BY <1>0
    <3>. QED
      BY <3>1 DEF EntriesOf
  <2>. QED
    BY <2>1, <2>2, <2>3, EmptyLastN, EmptyOfKinds, SizeAssumption DEF RingsRight, Given
<1>6. CASE Persist
  <2>1. /\ UNCHANGED <<ringVars, boot, profiles>> /\ flush = "persist"
        /\ flush' \in {"drain", "persist"}
    BY <1>6 DEF Persist, InsertRow, Commit, StoreRaises, StorageInv, FlushRight
  <2>. QED
    BY <1>2, <2>1
<1>7. CASE \/ Tick \/ ScrapeAggregates \/ ScrapeCorrelated \/ ScrapeUncorrelated \/ UNCHANGED vars
           \/ ReportNext /\ UNCHANGED <<now, drained, restarts, boot, flush, reader, scrape, profiles, ringVars>>
  BY <1>2, <1>7 DEF Tick, ScrapeAggregates, ScrapeCorrelated, ScrapeUncorrelated, vars
<1>. QED
  BY <1>1, <1>3, <1>4, <1>5, <1>6, <1>7 DEF Next

-----------------------------------------------------------------------------
(* What a scrape shows. *)

\* The profiles after one that is there.
LEMMA AfterProperties ==
    ASSUME StorageInv, NEW i \in Ids, NEW K
    PROVE  /\ After(i, K) \subseteq (i + 1)..Len(profiles)
           /\ IsFiniteSet(After(i, K)) /\ Cardinality(After(i, K)) \in Nat
           /\ After(i, BOOLEAN) = (i + 1)..Len(profiles)
           /\ Cardinality(After(i, BOOLEAN)) = Len(profiles) - i
<1>1. /\ Len(profiles) \in Nat /\ Ids = 1..Len(profiles)
      /\ \A j \in Ids : profiles[j] \in Profile
  BY BatchFacts DEF StorageInv
<1>2. i \in 1..Len(profiles)
  BY <1>1
<1>3. After(i, K) \subseteq (i + 1)..Len(profiles)
  BY DEF After
<1>4. /\ IsFiniteSet((i + 1)..Len(profiles))
      /\ Cardinality((i + 1)..Len(profiles)) = Len(profiles) - i
  <2>1. i + 1 \in Int /\ Len(profiles) \in Int
    BY <1>1, <1>2
  <2>2. /\ IsFiniteSet((i + 1)..Len(profiles))
        /\ Cardinality((i + 1)..Len(profiles))
              = IF i + 1 > Len(profiles) THEN 0 ELSE Len(profiles) - (i + 1) + 1
    BY <2>1, FS_Interval
  <2>. QED
    BY <1>1, <1>2, <2>2
<1>5. IsFiniteSet(After(i, K)) /\ Cardinality(After(i, K)) \in Nat
  BY <1>3, <1>4, FS_Subset, FS_CardinalityType
<1>6. After(i, BOOLEAN) = (i + 1)..Len(profiles)
  <2>1. \A j \in (i + 1)..Len(profiles) : j \in Ids
    BY <1>1, <1>2
  <2>2. \A j \in (i + 1)..Len(profiles) : profiles[j].correlated \in BOOLEAN
    BY <1>1, <2>1 DEF Profile
  <2>. QED
    BY <2>2 DEF After
<1>. QED
  BY <1>3, <1>4, <1>5, <1>6

\* An entry among those that were given, and the entries of a kind behind it.
LEMMA GivenAt ==
    ASSUME StorageInv, StorageTypeOK, TimesRight, NEW m \in boot..Len(profiles),
           NEW i \in (boot + 1)..m, NEW K
    PROVE  LET g == Given(m)
               x == i - boot
               Q == Behind(g, x, K)
           IN  /\ i \in Ids /\ x \in 1..Len(g) /\ g[x] = EntryOf(i)
               /\ IsFiniteSet(Q) /\ Cardinality(Q) <= Cardinality(After(i, K))
               /\ Len(g) - x <= Cardinality(After(i, BOOLEAN))
<1>. DEFINE g == Given(m)
            x == i - boot
            Q == Behind(g, x, K)
            len == Len(profiles)
<1>1. /\ len \in Nat /\ Ids = 1..len /\ boot \in 0..len /\ m \in 0..len /\ i \in 1..m
      /\ x \in 1..(m - boot) /\ boot + x = i
  BY StoredBounds
<1>2. /\ Len(g) = m - boot
      /\ \A k \in 1..(m - boot) : boot + k \in Ids /\ g[k] = EntryOf(boot + k)
  BY GivenProperties
<1>3. i \in Ids /\ x \in 1..Len(g) /\ g[x] = EntryOf(i)
  BY <1>1, <1>2
<1>. DEFINE R == {boot + j : j \in Q}
<1>4. IsFiniteSet(Q) /\ Cardinality(R) = Cardinality(Q)
  <2>1. Q \in SUBSET Int /\ Q \subseteq (x + 1)..Len(g) /\ boot \in Int
    BY <1>1 DEF Behind
  <2>2. x + 1 \in Int /\ Len(g) \in Int
    BY <1>1, <1>2
  <2>3. IsFiniteSet((x + 1)..Len(g))
    BY <2>2, FS_Interval
  <2>4. IsFiniteSet(Q)
    BY <2>1, <2>3, FS_Subset
  <2>. HIDE DEF Q
  <2>. QED
    BY <2>1, <2>4, ShiftedCardinality
<1>5. R \subseteq After(i, K)
  <2>. SUFFICES ASSUME NEW j \in Q PROVE boot + j \in After(i, K)
    OBVIOUS
  <2>1. j \in 1..(m - boot) /\ j > x /\ g[j].correlated \in K
    BY <1>1, <1>2 DEF Behind
  <2>2. boot + j \in (i + 1)..len
    BY <1>1, <2>1
  <2>3. profiles[boot + j].correlated \in K
    BY <1>2, <2>1 DEF EntryOf
  <2>. QED
    BY <2>2, <2>3 DEF After
<1>6. Cardinality(Q) <= Cardinality(After(i, K))
  <2>. HIDE DEF Q, R
  <2>1. IsFiniteSet(After(i, K))
    BY <1>3, AfterProperties
  <2>. QED
    BY <1>4, <1>5, <2>1, FS_Subset
<1>7. Len(g) - x <= Cardinality(After(i, BOOLEAN))
  <2>1. Cardinality(After(i, BOOLEAN)) = len - i
    BY <1>3, AfterProperties
  <2>. HIDE DEF x, g
  <2>. QED
    BY <1>1, <1>2, <2>1
<1>. QED
  BY <1>3, <1>4, <1>6, <1>7

\* get_aggregates() counts what the deque holds and is recent enough.
LEMMA AggregatesCount ==
    ASSUME StorageInv, ScrapeInv, NEW i \in (boot + 1)..StoredByNow,
           Recent(i, ShortWindow), FewerAfter(i, BOOLEAN, BufferSize)
    PROVE  i \in GetAggregates(ShortWindow)
<1>. DEFINE m == StoredInMain
            s == Given(m)
            x == i - boot
            cutoff == now - ShortWindow
            w == InWindow(LastN(s, BufferSize), cutoff)
            k == x - (Len(s) - Len(w))
<1>0. StorageTypeOK /\ TimesRight /\ RingsRight
  BY DEF ScrapeInv
<1>1. m \in boot..Len(profiles) /\ i \in (boot + 1)..m
  BY <1>0, StoredBounds
<1>2. s \in Seq(Entry) /\ InOrder(s)
  BY <1>0, <1>1, GivenProperties
<1>3. /\ i \in Ids /\ x \in 1..Len(s) /\ s[x] = EntryOf(i)
      /\ Len(s) - x <= Cardinality(After(i, BOOLEAN))
  BY <1>0, <1>1, GivenAt
<1>4. cutoff \in Int /\ BufferSize \in Nat
  BY <1>0, StorageAssumption, SizeAssumption DEF StorageTypeOK
<1>5. buffer = LastN(s, BufferSize)
  BY <1>0 DEF RingsRight
<1>6. s[x].ts >= cutoff /\ s[x].id = i
  BY <1>3 DEF Recent, EntryOf
<1>7. Len(s) - x < BufferSize
  <2>1. Cardinality(After(i, BOOLEAN)) \in Nat
    BY <1>3, AfterProperties
  <2>2. Len(s) \in Nat
    BY <1>2, LenProperties
  <2>. HIDE DEF s
  <2>. QED
    BY <1>3, <1>4, <2>1, <2>2 DEF FewerAfter
<1>. HIDE DEF m, s, x, cutoff
<1>8. x > Len(s) - Len(w)
  BY <1>2, <1>3, <1>4, <1>6, <1>7, WindowContains
<1>9. /\ w \in Seq(Entry) /\ Len(s) \in Nat /\ Len(w) \in 0..Len(s)
      /\ \A j \in 1..Len(w) : w[j] = s[Len(s) - Len(w) + j]
  BY <1>2, <1>4, WindowIsEnd, SMTT(30)
<1>. HIDE DEF w
<1>10. k \in 1..Len(w) /\ Len(s) - Len(w) + k = x
  BY <1>3, <1>8, <1>9
<1>11. k \in DOMAIN EntryIds(w) /\ EntryIds(w)[k] = i
  <2>1. w[k] = s[x]
    BY <1>9, <1>10
  <2>. QED
    BY <1>6, <1>9, <1>10, <2>1, EntryIdsProperties
<1>12. i \in ToSet(EntryIds(w))
  BY <1>11 DEF ToSet
<1>. QED
  BY <1>5, <1>12 DEF GetAggregates, cutoff, w

\* get_uncorrelated_recent() finds what the deque holds, is recent enough and is not
\* pushed out by the limit.
LEMMA UncorrelatedHasRow ==
    ASSUME StorageInv, ScrapeInv, NEW i \in (boot + 1)..StoredByNow,
           ~ profiles[i].system, ~ profiles[i].correlated,
           Recent(i, ShortWindow), FewerAfter(i, {FALSE}, UncorrelatedLimit),
           FewerAfter(i, BOOLEAN, BufferSize),
           NEW given, i \notin given
    PROVE  i \in ToSet(Rows(GetUncorrelatedRecent(now, ShortWindow, UncorrelatedLimit), given))
<1>. DEFINE m == StoredInMain
            s == Given(m)
            x == i - boot
            cutoff == now - ShortWindow
            q == Query(LastN(s, BufferSize), cutoff, UncorrelatedLimit, {FALSE})
            Q == Behind(s, x, {FALSE})
<1>0. StorageTypeOK /\ TimesRight /\ RingsRight
  BY DEF ScrapeInv
<1>1. m \in boot..Len(profiles) /\ i \in (boot + 1)..m
  BY <1>0, StoredBounds
<1>2. s \in Seq(Entry) /\ InOrder(s) /\ Len(s) \in Nat
  BY <1>0, <1>1, GivenProperties, LenProperties
<1>3. /\ i \in Ids /\ x \in 1..Len(s) /\ s[x] = EntryOf(i)
      /\ IsFiniteSet(Q) /\ Cardinality(Q) <= Cardinality(After(i, {FALSE}))
      /\ Len(s) - x <= Cardinality(After(i, BOOLEAN))
  BY <1>0, <1>1, GivenAt
<1>4. cutoff \in Int /\ BufferSize \in Nat /\ UncorrelatedLimit \in Nat \ {0}
  BY <1>0, StorageAssumption, SizeAssumption DEF StorageTypeOK
<1>5. buffer = LastN(s, BufferSize)
  BY <1>0 DEF RingsRight
<1>6. s[x].ts >= cutoff /\ s[x].id = i /\ s[x].correlated \in {FALSE} /\ ~ s[x].system
  <2>1. profiles[i].correlated \in BOOLEAN
    BY <1>3, BatchFacts DEF StorageInv, Profile
  <2>2. /\ s[x].ts = profiles[i].ts /\ s[x].correlated = profiles[i].correlated
        /\ s[x].system = profiles[i].system /\ s[x].id = i
    BY <1>3 DEF EntryOf
  <2>3. profiles[i].ts >= cutoff
    BY DEF Recent
  <2>. HIDE DEF s, x, cutoff
  <2>. QED
    BY <2>1, <2>2, <2>3
<1>7. Len(s) - x < BufferSize /\ Cardinality(Q) < UncorrelatedLimit
  <2>1. Cardinality(After(i, BOOLEAN)) \in Nat /\ Cardinality(After(i, {FALSE})) \in Nat
    BY <1>3, AfterProperties
  <2>2. Cardinality(Q) \in Nat
    <3>. HIDE DEF Q
    <3>. QED
      BY <1>3, FS_CardinalityType
  <2>. HIDE DEF s, Q
  <2>. QED
    BY <1>2, <1>3, <1>4, <2>1, <2>2 DEF FewerAfter
<1>. HIDE DEF m, s, x, cutoff
<1>8. PICK k \in 1..Len(q) : q[k] = s[x]
  <2>1. InReach(s, x, BufferSize, cutoff, UncorrelatedLimit, {FALSE})
    BY <1>6, <1>7 DEF InReach
  <2>. QED
    BY <1>2, <1>3, <1>4, <2>1, QueryContains
<1>9. q \in Seq(Entry)
  <2>1. LastN(s, BufferSize) \in Seq(Entry)
    BY <1>2, <1>4, LastNProperties
  <2>. QED
    BY <1>4, <2>1, QueryType
<1>10. q = GetUncorrelatedRecent(now, ShortWindow, UncorrelatedLimit)
  BY <1>5 DEF GetUncorrelatedRecent, Uncorrelated, cutoff
<1>. HIDE DEF q
<1>11. i \in ToSet(Rows(q, given))
  BY <1>6, <1>8, <1>9, RowsProperties
<1>. QED
  BY <1>10, <1>11

\* get_correlated() finds what the other deque holds in the same way.
LEMMA CorrelatedHasRow ==
    ASSUME StorageInv, ScrapeInv, NEW i \in (boot + 1)..StoredByNow,
           ~ profiles[i].system, profiles[i].correlated, Recent(i, LongWindow),
           FewerAfter(i, {TRUE}, MinOf(CorrelatedLimit, CorrelatedSize))
    PROVE  i \in ToSet(Rows(GetCorrelated(now, LongWindow, CorrelatedLimit), {}))
<1>. DEFINE m == StoredByNow
            g == Given(m)
            x == i - boot
            P == {j \in DOMAIN g : g[j].correlated \in Correlated}
            Q == Behind(g, x, {TRUE})
            s == At(g, P)
            r == Rank(P, x)
            B == {j \in P : j > x}
            cutoff == now - LongWindow
            q == Query(LastN(s, CorrelatedSize), cutoff, CorrelatedLimit, Anything)
            C == Behind(s, r, Anything)
<1>0. StorageTypeOK /\ TimesRight /\ RingsRight
  BY DEF ScrapeInv
<1>1. m \in boot..Len(profiles)
  BY <1>0, StoredBounds
<1>2. g \in Seq(Entry) /\ InOrder(g) /\ Len(g) \in Nat /\ DOMAIN g = 1..Len(g)
  BY <1>0, <1>1, GivenProperties, LenProperties
<1>3. /\ i \in Ids /\ x \in 1..Len(g) /\ g[x] = EntryOf(i)
      /\ IsFiniteSet(Q) /\ Cardinality(Q) <= Cardinality(After(i, {TRUE}))
  BY <1>0, <1>1, GivenAt
<1>4. cutoff \in Int /\ CorrelatedSize \in Nat /\ CorrelatedLimit \in Nat \ {0}
  BY <1>0, StorageAssumption, SizeAssumption DEF StorageTypeOK
<1>5. correlatedBuffer = LastN(s, CorrelatedSize)
  BY <1>0 DEF RingsRight, OfKinds
<1>6. g[x].ts >= cutoff /\ g[x].id = i /\ g[x].correlated = TRUE /\ ~ g[x].system
  <2>1. profiles[i].correlated \in BOOLEAN
    BY <1>3, BatchFacts DEF StorageInv, Profile
  <2>. QED
    BY <1>3, <2>1 DEF Recent, EntryOf
<1>7. P \in SUBSET (1..Len(g)) /\ x \in P
  BY <1>2, <1>3, <1>6 DEF Correlated
<1>8. B = Q
  <2>. HIDE DEF g, x
  <2>1. x \in Int /\ Len(g) \in Int /\ DOMAIN g = 1..Len(g)
    BY <1>2, <1>3
  <2>2. \A j \in 1..Len(g) : j > x <=> j \in (x + 1)..Len(g)
    BY <2>1
  <2>3. \A j \in (x + 1)..Len(g) : j \in 1..Len(g)
    BY <1>3, <2>1
  <2>. QED
    BY <2>1, <2>2, <2>3 DEF Behind, Correlated
<1>9. Cardinality(Q) \in Nat /\ Cardinality(Q) < CorrelatedSize /\ Cardinality(Q) < CorrelatedLimit
  <2>1. Cardinality(After(i, {TRUE})) \in Nat
    BY <1>3, AfterProperties
  <2>2. Cardinality(Q) \in Nat
    <3>. HIDE DEF Q
    <3>. QED
      BY <1>3, FS_CardinalityType
  <2>. HIDE DEF Q
  <2>. QED
    BY <1>3, <1>4, <2>1, <2>2 DEF FewerAfter, MinOf
<1>. HIDE DEF m, g, x, cutoff, P, Q
<1>10. /\ s \in Seq(Entry) /\ Len(s) = Cardinality(P) /\ Cardinality(P) \in Nat
       /\ \A k \in 1..Cardinality(P) : s[k] = g[Nth(P, k)]
  BY <1>2, <1>7, AtProperties
<1>11. r \in 1..Cardinality(P) /\ Nth(P, r) = x
  BY <1>2, <1>7, RankProperties, NthProperties
<1>12. Cardinality(B) = Cardinality(P) - r
  BY <1>2, <1>7, RanksAbove
<1>13. InOrder(s)
  BY <1>2, <1>7, AtSorted
<1>. HIDE DEF s, r, B
<1>14. r \in 1..Len(s) /\ s[r] = g[x]
  BY <1>10, <1>11
<1>15. Len(s) - r = Cardinality(Q)
  BY <1>8, <1>10, <1>12
<1>16. Cardinality(C) < CorrelatedLimit
  <2>1. r + 1 \in Int /\ Len(s) \in Int
    BY <1>10, <1>14
  <2>2. /\ IsFiniteSet((r + 1)..Len(s))
        /\ Cardinality((r + 1)..Len(s)) = IF r + 1 > Len(s) THEN 0 ELSE Len(s) - (r + 1) + 1
    BY <2>1, FS_Interval
  <2>3. Cardinality((r + 1)..Len(s)) = Cardinality(Q)
    BY <1>10, <1>14, <1>15, <2>2
  <2>4. C \subseteq (r + 1)..Len(s)
    BY DEF Behind
  <2>. HIDE DEF C
  <2>5. IsFiniteSet(C) /\ Cardinality(C) <= Cardinality(Q)
    BY <2>2, <2>3, <2>4, FS_Subset
  <2>6. Cardinality(C) \in Nat
    BY <2>5, FS_CardinalityType
  <2>. QED
    BY <1>4, <1>9, <2>5, <2>6
<1>17. s[r].ts >= cutoff /\ s[r].correlated \in Anything /\ Len(s) - r < CorrelatedSize
  BY <1>6, <1>9, <1>14, <1>15 DEF Anything
<1>18. PICK k \in 1..Len(q) : q[k] = s[r]
  <2>1. InReach(s, r, CorrelatedSize, cutoff, CorrelatedLimit, Anything)
    BY <1>16, <1>17 DEF InReach
  <2>. QED
    BY <1>4, <1>10, <1>13, <1>14, <2>1, QueryContains
<1>19. q \in Seq(Entry)
  <2>1. LastN(s, CorrelatedSize) \in Seq(Entry)
    BY <1>4, <1>10, LastNProperties
  <2>. QED
    BY <1>4, <2>1, QueryType
<1>20. q = GetCorrelated(now, LongWindow, CorrelatedLimit)
  BY <1>5 DEF GetCorrelated, cutoff
<1>. HIDE DEF q
<1>21. i \in ToSet(Rows(q, {}))
  BY <1>6, <1>14, <1>18, <1>19, RowsProperties
<1>. QED
  BY <1>20, <1>21

\* What a scrape has shown remains enough as time passes and profiles come.
LEMMA ScrapeStutter ==
    ASSUME StorageInv, StorageInv', ScrapeInv, UNCHANGED <<boot, scrape>>,
           now' \in Nat, now <= now',
           \A i \in Ids : i \in Ids' /\ profiles'[i] = profiles[i],
           StoredByNow' \in Int, StoredByNow <= StoredByNow'
    PROVE  ScrapeRight'
<1>0. StorageTypeOK /\ TimesRight /\ ScrapeRight
  BY DEF ScrapeInv
<1>1. /\ boot \in Nat /\ scrape.start \in Nat /\ now \in Nat
      /\ StoredByNow \in boot..Len(profiles) /\ Ids = 1..Len(profiles) /\ Len(profiles) \in Nat
  BY <1>0, StoredBounds DEF StorageTypeOK, Scrape
<1>2. Began' = Began /\ Shown' = Shown
  BY DEF Began, Shown
<1>3. ASSUME scrape.at # "idle", NEW i \in Began PROVE i \in Ids
  <2>1. scrape.start <= StoredByNow
    BY <1>0, <1>3 DEF ScrapeRight
  <2>. QED
    BY <1>1, <1>3, <2>1 DEF Began
<1>4. ASSUME NEW i \in Ids, NEW K, NEW limit \in Int, FewerAfter(i, K, limit)'
      PROVE  FewerAfter(i, K, limit)
  <2>1. i \in Ids' /\ profiles'[i] = profiles[i]
    OBVIOUS
  <2>2. IsFiniteSet(After(i, K)') /\ Cardinality(After(i, K)') \in Nat
    <3>1. i + 1 \in Int /\ Len(profiles') \in Int
      BY <1>1, LenProperties DEF StorageInv, ProfilesRight
    <3>2. IsFiniteSet((i + 1)..Len(profiles'))
      BY <3>1, FS_Interval
    <3>3. After(i, K)' \subseteq (i + 1)..Len(profiles')
      BY DEF After
    <3>. QED
      BY <3>2, <3>3, FS_Subset, FS_CardinalityType
  <2>3. ASSUME NEW j \in After(i, K) PROVE j \in After(i, K)'
    <3>1. j \in Ids /\ j \in (i + 1)..Len(profiles) /\ profiles[j].correlated \in K
      BY <1>1 DEF After
    <3>2. j \in (i + 1)..Len(profiles') /\ profiles'[j].correlated \in K
      BY <1>1, <3>1 DEF Ids
    <3>. QED
      BY <3>2 DEF After
  <2>4. Cardinality(After(i, K)) <= Cardinality(After(i, K)')
    BY <2>2, <2>3, FS_Subset
  <2>5. Cardinality(After(i, K)) \in Nat
    BY AfterProperties
  <2>6. Cardinality(After(i, K)') < limit
    BY <1>4 DEF FewerAfter
  <2>. QED
    BY <2>2, <2>4, <2>5, <2>6 DEF FewerAfter
<1>5. ASSUME NEW i \in Ids, NEW window \in Nat, Recent(i, window)'
      PROVE  Recent(i, window)
  <2>1. profiles[i].ts \in Nat /\ profiles'[i] = profiles[i]
    BY BatchFacts DEF StorageInv, Profile
  <2>. QED
    BY <1>1, <1>5, <2>1 DEF Recent
<1>6. /\ BufferSize \in Int /\ CorrelatedSize \in Int /\ UncorrelatedLimit \in Int
      /\ MinOf(CorrelatedLimit, CorrelatedSize) \in Int
      /\ ShortWindow \in Nat /\ LongWindow \in Nat
  BY StorageAssumption, SizeAssumption DEF MinOf
<1>7. ASSUME scrape.at # "idle" PROVE scrape'.start <= StoredByNow' /\ CountedRight'
  <2>1. scrape.start <= StoredByNow /\ CountedRight
    BY <1>0, <1>7 DEF ScrapeRight
  <2>2. scrape'.start <= StoredByNow'
    BY <1>1, <2>1
  <2>3. ASSUME NEW i \in Began,
               Recent(i, ShortWindow)', FewerAfter(i, BOOLEAN, BufferSize)'
        PROVE  i \in scrape.counted
    <3>1. i \in Ids
      BY <1>3, <1>7
    <3>2. Recent(i, ShortWindow) /\ FewerAfter(i, BOOLEAN, BufferSize)
      BY <1>4, <1>5, <1>6, <2>3, <3>1
    <3>. QED
      BY <2>1, <3>2 DEF CountedRight
  <2>4. CountedRight'
    BY <1>2, <2>3 DEF CountedRight
  <2>. QED
    BY <2>2, <2>4
<1>8. ASSUME scrape.at \in {"correlated", "done"} PROVE CorrelatedShown'
  <2>1. CorrelatedShown
    BY <1>0, <1>8 DEF ScrapeRight
  <2>2. ASSUME NEW i \in Began, ~ profiles'[i].system, profiles'[i].correlated,
               Recent(i, LongWindow)',
               FewerAfter(i, {TRUE}, MinOf(CorrelatedLimit, CorrelatedSize))'
        PROVE  i \in Shown
    <3>1. i \in Ids
      BY <1>3, <1>8
    <3>2. profiles'[i] = profiles[i] /\ Recent(i, LongWindow)
      BY <1>5, <1>6, <2>2, <3>1
    <3>3. FewerAfter(i, {TRUE}, MinOf(CorrelatedLimit, CorrelatedSize))
      BY <1>4, <1>6, <2>2, <3>1
    <3>. QED
      BY <2>1, <2>2, <3>2, <3>3 DEF CorrelatedShown
  <2>. QED
    BY <1>2, <2>2 DEF CorrelatedShown
<1>9. ASSUME scrape.at = "done" PROVE UncorrelatedShown'
  <2>1. UncorrelatedShown
    BY <1>0, <1>9 DEF ScrapeRight
  <2>2. ASSUME NEW i \in Began, ~ profiles'[i].system, ~ profiles'[i].correlated,
               Recent(i, ShortWindow)', FewerAfter(i, {FALSE}, UncorrelatedLimit)',
               FewerAfter(i, BOOLEAN, BufferSize)'
        PROVE  i \in Shown
    <3>1. i \in Ids
      BY <1>3, <1>9
    <3>2. profiles'[i] = profiles[i] /\ Recent(i, ShortWindow)
      BY <1>5, <1>6, <2>2, <3>1
    <3>3. FewerAfter(i, {FALSE}, UncorrelatedLimit) /\ FewerAfter(i, BOOLEAN, BufferSize)
      BY <1>4, <1>6, <2>2, <3>1
    <3>. QED
      BY <2>1, <2>2, <3>2, <3>3 DEF UncorrelatedShown
  <2>. QED
    BY <1>2, <2>2 DEF UncorrelatedShown
<1>. QED
  BY <1>7, <1>8, <1>9 DEF ScrapeRight

\* Steps of a scrape change neither the profiles nor the clock.
LEMMA SameReach ==
    ASSUME UNCHANGED <<profiles, now, boot>>, NEW i, NEW K, NEW limit, NEW window
    PROVE  FewerAfter(i, K, limit)' = FewerAfter(i, K, limit) /\ Recent(i, window)' = Recent(i, window)
<1>1. After(i, K)' = After(i, K)
  BY DEF After
<1>. QED
  BY <1>1 DEF FewerAfter, Recent

\* Every step of a scrape, and of those that store, keeps what it promises.
LEMMA ScrapeStep ==
    ASSUME StorageInv, StorageInv', ScrapeInv, StorageTypeOK', [Next]_vars
    PROVE  ScrapeRight'
<1>0. /\ StorageTypeOK /\ TimesRight /\ ScrapeRight /\ now \in Nat /\ now' \in Nat
      /\ boot \in Nat /\ scrape \in Scrape
      /\ Len(profiles) \in Nat /\ StoredByNow \in boot..Len(profiles)
      /\ flush # "drain" => First \in (boot + 1)..Len(profiles)
  <2>1. StorageTypeOK /\ TimesRight /\ ScrapeRight
    BY DEF ScrapeInv
  <2>2. now \in Nat /\ now' \in Nat /\ boot \in Nat /\ scrape \in Scrape
    BY <2>1, StoredBounds, StorageAssumption DEF StorageTypeOK
  <2>. QED
    BY <2>1, <2>2, StoredBounds
<1>1. ASSUME NEW n \in 1..MaxBatch, NEW new \in [1..n -> NewProfiles],
             NEW ts \in Stamps(n), Drain(new, ts)
      PROVE  ScrapeRight'
  <2>1. UNCHANGED <<boot, scrape, now>> /\ flush = "drain" /\ flush' = "storeMain"
    BY <1>1 DEF Drain
  <2>2. First' = Len(profiles) + 1 /\ \A i \in Ids : i \in Ids' /\ profiles'[i] = profiles[i]
    BY <1>1, DrainAppends
  <2>3. StoredByNow' = StoredByNow
    BY <1>0, <2>1, <2>2 DEF StoredByNow
  <2>. QED
    BY <1>0, <2>1, <2>2, <2>3, ScrapeStutter
<1>2. ASSUME UNCHANGED <<boot, scrape, profiles>>, now' \in {now, now + 1},
             StoredByNow' = StoredByNow \/ StoredByNow' = Len(profiles)
      PROVE  ScrapeRight'
  <2>1. \A i \in Ids : i \in Ids' /\ profiles'[i] = profiles[i]
    BY <1>2 DEF Ids
  <2>2. StoredByNow' \in Int /\ StoredByNow <= StoredByNow' /\ now <= now'
    BY <1>0, <1>2
  <2>. QED
    BY <1>0, <1>2, <2>1, <2>2, ScrapeStutter
<1>3. CASE FlushStoreMain
  <2>1. /\ UNCHANGED <<boot, scrape, profiles, now>>
        /\ flush = "storeMain" /\ flush' = "storeCorrelated"
    BY <1>3 DEF FlushStoreMain
  <2>2. StoredByNow' = StoredByNow
    BY <2>1 DEF StoredByNow, First
  <2>. QED
    BY <1>2, <2>1, <2>2
<1>4. CASE FlushStoreCorrelated
  <2>1. UNCHANGED <<boot, scrape, profiles, now>> /\ flush' = "persist"
    BY <1>4 DEF FlushStoreCorrelated
  <2>2. StoredByNow' = Len(profiles)
    BY <2>1 DEF StoredByNow
  <2>. QED
    BY <1>2, <2>1, <2>2
<1>5. CASE Persist
  <2>1. UNCHANGED <<boot, scrape, profiles, now>> /\ flush' \in {"drain", "persist"}
    BY <1>5 DEF Persist
  <2>2. StoredByNow' = Len(profiles)
    BY <2>1 DEF StoredByNow
  <2>. QED
    BY <1>2, <2>1, <2>2
<1>6. CASE \/ Tick \/ UNCHANGED vars
           \/ ReportNext /\ UNCHANGED <<now, drained, restarts, boot, flush, reader, scrape, profiles, ringVars>>
  <2>1. UNCHANGED <<boot, scrape, profiles, flush>> /\ now' \in {now, now + 1}
    BY <1>6 DEF Tick, vars
  <2>2. StoredByNow' = StoredByNow
    BY <2>1 DEF StoredByNow, First
  <2>. QED
    BY <1>2, <2>1, <2>2
<1>7. CASE Restart
  <2>1. scrape'.at = "idle"
    BY <1>0, <1>7 DEF Restart, NoScrape
  <2>. QED
    BY <2>1 DEF ScrapeRight
<1>8. CASE ScrapeAggregates
  <2>1. /\ UNCHANGED <<profiles, now, boot, flush>>
        /\ scrape'.at = "counted" /\ scrape'.start = StoredByNow
        /\ scrape'.counted = GetAggregates(ShortWindow)
    BY <1>8 DEF ScrapeAggregates
  <2>2. StoredByNow' = StoredByNow
    BY <2>1 DEF StoredByNow, First
  <2>3. ASSUME NEW i \in (boot + 1)..StoredByNow,
               Recent(i, ShortWindow)', FewerAfter(i, BOOLEAN, BufferSize)'
        PROVE  i \in GetAggregates(ShortWindow)
    BY <2>1, <2>3, SameReach, AggregatesCount
  <2>4. CountedRight'
    BY <2>1, <2>3 DEF CountedRight, Began
  <2>5. scrape'.start <= StoredByNow'
    BY <1>0, <2>1, <2>2
  <2>. QED
    BY <2>1, <2>4, <2>5 DEF ScrapeRight
<1>9. ASSUME UNCHANGED <<profiles, now, boot, flush>>, scrape.at # "idle",
             scrape'.start = scrape.start, scrape'.counted = scrape.counted
      PROVE  /\ scrape'.start <= StoredByNow' /\ CountedRight'
             /\ \A i \in Began' : i \in (boot + 1)..StoredByNow
  <2>1. StoredByNow' = StoredByNow /\ Began' = Began
    BY <1>9 DEF StoredByNow, First, Began
  <2>2. scrape.start <= StoredByNow /\ CountedRight
    BY <1>0, <1>9 DEF ScrapeRight
  <2>3. ASSUME NEW i \in Began,
               Recent(i, ShortWindow)', FewerAfter(i, BOOLEAN, BufferSize)'
        PROVE  i \in scrape.counted
    BY <1>9, <2>2, <2>3, SameReach DEF CountedRight
  <2>4. \A i \in Began : i \in (boot + 1)..StoredByNow
    <3>1. scrape.start \in Nat
      BY <1>0 DEF Scrape
    <3>. QED
      BY <1>0, <2>2, <3>1 DEF Began
  <2>. QED
    BY <1>9, <2>1, <2>2, <2>3, <2>4 DEF CountedRight
<1>10. CASE ScrapeCorrelated
  <2>. DEFINE rows == Rows(GetCorrelated(now, LongWindow, CorrelatedLimit), {})
  <2>1. UNCHANGED <<profiles, now, boot, flush>> /\ scrape.at = "counted"
    BY <1>10 DEF ScrapeCorrelated
  <2>2. /\ scrape'.at = "correlated" /\ scrape'.start = scrape.start
        /\ scrape'.counted = scrape.counted /\ scrape'.rows = rows
    BY <1>0, <1>10 DEF ScrapeCorrelated, Scrape
  <2>3. /\ scrape'.start <= StoredByNow' /\ CountedRight'
        /\ \A i \in Began' : i \in (boot + 1)..StoredByNow
    BY <1>9, <2>1, <2>2
  <2>. HIDE DEF rows
  <2>4. ASSUME NEW i \in Began', ~ profiles'[i].system, profiles'[i].correlated,
               Recent(i, LongWindow)',
               FewerAfter(i, {TRUE}, MinOf(CorrelatedLimit, CorrelatedSize))'
        PROVE  i \in ToSet(rows)
    BY <2>1, <2>3, <2>4, SameReach, CorrelatedHasRow DEF rows
  <2>5. CorrelatedShown'
    BY <2>2, <2>4 DEF CorrelatedShown, Shown
  <2>. QED
    BY <2>2, <2>3, <2>5 DEF ScrapeRight
<1>11. CASE ScrapeUncorrelated
  <2>. DEFINE rows == Rows(GetUncorrelatedRecent(now, ShortWindow, UncorrelatedLimit),
                           ToSet(scrape.rows))
  <2>1. UNCHANGED <<profiles, now, boot, flush>> /\ scrape.at = "correlated"
    BY <1>11 DEF ScrapeUncorrelated
  <2>2. /\ scrape'.at = "done" /\ scrape'.start = scrape.start
        /\ scrape'.counted = scrape.counted /\ scrape'.rows = scrape.rows \o rows
    BY <1>0, <1>11 DEF ScrapeUncorrelated, Scrape
  <2>3. /\ scrape'.start <= StoredByNow' /\ CountedRight'
        /\ \A i \in Began' : i \in (boot + 1)..StoredByNow
    BY <1>9, <2>1, <2>2
  <2>4. scrape.rows \in Seq(Nat) /\ rows \in Seq(Nat)
    <3>1. GetUncorrelatedRecent(now, ShortWindow, UncorrelatedLimit) \in Seq(Entry)
      BY <1>0, QueryType, StorageAssumption DEF GetUncorrelatedRecent, StorageTypeOK
    <3>. QED
      BY <1>0, <3>1, RowsProperties DEF Scrape
  <2>. HIDE DEF rows
  <2>5. ToSet(scrape'.rows) = ToSet(scrape.rows) \cup ToSet(rows)
    BY <2>2, <2>4, ToSetConcat
  <2>6. ASSUME NEW i \in Began', ~ profiles'[i].system, profiles'[i].correlated,
               Recent(i, LongWindow)',
               FewerAfter(i, {TRUE}, MinOf(CorrelatedLimit, CorrelatedSize))'
        PROVE  i \in ToSet(scrape.rows)
    <3>1. CorrelatedShown
      BY <1>0, <2>1 DEF ScrapeRight
    <3>2. i \in Began
      BY <2>1, <2>2 DEF Began
    <3>. QED
      BY <2>1, <2>6, <3>1, <3>2, SameReach DEF CorrelatedShown, Shown
  <2>7. ASSUME NEW i \in Began', ~ profiles'[i].system, ~ profiles'[i].correlated,
               Recent(i, ShortWindow)', FewerAfter(i, {FALSE}, UncorrelatedLimit)',
               FewerAfter(i, BOOLEAN, BufferSize)'
        PROVE  i \in ToSet(scrape.rows) \/ i \in ToSet(rows)
    BY <2>1, <2>3, <2>7, SameReach, UncorrelatedHasRow DEF rows
  <2>8. CorrelatedShown'
    BY <2>5, <2>6 DEF CorrelatedShown, Shown
  <2>9. UncorrelatedShown'
    BY <2>5, <2>7 DEF UncorrelatedShown, Shown
  <2>. QED
    BY <2>2, <2>3, <2>8, <2>9 DEF ScrapeRight
<1>. QED
  BY <1>1, <1>3, <1>4, <1>5, <1>6, <1>7, <1>8, <1>10, <1>11 DEF Next

-----------------------------------------------------------------------------
(* The theorems. *)

LEMMA ScrapeInit == Init => ScrapeInv
<1>. SUFFICES ASSUME Init PROVE ScrapeInv
  OBVIOUS
<1>1. StorageTypeOK /\ StorageInv
  BY StorageTypeInit, StorageInitInv
<1>2. Len(profiles) = 0 /\ Ids = {} /\ boot = 0 /\ flush = "drain" /\ drained = 0 /\ now = 0
  BY DEF Init, Ids
<1>3. TimesRight
  BY <1>2 DEF TimesRight
<1>4. RingsRight
  <2>1. StoredInMain = 0 /\ StoredByNow = 0
    BY <1>2 DEF StoredInMain, StoredByNow
  <2>2. Given(0) = <<>>
    <3>1. 1..(0 - 0) = {}
      OBVIOUS
    <3>. QED
      BY <1>2, <3>1 DEF Given, EntriesOf
  <2>3. buffer = <<>> /\ correlatedBuffer = <<>>
    BY DEF Init, RingInit
  <2>. QED
    BY <2>1, <2>2, <2>3, EmptyLastN, EmptyOfKinds, SizeAssumption DEF RingsRight
<1>5. ScrapeRight
  BY DEF Init, NoScrape, ScrapeRight
<1>. QED
  BY <1>1, <1>3, <1>4, <1>5 DEF ScrapeInv

\* Storage.tla: the deques of the running process are the ends of what it was given, the
\* clock never runs backwards in them, and a scrape has counted and shown all that the
\* deques, the windows and the limits allow, however far the flush thread is.
THEOREM ScrapeInvariant == Spec => []ScrapeInv
<1>1. ASSUME StorageInv, StorageInv', ScrapeInv, [Next]_vars PROVE ScrapeInv'
  <2>1. StorageTypeOK'
    BY <1>1, StorageTypeStep DEF ScrapeInv
  <2>2. TimesRight'
    BY <1>1, TimesStep DEF ScrapeInv
  <2>3. RingsRight'
    BY <1>1, RingsStep
  <2>4. ScrapeRight'
    BY <1>1, <2>1, ScrapeStep
  <2>. QED
    BY <2>1, <2>2, <2>3, <2>4 DEF ScrapeInv
<1>. QED
  BY <1>1, ScrapeInit, StorageInvariant, PTL DEF Spec

\* server.py: a request both deques had when a scrape began has a row when it is done,
\* unless its window is over or enough requests came after it.
THEOREM RecentIsShownCorrect == Spec => []RecentIsShown
<1>1. ScrapeInv => RecentIsShown
  <2>. SUFFICES ASSUME ScrapeInv, scrape.at = "done", NEW i \in (boot + 1)..scrape.start,
                       ~ profiles[i].system,
                       IF profiles[i].correlated
                       THEN /\ profiles[i].ts >= now - LongWindow
                            /\ Cardinality(After(i, {TRUE})) < MinOf(CorrelatedLimit, CorrelatedSize)
                       ELSE /\ profiles[i].ts >= now - ShortWindow
                            /\ Cardinality(After(i, {FALSE})) < UncorrelatedLimit
                            /\ Cardinality(After(i, BOOLEAN)) < BufferSize
                PROVE  i \in Shown
    BY DEF RecentIsShown
  <2>1. CorrelatedShown /\ UncorrelatedShown
    BY DEF ScrapeInv, ScrapeRight
  <2>2. i \in Began
    BY DEF Began
  <2>3. CASE profiles[i].correlated
    BY <2>1, <2>2, <2>3 DEF CorrelatedShown, Recent, FewerAfter
  <2>4. CASE ~ profiles[i].correlated
    BY <2>1, <2>2, <2>4 DEF UncorrelatedShown, Recent, FewerAfter
  <2>. QED
    BY <2>3, <2>4
<1>. QED
  BY <1>1, ScrapeInvariant, PTL

\* server.py: the rows and the totals of a scrape come from different snapshots, and yet
\* a request that has a row is counted, but for the three exceptions.
THEOREM ShownIsCountedCorrect == Spec => []ShownIsCounted
<1>1. ScrapeInv => ShownIsCounted
  BY DEF ScrapeInv, ScrapeRight, CountedRight, ShownIsCounted, Began, Recent, FewerAfter
<1>. QED
  BY <1>1, ScrapeInvariant, PTL
=============================================================================
