------------------------------ MODULE Backend ------------------------------
(***************************************************************************)
(* store/backend.py: the StorageBackend of the agent, and the reports that *)
(* the command line draws from the same file in a process of its own.      *)
(* store_profiles inserts the rows of a batch one by one into a            *)
(* transaction that the first insert opens and the commit at the end       *)
(* closes.  Any statement may raise; the daemon logs that and goes on, and *)
(* nobody rolls back.                                                      *)
(*                                                                         *)
(* A row is a pair: <<i, 0>> is the row of profile i in request_profiles,  *)
(* with all its dependencies in dependencies_json, and <<i, k>> is the row *)
(* of its k-th dependency in dependency_calls.  Profiles are numbered in   *)
(* the order they are handed over, so a time window is a first number.     *)
(***************************************************************************)
EXTENDS Integers, Sequences, FiniteSets

VARIABLES
    profiles,    \* history: every profile handed to a store
    file,        \* the rows that are committed
    tx,          \* the rows of the transaction the agent's connection has open
    migrated,    \* the table has the three columns that later versions added
    persisting,  \* the flush thread is in store_profiles
    insert,      \* the row to insert next
    persisted,   \* history: profiles of the batches whose store returned
    raisedAt,    \* history: profiles at one of whose rows a store raised
    report       \* a report of the command line

txVars == <<tx, persisting, insert, persisted, raisedAt>>
backendVars == <<file, migrated, txVars, report>>

\* The rows of profile i, in the order of their inserts.
Row(i) == {<<i, k>> : k \in 0..profiles[i].deps}

Ids == 1..Len(profiles)

ReportStages == {"none", "percentiles", "joins", "rows", "printed", "raised"}
NoReport == [at |-> "none", since |-> 1, total |-> 0, durations |-> 0]

BackendTypeOK ==
    /\ file \subseteq UNION {Row(i) : i \in Ids}
    /\ tx \subseteq UNION {Row(i) : i \in Ids}
    /\ migrated \in BOOLEAN
    /\ persisting \in BOOLEAN
    /\ insert \in [id : Nat, dep : Nat]
    /\ persisted \subseteq Ids
    /\ raisedAt \subseteq Ids
    /\ report \in [at : ReportStages, since : Nat, total : Nat, durations : Nat]

-----------------------------------------------------------------------------
(* The agent's connection. *)

\* An ALTER fails when the column is there, and as silently when it cannot be added.
CreateTables == migrated' \in {migrated, TRUE}

\* The file may have been written by an earlier version.
BackendInit ==
    /\ file = {}
    /\ tx = {}
    /\ migrated \in BOOLEAN
    /\ persisting = FALSE
    /\ insert = [id |-> 1, dep |-> 0]
    /\ persisted = {}
    /\ raisedAt = {}
    /\ report = NoReport

\* store_profiles is called with the profiles from first on.
StoreProfiles(first) ==
    /\ persisting' = TRUE
    /\ insert' = [id |-> first, dep |-> 0]
    /\ UNCHANGED <<file, migrated, tx, persisted, raisedAt, report>>

\* Mutant: every row is committed by itself, before the dependencies of its profile.
InsertRowCommits ==
    /\ persisting /\ migrated
    /\ insert.id \in Ids
    /\ file' = file \cup {<<insert.id, insert.dep>>}
    /\ insert' = IF insert.dep < profiles[insert.id].deps
                 THEN [insert EXCEPT !.dep = @ + 1]
                 ELSE [id |-> insert.id + 1, dep |-> 0]
    /\ UNCHANGED <<migrated, tx, persisting, persisted, raisedAt, report>>

\* INSERT OR REPLACE of a profile, or the INSERT of one of its dependencies.  Without
\* its columns the statement does not compile.
InsertRow ==
    /\ persisting /\ migrated
    /\ insert.id \in Ids
    /\ tx' = tx \cup {<<insert.id, insert.dep>>}
    /\ insert' = IF insert.dep < profiles[insert.id].deps
                 THEN [insert EXCEPT !.dep = @ + 1]
                 ELSE [id |-> insert.id + 1, dep |-> 0]
    /\ UNCHANGED <<file, migrated, persisting, persisted, raisedAt, report>>

\* Mutant: the commit is missing.
CommitMissing ==
    /\ persisting
    /\ insert.id \notin Ids
    /\ persisting' = FALSE
    /\ persisted' = persisted \cup (profiles[Len(profiles)].first..Len(profiles))
    /\ UNCHANGED <<file, tx, migrated, insert, raisedAt, report>>

Commit ==
    /\ persisting
    /\ insert.id \notin Ids
    /\ file' = file \cup tx
    /\ tx' = {}
    /\ persisting' = FALSE
    /\ persisted' = persisted \cup (profiles[Len(profiles)].first..Len(profiles))
    /\ UNCHANGED <<migrated, insert, raisedAt, report>>

\* An insert or the commit raises.  On a full disk or an I/O error SQLite rolls back by
\* itself; otherwise the transaction stays open, for the next batch to commit.
StoreRaises ==
    /\ persisting
    /\ persisting' = FALSE
    /\ tx' \in {tx, {}}
    /\ raisedAt' = raisedAt \cup ({insert.id} \cap Ids)
    /\ UNCHANGED <<file, migrated, insert, persisted, report>>

\* Mutant: the file is created anew.
ReopenTruncates ==
    /\ CreateTables
    /\ file' = {}
    /\ tx' = {}
    /\ persisting' = FALSE
    /\ UNCHANGED <<insert, persisted, raisedAt, report>>

\* Mutant: what is left of the interrupted store is taken up again.
ReopenResumes ==
    /\ CreateTables
    /\ tx' = {}
    /\ UNCHANGED <<file, persisting, insert, persisted, raisedAt, report>>

\* The process has ended, nothing closes the connection, and the next one's
\* initialize() finds what was committed.
Reopen ==
    /\ CreateTables
    /\ tx' = {}
    /\ persisting' = FALSE
    /\ UNCHANGED <<file, insert, persisted, raisedAt, report>>

-----------------------------------------------------------------------------
(* The report of the command line: initialize(), get_aggregated_report() with its
   statements one after the other, each on what is committed by then, and
   query_requests(). *)

\* The columns of the two joined tables that the joins refer to, by alias.
Columns ==
    [rp |-> {"request_id", "timestamp", "service_name", "duration_ms", "bytes_sent"},
     dc |-> {"request_id", "service_name", "duration_ms", "bytes_sent", "bytes_recv"}]

\* A reference is an alias and a column.  Putting "rp." before the conditions, after
\* "timestamp" in them has become "rp.timestamp", gives the first one two.
Cutoff == <<"rp.rp", "timestamp">>
DependencyCount == {<<"dc", "request_id">>, <<"rp", "request_id">>, Cutoff}
TopDependencies ==
    DependencyCount \cup {<<"", "service_name">>, <<"", "duration_ms">>, <<"", "bytes_sent">>,
                          <<"", "bytes_recv">>, <<"dc", "service_name">>}

\* SQLite resolves a column of a table it knows, and one without a table that exactly one
\* of the joined tables has.
Resolves(reference) ==
    LET has == {t \in DOMAIN Columns : reference[2] \in Columns[t]}
    IN  IF reference[1] = "" THEN Cardinality(has) = 1 ELSE reference[1] \in has

\* The rows of request_profiles that a statement with that cutoff counts.
Matching(since) == {r \in file : r[2] = 0 /\ r[1] >= since}

ReportCounts(since) ==
    /\ report.at \in {"none", "printed", "raised"}
    /\ CreateTables
    /\ report' = [at |-> IF Matching(since) = {} THEN "rows" ELSE "percentiles",
                  since |-> since, total |-> Cardinality(Matching(since)), durations |-> 0]
    /\ UNCHANGED <<file, txVars>>

ReportPercentiles ==
    /\ report.at = "percentiles"
    /\ report' = [report EXCEPT !.at = "joins",
                                !.durations = Cardinality(Matching(report.since))]
    /\ UNCHANGED <<file, migrated, txVars>>

\* The two joins of the dependencies, one statement after the other.
ReportJoins ==
    /\ report.at = "joins"
    /\ report' =
          IF \A reference \in TopDependencies \cup DependencyCount : Resolves(reference)
          THEN [report EXCEPT !.at = "rows"] ELSE [NoReport EXCEPT !.at = "raised"]
    /\ UNCHANGED <<file, migrated, txVars>>

ReportRows ==
    /\ report.at = "rows"
    /\ report' = [NoReport EXCEPT !.at = "printed"]
    /\ UNCHANGED <<file, migrated, txVars>>

ReportNext ==
    \/ \E since \in Ids : ReportCounts(since)
    \/ ReportPercentiles
    \/ ReportJoins
    \/ ReportRows

-----------------------------------------------------------------------------
(* Properties. *)

\* README: data survives pod restarts.  A profile whose store returned is in the file
\* with all its dependencies, whatever fails, ends or restarts afterwards.
PersistedSurvives == \A i \in persisted : Row(i) \subseteq file

\* No report sees a torn profile or a gap in a batch: the profiles of a batch that are
\* in the file are its first ones, and each of them is there with the rows of all
\* its dependencies, but for the one profile at which the store raised.
BeginningOfBatch ==
    \A r \in file :
        /\ <<r[1], 0>> \in file
        /\ r[1] \in raisedAt \/ Row(r[1]) \subseteq file
        /\ \A j \in profiles[r[1]].first..(r[1] - 1) : Row(j) \subseteq file

\* The percentiles of a report are taken over at least the requests it counted, so an
\* index computed from them exists, though batches are committed in between.
PercentilesCoverCount ==
    report.at = "joins" => report.total > 0 /\ report.durations >= report.total

-----------------------------------------------------------------------------
\* test_storage.py: a report on a file with requests is an answer.
ReportAnswers == report.at # "raised"
=============================================================================
