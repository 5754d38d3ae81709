------------------------------ MODULE Storage ------------------------------
(***************************************************************************)
(* What the flush thread of the agent (daemon.py) has enriched goes to the *)
(* two deques of the ring buffer and then to the SQLite file, one lock     *)
(* after the other, while two readers look at it: a scrape of /metrics     *)
(* (api/server.py) takes four snapshots of the deques, a report of the     *)
(* command line makes up to four statements on the file.  The process may  *)
(* end at any moment; its successor finds the file and empty deques.       *)
(* Neither reader changes what the other reads, so a behaviour has one.    *)
(*                                                                         *)
(* An entry of a deque is the number of its profile together with what the *)
(* queries look at.                                                        *)
(***************************************************************************)
EXTENDS RingBuffer, Backend

CONSTANTS
    NewProfiles,        \* bound: what a profile is like that is handed to the stores
    MaxProfiles,        \* bound: profiles handed to the stores
    MaxBatch,           \* bound: profiles of one batch
    MaxTime,            \* bound: the clock stops there
    MaxRestarts,        \* bound: times the process ends and is restarted
    ShortWindow,        \* since_seconds of the aggregates and of what is uncorrelated
    LongWindow,         \* since_seconds of the correlated rows
    CorrelatedLimit,    \* limit of the correlated rows
    UncorrelatedLimit   \* limit of the uncorrelated rows

ASSUME StorageAssumption ==
    /\ NewProfiles \subseteq [correlated : BOOLEAN, system : BOOLEAN, deps : Nat]
    /\ MaxProfiles \in Nat /\ MaxBatch \in Nat \ {0} /\ MaxTime \in Nat /\ MaxRestarts \in Nat
    /\ ShortWindow \in Nat /\ LongWindow \in Nat
    /\ CorrelatedLimit \in Nat \ {0} /\ UncorrelatedLimit \in Nat \ {0}

VARIABLES
    now,         \* time.time()
    drained,     \* history: when the flush thread had its last batch, or the process began
    restarts,    \* history: how often the process has been restarted
    boot,        \* history: profiles handed over before the last restart
    flush,       \* where the flush thread is
    reader,      \* which of the two readers this behaviour has
    scrape       \* a scrape of /metrics

vars == <<now, drained, restarts, boot, flush, reader, scrape, profiles, ringVars, backendVars>>

Entry == [id : Nat, ts : Nat, correlated : BOOLEAN, system : BOOLEAN]

\* first is the number of the first profile of its batch; a system profile is one of
\* the namespaces that /metrics leaves out of its rows.
Profile == [ts : Nat, correlated : BOOLEAN, system : BOOLEAN, deps : Nat, first : Nat]

Scrape == [at : {"idle", "counted", "correlated", "done"}, start : Nat,
           counted : SUBSET Nat, rows : Seq(Nat)]
NoScrape == [at |-> "idle", start |-> 0, counted |-> {}, rows |-> <<>>]

StorageTypeOK ==
    /\ BackendTypeOK
    /\ profiles \in Seq(Profile)
    /\ buffer \in Seq(Entry)
    /\ correlatedBuffer \in Seq(Entry)
    /\ now \in 0..MaxTime
    /\ drained \in 0..now
    /\ restarts \in 0..MaxRestarts
    /\ boot \in 0..Len(profiles)
    /\ flush \in {"drain", "storeMain", "storeCorrelated", "persist"}
    /\ (flush = "persist") = persisting
    /\ reader \in {"scrape", "report"}
    /\ scrape \in Scrape

Init ==
    /\ RingInit
    /\ BackendInit
    /\ profiles = <<>>
    /\ now = 0
    /\ drained = 0
    /\ restarts = 0
    /\ boot = 0
    /\ flush = "drain"
    /\ reader \in {"scrape", "report"}
    /\ scrape = NoScrape

Tick ==
    /\ now < MaxTime
    /\ now' = now + 1
    /\ UNCHANGED <<drained, restarts, boot, flush, reader, scrape, profiles, ringVars, backendVars>>

-----------------------------------------------------------------------------
(* The flush thread, from the moment it has drained a batch. *)

\* When n profiles may have been completed, one after the other, each stamped with the
\* time: since the queue was last emptied.
Stamps(n) ==
    {ts \in [1..n -> 0..now] :
        \A i \in 1..n : drained <= ts[i] /\ \A j \in 1..i : ts[j] <= ts[i]}

\* A batch of profiles that were completed by now.
Drain(new, ts) ==
    /\ flush = "drain"
    /\ Len(profiles) + Len(new) <= MaxProfiles
    /\ profiles' = profiles \o
          [i \in DOMAIN new |-> [ts |-> ts[i], correlated |-> new[i].correlated,
                                 system |-> new[i].system, deps |-> new[i].deps,
                                 first |-> Len(profiles) + 1]]
    /\ drained' = now
    /\ flush' = "storeMain"
    /\ UNCHANGED <<now, restarts, boot, reader, scrape, ringVars, backendVars>>

\* The first profile of the batch in the flush thread's hands, and its entries.
First == profiles[Len(profiles)].first
Entries ==
    [i \in 1..(Len(profiles) - First + 1) |->
        LET p == profiles[First + i - 1]
        IN  [id |-> First + i - 1, ts |-> p.ts, correlated |-> p.correlated,
             system |-> p.system]]

FlushStoreMain ==
    /\ flush = "storeMain"
    /\ flush' = "storeCorrelated"
    /\ StoreMain(Entries)
    /\ UNCHANGED <<now, drained, restarts, boot, reader, scrape, profiles, backendVars>>

FlushStoreCorrelated ==
    /\ flush = "storeCorrelated"
    /\ flush' = "persist"
    /\ StoreCorrelated(Entries)
    /\ StoreProfiles(First)
    /\ UNCHANGED <<now, drained, restarts, boot, reader, scrape, profiles>>

\* What store_profiles does, and the daemon's except when it raises.
Persist ==
    /\ InsertRow \/ Commit \/ StoreRaises
    /\ flush' = IF persisting' THEN "persist" ELSE "drain"
    /\ UNCHANGED <<now, drained, restarts, boot, reader, scrape, profiles, ringVars>>

\* The pod restarts: the deques are gone, and a scrape with them.
Restart ==
    /\ restarts < MaxRestarts
    /\ restarts' = restarts + 1
    /\ boot' = Len(profiles)
    /\ drained' = now
    /\ flush' = "drain"
    /\ buffer' = <<>> /\ correlatedBuffer' = <<>>
    /\ Reopen
    /\ scrape' = NoScrape
    /\ UNCHANGED <<now, reader, profiles>>

-----------------------------------------------------------------------------
(* A scrape.  The server has one thread and answers one request at a time. *)

EntryIds(s) == [i \in DOMAIN s |-> s[i].id]

\* The profiles that both deques have been given.
StoredByNow ==
    IF flush \in {"storeMain", "storeCorrelated"} THEN First - 1 ELSE Len(profiles)

\* Mutant: the window is open at its old end.
GetAggregatesOpen(since) == ToSet(EntryIds(InWindow(buffer, now - since + 1)))

\* get_aggregates(): the requests that are counted, whatever they are grouped by.
GetAggregates(since) == ToSet(EntryIds(InWindow(buffer, now - since)))

ScrapeAggregates ==
    /\ reader = "scrape"
    /\ scrape.at \in {"idle", "done"}
    /\ scrape' = [at |-> "counted", start |-> StoredByNow,
                  counted |-> GetAggregates(ShortWindow), rows |-> <<>>]
    /\ UNCHANGED <<now, drained, restarts, boot, flush, reader, profiles, ringVars, backendVars>>

\* The ids of the entries of s that /metrics gives rows, but for those it has given one.
Rows(s, given) == EntryIds(At(s, {i \in DOMAIN s : ~ s[i].system /\ s[i].id \notin given}))

ScrapeCorrelated ==
    /\ scrape.at = "counted"
    /\ scrape' = [scrape EXCEPT !.at = "correlated",
           !.rows = Rows(GetCorrelated(now, LongWindow, CorrelatedLimit), {})]
    /\ UNCHANGED <<now, drained, restarts, boot, flush, reader, profiles, ringVars, backendVars>>

ScrapeUncorrelated ==
    /\ scrape.at = "correlated"
    /\ scrape' = [scrape EXCEPT !.at = "done",
           !.rows = @ \o Rows(GetUncorrelatedRecent(now, ShortWindow, UncorrelatedLimit),
                              ToSet(scrape.rows))]
    /\ UNCHANGED <<now, drained, restarts, boot, flush, reader, profiles, ringVars, backendVars>>

-----------------------------------------------------------------------------
Next ==
    \/ Tick
    \/ \E n \in 1..MaxBatch :
          \E new \in [1..n -> NewProfiles], ts \in Stamps(n) : Drain(new, ts)
    \/ FlushStoreMain
    \/ FlushStoreCorrelated
    \/ Persist
    \/ Restart
    \/ ScrapeAggregates
    \/ ScrapeCorrelated
    \/ ScrapeUncorrelated
    \/ /\ reader = "report" /\ ReportNext
       /\ UNCHANGED <<now, drained, restarts, boot, flush, reader, scrape, profiles, ringVars>>

Spec == Init /\ [][Next]_vars

-----------------------------------------------------------------------------
(* Properties of a scrape that is done, as seen at any later moment. *)

Shown == ToSet(scrape.rows)

\* The profiles of that kind handed over after profile i.
After(i, kinds) == {j \in (i + 1)..Len(profiles) : profiles[j].correlated \in kinds}

\* README: per-request detail is available for the recent correlated and uncorrelated
\* requests.  What both deques had when the scrape began is in its rows, unless it is
\* older than the window, or enough requests came after it to fill the limit or
\* the deque.
RecentIsShown ==
    scrape.at = "done" =>
        \A i \in (boot + 1)..scrape.start :
            LET p == profiles[i]
            IN  /\ ~ p.system
                /\ IF p.correlated
                   THEN /\ p.ts >= now - LongWindow
                        /\ Cardinality(After(i, {TRUE})) < MinOf(CorrelatedLimit, CorrelatedSize)
                   ELSE /\ p.ts >= now - ShortWindow
                        /\ Cardinality(After(i, {FALSE})) < UncorrelatedLimit
                        /\ Cardinality(After(i, BOOLEAN)) < BufferSize
                => i \in Shown

\* The rows of a scrape and its totals come from different snapshots.  A request that
\* has a row and is within the window of the totals is counted in them, unless it was
\* stored after the scrape had begun or has left the deque since.
ShownIsCounted ==
    scrape.at = "done" =>
        \A i \in Shown \cap ((boot + 1)..scrape.start) :
            /\ profiles[i].ts >= now - ShortWindow
            /\ Cardinality(After(i, BOOLEAN)) < BufferSize
            => i \in scrape.counted
=============================================================================
