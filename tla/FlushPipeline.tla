---------------------------- MODULE FlushPipeline ----------------------------
(***************************************************************************)
(* agent/daemon.py: the AgentDaemon.  The main thread polls the collector, *)
(* whose callbacks feed the correlator, until a signal stops it; the flush *)
(* thread wakes up every flush_interval, moves what the correlator has     *)
(* completed to the ring buffer and hands a copy to the remote writer.     *)
(* The two threads meet in the correlator (Correlator) and the stores'     *)
(* deques (RingBuffer); every step of the flush thread between two lock    *)
(* acquisitions is an action, and the clock may move between any two.      *)
(***************************************************************************)
EXTENDS Correlator, RingBuffer

CONSTANT FlushInterval     \* flush_interval, in clock units

ASSUME FlushAssumption == FlushInterval \in Nat

VARIABLES
    running,     \* AgentDaemon._running
    collecting,  \* EventCollector._running
    main,        \* where the main thread is in start()
    flush,       \* where the flush thread is in _flush_loop
    wakeAt,      \* when time.sleep returns
    batch,       \* profiles, the local variable of _flush_loop
    exported,    \* history: ids handed to the remote writer
    stored       \* history: every profile the main deque was extended with

threadVars == <<running, collecting, main>>
flushVars == <<flush, wakeAt, batch, exported, stored>>
vars == <<corrVars, ringVars, threadVars, flushVars>>

FlushStates == {"top", "sleep", "drain", "storeMain", "storeCorrelated",
                "persist", "export", "ended"}
MainStates == {"starting", "polling", "stopping", "exited"}

TypeOK ==
    /\ CorrTypeOK
    /\ buffer \in Seq(Profile)
    /\ running \in BOOLEAN
    /\ collecting \in BOOLEAN
    /\ main \in MainStates
    /\ flush \in FlushStates
    /\ wakeAt \in Nat
    /\ batch \in Seq(Profile)
    /\ stored \in Seq(Profile)
    /\ correlatedBuffer \in Seq(Profile)
    /\ exported \in Seq(Nat)

\* The flush thread is started before the signal handlers are installed; a signal
\* is modelled from the moment they are.
Init ==
    /\ CorrInit
    /\ RingInit
    /\ running = TRUE
    /\ collecting = FALSE
    /\ main = "starting"
    /\ flush = "top"
    /\ wakeAt = 0
    /\ batch = <<>>
    /\ exported = <<>>
    /\ stored = <<>>

-----------------------------------------------------------------------------
(* The main thread. *)

\* EventCollector.start() sets its flag and enters the poll loop.
StartCollecting ==
    /\ main = "starting"
    /\ main' = "polling"
    /\ collecting' = TRUE
    /\ UNCHANGED <<corrVars, ringVars, running, flushVars>>

\* The callbacks of perf_buffer_poll.  The flag is tested only between polls, so
\* they still come in while the last one returns.
Poll ==
    /\ main = "polling"
    /\ Collect
    /\ UNCHANGED <<ringVars, threadVars, flushVars>>

\* SIGTERM or SIGINT: the handler runs stop() on the main thread.  What stop() does
\* with the remote writer concerns no state of this module: see RemoteWrite.
Signal ==
    /\ main \in {"starting", "polling"}
    /\ running' = FALSE
    /\ collecting' = FALSE
    /\ UNCHANGED <<corrVars, ringVars, main, flushVars>>

\* Mutant: the polls have no timeout, so the loop comes around only with an event.
PollLoopEndsOnEvent ==
    /\ main = "polling"
    /\ ~ collecting
    /\ Collect
    /\ main' = "stopping"
    /\ running' = FALSE
    /\ UNCHANGED <<ringVars, collecting, flushVars>>

\* The poll loop sees its flag, start() reaches finally and calls stop().
PollLoopEnds ==
    /\ main = "polling"
    /\ ~ collecting
    /\ main' = "stopping"
    /\ running' = FALSE
    /\ UNCHANGED <<corrVars, ringVars, collecting, flushVars>>

\* start() returns and the process ends, the daemon threads wherever they are.
Exit ==
    /\ main = "stopping"
    /\ main' = "exited"
    /\ UNCHANGED <<corrVars, ringVars, running, collecting, flushVars>>

-----------------------------------------------------------------------------
(* The flush thread. *)

Alive == main # "exited"

FlushStep(from, to) ==
    /\ Alive
    /\ flush = from
    /\ flush' = to
    /\ UNCHANGED threadVars

CheckRunning ==
    /\ FlushStep("top", IF running THEN "sleep" ELSE "ended")
    /\ wakeAt' = IF running THEN mono + FlushInterval ELSE wakeAt
    /\ UNCHANGED <<corrVars, ringVars, batch, exported, stored>>

\* The flag is not tested again after the sleep.  Where the bounded clock has
\* stopped, the sleep is over.
WakeAndCleanup ==
    /\ mono >= wakeAt \/ mono = MaxClock
    /\ FlushStep("sleep", "drain")
    /\ CleanupStale
    /\ UNCHANGED <<ringVars, wakeAt, batch, exported, stored>>

\* Mutant: the loop returns, where it should continue, when there is nothing to do.
DrainReturnsWhenEmpty ==
    /\ FlushStep("drain", IF completed = <<>> THEN "ended" ELSE "storeMain")
    /\ batch' = completed
    /\ DrainCompleted
    /\ UNCHANGED <<ringVars, wakeAt, exported, stored>>

Drain ==
    /\ FlushStep("drain", IF completed = <<>> THEN "top" ELSE "storeMain")
    /\ batch' = completed
    /\ DrainCompleted
    /\ UNCHANGED <<ringVars, wakeAt, exported, stored>>

\* The metadata written into the profiles before they are stored are not kept here.
FlushStoreMain ==
    /\ FlushStep("storeMain", "storeCorrelated")
    /\ StoreMain(batch)
    /\ stored' = stored \o batch
    /\ UNCHANGED <<corrVars, wakeAt, batch, exported>>

FlushStoreCorrelated ==
    /\ FlushStep("storeCorrelated", "persist")
    /\ StoreCorrelated(batch)
    /\ UNCHANGED <<corrVars, wakeAt, batch, exported, stored>>

\* The SQLite store may take its time or raise; the loop goes on either way.
Persist ==
    /\ FlushStep("persist", "export")
    /\ UNCHANGED <<corrVars, ringVars, wakeAt, batch, exported, stored>>

Ids(s) == [i \in DOMAIN s |-> s[i].id]

\* Mutant: the limit of the query is left at a default longer than the batch.
ExportDefaultLimit ==
    /\ FlushStep("export", "top")
    /\ exported' = exported \o Ids(QueryRecent(Wall, FlushInterval + 1, MaxRequests))
    /\ UNCHANGED <<corrVars, ringVars, wakeAt, batch, stored>>

\* The remote writer gets what a query of the last flush_interval + 1 seconds
\* returns, limited to the length of the batch.
Export ==
    /\ FlushStep("export", "top")
    /\ exported' = exported \o Ids(QueryRecent(Wall, FlushInterval + 1, Len(batch)))
    /\ UNCHANGED <<corrVars, ringVars, wakeAt, batch, stored>>

FlushNext == CheckRunning \/ WakeAndCleanup \/ Drain \/ FlushStoreMain
                 \/ FlushStoreCorrelated \/ Persist \/ Export

PipelineTick ==
    /\ Alive
    /\ Tick
    /\ UNCHANGED <<ringVars, threadVars, flushVars>>

MainNext == StartCollecting \/ Poll \/ Signal \/ PollLoopEnds \/ Exit

Next == MainNext \/ FlushNext \/ PipelineTick

Spec == Init /\ [][Next]_vars

\* Time passes, the flush thread gets the processor, and every poll times out
\* after 100 ms.  Nothing makes a request or a signal arrive.
Fairness ==
    /\ WF_vars(FlushNext)
    /\ WF_vars(PipelineTick)
    /\ WF_vars(StartCollecting)
    /\ WF_vars(PollLoopEnds)
    /\ WF_vars(Exit)

FairSpec == Spec /\ Fairness

-----------------------------------------------------------------------------
(* Properties. *)

\* The profiles that have left the correlator and are not in the store yet.
InFlight == IF flush = "storeMain" THEN batch ELSE <<>>

\* Every profile built is in exactly one place: stored, in the flush thread's
\* hands or waiting in the correlator, and the three together are in order.
Conservation == handled = stored \o InFlight \o completed

\* The main deque holds the last BufferSize profiles ever stored.
RingIsRecent == buffer = LastN(stored, BufferSize)

\* The correlated profiles the second deque has been given: it lags the first one
\* by a batch while the flush thread is between the two locks.
CorrelatedStored ==
    LET behind == IF flush = "storeCorrelated" THEN Len(batch) ELSE 0
    IN  OfKinds(SubSeq(stored, 1, Len(stored) - behind), Correlated)

\* The correlated deque holds the last CorrelatedSize of them.
CorrelatedIsRecent == correlatedBuffer = LastN(CorrelatedStored, CorrelatedSize)

\* A query that filters a whole history, without the early end of the walk.
Wanted(s, cutoff, kinds) ==
    {i \in DOMAIN s : s[i].ts >= cutoff /\ s[i].correlated \in kinds}

QueryOfHistory(s, cutoff, limit, kinds) ==
    LET found == Reverse(At(s, Wanted(s, cutoff, kinds)))
    IN  SubSeq(found, 1, MinOf(Len(found), limit))

\* Whether everything of history that is not kept any more is older than the cutoff.
ReachesBack(kept, history, cutoff) ==
    \A i \in 1..(Len(history) - Len(kept)) : history[i].ts < cutoff

\* A query of a deque answers as a query of everything ever stored would, as long
\* as the window does not reach behind the oldest entry kept: stopping at the
\* first entry that is too old is right because timestamps never run backwards.
QueriesAnswerFromHistory ==
    \A since \in 0..MaxClock, limit \in 1..MaxRequests :
        LET cutoff == Wall - since
        IN  /\ ReachesBack(buffer, stored, cutoff) =>
                /\ QueryRecent(Wall, since, limit)
                     = QueryOfHistory(stored, cutoff, limit, Anything)
                /\ GetUncorrelatedRecent(Wall, since, limit)
                     = QueryOfHistory(stored, cutoff, limit, Uncorrelated)
            /\ ReachesBack(correlatedBuffer, CorrelatedStored, cutoff) =>
                GetCorrelated(Wall, since, limit)
                     = QueryOfHistory(CorrelatedStored, cutoff, limit, Anything)

\* No request is handed to the remote writer twice, and none that is not stored:
\* the limit of the export query keeps it from reaching an earlier batch.
ExportedAtMostOnce ==
    /\ \A i, j \in DOMAIN exported : exported[i] = exported[j] => i = j
    /\ ToSet(exported) \subseteq ToSet(Ids(stored))

\* What a reader sees of the pipeline is a bounded log: see BoundedLog.
Log == INSTANCE BoundedLog WITH
    Size <- BufferSize, queue <- InFlight \o completed, log <- buffer

LogSpec == Log!Spec

\* A request that was handled is stored, unless the agent is told to stop.
HandledIsStored ==
    \A n \in 1..MaxRequests : counter >= n ~> (Len(stored) >= n \/ ~ running)

\* A stop that comes while the collector polls ends the process.
StopWhilePollingEnds ==
    (main = "polling" /\ ~ collecting) ~> (main = "exited")
=============================================================================
