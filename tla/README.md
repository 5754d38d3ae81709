# perfcatch in TLA+

perfcatch measures every HTTP request that the processes of a node serve.  eBPF
probes in the kernel watch sockets and the scheduler, a Python agent turns what they
report into one profile per request, and an HTTP API, a SQLite file and a remote
write client hand the profiles out.  This directory holds the TLA+ modules of that
program, the TLC runs that check them on small instances and the theorems that TLAPS
proves for all instances.  Paths of the code are given as in the repository,
with `src/perfcatch/` left out.

1. [The system](#1-the-system)
2. [The modules](#2-the-modules)
3. [The runs](#3-the-runs)
4. [Where the code and what is said of it disagree](#4-where-the-code-and-what-is-said-of-it-disagree)
5. [The proofs](#5-the-proofs)
6. [What is not modelled](#6-what-is-not-modelled)

## 1. The system

```
 observed threads        agent process
 ----------------        -----------------------------------------------------------
 accept, read, send  --> request_tracker.c    --+  perf   +-----------+   callbacks
 connect, close      --> dependency_tracker.c --+ buffers | collector |--------------+
 context switches    --> (both of the above)              | main thr. |              v
                                                          +-----------+      +------------+
 SIGTERM, SIGINT     --> stop() on the main thread                           | correlator |
                                                                             |  (1 lock)  |
         report <-------- SQLite <---+                                       +-----+------+
   (a process of its own)            |   +-------------+     drain, cleanup        |
                     remote writer <-+---| flush thread|<-------------------------+
                     queue (1 lock)      +--+---+------+
                          |                 |   | store
                     push thread     lookup |   v
                          |                 |  ring buffer (2 deques, 2 locks) --> API thread
                          v                 v
                     VictoriaMetrics     metadata resolver (1 lock) <-- refresh thread
```

| Component | State | Operations | What makes it correct |
|---|---|---|---|
| `agent/bpf/request_tracker.c` | BPF maps: active requests by socket, socket by thread, on-CPU stamp by thread, CPU time by socket, arguments of a receive by thread, headers by socket | probes on accept, send, receive (entry and return), `read`/`recvfrom` (entry and exit), close, and on every context switch | one event per accepted connection; its bytes are its own and its headers those of a connection at its address; no moment of a thread is charged twice |
| `agent/bpf/dependency_tracker.c` | the pending connect of each thread | probes on connect (entry and return) and close | a connect is reported once at most, and a close reports the last one its thread attempted |
| `agent/collector.py` | perf buffers, the flag of the poll loop, a `/proc` cache, target PIDs | poll, handle a request, a dependency or a memory event; parse headers | events reach the correlator with the right thread; the loop ends when told to |
| `agent/correlator.py` | pending dependencies by (pid, tid), memory baselines, completed profiles, a counter; one lock | `handle_request`, `handle_dependency`, `handle_memory`, `drain_completed`, `cleanup_stale` | ids and times in order; a dependency is used once, by its own thread's next request; the sweep removes old ones and only those |
| `agent/daemon.py` | the flag, the flush thread, the batch in its hands | start, flush loop, signals, stop | nothing handled is lost, doubled or overtaken; a stop ends the process |
| `store/ringbuffer.py` | two bounded deques, each with a lock | `store_profiles`, several queries | the deques hold the most recent profiles; a query answers as the whole history would |
| `store/remote_write.py` | a bounded queue with a lock, the push thread, `_running` | `enqueue_requests`, the push loop with retries, `stop` | every line is queued, under way, acknowledged or counted as lost; duplication is bounded; stop returns |
| `store/backend.py` | a SQLite file, the connection with the transaction it has open | create and migrate the tables, store a batch row by row, the statements of a report | what a store returned for survives any failure and restart; the file holds whole batches or their beginnings, never a torn profile but where a store raised; a report can be computed from what it counted |
| `k8s/metadata.py` | maps from PIDs, process names and ports to pods, swapped by a refresh thread | refresh in two requests with a scan of `/proc` between them, container by container and name by name; lookup by name, port, similar name and PID, PIDs of the target pods | a profile is given the pod it belongs to; the targets are the pods asked for |
| `api/server.py` | none of its own | queries, `/metrics` | a scrape shows what is recent, and its totals cover its rows, although it takes several snapshots |
| `cli/` | none | a report from the file; queries | answers when there are requests to report |
| `agent/bpf/resource_tracker.c` | CPU time per thread id | a probe on context switches | nothing reads what it collects |

What is hard in it:

* **Threads that share sockets.**  The probes keep state per thread and per socket
  address.  Sockets pass between threads, are closed by threads that did not accept
  them, and their addresses are reused at once.
* **Order.**  Dependency and request events travel in different buffers which are
  emptied in a fixed order, and which lose events when they are full.
* **Two clocks.**  Events carry nanoseconds since boot, profiles seconds since the
  epoch.
* **Three threads and a signal handler.**  The flush thread runs between the callbacks
  of the poll loop; the ring buffer's two deques are updated under different locks;
  `stop()` runs inside a signal handler on the thread it is supposed to stop and takes
  a lock that thread may hold.
* **A remote server that loses answers**, behind a bounded queue.
* **A file that outlives the process**, with a transaction that nobody rolls back when a
  statement raises, and readers in another process.
* **Names and PIDs that mean something else later**: PIDs are reused, pods share names
  and ports, and the maps, the `/proc` cache and the set of target PIDs are all read long
  after they were filled, which itself takes many reads of `/proc`.

`PROJECT.json` lists every such hazard at its line, with the properties that would
show it, or the reason why there is none.

## 2. The modules

| Module | Models | Built on |
|---|---|---|
| `RequestTracker` | `request_tracker.c`, all probes | |
| `DependencyTracker` | `dependency_tracker.c` and its perf buffer | |
| `DependencyAttribution` | the way of a dependency: both perf buffers, the poll loop's order, the collector's handlers | `DependencyTracker`, `Correlator` |
| `DependenciesDuring` | a history of the connections open at each connect, for one property | `DependencyAttribution` |
| `Correlator` | `correlator.py`, all methods | |
| `RingBuffer` | `ringbuffer.py`: the deques and their queries | |
| `FlushPipeline` | `daemon.py`: main thread, flush thread, signals | `Correlator`, `RingBuffer` |
| `BoundedLog` | abstract: what readers of the store may rely on | refined by `FlushPipeline` |
| `RemoteWrite` | `remote_write.py` with the daemon's and the collector's stop | |
| `Backend` | `backend.py`: the agent's connection to the file, and the statements of the report of `cli/` | |
| `Storage` | what the flush thread stores, the scrape of `/metrics`, and restarts | `RingBuffer`, `Backend` |
| `Metadata` | `metadata.py`, and the processes of the node | |
| `Collector` | the collector's PID filter and `/proc` cache, and the flush thread's lookups | `Metadata` |
| `*_proofs` | theorems and proofs | the module named; `FlushPipeline_proofs` and `Storage_proofs` also on `RingBuffer_proofs` |
| `MC*` | model values and symmetry for TLC | the module named |

`PROJECT.json` maps every definition to the lines it stands for.  An operator whose
comment begins with **Mutant:** is no part of a specification: it is a plausible bug in
the definition that follows it, and each property of a passing run is shown to
fail when such a mutant takes its definition's place.

### Correlator

`_lock` makes every method atomic, so each method is an action: `HandleRequest`,
`HandleDependency`, `HandleMemory`, `DrainCompleted`, `CleanupStale`.  `pendingDeps` is
`_pending_deps` with its keys (pid, tid); `counter`, `completed` and `memoryBaseline`
are the fields of those names.  The clock is `mono`, nanoseconds since boot, and
`Wall == BootTime + mono` is `time.time()`: events are stamped with one, the
sweep compares with the other, as the code does (section 4).  A dependency's start may lie `age` units back
(`DepAges`), because it is reported when it ends.  History variables: `handled`,
every profile ever built; `depCount`, which numbers the dependencies; `swept`, what the
sweeps removed.  Sums of durations and bandwidth are left out.

### RingBuffer and FlushPipeline

`buffer` and `correlatedBuffer` are the deques, the oldest entry first; `StoreMain` and
`StoreCorrelated` are the two critical sections of `store_profiles`, and the queries
walk from the newest entry and stop at the first one that is too old (`Scanned`,
`Newest`).  A filter is the elements at a set of positions (`At`, `OfKinds`): the k-th of
them is at the position that has k of the set up to it (`Rank`, `Nth`).  This is what
`SelectSeq` computes, which is recursive, so that no prover here can say what it
returns; `PositionsFilterAsSelectSeq` in `MCFlushPipeline` has TLC compare the two on all
short sequences.  `FlushPipeline` runs the flush thread as a
program counter (`flush`): test the flag, sleep, clean up, drain, store in the main
deque, store in the correlated one, SQLite, export, and again from the top.  Every
step between two lock acquisitions is an action, and callbacks, signals and
the clock come between any two.  The main thread is `main`: `starting` (handlers
installed, the collector's flag not yet set), `polling`, `stopping`, `exited`.
The process ends with the main thread, wherever the flush thread is.
`writer.stop()` is taken to return here; whether it does is the subject of
`RemoteWrite`.

`BoundedLog` is what a reader of the store may rely on: a queue from which items move
to the end of a log that keeps the last `Size` of them.  `LogSpec` states that
the pipeline implements it, with what is in the flush thread's hands and what waits in
the correlator as the queue.

### DependencyTracker and DependencyAttribution

`activeConnects` is the map of that name, one entry per thread.  `ConnectEntry` and
`ConnectReturn` are the probes at the entry and the return of `tcp_v4_connect`, which returns 0
once the SYN has been sent: only what fails before that (no route, no free port) fails here.
A connect that the peer refuses, or that times out, keeps its entry and is reported by the
next close of its thread like one that succeeded.  `CloseSocket` is the probe on
`tcp_close`, which looks at the closing thread and not at the socket: any socket may be
closed, a listener or one that was never connected too.
Socket operations are the environment: what threads may do with sockets that were
connected, accepted, closed or passed to other threads.  `DependencyAttribution` adds
the accept that a request event carries its thread from, the thread that made each
connect (`maker`, history), both perf
buffers with their capacities, and one turn of the poll loop in the order of
`EventCollector.start`: first the request buffer, then the dependency buffer.  Events
emitted meanwhile may still be seen by the same poll, or not.  Instead of
abstract inputs the correlator now gets what the probes emitted.

### RequestTracker

Each probe is an action and atomic (two processors adding to one map entry at the same
instant are not modelled).  The BPF maps are state: `activeRequests`, `tidToSock`,
`onTs`, `sockCpu`, `recvArgs`, `recvUbuf`, `sockHeaders`.  Threads make system calls in
stages (`call`): a read enters, reaches the socket, returns from it, and leaves;
`recvmsg` has no exit probe, and a read of a file never reaches a socket.  Another thread
may close the socket between any two stages, and a new connection take its address.
Processors (`cpu`) switch between threads.  What really happened
is kept beside it as history: `work` per connection, `used` and `charged` per thread.
CPU time is kept per socket **and** thread, where the map holds the sum, so that
a property can say whose time it is.

### RemoteWrite

Lines are numbers in the order they were queued.  The push thread is a record
`push` (where it is, its batch, its attempt); the main thread is a stack `stops` of
calls of `stop()`, since the handler may interrupt an earlier `stop()` anywhere, also
between acquiring and releasing `_lock`.  An attempt to send has three outcomes: stored
and acknowledged, stored and not acknowledged, failed.  `join(timeout=5)` returns
whether or not the push thread has ended.

### Backend and Storage

A row is a pair of a profile's number and the number of a dependency, 0 for the profile's own
row.  `store_profiles` inserts them one by one (`InsertRow`) into the open transaction
`tx`, and `Commit` moves it to `file`.  At any of these statements `StoreRaises` may happen;
the daemon logs the exception and goes on, and the transaction stays open unless SQLite
has rolled back by itself, so the next batch's commit makes its rows permanent.
`CreateTables` is the migration that takes every failing ALTER for "the column is there".
A report is four statements (`ReportCounts` to `ReportRows`), each on what is committed
by then.  `Storage` joins this with the two deques of `RingBuffer`: the flush
thread stores in the main deque, the correlated one and the file, and a scrape takes its
snapshots in between (`ScrapeAggregates`, `ScrapeCorrelated`, `ScrapeUncorrelated`).
A drained batch has up to `MaxBatch` profiles; each carries the time at which the
correlator stamped it, after the drain before it (`drained`), not before its predecessor's
and not later than its own drain (`Stamps`).
`Restart` may happen at any moment: the deques and the transaction are gone, the file is not.
The two joins of the report are the references to columns that their texts make, and SQLite's rule for
resolving one (`TopDependencies`, `DependencyCount`, `Resolves`).
The two readers change nothing, so a behaviour has one of them (`reader`).

### Metadata and Collector

`proc` is the node: which process of which pod runs under each PID.  Processes end and
PIDs are reused at any time, also in the middle of a refresh, which is modelled as the reads
it consists of: the GET of the pods (`RefreshPods`), one scan of `/proc/*/cgroup` per
container of a pod (`ScanContainer`), then one read of `/proc/<pid>/comm` per PID found for the pod
(`ReadName`), the next pod, and after the last the GET of the services and the swap of the
maps (`RefreshServices`).  A read of a name sees whatever runs under the PID by then.  If either
request fails the old maps stay (`RefreshFails`).  `_get_container_pid` takes the
first match in the order of a directory, which is a choice here; which of a pod's processes belong
to which of its containers is left open as well (`ContainerPids` has the PIDs of the pod), so
the model finds for a container whatever the code may find and more.  A pod that is listed
later overwrites an equal name or port (`LastOf`).  `Collector` follows one request event
through the filter by target PID (resolved once, at `Start`), the reading of the memory
size through the cache of PIDs by name, and the flush thread's two lookups, with the node
and the refresh thread moving between any two steps.  The port of a request is the one its
process listens on, whether or not the pod declares it (`Emit`).

## 3. The runs

Run with `tlc -config X.cfg M` in this directory.  A passing run checks all its
properties; a violation run checks one statement that a comment, a docstring or the
repository's README makes, and TLC finds it violated (section 4).

| Run | Module, configuration | Shows |
|---|---|---|
| `correlator_sweep` | MCCorrelator, CorrelatorSweep.cfg | violation: a sweep removes a dependency that is younger than the window (`SweepKeepsFresh`) |
| `flush_pipeline` | MCFlushPipeline, MCFlushPipeline.cfg | what was handled is what was stored, what the flush thread holds and what waits, in this order (`Conservation`); the correlated deque holds the newest correlated profiles (`CorrelatedIsRecent`); queries answer as the full history would (`QueriesAnswerFromHistory`); no profile is exported twice (`ExportedAtMostOnce`); ids number the profiles in order and their times never run backwards (`IdsAndTimesInOrder`); the pipeline implements the bounded log (`LogSpec`); a handled request is stored unless the agent is stopped (`HandledIsStored`); a stop while polling ends the process (`StopWhilePollingEnds`) |
| `attribution` | MCDependencyAttribution, MCDependencyAttribution.cfg | a connect is reported once at most (`ConnectReportedOnce`), and a close reports the last connect that its thread attempted over IPv4, never an earlier one (`OnlyLatestReported`); a dependency is in at most one profile and not pending besides (`DepsUsedOnce`), and goes to the first request of its own thread that is handled after it (`DepsGoToNextRequest`); a connect is in one profile at most (`ConnectInOneProfile`), never in one of a request from an earlier turn of the poll loop (`NeverACycleBehind`), and only in one whose connection was accepted by the thread that made the connect (`OnlyByAcceptor`) |
| `attribution_during` | MCDependenciesDuring, AttributionDuring.cfg | violation: a connect made during a request is reported with a later one (`DependenciesMadeDuring`) |
| `request_cpu` | MCRequestTracker, RequestCpu.cfg | every accepted connection has one event or is still open (`EveryConnectionAccounted`); no moment of a thread is charged twice or while it did not run (`ChargedAtMostOnce`); a connection is charged for its users, and for threads that another thread's close left registered at its address, and for nobody else (`ChargedToUsersOrLeftovers`) |
| `request_reads` | MCRequestTracker, RequestReads.cfg | whatever calls two threads interleave, `recvmsg` and files included, and whoever closes the socket: bytes are counted for the connection they were moved on (`BytesAreOwn`), and captured headers are those of a connection at the same address, the connection itself or an earlier one (`HeadersFromAddress`) |
| `request_headers` | MCRequestTracker, RequestHeaders.cfg | violation: the bytes of a file are captured as a connection's headers (`FilesAreNotCaptured`) |
| `remote_write` | MCRemoteWrite, MCRemoteWrite.cfg | every line is in exactly one place (`EveryLineAccounted`); overflow loses the oldest (`QueueIsNewest`); no line is stored more often than it may be tried (`BoundedDuplication`); waiting lines are taken as long as the client runs (`LinesAreTaken`); one signal ends the agent, whatever the server does (`LoneStopEndsAgent`) |
| `remote_signals` | MCRemoteWrite, RemoteSignals.cfg | violation: two signals may leave the agent waiting for itself (`StopEndsAgent`) |
| `storage` | MCStorage, MCStorage.cfg | what a store returned for stays in the file, whole, after failures and restarts (`PersistedSurvives`); the file holds beginnings of batches, and no torn profile but where a store raised (`BeginningOfBatch`); a report takes its percentiles over at least what it counted (`PercentilesCoverCount`); a scrape shows what was recent when it began (`RecentIsShown`), and counts what it shows (`ShownIsCounted`) |
| `storage_report` | MCStorage, StorageReport.cfg | violation: a report on a file with requests raises (`ReportAnswers`) |
| `collector` | MCCollector, MCCollector.cfg | a request that the maps know under a name or port of its own is given to its pod, unless a process that the refresh had found for the other pod ended while the maps were built (`KnownPodsAreRight`); one known by neither is given to another pod under its PID only if the PID passed from the one to the other (`PidPodsAreRight`); a memory size read from another PID is that of the thread's name, or was less than `CacheTime` ago (`RssWasOfComm`); once targets were found, other namespaces pass the filter only under a reused PID (`StrangersReusePids`) |

The passing runs also check the type invariant of each module.  The properties of
`Correlator` are checked in the compositions with `FlushPipeline` and `DependencyAttribution`.

**Bounds.**  Every bound is a constant and named in its module: `MaxClock`,
`MaxRequests`, `MaxDeps`, `MaxConnects`, `MaxAccepts`, `MaxCycles`, `MaxConns`,
`MaxCalls`, `MaxLines`, `MaxSignals`, `MaxProfiles`, `MaxBatch`, `MaxTime`, `MaxRestarts`,
`MaxExits`, `MaxRefreshes`.  They are chosen so that each interesting case
happens:

* a `BootTime` beyond the window, as on any real machine whose clock is set;
* a main deque of two with three requests, so that it evicts; a correlated
  deque of one, so that it evicts earlier than the other; a clock of three with a flush
  interval of one, so that a batch can be older than the export query reaches;
* two connects and two accepts on two threads of one process with one place in each perf buffer, so that
  it overflows, a dependency can be given to the wrong thread, twice or to none, and a connect follows one that
  failed at once, or one that was refused and kept its entry; two sockets, so that an address is reused and a thread closes another one's socket;
* two threads, two processors, two connections and two sockets for the CPU accounting, so that threads
  migrate, share a socket and register for one that was closed; two threads, two connections and three
  calls for the reads, so that a thread closes the socket another reads from, its address is taken
  again before that read ends, and a `recvmsg` precedes a read; room for one entry in `sock_headers`, so that
  it is full;
* a queue of four, batches of three and requests of two lines each, six lines in all, so
  that it overflows and a batch tears a request apart; two attempts; two signals, so
  that a `stop()` is interrupted by another;
* three profiles in batches of up to two, with a dependency or without, and one restart: a batch can be torn between its profiles and within
  one, the next batch can commit what an earlier one left, and the deques of two
  evict; limits of one, so that a scrape reaches its limit before the deque is full;
* two pods of different namespaces, one with two containers, the name of one a prefix of the
  other's, two PIDs, two kinds of ended processes and two refreshes, so that a PID passes from
  a target to a stranger, or from one pod to the other between the scan of a container and the reading of
  its name, an entry of the cache outlives its process, and a map is stale
  in either of two ways; two clock values with a cache time of one, so that an entry expires.

`MCSymmetry` permutes threads and sockets, and `Symmetry` PIDs, which the modules treat
alike; runs with liveness properties use no symmetry.  `CHECK_DEADLOCK FALSE` is given where the process exits, where
the environment may run out of bounded actions (connects, accepts, lines) or both.

**Fairness.**  `FlushPipeline!Fairness`: the flush thread gets the processor, its
sleep ends, the clock goes on, and a poll returns within 100 ms, so that the loop tests
its flag.  `RemoteWrite!Fairness`: the push thread and the main thread run,
sleeps and `join` time out, and a request ends in an answer, an error or a timeout.
Nothing makes a request, a signal, or a favourable answer happen.

## 4. Where the code and what is said of it disagree

Each of these is a run that TLC ends with a counterexample; `PROJECT.json` quotes the
sentence that is contradicted.

| Run | Property | What happens |
|---|---|---|
| `correlator_sweep` | `SweepKeepsFresh` | the sweep compares the time since boot of a dependency with a cutoff in time since the epoch: everything pending is older, and goes |
| `request_headers` | `FilesAreNotCaptured` | nothing deletes the receive arguments that a `recvmsg` leaves behind, so the bytes of a file that the thread reads next are captured as the connection's headers |
| `attribution_during` | `DependenciesMadeDuring` | a thread accepts a connection, connects, and closes; the poll loop handles the request before the dependency, which then waits for the next connection of the thread, one that was accepted after the connect |
| `remote_signals` | `StopEndsAgent` | a signal during `stop()` may make the main thread wait for its own lock |
| `storage_report` | `ReportAnswers` | both joins of the report name a column `rp.rp.timestamp`, because `rp.` is put before conditions in which `timestamp` was already replaced by `rp.timestamp`, and the first one selects columns both tables have without naming the table; SQLite refuses the statements whenever there is something to report |

Some disagreements are what a passing property states outright:

* a thread stays registered for a socket that another thread closed, and is charged to the
  next connections at that address (`ChargedToUsersOrLeftovers` names exactly these).  A thread
  that serves several connections is registered for the first (`request_tracker.c:132`), and its time
  on the others is charged to that one, which the property permits: the thread is a user of both.
  The comments at `request_tracker.c:4` (accurate CPU time per request) and `131` (one registration
  per thread and socket) say otherwise;
* what waited longer than the export query's window, or exceeds the deque, is never exported:
  `ExportedAtMostOnce` says at most once, and at least once would be false, although the README
  (line 166) says that VictoriaMetrics receives all individual requests via Remote Write;
* headers may be those of an earlier connection at the same address (`HeadersFromAddress`), when
  another thread closes a socket between the return of a receive and the exit of its system call.

The constants of the modules show some more without a run of their own:

* with a `TidCapacity` smaller than the number of threads, `ChargedAtMostOnce` fails: the
  stamp is written although there was no room for the thread (`request_tracker.c:140`), so it
  outlives the thread's time off the processor.  This is why the theorem assumes
  `RoomForThreads`, and why the run does not show what happens when the map is full;
* a signal while `main = "starting"` is forgotten, because `EventCollector.start` sets
  the flag that `stop()` has cleared (`collector.py:359`); `StopWhilePollingEnds` is
  stated for the stops that come later, and `HandledIsStored` for an agent that goes on running:
  what waits in the correlator or in the flush thread's hands when the process ends is lost.

Read off the code while modelling it, and what the modules therefore do:

* `trace_dep_close` looks at the closing thread and not at the socket, so the close of
  an accepted connection, of a listener or of a socket that was never connected reports the thread's
  pending connect (`Report`, `dependency_tracker.c:94`);
* a connect that the peer refuses or never answers is reported as a dependency by the next close, as
  the probe only deletes what failed immediately (`ConnectReturn`, `dependency_tracker.c:79`);
* what `handle_memory` samples is read by nothing: a profile's memory comes from the event
  (`HandleMemory`, `correlator.py:129`);
* `trace_tcp_sendmsg` counts what the caller asked to send, not what was sent (`Send`,
  `request_tracker.c:160`);
* a request is a connection from accept to close: requests on a connection kept alive are one
  event (`Close`, `request_tracker.c:396`);
* `stop()` of the remote writer sends one batch; what the queue holds beyond it is lost
  (`StopTakes`, `remote_write.py:79`), and `EveryLineAccounted` counts such lines as still in the queue;
* a batch of which an insert raised is not rolled back; its rows are committed with the next batch
  (`StoreRaises`, `backend.py:126`), and a migration that fails is not noticed (`CreateTables`,
  `backend.py:98`);
* of two pods whose processes have one name, the one the API server lists last gets the
  requests of both (`LastOf`); `KnownPodsAreRight` is about the others;
* the values of the chart say that an empty namespace means all (`values.yaml:9`); a
  namespace that is given and whose pods are not found at the start means all too, since both are an
  empty set of PIDs (`ResolveTargetPids`, `daemon.py:153`);
* `perfcatch_requests_total` is called a counter and counts the last five minutes of the deque
  (`GetAggregates`), so it falls when requests age;
* the README (line 294) says that custom headers take priority over the built-in ones; the
  first header of the request that is known wins, whichever it is; and it says (line 557) that the
  first 512 bytes are captured, where the probe copies 256;
* the deque of correlated requests is shorter than the main one, and with mostly
  correlated traffic it forgets first (`StoreCorrelated`, `ringbuffer.py:62`).

## 5. The proofs

`tlapm M.tla` checks the eight modules `*_proofs`.  They hold for every value of the
constants that satisfies the assumptions the modules state (`ClockAssumption`,
`CorrBoundsAssumption`, `SizeAssumption`, `FlushAssumption`, `TrackerAssumption`,
`AttributionAssumption`, `RequestTrackerAssumption`, `RemoteWriteAssumption`,
`StorageAssumption`, `MetadataAssumption`, `CollectorAssumption`), which TLC evaluates in the
runs.  One theorem assumes more, in its statement: `ChargedAtMostOnceCorrect`, see below.

**The correlator** (`CorrTypeCorrect`, `IdsAndTimesCorrect`, `DepsUsedOnceCorrect`,
`DepsGoToNextRequestCorrect`).  The properties are
inductive together, as `CorrInv`: that a dependency goes to the *next* request needs to know
that the pending ones were given to nobody and that ids are handed out in order, and `DepsUsedOnce`
needs to know that what is pending has numbers up to `depCount`.

**The pipeline.**  `PipelineImplementsCorrelator`: every step of the pipeline is a step
of the correlator or leaves its state alone, so all of the above holds in it.
`ConservationCorrect`, `PipelineTypeCorrect` and `RingIsRecentCorrect` are proved from
`PipelineInv`, which
adds to the type invariant that the batch, while it is not stored, is what follows the stored
profiles in `handled`.  `ExportInv` adds what the readers need.  `CorrelatedIsRecent` is
inductive with `BatchIsEnd`, below: filtering distributes over appending (`OfKindsConcat`), and what a full
deque has dropped makes no difference to what it keeps (`LastNExtend`).
`QueriesAnswerCorrect` follows from what is invariant so far: profiles are stored in the order of
`handled`, so the timestamps in the deques run upwards, and what the walk from the newest entry
visits is exactly what the window holds (`WindowIsFilter`).  The export query has no such
luck, as it may return less than the batch and must not return more: `BatchIsEnd` says
that the batch is the end of what is stored until it has been exported, so a query with
the length of the batch as its limit finds none but its profiles, and `ExportedInv` that
everything exported was stored before the batch; ids number the profiles in order (the
correlator's `IdsAndTimesInOrder`), hence `ExportedAtMostOnceCorrect`.
`PipelineImplementsLog`: initial
states are initial, and every step is an `Accept`, a `Publish` or a stutter of
`BoundedLog`, under the refinement mapping of the run.

**The ring buffer.**  `RingBuffer_proofs` holds no theorem about a specification: it says what
the operators of the deques return, for every sequence.  The elements at positions are found by counting
(`RankProperties`, `NthProperties`), and the positions of a concatenation are those of its
first part followed by those of the second, shifted (`JoinedRanks`, `AtConcat`).  On sequences in the order
of time, the walk visits an end of the deque (`WindowIsEnd`), which is the whole window if what was dropped
is older (`WindowIsFilter`), and a query contains every entry that the deque holds, the window
reaches and the limit leaves room for (`QueryContains`).

**Dependencies.**  `TrackerInv` makes the two properties of the probes inductive: no two
threads remember one connect (`RememberedOnce`), and a connect whose call has not
returned is remembered by its own thread at most and not reported (`CallsRight`), so that
deleting the entry of a failed one leaves none.  `AttributionInv` carries this through the
buffers.  For `OnlyLatestReportedCorrect` the invariant says of the map what the property says of the
events: the entry of a thread is its last connect over IPv4, since each one overwrites the entry and nothing
but a later one writes it (`LatestRight`), so a close can report no other.  `DepsRight`: what was handled came from an event that is no longer in the buffer
and no two from one connect, which with the correlator's `DepsUsedOnce` gives
`ConnectInOneProfileCorrect`.  `RequestsRight`: request events of earlier turns are among
those the current poll still has to handle, so that when the dependency buffer's turn comes
there are none left; hence `CyclesRight` and `NeverACycleBehindCorrect`.  `MakersRight`
follows the maker of a connect from the map to the event, the pending dependency and the
profile, for `OnlyByAcceptorCorrect`.  The steps of the correlator are reused: `ComponentSteps`
shows that a step of the composition is one of each component or none.  For this a dependency
must be able to begin when it is handled, which is the assumption `0 \in DepAges`.

**The request tracker.**  `ChargedAtMostOnceCorrect`, under the assumption
`RoomForThreads` that `tid_to_sock` has room for every thread (without it the property
fails, see section 4).  `CpuInv` adds to the property that a stamped thread is running: a
thread whose stamp survived its time off the processor could be charged for it.  The rest is about
connections.  `ConnInv`: open connections have sockets of their own, which
are exactly the keys of `active_requests` (`ConnsRight`); the number of events is that
of connections accepted and not open (`CountRight`); a socket somebody receives from is open,
and the receive arguments name it (`ReceivingRight`); and the counted bytes are the
connection's (`BytesRight`).  This gives the types, `EveryConnectionAccountedCorrect` and
`BytesAreOwnCorrect`.  `ChargesRight` adds that whoever is registered for a socket, or has
time in its accumulator, uses the open connection or was left there by a closed one, for
`ChargedToUsersOrLeftoversCorrect`.  `HeadersFromAddressCorrect` is proved for any number of threads and any calls: `AddressesRight` says that
a read which has returned, and may still be captured, got its bytes from a connection that is or was at
the address its receive arguments name, and so did what is in `sock_headers`; the
address keeps the connections it has had (`AddressKept`), whoever closes them.

**The remote writer.**  `WriterInv` numbers the hands: the push thread is one, and each
call of `stop()` on the stack another.  `QueueRight`: the queue is the interval of the
newest line numbers.  `HandsRight`: only a hand that sends has a batch, no two have a
line in common, and none has a line that waits.  A retry sends what the hand holds, so
the copies of its lines are at most its attempts (`BoundedDuplicationCorrect`); taking a
batch moves the beginning of the interval to a hand that was empty (`EveryLineAccountedCorrect`,
`QueueIsNewestCorrect`).

**The file and the scrapes.**  `StorageInv` states what is wanted of `file` for `file \cup tx` as well, since
the next commit makes that the file: the rows are from the beginnings of batches, and complete
but for a profile at which a store raised or the one that is being inserted.  From it
`PersistedSurvivesCorrect` and `BeginningOfBatchCorrect`; `PercentilesCoverCountCorrect`
needs only that the file grows (`MatchingGrows`).

`ScrapeInv` is about the readers of the deques.  `RingsRight`: each deque is the end of what
the running process gave it, and while the flush thread is between its stores the one is a batch
ahead of the other (`StoredInMain`, `StoredByNow`); `TimesRight`: in the order of
time.  `ScrapeRight` says of each stage of a scrape what its snapshots have shown so far, in a form
that survives what comes after: as the clock goes on and profiles arrive, a request leaves the window, or
has more behind it than fit, and never the other way round (`ScrapeStutter`).  When a snapshot is
taken, what both deques had at the beginning of the scrape is still in it or has one of these excuses
(`AggregatesCount`, `CorrelatedHasRow`, `UncorrelatedHasRow`, by
`WindowContains` and `QueryContains`).  The correlated deque counts what is behind a request among the correlated
only, so there the positions in the filtered sequence have to be counted (`RanksAbove`).
`RecentIsShownCorrect` and `ShownIsCountedCorrect` are its conjuncts at the end of a scrape.

**The collector.**  `CollectorInv` says of what is remembered when it was true, with the history of exits.
`MapsRight`, of the maps and of what a refresh has found so far: a PID found for a pod runs a process of
the pod, or one of the pod has ended under it; a name entered for a pod is one of the pod's, or a process
found for the pod has ended since the refresh began, because the name is read under the PID after the scan
that found it; a port is declared by the pod.  `RefreshRight` says the same of the PIDs whose names are still to be
read.  The cached PID ran a process of that name, still does, or did when it ended (`CacheRight`); a target
PID belongs to a target or to one that has ended (`TargetsRight`).

**Only model-checked.**  Liveness (`HandledIsStored`, `StopWhilePollingEnds`, `LinesAreTaken`,
`LoneStopEndsAgent`), which needs fairness and ENABLED; and that a filter by positions is
`SelectSeq`, which would take induction over data.  Every safety property of a passing run is
proved.  The theorems hold for every value of the bounds, the runs for those of
the configurations.

## 6. What is not modelled

* `resource_tracker.c`: nothing reads the map it fills; two of its probes are not attached.
* The parsing of headers (`collector.py`): a pure function on one string.  Which bytes it
  is given is modelled.
* `models.py`: records of query results.
* Of the command line, everything but the report: one query each, arguments, formatting.
* Of `/metrics`, the CPU histogram (`server.py:226`) and the size of the store: one
  more snapshot each, which no other number refers to.  `get_all_for_export` has no caller.
* The map from addresses to service names and the names of dependencies taken from it
  (`resolve_ip`): labels that decide nothing else.
* Charts, Dockerfiles, sample applications, the Grafana dashboards: configuration.

Abstractions that limit what the modules say:

* a probe is atomic, and so is each read of `/proc`, a scan for one container among them; the sizes of the maps other than `tid_to_sock` and `sock_headers` are not
  modelled;
* the wall clock is not set back;
* SQLite is a step that takes time in `FlushPipeline`; its steps are in `Storage`, which in
  turn begins with a drained batch;
* `Storage` has a scrape or a report in a behaviour, not both: neither writes what the
  other reads, except that a report creates missing columns;
* a handler of the collector is atomic, with the read of `/proc` in it: a process that ends
  between the lookup and the read of its memory size is read as none in the code;
* no profile of the run of `Storage` is of a system namespace, which a scrape gives no row; the
  theorems cover them;
* the run of `Collector` has no list of pod names (`TargetPods` is empty); the theorems
  cover any list;
* the counters of the remote writer that only `stats` reads are left out.
