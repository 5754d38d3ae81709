------------------------------ MODULE Correlator ------------------------------
(***************************************************************************)
(* agent/correlator.py: the RequestCorrelator.  The collector's callbacks  *)
(* hand it finished requests, finished outbound connections and memory     *)
(* samples; the flush thread drains the profiles it has built and sweeps   *)
(* the dependencies no request has claimed.  Every method runs under       *)
(* self._lock, so each one is a single action.                             *)
(*                                                                         *)
(* Two clocks meet here.  An event's start_ns is bpf_ktime_get_ns(), which *)
(* counts from boot; the profile's timestamp and the sweep's cutoff are    *)
(* time.time(), which counts from the epoch.  mono is the first clock and  *)
(* Wall the second; BootTime is the wall-clock time of the boot.           *)
(***************************************************************************)
EXTENDS Integers, Sequences

CONSTANTS
    Pids, Tids,      \* process and thread ids the kernel reports
    MemValues,       \* resident set sizes, as read from /proc or a sample
    Window,          \* window_seconds of the correlator
    BootTime,        \* wall-clock time at which the monotonic clock was 0
    DepAges,         \* how long before its report a dependency may have begun
    MaxClock,        \* bound: the monotonic clock stops there
    MaxRequests,     \* bound: requests handled
    MaxDeps          \* bound: dependencies handled

\* The epoch is decades before any boot, the window is seconds.
ASSUME ClockAssumption ==
    /\ Window \in Nat
    /\ BootTime \in Nat
    /\ BootTime > Window
    /\ DepAges \subseteq Nat

ASSUME CorrBoundsAssumption ==
    /\ MaxClock \in Nat
    /\ MaxRequests \in Nat
    /\ MaxDeps \in Nat

VARIABLES
    mono,            \* CLOCK_MONOTONIC
    counter,         \* _request_counter
    pendingDeps,     \* _pending_deps
    memoryBaseline,  \* _memory_baseline; NoSample where the dict has no entry
    completed,       \* _completed
    handled,         \* history: every profile built, in order
    depCount         \* history: how many dependencies were handled

corrVars == <<mono, counter, pendingDeps, memoryBaseline, completed,
              handled, depCount>>

Keys == Pids \X Tids
NoSample == -1
Wall == BootTime + mono

\* A dependency event: its thread, its monotonic start, its arrival number.  The
\* number orders the events of a thread, so a set of them stands for the list.
Dependency == [key : Keys, start : Nat, seq : Nat]

\* What a request event carries that the correlator or a later stage looks at.
RequestEvent == [key : Keys, mem : MemValues, correlated : BOOLEAN]

\* seen is history: how many dependencies had arrived when it was built.
Profile == [id : Nat, ts : Nat, key : Keys, mem : MemValues,
            correlated : BOOLEAN, deps : SUBSET Dependency, seen : Nat]

CorrTypeOK ==
    /\ mono \in Nat
    /\ counter \in Nat
    /\ pendingDeps \in [Keys -> SUBSET Dependency]
    /\ memoryBaseline \in [Pids -> MemValues \cup {NoSample}]
    /\ completed \in Seq(Profile)
    /\ handled \in Seq(Profile)
    /\ depCount \in Nat

CorrInit ==
    /\ mono = 0
    /\ counter = 0
    /\ pendingDeps = [k \in Keys |-> {}]
    /\ memoryBaseline = [p \in Pids |-> NoSample]
    /\ completed = <<>>
    /\ handled = <<>>
    /\ depCount = 0

\* Mutant: the dictionary is indexed by the process alone.
BuildProfileByPid(e) ==
    [id |-> counter + 1, ts |-> Wall, key |-> e.key, mem |-> e.mem,
     correlated |-> e.correlated, seen |-> depCount,
     deps |-> UNION {pendingDeps[<<e.key[1], t>>] : t \in Tids}]

\* Mutant: the id is taken before the counter is incremented.
BuildProfileOldId(e) ==
    [id |-> counter, ts |-> Wall, key |-> e.key, mem |-> e.mem,
     correlated |-> e.correlated, deps |-> pendingDeps[e.key], seen |-> depCount]

\* Mutant: the sample is used whether or not there is one.
BuildProfileOfSample(e) ==
    [id |-> counter + 1, ts |-> Wall, key |-> e.key, mem |-> memoryBaseline[e.key[1]],
     correlated |-> e.correlated, deps |-> pendingDeps[e.key], seen |-> depCount]

\* The profile handle_request builds: the next id, the time of the handling and
\* every dependency pending for the thread.
BuildProfile(e) ==
    [id |-> counter + 1, ts |-> Wall, key |-> e.key, mem |-> e.mem,
     correlated |-> e.correlated, deps |-> pendingDeps[e.key], seen |-> depCount]

\* Mutant: the pending dependencies are read with get instead of pop.
HandleRequestKeepsPending(e) ==
    /\ counter < MaxRequests
    /\ counter' = counter + 1
    /\ completed' = Append(completed, BuildProfile(e))
    /\ handled' = Append(handled, BuildProfile(e))
    /\ UNCHANGED <<mono, pendingDeps, memoryBaseline, depCount>>

HandleRequest(e) ==
    /\ counter < MaxRequests
    /\ counter' = counter + 1
    /\ pendingDeps' = [pendingDeps EXCEPT ![e.key] = {}]
    /\ completed' = Append(completed, BuildProfile(e))
    /\ handled' = Append(handled, BuildProfile(e))
    /\ UNCHANGED <<mono, memoryBaseline, depCount>>

HandleDependency(k, start) ==
    /\ depCount < MaxDeps
    /\ depCount' = depCount + 1
    /\ pendingDeps' = [pendingDeps EXCEPT ![k] =
                         @ \cup {[key |-> k, start |-> start, seq |-> depCount + 1]}]
    /\ UNCHANGED <<mono, counter, memoryBaseline, completed, handled>>

\* The baseline is written here and read nowhere.
HandleMemory(p, rss) ==
    /\ memoryBaseline' = [memoryBaseline EXCEPT ![p] = rss]
    /\ UNCHANGED <<mono, counter, pendingDeps, completed, handled, depCount>>

\* Mutant: the list is returned and not replaced by an empty one.
DrainCompletedKeeps == UNCHANGED corrVars

DrainCompleted ==
    /\ completed' = <<>>
    /\ UNCHANGED <<mono, counter, pendingDeps, memoryBaseline, handled, depCount>>

\* The cutoff is on the wall clock, start on the monotonic one.
Fresh(d) == d.start > Wall - Window

CleanupStale ==
    /\ pendingDeps' = [k \in Keys |-> {d \in pendingDeps[k] : Fresh(d)}]
    /\ UNCHANGED <<mono, counter, memoryBaseline, completed, handled, depCount>>

Tick ==
    /\ mono < MaxClock
    /\ mono' = mono + 1
    /\ UNCHANGED <<counter, pendingDeps, memoryBaseline, completed, handled, depCount>>

\* The callbacks the collector's polling thread makes.
Collect ==
    \/ \E e \in RequestEvent : HandleRequest(e)
    \/ \E k \in Keys, age \in DepAges : age <= mono /\ HandleDependency(k, mono - age)

\* Nothing attaches sample_memory, so no agent makes this callback; the tests do.
CollectMemory == \E p \in Pids, rss \in MemValues : HandleMemory(p, rss)

CorrNext == Collect \/ CollectMemory \/ DrainCompleted \/ CleanupStale \/ Tick

CorrSpec == CorrInit /\ [][CorrNext]_corrVars

-----------------------------------------------------------------------------
\* Request ids number the profiles in the order they were built, and the
\* timestamps never run backwards: both are taken inside handle_request's lock.
IdsAndTimesInOrder ==
    /\ Len(handled) = counter
    /\ \A i \in DOMAIN handled : handled[i].id = i /\ handled[i].ts <= Wall
    /\ \A i, j \in DOMAIN handled : i < j => handled[i].ts <= handled[j].ts

\* A dependency is reported by at most one profile, and never again once
\* it has been: pop in handle_request hands it over and removes it.
DepsUsedOnce ==
    /\ \A i, j \in DOMAIN handled :
         \A c \in handled[i].deps, d \in handled[j].deps :
            c.seq = d.seq => i = j
    /\ \A i \in DOMAIN handled, k \in Keys :
         \A c \in handled[i].deps, d \in pendingDeps[k] :
            c.seq # d.seq

\* A dependency goes to the first request of its thread that is handled after
\* it: never to another thread's, never past a request that was handled between.
DepsGoToNextRequest ==
    \A j \in DOMAIN handled : \A d \in handled[j].deps :
        /\ d.key = handled[j].key
        /\ d.seq <= handled[j].seen
        /\ \A i \in 1..(j - 1) : handled[i].key = d.key => handled[i].seen < d.seq

\* What the docstring of cleanup_stale says: a dependency that no request has
\* claimed is removed when it is older than the window, and not before.
SweepKeepsFresh ==
    [][\A k \in Keys : \A d \in pendingDeps[k] \ pendingDeps'[k] :
          \/ mono - d.start >= Window
          \/ \E j \in DOMAIN handled' : d \in handled'[j].deps]_corrVars
=============================================================================
