----------------------------- MODULE Collector -----------------------------
(***************************************************************************)
(* The way of one request event from the perf buffer to the store, as far  *)
(* as it decides whose request it was: the collector's filter by PID and   *)
(* its reading of the memory size from /proc (agent/collector.py), and the *)
(* two lookups of the flush thread (agent/daemon.py), with the resolver    *)
(* and the node of Metadata changing between any two steps.                *)
(***************************************************************************)
EXTENDS Metadata

CONSTANTS
    TargetNamespace,   \* PERFCATCH_NAMESPACE, "" for none
    TargetPods,        \* PERFCATCH_PODS, the empty set for none
    CacheTime          \* how long an entry of _proc_cache is used

ASSUME CollectorAssumption ==
    TargetNamespace \in STRING /\ TargetPods \subseteq Pods /\ CacheTime \in Nat

VARIABLES
    started,     \* the daemon has resolved its targets and polls
    targetPids,  \* EventCollector._target_pids
    cache,       \* _proc_cache
    event        \* the request event followed here

vars == <<nodeVars, resolverVars, started, targetPids, cache, event>>

NoEntry == [pid |-> None, at |-> 0]

NoEvent == [at |-> "none"]

\* The event on its way, with as much of it as the steps and the properties ahead need:
\* who sent it under which name and port.
Emitted == [at : {"emitted"}, pid : Pids, really : Pods, comm : Comms, port : Ports]
Handled == [at : {"handled"}, pid : Pids, really : Pods, comm : Comms, port : Ports]
Unnamed == [at : {"unnamed"}, pid : Pids, really : Pods]

CollectorTypeOK ==
    /\ MetadataTypeOK
    /\ started \in BOOLEAN
    /\ targetPids \subseteq Pids
    /\ cache \in [Comms -> [pid : Pids \cup {None}, at : Nat]]
    /\ event \in {NoEvent} \cup Emitted \cup Handled \cup Unnamed

Init ==
    /\ MetadataInit
    /\ started = FALSE
    /\ targetPids = {}
    /\ cache = [c \in Comms |-> NoEntry]
    /\ event = NoEvent

-----------------------------------------------------------------------------
\* Mutant: the namespace is not passed on.
TargetPidsOfNames ==
    UNION {PodPids(PodList[p].namespace, TargetPods) : p \in Pods}

\* _resolve_target_pids.
ResolveTargetPids ==
    IF TargetNamespace = "" THEN {} ELSE PodPids(TargetNamespace, TargetPods)

\* The daemon's start, after the first refresh has succeeded or failed.
Start ==
    /\ ~ started
    /\ refreshes > 0 /\ refresh.at = "sleep"
    /\ started' = TRUE
    /\ targetPids' = ResolveTargetPids
    /\ UNCHANGED <<nodeVars, resolverVars, cache, event>>

\* A process serves a request on a port that its pod declares, or on another; the thread
\* that does has one of the pod's names, its own or that of the process.
Emit(pid, comm, port) ==
    /\ started
    /\ event = NoEvent
    /\ proc[pid] # NoProcess
    /\ comm \in PodList[proc[pid].pod].comms
    /\ event' = [at |-> "emitted", pid |-> pid, really |-> proc[pid].pod, comm |-> comm,
                 port |-> port]
    /\ UNCHANGED <<nodeVars, resolverVars, started, targetPids, cache>>

\* Mutant: an entry of the cache is good for ever.
CachedPidForEver(comm) ==
    IF cache[comm] # NoEntry /\ proc[cache[comm].pid] # NoProcess
    THEN cache[comm].pid ELSE None

\* The PID cached for a name, while the entry is fresh and some process has that PID.
CachedPid(comm) ==
    LET c == cache[comm] IN
    IF c # NoEntry /\ now - c.at < CacheTime /\ proc[c.pid] # NoProcess THEN c.pid ELSE None

\* The filter of _handle_request_event.
Accepted(pid) == targetPids = {} \/ pid \in targetPids

HandleDrops ==
    /\ event.at = "emitted"
    /\ ~ Accepted(event.pid)
    /\ event' = NoEvent
    /\ UNCHANGED <<nodeVars, resolverVars, started, targetPids, cache>>

\* The processes with the event's name in /proc.
Named == {pid \in Pids : proc[pid] # NoProcess /\ proc[pid].comm = event.comm}

\* The PIDs the memory size may be read from: the exact one, else the cached one, else
\* the first in /proc with the name.
RssPids ==
    IF proc[event.pid] # NoProcess THEN {event.pid}
    ELSE IF CachedPid(event.comm) # None THEN {CachedPid(event.comm)}
    ELSE Named

\* The rest of the handler: what was found by name is cached.  The size goes into the
\* profile.
HandleRequest ==
    /\ event.at = "emitted"
    /\ Accepted(event.pid)
    /\ event' = [event EXCEPT !.at = "handled"]
    /\ IF proc[event.pid] # NoProcess \/ CachedPid(event.comm) # None \/ Named = {}
       THEN UNCHANGED cache
       ELSE \E pid \in Named : cache' = [cache EXCEPT ![event.comm] = [pid |-> pid, at |-> now]]
    /\ UNCHANGED <<nodeVars, resolverVars, started, targetPids>>

\* The flush thread's first lookup.  A profile goes to the store when it has found a pod.
LookUpComm ==
    /\ event.at = "handled"
    /\ \E pod \in ResolveComm(event.comm, event.port) :
        event' = IF pod = None
                 THEN [at |-> "unnamed", pid |-> event.pid, really |-> event.really]
                 ELSE NoEvent
    /\ UNCHANGED <<nodeVars, resolverVars, started, targetPids, cache>>

\* The second one, under the lock again, when the first has found nothing: whatever it
\* finds, the profile goes to the store.
LookUpPid ==
    /\ event.at = "unnamed"
    /\ event' = NoEvent
    /\ UNCHANGED <<nodeVars, resolverVars, started, targetPids, cache>>

NodeNext ==
    /\ \/ Tick
       \/ \E pid \in Pids : Exit(pid) \/ \E process \in Process : Spawn(pid, process)
    /\ UNCHANGED <<resolverVars, started, targetPids, cache, event>>

RefreshNext ==
    /\ \/ \E listed \in SUBSET Pods : RefreshPods(listed)
       \/ \E pid \in Pids \cup {None} : ScanContainer(pid)
       \/ ReadName
       \/ RefreshServices
       \/ RefreshFails
    /\ UNCHANGED <<nodeVars, started, targetPids, cache, event>>

Next ==
    \/ NodeNext
    \/ RefreshNext
    \/ Start
    \/ \E pid \in Pids, comm \in Comms, port \in Ports \ {None} : Emit(pid, comm, port)
    \/ HandleDrops
    \/ HandleRequest
    \/ LookUpComm
    \/ LookUpPid

Spec == Init /\ [][Next]_vars

-----------------------------------------------------------------------------
(* Properties. *)

UniqueComm(comm) == Cardinality({p \in Pods : comm \in PodList[p].comms}) = 1
UniquePort(port) == Cardinality({p \in Pods : PodList[p].port = port}) = 1

\* A process of the pod that the refresh had found has ended since the refresh began.
EndedSince(pod) ==
    \E x \in exits : x.pid \in maps.pids[pod] /\ x.pod = pod /\ x.at >= maps.since

\* A request the maps know under a name no other pod has is given to its own pod, however
\* stale they are and whoever has its PID by now, unless they were built while the process
\* found for the pod it is given to gave its PID to another.  One they know under the port
\* that its pod alone declares, and under no name, is given to its own pod.
KnownPodsAreRight ==
    event.at = "handled" =>
        \A pod \in ResolveComm(event.comm, event.port) :
            IF maps.comm[event.comm] # None
            THEN UniqueComm(event.comm) => pod = event.really \/ EndedSince(pod)
            ELSE /\ maps.port[event.port] # None /\ UniquePort(event.port)
                 /\ PodList[event.really].port = event.port
                 => pod = event.really

\* A request known by neither is given to another pod under its PID only if the PID has
\* passed from one of the two to the other, though the maps may be swapped between the
\* two lookups.
PidPodsAreRight ==
    event.at = "unnamed" =>
        LET pod == ResolvePid(event.pid)
        IN  \/ pod \in {None, event.really}
            \/ \E x \in exits : x.pid = event.pid /\ x.pod \in {pod, event.really}

\* A memory size that is not that of the PID itself is that of a process which has the
\* name of the request's thread, or had it less than CacheTime before: the PID may have
\* passed to another process meanwhile, but not longer ago.
RssWasOfComm ==
    event.at = "emitted" =>
        \A rss \in RssPids \ {event.pid} :
            \/ proc[rss].comm = event.comm
            \/ \E x \in exits : x.pid = rss /\ x.comm = event.comm /\ x.at > now - CacheTime

\* When targets were found at the start, the only requests of other namespaces that pass
\* the filter come from processes to which the PID of a target has passed.
StrangersReusePids ==
    /\ event.at = "handled"
    /\ targetPids # {}
    /\ PodList[event.really].namespace # TargetNamespace
    => \E x \in exits : x.pid = event.pid /\ PodList[x.pod].namespace = TargetNamespace
=============================================================================
