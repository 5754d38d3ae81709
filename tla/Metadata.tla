------------------------------ MODULE Metadata ------------------------------
(***************************************************************************)
(* k8s/metadata.py: the PodMetadataResolver, and the node it describes.    *)
(* A thread asks the API server for the pods of the node.  For one pod     *)
(* after the other it looks in /proc for a process of each container, and  *)
(* then for the names of the processes it has found.  It asks for the      *)
(* services, and replaces all maps at once; if anything fails the old maps *)
(* stay.  Meanwhile processes come and go, and the kernel reuses PIDs.     *)
(***************************************************************************)
EXTENDS Integers, Sequences, FiniteSets, FiniteSetsExt

CONSTANTS
    PodList,      \* the pods, in the order in which the API server lists them
    Comms,        \* names of processes, cut to 15 characters
    Ports,        \* container ports; 0 stands for none
    Prefixes,     \* pairs of names of which one is a prefix of the other
    Pids,
    MaxTime,      \* bound: the clock stops there
    MaxExits,     \* bound: kinds of processes that have ended
    MaxRefreshes  \* bound: refreshes begun

Pods == DOMAIN PodList
None == 0
NoProcess == [pod |-> None, comm |-> "none"]

\* A pod has a number of containers, names of its processes, and a port it declares.
ASSUME MetadataAssumption ==
    /\ PodList \in Seq([namespace : STRING, containers : Nat \ {0}, comms : SUBSET Comms,
                        port : Ports])
    /\ Ports \subseteq Nat /\ None \in Ports
    /\ None \notin Pids
    /\ MaxTime \in Nat /\ MaxExits \in Nat /\ MaxRefreshes \in Nat

VARIABLES
    now,        \* time.time()
    proc,       \* per PID, the process that runs under it
    exits,      \* history: the processes that have ended, with the last time of each kind
    maps,       \* container_pids of the pods, _comm_to_pod, _port_to_pod
    found,      \* what a refresh has found so far
    refresh,    \* where the refreshing thread is
    refreshes   \* history: refreshes begun

nodeVars == <<now, proc, exits>>
resolverVars == <<maps, found, refresh, refreshes>>

Process == {p \in [pod : Pods, comm : Comms] : p.comm \in PodList[p.pod].comms}
Exited == [pid : Pids, pod : Pods, comm : Comms, at : Nat]

\* since is history: when the refresh began.
Maps == [pids : [Pods -> SUBSET Pids], comm : [Comms -> Pods \cup {None}],
         port : [Ports -> Pods \cup {None}], since : Nat]
NoMaps == [pids |-> [p \in Pods |-> {}], comm |-> [c \in Comms |-> None],
           port |-> [q \in Ports |-> None], since |-> 0]

\* The pods still to do, the first of which is at the given container, with the PIDs
\* found for it whose names are still to be read.
Position == [at : {"sleep", "scan", "names", "services"}, todo : SUBSET Pods,
             container : Nat, names : Seq(Pids)]
Asleep == [at |-> "sleep", todo |-> {}, container |-> 1, names |-> <<>>]

MetadataTypeOK ==
    /\ now \in 0..MaxTime
    /\ proc \in [Pids -> Process \cup {NoProcess}]
    /\ exits \subseteq Exited
    /\ maps \in Maps
    /\ found \in Maps
    /\ refresh \in Position
    /\ refreshes \in 0..MaxRefreshes

\* The node runs what it runs; the resolver knows nothing yet.
MetadataInit ==
    /\ now = 0
    /\ proc \in [Pids -> Process \cup {NoProcess}]
    /\ exits = {}
    /\ maps = NoMaps
    /\ found = NoMaps
    /\ refresh = Asleep
    /\ refreshes = 0

-----------------------------------------------------------------------------
(* The node. *)

Tick ==
    /\ now < MaxTime
    /\ now' = now + 1
    /\ UNCHANGED <<proc, exits>>

Spawn(pid, process) ==
    /\ proc[pid] = NoProcess
    /\ proc' = [proc EXCEPT ![pid] = process]
    /\ UNCHANGED <<now, exits>>

Exit(pid) ==
    /\ proc[pid] # NoProcess
    /\ LET x == [pid |-> pid, pod |-> proc[pid].pod, comm |-> proc[pid].comm, at |-> now]
       IN  exits' = {y \in exits : [y EXCEPT !.at = now] # x} \cup {x}
    /\ proc' = [proc EXCEPT ![pid] = NoProcess]
    /\ Cardinality(exits') <= MaxExits
    /\ UNCHANGED now

-----------------------------------------------------------------------------
(* The refresh. *)

\* The last pod of a set in the order of the list, whose entry in a map wins.
LastOf(pods) == IF pods = {} THEN None ELSE Max(pods)

\* The pod the refresh is at, and where it is when it turns to the first of todo.
This == Min(refresh.todo)
TurnTo(todo) ==
    [at |-> IF todo = {} THEN "services" ELSE "scan", todo |-> todo,
     container |-> 1, names |-> <<>>]
TurnToNext == TurnTo(refresh.todo \ {This})

\* The GET of the pods has returned those of the listed; their ports are in the answer.
RefreshPods(listed) ==
    /\ refresh.at = "sleep"
    /\ refreshes < MaxRefreshes
    /\ refreshes' = refreshes + 1
    /\ refresh' = TurnTo(listed)
    /\ found' = [NoMaps EXCEPT !.since = now, !.port =
          [q \in Ports |-> LastOf({p \in listed : q # None /\ PodList[p].port = q})]]
    /\ UNCHANGED maps

\* Mutant: a container without an ID is looked for too, and matches the first process.
ContainerPidsOfNoId(pod) == {pid \in Pids : proc[pid] # NoProcess}

\* What _get_container_pid may find: any process of the container, in the order of the
\* directory, not only the first one the container started.  Which of a pod's processes
\* are in which of its containers is left open.
ContainerPids(pod) == {pid \in Pids : proc[pid].pod = pod}

\* Mutant: a container whose process was not found has a PID all the same.
FoundOrNone(pid) == {pid}

Found(pid) == {pid} \ {None}

\* A container of the pod is looked for, which may not run any more according to the
\* answer, or not yet when the directory is read.  The names of what was found are read
\* after the last one.
ScanContainer(pid) ==
    LET names == IF Found(pid) = {} THEN refresh.names ELSE Append(refresh.names, pid) IN
    /\ refresh.at = "scan"
    /\ pid \in ContainerPids(This) \cup {None}
    /\ found' = [found EXCEPT !.pids[This] = @ \cup Found(pid)]
    /\ refresh' =
          IF refresh.container < PodList[This].containers
          THEN [refresh EXCEPT !.container = @ + 1, !.names = names]
          ELSE IF names = <<>> THEN TurnToNext
          ELSE [refresh EXCEPT !.at = "names", !.names = names]
    /\ UNCHANGED <<maps, refreshes>>

\* /proc/<pid>/comm is read for the first of the PIDs, whatever runs under it by now.
ReadName ==
    LET pid == Head(refresh.names) IN
    /\ refresh.at = "names"
    /\ found' = IF proc[pid] = NoProcess THEN found
                ELSE [found EXCEPT !.comm[proc[pid].comm] = This]
    /\ refresh' = IF Tail(refresh.names) = <<>> THEN TurnToNext
                  ELSE [refresh EXCEPT !.names = Tail(@)]
    /\ UNCHANGED <<maps, refreshes>>

\* The GET of the services has returned too, and the maps are swapped under the lock.
RefreshServices ==
    /\ refresh.at = "services"
    /\ refresh' = Asleep
    /\ maps' = found
    /\ found' = NoMaps
    /\ UNCHANGED refreshes

\* One of the two requests fails, is refused or times out: it is logged.
RefreshFails ==
    /\ \/ refresh.at = "sleep" /\ refreshes < MaxRefreshes /\ refreshes' = refreshes + 1
       \/ refresh.at = "services" /\ UNCHANGED refreshes
    /\ refresh' = Asleep
    /\ found' = NoMaps
    /\ UNCHANGED maps

-----------------------------------------------------------------------------
(* The lookups, each under the lock. *)

\* Mutant: the similar names are tried before the port.
ResolveCommByPrefix(comm, port) ==
    LET similar == {c \in Comms : <<c, comm>> \in Prefixes}
        pods == {maps.comm[c] : c \in similar} \ {None}
    IN  IF maps.comm[comm] # None THEN {maps.comm[comm]}
        ELSE IF pods # {} THEN pods ELSE {maps.port[port]}

\* What resolve_comm may return: the pod of the name, of the port, or of the first
\* name in the dictionary that is a prefix of this one or the other way around.
ResolveComm(comm, port) ==
    LET similar == {c \in Comms : <<c, comm>> \in Prefixes} IN
    IF maps.comm[comm] # None THEN {maps.comm[comm]}
    ELSE IF maps.port[port] # None THEN {maps.port[port]}
    ELSE LET pods == {maps.comm[c] : c \in similar} \ {None}
         IN  IF pods = {} THEN {None} ELSE pods

\* _pid_to_pod has the PIDs of every pod, one found for two pods under the last.
ResolvePid(pid) == LastOf({p \in Pods : pid \in maps.pids[p]})

\* get_pods_on_node with the daemon's filters, and the PIDs of these pods: those under
\* one of whose PIDs _pid_to_pod has them.
PodPids(namespace, names) ==
    UNION {maps.pids[p] : p \in {p \in Pods : /\ \E pid \in maps.pids[p] : ResolvePid(pid) = p
                                              /\ PodList[p].namespace = namespace
                                              /\ names = {} \/ p \in names}}
=============================================================================
