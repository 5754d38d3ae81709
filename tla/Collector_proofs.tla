--------------------------- MODULE Collector_proofs ---------------------------
(***************************************************************************)
(* The promises of the collector's path, for every list of pods, every set *)
(* of PIDs and every cache time.  CollectorInv is inductive: it adds what  *)
(* the maps, the half-built maps, the targets and the cache still say      *)
(* about the node after the node has changed, in terms of the processes    *)
(* that have ended.                                                        *)
(***************************************************************************)
EXTENDS Collector, FiniteSetTheorems, SequenceTheorems, WellFoundedInduction, TLAPS

\* A process of the pod runs or has run under the PID.
WasOf(pid, pod) ==
    \/ proc[pid] # NoProcess /\ proc[pid].pod = pod
    \/ \E x \in exits : x.pid = pid /\ x.pod = pod

\* A process of the pod runs under the PID or has until then.
OfSince(pid, pod, time) ==
    \/ proc[pid] # NoProcess /\ proc[pid].pod = pod
    \/ \E x \in exits : x.pid = pid /\ x.pod = pod /\ x.at >= time

\* A process of that name runs under the PID or has until then.
NamedSince(pid, comm, time) ==
    \/ proc[pid] # NoProcess /\ proc[pid].comm = comm
    \/ \E x \in exits : x.pid = pid /\ x.comm = comm /\ x.at >= time

\* A target has ended under the PID.
TargetEnded(pid) ==
    \E x \in exits : x.pid = pid /\ PodList[x.pod].namespace = TargetNamespace

\* A process found for the pod under one of the PIDs has ended since that time.
Ended(pids, pod, time) == \E x \in exits : x.pid \in pids /\ x.pod = pod /\ x.at >= time

\* No process ended later than now.
NodeRight == \A x \in exits : x.at <= now

\* Names are those of the pods they are mapped to unless a process of the pod ended
\* meanwhile; ports are those of their pods; PIDs were.
MapsRight(m) ==
    /\ m.since <= now
    /\ \A c \in Comms : m.comm[c] # None =>
          \/ c \in PodList[m.comm[c]].comms
          \/ Ended(m.pids[m.comm[c]], m.comm[c], m.since)
    /\ \A q \in Ports : m.port[q] # None => PodList[m.port[q]].port = q
    /\ \A pod \in Pods : \A pid \in m.pids[pod] : WasOf(pid, pod)

\* The PIDs whose names are still to be read are of the pod or have been since.
RefreshRight ==
    /\ refresh.at \in {"scan", "names"} => refresh.todo # {}
    /\ refresh.at = "names" => refresh.names # <<>>
    /\ \A i \in 1..Len(refresh.names) :
          /\ refresh.names[i] \in found.pids[This]
          /\ OfSince(refresh.names[i], This, found.since)

TargetsRight ==
    /\ ~ started => targetPids = {} /\ event = NoEvent
    /\ \A pid \in targetPids : \E pod \in Pods :
          PodList[pod].namespace = TargetNamespace /\ WasOf(pid, pod)

CacheRight ==
    \A c \in Comms : cache[c] # NoEntry =>
        /\ cache[c].pid \in Pids
        /\ cache[c].at <= now
        /\ NamedSince(cache[c].pid, c, cache[c].at)

EventRight ==
    /\ event.at \in {"emitted", "handled"} => event.comm \in PodList[event.really].comms
    /\ event.at # "none" => WasOf(event.pid, event.really)
    /\ /\ event.at \in {"emitted", "handled"}
       /\ event.pid \in targetPids
       /\ PodList[event.really].namespace # TargetNamespace
       => TargetEnded(event.pid)
    /\ event.at = "handled" => Accepted(event.pid)

CollectorInv ==
    /\ CollectorTypeOK
    /\ NodeRight
    /\ MapsRight(maps) /\ MapsRight(found)
    /\ RefreshRight
    /\ TargetsRight
    /\ CacheRight
    /\ EventRight

-----------------------------------------------------------------------------
\* The pods are numbers from 1, finitely many; each has containers, a port and names.
LEMMA PodsAreNumbers ==
    /\ Len(PodList) \in Nat
    /\ Pods = 1 .. Len(PodList)
    /\ IsFiniteSet(Pods)
    /\ \A p \in Pods : /\ PodList[p].port \in Ports /\ PodList[p].comms \subseteq Comms
                       /\ PodList[p].containers \in Nat \ {0}
<1>. DEFINE Pod == [namespace : STRING, containers : Nat \ {0}, comms : SUBSET Comms, port : Ports]
<1>1. PodList \in Seq(Pod)
  BY MetadataAssumption
<1>2. Len(PodList) \in Nat /\ Pods = 1 .. Len(PodList)
  BY <1>1 DEF Pods
<1>3. IsFiniteSet(1 .. Len(PodList))
  BY <1>2, FS_Interval
<1>4. \A p \in 1 .. Len(PodList) : PodList[p] \in Pod
  BY <1>1, <1>2, ElementOfSeq
<1>. QED
  BY <1>2, <1>3, <1>4

\* A set of pods that is not empty has a first one.
LEMMA FirstIsMember ==
    ASSUME NEW S \in SUBSET Pods, S # {}
    PROVE  Min(S) \in S
<1>1. S \subseteq Nat
  BY PodsAreNumbers
<1>2. PICK x \in S : \A y \in S : ~ (<<y, x>> \in OpToRel(<, Nat))
  BY <1>1, NatLessThanWellFounded, WFMin
<1>3. \A y \in S : ~ (y < x)
  BY <1>1, <1>2 DEF OpToRel
<1>4. \A y \in S : x <= y
  BY <1>1, <1>3
<1>. QED
  BY <1>4 DEF Min

\* A set of pods that is not empty has a last one.
LEMMA LastOfIsMember ==
    ASSUME NEW S \in SUBSET Pods
    PROVE  LastOf(S) \in S \/ (S = {} /\ LastOf(S) = None)
<1>1. CASE S = {}
  BY <1>1 DEF LastOf
<1>2. CASE S # {}
  <2>. DEFINE n == Len(PodList)
              T == {n - p : p \in S}
  <2>1. n \in Nat /\ \A p \in S : p \in 1 .. n
    BY PodsAreNumbers
  <2>. HIDE DEF n
  <2>2. T \subseteq Nat /\ T # {}
    BY <2>1, <1>2
  <2>3. \E x \in T : \A y \in T : ~ (<<y, x>> \in OpToRel(<, Nat))
    BY <2>2, NatLessThanWellFounded, WFMin
  <2>4. PICK x \in T : \A y \in T : ~ (<<y, x>> \in OpToRel(<, Nat))
    BY <2>3
  <2>5. \A y \in T : ~ (y < x)
    BY <2>2, <2>4 DEF OpToRel
  <2>6. PICK p \in S : x = n - p
    BY <2>4
  <2>7. \A q \in S : p >= q
    <3>1. ASSUME NEW q \in S
          PROVE  p >= q
      <4>1. ~ (n - q < n - p)
        BY <2>5, <2>6
      <4>2. p \in Int /\ q \in Int
        BY <2>1
      <4>. QED
        BY <2>1, <4>1, <4>2
    <3>. QED
      BY <3>1
  <2>8. Max(S) \in S
    BY <2>7 DEF Max
  <2>. QED
    BY <2>8, <1>2 DEF LastOf
<1>. QED
  BY <1>1, <1>2
\* A set of one pod: whoever else fulfils its condition is that pod.
LEMMA UniqueMember ==
    ASSUME NEW S \in SUBSET Pods, Cardinality(S) = 1, NEW p \in S, NEW q \in S
    PROVE  p = q
<1>1. IsFiniteSet(S)
  BY PodsAreNumbers, FS_Subset
<1>2. \E x : S = {x}
  BY <1>1, FS_Singleton
<1>. QED
  BY <1>2

\* A pod known under a PID was found under it.
LEMMA ResolvedPidWasFound ==
    ASSUME NEW pid, ResolvePid(pid) # None
    PROVE  ResolvePid(pid) \in Pods /\ pid \in maps.pids[ResolvePid(pid)]
<1>. DEFINE S == {p \in Pods : pid \in maps.pids[p]}
<1>1. LastOf(S) \in S
  BY LastOfIsMember DEF ResolvePid
<1>. QED
  BY <1>1 DEF ResolvePid

\* The pod the refresh is at.
LEMMA ThisIsPod ==
    ASSUME MetadataTypeOK, refresh.todo # {}
    PROVE  This \in Pods /\ refresh.todo \ {This} \subseteq Pods
  BY FirstIsMember DEF MetadataTypeOK, Position, This

\* Positions.
LEMMA TurnType ==
    ASSUME NEW todo \in SUBSET Pods
    PROVE  /\ TurnTo(todo) \in Position
           /\ TurnTo(todo).names = <<>> /\ Len(TurnTo(todo).names) = 0
           /\ TurnTo(todo).at \in {"scan", "services"}
           /\ TurnTo(todo).at = "scan" => TurnTo(todo).todo # {}
<1>1. <<>> \in Seq(Pids) /\ Len(<<>>) = 0
  OBVIOUS
<1>. QED
  BY <1>1 DEF TurnTo, Position

-----------------------------------------------------------------------------
(* The types. *)

LEMMA NoMapsType == NoMaps \in Maps /\ Asleep \in Position
<1>1. <<>> \in Seq(Pids)
  OBVIOUS
<1>. QED
  BY <1>1 DEF NoMaps, Maps, Asleep, Position

\* A step of the refresh keeps the types of the resolver.
LEMMA RefreshTypeStep ==
    ASSUME MetadataTypeOK, RefreshRight, RefreshNext
    PROVE  MetadataTypeOK'
<1>. USE DEF MetadataTypeOK
<1>1. UNCHANGED <<now, proc, exits>>
  BY DEF RefreshNext, nodeVars
<1>2. SUFFICES maps' \in Maps /\ found' \in Maps /\ refresh' \in Position
                 /\ refreshes' \in 0..MaxRefreshes
  BY <1>1
<1>3. ASSUME NEW listed \in SUBSET Pods, RefreshPods(listed)
      PROVE  maps' \in Maps /\ found' \in Maps /\ refresh' \in Position
               /\ refreshes' \in 0..MaxRefreshes
  <2>1. \A q \in Ports : LastOf({p \in listed : q # None /\ PodList[p].port = q})
                            \in Pods \cup {None}
    BY LastOfIsMember
  <2>. DEFINE ports == [q \in Ports |-> LastOf({p \in listed : q # None /\ PodList[p].port = q})]
  <2>3. ports \in [Ports -> Pods \cup {None}] /\ now \in Nat
    BY <2>1, MetadataAssumption
  <2>4. found' = [NoMaps EXCEPT !.since = now, !.port = ports]
    BY <1>3 DEF RefreshPods
  <2>. HIDE DEF ports
  <2>2. found' \in Maps
    BY <2>3, <2>4, NoMapsType DEF Maps
  <2>. QED
    BY <1>3, <2>2, TurnType, MetadataAssumption DEF RefreshPods
<1>4. ASSUME NEW pid \in Pids \cup {None}, ScanContainer(pid)
      PROVE  maps' \in Maps /\ found' \in Maps /\ refresh' \in Position
               /\ refreshes' \in 0..MaxRefreshes
  <2>1. This \in Pods /\ TurnToNext \in Position
    BY <1>4, ThisIsPod, TurnType DEF ScanContainer, RefreshRight, TurnToNext
  <2>2. found' \in Maps
    BY <1>4, <2>1 DEF ScanContainer, Found, Maps
  <2>. DEFINE names == IF Found(pid) = {} THEN refresh.names ELSE Append(refresh.names, pid)
  <2>3. names \in Seq(Pids)
    <3>1. refresh.names \in Seq(Pids)
      BY DEF Position
    <3>2. Found(pid) # {} => pid \in Pids
      BY DEF Found
    <3>. QED
      BY <3>1, <3>2, AppendProperties
  <2>. HIDE DEF names
  <2>4. [refresh EXCEPT !.container = @ + 1, !.names = names] \in Position
    <3>1. refresh.container + 1 \in Nat
      BY DEF Position
    <3>. QED
      BY <2>3, <3>1 DEF Position
  <2>5. [refresh EXCEPT !.at = "names", !.names = names] \in Position
    BY <2>3 DEF Position
  <2>6. \/ refresh' = [refresh EXCEPT !.container = @ + 1, !.names = names]
        \/ refresh' = [refresh EXCEPT !.at = "names", !.names = names]
        \/ refresh' = TurnToNext
    BY <1>4 DEF ScanContainer, names
  <2>. QED
    BY <1>4, <2>1, <2>2, <2>4, <2>5, <2>6 DEF ScanContainer
<1>5. CASE ReadName
  <2>1. This \in Pods /\ TurnToNext \in Position
    BY <1>5, ThisIsPod, TurnType DEF ReadName, RefreshRight, TurnToNext
  <2>2. refresh.names \in Seq(Pids) /\ refresh.names # <<>>
    BY <1>5 DEF ReadName, RefreshRight, Position
  <2>3. Head(refresh.names) \in Pids /\ Tail(refresh.names) \in Seq(Pids)
    BY <2>2, HeadTailProperties
  <2>4. found' \in Maps
    <3>. DEFINE pid == Head(refresh.names)
    <3>1. CASE proc[pid] = NoProcess
      BY <1>5, <3>1 DEF ReadName
    <3>2. CASE proc[pid] # NoProcess
      <4>1. proc[pid].comm \in Comms
        BY <2>3, <3>2 DEF Process
      <4>. QED
        BY <1>5, <2>1, <3>2, <4>1 DEF ReadName, Maps
    <3>. QED
      BY <3>1, <3>2
  <2>5. [refresh EXCEPT !.names = Tail(@)] \in Position
    BY <2>3 DEF Position
  <2>. QED
    BY <1>5, <2>1, <2>4, <2>5 DEF ReadName
<1>6. CASE RefreshServices
  BY <1>6, NoMapsType DEF RefreshServices
<1>7. CASE RefreshFails
  BY <1>7, NoMapsType, MetadataAssumption DEF RefreshFails
<1>. QED
  BY <1>3, <1>4, <1>5, <1>6, <1>7 DEF RefreshNext

\* Each step keeps the types of the node and of the resolver.
LEMMA MetadataTypeStep ==
    ASSUME MetadataTypeOK, RefreshRight, [Next]_vars
    PROVE  MetadataTypeOK'
<1>. USE DEF MetadataTypeOK
<1>1. CASE NodeNext
  <2>1. CASE Tick /\ UNCHANGED resolverVars
    BY <2>1, MetadataAssumption DEF Tick, resolverVars
  <2>2. ASSUME NEW pid \in Pids, NEW process \in Process, Spawn(pid, process),
               UNCHANGED resolverVars
        PROVE  MetadataTypeOK'
    BY <2>2, MetadataAssumption DEF Spawn, resolverVars
  <2>3. ASSUME NEW pid \in Pids, Exit(pid), UNCHANGED resolverVars
        PROVE  MetadataTypeOK'
    BY <2>3, MetadataAssumption DEF Exit, resolverVars, Process, Exited
  <2>. QED
    BY <1>1, <2>1, <2>2, <2>3 DEF NodeNext
<1>2. CASE RefreshNext
  BY <1>2, RefreshTypeStep
<1>3. CASE UNCHANGED <<nodeVars, resolverVars>>
  BY <1>3 DEF nodeVars, resolverVars
<1>. QED
  BY <1>1, <1>2, <1>3 DEF Next, vars, Start, Emit, HandleDrops, HandleRequest, LookUpComm, LookUpPid

\* Each step keeps the types of the collector.
LEMMA CollectorTypeStep ==
    ASSUME CollectorTypeOK, RefreshRight, [Next]_vars
    PROVE  CollectorTypeOK'
<1>1. MetadataTypeOK'
  BY MetadataTypeStep DEF CollectorTypeOK
<1>2. proc \in [Pids -> Process \cup {NoProcess}] /\ now \in Nat
  BY MetadataAssumption DEF CollectorTypeOK, MetadataTypeOK
<1>. USE DEF CollectorTypeOK
<1>3. CASE UNCHANGED <<started, targetPids, cache, event>>
  BY <1>1, <1>3
<1>4. CASE Start
  <2>1. \A p \in Pods : maps.pids[p] \subseteq Pids
    BY DEF MetadataTypeOK, Maps
  <2>2. ResolveTargetPids \subseteq Pids
    BY <2>1 DEF ResolveTargetPids, PodPids
  <2>. QED
    BY <1>1, <1>4, <2>2 DEF Start
<1>5. ASSUME NEW pid \in Pids, NEW comm \in Comms, NEW port \in Ports \ {None},
             Emit(pid, comm, port)
      PROVE  CollectorTypeOK'
  BY <1>1, <1>2, <1>5 DEF Emit, Emitted, Process
<1>6. CASE HandleDrops
  BY <1>1, <1>6 DEF HandleDrops
<1>7. CASE HandleRequest
  <2>1. event \in Emitted
    BY <1>7 DEF HandleRequest, NoEvent, Emitted, Handled, Unnamed
  <2>2. event' \in Handled
    BY <1>7, <2>1 DEF HandleRequest, Handled, Emitted
  <2>3. cache' \in [Comms -> [pid : Pids \cup {None}, at : Nat]]
    BY <1>2, <1>7, <2>1 DEF HandleRequest, Named, Emitted
  <2>. QED
    BY <1>1, <1>7, <2>2, <2>3 DEF HandleRequest
<1>8. CASE LookUpComm
  <2>1. event \in Handled
    BY <1>8 DEF LookUpComm, NoEvent, Emitted, Handled, Unnamed
  <2>2. event' \in Unnamed \cup {NoEvent}
    BY <1>8, <2>1 DEF LookUpComm, Handled, Unnamed
  <2>. QED
    BY <1>1, <1>8, <2>2 DEF LookUpComm
<1>9. CASE LookUpPid
  BY <1>1, <1>9 DEF LookUpPid
<1>. QED
  BY <1>3, <1>4, <1>5, <1>6, <1>7, <1>8, <1>9 DEF Next, vars, NodeNext, RefreshNext

\* What an event has.
LEMMA EventFacts ==
    ASSUME CollectorTypeOK
    PROVE  /\ event.at \in {"none", "emitted", "handled", "unnamed"}
           /\ event.at # "none" => event.pid \in Pids /\ event.really \in Pods
           /\ event.at \in {"emitted", "handled"} => event.comm \in Comms /\ event.port \in Ports
  BY DEF CollectorTypeOK, NoEvent, Emitted, Handled, Unnamed

-----------------------------------------------------------------------------
\* What the node's steps keep: who was somewhere has been there ever since.
LEMMA NodeKeeps ==
    ASSUME CollectorInv, NodeNext
    PROVE  /\ now' \in Nat /\ now <= now'
           /\ NodeRight'
           /\ \A x \in exits : \E y \in exits' :
                 y.pid = x.pid /\ y.pod = x.pod /\ y.comm = x.comm /\ y.at >= x.at
           /\ \A pid \in Pids : proc[pid] # NoProcess =>
                 \/ proc'[pid] = proc[pid]
                 \/ \E y \in exits' : /\ y.pid = pid /\ y.pod = proc[pid].pod
                                      /\ y.comm = proc[pid].comm /\ y.at = now
<1>. USE DEF CollectorInv, CollectorTypeOK, MetadataTypeOK, NodeRight
<1>1. CASE Tick /\ UNCHANGED <<resolverVars, started, targetPids, cache, event>>
  BY <1>1 DEF Tick, Exited
<1>2. ASSUME NEW pid \in Pids, NEW process \in Process, Spawn(pid, process)
      PROVE  /\ now' = now
             /\ NodeRight'
             /\ exits' = exits
             /\ \A p \in Pids : proc[p] # NoProcess => proc'[p] = proc[p]
  BY <1>2 DEF Spawn, Exited
<1>3. ASSUME NEW pid \in Pids, Exit(pid)
      PROVE  /\ now' = now
             /\ NodeRight'
             /\ \A x \in exits : \E y \in exits' :
                   y.pid = x.pid /\ y.pod = x.pod /\ y.comm = x.comm /\ y.at >= x.at
             /\ \A p \in Pids \ {pid} : proc'[p] = proc[p]
             /\ \E y \in exits' : /\ y.pid = pid /\ y.pod = proc[pid].pod
                                  /\ y.comm = proc[pid].comm /\ y.at = now
  <2>. DEFINE x == [pid |-> pid, pod |-> proc[pid].pod, comm |-> proc[pid].comm, at |-> now]
  <2>1. exits' = {y \in exits : [y EXCEPT !.at = now] # x} \cup {x}
        /\ now' = now /\ proc' = [proc EXCEPT ![pid] = NoProcess]
    BY <1>3 DEF Exit
  <2>2. \A y \in exits : /\ y \in Exited /\ y.at \in Nat /\ y.at <= now
                         /\ [y EXCEPT !.at = now] = x =>
                              y.pid = x.pid /\ y.pod = x.pod /\ y.comm = x.comm
    BY DEF Exited
  <2>3. x \in exits' /\ x.at = now /\ now \in Nat
    BY <2>1
  <2>4. \A z \in exits : \E y \in exits' :
           y.pid = z.pid /\ y.pod = z.pod /\ y.comm = z.comm /\ y.at >= z.at
    <3>1. SUFFICES ASSUME NEW z \in exits
                   PROVE  \E y \in exits' : /\ y.pid = z.pid /\ y.pod = z.pod
                                            /\ y.comm = z.comm /\ y.at >= z.at
      OBVIOUS
    <3>2. CASE [z EXCEPT !.at = now] = x
      <4>1. x.pid = z.pid /\ x.pod = z.pod /\ x.comm = z.comm /\ x.at >= z.at
        BY <2>2, <2>3, <3>2
      <4>. QED
        BY <2>3, <4>1
    <3>3. CASE [z EXCEPT !.at = now] # x
      <4>. HIDE DEF x
      <4>1. z \in {y \in exits : [y EXCEPT !.at = now] # x}
        BY <3>3, Zenon
      <4>2. z \in exits'
        BY <2>1, <4>1, Zenon
      <4>3. z.at \in Nat
        BY DEF Exited
      <4>. QED
        BY <4>2, <4>3
    <3>. QED
      BY <3>2, <3>3
  <2>5. NodeRight'
    BY <2>1, <2>2
  <2>6. \A p \in Pids \ {pid} : proc'[p] = proc[p]
    BY <2>1
  <2>. QED
    BY <2>1, <2>3, <2>4, <2>5, <2>6
<1>. QED
  <2>1. now \in Nat
    BY MetadataAssumption
  <2>2. \A x \in exits : x.at \in Nat
    BY DEF Exited
  <2>3. CASE \E pid \in Pids : \E process \in Process : Spawn(pid, process)
    <3>1. /\ now' = now /\ NodeRight' /\ exits' = exits
          /\ \A p \in Pids : proc[p] # NoProcess => proc'[p] = proc[p]
      BY <1>2, <2>3
    <3>. QED
      BY <2>1, <2>2, <3>1
  <2>4. CASE \E pid \in Pids : Exit(pid)
    BY <1>3, <2>1, <2>2, <2>4
  <2>. QED
    BY <1>1, <2>3, <2>4 DEF NodeNext

\* What was true of the past stays true of it.
LEMMA PastStays ==
    ASSUME CollectorInv, NodeNext
    PROVE  /\ \A pid \in Pids, pod \in Pods : WasOf(pid, pod) => WasOf(pid, pod)'
           /\ \A pid \in Pids, pod \in Pods, time \in Nat :
                 time <= now /\ OfSince(pid, pod, time) => OfSince(pid, pod, time)'
           /\ \A pid \in Pids, comm \in Comms, time \in Nat :
                 time <= now /\ NamedSince(pid, comm, time) => NamedSince(pid, comm, time)'
           /\ \A pids \in SUBSET Pids, pod \in Pods, time \in Nat :
                 Ended(pids, pod, time) => Ended(pids, pod, time)'
           /\ \A pid \in Pids : TargetEnded(pid) => TargetEnded(pid)'
<1>1. \A x \in exits : x.at \in Nat
  BY DEF CollectorInv, CollectorTypeOK, MetadataTypeOK, Exited
<1>2. exits' \subseteq Exited /\ now \in Nat
  BY MetadataAssumption, MetadataTypeStep DEF CollectorInv, CollectorTypeOK, MetadataTypeOK, Next
<1>3. \A x \in exits' : x.at \in Nat
  BY <1>2 DEF Exited
<1>4. \A pid \in Pids, pod \in Pods : WasOf(pid, pod) => WasOf(pid, pod)'
  BY NodeKeeps DEF WasOf
<1>5. \A pid \in Pids, comm \in Comms, time \in Nat :
         time <= now /\ NamedSince(pid, comm, time) => NamedSince(pid, comm, time)'
  BY <1>1, <1>2, <1>3, NodeKeeps DEF NamedSince
<1>6. \A pid \in Pids, pod \in Pods, time \in Nat :
         time <= now /\ OfSince(pid, pod, time) => OfSince(pid, pod, time)'
  BY <1>1, <1>2, <1>3, NodeKeeps DEF OfSince
<1>7. \A pids \in SUBSET Pids, pod \in Pods, time \in Nat :
         Ended(pids, pod, time) => Ended(pids, pod, time)'
  <2>1. SUFFICES ASSUME NEW pids \in SUBSET Pids, NEW pod \in Pods, NEW time \in Nat,
                        NEW x \in exits, x.pid \in pids, x.pod = pod, x.at >= time
                 PROVE  \E y \in exits' : y.pid \in pids /\ y.pod = pod /\ y.at >= time
    BY DEF Ended
  <2>2. PICK y \in exits' : y.pid = x.pid /\ y.pod = x.pod /\ y.at >= x.at
    BY NodeKeeps
  <2>3. x.at \in Nat /\ y.at \in Nat
    BY <1>1, <1>3
  <2>. QED
    BY <2>1, <2>2, <2>3
<1>8. \A pid \in Pids : TargetEnded(pid) => TargetEnded(pid)'
  BY NodeKeeps DEF TargetEnded
<1>. QED
  BY <1>4, <1>5, <1>6, <1>7, <1>8

-----------------------------------------------------------------------------
\* Maps that say nothing are right.
LEMMA NoMapsRight ==
    ASSUME CollectorTypeOK
    PROVE  MapsRight(NoMaps) /\ NoMaps.since = 0 /\ now \in Nat
  BY MetadataAssumption DEF MapsRight, NoMaps, CollectorTypeOK, MetadataTypeOK

\* The initial states fulfil the invariant.
LEMMA CollectorInitInv == Init => CollectorInv
<1>. SUFFICES ASSUME Init PROVE CollectorInv
  OBVIOUS
<1>1. MetadataTypeOK
  BY MetadataAssumption, NoMapsType DEF Init, MetadataInit, MetadataTypeOK
<1>2. CollectorTypeOK
  BY <1>1 DEF Init, CollectorTypeOK, NoEntry
<1>3. NodeRight
  BY DEF Init, MetadataInit, NodeRight
<1>4. MapsRight(maps) /\ MapsRight(found)
  BY <1>2, NoMapsRight DEF Init, MetadataInit
<1>5. RefreshRight
  BY DEF Init, MetadataInit, RefreshRight, Asleep
<1>6. event.at = "none"
  BY DEF Init, NoEvent
<1>. QED
  BY <1>2, <1>3, <1>4, <1>5, <1>6 DEF Init, CollectorInv, TargetsRight, CacheRight, EventRight

\* Maps that are not touched stay right when the node changes.
LEMMA MapsStayRight ==
    ASSUME CollectorInv, NodeNext, NEW m \in Maps, MapsRight(m)
    PROVE  /\ m.since <= now'
           /\ \A c \in Comms : m.comm[c] # None =>
                 \/ c \in PodList[m.comm[c]].comms
                 \/ \E x \in exits' : /\ x.pid \in m.pids[m.comm[c]]
                                      /\ x.pod = m.comm[c] /\ x.at >= m.since
           /\ \A q \in Ports : m.port[q] # None => PodList[m.port[q]].port = q
           /\ \A pod \in Pods : \A pid \in m.pids[pod] :
                 \/ proc'[pid] # NoProcess /\ proc'[pid].pod = pod
                 \/ \E x \in exits' : x.pid = pid /\ x.pod = pod
<1>1. m.since \in Nat /\ now \in Nat /\ now' \in Nat /\ now <= now'
  BY NodeKeeps, MetadataAssumption DEF Maps, CollectorInv, CollectorTypeOK, MetadataTypeOK
<1>2. ASSUME NEW c \in Comms, m.comm[c] # None, c \notin PodList[m.comm[c]].comms
      PROVE  \E x \in exits' : /\ x.pid \in m.pids[m.comm[c]]
                              /\ x.pod = m.comm[c] /\ x.at >= m.since
  <2>1. m.comm[c] \in Pods /\ m.pids[m.comm[c]] \in SUBSET Pids
    BY <1>2 DEF Maps
  <2>2. Ended(m.pids[m.comm[c]], m.comm[c], m.since)
    BY <1>2 DEF MapsRight
  <2>3. \A pids \in SUBSET Pids, pod \in Pods, time \in Nat :
           Ended(pids, pod, time) =>
             \E x \in exits' : x.pid \in pids /\ x.pod = pod /\ x.at >= time
    BY PastStays DEF Ended
  <2>. QED
    BY <1>1, <2>1, <2>2, <2>3
<1>3. ASSUME NEW pod \in Pods, NEW pid \in m.pids[pod]
      PROVE  \/ proc'[pid] # NoProcess /\ proc'[pid].pod = pod
             \/ \E x \in exits' : x.pid = pid /\ x.pod = pod
  <2>1. pid \in Pids /\ WasOf(pid, pod)
    BY <1>3 DEF Maps, MapsRight
  <2>2. \A p \in Pids, q \in Pods : WasOf(p, q) =>
           \/ proc'[p] # NoProcess /\ proc'[p].pod = q
           \/ \E x \in exits' : x.pid = p /\ x.pod = q
    BY PastStays DEF WasOf
  <2>. QED
    BY <2>1, <2>2
<1>. QED
  BY <1>1, <1>2, <1>3 DEF MapsRight

\* The node's steps preserve the invariant.
LEMMA NodeStep ==
    ASSUME CollectorInv, NodeNext
    PROVE  CollectorInv'
<1>1. UNCHANGED <<maps, found, refresh, started, targetPids, cache, event>>
  BY DEF NodeNext, resolverVars
<1>2. CollectorTypeOK' /\ CollectorTypeOK
  BY CollectorTypeStep DEF CollectorInv, Next
<1>3. NodeRight'
  BY NodeKeeps
<1>4. maps \in Maps /\ found \in Maps /\ refresh.names \in Seq(Pids)
  BY <1>2 DEF CollectorTypeOK, MetadataTypeOK, Position
<1>5. MapsRight(maps)'
  <2>1. MapsRight(maps) /\ maps' = maps
    BY <1>1 DEF CollectorInv
  <2>. QED
    BY <1>4, <2>1, MapsStayRight DEF MapsRight, Ended, WasOf
<1>6. MapsRight(found)'
  <2>1. MapsRight(found) /\ found' = found
    BY <1>1 DEF CollectorInv
  <2>. QED
    BY <1>4, <2>1, MapsStayRight DEF MapsRight, Ended, WasOf
<1>7. RefreshRight'
  <2>1. ASSUME NEW i \in 1..Len(refresh.names)
        PROVE  /\ refresh.names[i] \in found.pids[This]
               /\ OfSince(refresh.names[i], This, found.since)'
    <3>. DEFINE pid == refresh.names[i]
                pod == This
                time == found.since
    <3>1. pid \in found.pids[pod] /\ OfSince(pid, pod, time)
      BY DEF CollectorInv, RefreshRight
    <3>2. pid \in Pids
      BY <1>4, ElementOfSeq
    <3>3. time \in Nat /\ time <= now
      BY <1>4 DEF Maps, CollectorInv, MapsRight
    <3>4. pod \in Pods
      <4>1. CASE \E x \in exits : x.pod = pod
        BY <1>2, <4>1 DEF CollectorTypeOK, MetadataTypeOK, Exited
      <4>2. CASE proc[pid] # NoProcess /\ proc[pid].pod = pod
        BY <1>2, <3>2, <4>2 DEF CollectorTypeOK, MetadataTypeOK, Process
      <4>. QED
        BY <3>1, <4>1, <4>2 DEF OfSince
    <3>. HIDE DEF pid, pod, time
    <3>5. \A p \in Pids, q \in Pods, t \in Nat : t <= now /\ OfSince(p, q, t) =>
             \/ proc'[p] # NoProcess /\ proc'[p].pod = q
             \/ \E x \in exits' : x.pid = p /\ x.pod = q /\ x.at >= t
      BY PastStays DEF OfSince
    <3>6. \/ proc'[pid] # NoProcess /\ proc'[pid].pod = pod
          \/ \E x \in exits' : x.pid = pid /\ x.pod = pod /\ x.at >= time
      BY <3>1, <3>2, <3>3, <3>4, <3>5
    <3>7. refresh'.names[i] = pid /\ This' = pod /\ found'.since = time
      BY <1>1 DEF This, pid, pod, time
    <3>. QED
      BY <3>1, <3>6, <3>7 DEF OfSince, pid, pod, time
  <2>2. This' = This
    BY <1>1 DEF This
  <2>. QED
    BY <1>1, <2>1, <2>2 DEF CollectorInv, RefreshRight
<1>8. TargetsRight'
  BY <1>1, <1>2, PastStays DEF CollectorInv, TargetsRight, CollectorTypeOK
<1>9. CacheRight'
  <2>1. \A c \in Comms : cache[c].at \in Nat
    BY <1>2 DEF CollectorTypeOK
  <2>2. now \in Nat /\ now' \in Nat /\ now <= now'
    BY NodeKeeps, MetadataAssumption DEF CollectorInv, CollectorTypeOK, MetadataTypeOK
  <2>3. SUFFICES ASSUME NEW c \in Comms, cache[c] # NoEntry
                 PROVE  /\ cache[c].pid \in Pids
                        /\ cache[c].at <= now'
                        /\ NamedSince(cache[c].pid, c, cache[c].at)'
    BY <1>1 DEF CacheRight
  <2>4. cache[c].pid \in Pids /\ cache[c].at <= now /\ NamedSince(cache[c].pid, c, cache[c].at)
    BY <2>3 DEF CollectorInv, CacheRight
  <2>. QED
    BY <1>1, <2>1, <2>2, <2>4, PastStays
<1>10. EventRight'
  <2>1. ASSUME event.at # "none"
        PROVE  event.pid \in Pids /\ event.really \in Pods /\ WasOf(event.pid, event.really)
    BY <1>2, <2>1, EventFacts DEF CollectorInv, EventRight
  <2>2. event.at # "none" => WasOf(event.pid, event.really)'
    BY <1>1, <2>1, PastStays
  <2>. QED
    BY <1>1, <1>2, <2>2, EventFacts, PastStays DEF CollectorInv, EventRight, Accepted
<1>. QED
  BY <1>2, <1>3, <1>5, <1>6, <1>7, <1>8, <1>9, <1>10 DEF CollectorInv

-----------------------------------------------------------------------------
\* A refresh begins: it knows the ports of the listed pods.
LEMMA RefreshPodsRight ==
    ASSUME CollectorInv, NEW listed \in SUBSET Pods, RefreshPods(listed),
           UNCHANGED <<now, proc, exits>>
    PROVE  MapsRight(found') /\ MapsRight(maps') /\ RefreshRight'
<1>. DEFINE ports == [q \in Ports |-> LastOf({p \in listed : q # None /\ PodList[p].port = q})]
<1>1. now \in Nat
  BY MetadataAssumption DEF CollectorInv, CollectorTypeOK, MetadataTypeOK
<1>2. \A q \in Ports : ports[q] # None => PodList[ports[q]].port = q
  <2>1. SUFFICES ASSUME NEW q \in Ports, ports[q] # None
                 PROVE  PodList[ports[q]].port = q
    OBVIOUS
  <2>. DEFINE S == {p \in listed : q # None /\ PodList[p].port = q}
  <2>2. ports[q] = LastOf(S) /\ S \in SUBSET Pods
    OBVIOUS
  <2>3. LastOf(S) \in S
    BY <2>1, <2>2, LastOfIsMember
  <2>. QED
    BY <2>2, <2>3
<1>3. found' = [NoMaps EXCEPT !.since = now, !.port = ports] /\ maps' = maps
      /\ refresh' = TurnTo(listed)
  BY DEF RefreshPods
<1>. HIDE DEF ports
<1>4. /\ found'.since = now /\ found'.port = ports
      /\ found'.comm = NoMaps.comm /\ found'.pids = NoMaps.pids
  BY <1>3 DEF NoMaps
<1>5. MapsRight(found')
  BY <1>1, <1>2, <1>4 DEF MapsRight, NoMaps
<1>6. RefreshRight'
  BY <1>3, TurnType DEF RefreshRight
<1>. QED
  BY <1>3, <1>5, <1>6 DEF CollectorInv

\* A container is looked for: what is found is a process of the pod.
LEMMA ScanContainerRight ==
    ASSUME CollectorInv, NEW pid \in Pids \cup {None}, ScanContainer(pid),
           UNCHANGED <<now, proc, exits>>
    PROVE  MapsRight(found') /\ MapsRight(maps') /\ RefreshRight'
<1>1. found \in Maps /\ refresh \in Position /\ MetadataTypeOK
      /\ proc \in [Pids -> Process \cup {NoProcess}]
  BY DEF CollectorInv, CollectorTypeOK, MetadataTypeOK
<1>2. This \in Pods /\ refresh.todo \ {This} \subseteq Pods
  BY <1>1, ThisIsPod DEF ScanContainer, CollectorInv, RefreshRight
<1>3. found' = [found EXCEPT !.pids[This] = @ \cup Found(pid)] /\ maps' = maps
  BY DEF ScanContainer
<1>4. /\ found'.since = found.since /\ found'.port = found.port /\ found'.comm = found.comm
      /\ found'.pids = [found.pids EXCEPT ![This] = @ \cup Found(pid)]
  BY <1>1, <1>3 DEF Maps
<1>5. \A p \in Found(pid) : p = pid /\ p \in Pids /\ proc[p] # NoProcess /\ proc[p].pod = This
  <2>1. None \notin Pods
    BY PodsAreNumbers DEF None
  <2>2. pid # None => proc[pid].pod = This /\ pid \in Pids
    BY DEF ScanContainer, ContainerPids
  <2>3. NoProcess.pod = None
    BY DEF NoProcess
  <2>. QED
    BY <1>2, <2>1, <2>2, <2>3 DEF Found
<1>6. \A q \in Pods : found'.pids[q] = IF q = This THEN found.pids[q] \cup Found(pid)
                                        ELSE found.pids[q]
  BY <1>1, <1>2, <1>4 DEF Maps
<1>7. MapsRight(found')
  <2>1. \A c \in Comms : found.comm[c] # None =>
           \/ c \in PodList[found.comm[c]].comms
           \/ Ended(found'.pids[found.comm[c]], found.comm[c], found.since)
    <3>1. SUFFICES ASSUME NEW c \in Comms, found.comm[c] # None,
                          c \notin PodList[found.comm[c]].comms
                   PROVE  Ended(found'.pids[found.comm[c]], found.comm[c], found.since)
      OBVIOUS
    <3>2. Ended(found.pids[found.comm[c]], found.comm[c], found.since)
      BY <3>1 DEF CollectorInv, MapsRight
    <3>3. found.comm[c] \in Pods
      BY <1>1, <3>1 DEF Maps
    <3>4. found.pids[found.comm[c]] \subseteq found'.pids[found.comm[c]]
      BY <1>6, <3>3
    <3>. QED
      BY <3>2, <3>4 DEF Ended
  <2>2. \A q \in Pods : \A p \in found'.pids[q] : WasOf(p, q)
    <3>1. SUFFICES ASSUME NEW q \in Pods, NEW p \in found'.pids[q]
                   PROVE  WasOf(p, q)
      OBVIOUS
    <3>2. CASE p \in found.pids[q]
      BY <3>2 DEF CollectorInv, MapsRight
    <3>3. CASE q = This /\ p \in Found(pid)
      BY <3>3, <1>5 DEF WasOf
    <3>. QED
      BY <1>6, <3>2, <3>3
  <2>3. /\ found.since <= now
        /\ \A q \in Ports : found.port[q] # None => PodList[found.port[q]].port = q
    BY DEF CollectorInv, MapsRight
  <2>. QED
    BY <1>4, <2>1, <2>2, <2>3 DEF MapsRight
<1>8. RefreshRight'
  <2>. DEFINE names == IF Found(pid) = {} THEN refresh.names ELSE Append(refresh.names, pid)
  <2>1. refresh.names \in Seq(Pids)
    BY <1>1 DEF Position
  <2>2. \A i \in 1..Len(refresh.names) :
           /\ refresh.names[i] \in found'.pids[This]
           /\ OfSince(refresh.names[i], This, found.since)
    BY <1>2, <1>6 DEF CollectorInv, RefreshRight
  <2>3. \A i \in 1..Len(names) : /\ names[i] \in found'.pids[This]
                                 /\ OfSince(names[i], This, found.since)
    <3>1. CASE Found(pid) = {}
      BY <2>2, <3>1
    <3>2. CASE Found(pid) # {}
      <4>1. pid \in Found(pid)
        BY <3>2, <1>5
      <4>2. pid \in found'.pids[This] /\ OfSince(pid, This, found.since) /\ pid \in Pids
        BY <1>2, <1>5, <1>6, <4>1 DEF OfSince
      <4>3. names = Append(refresh.names, pid)
        BY <3>2
      <4>. HIDE DEF names
      <4>4. /\ Len(names) = Len(refresh.names) + 1 /\ Len(refresh.names) \in Nat
            /\ \A i \in 1..Len(refresh.names) : names[i] = refresh.names[i]
            /\ names[Len(refresh.names) + 1] = pid
        BY <2>1, <4>2, <4>3
      <4>5. SUFFICES ASSUME NEW i \in 1..Len(names)
                     PROVE  /\ names[i] \in found'.pids[This]
                            /\ OfSince(names[i], This, found.since)
        OBVIOUS
      <4>6. i \in 1..Len(refresh.names) \/ i = Len(refresh.names) + 1
        BY <4>4, <4>5
      <4>. QED
        BY <2>2, <4>2, <4>4, <4>6
    <3>. QED
      BY <3>1, <3>2
  <2>. HIDE DEF names
  <2>5. \/ /\ refresh'.at = "scan" /\ refresh'.names = names /\ refresh'.todo = refresh.todo
        \/ /\ refresh'.at = "names" /\ refresh'.names = names /\ refresh'.todo = refresh.todo
           /\ names # <<>>
        \/ refresh' = TurnToNext
    BY <1>1 DEF ScanContainer, names, Position
  <2>6. CASE refresh' = TurnToNext
    <3>1. /\ refresh'.names = <<>> /\ Len(refresh'.names) = 0
          /\ refresh'.at \in {"scan", "services"}
          /\ refresh'.at = "scan" => refresh'.todo # {}
      BY <1>2, <2>6, TurnType DEF TurnToNext
    <3>. QED
      BY <3>1 DEF RefreshRight
  <2>7. CASE /\ refresh'.at = "scan" \/ (refresh'.at = "names" /\ names # <<>>)
             /\ refresh'.names = names /\ refresh'.todo = refresh.todo
    <3>1. This' = This /\ refresh.todo # {}
      BY <2>7 DEF This, ScanContainer, CollectorInv, RefreshRight
    <3>. QED
      BY <1>4, <2>3, <2>7, <3>1 DEF RefreshRight, OfSince
  <2>. QED
    BY <2>5, <2>6, <2>7
<1>. QED
  BY <1>3, <1>7, <1>8 DEF CollectorInv

\* The name of a process is read, by whom it may be that has its PID by now: if it is not
\* one of the pod any more, the one that was found has ended.
LEMMA ReadNameRight ==
    ASSUME CollectorInv, ReadName, UNCHANGED <<now, proc, exits>>
    PROVE  MapsRight(found') /\ MapsRight(maps') /\ RefreshRight'
<1>. DEFINE pid == Head(refresh.names)
<1>1. found \in Maps /\ refresh \in Position /\ MetadataTypeOK
      /\ proc \in [Pids -> Process \cup {NoProcess}]
  BY DEF CollectorInv, CollectorTypeOK, MetadataTypeOK
<1>2. This \in Pods /\ refresh.todo \ {This} \subseteq Pods
  BY <1>1, ThisIsPod DEF ReadName, CollectorInv, RefreshRight
<1>3. refresh.names \in Seq(Pids) /\ refresh.names # <<>>
  BY <1>1 DEF ReadName, CollectorInv, RefreshRight, Position
<1>4. /\ pid \in Pids /\ pid = refresh.names[1] /\ 1 \in 1..Len(refresh.names)
      /\ Tail(refresh.names) \in Seq(Pids)
      /\ Len(Tail(refresh.names)) = Len(refresh.names) - 1 /\ Len(refresh.names) \in Nat
      /\ \A i \in 1..Len(Tail(refresh.names)) : Tail(refresh.names)[i] = refresh.names[i + 1]
  BY <1>3, HeadTailProperties
<1>. HIDE DEF pid
<1>5. pid \in found.pids[This] /\ OfSince(pid, This, found.since)
  BY <1>4 DEF CollectorInv, RefreshRight
<1>6. maps' = maps
  BY DEF ReadName
<1>7. /\ found'.since = found.since /\ found'.port = found.port /\ found'.pids = found.pids
      /\ \A c \in Comms : \/ found'.comm[c] = found.comm[c]
                          \/ /\ found'.comm[c] = This
                             /\ proc[pid] # NoProcess /\ proc[pid].comm = c
  <2>1. CASE proc[pid] = NoProcess
    BY <2>1 DEF ReadName, pid
  <2>2. CASE proc[pid] # NoProcess
    <3>1. found' = [found EXCEPT !.comm[proc[pid].comm] = This]
      BY <2>2 DEF ReadName, pid
    <3>. QED
      BY <1>1, <2>2, <3>1 DEF Maps
  <2>. QED
    BY <2>1, <2>2
<1>8. MapsRight(found')
  <2>1. ASSUME NEW c \in Comms, found'.comm[c] # None
        PROVE  \/ c \in PodList[found'.comm[c]].comms
               \/ Ended(found.pids[found'.comm[c]], found'.comm[c], found.since)
    <3>1. CASE found'.comm[c] = found.comm[c]
      BY <2>1, <3>1 DEF CollectorInv, MapsRight
    <3>2. CASE found'.comm[c] = This /\ proc[pid] # NoProcess /\ proc[pid].comm = c
      <4>1. CASE proc[pid].pod = This
        BY <1>1, <1>4, <3>2, <4>1 DEF Process
      <4>2. CASE \E x \in exits : x.pid = pid /\ x.pod = This /\ x.at >= found.since
        BY <1>5, <3>2, <4>2 DEF Ended
      <4>. QED
        BY <1>5, <4>1, <4>2 DEF OfSince
    <3>. QED
      BY <1>7, <3>1, <3>2
  <2>2. /\ found.since <= now
        /\ \A q \in Ports : found.port[q] # None => PodList[found.port[q]].port = q
        /\ \A q \in Pods : \A p \in found.pids[q] : WasOf(p, q)
    BY DEF CollectorInv, MapsRight
  <2>. QED
    BY <1>7, <2>1, <2>2 DEF MapsRight
<1>9. RefreshRight'
  <2>1. CASE refresh' = TurnToNext
    <3>1. /\ refresh'.names = <<>> /\ Len(refresh'.names) = 0
          /\ refresh'.at \in {"scan", "services"}
          /\ refresh'.at = "scan" => refresh'.todo # {}
      BY <1>2, <2>1, TurnType DEF TurnToNext
    <3>. QED
      BY <3>1 DEF RefreshRight
  <2>2. CASE /\ Tail(refresh.names) # <<>>
             /\ refresh' = [refresh EXCEPT !.names = Tail(@)]
    <3>1. /\ refresh'.names = Tail(refresh.names) /\ refresh'.todo = refresh.todo
          /\ refresh'.at = refresh.at /\ This' = This
      BY <1>1, <2>2 DEF Position, This
    <3>2. ASSUME NEW i \in 1..Len(Tail(refresh.names))
          PROVE  /\ Tail(refresh.names)[i] \in found.pids[This]
                 /\ OfSince(Tail(refresh.names)[i], This, found.since)
      <4>1. i + 1 \in 1..Len(refresh.names) /\ Tail(refresh.names)[i] = refresh.names[i + 1]
        BY <1>4
      <4>. QED
        BY <4>1 DEF CollectorInv, RefreshRight
    <3>3. refresh.todo # {}
      BY DEF ReadName, CollectorInv, RefreshRight
    <3>4. /\ refresh'.at \in {"scan", "names"} => refresh'.todo # {}
          /\ refresh'.at = "names" => refresh'.names # <<>>
      BY <2>2, <3>1, <3>3
    <3>. DEFINE names == Tail(refresh.names)
    <3>5. refresh'.names = names /\ \A i \in 1..Len(names) :
             names[i] \in found.pids[This] /\ OfSince(names[i], This, found.since)
      BY <3>1, <3>2
    <3>. HIDE DEF names
    <3>6. \A i \in 1..Len(refresh'.names) :
             /\ refresh'.names[i] \in found'.pids[This']
             /\ OfSince(refresh.names[i], This, found.since)'
      BY <1>7, <3>1, <3>5 DEF OfSince
    <3>. QED
      BY <3>4, <3>6 DEF RefreshRight
  <2>. QED
    BY <2>1, <2>2 DEF ReadName
<1>. QED
  BY <1>6, <1>8, <1>9 DEF CollectorInv

\* The resolver's steps preserve the invariant.
LEMMA RefreshStep ==
    ASSUME CollectorInv, RefreshNext
    PROVE  CollectorInv'
<1>1. UNCHANGED <<now, proc, exits, started, targetPids, cache, event>>
  BY DEF RefreshNext, nodeVars
<1>2. CollectorTypeOK'
  BY CollectorTypeStep DEF CollectorInv, Next
<1>3. MapsRight(found') /\ MapsRight(maps') /\ RefreshRight'
  <2>1. MapsRight(NoMaps)
    BY NoMapsRight DEF CollectorInv
  <2>2. refresh' = Asleep => RefreshRight'
    BY DEF RefreshRight, Asleep
  <2>3. CASE RefreshServices
    BY <2>1, <2>2, <2>3 DEF RefreshServices, CollectorInv
  <2>4. CASE RefreshFails
    BY <2>1, <2>2, <2>4 DEF RefreshFails, CollectorInv
  <2>. QED
    BY <1>1, <2>3, <2>4, RefreshPodsRight, ScanContainerRight, ReadNameRight DEF RefreshNext
<1>4. MapsRight(maps)' /\ MapsRight(found)'
  BY <1>1, <1>3 DEF MapsRight, Ended, WasOf
<1>5. (NodeRight /\ TargetsRight /\ CacheRight)'
  BY <1>1 DEF CollectorInv, NodeRight, TargetsRight, CacheRight, WasOf, NamedSince
<1>6. EventRight'
  BY <1>1 DEF CollectorInv, EventRight, TargetEnded, Accepted, WasOf
<1>. QED
  BY <1>2, <1>3, <1>4, <1>5, <1>6 DEF CollectorInv

-----------------------------------------------------------------------------
(* The daemon and the collector. *)

\* What their steps leave alone stays right.
LEMMA NodeAndMapsUnchanged ==
    ASSUME CollectorInv, UNCHANGED <<nodeVars, resolverVars>>
    PROVE  /\ NodeRight'
           /\ MapsRight(maps)' /\ MapsRight(found)'
           /\ RefreshRight'
           /\ cache' = cache => CacheRight'
<1>1. UNCHANGED <<now, proc, exits, maps, found, refresh>>
  BY DEF nodeVars, resolverVars
<1>2. MapsRight(maps)' /\ MapsRight(found)'
  BY <1>1 DEF CollectorInv, MapsRight, WasOf, Ended
<1>3. RefreshRight'
  BY <1>1 DEF CollectorInv, RefreshRight, This, OfSince
<1>. QED
  BY <1>1, <1>2, <1>3 DEF CollectorInv, NodeRight, CacheRight, NamedSince

\* The daemon's start preserves the invariant: the targets run or have run.
LEMMA StartStep ==
    ASSUME CollectorInv, Start
    PROVE  CollectorInv'
<1>1. CollectorTypeOK'
  BY CollectorTypeStep DEF CollectorInv, Next
<1>2. event = NoEvent /\ event' = event /\ cache' = cache
      /\ UNCHANGED <<now, proc, exits, maps>> /\ UNCHANGED <<nodeVars, resolverVars>>
  BY DEF Start, CollectorInv, TargetsRight, nodeVars, resolverVars
<1>3. TargetsRight'
  <2>1. SUFFICES ASSUME NEW pid \in targetPids'
                 PROVE  \E pod \in Pods : PodList[pod].namespace = TargetNamespace
                                        /\ WasOf(pid, pod)
    BY <1>2 DEF TargetsRight, Start, WasOf
  <2>2. pid \in PodPids(TargetNamespace, TargetPods)
    BY <2>1 DEF Start, ResolveTargetPids
  <2>3. PICK pod \in Pods : pid \in maps.pids[pod] /\ PodList[pod].namespace = TargetNamespace
    BY <2>2 DEF PodPids
  <2>4. WasOf(pid, pod)
    BY <2>3 DEF CollectorInv, MapsRight
  <2>. QED
    BY <2>3, <2>4
<1>4. EventRight'
  BY <1>2 DEF NoEvent, EventRight
<1>. QED
  BY <1>1, <1>2, <1>3, <1>4, NodeAndMapsUnchanged DEF CollectorInv

\* A request leaves its process: if its PID is a target's, that target has ended.
LEMMA EmitStep ==
    ASSUME CollectorInv, NEW pid \in Pids, NEW comm \in Comms, NEW port \in Ports \ {None},
           Emit(pid, comm, port)
    PROVE  CollectorInv'
<1>1. CollectorTypeOK'
  BY CollectorTypeStep DEF CollectorInv, Next
<1>2. /\ UNCHANGED <<nodeVars, resolverVars, started, targetPids, cache>>
      /\ UNCHANGED <<proc, exits>>
      /\ started /\ proc[pid] # NoProcess
      /\ event' = [at |-> "emitted", pid |-> pid, really |-> proc[pid].pod, comm |-> comm,
                   port |-> port]
  BY DEF Emit, nodeVars
<1>3. TargetsRight'
  BY <1>2 DEF CollectorInv, TargetsRight, WasOf
<1>4. EventRight'
  <2>1. ASSUME pid \in targetPids, PodList[proc[pid].pod].namespace # TargetNamespace
        PROVE  TargetEnded(pid)
    <3>1. PICK pod \in Pods : PodList[pod].namespace = TargetNamespace /\ WasOf(pid, pod)
      BY <2>1 DEF CollectorInv, TargetsRight
    <3>. QED
      BY <2>1, <3>1 DEF WasOf, TargetEnded
  <2>2. TargetEnded(pid) => TargetEnded(pid)'
    BY <1>2 DEF TargetEnded
  <2>3. comm \in PodList[proc[pid].pod].comms
    BY DEF Emit
  <2>4. WasOf(event.pid, event.really)'
    BY <1>2 DEF WasOf
  <2>. QED
    BY <1>2, <2>1, <2>2, <2>3, <2>4 DEF EventRight
<1>. QED
  BY <1>1, <1>2, <1>3, <1>4, NodeAndMapsUnchanged DEF CollectorInv

\* A request goes, to the store or because the filter drops it.
LEMMA EventGoesStep ==
    ASSUME CollectorInv, event.at # "none", event' = NoEvent,
           UNCHANGED <<nodeVars, resolverVars, started, targetPids, cache>>
    PROVE  CollectorInv'
<1>1. CollectorTypeOK'
  BY DEF CollectorInv, CollectorTypeOK, MetadataTypeOK, nodeVars, resolverVars
<1>2. TargetsRight'
  BY DEF CollectorInv, TargetsRight, WasOf, nodeVars
<1>3. EventRight'
  BY DEF NoEvent, EventRight
<1>. QED
  BY <1>1, <1>2, <1>3, NodeAndMapsUnchanged DEF CollectorInv

\* What the cache gives for a name has the name, or had it when the entry was made.
LEMMA CachedPidNamed ==
    ASSUME CollectorInv, NEW comm \in Comms, CachedPid(comm) # None
    PROVE  /\ CachedPid(comm) \in Pids
           /\ proc[CachedPid(comm)] # NoProcess
           /\ \/ proc[CachedPid(comm)].comm = comm
              \/ \E x \in exits : /\ x.pid = CachedPid(comm) /\ x.comm = comm
                                  /\ x.at > now - CacheTime
<1>1. /\ cache[comm] # NoEntry
      /\ now - cache[comm].at < CacheTime
      /\ proc[cache[comm].pid] # NoProcess
      /\ CachedPid(comm) = cache[comm].pid
  BY DEF CachedPid
<1>2. cache[comm].pid \in Pids /\ NamedSince(cache[comm].pid, comm, cache[comm].at)
  BY <1>1 DEF CollectorInv, CacheRight
<1>3. now \in Nat /\ cache[comm].at \in Nat /\ CacheTime \in Nat
  BY MetadataAssumption, CollectorAssumption DEF CollectorInv, CollectorTypeOK, MetadataTypeOK
<1>4. \A x \in exits : x.at \in Nat
  BY DEF CollectorInv, CollectorTypeOK, MetadataTypeOK, Exited
<1>. QED
  BY <1>1, <1>2, <1>3, <1>4 DEF NamedSince

\* The handler accepts a request; what it caches has the request's name.
LEMMA HandleStep ==
    ASSUME CollectorInv, HandleRequest
    PROVE  CollectorInv'
<1>1. CollectorTypeOK' /\ CollectorTypeOK
  BY CollectorTypeStep DEF CollectorInv, Next
<1>2. /\ UNCHANGED <<nodeVars, resolverVars, started, targetPids>>
      /\ UNCHANGED <<now, proc, exits>>
      /\ event.at = "emitted" /\ Accepted(event.pid)
      /\ event' = [event EXCEPT !.at = "handled"]
  BY DEF HandleRequest, nodeVars
<1>3. event \in Emitted /\ event.comm \in Comms /\ event.pid \in Pids
  BY <1>1, <1>2 DEF CollectorTypeOK, NoEvent, Emitted, Handled, Unnamed
<1>4. started /\ TargetsRight'
  BY <1>2 DEF CollectorInv, TargetsRight, NoEvent, WasOf
<1>5. /\ event'.at = "handled" /\ event'.pid = event.pid /\ event'.really = event.really
      /\ event'.comm = event.comm
  BY <1>2, <1>3 DEF Emitted
<1>6. EventRight'
  BY <1>2, <1>5 DEF CollectorInv, EventRight, TargetEnded, Accepted, WasOf
<1>7. now \in Nat
  BY <1>1, MetadataAssumption DEF CollectorTypeOK, MetadataTypeOK
<1>8. CacheRight'
  <2>1. CASE UNCHANGED cache
    BY <1>2, <2>1 DEF CollectorInv, CacheRight, NamedSince
  <2>2. ASSUME NEW pid \in Pids, proc[pid] # NoProcess, proc[pid].comm = event.comm,
               cache' = [cache EXCEPT ![event.comm] = [pid |-> pid, at |-> now]]
        PROVE  CacheRight'
    <3>1. cache \in [Comms -> [pid : Pids \cup {None}, at : Nat]]
      BY <1>1 DEF CollectorTypeOK
    <3>2. SUFFICES ASSUME NEW c \in Comms, cache'[c] # NoEntry
                   PROVE  /\ cache'[c].pid \in Pids
                          /\ cache'[c].at <= now
                          /\ NamedSince(cache'[c].pid, c, cache'[c].at)
      BY <1>2 DEF CacheRight, NamedSince
    <3>3. CASE c = event.comm
      BY <3>1, <3>3, <2>2, <1>3, <1>7 DEF NamedSince
    <3>4. CASE c # event.comm
      BY <3>1, <3>2, <3>4, <2>2 DEF CollectorInv, CacheRight
    <3>. QED
      BY <3>3, <3>4
  <2>. QED
    BY <2>1, <2>2 DEF HandleRequest, Named
<1>. QED
  BY <1>1, <1>2, <1>4, <1>6, <1>8, NodeAndMapsUnchanged DEF CollectorInv

\* The lookup by name finds a pod, or leaves the request to the lookup by PID.
LEMMA LookUpCommStep ==
    ASSUME CollectorInv, LookUpComm
    PROVE  CollectorInv'
<1>1. CollectorTypeOK'
  BY CollectorTypeStep DEF CollectorInv, Next
<1>2. /\ UNCHANGED <<nodeVars, resolverVars, started, targetPids, cache>>
      /\ UNCHANGED <<proc, exits>>
      /\ event.at = "handled"
  BY DEF LookUpComm, nodeVars
<1>3. TargetsRight'
  BY <1>2 DEF CollectorInv, TargetsRight, NoEvent, WasOf
<1>4. \/ event' = [at |-> "unnamed", pid |-> event.pid, really |-> event.really]
      \/ event' = NoEvent
  BY DEF LookUpComm
<1>5. EventRight'
  BY <1>2, <1>4 DEF CollectorInv, EventRight, NoEvent, WasOf
<1>. QED
  BY <1>1, <1>2, <1>3, <1>5, NodeAndMapsUnchanged DEF CollectorInv

-----------------------------------------------------------------------------
\* The invariant holds in every state of every instance.
THEOREM CollectorInvariant == Spec => []CollectorInv
<1>1. ASSUME CollectorInv, [Next]_vars PROVE CollectorInv'
  <2>1. CASE UNCHANGED vars
    <3>1. CollectorTypeOK'
      BY <1>1, CollectorTypeStep DEF CollectorInv
    <3>2. UNCHANGED <<proc, exits, started, targetPids, event, nodeVars, resolverVars, cache>>
      BY <2>1 DEF vars, nodeVars
    <3>3. TargetsRight' /\ EventRight'
      BY <1>1, <3>2 DEF CollectorInv, TargetsRight, WasOf, EventRight, TargetEnded, Accepted
    <3>. QED
      BY <1>1, <3>1, <3>2, <3>3, NodeAndMapsUnchanged DEF CollectorInv
  <2>2. CASE HandleDrops
    BY <1>1, <2>2, EventGoesStep DEF HandleDrops
  <2>3. CASE LookUpPid
    BY <1>1, <2>3, EventGoesStep DEF LookUpPid
  <2>. QED
    BY <1>1, <2>1, <2>2, <2>3, NodeStep, RefreshStep, StartStep, EmitStep, HandleStep,
       LookUpCommStep DEF Next
<1>. QED
  BY <1>1, CollectorInitInv, PTL DEF Spec

\* The node, the resolver and the collector keep their types.
THEOREM CollectorTypeCorrect == Spec => []CollectorTypeOK
  BY CollectorInvariant, PTL DEF CollectorInv

\* A request is given to its own pod when the maps know it by a name or a port of its own,
\* however old the maps are, unless a process found for the other pod ended while the maps
\* were being built or since.
THEOREM KnownPodsAreRightCorrect == Spec => []KnownPodsAreRight
<1>1. CollectorInv => KnownPodsAreRight
  <2>1. SUFFICES ASSUME CollectorInv, event.at = "handled",
                        NEW pod \in ResolveComm(event.comm, event.port)
                 PROVE  IF maps.comm[event.comm] # None
                        THEN UniqueComm(event.comm) => pod = event.really \/ EndedSince(pod)
                        ELSE /\ maps.port[event.port] # None /\ UniquePort(event.port)
                             /\ PodList[event.really].port = event.port
                             => pod = event.really
    BY DEF KnownPodsAreRight
  <2>2. /\ event.comm \in Comms /\ event.port \in Ports /\ event.really \in Pods
        /\ event.comm \in PodList[event.really].comms
        /\ maps \in Maps /\ MapsRight(maps)
    BY <2>1, EventFacts DEF CollectorInv, EventRight, CollectorTypeOK, MetadataTypeOK
  <2>3. ASSUME maps.comm[event.comm] # None, UniqueComm(event.comm)
        PROVE  pod = event.really \/ EndedSince(pod)
    <3>1. pod = maps.comm[event.comm] /\ pod \in Pods
      BY <2>1, <2>2, <2>3 DEF ResolveComm, Maps
    <3>2. CASE event.comm \in PodList[pod].comms
      BY <2>2, <2>3, <3>1, <3>2, UniqueMember DEF UniqueComm
    <3>3. CASE Ended(maps.pids[pod], pod, maps.since)
      BY <3>3 DEF Ended, EndedSince
    <3>. QED
      BY <2>2, <2>3, <3>1, <3>2, <3>3 DEF MapsRight
  <2>4. ASSUME maps.comm[event.comm] = None, maps.port[event.port] # None,
               UniquePort(event.port), PodList[event.really].port = event.port
        PROVE  pod = event.really
    <3>1. pod = maps.port[event.port] /\ pod \in Pods
      BY <2>1, <2>2, <2>4 DEF ResolveComm, Maps
    <3>2. PodList[pod].port = event.port
      BY <2>2, <2>4, <3>1 DEF MapsRight
    <3>. QED
      BY <2>2, <2>4, <3>1, <3>2, UniqueMember DEF UniquePort
  <2>. QED
    BY <2>3, <2>4
<1>. QED
  BY <1>1, CollectorInvariant, PTL

\* A request is given to another pod under its PID only if the PID passed between the two.
THEOREM PidPodsAreRightCorrect == Spec => []PidPodsAreRight
<1>1. CollectorInv => PidPodsAreRight
  <2>1. SUFFICES ASSUME CollectorInv, event.at = "unnamed",
                        ResolvePid(event.pid) \notin {None, event.really}
                 PROVE  \E x \in exits : /\ x.pid = event.pid
                                         /\ x.pod \in {ResolvePid(event.pid), event.really}
    BY DEF PidPodsAreRight
  <2>. DEFINE pod == ResolvePid(event.pid)
  <2>2. pod \in Pods /\ event.pid \in maps.pids[pod]
    BY <2>1, ResolvedPidWasFound
  <2>3. WasOf(event.pid, pod)
    BY <2>1, <2>2 DEF CollectorInv, MapsRight
  <2>4. WasOf(event.pid, event.really)
    BY <2>1 DEF CollectorInv, EventRight
  <2>. HIDE DEF pod
  <2>5. \E x \in exits : x.pid = event.pid /\ x.pod \in {pod, event.really}
    BY <2>1, <2>3, <2>4 DEF WasOf, pod
  <2>. QED
    BY <2>5 DEF pod
<1>. QED
  BY <1>1, CollectorInvariant, PTL

\* A memory size read from another process than the request's is that of one which has the
\* name of the request's thread or had it less than CacheTime before.
THEOREM RssWasOfCommCorrect == Spec => []RssWasOfComm
<1>1. CollectorInv => RssWasOfComm
  <2>1. SUFFICES ASSUME CollectorInv, event.at = "emitted", NEW rss \in RssPids \ {event.pid}
                 PROVE  \/ proc[rss].comm = event.comm
                        \/ \E x \in exits : /\ x.pid = rss /\ x.comm = event.comm
                                            /\ x.at > now - CacheTime
    BY DEF RssWasOfComm
  <2>2. event.comm \in Comms
    BY <2>1, EventFacts DEF CollectorInv
  <2>3. CASE CachedPid(event.comm) # None /\ rss = CachedPid(event.comm)
    BY <2>1, <2>2, <2>3, CachedPidNamed
  <2>4. CASE rss \in Named
    BY <2>4 DEF Named
  <2>. QED
    BY <2>1, <2>3, <2>4 DEF RssPids
<1>. QED
  BY <1>1, CollectorInvariant, PTL

\* Requests of other namespaces pass the filter only under a PID a target has left.
THEOREM StrangersReusePidsCorrect == Spec => []StrangersReusePids
<1>1. CollectorInv => StrangersReusePids
  BY DEF CollectorInv, EventRight, Accepted, TargetEnded, StrangersReusePids
<1>. QED
  BY <1>1, CollectorInvariant, PTL
=============================================================================
