-------------------------- MODULE DependencyTracker --------------------------
(***************************************************************************)
(* agent/bpf/dependency_tracker.c: the probes that watch outbound          *)
(* connections.  A thread's connect is remembered under the thread, not    *)
(* under the socket, and the next close by that thread, of whatever        *)
(* socket, reports it.  Threads run the probes on any processor, one probe *)
(* at a time per thread; the program under observation is modelled by what *)
(* its threads may do with sockets.                                        *)
(***************************************************************************)
EXTENDS Integers, FiniteSets

CONSTANTS
    Threads,          \* pid_tgid values
    Sockets,          \* struct sock pointers
    MaxConnects,      \* bound: calls of tcp_v4_connect
    MaxAccepts,       \* bound: connections accepted
    DepCapacity       \* events the perf buffer holds before it loses some

ASSUME TrackerAssumption ==
    /\ MaxConnects \in Nat
    /\ MaxAccepts \in Nat
    /\ DepCapacity \in Nat

VARIABLES
    activeConnects,   \* active_connects: per thread, the connect remembered
    calling,          \* per thread, the tcp_v4_connect it is inside of
    outgoing,         \* per socket, the connect it stands for
    accepted,         \* per socket, the accepted connection it stands for
    depEvents,        \* dep_events: reported and not polled yet
    connects,         \* history: number of connects
    accepts,          \* history: number of connections accepted
    untracked,        \* history: connects of sockets that are not AF_INET
    reported          \* history: every dependency event

trackerVars == <<activeConnects, calling, outgoing, accepted, depEvents,
                 connects, accepts, untracked, reported>>

None == 0              \* no entry in the map, no such connection

\* What an event says, the thread and the connect; at is history: how many connects
\* had been made when it was emitted.
DepEvent == [thread : Threads, conn : Nat, at : Nat]

TrackerTypeOK ==
    /\ activeConnects \in [Threads -> Nat]
    /\ calling \in [Threads -> Sockets \cup {None}]
    /\ outgoing \in [Sockets -> Nat]
    /\ accepted \in [Sockets -> Nat]
    /\ depEvents \subseteq DepEvent
    /\ connects \in 0..MaxConnects
    /\ accepts \in 0..MaxAccepts
    /\ untracked \subseteq 1..connects
    /\ reported \subseteq DepEvent

TrackerInit ==
    /\ activeConnects = [t \in Threads |-> None]
    /\ calling = [t \in Threads |-> None]
    /\ outgoing = [s \in Sockets |-> None]
    /\ accepted = [s \in Sockets |-> None]
    /\ depEvents = {}
    /\ connects = 0
    /\ accepts = 0
    /\ untracked = {}
    /\ reported = {}

Free(s) == outgoing[s] = None /\ accepted[s] = None
InConnect(s) == \E t \in Threads : calling[t] = s

\* Mutant: an entry the thread already has is kept (BPF_NOEXIST).
ConnectEntryKeepsFirst(t, s, inet) ==
    /\ connects < MaxConnects
    /\ calling[t] = None
    /\ Free(s)
    /\ connects' = connects + 1
    /\ outgoing' = [outgoing EXCEPT ![s] = connects + 1]
    /\ calling' = [calling EXCEPT ![t] = s]
    /\ activeConnects' = IF inet /\ activeConnects[t] = None
                         THEN [activeConnects EXCEPT ![t] = connects + 1]
                         ELSE activeConnects
    /\ untracked' = IF inet THEN untracked ELSE untracked \cup {connects + 1}
    /\ UNCHANGED <<accepted, depEvents, accepts, reported>>

\* trace_connect_entry.  A socket that is not AF_INET (an IPv4 address reached
\* through an IPv6 socket) is not remembered; a connect the thread has pending is
\* overwritten.
ConnectEntry(t, s, inet) ==
    /\ connects < MaxConnects
    /\ calling[t] = None
    /\ Free(s)
    /\ connects' = connects + 1
    /\ outgoing' = [outgoing EXCEPT ![s] = connects + 1]
    /\ calling' = [calling EXCEPT ![t] = s]
    /\ activeConnects' = IF inet THEN [activeConnects EXCEPT ![t] = connects + 1]
                                 ELSE activeConnects
    /\ untracked' = IF inet THEN untracked ELSE untracked \cup {connects + 1}
    /\ UNCHANGED <<accepted, depEvents, accepts, reported>>

\* trace_connect_return: 0 and EINPROGRESS leave the entry, any other result
\* deletes what the thread has, whichever connect it is of.  The kernel returns 0
\* once the SYN is on its way: only what fails before that fails here, and a peer
\* that refuses or never answers leaves the entry like one that accepts.
ConnectReturn(t, fails) ==
    /\ calling[t] # None
    /\ calling' = [calling EXCEPT ![t] = None]
    /\ activeConnects' = IF fails THEN [activeConnects EXCEPT ![t] = None]
                                  ELSE activeConnects
    /\ UNCHANGED <<outgoing, accepted, depEvents, connects, accepts, untracked, reported>>

\* The program accepts a connection; no probe of this file fires.
AcceptConnection(t, s) ==
    /\ accepts < MaxAccepts
    /\ calling[t] = None
    /\ Free(s)
    /\ accepts' = accepts + 1
    /\ accepted' = [accepted EXCEPT ![s] = accepts + 1]
    /\ UNCHANGED <<activeConnects, calling, outgoing, depEvents, connects, untracked, reported>>

\* Mutant: the entry is not deleted when it has been reported.
ReportKeepsEntry(t) ==
    LET e == [thread |-> t, conn |-> activeConnects[t], at |-> connects]
    IN  /\ reported' = IF activeConnects[t] # None THEN reported \cup {e} ELSE reported
        /\ depEvents' = IF activeConnects[t] # None /\ Cardinality(depEvents) < DepCapacity
                        THEN depEvents \cup {e} ELSE depEvents
        /\ UNCHANGED activeConnects

\* trace_dep_close: the thread's pending connect, if there is one, is reported and
\* forgotten.  The socket closed is not looked at.  A full buffer loses the event.
Report(t) ==
    LET e == [thread |-> t, conn |-> activeConnects[t], at |-> connects]
    IN  /\ reported' = IF activeConnects[t] # None THEN reported \cup {e} ELSE reported
        /\ depEvents' = IF activeConnects[t] # None /\ Cardinality(depEvents) < DepCapacity
                        THEN depEvents \cup {e} ELSE depEvents
        /\ activeConnects' = [activeConnects EXCEPT ![t] = None]

\* tcp_close, by any thread that is not inside a connect, of any socket: a free one
\* here is a listener, or was never connected.
CloseSocket(t, s) ==
    /\ calling[t] = None
    /\ ~ InConnect(s)
    /\ Report(t)
    /\ outgoing' = [outgoing EXCEPT ![s] = None]
    /\ accepted' = [accepted EXCEPT ![s] = None]
    /\ UNCHANGED <<calling, connects, accepts, untracked>>

\* The collector takes an event out of the perf buffer.
TakeDepEvent(e) ==
    /\ e \in depEvents
    /\ depEvents' = depEvents \ {e}
    /\ UNCHANGED <<activeConnects, calling, outgoing, accepted, connects, accepts,
                   untracked, reported>>

TrackerNext ==
    \/ \E t \in Threads, s \in Sockets, inet \in BOOLEAN : ConnectEntry(t, s, inet)
    \/ \E t \in Threads, fails \in BOOLEAN : ConnectReturn(t, fails)
    \/ \E t \in Threads, s \in Sockets : AcceptConnection(t, s) \/ CloseSocket(t, s)
    \/ \E e \in depEvents : TakeDepEvent(e)

TrackerSpec == TrackerInit /\ [][TrackerNext]_trackerVars

-----------------------------------------------------------------------------
\* A connect is reported at most once, and a connect that is still remembered has
\* not been reported.
ConnectReportedOnce ==
    /\ \A d, e \in reported : d.conn = e.conn => d = e
    /\ \A t \in Threads, e \in reported : activeConnects[t] # e.conn
=============================================================================
