------------------------ MODULE DependencyAttribution ------------------------
(***************************************************************************)
(* How a dependency finds its request: the probes of DependencyTracker,    *)
(* the request tracker's probes on accept and close, the two perf buffers, *)
(* the poll loop of agent/collector.py, which empties first one buffer and *)
(* then the other, and the correlator, which gives a request whatever its  *)
(* accepting thread has pending when the request is handled.               *)
(*                                                                         *)
(* The buffers are sets: there is one ring per processor and the rings are *)
(* read one after the other, so events are not handled in the order of     *)
(* their emission.  A poll handles at least what the rings held when it    *)
(* began.                                                                  *)
(***************************************************************************)
EXTENDS DependencyTracker, Correlator

CONSTANTS
    ReqCapacity,      \* request events the perf buffer holds before it loses some
    MaxCycles         \* bound: turns of the poll loop

\* pid_tgid is the pair the events carry.  A dependency begins here when it is handled:
\* its age matters to nothing below.
ASSUME AttributionAssumption ==
    /\ Threads = Keys
    /\ 0 \in DepAges
    /\ ReqCapacity \in Nat
    /\ MaxCycles \in Nat

VARIABLES
    acceptor,     \* active_requests: per accepted connection, pid and tid of accept
    reqEvents,    \* request_events: emitted and not polled yet
    phase,        \* which buffer the poll loop is at
    due,          \* what the current poll still has to handle
    cycle,        \* history: turns of the poll loop
    maker,        \* history: per connect, the thread that made it
    depCycle,     \* history: per connect, the cycle it was reported in
    reqConns,     \* history: the connection behind each profile of handled
    reqCycles,    \* history: the cycle each profile's connection was closed in
    depConns      \* history: the connect behind each dependency handled

pollVars == <<reqEvents, phase, due, cycle, reqConns, reqCycles, depConns>>
kernelVars == <<acceptor, maker, depCycle>>
attributionVars == <<trackerVars, corrVars, pollVars, kernelVars>>

ReqEvent == [thread : Threads, conn : Nat, cycle : Nat]

AttributionTypeOK ==
    /\ TrackerTypeOK
    /\ CorrTypeOK
    /\ acceptor \in Seq(Threads) /\ Len(acceptor) = accepts
    /\ reqEvents \subseteq ReqEvent
    /\ phase \in {"requests", "deps"}
    /\ due \subseteq ReqEvent \cup DepEvent
    /\ cycle \in 0..MaxCycles
    /\ maker \in Seq(Threads) /\ Len(maker) = connects
    /\ depCycle \in [1..MaxConnects -> 0..MaxCycles]
    /\ reqConns \in Seq(1..MaxAccepts) /\ Len(reqConns) = counter
    /\ reqCycles \in Seq(0..MaxCycles) /\ Len(reqCycles) = counter
    /\ depConns \in Seq(1..MaxConnects) /\ Len(depConns) = depCount

AttributionInit ==
    /\ TrackerInit
    /\ CorrInit
    /\ acceptor = <<>>
    /\ reqEvents = {}
    /\ phase = "requests"
    /\ due = {}
    /\ cycle = 0
    /\ maker = <<>>
    /\ depCycle = [c \in 1..MaxConnects |-> 0]
    /\ reqConns = <<>>
    /\ reqCycles = <<>>
    /\ depConns = <<>>

Connect(t, s, inet) ==
    /\ ConnectEntry(t, s, inet)
    /\ maker' = Append(maker, t)
    /\ UNCHANGED <<corrVars, pollVars, acceptor, depCycle>>

Connected(t, fails) ==
    /\ ConnectReturn(t, fails)
    /\ UNCHANGED <<corrVars, pollVars, kernelVars>>

\* Mutant: only the process is remembered.
AcceptByPid(t, s) ==
    /\ AcceptConnection(t, s)
    /\ acceptor' = Append(acceptor, t[1])
    /\ UNCHANGED <<corrVars, pollVars, maker, depCycle>>

\* trace_accept_return remembers the accepting thread.
Accept(t, s) ==
    /\ AcceptConnection(t, s)
    /\ acceptor' = Append(acceptor, t)
    /\ UNCHANGED <<corrVars, pollVars, maker, depCycle>>

\* Mutant: the event carries the thread that closes the connection.
EmitRequestOfCloser(t, s) ==
    reqEvents' =
        IF accepted[s] # None /\ Cardinality(reqEvents) < ReqCapacity
        THEN reqEvents \cup {[thread |-> t, conn |-> accepted[s], cycle |-> cycle]}
        ELSE reqEvents

\* trace_tcp_close on an accepted connection: the event carries the thread that
\* accepted it, whichever thread closes it.
EmitRequest(t, s) ==
    reqEvents' =
        IF accepted[s] # None /\ Cardinality(reqEvents) < ReqCapacity
        THEN reqEvents \cup {[thread |-> acceptor[accepted[s]], conn |-> accepted[s],
                              cycle |-> cycle]}
        ELSE reqEvents

\* Both trackers probe tcp_close.
Close(t, s) ==
    /\ CloseSocket(t, s)
    /\ EmitRequest(t, s)
    /\ depCycle' = IF activeConnects[t] # None
                   THEN [depCycle EXCEPT ![activeConnects[t]] = cycle]
                   ELSE depCycle
    /\ UNCHANGED <<corrVars, phase, due, cycle, reqConns, reqCycles, depConns,
                   acceptor, maker>>

\* _handle_request_event, up to and including the correlator's handler.
PollRequest(e) ==
    /\ phase = "requests"
    /\ e \in reqEvents
    /\ reqEvents' = reqEvents \ {e}
    /\ \E rss \in MemValues :
          HandleRequest([key |-> e.thread, mem |-> rss, correlated |-> FALSE])
    /\ reqConns' = Append(reqConns, e.conn)
    /\ reqCycles' = Append(reqCycles, e.cycle)
    /\ UNCHANGED <<trackerVars, kernelVars, phase, due, cycle, depConns>>

\* _handle_dep_event, up to and including the correlator's handler.
PollDep(e) ==
    /\ phase = "deps"
    /\ TakeDepEvent(e)
    /\ HandleDependency(e.thread, mono)
    /\ depConns' = Append(depConns, e.conn)
    /\ UNCHANGED <<kernelVars, reqEvents, phase, due, cycle, reqConns, reqCycles>>

\* Mutant: the poll loop gives up the request buffer before it is through.
EndRequestsEarly ==
    /\ phase = "requests"
    /\ phase' = "deps"
    /\ due' = depEvents
    /\ UNCHANGED <<trackerVars, corrVars, kernelVars, reqEvents, cycle,
                   reqConns, reqCycles, depConns>>

EndRequests ==
    /\ phase = "requests"
    /\ due \cap reqEvents = {}
    /\ phase' = "deps"
    /\ due' = depEvents
    /\ UNCHANGED <<trackerVars, corrVars, kernelVars, reqEvents, cycle,
                   reqConns, reqCycles, depConns>>

\* Every turn begins with the request buffer.
EndDeps ==
    /\ phase = "deps"
    /\ cycle < MaxCycles
    /\ due \cap depEvents = {}
    /\ phase' = "requests"
    /\ due' = reqEvents
    /\ cycle' = cycle + 1
    /\ UNCHANGED <<trackerVars, corrVars, kernelVars, reqEvents,
                   reqConns, reqCycles, depConns>>

\* The flush thread sweeps what is pending.  Its drain of the completed profiles
\* changes nothing an attribution depends on.
FlushThread ==
    /\ CleanupStale
    /\ UNCHANGED <<trackerVars, kernelVars, pollVars>>

AttributionNext ==
    \/ \E t \in Threads, s \in Sockets, inet \in BOOLEAN : Connect(t, s, inet)
    \/ \E t \in Threads, fails \in BOOLEAN : Connected(t, fails)
    \/ \E t \in Threads, s \in Sockets : Accept(t, s) \/ Close(t, s)
    \/ \E e \in reqEvents : PollRequest(e)
    \/ \E e \in depEvents : PollDep(e)
    \/ EndRequests
    \/ EndDeps
    \/ FlushThread

AttributionSpec == AttributionInit /\ [][AttributionNext]_attributionVars

-----------------------------------------------------------------------------
\* The connects a profile reports.
ConnectsOf(i) == {depConns[d.seq] : d \in handled[i].deps}

\* A connect is reported by at most one request, from the probe to the profile.
ConnectInOneProfile ==
    \A i, j \in DOMAIN handled :
        ConnectsOf(i) \cap ConnectsOf(j) # {} => i = j

\* A request may be given the dependency of a later one, but never of one that
\* ended a turn of the poll loop after it: every turn handles all the request
\* events it finds before any dependency.
NeverACycleBehind ==
    \A i \in DOMAIN handled : \A c \in ConnectsOf(i) : depCycle[c] <= reqCycles[i]

\* A request is only given connects made by the thread that accepted its connection,
\* however sockets pass between threads and whichever thread closes them; what a
\* worker thread connects to is not reported for a connection it was handed.
OnlyByAcceptor ==
    \A i \in DOMAIN handled : \A c \in ConnectsOf(i) : maker[c] = acceptor[reqConns[i]]

\* What a close reports is the last connect the thread attempted over IPv4, whatever
\* socket is closed: an attempt that was overwritten by a later one is lost and not
\* reported late, and one that the failure of a later one deleted is not either.
OnlyLatestReported ==
    \A e \in reported : \A c \in (e.conn + 1)..e.at :
        maker[c] = e.thread => c \in untracked
=============================================================================
