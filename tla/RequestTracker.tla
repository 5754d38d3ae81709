--------------------------- MODULE RequestTracker ---------------------------
(***************************************************************************)
(* agent/bpf/request_tracker.c: the probes that turn what the threads of   *)
(* the observed programs do with their sockets into one event per          *)
(* connection.  The BPF maps are the state, the ones whose values have     *)
(* structure as functions on the keys present; each probe is one action;   *)
(* the threads, the processors they run on and the clock are the           *)
(* environment in which the kernel fires the probes.                       *)
(*                                                                         *)
(* A probe runs on the processor of its thread and is taken to be atomic:  *)
(* the maps are shared, but two additions to one entry at the same instant *)
(* are not modelled.  Of the map sizes, those of tid_to_sock and           *)
(* sock_headers are: the first is never cleaned for threads that leave,    *)
(* the second is sixteen times smaller than the others.                    *)
(***************************************************************************)
EXTENDS Integers, FiniteSets, Functions

CONSTANTS
    Threads,          \* tids
    Socks,            \* struct sock pointers; the kernel reuses them
    Cpus,             \* processors
    ReadCalls,        \* the system calls a program reads with
    TidCapacity,      \* entries tid_to_sock has room for
    HeaderCapacity,   \* entries sock_headers has room for
    MaxClock,         \* bound: the clock stops there
    MaxConns,         \* bound: connections accepted
    MaxCalls          \* bound: system calls on sockets and files

SocketReads == {"read", "recvfrom", "recvmsg"}
None == -1                    \* no entry in a map, an idle processor
Outgoing == -2                \* a socket that was connected, not accepted
File == 0                     \* where the bytes of a file read come from

ASSUME RequestTrackerAssumption ==
    /\ ReadCalls \subseteq SocketReads \cup {"file"}
    /\ TidCapacity \in Nat
    /\ HeaderCapacity \in Nat
    /\ MaxClock \in Nat /\ MaxConns \in Nat /\ MaxCalls \in Nat
    /\ None \notin Threads \cup Socks

VARIABLES
    now,              \* bpf_ktime_get_ns()
    cpu,              \* per processor, the thread that runs on it
    conn,             \* per sock, the connection it stands for
    call,             \* per thread, the system call it is inside of
    calls,            \* history: system calls made
    conns,            \* history: connections accepted
    used,             \* history: per thread, the time it really ran
    activeRequests,   \* active_requests
    sockHeaders,      \* sock_headers: whose bytes were captured
    events,           \* request_events, all that were ever submitted
    work,             \* history: per connection, what really happened on it
    tidToSock,        \* tid_to_sock
    onTs,             \* tid_on_cpu_ts
    sockCpu,          \* sock_cpu_ns; the map holds the sum over the threads
    charged,          \* history: per thread, the time added to some connection
    recvArgs,         \* recv_args_map (sock_by_thread always holds the same)
    recvUbuf          \* recv_ubuf_map: whether a buffer address is saved

requestVars == <<activeRequests, sockHeaders, events, work>>
cpuVars == <<tidToSock, onTs, sockCpu, charged>>
recvVars == <<recvArgs, recvUbuf>>
vars == <<now, cpu, conn, call, calls, conns, used, requestVars, cpuVars, recvVars>>

Conn == 1..MaxConns
NoTime == [t \in Threads |-> 0]
NoWork == [by |-> {}, sent |-> 0, recv |-> 0]
Idle == [kind |-> "none"]
\* A map updated at key k (BPF_HASH update).
Put(f, k, v) == [x \in DOMAIN f \cup {k} |-> IF x = k THEN v ELSE f[x]]
Running == {cpu[c] : c \in Cpus} \ {None}

\* struct request_state.
Request == [start : Nat, sent : Nat, recv : Nat, captured : BOOLEAN]

\* What really happened on a connection: the threads that used it, the bytes they
\* asked to send and those they received.
Work == [by : SUBSET Threads, sent : Nat, recv : Nat]

\* struct request_event.  conn is the connection really closed, sock its socket, closer
\* the thread that closed it and really what happened on it.
Event == [conn : Conn, sock : Socks, closer : Threads, duration : Nat, cpu : [Threads -> Nat], sent : Nat, recv : Nat,
          header : Conn \cup {None, Outgoing, File}, really : Work]

\* A thread inside a system call, as far as the probes can tell its stages apart.
Call == [kind : SocketReads, at : {"entered", "receiving"}, sock : Socks]
    \cup [kind : SocketReads, at : {"returned"}, source : Conn \cup {Outgoing},
          ret : {0, 1}, http : BOOLEAN]
    \cup {[kind |-> "file", at |-> "entered"], Idle}

RequestTypeOK ==
    /\ now \in 0..MaxClock
    /\ cpu \in [Cpus -> Threads \cup {None}]
    /\ conn \in [Socks -> Conn \cup {None, Outgoing}]
    /\ call \in [Threads -> Call]
    /\ calls \in 0..MaxCalls
    /\ conns \in 0..MaxConns
    /\ used \in [Threads -> Nat]
    /\ DOMAIN activeRequests \subseteq Socks
    /\ activeRequests \in [DOMAIN activeRequests -> Request]
    /\ sockHeaders \in [Socks -> Conn \cup {None, Outgoing, File}]
    /\ events \subseteq Event
    /\ work \in [Conn -> Work]
    /\ tidToSock \in [Threads -> Socks \cup {None}]
    /\ onTs \in [Threads -> Nat \cup {None}]
    /\ DOMAIN sockCpu \subseteq Socks
    /\ sockCpu \in [DOMAIN sockCpu -> [Threads -> Nat]]
    /\ charged \in [Threads -> Nat]
    /\ recvArgs \in [Threads -> Socks \cup {None}]
    /\ recvUbuf \in [Threads -> BOOLEAN]

Init ==
    /\ now = 0
    /\ cpu = [c \in Cpus |-> None]
    /\ conn = [s \in Socks |-> None]
    /\ call = [t \in Threads |-> Idle]
    /\ calls = 0
    /\ conns = 0
    /\ used = NoTime
    /\ activeRequests = [s \in {} |-> None]
    /\ sockHeaders = [s \in Socks |-> None]
    /\ events = {}
    /\ work = [c \in Conn |-> NoWork]
    /\ tidToSock = [t \in Threads |-> None]
    /\ onTs = [t \in Threads |-> None]
    /\ sockCpu = [s \in {} |-> NoTime]
    /\ charged = NoTime
    /\ recvArgs = [t \in Threads |-> None]
    /\ recvUbuf = [t \in Threads |-> FALSE]

-----------------------------------------------------------------------------
\* The time since the thread's on-CPU stamp, if it has one.
Slice(t) == IF onTs[t] = None THEN 0 ELSE now - onTs[t]

Tick ==
    /\ now < MaxClock
    /\ now' = now + 1
    /\ used' = [t \in Threads |-> IF t \in Running THEN used[t] + 1 ELSE used[t]]
    /\ UNCHANGED <<cpu, conn, call, calls, conns, requestVars, cpuVars, recvVars>>

\* Mutant: the stamp of the thread that leaves the processor is not deleted.
SwitchStampsKeepsPrev(prev, next) ==
    onTs' = [t \in Threads |->
        IF t = next /\ tidToSock[t] # None THEN now ELSE onTs[t]]

\* The stamps after a switch: a registered thread that leaves loses its own, a
\* registered thread that enters gets a new one.
SwitchStamps(prev, next) ==
    onTs' = [t \in Threads |->
        IF t = prev /\ tidToSock[t] # None THEN None
        ELSE IF t = next /\ tidToSock[t] # None THEN now ELSE onTs[t]]

\* Mutant: the difference is taken the wrong way around.
ChargeSliceSwapped(t, s) ==
    IF t \in Threads /\ s \in DOMAIN sockCpu /\ onTs[t] # None
    THEN /\ sockCpu' = [sockCpu EXCEPT ![s][t] = @ + (onTs[t] - now)]
         /\ charged' = [charged EXCEPT ![t] = @ + (onTs[t] - now)]
    ELSE UNCHANGED <<sockCpu, charged>>

\* The slice of a thread that leaves goes to the socket it is registered for, if
\* that socket has an accumulator.
ChargeSlice(t, s) ==
    IF t \in Threads /\ s \in DOMAIN sockCpu
    THEN /\ sockCpu' = [sockCpu EXCEPT ![s][t] = @ + Slice(t)]
         /\ charged' = [charged EXCEPT ![t] = @ + Slice(t)]
    ELSE UNCHANGED <<sockCpu, charged>>

\* sched_switch on processor c.
Switch(c, next) ==
    LET prev == cpu[c] IN
    /\ next # prev
    /\ next \notin Running
    /\ cpu' = [cpu EXCEPT ![c] = next]
    /\ ChargeSlice(prev, IF prev = None THEN None ELSE tidToSock[prev])
    /\ SwitchStamps(prev, next)
    /\ UNCHANGED <<now, conn, call, calls, conns, used, requestVars, tidToSock, recvVars>>

\* A thread that is on a processor and in its own code.
CanCall(t) == t \in Running /\ call[t] = Idle

\* trace_accept_return.
Accept(t, s) ==
    /\ CanCall(t)
    /\ conn[s] = None
    /\ conns < MaxConns
    /\ conns' = conns + 1
    /\ conn' = [conn EXCEPT ![s] = conns + 1]
    /\ work' = [work EXCEPT ![conns + 1].by = {t}]
    /\ activeRequests' =
        Put(activeRequests, s, [start |-> now, sent |-> 0, recv |-> 0, captured |-> FALSE])
    /\ UNCHANGED <<now, cpu, call, calls, used, sockHeaders, events, cpuVars, recvVars>>

\* The program connects a socket of its own; no probe of this file fires.
Connect(t, s) ==
    /\ CanCall(t)
    /\ conn[s] = None
    /\ calls < MaxCalls
    /\ calls' = calls + 1
    /\ conn' = [conn EXCEPT ![s] = Outgoing]
    /\ UNCHANGED <<now, cpu, call, conns, used, requestVars, cpuVars, recvVars>>

\* register_thread_for_cpu: a thread that is registered for any socket stays as it
\* is.  The stamp is written also when tid_to_sock has no room.
RegisterThread(t, s) ==
    IF tidToSock[t] # None
    THEN UNCHANGED cpuVars
    ELSE /\ tidToSock' =
              IF Cardinality({u \in Threads : tidToSock[u] # None}) < TidCapacity
              THEN [tidToSock EXCEPT ![t] = s] ELSE tidToSock
         /\ onTs' = [onTs EXCEPT ![t] = now]
         /\ sockCpu' = IF s \in DOMAIN sockCpu THEN sockCpu ELSE Put(sockCpu, s, NoTime)
         /\ UNCHANGED charged

\* trace_tcp_sendmsg fires before anything is sent and counts what the caller asked
\* for, whatever the call then sends.
Send(t, s) ==
    /\ CanCall(t)
    /\ conn[s] # None
    /\ calls < MaxCalls
    /\ calls' = calls + 1
    /\ IF s \in DOMAIN activeRequests
       THEN /\ RegisterThread(t, s)
            /\ activeRequests' = [activeRequests EXCEPT ![s].sent = @ + 1]
            /\ work' = [work EXCEPT ![conn[s]].by = @ \cup {t},
                                    ![conn[s]].sent = @ + 1]
       ELSE UNCHANGED <<cpuVars, activeRequests, work>>
    /\ UNCHANGED <<now, cpu, conn, call, conns, used, sockHeaders, events, recvVars>>

-----------------------------------------------------------------------------
\* sys_enter_read and sys_enter_recvfrom save the buffer's address, for sockets and
\* files alike; recvmsg has no such probe.
EnterCall(t, c) ==
    /\ c.kind \in ReadCalls
    /\ CanCall(t)
    /\ calls < MaxCalls
    /\ calls' = calls + 1
    /\ call' = [call EXCEPT ![t] = c]
    /\ recvUbuf' = IF c.kind = "recvmsg" THEN recvUbuf ELSE [recvUbuf EXCEPT ![t] = TRUE]
    /\ UNCHANGED <<now, cpu, conn, conns, used, requestVars, cpuVars, recvArgs>>

EnterSocketRead(t, kind, s) ==
    conn[s] # None /\ EnterCall(t, [kind |-> kind, at |-> "entered", sock |-> s])
EnterFileRead(t) == EnterCall(t, [kind |-> "file", at |-> "entered"])

\* A thread on a processor, at that stage of a read of a socket.
Reading(t, stage) == t \in Running /\ call[t].kind \in SocketReads /\ call[t].at = stage

\* Mutant: what an earlier receive left in recv_args_map is kept (BPF_NOEXIST).
RecvEntryKeepsArgs(t) ==
    /\ Reading(t, "entered")
    /\ call' = [call EXCEPT ![t].at = "receiving"]
    /\ recvArgs' = IF recvArgs[t] = None THEN [recvArgs EXCEPT ![t] = call[t].sock] ELSE recvArgs
    /\ IF call[t].sock \in DOMAIN activeRequests
       THEN /\ RegisterThread(t, call[t].sock)
            /\ work' = [work EXCEPT ![conn[call[t].sock]].by = @ \cup {t}]
       ELSE UNCHANGED <<cpuVars, work>>
    /\ UNCHANGED <<now, cpu, conn, calls, conns, used, activeRequests, sockHeaders,
                   events, recvUbuf>>

\* trace_tcp_recvmsg_entry.
RecvEntry(t) ==
    /\ Reading(t, "entered")
    /\ call' = [call EXCEPT ![t].at = "receiving"]
    /\ recvArgs' = [recvArgs EXCEPT ![t] = call[t].sock]
    /\ IF call[t].sock \in DOMAIN activeRequests
       THEN /\ RegisterThread(t, call[t].sock)
            /\ work' = [work EXCEPT ![conn[call[t].sock]].by = @ \cup {t}]
       ELSE UNCHANGED <<cpuVars, work>>
    /\ UNCHANGED <<now, cpu, conn, calls, conns, used, activeRequests, sockHeaders,
                   events, recvUbuf>>

\* What a read that got bytes adds to the truth about its connection.
Received(c) == work' = IF c = Outgoing THEN work ELSE [work EXCEPT ![c].recv = @ + 1]

\* Mutant: the bytes go to the socket the thread is registered for.
RecvReturnRegistered(t, bytes, http) ==
    LET c == conn[call[t].sock] IN
    /\ Reading(t, "receiving")
    /\ call' = [call EXCEPT ![t] = [kind |-> @.kind, at |-> "returned", source |-> c,
                                    ret |-> bytes, http |-> http]]
    /\ IF bytes > 0 THEN Received(c) ELSE UNCHANGED work
    /\ activeRequests' = IF bytes > 0 /\ tidToSock[t] \in DOMAIN activeRequests
                         THEN [activeRequests EXCEPT ![tidToSock[t]].recv = @ + 1]
                         ELSE activeRequests
    /\ UNCHANGED <<now, cpu, conn, calls, conns, used, sockHeaders, events, cpuVars, recvVars>>

\* trace_tcp_recvmsg_return: bytes is positive, or 0 for the end or an error.  http:
\* the buffer begins like a request.
RecvReturn(t, bytes, http) ==
    LET c == conn[call[t].sock] IN
    /\ Reading(t, "receiving")
    /\ call' = [call EXCEPT ![t] = [kind |-> @.kind, at |-> "returned", source |-> c,
                                    ret |-> bytes, http |-> http]]
    /\ IF bytes > 0 THEN Received(c) ELSE UNCHANGED work
    /\ activeRequests' = IF bytes > 0 /\ recvArgs[t] \in DOMAIN activeRequests
                         THEN [activeRequests EXCEPT ![recvArgs[t]].recv = @ + 1]
                         ELSE activeRequests
    /\ UNCHANGED <<now, cpu, conn, calls, conns, used, sockHeaders, events, cpuVars, recvVars>>

\* The labels cleanup and cleanup_args of try_capture_headers; the second is reached
\* alone when bytes were read and no buffer was saved, and then there is none.
ForgetRead(t) ==
    /\ recvUbuf' = [recvUbuf EXCEPT ![t] = FALSE]
    /\ recvArgs' = [recvArgs EXCEPT ![t] = None]

\* try_capture_headers at the end of a call that returned ret and left bytes of
\* source in its buffer.  The flag is set whether or not sock_headers had room.
TryCaptureHeaders(t, ret, source, http) ==
    LET s == recvArgs[t]
        room == Cardinality({x \in Socks : sockHeaders[x] # None}) < HeaderCapacity
    IN  /\ IF /\ ret > 0
              /\ recvUbuf[t]
              /\ s \in DOMAIN activeRequests
              /\ ~ activeRequests[s].captured
              /\ http
           THEN /\ sockHeaders' = IF room \/ sockHeaders[s] # None
                                  THEN [sockHeaders EXCEPT ![s] = source] ELSE sockHeaders
                /\ activeRequests' = [activeRequests EXCEPT ![s].captured = TRUE]
           ELSE UNCHANGED <<sockHeaders, activeRequests>>
        /\ ForgetRead(t)

\* sys_exit_read and sys_exit_recvfrom for a socket.
ExitSocketRead(t) ==
    /\ Reading(t, "returned")
    /\ call[t].kind # "recvmsg"
    /\ call' = [call EXCEPT ![t] = Idle]
    /\ TryCaptureHeaders(t, call[t].ret, call[t].source, call[t].http)
    /\ UNCHANGED <<now, cpu, conn, calls, conns, used, events, work, cpuVars>>

\* sys_exit_read for a file.
ExitFileRead(t, bytes, http) ==
    /\ t \in Running
    /\ call[t].kind = "file"
    /\ call' = [call EXCEPT ![t] = Idle]
    /\ TryCaptureHeaders(t, bytes, File, http)
    /\ UNCHANGED <<now, cpu, conn, calls, conns, used, events, work, cpuVars>>

\* The end of recvmsg, which has no probe.
ExitRecvmsg(t) ==
    /\ Reading(t, "returned")
    /\ call[t].kind = "recvmsg"
    /\ call' = [call EXCEPT ![t] = Idle]
    /\ UNCHANGED <<now, cpu, conn, calls, conns, used, requestVars, cpuVars, recvVars>>

-----------------------------------------------------------------------------
\* The event of socket s closed by thread t: the accumulator of the socket and the
\* slice of the closing thread, whatever socket that one is registered for.
ClosedEvent(t, s) ==
    LET r == activeRequests[s]
        accum == IF s \in DOMAIN sockCpu THEN sockCpu[s] ELSE NoTime
        w == work[conn[s]]
    IN  [conn |-> conn[s], sock |-> s, closer |-> t, duration |-> now - r.start,
         cpu |-> [accum EXCEPT ![t] = @ + Slice(t)],
         sent |-> r.sent, recv |-> r.recv, header |-> sockHeaders[s],
         really |-> [w EXCEPT !.by = @ \cup {t}]]

\* Mutant: active_requests is not cleaned.
ForgetSocketKeepsRequest(t, s) ==
    /\ sockCpu' = Restrict(sockCpu, DOMAIN sockCpu \ {s})
    /\ sockHeaders' = [sockHeaders EXCEPT ![s] = None]
    /\ tidToSock' = [tidToSock EXCEPT ![t] = None]
    /\ onTs' = [onTs EXCEPT ![t] = None]
    /\ UNCHANGED activeRequests

\* Mutant: the accumulator of the socket is not cleaned.
ForgetSocketKeepsCpu(t, s) ==
    /\ activeRequests' = Restrict(activeRequests, DOMAIN activeRequests \ {s})
    /\ sockHeaders' = [sockHeaders EXCEPT ![s] = None]
    /\ tidToSock' = [tidToSock EXCEPT ![t] = None]
    /\ onTs' = [onTs EXCEPT ![t] = None]
    /\ UNCHANGED sockCpu

\* "Cleanup all maps": those keyed by the socket, and those keyed by the thread that
\* closes it.  The other threads registered for the socket stay registered.
ForgetSocket(t, s) ==
    /\ activeRequests' = Restrict(activeRequests, DOMAIN activeRequests \ {s})
    /\ sockCpu' = Restrict(sockCpu, DOMAIN sockCpu \ {s})
    /\ sockHeaders' = [sockHeaders EXCEPT ![s] = None]
    /\ tidToSock' = [tidToSock EXCEPT ![t] = None]
    /\ onTs' = [onTs EXCEPT ![t] = None]

InReceive(s) ==
    \E t \in Threads : call[t].kind \in SocketReads /\ call[t].at # "returned"
                                                    /\ call[t].sock = s

\* trace_tcp_close, by the thread that drops the last reference; the kernel holds one
\* while a thread receives.
Close(t, s) ==
    /\ CanCall(t)
    /\ conn[s] # None
    /\ ~ InReceive(s)
    /\ conn' = [conn EXCEPT ![s] = None]
    /\ IF s \in DOMAIN activeRequests
       THEN /\ events' = events \cup {ClosedEvent(t, s)}
            /\ charged' = [charged EXCEPT ![t] = @ + Slice(t)]
            /\ ForgetSocket(t, s)
       ELSE UNCHANGED <<events, activeRequests, sockHeaders, cpuVars>>
    /\ UNCHANGED <<now, cpu, call, calls, conns, used, work, recvVars>>

Next ==
    \/ Tick
    \/ \E c \in Cpus, next \in Threads \cup {None} : Switch(c, next)
    \/ \E t \in Threads :
        \/ \E s \in Socks :
            \/ Accept(t, s)
            \/ Connect(t, s)
            \/ Send(t, s)
            \/ \E kind \in SocketReads : EnterSocketRead(t, kind, s)
            \/ Close(t, s)
        \/ EnterFileRead(t)
        \/ RecvEntry(t)
        \/ \E bytes \in {0, 1}, http \in BOOLEAN :
            RecvReturn(t, bytes, http) \/ ExitFileRead(t, bytes, http)
        \/ ExitSocketRead(t)
        \/ ExitRecvmsg(t)

Spec == Init /\ [][Next]_vars

-----------------------------------------------------------------------------
\* Every connection accepted is open and followed by the tracker, or closed and
\* reported by exactly one event; nothing else is followed.
EveryConnectionAccounted ==
    LET open == {conn[s] : s \in Socks} \cap Conn
    IN  /\ DOMAIN activeRequests = {s \in Socks : conn[s] \in Conn}
        /\ {e.conn : e \in events} = (1..conns) \ open
        /\ Cardinality(events) = conns - Cardinality(open)

\* sched_switch and close never charge a moment of a thread twice, nor a moment it
\* was not on a processor: all it was charged for, and the slice it would be charged
\* for now, fit in the time it ran.
ChargedAtMostOnce == \A t \in Threads : charged[t] + Slice(t) <= used[t]

\* A connection is charged for a thread that accepted, used or closed it, or for one that
\* used an earlier connection at the same address which another thread closed, and which
\* is therefore still registered there: such strangers exist, and no others.
ChargedToUsersOrLeftovers ==
    \A e \in events, t \in Threads : e.cpu[t] > 0 =>
        \/ t \in e.really.by
        \/ \E x \in events : /\ x.sock = e.sock /\ x.conn < e.conn
                            /\ t \in x.really.by /\ t # x.closer

\* The received bytes of a connection are those its threads got from it, and the
\* sent ones those they asked to send on it, whatever else these threads read and
\* write in between.
BytesAreOwn ==
    /\ \A s \in DOMAIN activeRequests :
        /\ activeRequests[s].recv = work[conn[s]].recv
        /\ activeRequests[s].sent = work[conn[s]].sent
    /\ \A e \in events : e.recv = e.really.recv /\ e.sent = e.really.sent

\* The headers reported of a connection are its own, or those of an earlier connection
\* at the same address: the probes of one read meet under the thread, and another
\* thread may close the socket, and a new connection take its place, before the last
\* of them.  Bytes of a connection at another address are never taken for them.
HeadersFromAddress ==
    \A e \in events : e.header \in Conn =>
        \E x \in events : x.conn = e.header /\ x.sock = e.sock /\ x.conn <= e.conn

\* What the comment at sys_enter_read says: a read that is not on a socket cleans up
\* and captures nothing.
FilesAreNotCaptured ==
    /\ \A s \in Socks : sockHeaders[s] # File
    /\ \A e \in events : e.header # File
=============================================================================
