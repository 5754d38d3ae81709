------------------------ MODULE RequestTracker_proofs ------------------------
(***************************************************************************)
(* What the request tracker reports, for any threads, sockets and          *)
(* processors.  First its CPU accounting: no moment of a thread is charged *)
(* twice, and none it did not run.  What makes it so is that a stamp means *)
(* a registered thread that is on a processor, and that needs room in      *)
(* tid_to_sock for every thread.  Then its connections: every one has one  *)
(* event or is still followed, its bytes are its own, and so is its CPU    *)
(* time but for that of threads left over from an earlier connection.      *)
(***************************************************************************)
EXTENDS RequestTracker, FiniteSetTheorems, TLAPS

RoomForThreads == IsFiniteSet(Threads) /\ Cardinality(Threads) <= TidCapacity

CpuTypeOK ==
    /\ now \in Nat
    /\ cpu \in [Cpus -> Threads \cup {None}]
    /\ used \in [Threads -> Nat]
    /\ charged \in [Threads -> Nat]
    /\ tidToSock \in [Threads -> Socks \cup {None}]
    /\ onTs \in [Threads -> Nat \cup {None}]
    /\ DOMAIN activeRequests \subseteq Socks

\* A thread with a stamp runs, is registered, and was stamped in the past.
StampedThreadsRun ==
    \A t \in Threads : onTs[t] # None =>
        /\ t \in Running
        /\ tidToSock[t] # None
        /\ onTs[t] <= now

CpuInv == CpuTypeOK /\ StampedThreadsRun /\ ChargedAtMostOnce

\* While every thread fits in tid_to_sock, a thread that is not registered yet
\* finds room.
LEMMA RoomToRegister ==
    ASSUME RoomForThreads, NEW t \in Threads, tidToSock[t] = None
    PROVE  Cardinality({u \in Threads : tidToSock[u] # None}) < TidCapacity
<1> DEFINE R == {u \in Threads : tidToSock[u] # None}
<1>1. R \subseteq Threads /\ R # Threads
  OBVIOUS
<1>2. IsFiniteSet(R) /\ Cardinality(R) < Cardinality(Threads)
  BY <1>1, FS_Subset, FS_CardinalityType DEF RoomForThreads
<1>3. Cardinality(R) \in Nat /\ Cardinality(Threads) \in Nat
  BY <1>2, FS_CardinalityType DEF RoomForThreads
<1> QED
  BY <1>2, <1>3, RequestTrackerAssumption DEF RoomForThreads, RequestTrackerAssumption

LEMMA NoneIsNot ==
    None \notin Nat /\ None \notin Threads /\ None \notin Socks
BY RequestTrackerAssumption DEF RequestTrackerAssumption, None

\* Registering a thread that runs keeps the accounting.
LEMMA RegisterKeepsCpu ==
    ASSUME RoomForThreads, CpuInv, NEW t \in Threads, NEW s \in Socks,
           t \in Running, RegisterThread(t, s), UNCHANGED <<now, cpu, used>>,
           DOMAIN activeRequests' \subseteq Socks
    PROVE  CpuInv'
<1>1. CASE tidToSock[t] # None
  BY <1>1 DEF RegisterThread, cpuVars, CpuInv, CpuTypeOK, StampedThreadsRun,
              ChargedAtMostOnce, Slice, Running
<1>2. CASE tidToSock[t] = None
  <2>1. /\ tidToSock' = [tidToSock EXCEPT ![t] = s]
        /\ onTs' = [onTs EXCEPT ![t] = now]
        /\ charged' = charged
    BY <1>2, RoomToRegister DEF RegisterThread
  <2>2. CpuTypeOK'
    BY <2>1 DEF CpuInv, CpuTypeOK
  <2>3. StampedThreadsRun'
    BY <2>1, NoneIsNot DEF CpuInv, CpuTypeOK, StampedThreadsRun, Running
  <2>4. ChargedAtMostOnce'
    BY <2>1, NoneIsNot DEF CpuInv, CpuTypeOK, StampedThreadsRun, ChargedAtMostOnce, Slice
  <2> QED BY <2>2, <2>3, <2>4 DEF CpuInv
<1> QED BY <1>1, <1>2

\* A switch charges the thread that leaves for its slice and takes its stamp away.
LEMMA SwitchKeepsCpu ==
    ASSUME CpuInv, NEW c \in Cpus, NEW next \in Threads \cup {None}, Switch(c, next)
    PROVE  CpuInv'
<1> DEFINE prev == cpu[c]
<1>1. /\ prev \in Threads \cup {None}
      /\ next # prev /\ next \notin Running
      /\ cpu' = [cpu EXCEPT ![c] = next]
      /\ UNCHANGED <<now, used, tidToSock, activeRequests>>
      /\ onTs' = [t \in Threads |->
             IF t = prev /\ tidToSock[t] # None THEN None
             ELSE IF t = next /\ tidToSock[t] # None THEN now ELSE onTs[t]]
  BY DEF Switch, SwitchStamps, requestVars, CpuInv, CpuTypeOK
<1>2. \/ UNCHANGED charged
      \/ prev \in Threads /\ charged' = [charged EXCEPT ![prev] = @ + Slice(prev)]
  BY DEF Switch, ChargeSlice
<1>3. \A t \in Threads : Slice(t) \in Nat
  BY NoneIsNot DEF CpuInv, CpuTypeOK, StampedThreadsRun, Slice
<1>4. CpuTypeOK'
  BY <1>1, <1>2, <1>3 DEF CpuInv, CpuTypeOK
<1>5. StampedThreadsRun'
  <2> SUFFICES ASSUME NEW t \in Threads, onTs'[t] # None
               PROVE  t \in Running' /\ tidToSock'[t] # None /\ onTs'[t] <= now'
    BY DEF StampedThreadsRun
  <2>1. CASE t = next /\ tidToSock[t] # None
    BY <2>1, <1>1, NoneIsNot DEF CpuInv, CpuTypeOK, Running
  <2>2. CASE ~ (t = next /\ tidToSock[t] # None)
    <3>1. t # prev /\ onTs'[t] = onTs[t] /\ onTs[t] # None
      BY <2>2, <1>1 DEF CpuInv, StampedThreadsRun
    <3>2. PICK d \in Cpus : cpu[d] = t
      BY <3>1 DEF CpuInv, StampedThreadsRun, Running
    <3>3. cpu'[d] = t
      BY <3>1, <3>2, <1>1 DEF CpuInv, CpuTypeOK
    <3> QED
      BY <3>1, <3>3, <1>1, NoneIsNot DEF CpuInv, StampedThreadsRun, Running
  <2> QED BY <2>1, <2>2
<1>6. ChargedAtMostOnce'
  <2> SUFFICES ASSUME NEW t \in Threads PROVE charged'[t] + Slice(t)' <= used'[t]
    BY DEF ChargedAtMostOnce
  <2>1. used'[t] = used[t] /\ charged[t] + Slice(t) <= used[t]
    BY <1>1 DEF CpuInv, ChargedAtMostOnce
  <2>2. charged[t] \in Nat /\ used[t] \in Nat /\ Slice(t) \in Nat /\ now \in Nat
    BY <1>3 DEF CpuInv, CpuTypeOK
  <2>3. CASE t = prev
    <3>1. charged'[t] <= charged[t] + Slice(t)
      BY <2>3, <2>2, <1>2 DEF CpuInv, CpuTypeOK
    <3>2. Slice(t)' = 0
      BY <2>3, <1>1 DEF Slice, CpuInv, StampedThreadsRun
    <3> QED BY <3>1, <3>2, <2>1, <2>2, <1>4 DEF CpuTypeOK
  <2>4. CASE t # prev
    <3>1. charged'[t] = charged[t]
      BY <2>4, <1>2 DEF CpuInv, CpuTypeOK
    <3>2. Slice(t)' <= Slice(t)
      BY <2>4, <2>2, <1>1, NoneIsNot DEF Slice
    <3>3. Slice(t)' \in Nat
      BY <2>4, <2>2, <1>1, <1>5, NoneIsNot DEF Slice, CpuInv, CpuTypeOK, StampedThreadsRun
    <3> QED BY <3>1, <3>2, <3>3, <2>1, <2>2
  <2> QED BY <2>3, <2>4
<1> QED BY <1>4, <1>5, <1>6 DEF CpuInv

\* Closing charges the thread that closes for its slice and takes its stamp away.
LEMMA CloseKeepsCpu ==
    ASSUME CpuInv, NEW t \in Threads, NEW s \in Socks, Close(t, s),
           DOMAIN activeRequests' \subseteq Socks
    PROVE  CpuInv'
<1>1. UNCHANGED <<now, cpu, used>>
  BY DEF Close
<1>2. CASE s \in DOMAIN activeRequests
  <2>1. /\ charged' = [charged EXCEPT ![t] = @ + Slice(t)]
        /\ tidToSock' = [tidToSock EXCEPT ![t] = None]
        /\ onTs' = [onTs EXCEPT ![t] = None]
    BY <1>2 DEF Close, ForgetSocket
  <2>2. Slice(t) \in Nat
    BY NoneIsNot DEF CpuInv, CpuTypeOK, StampedThreadsRun, Slice
  <2>3. CpuTypeOK'
    BY <1>1, <2>1, <2>2 DEF CpuInv, CpuTypeOK
  <2>4. StampedThreadsRun'
    BY <1>1, <2>1 DEF CpuInv, CpuTypeOK, StampedThreadsRun, Running
  <2>5. ChargedAtMostOnce'
    BY <1>1, <2>1, <2>2 DEF CpuInv, CpuTypeOK, StampedThreadsRun, ChargedAtMostOnce, Slice
  <2> QED BY <2>3, <2>4, <2>5 DEF CpuInv
<1>3. CASE s \notin DOMAIN activeRequests
  BY <1>1, <1>3 DEF Close, cpuVars, CpuInv, CpuTypeOK, StampedThreadsRun,
                    ChargedAtMostOnce, Slice, Running
<1> QED BY <1>2, <1>3

LEMMA TickKeepsCpu ==
    ASSUME CpuInv, Tick
    PROVE  CpuInv'
<1>1. CpuTypeOK'
  BY DEF Tick, requestVars, cpuVars, CpuInv, CpuTypeOK
<1>2. StampedThreadsRun'
  BY NoneIsNot DEF Tick, cpuVars, CpuInv, CpuTypeOK, StampedThreadsRun, Running
<1>3. ChargedAtMostOnce'
  BY NoneIsNot DEF Tick, cpuVars, CpuInv, CpuTypeOK, StampedThreadsRun, ChargedAtMostOnce, Slice
<1> QED BY <1>1, <1>2, <1>3 DEF CpuInv

LEMMA CpuStutter ==
    ASSUME CpuInv, UNCHANGED <<now, cpu, used, cpuVars>>,
           DOMAIN activeRequests' \subseteq Socks
    PROVE  CpuInv'
BY DEF cpuVars, CpuInv, CpuTypeOK, StampedThreadsRun, ChargedAtMostOnce, Slice, Running

\* Only sockets are followed.
LEMMA RequestsOfSockets ==
    ASSUME DOMAIN activeRequests \subseteq Socks, [Next]_vars
    PROVE  DOMAIN activeRequests' \subseteq Socks
<1>1. CASE Tick \/ UNCHANGED vars
  BY <1>1 DEF Tick, requestVars, vars
<1>2. ASSUME NEW c \in Cpus, NEW next \in Threads \cup {None}, Switch(c, next)
      PROVE  DOMAIN activeRequests' \subseteq Socks
  BY <1>2 DEF Switch, requestVars
<1>3. ASSUME NEW t \in Threads, NEW s \in Socks, Accept(t, s) \/ Connect(t, s)
      PROVE  DOMAIN activeRequests' \subseteq Socks
  BY <1>3 DEF Accept, Connect, Put, requestVars
<1>4. ASSUME NEW t \in Threads, NEW s \in Socks, Send(t, s)
      PROVE  DOMAIN activeRequests' \subseteq Socks
  BY <1>4 DEF Send
<1>5. ASSUME NEW t \in Threads, NEW s \in Socks, NEW kind \in SocketReads,
             EnterSocketRead(t, kind, s)
      PROVE  DOMAIN activeRequests' \subseteq Socks
  BY <1>5 DEF EnterSocketRead, EnterCall, requestVars
<1>6. ASSUME NEW t \in Threads, NEW s \in Socks, Close(t, s)
      PROVE  DOMAIN activeRequests' \subseteq Socks
  BY <1>6 DEF Close, ForgetSocket, Restrict
<1>7. ASSUME NEW t \in Threads, EnterFileRead(t) \/ RecvEntry(t) \/ ExitRecvmsg(t)
      PROVE  DOMAIN activeRequests' \subseteq Socks
  BY <1>7 DEF EnterFileRead, EnterCall, RecvEntry, ExitRecvmsg, requestVars
<1>8. ASSUME NEW t \in Threads, NEW bytes \in {0, 1}, NEW http \in BOOLEAN,
             RecvReturn(t, bytes, http) \/ ExitFileRead(t, bytes, http)
      PROVE  DOMAIN activeRequests' \subseteq Socks
  BY <1>8 DEF RecvReturn, ExitFileRead, TryCaptureHeaders
<1>9. ASSUME NEW t \in Threads, ExitSocketRead(t)
      PROVE  DOMAIN activeRequests' \subseteq Socks
  BY <1>9 DEF ExitSocketRead, TryCaptureHeaders
<1> QED
  BY <1>1, <1>2, <1>3, <1>4, <1>5, <1>6, <1>7, <1>8, <1>9 DEF Next

\* One step of the tracker keeps the accounting.
LEMMA CpuStep ==
    ASSUME RoomForThreads, CpuInv, [Next]_vars
    PROVE  CpuInv'
<1>0. DOMAIN activeRequests' \subseteq Socks
  BY RequestsOfSockets DEF CpuInv, CpuTypeOK
<1>1. CASE Tick
  BY <1>1, TickKeepsCpu
<1>2. ASSUME NEW c \in Cpus, NEW next \in Threads \cup {None}, Switch(c, next)
      PROVE  CpuInv'
  BY <1>2, SwitchKeepsCpu
<1>3. ASSUME NEW t \in Threads, NEW s \in Socks, Accept(t, s) \/ Connect(t, s)
      PROVE  CpuInv'
  BY <1>0, <1>3, CpuStutter DEF Accept, Connect
<1>4. ASSUME NEW t \in Threads, NEW s \in Socks, Send(t, s)
      PROVE  CpuInv'
  <2>1. t \in Running /\ UNCHANGED <<now, cpu, used>>
    BY <1>4 DEF Send, CanCall
  <2>2. CASE s \in DOMAIN activeRequests
    BY <1>0, <1>4, <2>1, <2>2, RegisterKeepsCpu DEF Send
  <2>3. CASE s \notin DOMAIN activeRequests
    BY <1>0, <1>4, <2>1, <2>3, CpuStutter DEF Send
  <2> QED BY <2>2, <2>3
<1>5. ASSUME NEW t \in Threads, NEW s \in Socks, NEW kind \in SocketReads,
             EnterSocketRead(t, kind, s)
      PROVE  CpuInv'
  BY <1>0, <1>5, CpuStutter DEF EnterSocketRead, EnterCall
<1>6. ASSUME NEW t \in Threads, NEW s \in Socks, Close(t, s)
      PROVE  CpuInv'
  BY <1>0, <1>6, CloseKeepsCpu
<1>7. ASSUME NEW t \in Threads, RecvEntry(t)
      PROVE  CpuInv'
  <2>1. t \in Running /\ UNCHANGED <<now, cpu, used>>
    BY <1>7 DEF RecvEntry, Reading
  <2>2. CASE call[t].sock \in DOMAIN activeRequests
    <3>1. call[t].sock \in Socks /\ RegisterThread(t, call[t].sock)
      BY <1>7, <2>2 DEF RecvEntry, CpuInv, CpuTypeOK
    <3> QED BY <1>0, <2>1, <3>1, RegisterKeepsCpu
  <2>3. CASE call[t].sock \notin DOMAIN activeRequests
    BY <1>0, <1>7, <2>1, <2>3, CpuStutter DEF RecvEntry
  <2> QED BY <2>2, <2>3
<1>8. ASSUME NEW t \in Threads,
             EnterFileRead(t) \/ ExitSocketRead(t) \/ ExitRecvmsg(t)
      PROVE  CpuInv'
  BY <1>0, <1>8, CpuStutter
  DEF EnterFileRead, EnterCall, ExitSocketRead, ExitRecvmsg
<1>9. ASSUME NEW t \in Threads, NEW bytes \in {0, 1}, NEW http \in BOOLEAN,
             RecvReturn(t, bytes, http) \/ ExitFileRead(t, bytes, http)
      PROVE  CpuInv'
  BY <1>0, <1>9, CpuStutter DEF RecvReturn, ExitFileRead
<1>10. CASE UNCHANGED vars
  BY <1>0, <1>10, CpuStutter DEF vars
<1> QED
  BY <1>1, <1>2, <1>3, <1>4, <1>5, <1>6, <1>7, <1>8, <1>9, <1>10 DEF Next

\* With room for every thread in tid_to_sock, whatever the threads do on however
\* many processors, sched_switch and tcp_close charge each moment of a thread at
\* most once, and only moments it ran.
THEOREM ChargedAtMostOnceCorrect ==
    ASSUME RoomForThreads
    PROVE  Spec => []ChargedAtMostOnce
<1>1. Init => CpuInv
  BY NoneIsNot DEF Init, NoTime, CpuInv, CpuTypeOK, StampedThreadsRun, ChargedAtMostOnce, Slice
<1>2. CpuInv /\ [Next]_vars => CpuInv'
  BY CpuStep
<1>3. CpuInv => ChargedAtMostOnce
  BY DEF CpuInv
<1> QED
  BY <1>1, <1>2, <1>3, PTL DEF Spec

-----------------------------------------------------------------------------
(* The connections. *)

ClockTypes ==
    /\ now \in 0..MaxClock
    /\ cpu \in [Cpus -> Threads \cup {None}]
    /\ used \in [Threads -> Nat]

CallTypes ==
    /\ call \in [Threads -> Call]
    /\ calls \in 0..MaxCalls
    /\ recvArgs \in [Threads -> Socks \cup {None}]
    /\ recvUbuf \in [Threads -> BOOLEAN]

ConnTypes ==
    /\ conn \in [Socks -> Conn \cup {None, Outgoing}]
    /\ conns \in 0..MaxConns
    /\ work \in [Conn -> Work]
    /\ DOMAIN activeRequests \subseteq Socks
    /\ activeRequests \in [DOMAIN activeRequests -> Request]
    /\ sockHeaders \in [Socks -> Conn \cup {None, Outgoing, File}]
    /\ events \subseteq Event

CpuTypes ==
    /\ tidToSock \in [Threads -> Socks \cup {None}]
    /\ onTs \in [Threads -> Nat \cup {None}]
    /\ DOMAIN sockCpu \subseteq Socks
    /\ sockCpu \in [DOMAIN sockCpu -> [Threads -> Nat]]
    /\ charged \in [Threads -> Nat]

\* No thread was stamped in the future.
StampsPast == \A t \in Threads : onTs[t] # None => onTs[t] <= now

TypeInv == ClockTypes /\ CallTypes /\ ConnTypes /\ CpuTypes /\ StampsPast

-----------------------------------------------------------------------------
\* The markers None and Outgoing are neither numbers nor keys.
LEMMA Numbers ==
    /\ MaxClock \in Nat /\ MaxConns \in Nat /\ MaxCalls \in Nat
    /\ None \notin Nat /\ None \notin Threads /\ None \notin Socks
    /\ None \notin Conn /\ Outgoing \notin Conn /\ None # Outgoing
    /\ \A c \in Conn : c \in Nat
  BY RequestTrackerAssumption DEF None, Outgoing, Conn

\* A slice is not negative.
LEMMA SliceNat ==
    ASSUME TypeInv, NEW t \in Threads
    PROVE  Slice(t) \in Nat
  BY Numbers DEF TypeInv, ClockTypes, CpuTypes, StampsPast, Slice

\* What the stages of a call say of its record.
LEMMA CallStages ==
    ASSUME CallTypes, NEW t \in Threads, call[t].kind \in SocketReads
    PROVE  /\ call[t].at # "returned" =>
                /\ call[t] \in [kind : SocketReads, at : {"entered", "receiving"}, sock : Socks]
                /\ call[t].sock \in Socks
           /\ call[t].at = "returned" => call[t].source \in Conn \cup {Outgoing}
  BY DEF CallTypes, Call, SocketReads, Idle

\* Registering a thread.
LEMMA RegisterTypes ==
    ASSUME TypeInv, NEW t \in Threads, NEW s \in Socks, RegisterThread(t, s), UNCHANGED now
    PROVE  (CpuTypes /\ StampsPast)'
<1>1. CASE tidToSock[t] # None
  BY <1>1 DEF RegisterThread, cpuVars, TypeInv, CpuTypes, StampsPast
<1>2. CASE tidToSock[t] = None
  <2>1. /\ tidToSock' \in {tidToSock, [tidToSock EXCEPT ![t] = s]}
        /\ onTs' = [onTs EXCEPT ![t] = now]
        /\ charged' = charged
    BY <1>2 DEF RegisterThread
  <2>2. DOMAIN sockCpu' \subseteq Socks /\ sockCpu' \in [DOMAIN sockCpu' -> [Threads -> Nat]]
    BY <1>2 DEF RegisterThread, Put, NoTime, TypeInv, CpuTypes
  <2>3. now \in Nat
    BY Numbers DEF TypeInv, ClockTypes
  <2>. QED
    BY <2>1, <2>2, <2>3 DEF TypeInv, CpuTypes, StampsPast
<1>. QED
  BY <1>1, <1>2

\* Time passes, or a processor goes to another thread.
LEMMA ClockStep ==
    ASSUME TypeInv, Tick \/ \E c \in Cpus, next \in Threads \cup {None} : Switch(c, next)
    PROVE  TypeInv'
<1>1. CallTypes' /\ ConnTypes'
  BY DEF Tick, Switch, TypeInv, CallTypes, ConnTypes, requestVars, recvVars
<1>2. CASE Tick
  BY <1>1, <1>2, Numbers DEF Tick, TypeInv, ClockTypes, CpuTypes, StampsPast, cpuVars
<1>3. ASSUME NEW c \in Cpus, NEW next \in Threads \cup {None}, Switch(c, next) PROVE TypeInv'
  <2>1. ClockTypes'
    BY <1>3 DEF Switch, TypeInv, ClockTypes
  <2>2. now \in Nat
    BY Numbers DEF TypeInv, ClockTypes
  <2>3. onTs' \in [Threads -> Nat \cup {None}] /\ StampsPast'
    BY <1>3, <2>2 DEF Switch, SwitchStamps, TypeInv, CpuTypes, StampsPast
  <2>4. /\ DOMAIN sockCpu' \subseteq Socks /\ sockCpu' \in [DOMAIN sockCpu' -> [Threads -> Nat]]
        /\ charged' \in [Threads -> Nat] /\ tidToSock' = tidToSock
    BY <1>3, SliceNat DEF Switch, ChargeSlice, TypeInv, CpuTypes
  <2>. QED
    BY <1>1, <2>1, <2>3, <2>4 DEF TypeInv, CpuTypes
<1>. QED
  BY <1>2, <1>3

\* A connection is accepted or made, or something is sent.
LEMMA UseStep ==
    ASSUME TypeInv, NEW t \in Threads, NEW s \in Socks, Accept(t, s) \/ Connect(t, s) \/ Send(t, s)
    PROVE  TypeInv'
<1>1. ClockTypes' /\ CallTypes'
  BY Numbers DEF Accept, Connect, Send, TypeInv, ClockTypes, CallTypes, recvVars
<1>2. CASE Accept(t, s)
  <2>1. conns + 1 \in Conn /\ now \in Nat
    BY <1>2, Numbers DEF Accept, TypeInv, ConnTypes, ClockTypes, Conn
  <2>2. conn' \in [Socks -> Conn \cup {None, Outgoing}] /\ conns' \in 0..MaxConns
    BY <1>2, <2>1, Numbers DEF Accept, TypeInv, ConnTypes, Conn
  <2>3. work' \in [Conn -> Work]
    BY <1>2, <2>1 DEF Accept, TypeInv, ConnTypes, Work
  <2>4. /\ DOMAIN activeRequests' \subseteq Socks
        /\ activeRequests' \in [DOMAIN activeRequests' -> Request]
    <3>1. [start |-> now, sent |-> 0, recv |-> 0, captured |-> FALSE] \in Request
      BY <2>1 DEF Request
    <3>. QED
      BY <1>2, <3>1 DEF Accept, TypeInv, ConnTypes, Put
  <2>. QED
    BY <1>1, <1>2, <2>2, <2>3, <2>4 DEF Accept, TypeInv, ConnTypes, CpuTypes, StampsPast, cpuVars
<1>3. CASE Connect(t, s)
  BY <1>1, <1>3 DEF Connect, TypeInv, ConnTypes, CpuTypes, StampsPast, cpuVars, requestVars
<1>4. CASE Send(t, s)
  <2>1. (CpuTypes /\ StampsPast)'
    BY <1>4, RegisterTypes DEF Send, TypeInv, CpuTypes, StampsPast, cpuVars
  <2>2. /\ DOMAIN activeRequests' \subseteq Socks
        /\ activeRequests' \in [DOMAIN activeRequests' -> Request]
    BY <1>4, SMTT(30) DEF Send, TypeInv, ConnTypes, Request
  <2>3. work' \in [Conn -> Work]
    BY <1>4 DEF Send, TypeInv, ConnTypes, Work
  <2>. QED
    BY <1>1, <1>4, <2>1, <2>2, <2>3 DEF Send, TypeInv, ConnTypes
<1>. QED
  BY <1>2, <1>3, <1>4

\* A system call begins.
LEMMA EnterStep ==
    ASSUME TypeInv, NEW t \in Threads, NEW c \in Call, EnterCall(t, c)
    PROVE  TypeInv'
<1>1. CallTypes'
  BY Numbers DEF EnterCall, TypeInv, CallTypes
<1>. QED
  BY <1>1 DEF EnterCall, TypeInv, ClockTypes, ConnTypes, CpuTypes, StampsPast, requestVars, cpuVars

\* tcp_recvmsg is entered.
LEMMA RecvEntryStep ==
    ASSUME TypeInv, NEW t \in Threads, RecvEntry(t)
    PROVE  TypeInv'
<1>1. /\ call[t] \in [kind : SocketReads, at : {"entered", "receiving"}, sock : Socks]
      /\ call[t].sock \in Socks
  BY CallStages DEF RecvEntry, Reading, TypeInv
<1>2. CallTypes'
  <2>1. [call[t] EXCEPT !.at = "receiving"] \in Call
    BY <1>1 DEF Call
  <2>2. call' = [call EXCEPT ![t] = [call[t] EXCEPT !.at = "receiving"]]
    BY DEF RecvEntry
  <2>. QED
    BY <1>1, <2>1, <2>2 DEF RecvEntry, TypeInv, CallTypes
<1>3. (CpuTypes /\ StampsPast)'
  BY <1>1, RegisterTypes DEF RecvEntry, TypeInv, CpuTypes, StampsPast, cpuVars
<1>4. ConnTypes'
  <2>1. work' \in [Conn -> Work]
    BY DEF RecvEntry, TypeInv, ConnTypes, Work
  <2>. QED
    BY <2>1 DEF RecvEntry, TypeInv, ConnTypes
<1>. QED
  BY <1>2, <1>3, <1>4 DEF RecvEntry, TypeInv, ClockTypes

\* tcp_recvmsg returns.
LEMMA RecvReturnStep ==
    ASSUME TypeInv, NEW t \in Threads, NEW bytes \in {0, 1}, NEW http \in BOOLEAN,
           RecvReturn(t, bytes, http), conn[call[t].sock] # None
    PROVE  TypeInv'
<1>. DEFINE c == conn[call[t].sock]
<1>1. call[t].kind \in SocketReads /\ call[t].sock \in Socks
  BY CallStages DEF RecvReturn, Reading, TypeInv
<1>2. c \in Conn \cup {Outgoing}
  BY <1>1 DEF TypeInv, ConnTypes
<1>3. CallTypes'
  <2>1. call' = [call EXCEPT ![t] = [kind |-> call[t].kind, at |-> "returned", source |-> c,
                                     ret |-> bytes, http |-> http]]
    BY DEF RecvReturn
  <2>. HIDE DEF c
  <2>2. [kind |-> call[t].kind, at |-> "returned", source |-> c, ret |-> bytes, http |-> http] \in Call
    BY <1>1, <1>2 DEF Call
  <2>. QED
    BY <2>1, <2>2 DEF RecvReturn, TypeInv, CallTypes, recvVars
<1>4. ConnTypes'
  <2>1. work' \in [Conn -> Work]
    BY <1>2, SMTT(30) DEF RecvReturn, Received, TypeInv, ConnTypes, Work
  <2>2. /\ DOMAIN activeRequests' \subseteq Socks
        /\ activeRequests' \in [DOMAIN activeRequests' -> Request]
    BY DEF RecvReturn, TypeInv, ConnTypes, Request
  <2>. QED
    BY <2>1, <2>2 DEF RecvReturn, TypeInv, ConnTypes
<1>. QED
  BY <1>3, <1>4 DEF RecvReturn, TypeInv, ClockTypes, CpuTypes, StampsPast, cpuVars

\* A read ends.
LEMMA ExitStep ==
    ASSUME TypeInv, NEW t \in Threads,
           \/ ExitSocketRead(t) \/ ExitRecvmsg(t)
           \/ \E bytes \in {0, 1}, http \in BOOLEAN : ExitFileRead(t, bytes, http)
    PROVE  TypeInv'
<1>1. call' = [call EXCEPT ![t] = Idle] /\ UNCHANGED <<now, cpu, conn, calls, conns, used, events, work, cpuVars>>
  BY DEF ExitSocketRead, ExitRecvmsg, ExitFileRead, requestVars
<1>2. /\ recvArgs' \in {recvArgs, [recvArgs EXCEPT ![t] = None]}
      /\ recvUbuf' \in {recvUbuf, [recvUbuf EXCEPT ![t] = FALSE]}
  BY DEF ExitSocketRead, ExitRecvmsg, ExitFileRead, TryCaptureHeaders, ForgetRead, recvVars
<1>3. Idle \in Call
  BY DEF Call
<1>4. CallTypes'
  BY <1>1, <1>2, <1>3 DEF TypeInv, CallTypes
<1>5. \/ UNCHANGED <<sockHeaders, activeRequests>>
      \/ \E source \in Conn \cup {Outgoing, File} :
            /\ recvArgs[t] \in DOMAIN activeRequests
            /\ sockHeaders' \in {sockHeaders, [sockHeaders EXCEPT ![recvArgs[t]] = source]}
            /\ activeRequests' = [activeRequests EXCEPT ![recvArgs[t]].captured = TRUE]
  <2>1. CASE ExitSocketRead(t)
    <3>1. call[t].source \in Conn \cup {Outgoing}
      BY <2>1, CallStages DEF ExitSocketRead, Reading, TypeInv
    <3>. QED
      BY <2>1, <3>1 DEF ExitSocketRead, TryCaptureHeaders
  <2>2. CASE ExitRecvmsg(t)
    BY <2>2 DEF ExitRecvmsg, requestVars
  <2>3. ASSUME NEW bytes \in {0, 1}, NEW http \in BOOLEAN, ExitFileRead(t, bytes, http)
        PROVE  \/ UNCHANGED <<sockHeaders, activeRequests>>
               \/ /\ recvArgs[t] \in DOMAIN activeRequests
                  /\ sockHeaders' \in {sockHeaders, [sockHeaders EXCEPT ![recvArgs[t]] = File]}
                  /\ activeRequests' = [activeRequests EXCEPT ![recvArgs[t]].captured = TRUE]
    BY <2>3 DEF ExitFileRead, TryCaptureHeaders
  <2>. QED
    BY <2>1, <2>2, <2>3
<1>6. ConnTypes'
  <2>1. CASE UNCHANGED <<sockHeaders, activeRequests>>
    BY <1>1, <2>1 DEF TypeInv, ConnTypes
  <2>2. ASSUME NEW source \in Conn \cup {Outgoing, File},
               recvArgs[t] \in DOMAIN activeRequests,
               sockHeaders' \in {sockHeaders, [sockHeaders EXCEPT ![recvArgs[t]] = source]},
               activeRequests' = [activeRequests EXCEPT ![recvArgs[t]].captured = TRUE]
        PROVE  ConnTypes'
    <3>1. sockHeaders' \in [Socks -> Conn \cup {None, Outgoing, File}]
      BY <2>2 DEF TypeInv, ConnTypes
    <3>2. /\ DOMAIN activeRequests' \subseteq Socks
          /\ activeRequests' \in [DOMAIN activeRequests' -> Request]
      BY <2>2, ZenonT(30) DEF TypeInv, ConnTypes, Request
    <3>. QED
      BY <1>1, <3>1, <3>2 DEF TypeInv, ConnTypes
  <2>. QED
    BY <1>5, <2>1, <2>2
<1>. QED
  BY <1>1, <1>4, <1>6 DEF TypeInv, ClockTypes, CpuTypes, StampsPast, cpuVars

\* What a close reports.
LEMMA ClosedEventType ==
    ASSUME TypeInv, NEW t \in Threads, NEW s \in DOMAIN activeRequests, conn[s] \in Conn,
           activeRequests[s].start <= now
    PROVE  ClosedEvent(t, s) \in Event
<1>1. s \in Socks /\ activeRequests[s] \in Request /\ work[conn[s]] \in Work
      /\ sockHeaders[s] \in Conn \cup {None, Outgoing, File}
  BY DEF TypeInv, ConnTypes
<1>2. now - activeRequests[s].start \in Nat
  BY <1>1, Numbers DEF TypeInv, ClockTypes, Request
<1>. DEFINE accum == IF s \in DOMAIN sockCpu THEN sockCpu[s] ELSE NoTime
            time == [accum EXCEPT ![t] = @ + Slice(t)]
            really == [work[conn[s]] EXCEPT !.by = @ \cup {t}]
<1>3. time \in [Threads -> Nat]
  BY SliceNat DEF TypeInv, CpuTypes, NoTime
<1>4. really \in Work
  BY <1>1 DEF Work
<1>5. ClosedEvent(t, s) =
        [conn |-> conn[s], sock |-> s, closer |-> t, duration |-> now - activeRequests[s].start,
         cpu |-> time, sent |-> activeRequests[s].sent, recv |-> activeRequests[s].recv,
         header |-> sockHeaders[s], really |-> really]
  BY DEF ClosedEvent
<1>. HIDE DEF time, really
<1>. QED
  BY <1>1, <1>2, <1>3, <1>4, <1>5 DEF Event, Request

\* A socket is closed.
LEMMA CloseStep ==
    ASSUME TypeInv, NEW t \in Threads, NEW s \in Socks, Close(t, s),
           s \in DOMAIN activeRequests => conn[s] \in Conn /\ activeRequests[s].start <= now
    PROVE  TypeInv'
<1>1. ClockTypes' /\ CallTypes'
  BY DEF Close, TypeInv, ClockTypes, CallTypes, recvVars
<1>2. conn' \in [Socks -> Conn \cup {None, Outgoing}]
  BY DEF Close, TypeInv, ConnTypes
<1>3. CASE s \in DOMAIN activeRequests
  <2>1. events' \subseteq Event
    BY <1>3, ClosedEventType DEF Close, TypeInv, ConnTypes
  <2>2. /\ DOMAIN activeRequests' \subseteq Socks
        /\ activeRequests' \in [DOMAIN activeRequests' -> Request]
        /\ sockHeaders' \in [Socks -> Conn \cup {None, Outgoing, File}]
    BY <1>3 DEF Close, ForgetSocket, Restrict, TypeInv, ConnTypes
  <2>3. /\ DOMAIN sockCpu' \subseteq Socks
        /\ sockCpu' \in [DOMAIN sockCpu' -> [Threads -> Nat]]
        /\ charged' \in [Threads -> Nat]
    BY <1>3, SliceNat, SMTT(30) DEF Close, ForgetSocket, Restrict, TypeInv, CpuTypes
  <2>4. /\ tidToSock' = [tidToSock EXCEPT ![t] = None] /\ onTs' = [onTs EXCEPT ![t] = None]
        /\ UNCHANGED <<now, conns, work>>
    BY <1>3 DEF Close, ForgetSocket
  <2>5. CpuTypes' /\ StampsPast'
    BY <2>3, <2>4 DEF TypeInv, CpuTypes, StampsPast
  <2>. QED
    BY <1>1, <1>2, <2>1, <2>2, <2>4, <2>5 DEF TypeInv, ConnTypes
<1>4. CASE s \notin DOMAIN activeRequests
  BY <1>1, <1>2, <1>4 DEF Close, TypeInv, ConnTypes, CpuTypes, StampsPast, cpuVars
<1>. QED
  BY <1>3, <1>4

-----------------------------------------------------------------------------
\* Each connection has a socket of its own, which the tracker follows; what was closed
\* is reported once.
Open == {conn[s] : s \in Socks} \cap Conn

ConnsRight ==
    /\ DOMAIN activeRequests = {s \in Socks : conn[s] \in Conn}
    /\ \A s \in Socks : conn[s] \in Conn => conn[s] <= conns
    /\ \A s, u \in Socks : conn[s] \in Conn /\ conn[s] = conn[u] => s = u
    /\ \A s \in DOMAIN activeRequests : activeRequests[s].start <= now
    /\ \A e \in events : e.conn <= conns /\ \A s \in Socks : conn[s] # e.conn
    /\ \A c \in 1..conns : c \in Open \/ \E e \in events : e.conn = c

\* The events as a set of connections.
CountRight ==
    /\ IsFiniteSet(Open) /\ IsFiniteSet(events)
    /\ Cardinality(events) = conns - Cardinality(Open)

\* While a thread receives from a socket the socket stays open.
ReceivingRight ==
    \A t \in Threads : call[t].kind \in SocketReads /\ call[t].at # "returned" =>
        /\ conn[call[t].sock] # None
        /\ call[t].at = "receiving" => recvArgs[t] = call[t].sock

\* The bytes counted are those of the connection.
BytesRight ==
    /\ \A s \in DOMAIN activeRequests :
        /\ activeRequests[s].recv = work[conn[s]].recv
        /\ activeRequests[s].sent = work[conn[s]].sent
    /\ \A e \in events : e.recv = e.really.recv /\ e.sent = e.really.sent
    /\ \A c \in Conn : c > conns => work[c] = NoWork

ConnInv == TypeInv /\ ConnsRight /\ CountRight /\ ReceivingRight /\ BytesRight

\* Nothing is opened or closed.
LEMMA ConnsStutter ==
    ASSUME ConnInv, UNCHANGED <<conn, conns, events>>, now' \in Nat, now <= now',
           DOMAIN activeRequests' = DOMAIN activeRequests,
           \A s \in DOMAIN activeRequests : activeRequests'[s].start = activeRequests[s].start
    PROVE  (ConnsRight /\ CountRight)'
<1>1. \A s \in DOMAIN activeRequests : activeRequests[s].start <= now'
  BY Numbers DEF ConnInv, ConnsRight, TypeInv, ClockTypes, ConnTypes, Request
<1>. QED
  BY <1>1 DEF ConnInv, ConnsRight, CountRight, Open

\* A connection is accepted.
LEMMA AcceptKeeps ==
    ASSUME ConnInv, NEW t \in Threads, NEW s \in Socks, Accept(t, s)
    PROVE  ConnInv'
<1>. USE DEF ConnInv
<1>. DEFINE new == conns + 1
<1>1. TypeInv'
  BY UseStep
<1>2. /\ conn[s] = None /\ conns' = new /\ conn' = [conn EXCEPT ![s] = new]
      /\ new \in Conn /\ conns \in Nat /\ new \in Nat /\ now \in Nat
      /\ UNCHANGED <<now, call, events, recvArgs>>
  BY Numbers DEF Accept, TypeInv, ConnTypes, ClockTypes, Conn, recvVars
<1>3. /\ activeRequests' = Put(activeRequests, s, [start |-> now, sent |-> 0, recv |-> 0,
                                                    captured |-> FALSE])
      /\ work' = [work EXCEPT ![new].by = {t}]
  BY DEF Accept
<1>. HIDE DEF new
<1>4. /\ DOMAIN activeRequests' = DOMAIN activeRequests \cup {s}
      /\ activeRequests'[s].start = now /\ activeRequests'[s].sent = 0 /\ activeRequests'[s].recv = 0
      /\ \A u \in DOMAIN activeRequests : u # s => activeRequests'[u] = activeRequests[u]
  BY <1>3 DEF Put
<1>5. /\ conn'[s] = new
      /\ \A u \in Socks : u # s => conn'[u] = conn[u]
      /\ \A u \in Socks : conn[u] \in Conn => conn[u] < new
  BY <1>2, Numbers DEF TypeInv, ConnTypes, ConnsRight, new
<1>6. Open' = Open \cup {new} /\ new \notin Open
  BY <1>2, <1>5, Numbers DEF Open
<1>7. ConnsRight'
  <2>1. DOMAIN activeRequests' = {u \in Socks : conn'[u] \in Conn}
    BY <1>2, <1>4, <1>5, Numbers DEF ConnsRight
  <2>2. \A u \in Socks : conn'[u] \in Conn => conn'[u] <= new
    <3>1. ASSUME NEW u \in Socks, conn'[u] \in Conn PROVE conn'[u] <= new
      <4>1. CASE u = s
        <5>1. conn'[u] = new
          BY <1>5, <4>1
        <5>2. new <= new
          BY <1>2
        <5>. QED
          BY <5>1, <5>2
      <4>2. CASE u # s
        <5>1. conn'[u] = conn[u] /\ conn[u] \in Conn /\ conn[u] < new
          BY <1>5, <3>1, <4>2
        <5>2. conn[u] \in Nat /\ new \in Nat
          BY <1>2, <5>1, Numbers
        <5>. QED
          BY <5>1, <5>2
      <4>. QED
        BY <4>1, <4>2
    <3>. QED
      BY <3>1
  <2>3. \A u, v \in Socks : conn'[u] \in Conn /\ conn'[u] = conn'[v] => u = v
    BY <1>2, <1>5, Numbers DEF ConnsRight
  <2>4. \A u \in DOMAIN activeRequests' : activeRequests'[u].start <= now
    BY <1>2, <1>4 DEF ConnsRight
  <2>5. \A e \in events : e.conn <= new /\ \A u \in Socks : conn'[u] # e.conn
    <3>1. \A e \in events : e.conn \in Nat /\ e.conn <= conns
      BY Numbers DEF ConnsRight, TypeInv, ConnTypes, Event
    <3>. QED
      BY <1>2, <1>5, <3>1 DEF ConnsRight, new
  <2>6. \A c \in 1..new : c \in Open' \/ \E e \in events : e.conn = c
    <3>1. \A c \in 1..new : c \in 1..conns \/ c = new
      BY <1>2 DEF new
    <3>. QED
      BY <1>6, <3>1 DEF ConnsRight
  <2>. QED
    BY <1>2, <2>1, <2>2, <2>3, <2>4, <2>5, <2>6 DEF ConnsRight
<1>8. CountRight'
  <2>1. IsFiniteSet(Open') /\ Cardinality(Open') = Cardinality(Open) + 1
    BY <1>6, FS_AddElement DEF CountRight
  <2>2. Cardinality(Open) \in Nat
    BY FS_CardinalityType DEF CountRight
  <2>. QED
    BY <1>2, <2>1, <2>2 DEF CountRight, new
<1>9. ReceivingRight'
  BY <1>2, <1>5, CallStages, Numbers DEF ReceivingRight, TypeInv
<1>10. BytesRight'
  <2>1. work[new] = NoWork
    BY <1>2 DEF BytesRight, new
  <2>2. work'[new].sent = 0 /\ work'[new].recv = 0
    BY <1>2, <1>3, <2>1 DEF NoWork, TypeInv, ConnTypes
  <2>3. \A c \in Conn : c # new => work'[c] = work[c]
    BY <1>3 DEF TypeInv, ConnTypes
  <2>4. ASSUME NEW u \in DOMAIN activeRequests'
        PROVE  /\ activeRequests'[u].recv = work'[conn'[u]].recv
               /\ activeRequests'[u].sent = work'[conn'[u]].sent
    <3>1. CASE u = s
      BY <1>4, <1>5, <2>2, <3>1
    <3>2. CASE u # s
      <4>1. u \in DOMAIN activeRequests /\ conn'[u] = conn[u] /\ conn[u] \in Conn /\ conn[u] # new
        BY <1>2, <1>4, <1>5, <3>2, Numbers DEF ConnsRight
      <4>. QED
        BY <1>4, <2>3, <3>2, <4>1 DEF BytesRight
    <3>. QED
      BY <3>1, <3>2
  <2>5. \A c \in Conn : c > new => work'[c] = NoWork
    BY <1>2, <2>3, Numbers DEF BytesRight, new
  <2>. QED
    BY <1>2, <2>4, <2>5 DEF BytesRight
<1>. QED
  BY <1>1, <1>7, <1>8, <1>9, <1>10

\* The program makes a connection of its own.
LEMMA ConnectKeeps ==
    ASSUME ConnInv, NEW t \in Threads, NEW s \in Socks, Connect(t, s)
    PROVE  ConnInv'
<1>. USE DEF ConnInv
<1>1. TypeInv'
  BY UseStep
<1>2. /\ conn[s] = None /\ conn' = [conn EXCEPT ![s] = Outgoing]
      /\ UNCHANGED <<now, call, conns, activeRequests, events, work, recvArgs>>
  BY DEF Connect, requestVars, recvVars
<1>3. /\ conn'[s] = Outgoing /\ \A u \in Socks : u # s => conn'[u] = conn[u]
      /\ \A u \in Socks : conn'[u] \in Conn <=> conn[u] \in Conn
      /\ \A u \in Socks : conn[u] \in Conn => conn'[u] = conn[u]
  BY <1>2, Numbers DEF TypeInv, ConnTypes
<1>4. Open' = Open
  BY <1>3 DEF Open
<1>5. ConnsRight'
  <2>1. \A e \in events : \A u \in Socks : conn'[u] # e.conn
    BY <1>3, Numbers DEF ConnsRight, TypeInv, ConnTypes, Event
  <2>. QED
    BY <1>2, <1>3, <1>4, <2>1 DEF ConnsRight
<1>6. CountRight' /\ BytesRight'
  BY <1>2, <1>3, <1>4 DEF CountRight, BytesRight, ConnsRight
<1>7. ReceivingRight'
  BY <1>2, <1>3, CallStages, Numbers DEF ReceivingRight, TypeInv
<1>. QED
  BY <1>1, <1>5, <1>6, <1>7

\* A connection is closed, or a socket the tracker does not follow.
LEMMA CloseKeeps ==
    ASSUME ConnInv, NEW t \in Threads, NEW s \in Socks, Close(t, s)
    PROVE  ConnInv'
<1>. USE DEF ConnInv
<1>1. TypeInv'
  BY CloseStep DEF ConnsRight
<1>2. /\ conn' = [conn EXCEPT ![s] = None] /\ ~ InReceive(s)
      /\ UNCHANGED <<now, call, conns, work, recvArgs>>
  BY DEF Close, recvVars
<1>3. conn'[s] = None /\ \A u \in Socks : u # s => conn'[u] = conn[u]
  BY <1>2 DEF TypeInv, ConnTypes
<1>4. ReceivingRight'
  <2>1. \A u \in Threads : call[u].kind \in SocketReads /\ call[u].at # "returned" =>
            call[u].sock \in Socks /\ call[u].sock # s
    BY <1>2, CallStages DEF InReceive, TypeInv
  <2>. QED
    BY <1>2, <1>3, <2>1 DEF ReceivingRight
<1>5. CASE s \in DOMAIN activeRequests
  <2>1. /\ conn[s] \in Conn
        /\ events' = events \cup {ClosedEvent(t, s)}
        /\ activeRequests' = [u \in DOMAIN activeRequests \ {s} |-> activeRequests[u]]
    BY <1>5 DEF Close, ForgetSocket, Restrict, ConnsRight
  <2>. DEFINE ev == ClosedEvent(t, s)
  <2>2. /\ ev.conn = conn[s] /\ ev.recv = ev.really.recv /\ ev.sent = ev.really.sent
    <3>1. activeRequests[s].recv = work[conn[s]].recv /\ activeRequests[s].sent = work[conn[s]].sent
      BY <1>5 DEF BytesRight
    <3>2. work[conn[s]] \in Work
      BY <2>1 DEF TypeInv, ConnTypes
    <3>3. ev.conn = conn[s]
      BY DEF ClosedEvent
    <3>4. ev.recv = activeRequests[s].recv /\ ev.sent = activeRequests[s].sent
      BY DEF ClosedEvent
    <3>5. ev.really.recv = work[conn[s]].recv /\ ev.really.sent = work[conn[s]].sent
      BY <3>2 DEF ClosedEvent, Work
    <3>. QED
      BY <3>1, <3>3, <3>4, <3>5
  <2>. HIDE DEF ev
  <2>3. events' = events \cup {ev} /\ ev \notin events
    BY <2>1, <2>2 DEF ev, ConnsRight
  <2>4. Open' = Open \ {conn[s]} /\ conn[s] \in Open
    BY <1>3, <2>1, Numbers DEF Open, ConnsRight
  <2>5. ConnsRight'
    <3>1. DOMAIN activeRequests' = {u \in Socks : conn'[u] \in Conn}
      BY <1>3, <2>1, Numbers DEF ConnsRight
    <3>2. \A u \in Socks : conn'[u] \in Conn => u # s /\ conn'[u] = conn[u]
      BY <1>3, Numbers
    <3>3. \A e \in events' : e.conn <= conns /\ \A u \in Socks : conn'[u] # e.conn
      <4>1. ASSUME NEW e \in events PROVE e.conn <= conns /\ \A u \in Socks : conn'[u] # e.conn
        BY <1>3, Numbers DEF ConnsRight, TypeInv, ConnTypes, Event
      <4>2. ev.conn <= conns /\ \A u \in Socks : conn'[u] # ev.conn
        BY <1>3, <2>1, <2>2, Numbers DEF ConnsRight
      <4>. QED
        BY <2>3, <4>1, <4>2
    <3>4. \A c \in 1..conns : c \in Open' \/ \E e \in events' : e.conn = c
      BY <2>2, <2>3, <2>4 DEF ConnsRight
    <3>5. \A u \in DOMAIN activeRequests' : activeRequests'[u].start <= now
      BY <2>1 DEF ConnsRight
    <3>6. \A u, v \in Socks : conn'[u] \in Conn /\ conn'[u] = conn'[v] => u = v
      BY <3>2 DEF ConnsRight
    <3>. QED
      BY <1>2, <3>1, <3>2, <3>3, <3>4, <3>5, <3>6 DEF ConnsRight
  <2>6. CountRight'
    <3>1. conns \in Nat
      BY Numbers DEF TypeInv, ConnTypes
    <3>2. Cardinality(Open) \in Nat /\ Cardinality(Open') = Cardinality(Open) - 1 /\ IsFiniteSet(Open')
      BY <2>4, FS_RemoveElement, FS_CardinalityType DEF CountRight
    <3>3. Cardinality(events') = Cardinality(events) + 1 /\ IsFiniteSet(events')
      BY <2>3, FS_AddElement DEF CountRight
    <3>. QED
      BY <1>2, <3>1, <3>2, <3>3 DEF CountRight
  <2>7. BytesRight'
    <3>1. \A u \in DOMAIN activeRequests' :
            u \in DOMAIN activeRequests /\ activeRequests'[u] = activeRequests[u] /\ conn'[u] = conn[u]
      BY <1>3, <2>1 DEF ConnsRight
    <3>. QED
      BY <1>2, <2>2, <2>3, <3>1 DEF BytesRight
  <2>. QED
    BY <1>1, <1>4, <2>5, <2>6, <2>7
<1>6. CASE s \notin DOMAIN activeRequests
  <2>1. UNCHANGED <<events, activeRequests>> /\ conn[s] \notin Conn
    BY <1>6 DEF Close, ConnsRight
  <2>2. \A u \in Socks : /\ conn'[u] \in Conn <=> conn[u] \in Conn
                         /\ conn[u] \in Conn => conn'[u] = conn[u]
    BY <1>3, <2>1, Numbers
  <2>3. Open' = Open
    BY <2>2 DEF Open
  <2>4. \A e \in events : \A u \in Socks : conn'[u] # e.conn
    BY <1>3, Numbers DEF ConnsRight, TypeInv, ConnTypes, Event
  <2>5. ConnsRight'
    BY <1>2, <2>1, <2>2, <2>3, <2>4 DEF ConnsRight
  <2>6. CountRight' /\ BytesRight'
    BY <1>2, <2>1, <2>2, <2>3 DEF CountRight, BytesRight, ConnsRight
  <2>. QED
    BY <1>1, <1>4, <2>5, <2>6
<1>. QED
  BY <1>5, <1>6

\* A call on a socket that is open: nothing is opened or closed.
LEMMA SendKeeps ==
    ASSUME ConnInv, NEW t \in Threads, NEW s \in Socks, Send(t, s)
    PROVE  ConnInv'
<1>. USE DEF ConnInv
<1>1. TypeInv'
  BY UseStep
<1>2. UNCHANGED <<now, call, conn, conns, events, recvArgs>>
  BY DEF Send, recvVars
<1>3. ReceivingRight'
  BY <1>2 DEF ReceivingRight
<1>4. now \in Nat
  BY Numbers DEF TypeInv, ClockTypes
<1>5. CASE s \in DOMAIN activeRequests
  <2>1. /\ conn[s] \in Conn
        /\ activeRequests' = [activeRequests EXCEPT ![s].sent = @ + 1]
        /\ work' = [work EXCEPT ![conn[s]].by = @ \cup {t}, ![conn[s]].sent = @ + 1]
    BY <1>5 DEF Send, ConnsRight
  <2>2. /\ DOMAIN activeRequests' = DOMAIN activeRequests
        /\ \A u \in DOMAIN activeRequests : activeRequests'[u].start = activeRequests[u].start
    BY <2>1 DEF TypeInv, ConnTypes, Request
  <2>3. (ConnsRight /\ CountRight)'
    BY <1>2, <1>4, <2>2, ConnsStutter
  <2>4. /\ activeRequests'[s].sent = activeRequests[s].sent + 1
        /\ activeRequests'[s].recv = activeRequests[s].recv
        /\ \A u \in DOMAIN activeRequests : u # s => activeRequests'[u] = activeRequests[u]
    BY <1>5, <2>1 DEF TypeInv, ConnTypes, Request
  <2>5. work'[conn[s]].sent = work[conn[s]].sent + 1
    BY <2>1 DEF TypeInv, ConnTypes, Work
  <2>6. work'[conn[s]].recv = work[conn[s]].recv
    BY <2>1 DEF TypeInv, ConnTypes, Work
  <2>7. \A c \in Conn : c # conn[s] => work'[c] = work[c]
    BY <2>1 DEF TypeInv, ConnTypes
  <2>8. BytesRight'
    <3>1. \A c \in Conn : c > conns => work'[c] = NoWork
      BY <2>1, <2>7, Numbers DEF BytesRight, ConnsRight, TypeInv, ConnTypes
    <3>2. \A u \in DOMAIN activeRequests : u # s => conn[u] \in Conn /\ conn[u] # conn[s]
      BY <1>5, <2>1 DEF ConnsRight, TypeInv, ConnTypes
    <3>3. \A u \in DOMAIN activeRequests :
             /\ activeRequests'[u].recv = work'[conn[u]].recv
             /\ activeRequests'[u].sent = work'[conn[u]].sent
      BY <1>5, <2>4, <2>5, <2>6, <2>7, <3>2 DEF BytesRight
    <3>. QED
      BY <1>2, <2>2, <3>1, <3>3 DEF BytesRight
  <2>. QED
    BY <1>1, <1>3, <2>3, <2>8
<1>6. CASE s \notin DOMAIN activeRequests
  <2>1. UNCHANGED <<activeRequests, work>>
    BY <1>6 DEF Send
  <2>2. (ConnsRight /\ CountRight)'
    BY <1>2, <1>4, <2>1, ConnsStutter
  <2>. QED
    BY <1>1, <1>2, <1>3, <2>1, <2>2 DEF BytesRight
<1>. QED
  BY <1>5, <1>6

\* A read begins.
LEMMA EnterKeeps ==
    ASSUME ConnInv, NEW t \in Threads,
           EnterFileRead(t) \/ \E kind \in SocketReads, s \in Socks : EnterSocketRead(t, kind, s)
    PROVE  ConnInv'
<1>. USE DEF ConnInv
<1>1. PICK c \in Call : /\ EnterCall(t, c)
                        /\ c.kind \in SocketReads => c.at = "entered" /\ conn[c.sock] # None
  <2>1. CASE EnterFileRead(t)
    BY <2>1 DEF EnterFileRead, Call, SocketReads
  <2>2. ASSUME NEW kind \in SocketReads, NEW s \in Socks, EnterSocketRead(t, kind, s)
        PROVE  \E c \in Call : /\ EnterCall(t, c)
                               /\ c.kind \in SocketReads => c.at = "entered" /\ conn[c.sock] # None
    <3>. DEFINE c == [kind |-> kind, at |-> "entered", sock |-> s]
    <3>1. c \in Call /\ c.at = "entered" /\ c.sock = s
      BY DEF Call
    <3>2. EnterCall(t, c) /\ conn[s] # None
      BY <2>2 DEF EnterSocketRead
    <3>. HIDE DEF c
    <3>. QED
      BY <3>1, <3>2
  <2>. QED
    BY <2>1, <2>2
<1>2. TypeInv'
  BY <1>1, EnterStep
<1>3. /\ UNCHANGED <<now, conn, conns, requestVars, recvArgs>>
      /\ call' = [call EXCEPT ![t] = c]
  BY <1>1 DEF EnterCall
<1>4. (ConnsRight /\ CountRight /\ BytesRight)'
  BY <1>3, Numbers, ConnsStutter DEF requestVars, BytesRight, TypeInv, ClockTypes
<1>5. ReceivingRight'
  BY <1>1, <1>3 DEF ReceivingRight, TypeInv, CallTypes
<1>. QED
  BY <1>2, <1>4, <1>5

\* tcp_recvmsg is entered.
LEMMA RecvEntryKeeps ==
    ASSUME ConnInv, NEW t \in Threads, RecvEntry(t)
    PROVE  ConnInv'
<1>. USE DEF ConnInv
<1>1. TypeInv'
  BY RecvEntryStep
<1>2. /\ UNCHANGED <<now, conn, conns, activeRequests, events>>
      /\ recvArgs' = [recvArgs EXCEPT ![t] = call[t].sock]
      /\ call[t].kind \in SocketReads /\ call[t].at = "entered"
  BY DEF RecvEntry, Reading
<1>3. (ConnsRight /\ CountRight)'
  BY <1>2, Numbers, ConnsStutter DEF TypeInv, ClockTypes
<1>4. /\ call'[t].kind \in SocketReads /\ call'[t].at = "receiving" /\ call'[t].sock = call[t].sock
      /\ \A u \in Threads : u # t => call'[u] = call[u]
  <2>1. /\ call[t] \in [kind : SocketReads, at : {"entered", "receiving"}, sock : Socks]
        /\ call' = [call EXCEPT ![t].at = "receiving"]
    BY <1>2, CallStages DEF RecvEntry, TypeInv
  <2>. QED
    BY <2>1 DEF TypeInv, CallTypes
<1>5. ReceivingRight'
  <2>1. /\ conn[call[t].sock] # None /\ recvArgs'[t] = call[t].sock
    BY <1>2 DEF ReceivingRight, TypeInv, CallTypes
  <2>2. \A u \in Threads : u # t => recvArgs'[u] = recvArgs[u]
    BY <1>2 DEF TypeInv, CallTypes
  <2>. QED
    BY <1>2, <1>4, <2>1, <2>2 DEF ReceivingRight
<1>6. BytesRight'
  <2>1. CASE call[t].sock \in DOMAIN activeRequests
    <3>. DEFINE c == conn[call[t].sock]
    <3>1. c \in Conn /\ work' = [work EXCEPT ![c].by = @ \cup {t}]
      BY <2>1 DEF RecvEntry, ConnsRight
    <3>. HIDE DEF c
    <3>2. \A d \in Conn : work'[d].recv = work[d].recv /\ work'[d].sent = work[d].sent
      BY <3>1 DEF TypeInv, ConnTypes, Work
    <3>3. \A d \in Conn : d > conns => work'[d] = work[d]
      BY <2>1, <3>1, Numbers DEF ConnsRight, TypeInv, ConnTypes, c
    <3>. QED
      BY <1>2, <3>2, <3>3 DEF BytesRight, ConnsRight
  <2>2. CASE call[t].sock \notin DOMAIN activeRequests
    BY <1>2, <2>2 DEF RecvEntry, BytesRight
  <2>. QED
    BY <2>1, <2>2
<1>. QED
  BY <1>1, <1>3, <1>5, <1>6

\* tcp_recvmsg returns, with bytes or without.
LEMMA RecvReturnKeeps ==
    ASSUME ConnInv, NEW t \in Threads, NEW bytes \in {0, 1}, NEW http \in BOOLEAN,
           RecvReturn(t, bytes, http)
    PROVE  ConnInv'
<1>. USE DEF ConnInv
<1>. DEFINE s == call[t].sock
            c == conn[s]
<1>1. /\ call[t].kind \in SocketReads /\ call[t].at = "receiving" /\ s \in Socks
      /\ recvArgs[t] = s /\ c \in Conn \cup {Outgoing}
      /\ UNCHANGED <<now, conn, conns, events, recvArgs>>
  BY CallStages DEF RecvReturn, Reading, TypeInv, ConnTypes, ReceivingRight, recvVars
<1>2. TypeInv'
  BY <1>1, Numbers, RecvReturnStep
<1>3. now \in Nat
  BY Numbers DEF TypeInv, ClockTypes
<1>4. ReceivingRight'
  <2>1. /\ call'[t].at = "returned"
        /\ \A u \in Threads : u # t => call'[u] = call[u]
    BY DEF RecvReturn, TypeInv, CallTypes
  <2>. QED
    BY <1>1, <2>1 DEF ReceivingRight
<1>5. CASE bytes > 0 /\ s \in DOMAIN activeRequests
  <2>1. /\ c \in Conn /\ work' = [work EXCEPT ![c].recv = @ + 1]
        /\ activeRequests' = [activeRequests EXCEPT ![s].recv = @ + 1]
    BY <1>1, <1>5, Numbers DEF RecvReturn, Received, ConnsRight
  <2>. HIDE DEF s, c
  <2>2. /\ DOMAIN activeRequests' = DOMAIN activeRequests
        /\ \A u \in DOMAIN activeRequests : activeRequests'[u].start = activeRequests[u].start
    BY <2>1 DEF TypeInv, ConnTypes, Request
  <2>3. (ConnsRight /\ CountRight)'
    BY <1>1, <1>3, <2>2, ConnsStutter
  <2>4. /\ activeRequests'[s].recv = activeRequests[s].recv + 1
        /\ activeRequests'[s].sent = activeRequests[s].sent
        /\ \A u \in DOMAIN activeRequests : u # s => activeRequests'[u] = activeRequests[u]
    BY <1>5, <2>1 DEF TypeInv, ConnTypes, Request
  <2>5. /\ work'[c].recv = work[c].recv + 1 /\ work'[c].sent = work[c].sent
        /\ \A d \in Conn : d # c => work'[d] = work[d]
    BY <2>1 DEF TypeInv, ConnTypes, Work
  <2>6. BytesRight'
    <3>1. c <= conns
      BY <1>5, <2>1 DEF ConnsRight, c, TypeInv, ConnTypes
    <3>2. \A d \in Conn : d > conns => work'[d] = NoWork
      BY <2>1, <2>5, <3>1, Numbers DEF BytesRight, TypeInv, ConnTypes
    <3>3. \A u \in DOMAIN activeRequests : u # s => conn[u] \in Conn /\ conn[u] # c
      BY <1>5, <2>1 DEF ConnsRight, TypeInv, ConnTypes, c
    <3>4. \A u \in DOMAIN activeRequests :
             /\ activeRequests'[u].recv = work'[conn[u]].recv
             /\ activeRequests'[u].sent = work'[conn[u]].sent
      BY <1>5, <2>4, <2>5, <3>3 DEF BytesRight, c
    <3>. QED
      BY <1>1, <2>2, <3>2, <3>4 DEF BytesRight
  <2>. QED
    BY <1>2, <1>4, <2>3, <2>6
<1>6. CASE ~ (bytes > 0 /\ s \in DOMAIN activeRequests)
  <2>1. UNCHANGED <<activeRequests, work>>
    BY <1>1, <1>6 DEF RecvReturn, Received, ConnsRight
  <2>2. (ConnsRight /\ CountRight)'
    BY <1>1, <1>3, <2>1, ConnsStutter
  <2>. QED
    BY <1>1, <1>2, <1>4, <2>1, <2>2 DEF BytesRight
<1>. QED
  BY <1>5, <1>6

\* A read ends.
LEMMA ExitKeeps ==
    ASSUME ConnInv, NEW t \in Threads,
           \/ ExitSocketRead(t) \/ ExitRecvmsg(t)
           \/ \E bytes \in {0, 1}, http \in BOOLEAN : ExitFileRead(t, bytes, http)
    PROVE  ConnInv'
<1>. USE DEF ConnInv
<1>1. TypeInv'
  BY ExitStep
<1>2. call' = [call EXCEPT ![t] = Idle] /\ UNCHANGED <<now, conn, conns, events, work>>
  BY DEF ExitSocketRead, ExitRecvmsg, ExitFileRead, requestVars
<1>3. \A u \in Threads : u # t => recvArgs'[u] = recvArgs[u]
  BY DEF ExitSocketRead, ExitRecvmsg, ExitFileRead, TryCaptureHeaders, ForgetRead, recvVars,
         TypeInv, CallTypes
<1>4. \/ activeRequests' = activeRequests
      \/ activeRequests' = [activeRequests EXCEPT ![recvArgs[t]].captured = TRUE]
  BY DEF ExitSocketRead, ExitRecvmsg, ExitFileRead, TryCaptureHeaders, requestVars
<1>5. /\ DOMAIN activeRequests' = DOMAIN activeRequests
      /\ \A u \in DOMAIN activeRequests : /\ activeRequests'[u].start = activeRequests[u].start
                                          /\ activeRequests'[u].recv = activeRequests[u].recv
                                          /\ activeRequests'[u].sent = activeRequests[u].sent
  BY <1>4 DEF TypeInv, ConnTypes, Request
<1>6. (ConnsRight /\ CountRight)'
  BY <1>2, <1>5, Numbers, ConnsStutter DEF TypeInv, ClockTypes
<1>7. BytesRight'
  BY <1>2, <1>5 DEF BytesRight
<1>8. ReceivingRight'
  <2>1. call'[t] = Idle /\ \A u \in Threads : u # t => call'[u] = call[u]
    BY <1>2 DEF TypeInv, CallTypes
  <2>2. Idle.kind \notin SocketReads
    BY DEF Idle, SocketReads
  <2>. QED
    BY <1>2, <1>3, <2>1, <2>2 DEF ReceivingRight
<1>. QED
  BY <1>1, <1>6, <1>7, <1>8

-----------------------------------------------------------------------------
\* The invariant holds before the probes run.
LEMMA ConnInitInv == Init => ConnInv
<1>. SUFFICES ASSUME Init PROVE ConnInv
  OBVIOUS
<1>1. TypeInv
  <2>1. ClockTypes /\ CpuTypes /\ StampsPast
    BY Numbers DEF Init, ClockTypes, CpuTypes, StampsPast, NoTime
  <2>2. CallTypes
    BY Numbers DEF Init, CallTypes, Call
  <2>3. ConnTypes
    BY Numbers DEF Init, ConnTypes, NoWork, Work
  <2>. QED
    BY <2>1, <2>2, <2>3 DEF TypeInv
<1>2. Open = {} /\ \A s \in Socks : conn[s] \notin Conn
  BY Numbers DEF Init, Open
<1>3. ConnsRight /\ CountRight /\ BytesRight
  BY <1>2, FS_EmptySet DEF Init, ConnsRight, CountRight, BytesRight
<1>4. ReceivingRight
  BY DEF Init, ReceivingRight, Idle, SocketReads
<1>. QED
  BY <1>1, <1>3, <1>4 DEF ConnInv

\* It is inductive.
LEMMA ConnStep ==
    ASSUME ConnInv, [Next]_vars
    PROVE  ConnInv'
<1>1. CASE UNCHANGED vars
  BY <1>1 DEF vars, requestVars, cpuVars, recvVars, ConnInv, TypeInv, ClockTypes, CallTypes,
     ConnTypes, CpuTypes, StampsPast, ConnsRight, CountRight, ReceivingRight, BytesRight, Open
<1>2. CASE Tick \/ \E c \in Cpus, next \in Threads \cup {None} : Switch(c, next)
  <2>1. TypeInv'
    BY <1>2, ClockStep DEF ConnInv
  <2>2. UNCHANGED <<conn, call, conns, activeRequests, events, work, recvArgs>>
    BY <1>2 DEF Tick, Switch, requestVars, recvVars
  <2>3. now \in Nat /\ now' \in Nat /\ now <= now'
    BY <1>2, Numbers DEF Tick, Switch, ConnInv, TypeInv, ClockTypes
  <2>4. (ConnsRight /\ CountRight)'
    BY <2>2, <2>3, ConnsStutter
  <2>. QED
    BY <2>1, <2>2, <2>4 DEF ConnInv, ReceivingRight, BytesRight
<1>3. ASSUME NEW t \in Threads, NEW s \in Socks,
             Accept(t, s) \/ Connect(t, s) \/ Send(t, s) \/ Close(t, s)
      PROVE  ConnInv'
  BY <1>3, AcceptKeeps, ConnectKeeps, SendKeeps, CloseKeeps
<1>4. ASSUME NEW t \in Threads,
             EnterFileRead(t) \/ \E kind \in SocketReads, s \in Socks : EnterSocketRead(t, kind, s)
      PROVE  ConnInv'
  BY <1>4, EnterKeeps
<1>5. ASSUME NEW t \in Threads, RecvEntry(t) PROVE ConnInv'
  BY <1>5, RecvEntryKeeps
<1>6. ASSUME NEW t \in Threads, NEW bytes \in {0, 1}, NEW http \in BOOLEAN,
             RecvReturn(t, bytes, http)
      PROVE  ConnInv'
  BY <1>6, RecvReturnKeeps
<1>7. ASSUME NEW t \in Threads,
             \/ ExitSocketRead(t) \/ ExitRecvmsg(t)
             \/ \E bytes \in {0, 1}, http \in BOOLEAN : ExitFileRead(t, bytes, http)
      PROVE  ConnInv'
  BY <1>7, ExitKeeps
<1>. QED
  BY <1>1, <1>2, <1>3, <1>4, <1>5, <1>6, <1>7 DEF Next

\* Types, one socket per open connection, one event per closed one, and its bytes.
THEOREM ConnInvariant == Spec => []ConnInv
  BY ConnInitInv, ConnStep, PTL DEF Spec

\* The maps of the tracker keep their types.
THEOREM RequestTypeCorrect == Spec => []RequestTypeOK
<1>1. ConnInv => RequestTypeOK
  BY DEF ConnInv, TypeInv, ClockTypes, CallTypes, ConnTypes, CpuTypes, RequestTypeOK
<1>. QED
  BY <1>1, ConnInvariant, PTL

\* Every connection accepted is followed, or closed and reported by exactly one event.
THEOREM EveryConnectionAccountedCorrect == Spec => []EveryConnectionAccounted
<1>1. ASSUME ConnInv PROVE EveryConnectionAccounted
  <2>1. \A e \in events : e.conn \in 1..conns /\ e.conn \notin Open
    BY <1>1, Numbers DEF ConnInv, TypeInv, ConnTypes, ConnsRight, Open, Event, Conn
  <2>2. {e.conn : e \in events} = (1..conns) \ Open
    BY <1>1, <2>1 DEF ConnInv, ConnsRight
  <2>. QED
    BY <1>1, <2>2 DEF ConnInv, ConnsRight, CountRight, EveryConnectionAccounted, Open
<1>. QED
  BY <1>1, ConnInvariant, PTL

\* The bytes reported of a connection are its own.
THEOREM BytesAreOwnCorrect == Spec => []BytesAreOwn
<1>1. ConnInv => BytesAreOwn
  BY DEF ConnInv, BytesRight, BytesAreOwn
<1>. QED
  BY <1>1, ConnInvariant, PTL

-----------------------------------------------------------------------------
(* Whose CPU time a connection is charged for. *)

\* A thread that uses the open connection of s, or is left over from a closed one.
Uses(t, s) == conn[s] \in Conn /\ t \in work[conn[s]].by
LeftAt(t, s, x) == x.sock = s /\ t \in x.really.by /\ t # x.closer
Explained(t, s) == Uses(t, s) \/ \E x \in events : LeftAt(t, s, x)

ChargesRight ==
    /\ DOMAIN sockCpu \subseteq DOMAIN activeRequests
    /\ \A x \in events : \A s \in Socks : x.sock = s /\ conn[s] \in Conn => x.conn < conn[s]
    /\ \A t \in Threads : \A s \in Socks : tidToSock[t] = s => Explained(t, s)
    /\ \A s \in DOMAIN sockCpu : \A t \in Threads : sockCpu[s][t] > 0 => Explained(t, s)
    /\ ChargedToUsersOrLeftovers

\* What explains a charge stays, unless a socket is closed.
LEMMA ChargesKept ==
    ASSUME ConnInv, ConnInv', ChargesRight, UNCHANGED events,
           \A s \in Socks : conn[s] \in Conn => conn'[s] = conn[s],
           \A s \in Socks : conn'[s] \in Conn => conn'[s] = conn[s] \/ conn'[s] > conns,
           \A c \in Conn : work[c].by \subseteq work'[c].by,
           DOMAIN sockCpu' \subseteq DOMAIN activeRequests',
           \A t \in Threads : \A s \in Socks :
                tidToSock'[t] = s => tidToSock[t] = s \/ Uses(t, s)',
           \A s \in DOMAIN sockCpu' : \A t \in Threads :
                sockCpu'[s][t] > 0 => Explained(t, s)
    PROVE  ChargesRight'
<1>1. \A t \in Threads : \A s \in Socks : Explained(t, s) => Explained(t, s)'
  BY DEF Explained, Uses, LeftAt
<1>2. \A x \in events : \A s \in Socks : x.sock = s /\ conn'[s] \in Conn => x.conn < conn'[s]
  <2>1. \A x \in events : x.conn \in Nat /\ x.conn <= conns
    BY Numbers DEF ConnInv, ConnsRight, TypeInv, ConnTypes, Event
  <2>2. conns \in Nat
    BY Numbers DEF ConnInv, TypeInv, ConnTypes
  <2>. QED
    BY <2>1, <2>2, Numbers DEF ChargesRight
<1>3. \A t \in Threads : \A s \in Socks : tidToSock'[t] = s => Explained(t, s)'
  BY <1>1 DEF ChargesRight, Explained
<1>4. \A s \in DOMAIN sockCpu' : \A t \in Threads : sockCpu'[s][t] > 0 => Explained(t, s)'
  <2>1. DOMAIN sockCpu' \subseteq Socks
    BY DEF ConnInv, TypeInv, CpuTypes
  <2>. QED
    BY <1>1, <2>1
<1>. QED
  BY <1>2, <1>3, <1>4 DEF ChargesRight, ChargedToUsersOrLeftovers

\* A thread is registered for a connection it uses.
LEMMA RegisterCharges ==
    ASSUME ConnInv, ConnInv', ChargesRight, NEW t \in Threads, NEW s \in DOMAIN activeRequests,
           RegisterThread(t, s), UNCHANGED <<conn, conns, events>>,
           DOMAIN activeRequests' = DOMAIN activeRequests,
           \A c \in Conn : work[c].by \subseteq work'[c].by, t \in work'[conn[s]].by
    PROVE  ChargesRight'
<1>1. s \in Socks /\ conn[s] \in Conn
  BY DEF ConnInv, ConnsRight
<1>2. Uses(t, s)'
  BY <1>1 DEF Uses
<1>3. tidToSock' = tidToSock \/ tidToSock' = [tidToSock EXCEPT ![t] = s]
  BY DEF RegisterThread, cpuVars
<1>4. \A u \in Threads : \A v \in Socks : tidToSock'[u] = v => tidToSock[u] = v \/ Uses(u, v)'
  BY <1>2, <1>3 DEF ConnInv, TypeInv, CpuTypes
<1>5. /\ DOMAIN sockCpu' \subseteq DOMAIN sockCpu \cup {s}
      /\ \A v \in DOMAIN sockCpu' : \A u \in Threads :
            (v \in DOMAIN sockCpu /\ sockCpu'[v] = sockCpu[v]) \/ sockCpu'[v][u] = 0
  BY DEF RegisterThread, cpuVars, Put, NoTime
<1>6. \A v \in DOMAIN sockCpu' : \A u \in Threads : sockCpu'[v][u] > 0 => Explained(u, v)
  BY <1>5 DEF ChargesRight
<1>7. DOMAIN sockCpu' \subseteq DOMAIN activeRequests'
  BY <1>5 DEF ChargesRight
<1>. QED
  BY <1>4, <1>6, <1>7, ChargesKept

\* A slice goes to the socket the thread is registered for.
LEMMA SwitchCharges ==
    ASSUME ConnInv, ConnInv', ChargesRight, NEW c \in Cpus, NEW next \in Threads \cup {None},
           Switch(c, next)
    PROVE  ChargesRight'
<1>. DEFINE prev == cpu[c]
            s == IF prev = None THEN None ELSE tidToSock[prev]
<1>1. UNCHANGED <<conn, conns, events, work, activeRequests, tidToSock>> /\ ChargeSlice(prev, s)
  BY DEF Switch, requestVars
<1>2. DOMAIN sockCpu' = DOMAIN sockCpu
  BY <1>1 DEF ChargeSlice
<1>3. ASSUME NEW v \in DOMAIN sockCpu, NEW u \in Threads, sockCpu'[v][u] > 0
      PROVE  Explained(u, v)
  <2>1. CASE u = prev /\ v = s /\ prev \in Threads
    <3>1. tidToSock[u] = v /\ v \in Socks
      BY <2>1, Numbers DEF ConnInv, TypeInv, CpuTypes
    <3>. QED
      BY <3>1 DEF ChargesRight
  <2>2. CASE ~ (u = prev /\ v = s /\ prev \in Threads)
    <3>1. sockCpu'[v][u] = sockCpu[v][u]
      BY <1>1, <2>2 DEF ChargeSlice, ConnInv, TypeInv, CpuTypes
    <3>. QED
      BY <1>3, <3>1 DEF ChargesRight
  <2>. QED
    BY <2>1, <2>2
<1>4. DOMAIN sockCpu' \subseteq DOMAIN activeRequests'
  BY <1>1, <1>2 DEF ChargesRight
<1>. QED
  BY <1>1, <1>2, <1>3, <1>4, ChargesKept

\* The event of a close explains what it charges, and the registrations it leaves.
LEMMA CloseCharges ==
    ASSUME ConnInv, ConnInv', ChargesRight, NEW t \in Threads, NEW s \in Socks, Close(t, s)
    PROVE  ChargesRight'
<1>1. conn' = [conn EXCEPT ![s] = None] /\ UNCHANGED <<conns, work>>
  BY DEF Close
<1>2. conn'[s] = None /\ \A u \in Socks : u # s => conn'[u] = conn[u]
  BY <1>1 DEF ConnInv, TypeInv, ConnTypes
<1>3. CASE s \in DOMAIN activeRequests
  <2>. DEFINE ev == ClosedEvent(t, s)
              accum == IF s \in DOMAIN sockCpu THEN sockCpu[s] ELSE NoTime
  <2>1. /\ events' = events \cup {ev}
        /\ activeRequests' = [u \in DOMAIN activeRequests \ {s} |-> activeRequests[u]]
        /\ sockCpu' = [u \in DOMAIN sockCpu \ {s} |-> sockCpu[u]]
        /\ tidToSock' = [tidToSock EXCEPT ![t] = None]
        /\ conn[s] \in Conn
    BY <1>3 DEF Close, ForgetSocket, Restrict, ConnInv, ConnsRight
  <2>2. /\ ev.conn = conn[s] /\ ev.sock = s /\ ev.closer = t
        /\ ev.cpu = [accum EXCEPT ![t] = @ + Slice(t)]
    BY DEF ClosedEvent
  <2>3. ev.really.by = work[conn[s]].by \cup {t}
    <3>1. work[conn[s]] \in Work
      BY <2>1 DEF ConnInv, TypeInv, ConnTypes
    <3>. QED
      BY <3>1 DEF ClosedEvent, Work
  <2>4. \A u \in Threads : u # t => ev.cpu[u] = accum[u]
    BY <2>2 DEF ConnInv, TypeInv, CpuTypes, NoTime
  <2>. HIDE DEF ev
  <2>5. ASSUME NEW u \in Threads, NEW v \in Socks, Explained(u, v), u # t \/ v # s
        PROVE  Explained(u, v)'
    <3>1. CASE Uses(u, v) /\ v # s
      <4>1. Uses(u, v)'
        BY <1>1, <1>2, <3>1 DEF Uses
      <4>. QED
        BY <4>1 DEF Explained
    <3>2. CASE Uses(u, v) /\ v = s
      <4>1. LeftAt(u, v, ev)
        BY <2>2, <2>3, <2>5, <3>2 DEF LeftAt, Uses
      <4>. QED
        BY <2>1, <4>1 DEF Explained, LeftAt
    <3>3. CASE \E x \in events : LeftAt(u, v, x)
      BY <2>1, <3>3 DEF Explained, LeftAt
    <3>. QED
      BY <2>5, <3>1, <3>2, <3>3 DEF Explained
  <2>6. DOMAIN sockCpu' \subseteq DOMAIN activeRequests'
    BY <2>1 DEF ChargesRight
  <2>7. \A x \in events' : \A v \in Socks : x.sock = v /\ conn'[v] \in Conn => x.conn < conn'[v]
    BY <1>2, <2>1, <2>2, Numbers DEF ChargesRight
  <2>8. \A u \in Threads : \A v \in Socks : tidToSock'[u] = v => Explained(u, v)'
    <3>1. \A u \in Threads : \A v \in Socks : tidToSock'[u] = v => u # t /\ tidToSock[u] = v
      BY <2>1, Numbers DEF ConnInv, TypeInv, CpuTypes
    <3>. QED
      BY <2>5, <3>1 DEF ChargesRight
  <2>9. \A v \in DOMAIN sockCpu' : \A u \in Threads : sockCpu'[v][u] > 0 => Explained(u, v)'
    <3>1. \A v \in DOMAIN sockCpu' : /\ v # s /\ v \in DOMAIN sockCpu /\ v \in Socks
                                     /\ sockCpu'[v] = sockCpu[v]
      BY <2>1 DEF ConnInv, TypeInv, CpuTypes
    <3>. QED
      BY <2>5, <3>1 DEF ChargesRight
  <2>10. ASSUME NEW e \in events', NEW u \in Threads, e.cpu[u] > 0
         PROVE  \/ u \in e.really.by
                \/ \E x \in events' : /\ x.sock = e.sock /\ x.conn < e.conn
                                      /\ u \in x.really.by /\ u # x.closer
    <3>1. CASE e \in events
      BY <2>1, <2>10, <3>1 DEF ChargesRight, ChargedToUsersOrLeftovers
    <3>2. CASE e = ev /\ u = t
      BY <2>3, <3>2
    <3>3. CASE e = ev /\ u # t
      <4>1. s \in DOMAIN sockCpu /\ sockCpu[s][u] > 0
        BY <2>4, <2>10, <3>3 DEF NoTime
      <4>2. Explained(u, s)
        BY <4>1 DEF ChargesRight
      <4>3. CASE Uses(u, s)
        BY <2>3, <3>3, <4>3 DEF Uses
      <4>4. ASSUME NEW x \in events, LeftAt(u, s, x)
            PROVE  x.sock = e.sock /\ x.conn < e.conn /\ u \in x.really.by /\ u # x.closer
        BY <2>1, <2>2, <3>3, <4>4 DEF LeftAt, ChargesRight
      <4>. QED
        BY <2>1, <4>2, <4>3, <4>4 DEF Explained
    <3>. QED
      BY <2>1, <3>1, <3>2, <3>3
  <2>. QED
    BY <2>6, <2>7, <2>8, <2>9, <2>10 DEF ChargesRight, ChargedToUsersOrLeftovers
<1>4. CASE s \notin DOMAIN activeRequests
  <2>1. UNCHANGED <<events, activeRequests, tidToSock, sockCpu>> /\ conn[s] \notin Conn
    BY <1>4 DEF Close, cpuVars, ConnInv, ConnsRight
  <2>2. /\ \A u \in Socks : conn[u] \in Conn => conn'[u] = conn[u]
        /\ \A u \in Socks : conn'[u] \in Conn => conn'[u] = conn[u]
    BY <1>2, <2>1, Numbers
  <2>3. DOMAIN sockCpu' \subseteq DOMAIN activeRequests'
    BY <2>1 DEF ChargesRight
  <2>4. \A v \in DOMAIN sockCpu' : \A u \in Threads : sockCpu'[v][u] > 0 => Explained(u, v)
    BY <2>1 DEF ChargesRight
  <2>. QED
    BY <1>1, <2>1, <2>2, <2>3, <2>4, ChargesKept
<1>. QED
  BY <1>3, <1>4

\* The other steps charge nothing.
LEMMA QuietCharges ==
    ASSUME ConnInv, ConnInv', ChargesRight, UNCHANGED <<events, tidToSock, sockCpu>>,
           \A s \in Socks : conn[s] \in Conn => conn'[s] = conn[s],
           \A s \in Socks : conn'[s] \in Conn => conn'[s] = conn[s] \/ conn'[s] > conns,
           \A c \in Conn : work[c].by \subseteq work'[c].by,
           DOMAIN activeRequests \subseteq DOMAIN activeRequests'
    PROVE  ChargesRight'
<1>1. DOMAIN sockCpu' \subseteq DOMAIN activeRequests'
  BY DEF ChargesRight
<1>2. \A v \in DOMAIN sockCpu' : \A u \in Threads : sockCpu'[v][u] > 0 => Explained(u, v)
  BY DEF ChargesRight
<1>. QED
  BY <1>1, <1>2, ChargesKept

\* Every step keeps the charges explained.
LEMMA ChargesStep ==
    ASSUME ConnInv, ConnInv', ChargesRight, [Next]_vars
    PROVE  ChargesRight'
<1>1. CASE UNCHANGED vars
  BY <1>1, QuietCharges DEF vars, requestVars, cpuVars
<1>2. CASE Tick
  BY <1>2, QuietCharges DEF Tick, requestVars, cpuVars
<1>3. ASSUME NEW c \in Cpus, NEW next \in Threads \cup {None}, Switch(c, next)
      PROVE  ChargesRight'
  BY <1>3, SwitchCharges
<1>4. ASSUME NEW t \in Threads, NEW s \in Socks, Accept(t, s) PROVE ChargesRight'
  <2>1. /\ conn[s] = None /\ conns' = conns + 1 /\ conn' = [conn EXCEPT ![s] = conns + 1]
        /\ work' = [work EXCEPT ![conns + 1].by = {t}]
        /\ UNCHANGED <<events, tidToSock, sockCpu>>
        /\ DOMAIN activeRequests \subseteq DOMAIN activeRequests'
    BY <1>4 DEF Accept, cpuVars, Put
  <2>2. conns \in Nat /\ conns + 1 > conns
    BY Numbers DEF ConnInv, TypeInv, ConnTypes
  <2>3. /\ \A u \in Socks : conn[u] \in Conn => conn'[u] = conn[u]
        /\ \A u \in Socks : conn'[u] \in Conn => conn'[u] = conn[u] \/ conn'[u] > conns
    BY <2>1, <2>2, Numbers DEF ConnInv, TypeInv, ConnTypes
  <2>4. \A c \in Conn : work[c].by \subseteq work'[c].by
    <3>1. \A c \in Conn : c # conns + 1 => work'[c] = work[c]
      BY <2>1 DEF ConnInv, TypeInv, ConnTypes
    <3>2. conns + 1 \in Conn => work[conns + 1].by = {}
      BY <2>2 DEF ConnInv, BytesRight, NoWork
    <3>. QED
      BY <3>1, <3>2
  <2>. QED
    BY <2>1, <2>3, <2>4, QuietCharges
<1>5. ASSUME NEW t \in Threads, NEW s \in Socks, Connect(t, s) PROVE ChargesRight'
  <2>1. conn[s] = None /\ conn' = [conn EXCEPT ![s] = Outgoing]
        /\ UNCHANGED <<events, tidToSock, sockCpu, work, activeRequests>>
    BY <1>5 DEF Connect, cpuVars, requestVars
  <2>2. /\ \A u \in Socks : conn[u] \in Conn => conn'[u] = conn[u]
        /\ \A u \in Socks : conn'[u] \in Conn => conn'[u] = conn[u]
    BY <2>1, Numbers DEF ConnInv, TypeInv, ConnTypes
  <2>. QED
    BY <2>1, <2>2, QuietCharges
<1>6. ASSUME NEW t \in Threads, NEW s \in Socks, Send(t, s) PROVE ChargesRight'
  <2>1. UNCHANGED <<conn, conns, events>>
    BY <1>6 DEF Send
  <2>2. CASE s \in DOMAIN activeRequests
    <3>1. /\ RegisterThread(t, s) /\ DOMAIN activeRequests' = DOMAIN activeRequests
          /\ work' = [work EXCEPT ![conn[s]].by = @ \cup {t}, ![conn[s]].sent = @ + 1]
          /\ conn[s] \in Conn
      BY <1>6, <2>2 DEF Send, ConnInv, ConnsRight
    <3>2. work'[conn[s]].by = work[conn[s]].by \cup {t}
      BY <3>1 DEF ConnInv, TypeInv, ConnTypes, Work
    <3>3. \A c \in Conn : c # conn[s] => work'[c] = work[c]
      BY <3>1 DEF ConnInv, TypeInv, ConnTypes
    <3>4. \A c \in Conn : work[c].by \subseteq work'[c].by
      BY <3>2, <3>3
    <3>. QED
      BY <2>1, <2>2, <3>1, <3>2, <3>4, RegisterCharges
  <2>3. CASE s \notin DOMAIN activeRequests
    <3>1. UNCHANGED <<tidToSock, sockCpu, work, activeRequests>>
      BY <1>6, <2>3 DEF Send, cpuVars
    <3>. QED
      BY <2>1, <3>1, QuietCharges
  <2>. QED
    BY <2>2, <2>3
<1>7. ASSUME NEW t \in Threads, RecvEntry(t) PROVE ChargesRight'
  <2>. DEFINE s == call[t].sock
  <2>1. UNCHANGED <<conn, conns, events, activeRequests>>
    BY <1>7 DEF RecvEntry
  <2>2. CASE s \in DOMAIN activeRequests
    <3>1. /\ RegisterThread(t, s)
          /\ work' = [work EXCEPT ![conn[s]].by = @ \cup {t}]
          /\ conn[s] \in Conn
      BY <1>7, <2>2 DEF RecvEntry, ConnInv, ConnsRight
    <3>. HIDE DEF s
    <3>2. work'[conn[s]].by = work[conn[s]].by \cup {t}
      BY <3>1 DEF ConnInv, TypeInv, ConnTypes, Work
    <3>3. \A c \in Conn : c # conn[s] => work'[c] = work[c]
      BY <3>1 DEF ConnInv, TypeInv, ConnTypes
    <3>4. \A c \in Conn : work[c].by \subseteq work'[c].by
      BY <3>2, <3>3
    <3>. QED
      BY <2>1, <2>2, <3>1, <3>2, <3>4, RegisterCharges
  <2>3. CASE s \notin DOMAIN activeRequests
    <3>1. UNCHANGED <<tidToSock, sockCpu, work>>
      BY <1>7, <2>3 DEF RecvEntry, cpuVars
    <3>. QED
      BY <2>1, <3>1, QuietCharges
  <2>. QED
    BY <2>2, <2>3
<1>8. ASSUME NEW t \in Threads, NEW bytes \in {0, 1}, NEW http \in BOOLEAN, RecvReturn(t, bytes, http)
      PROVE  ChargesRight'
  <2>1. UNCHANGED <<conn, conns, events, tidToSock, sockCpu>>
        /\ DOMAIN activeRequests' = DOMAIN activeRequests
    BY <1>8 DEF RecvReturn, cpuVars
  <2>2. \A c \in Conn : work'[c].by = work[c].by
    BY <1>8 DEF RecvReturn, Received, ConnInv, TypeInv, ConnTypes, Work
  <2>. QED
    BY <2>1, <2>2, QuietCharges
<1>9. ASSUME NEW t \in Threads,
             \/ EnterFileRead(t) \/ ExitSocketRead(t) \/ ExitRecvmsg(t)
             \/ \E kind \in SocketReads, s \in Socks : EnterSocketRead(t, kind, s)
             \/ \E bytes \in {0, 1}, http \in BOOLEAN : ExitFileRead(t, bytes, http)
      PROVE  ChargesRight'
  <2>1. UNCHANGED <<conn, conns, events, tidToSock, sockCpu, work>>
    BY <1>9 DEF EnterFileRead, EnterSocketRead, EnterCall, ExitSocketRead, ExitRecvmsg,
                ExitFileRead, requestVars, cpuVars
  <2>2. DOMAIN activeRequests' = DOMAIN activeRequests
    BY <1>9 DEF EnterFileRead, EnterSocketRead, EnterCall, ExitSocketRead, ExitRecvmsg,
                ExitFileRead, TryCaptureHeaders, requestVars
  <2>. QED
    BY <2>1, <2>2, QuietCharges
<1>10. ASSUME NEW t \in Threads, NEW s \in Socks, Close(t, s) PROVE ChargesRight'
  BY <1>10, CloseCharges
<1>. QED
  BY <1>1, <1>2, <1>3, <1>4, <1>5, <1>6, <1>7, <1>8, <1>9, <1>10 DEF Next

\* A connection is charged for the threads that used it, and for those that a close by
\* another thread left registered at its address; for no other thread, however the
\* program shares its sockets.
THEOREM ChargedToUsersOrLeftoversCorrect == Spec => []ChargedToUsersOrLeftovers
<1>. DEFINE Inv == ConnInv /\ ChargesRight
<1>1. Init => Inv
  <2>1. Init => ChargesRight
    BY Numbers DEF Init, ChargesRight, ChargedToUsersOrLeftovers
  <2>. QED
    BY <2>1, ConnInitInv
<1>2. Inv /\ [Next]_vars => Inv'
  BY ConnStep, ChargesStep
<1>3. Inv => ChargedToUsersOrLeftovers
  BY DEF ChargesRight
<1>. QED
  BY <1>1, <1>2, <1>3, PTL DEF Spec

-----------------------------------------------------------------------------
(* Whose bytes are taken for the headers of a connection. *)

\* Connection c is, or was until it was closed, at address s.
HasBeenAt(c, s) == conn[s] = c \/ \E x \in events : x.conn = c /\ x.sock = s

\* What was captured for an address, and what a read that has returned may still be
\* captured for, comes from a connection of that address or from none.
AddressesRight ==
    /\ \A s \in Socks : sockHeaders[s] \in Conn => HasBeenAt(sockHeaders[s], s)
    /\ \A t \in Threads :
          /\ call[t].kind \in SocketReads
          /\ call[t].at = "returned"
          /\ call[t].source \in Conn
          => recvArgs[t] \in Socks /\ HasBeenAt(call[t].source, recvArgs[t])
    /\ \A x \in events : conn[x.sock] \in Conn => x.conn <= conn[x.sock]
    /\ HeadersFromAddress

\* An address keeps the connections it has had.
LEMMA AddressKept ==
    ASSUME ConnInv, [Next]_vars, NEW c \in Conn, NEW s \in Socks, HasBeenAt(c, s)
    PROVE  HasBeenAt(c, s)'
<1>1. ASSUME NEW t \in Threads, NEW u \in Socks, Accept(t, u) \/ Connect(t, u)
      PROVE  HasBeenAt(c, s)'
  <2>1. conn[u] = None /\ events' = events /\ \A v \in Socks : v # u => conn'[v] = conn[v]
    BY <1>1 DEF Accept, Connect, requestVars, ConnInv, TypeInv, ConnTypes
  <2>. QED
    BY <2>1, Numbers DEF HasBeenAt
<1>2. ASSUME NEW t \in Threads, NEW u \in Socks, Close(t, u)
      PROVE  HasBeenAt(c, s)'
  <2>1. /\ \A v \in Socks : v # u => conn'[v] = conn[v]
        /\ u \in DOMAIN activeRequests => events' = events \cup {ClosedEvent(t, u)}
        /\ u \notin DOMAIN activeRequests => events' = events
    BY <1>2 DEF Close, ConnInv, TypeInv, ConnTypes
  <2>2. conn[u] = c => u \in DOMAIN activeRequests
    BY DEF ConnInv, ConnsRight
  <2>3. ClosedEvent(t, u).conn = conn[u] /\ ClosedEvent(t, u).sock = u
    BY DEF ClosedEvent
  <2>. QED
    BY <2>1, <2>2, <2>3 DEF HasBeenAt
<1>3. CASE UNCHANGED <<conn, events>>
  BY <1>3 DEF HasBeenAt
<1>4. Tick => UNCHANGED <<conn, events>>
  BY DEF Tick, requestVars
<1>5. ASSUME NEW k \in Cpus, NEW next \in Threads \cup {None}, Switch(k, next)
      PROVE  UNCHANGED <<conn, events>>
  BY <1>5 DEF Switch, requestVars
<1>6. ASSUME NEW t \in Threads, NEW u \in Socks,
             \/ Send(t, u)
             \/ \E kind \in SocketReads : EnterSocketRead(t, kind, u)
      PROVE  UNCHANGED <<conn, events>>
  BY <1>6 DEF Send, EnterSocketRead, EnterCall, requestVars
<1>7. ASSUME NEW t \in Threads,
             \/ EnterFileRead(t) \/ RecvEntry(t) \/ ExitSocketRead(t) \/ ExitRecvmsg(t)
             \/ \E bytes \in {0, 1}, http \in BOOLEAN :
                   RecvReturn(t, bytes, http) \/ ExitFileRead(t, bytes, http)
      PROVE  UNCHANGED <<conn, events>>
  BY <1>7 DEF EnterFileRead, EnterCall, RecvEntry, ExitSocketRead, ExitRecvmsg,
     RecvReturn, ExitFileRead, requestVars
<1>8. UNCHANGED vars => UNCHANGED <<conn, events>>
  BY DEF vars, requestVars
<1>. QED
  BY <1>1, <1>2, <1>3, <1>4, <1>5, <1>6, <1>7, <1>8 DEF Next

\* A step that captures nothing and closes nothing.
LEMMA NothingCaptured ==
    ASSUME ConnInv, AddressesRight, [Next]_vars,
           UNCHANGED <<sockHeaders, events>>,
           \A u \in Socks : conn'[u] = conn[u] \/ conn'[u] = Outgoing \/ conn'[u] = conns + 1,
           \A t \in Threads : \/ call'[t] = call[t] /\ recvArgs'[t] = recvArgs[t]
                              \/ call'[t].kind \notin SocketReads
                              \/ call'[t].at # "returned"
    PROVE  AddressesRight'
<1>1. \A u \in Socks : sockHeaders[u] \in Conn => HasBeenAt(sockHeaders[u], u)'
  BY AddressKept DEF AddressesRight
<1>2. \A t \in Threads :
          /\ call'[t].kind \in SocketReads
          /\ call'[t].at = "returned"
          /\ call'[t].source \in Conn
          => recvArgs'[t] \in Socks /\ HasBeenAt(call[t].source, recvArgs[t])'
             /\ call'[t] = call[t] /\ recvArgs'[t] = recvArgs[t]
  BY AddressKept DEF AddressesRight
<1>3. \A x \in events : conn'[x.sock] \in Conn => x.conn <= conn'[x.sock]
  <2>1. \A x \in events : x.sock \in Socks /\ x.conn \in Nat /\ x.conn <= conns
    BY Numbers DEF ConnInv, TypeInv, ConnTypes, ConnsRight, Event
  <2>2. conns \in Nat
    BY Numbers DEF ConnInv, TypeInv, ConnTypes
  <2>. QED
    BY <2>1, <2>2, Numbers DEF AddressesRight
<1>. QED
  BY <1>1, <1>2, <1>3 DEF AddressesRight, HeadersFromAddress, HasBeenAt

\* It is inductive: between the return of tcp_recvmsg and the exit of the call the
\* address is remembered, and whatever is captured was read at it.
LEMMA AddressesStep ==
    ASSUME ConnInv, AddressesRight, [Next]_vars
    PROVE  AddressesRight'
<1>. USE DEF ConnInv
<1>1. CASE UNCHANGED vars \/ Tick \/ (\E c \in Cpus, next \in Threads \cup {None} : Switch(c, next))
           \/ \E t \in Threads, s \in Socks : Send(t, s)
  <2>1. UNCHANGED <<sockHeaders, conn, call, recvArgs, events>>
    BY <1>1 DEF vars, Tick, Switch, Send, requestVars, recvVars
  <2>. QED
    BY <2>1, NothingCaptured
<1>2. ASSUME NEW t \in Threads, NEW s \in Socks, Accept(t, s) \/ Connect(t, s) PROVE AddressesRight'
  <2>1. /\ UNCHANGED <<sockHeaders, call, recvArgs, events>>
        /\ \A u \in Socks : conn'[u] = conn[u] \/ conn'[u] = Outgoing \/ conn'[u] = conns + 1
    BY <1>2 DEF Accept, Connect, requestVars, recvVars, TypeInv, ConnTypes
  <2>. QED
    BY <2>1, NothingCaptured
<1>3. ASSUME NEW t \in Threads, NEW s \in Socks, Close(t, s) PROVE AddressesRight'
  <2>1. /\ UNCHANGED <<call, recvArgs>>
        /\ conn' = [conn EXCEPT ![s] = None]
    BY <1>3 DEF Close, recvVars
  <2>2. \A c \in Conn, u \in Socks : HasBeenAt(c, u) => HasBeenAt(c, u)'
    BY AddressKept
  <2>3. \A u \in Threads :
          /\ call'[u].kind \in SocketReads
          /\ call'[u].at = "returned"
          /\ call'[u].source \in Conn
          => recvArgs'[u] \in Socks /\ HasBeenAt(call[u].source, recvArgs[u])'
    BY <2>1, <2>2 DEF AddressesRight
  <2>4. \A x \in events : x.sock \in Socks
    BY DEF TypeInv, ConnTypes, Event
  <2>5. \A u \in Socks : conn'[u] \in Conn => u # s /\ conn'[u] = conn[u]
    BY <2>1, Numbers DEF TypeInv, ConnTypes
  <2>6. CASE s \in DOMAIN activeRequests
    <3>. DEFINE e == ClosedEvent(t, s)
    <3>1. /\ sockHeaders' = [sockHeaders EXCEPT ![s] = None]
          /\ events' = events \cup {e}
      BY <1>3, <2>6 DEF Close, ForgetSocket
    <3>2. e.header = sockHeaders[s] /\ e.conn = conn[s] /\ e.sock = s
      BY DEF ClosedEvent
    <3>3. conn[s] \in Conn /\ conn[s] \in Nat
      BY <2>6, Numbers DEF ConnsRight
    <3>. HIDE DEF e
    <3>4. \A u \in Socks : sockHeaders'[u] \in Conn => HasBeenAt(sockHeaders[u], u)'
      <4>1. \A u \in Socks : sockHeaders'[u] \in Conn => sockHeaders'[u] = sockHeaders[u]
        BY <3>1, Numbers DEF TypeInv, ConnTypes
      <4>. QED
        BY <2>2, <4>1 DEF AddressesRight
    <3>5. \A x \in events' : conn'[x.sock] \in Conn => x.conn <= conn'[x.sock]
      BY <2>4, <2>5, <3>1, <3>2 DEF AddressesRight
    <3>6. e.header \in Conn => \E x \in events' : x.conn = e.header /\ x.sock = e.sock /\ x.conn <= e.conn
      <4>1. SUFFICES ASSUME sockHeaders[s] \in Conn
                     PROVE  \E x \in events' : x.conn = sockHeaders[s] /\ x.sock = s /\ x.conn <= conn[s]
        BY <3>2
      <4>2. HasBeenAt(sockHeaders[s], s)
        BY <4>1 DEF AddressesRight
      <4>3. CASE conn[s] = sockHeaders[s]
        BY <3>1, <3>2, <3>3, <4>3
      <4>4. CASE \E x \in events : x.conn = sockHeaders[s] /\ x.sock = s
        BY <3>1, <3>3, <4>4 DEF AddressesRight
      <4>. QED
        BY <4>2, <4>3, <4>4 DEF HasBeenAt
    <3>7. HeadersFromAddress'
      BY <3>1, <3>6 DEF HeadersFromAddress, AddressesRight
    <3>. QED
      BY <2>3, <3>4, <3>5, <3>7 DEF AddressesRight
  <2>7. CASE s \notin DOMAIN activeRequests
    <3>1. UNCHANGED <<sockHeaders, events>>
      BY <1>3, <2>7 DEF Close
    <3>2. \A x \in events : conn'[x.sock] \in Conn => x.conn <= conn'[x.sock]
      BY <2>4, <2>5 DEF AddressesRight
    <3>3. \A u \in Socks : sockHeaders'[u] \in Conn => HasBeenAt(sockHeaders[u], u)'
      BY <2>2, <3>1 DEF AddressesRight
    <3>4. HeadersFromAddress'
      BY <3>1 DEF HeadersFromAddress, AddressesRight
    <3>. QED
      BY <2>3, <3>1, <3>2, <3>3, <3>4 DEF AddressesRight
  <2>. QED
    BY <2>6, <2>7
<1>4. ASSUME NEW t \in Threads, NEW c \in Call, EnterCall(t, c), c.kind \in SocketReads => c.at = "entered"
      PROVE  AddressesRight'
  <2>1. /\ UNCHANGED <<sockHeaders, conn, recvArgs, events>>
        /\ \A u \in Threads : call'[u] = IF u = t THEN c ELSE call[u]
    BY <1>4 DEF EnterCall, requestVars, TypeInv, CallTypes
  <2>2. c.kind \notin SocketReads \/ c.at # "returned"
    BY <1>4
  <2>. QED
    BY <2>1, <2>2, NothingCaptured
<1>5. ASSUME NEW t \in Threads, EnterFileRead(t) \/ \E kind \in SocketReads, s \in Socks : EnterSocketRead(t, kind, s)
      PROVE  AddressesRight'
  <2>1. PICK c \in Call : EnterCall(t, c) /\ c.at = "entered"
    <3>1. CASE EnterFileRead(t)
      <4>. DEFINE c == [kind |-> "file", at |-> "entered"]
      <4>. QED
        BY <3>1 DEF EnterFileRead, Call
    <3>2. ASSUME NEW kind \in SocketReads, NEW s \in Socks, EnterSocketRead(t, kind, s)
          PROVE  \E c \in Call : EnterCall(t, c) /\ c.at = "entered"
      <4>. DEFINE c == [kind |-> kind, at |-> "entered", sock |-> s]
      <4>1. c \in Call /\ c.at = "entered" /\ EnterCall(t, c)
        BY <3>2 DEF EnterSocketRead, Call
      <4>. HIDE DEF c
      <4>. QED
        BY <4>1
    <3>. QED
      BY <1>5, <3>1, <3>2
  <2>. QED
    BY <1>4, <2>1
<1>6. ASSUME NEW t \in Threads, RecvEntry(t) PROVE AddressesRight'
  <2>1. /\ UNCHANGED <<sockHeaders, conn, events>>
        /\ call[t].kind \in SocketReads /\ call[t].at = "entered"
        /\ call' = [call EXCEPT ![t] = [call[t] EXCEPT !.at = "receiving"]]
        /\ recvArgs' = [recvArgs EXCEPT ![t] = call[t].sock]
    BY <1>6 DEF RecvEntry, Reading
  <2>2. call[t] \in [kind : SocketReads, at : {"entered", "receiving"}, sock : Socks]
    BY <2>1, CallStages DEF TypeInv
  <2>3. call'[t].at = "receiving"
    BY <2>1, <2>2 DEF TypeInv, CallTypes
  <2>4. \A u \in Threads : u # t => call'[u] = call[u] /\ recvArgs'[u] = recvArgs[u]
    BY <2>1 DEF TypeInv, CallTypes
  <2>. QED
    BY <2>1, <2>3, <2>4, NothingCaptured
<1>7. ASSUME NEW t \in Threads, NEW bytes \in {0, 1}, NEW http \in BOOLEAN, RecvReturn(t, bytes, http)
      PROVE  AddressesRight'
  <2>1. /\ UNCHANGED <<sockHeaders, conn, events, recvArgs>>
        /\ call[t].kind \in SocketReads /\ call[t].at = "receiving"
        /\ call' = [call EXCEPT ![t] = [kind |-> call[t].kind, at |-> "returned",
                        source |-> conn[call[t].sock], ret |-> bytes, http |-> http]]
    BY <1>7 DEF RecvReturn, Reading, recvVars
  <2>2. recvArgs[t] = call[t].sock /\ call[t].sock \in Socks
    BY <2>1, CallStages DEF ReceivingRight, TypeInv
  <2>3. call'[t].source = conn[recvArgs[t]] /\ \A u \in Threads : u # t => call'[u] = call[u]
    BY <2>1, <2>2 DEF TypeInv, CallTypes
  <2>4. call'[t].source \in Conn => recvArgs[t] \in Socks /\ HasBeenAt(call'[t].source, recvArgs[t])
    BY <2>2, <2>3 DEF HasBeenAt
  <2>. QED
    BY <2>1, <2>3, <2>4 DEF AddressesRight, HeadersFromAddress, HasBeenAt
<1>8. ASSUME NEW t \in Threads, NEW source \in Conn \cup {None, Outgoing, File}, NEW s,
             UNCHANGED <<conn, events>>, call' = [call EXCEPT ![t] = Idle],
             \A u \in Threads : u # t => recvArgs'[u] = recvArgs[u],
             \/ sockHeaders' = sockHeaders
             \/ /\ s \in Socks /\ sockHeaders' = [sockHeaders EXCEPT ![s] = source]
                /\ source \in Conn => HasBeenAt(source, s)
      PROVE  AddressesRight'
  <2>1. \A u \in Threads : call'[u].kind \in SocketReads => u # t /\ call'[u] = call[u]
    BY <1>8 DEF TypeInv, CallTypes, Idle, SocketReads
  <2>2. \A u \in Socks : sockHeaders'[u] \in Conn => HasBeenAt(sockHeaders'[u], u)
    BY <1>8 DEF AddressesRight, TypeInv, ConnTypes
  <2>. QED
    BY <1>8, <2>1, <2>2 DEF AddressesRight, HeadersFromAddress, HasBeenAt
<1>9. ASSUME NEW t \in Threads, ExitSocketRead(t) PROVE AddressesRight'
  <2>. DEFINE s == recvArgs[t]
  <2>1. /\ UNCHANGED <<conn, events>> /\ call' = [call EXCEPT ![t] = Idle]
        /\ recvArgs' = [recvArgs EXCEPT ![t] = None]
        /\ call[t].kind \in SocketReads /\ call[t].at = "returned"
    BY <1>9 DEF ExitSocketRead, Reading, TryCaptureHeaders, ForgetRead
  <2>2. call[t].source \in Conn \cup {Outgoing}
    BY <2>1, CallStages DEF TypeInv
  <2>3. \/ sockHeaders' = sockHeaders
        \/ s \in DOMAIN activeRequests /\ sockHeaders' = [sockHeaders EXCEPT ![s] = call[t].source]
    BY <1>9 DEF ExitSocketRead, TryCaptureHeaders
  <2>4. \/ sockHeaders' = sockHeaders
        \/ /\ s \in Socks /\ sockHeaders' = [sockHeaders EXCEPT ![s] = call[t].source]
           /\ call[t].source \in Conn => HasBeenAt(call[t].source, s)
    BY <2>1, <2>3 DEF AddressesRight, TypeInv, ConnTypes
  <2>5. \A u \in Threads : u # t => recvArgs'[u] = recvArgs[u]
    BY <2>1 DEF TypeInv, CallTypes
  <2>. QED
    BY <1>8, <2>1, <2>2, <2>4, <2>5
<1>10. ASSUME NEW t \in Threads, NEW bytes \in {0, 1}, NEW http \in BOOLEAN, ExitFileRead(t, bytes, http)
      PROVE  AddressesRight'
  <2>. DEFINE s == recvArgs[t]
  <2>1. /\ UNCHANGED <<conn, events>> /\ call' = [call EXCEPT ![t] = Idle]
        /\ recvArgs' = [recvArgs EXCEPT ![t] = None]
    BY <1>10 DEF ExitFileRead, TryCaptureHeaders, ForgetRead
  <2>2. \/ sockHeaders' = sockHeaders
        \/ s \in DOMAIN activeRequests /\ sockHeaders' = [sockHeaders EXCEPT ![s] = File]
    BY <1>10 DEF ExitFileRead, TryCaptureHeaders
  <2>3. File \notin Conn
    BY DEF File, Conn
  <2>4. \/ sockHeaders' = sockHeaders
        \/ /\ s \in Socks /\ sockHeaders' = [sockHeaders EXCEPT ![s] = File]
           /\ File \in Conn => HasBeenAt(File, s)
    BY <2>2, <2>3 DEF TypeInv, ConnTypes
  <2>5. \A u \in Threads : u # t => recvArgs'[u] = recvArgs[u]
    BY <2>1 DEF TypeInv, CallTypes
  <2>. QED
    BY <1>8, <2>1, <2>4, <2>5
<1>11. ASSUME NEW t \in Threads, ExitRecvmsg(t) PROVE AddressesRight'
  <2>1. /\ UNCHANGED <<conn, events, sockHeaders, recvArgs>> /\ call' = [call EXCEPT ![t] = Idle]
    BY <1>11 DEF ExitRecvmsg, requestVars, recvVars
  <2>. QED
    BY <1>8, <2>1
<1>. QED
  BY <1>1, <1>2, <1>3, <1>5, <1>6, <1>7, <1>9, <1>10, <1>11 DEF Next

\* Headers are never taken from a connection at another address, whatever threads read,
\* close and accept between the probes.
THEOREM HeadersFromAddressCorrect == Spec => []HeadersFromAddress
<1>. DEFINE Inv == ConnInv /\ AddressesRight
<1>1. Init => Inv
  <2>1. Init => AddressesRight
    BY Numbers DEF Init, AddressesRight, HeadersFromAddress, Idle, SocketReads
  <2>. QED
    BY <2>1, ConnInitInv
<1>2. Inv /\ [Next]_vars => Inv'
  BY ConnStep, AddressesStep
<1>3. Inv => HeadersFromAddress
  BY DEF AddressesRight
<1>. QED
  BY <1>1, <1>2, <1>3, PTL DEF Spec
=============================================================================
