--------------------- MODULE DependencyAttribution_proofs ---------------------
(***************************************************************************)
(* From the connect to the profile, for every number of threads, sockets,  *)
(* connects, connections and turns of the poll loop: a connect is reported *)
(* once and by one request, a close reports the last connect of its thread,*)
(* and the poll loop gives no request a dependency of a later turn.        *)
(***************************************************************************)
EXTENDS DependencyAttribution, Correlator_proofs

\* What stands in the maps and in the events has happened.
CountsRight ==
    /\ \A t \in Threads : activeConnects[t] \in 0..connects
    /\ \A s \in Sockets : outgoing[s] \in 0..connects /\ accepted[s] \in 0..accepts
    /\ \A e \in reported : e.conn \in 1..connects
    /\ depEvents \subseteq reported

\* No two threads remember the same connect.
RememberedOnce ==
    \A t, u \in Threads : activeConnects[t] = activeConnects[u] /\ activeConnects[t] # None => t = u

\* A connect whose call has not returned is remembered by no other thread and not
\* reported.
CallsRight ==
    \A t \in Threads : calling[t] # None =>
        /\ outgoing[calling[t]] \in 1..connects
        /\ \A u \in Threads : u # t => activeConnects[u] # outgoing[calling[t]]
        /\ \A e \in reported : e.conn # outgoing[calling[t]]

TrackerInv ==
    /\ TrackerTypeOK
    /\ CountsRight
    /\ RememberedOnce
    /\ CallsRight
    /\ ConnectReportedOnce

-----------------------------------------------------------------------------
\* Nothing has been connected, accepted or reported at first.
LEMMA TrackerInitInv == TrackerInit => TrackerInv
  BY TrackerAssumption DEF TrackerInit, TrackerInv, TrackerTypeOK, CountsRight, RememberedOnce, CallsRight,
         ConnectReportedOnce, None

\* A connect gets a number of its own.
LEMMA ConnectEntryStep ==
    ASSUME TrackerInv, NEW t \in Threads, NEW s \in Sockets, NEW inet \in BOOLEAN,
           ConnectEntry(t, s, inet)
    PROVE  TrackerInv'
<1>. USE DEF TrackerInv
<1>1. connects \in Nat /\ connects' = connects + 1 /\ connects' \in 1..MaxConnects
  BY TrackerAssumption DEF TrackerTypeOK, ConnectEntry
<1>2. TrackerTypeOK'
  BY <1>1 DEF TrackerTypeOK, ConnectEntry
<1>3. \A u \in Threads : activeConnects'[u] = activeConnects[u]
                          \/ (u = t /\ activeConnects'[u] = connects + 1)
  BY DEF ConnectEntry, TrackerTypeOK
<1>4. CountsRight'
  BY <1>1, <1>3 DEF CountsRight, ConnectEntry, TrackerTypeOK
<1>5. RememberedOnce'
  BY <1>1, <1>3 DEF RememberedOnce, CountsRight
<1>6. CallsRight'
  <2>1. \A u \in Threads : u # t /\ calling[u] # None => outgoing'[calling[u]] = outgoing[calling[u]]
    <3>1. outgoing[s] = None
      BY DEF ConnectEntry, Free
    <3>2. outgoing' = [outgoing EXCEPT ![s] = connects + 1]
      BY DEF ConnectEntry
    <3>. QED
      BY <3>1, <3>2 DEF CallsRight, TrackerTypeOK, None
  <2>2. outgoing'[s] = connects + 1 /\ calling' = [calling EXCEPT ![t] = s] /\ reported' = reported
    BY DEF ConnectEntry, TrackerTypeOK
  <2>3. ASSUME NEW u \in Threads, calling'[u] # None, u # t
        PROVE  /\ outgoing'[calling'[u]] \in 1..connects'
               /\ \A v \in Threads : v # u => activeConnects'[v] # outgoing'[calling'[u]]
               /\ \A e \in reported' : e.conn # outgoing'[calling'[u]]
    <3>1. calling'[u] = calling[u] /\ outgoing'[calling'[u]] = outgoing[calling[u]]
      BY <2>1, <2>2, <2>3 DEF TrackerTypeOK
    <3>. QED
      BY <1>1, <1>3, <2>2, <2>3, <3>1 DEF CallsRight
  <2>4. ASSUME calling'[t] # None
        PROVE  /\ outgoing'[calling'[t]] \in 1..connects'
               /\ \A v \in Threads : v # t => activeConnects'[v] # outgoing'[calling'[t]]
               /\ \A e \in reported' : e.conn # outgoing'[calling'[t]]
    <3>1. outgoing'[calling'[t]] = connects + 1
      BY <2>2 DEF TrackerTypeOK
    <3>. QED
      BY <1>1, <1>3, <2>2, <3>1 DEF CountsRight
  <2>. QED
    BY <2>3, <2>4 DEF CallsRight
<1>7. reported' = reported
  BY DEF ConnectEntry
<1>8. ConnectReportedOnce'
  BY <1>1, <1>3, <1>7 DEF ConnectReportedOnce, CountsRight
<1>. QED
  BY <1>2, <1>4, <1>5, <1>6, <1>8

\* The return of a connect only forgets.
LEMMA ConnectReturnStep ==
    ASSUME TrackerInv, NEW t \in Threads, NEW fails \in BOOLEAN, ConnectReturn(t, fails)
    PROVE  TrackerInv'
<1>. USE DEF TrackerInv
<1>1. /\ UNCHANGED <<outgoing, accepted, depEvents, connects, accepts, untracked, reported>>
      /\ calling' = [calling EXCEPT ![t] = None]
      /\ \A u \in Threads : activeConnects'[u] \in {activeConnects[u], None}
      /\ activeConnects' \in [Threads -> Nat]
  BY DEF ConnectReturn, TrackerTypeOK, None
<1>2. TrackerTypeOK'
  BY <1>1 DEF TrackerTypeOK, None
<1>3. CountsRight'
  BY <1>1 DEF CountsRight, TrackerTypeOK, None
<1>4. RememberedOnce'
  BY <1>1 DEF RememberedOnce
<1>5. CallsRight'
  <2>1. ASSUME NEW u \in Threads, calling'[u] # None
        PROVE  calling[u] = calling'[u] /\ calling[u] # None
    BY <1>1, <2>1 DEF TrackerTypeOK
  <2>. QED
    BY <1>1, <2>1 DEF CallsRight, None
<1>6. ConnectReportedOnce'
  BY <1>1 DEF ConnectReportedOnce, CountsRight, None
<1>. QED
  BY <1>2, <1>3, <1>4, <1>5, <1>6

\* An accept only takes a socket.
LEMMA AcceptConnectionStep ==
    ASSUME TrackerInv, NEW t \in Threads, NEW s \in Sockets, AcceptConnection(t, s)
    PROVE  TrackerInv'
<1>. USE DEF TrackerInv
<1>1. UNCHANGED <<activeConnects, calling, outgoing, depEvents, connects, untracked, reported>>
  BY DEF AcceptConnection
<1>2. accepts \in Nat /\ accepts' = accepts + 1 /\ accepts' \in 0..MaxAccepts
  BY TrackerAssumption DEF AcceptConnection, TrackerTypeOK
<1>3. accepted' \in [Sockets -> Nat] /\ \A r \in Sockets : accepted'[r] \in 0..accepts'
  BY <1>2 DEF AcceptConnection, TrackerTypeOK, CountsRight
<1>. QED
  BY <1>1, <1>2, <1>3 DEF TrackerTypeOK, CountsRight, RememberedOnce, CallsRight,
     ConnectReportedOnce

\* A close reports a connect that was not reported before, and forgets it.
LEMMA CloseSocketStep ==
    ASSUME TrackerInv, NEW t \in Threads, NEW s \in Sockets, CloseSocket(t, s)
    PROVE  TrackerInv'
<1>. USE DEF TrackerInv
<1>. DEFINE c == activeConnects[t]
            e == [thread |-> t, conn |-> c, at |-> connects]
<1>1. /\ UNCHANGED <<calling, connects, accepts, untracked>>
      /\ activeConnects' = [activeConnects EXCEPT ![t] = None]
      /\ outgoing' = [outgoing EXCEPT ![s] = None]
      /\ accepted' = [accepted EXCEPT ![s] = None]
      /\ reported' = IF c # None THEN reported \cup {e} ELSE reported
      /\ depEvents' \subseteq depEvents \cup (IF c # None THEN {e} ELSE {})
      /\ calling[t] = None /\ \A u \in Threads : calling[u] # s
  BY DEF CloseSocket, Report, InConnect
<1>2. e \in DepEvent /\ c \in 0..connects /\ connects \in Nat
  BY TrackerAssumption DEF TrackerTypeOK, DepEvent, CountsRight
<1>3. TrackerTypeOK'
  BY <1>1, <1>2 DEF TrackerTypeOK, None
<1>4. \A u \in Threads : activeConnects'[u] = IF u = t THEN None ELSE activeConnects[u]
  BY <1>1 DEF TrackerTypeOK
<1>5. CountsRight'
  <2>1. \A r \in Sockets : outgoing'[r] \in {outgoing[r], None} /\ accepted'[r] \in {accepted[r], None}
    BY <1>1 DEF TrackerTypeOK
  <2>2. \A r \in Sockets : outgoing'[r] \in 0..connects' /\ accepted'[r] \in 0..accepts'
    BY <1>1, <2>1, TrackerAssumption DEF CountsRight, TrackerTypeOK, None
  <2>3. \A d \in reported' : d.conn \in 1..connects'
    BY <1>1, <1>2 DEF CountsRight, None
  <2>4. depEvents' \subseteq reported'
    BY <1>1 DEF CountsRight
  <2>5. \A u \in Threads : activeConnects'[u] \in 0..connects'
    BY <1>1, <1>2, <1>4 DEF CountsRight, None
  <2>. QED
    BY <2>2, <2>3, <2>4, <2>5 DEF CountsRight
<1>6. RememberedOnce'
  BY <1>4 DEF RememberedOnce
<1>7. CallsRight'
  <2>1. SUFFICES ASSUME NEW u \in Threads, calling[u] # None
                 PROVE  /\ outgoing'[calling[u]] = outgoing[calling[u]]
                        /\ outgoing[calling[u]] # c
                        /\ None # outgoing[calling[u]]
    BY <1>1, <1>4 DEF CallsRight
  <2>2. u # t /\ outgoing[calling[u]] \in 1..connects
    BY <1>1, <2>1 DEF CallsRight
  <2>. QED
    BY <1>1, <2>1, <2>2 DEF CallsRight, TrackerTypeOK, None
<1>8. ConnectReportedOnce'
  <2>1. \A d \in reported : d.conn # c
    BY DEF ConnectReportedOnce
  <2>2. \A d \in reported' : d.conn # None
    BY <1>1 DEF CountsRight, None
  <2>. QED
    BY <1>1, <1>4, <2>1, <2>2 DEF ConnectReportedOnce, RememberedOnce
<1>. QED
  BY <1>3, <1>5, <1>6, <1>7, <1>8

\* Every step of the probes preserves the invariant.
LEMMA TrackerInvStep ==
    ASSUME TrackerInv, [TrackerNext]_trackerVars
    PROVE  TrackerInv'
<1>1. ASSUME NEW e \in depEvents, TakeDepEvent(e) PROVE TrackerInv'
  BY <1>1 DEF TakeDepEvent, TrackerInv, TrackerTypeOK, CountsRight, RememberedOnce,
     CallsRight, ConnectReportedOnce
<1>2. CASE UNCHANGED trackerVars
  BY <1>2 DEF trackerVars, TrackerInv, TrackerTypeOK, CountsRight, RememberedOnce,
     CallsRight, ConnectReportedOnce
<1>. QED
  BY <1>1, <1>2, ConnectEntryStep, ConnectReturnStep, AcceptConnectionStep, CloseSocketStep
     DEF TrackerNext
-----------------------------------------------------------------------------
\* What is known of the request events: who accepted the connection, and in which turn
\* it was closed.  Those of earlier turns are what the turn began with.
RequestsRight ==
    /\ \A e \in reqEvents : e.conn \in 1..accepts /\ acceptor[e.conn] = e.thread
    /\ \A e \in reqEvents : e.cycle <= cycle
    /\ \A e \in reqEvents : e.cycle = cycle \/ (phase = "requests" /\ e \in due)

\* Every dependency handled comes from an event that is not in the buffer any more, and
\* no two come from one connect.
DepsRight ==
    /\ \A m \in DOMAIN depConns : \E e \in reported : e.conn = depConns[m]
    /\ \A m \in DOMAIN depConns : \A e \in depEvents : e.conn # depConns[m]
    /\ \A m, n \in DOMAIN depConns : depConns[m] = depConns[n] => m = n
    /\ \A k \in Keys : \A d \in pendingDeps[k] : d.seq \in 1..depCount
    /\ \A i \in DOMAIN handled : \A d \in handled[i].deps : d.seq \in 1..depCount

ConnsRight == \A i \in DOMAIN reqConns : reqConns[i] \in 1..accepts

\* A dependency that is pending was not reported in a later turn than any request event
\* still in the buffer.
CyclesRight ==
    /\ \A c \in 1..MaxConnects : depCycle[c] <= cycle
    /\ \A k \in Keys : \A d \in pendingDeps[k], e \in reqEvents :
          depCycle[depConns[d.seq]] <= e.cycle

\* A profile is of the thread that accepted its connection.
KeysRight == \A i \in DOMAIN handled : handled[i].key = acceptor[reqConns[i]]

AttributionInv ==
    /\ AttributionTypeOK
    /\ TrackerInv
    /\ CorrInv
    /\ RequestsRight
    /\ DepsRight
    /\ ConnsRight
    /\ CyclesRight
    /\ KeysRight
    /\ NeverACycleBehind

-----------------------------------------------------------------------------
\* A step of the composition is a step, or none, of the probes and of the correlator.
LEMMA ComponentSteps ==
    ASSUME AttributionInv, [AttributionNext]_attributionVars
    PROVE  TrackerInv' /\ CorrInv'
<1>1. [TrackerNext]_trackerVars
  BY DEF AttributionNext, attributionVars, TrackerNext, Connect, Connected, Accept, Close,
         PollRequest, PollDep, EndRequests, EndDeps, FlushThread
<1>2. [CorrNext]_corrVars
  <2>1. ASSUME NEW e \in reqEvents, PollRequest(e) PROVE CorrNext
    <3>1. PICK rss \in MemValues : HandleRequest([key |-> e.thread, mem |-> rss, correlated |-> FALSE])
      BY <2>1 DEF PollRequest
    <3>2. e.thread \in Keys
      BY AttributionAssumption DEF AttributionInv, AttributionTypeOK, ReqEvent
    <3>. QED
      BY <3>1, <3>2 DEF CorrNext, Collect, RequestEvent
  <2>2. ASSUME NEW e \in depEvents, PollDep(e) PROVE CorrNext
    <3>1. HandleDependency(e.thread, mono - 0) /\ 0 <= mono
      BY <2>2 DEF PollDep, AttributionInv, CorrInv, CorrTypeOK
    <3>2. e.thread \in Keys
      BY AttributionAssumption DEF AttributionInv, TrackerInv, TrackerTypeOK, DepEvent
    <3>. QED
      BY <3>1, <3>2, AttributionAssumption DEF CorrNext, Collect
  <2>3. CASE FlushThread
    BY <2>3 DEF FlushThread, CorrNext
  <2>4. CASE UNCHANGED corrVars
    BY <2>4
  <2>. QED
    BY <2>1, <2>2, <2>3, <2>4 DEF AttributionNext, attributionVars, Connect, Connected, Accept,
       Close, EndRequests, EndDeps
<1>. QED
  BY <1>1, <1>2, TrackerInvStep, CorrInvStep DEF AttributionInv

\* Nothing has been accepted, handled or polled at first.
LEMMA AttributionInitInv == AttributionInit => AttributionInv
<1>. SUFFICES ASSUME AttributionInit PROVE AttributionInv
  OBVIOUS
<1>1. TrackerInv /\ CorrInv
  BY TrackerInitInv, CorrInitInv DEF AttributionInit
<1>2. AttributionTypeOK
  BY <1>1, AttributionAssumption, TrackerAssumption
     DEF AttributionInit, AttributionTypeOK, TrackerInv, CorrInv, TrackerInit, CorrInit
<1>3. RequestsRight /\ DepsRight /\ ConnsRight /\ CyclesRight /\ KeysRight /\ NeverACycleBehind
  BY AttributionAssumption
     DEF AttributionInit, TrackerInit, CorrInit, RequestsRight, DepsRight, ConnsRight,
         CyclesRight, KeysRight, NeverACycleBehind
<1>. QED
  BY <1>1, <1>2, <1>3 DEF AttributionInv

\* The types of the sequences that grow beside the history.
LEMMA AttributionShapes ==
    ASSUME AttributionInv
    PROVE  /\ acceptor \in Seq(Threads) /\ DOMAIN acceptor = 1..accepts
           /\ reqConns \in Seq(1..MaxAccepts) /\ DOMAIN reqConns = 1..counter
           /\ reqCycles \in Seq(0..MaxCycles) /\ DOMAIN reqCycles = 1..counter
           /\ depConns \in Seq(1..MaxConnects) /\ DOMAIN depConns = 1..depCount
           /\ handled \in Seq(Profile) /\ DOMAIN handled = 1..counter
           /\ accepts \in Nat /\ counter \in Nat /\ depCount \in Nat /\ cycle \in Nat
           /\ connects \in Nat
           /\ \A i \in 1..counter : handled[i] \in Profile
<1>1. /\ accepts \in Nat /\ connects \in Nat /\ cycle \in Nat
      /\ counter \in Nat /\ depCount \in Nat /\ Len(handled) = counter
      /\ handled \in Seq(Profile)
  BY TrackerAssumption, AttributionAssumption
     DEF AttributionInv, AttributionTypeOK, TrackerTypeOK, CorrInv, CorrTypeOK, IdsAndTimesInOrder
<1>2. \A i \in 1..counter : handled[i] \in Profile
  BY <1>1, ElementOfSeq
<1>. QED
  BY <1>1, <1>2, LenProperties DEF AttributionInv, AttributionTypeOK

\* A connect's probes change nothing that is behind the buffers.
LEMMA ProbeStep ==
    ASSUME AttributionInv,
           \/ \E t \in Threads, s \in Sockets, inet \in BOOLEAN : Connect(t, s, inet)
           \/ \E t \in Threads, fails \in BOOLEAN : Connected(t, fails)
    PROVE  AttributionInv'
<1>1. TrackerInv' /\ CorrInv'
  BY ComponentSteps DEF AttributionNext
<1>2. UNCHANGED <<corrVars, pollVars, acceptor, depCycle, depEvents, accepts, accepted, reported>>
  BY DEF Connect, Connected, ConnectEntry, ConnectReturn, kernelVars
<1>3. maker' \in Seq(Threads) /\ Len(maker') = connects'
  <2>1. maker \in Seq(Threads) /\ Len(maker) = connects
    BY DEF AttributionInv, AttributionTypeOK
  <2>2. \/ maker' = maker /\ connects' = connects
        \/ \E t \in Threads : maker' = Append(maker, t) /\ connects' = connects + 1
    BY DEF Connect, Connected, ConnectEntry, ConnectReturn, kernelVars
  <2>. QED
    BY <2>1, <2>2, AppendProperties
<1>4. AttributionTypeOK'
  BY <1>1, <1>2, <1>3 DEF TrackerInv, CorrInv, AttributionInv, AttributionTypeOK, corrVars, pollVars
<1>5. (RequestsRight /\ DepsRight /\ ConnsRight /\ CyclesRight /\ KeysRight /\ NeverACycleBehind)'
  BY <1>2 DEF AttributionInv, corrVars, pollVars, RequestsRight, DepsRight, ConnsRight, CyclesRight,
     KeysRight, NeverACycleBehind, ConnectsOf
<1>. QED
  BY <1>1, <1>4, <1>5 DEF AttributionInv

\* An accept adds a connection and its thread.
LEMMA AcceptStep ==
    ASSUME AttributionInv, NEW t \in Threads, NEW s \in Sockets, Accept(t, s)
    PROVE  AttributionInv'
<1>1. TrackerInv' /\ CorrInv'
  BY ComponentSteps DEF AttributionNext
<1>2. /\ UNCHANGED <<corrVars, pollVars, maker, connects, depCycle, depEvents, reported>>
      /\ accepts' = accepts + 1
      /\ acceptor' = Append(acceptor, t)
  BY DEF Accept, AcceptConnection
<1>3. /\ acceptor' \in Seq(Threads) /\ Len(acceptor') = accepts'
      /\ \A c \in 1..accepts : acceptor'[c] = acceptor[c] /\ c \in 1..accepts'
  BY <1>2, AttributionShapes, AppendProperties DEF AttributionInv, AttributionTypeOK
<1>4. AttributionTypeOK'
  BY <1>1, <1>2, <1>3 DEF TrackerInv, CorrInv, AttributionInv, AttributionTypeOK, corrVars, pollVars
<1>5. (RequestsRight /\ ConnsRight)'
  BY <1>2, <1>3 DEF AttributionInv, corrVars, pollVars, RequestsRight, ConnsRight
<1>6. (DepsRight /\ CyclesRight /\ NeverACycleBehind)'
  BY <1>2 DEF AttributionInv, corrVars, pollVars, DepsRight, CyclesRight, NeverACycleBehind, ConnectsOf
<1>7. KeysRight'
  BY <1>2, <1>3, AttributionShapes
     DEF AttributionInv, corrVars, pollVars, KeysRight, ConnsRight
<1>. QED
  BY <1>1, <1>4, <1>5, <1>6, <1>7 DEF AttributionInv

\* A close emits a request of this turn, and reports in this turn a connect that was not
\* reported before.
LEMMA CloseStep ==
    ASSUME AttributionInv, NEW t \in Threads, NEW s \in Sockets, Close(t, s)
    PROVE  AttributionInv'
<1>1. TrackerInv' /\ CorrInv' /\ TrackerInv /\ CorrInv
  BY ComponentSteps DEF AttributionNext, AttributionInv
<1>. DEFINE c == activeConnects[t]
            e == [thread |-> t, conn |-> c, at |-> connects]
            r == [thread |-> acceptor[accepted[s]], conn |-> accepted[s], cycle |-> cycle]
<1>2. /\ UNCHANGED <<corrVars, phase, due, cycle, reqConns, reqCycles, depConns, acceptor,
                     maker, accepts, connects>>
      /\ reported \subseteq reported'
      /\ \A d \in depEvents' : d \in depEvents \/ (c # None /\ d = e)
      /\ \A q \in reqEvents' : q \in reqEvents \/ (accepted[s] # None /\ q = r)
      /\ depCycle' = IF c # None THEN [depCycle EXCEPT ![c] = cycle] ELSE depCycle
  BY DEF Close, CloseSocket, Report, EmitRequest
<1>3. c # None => c \in 1..MaxConnects /\ \A m \in DOMAIN depConns : depConns[m] # c
  <2>1. \A d \in reported : d.conn # c
    BY <1>1 DEF TrackerInv, ConnectReportedOnce
  <2>2. c \in 0..MaxConnects
    BY <1>1, TrackerAssumption DEF TrackerInv, TrackerTypeOK, CountsRight
  <2>. QED
    BY <2>1, <2>2 DEF AttributionInv, DepsRight, None
<1>4. accepted[s] # None => accepted[s] \in 1..accepts /\ acceptor[accepted[s]] \in Threads
  BY <1>1, AttributionShapes, ElementOfSeq DEF TrackerInv, CountsRight, None
<1>5. AttributionTypeOK'
  <2>1. reqEvents' \subseteq ReqEvent
    BY <1>2, <1>4, AttributionShapes DEF AttributionInv, AttributionTypeOK, ReqEvent
  <2>2. depCycle' \in [1..MaxConnects -> 0..MaxCycles]
    BY <1>2, <1>3 DEF AttributionInv, AttributionTypeOK
  <2>. QED
    BY <1>1, <1>2, <2>1, <2>2 DEF TrackerInv, CorrInv, AttributionInv, AttributionTypeOK, corrVars
<1>6. RequestsRight'
  BY <1>2, <1>4, AttributionShapes DEF AttributionInv, RequestsRight
<1>7. DepsRight'
  BY <1>2, <1>3 DEF AttributionInv, DepsRight, corrVars
<1>8. (ConnsRight /\ KeysRight)'
  BY <1>2 DEF AttributionInv, ConnsRight, KeysRight, corrVars
<1>9. \A m \in DOMAIN depConns : depCycle'[depConns[m]] = depCycle[depConns[m]]
  BY <1>2, <1>3, AttributionShapes, ElementOfSeq DEF AttributionInv, AttributionTypeOK
<1>10. \A b \in 1..MaxConnects : depCycle'[b] <= cycle
  BY <1>2, <1>3, AttributionShapes DEF AttributionInv, AttributionTypeOK, CyclesRight
<1>11. \A k \in Keys : \A d \in pendingDeps[k], q \in reqEvents' :
          depCycle'[depConns[d.seq]] <= q.cycle
  <2>1. SUFFICES ASSUME NEW k \in Keys, NEW d \in pendingDeps[k], NEW q \in reqEvents'
                 PROVE  depCycle'[depConns[d.seq]] <= q.cycle
    OBVIOUS
  <2>2. d.seq \in 1..depCount /\ depConns[d.seq] \in 1..MaxConnects
    <3>1. d.seq \in 1..depCount
      BY DEF AttributionInv, DepsRight
    <3>2. depConns \in Seq(1..MaxConnects) /\ Len(depConns) = depCount
      BY DEF AttributionInv, AttributionTypeOK
    <3>3. depConns[d.seq] \in 1..MaxConnects
      BY <3>1, <3>2, ElementOfSeq
    <3>. QED
      BY <3>1, <3>3
  <2>3. depCycle'[depConns[d.seq]] = depCycle[depConns[d.seq]]
    BY <1>9, <2>2, AttributionShapes
  <2>4. CASE q \in reqEvents
    BY <2>3, <2>4 DEF AttributionInv, CyclesRight
  <2>5. CASE q = r
    BY <1>10, <2>2, <2>5
  <2>. QED
    BY <1>2, <2>4, <2>5
<1>12. CyclesRight'
  BY <1>2, <1>10, <1>11 DEF CyclesRight, corrVars
<1>13. NeverACycleBehind'
  <2>1. \A i \in DOMAIN handled : \A d \in handled[i].deps :
           depCycle'[depConns[d.seq]] = depCycle[depConns[d.seq]]
    BY <1>9, AttributionShapes DEF AttributionInv, DepsRight
  <2>. QED
    BY <1>2, <2>1 DEF AttributionInv, NeverACycleBehind, ConnectsOf, corrVars
<1>. QED
  BY <1>1, <1>5, <1>6, <1>7, <1>8, <1>12, <1>13 DEF AttributionInv
\* A request is handled: it takes what is pending for its thread, none of which was
\* reported in a later turn.
LEMMA PollRequestStep ==
    ASSUME AttributionInv, NEW e \in reqEvents, PollRequest(e)
    PROVE  AttributionInv'
<1>1. TrackerInv' /\ CorrInv' /\ TrackerInv /\ CorrInv
  BY ComponentSteps DEF AttributionNext, AttributionInv
<1>2. PICK rss \in MemValues : HandleRequest([key |-> e.thread, mem |-> rss, correlated |-> FALSE])
  BY DEF PollRequest
<1>. DEFINE q == [key |-> e.thread, mem |-> rss, correlated |-> FALSE]
            p == BuildProfile(q)
<1>3. /\ UNCHANGED <<trackerVars, kernelVars, phase, due, cycle, depConns, depCount>>
      /\ reqEvents' \subseteq reqEvents
      /\ reqConns' = Append(reqConns, e.conn)
      /\ reqCycles' = Append(reqCycles, e.cycle)
      /\ handled' = Append(handled, p)
      /\ counter' = counter + 1
      /\ pendingDeps' = [pendingDeps EXCEPT ![e.thread] = {}]
  BY <1>2 DEF PollRequest, HandleRequest
<1>4. /\ e.conn \in 1..accepts /\ acceptor[e.conn] = e.thread /\ e.cycle \in 0..MaxCycles
      /\ e.thread \in Keys
      /\ \A b \in reqEvents' : b \in reqEvents
  BY <1>3, AttributionAssumption, AttributionShapes
     DEF AttributionInv, RequestsRight, AttributionTypeOK, ReqEvent
<1>5. p.key = e.thread /\ p.deps = pendingDeps[e.thread]
  BY DEF BuildProfile
<1>6. /\ reqConns' \in Seq(1..MaxAccepts) /\ DOMAIN reqConns' = 1..(counter + 1)
      /\ reqCycles' \in Seq(0..MaxCycles) /\ DOMAIN reqCycles' = 1..(counter + 1)
      /\ DOMAIN handled' = 1..(counter + 1)
      /\ \A i \in 1..counter : /\ reqConns'[i] = reqConns[i] /\ reqCycles'[i] = reqCycles[i]
                               /\ handled'[i] = handled[i]
      /\ reqConns'[counter + 1] = e.conn /\ reqCycles'[counter + 1] = e.cycle
      /\ handled'[counter + 1] = p
  <2>1. e.conn \in 1..MaxAccepts
    BY <1>1, <1>4, TrackerAssumption DEF TrackerInv, TrackerTypeOK
  <2>2. Len(reqConns) = counter /\ Len(reqCycles) = counter /\ Len(handled) = counter
    BY <1>1 DEF AttributionInv, AttributionTypeOK, CorrInv, IdsAndTimesInOrder
  <2>3. q \in RequestEvent
    BY <1>4 DEF RequestEvent
  <2>4. p \in Profile
    BY <1>1, <1>2, <2>3, HandledAfterRequest DEF CorrInv
  <2>. QED
    BY <1>3, <1>4, <2>1, <2>2, <2>4, AttributionShapes, AppendProperties, LenProperties
<1>7. AttributionTypeOK'
  <2>1. Len(reqConns') = counter' /\ Len(reqCycles') = counter'
    BY <1>3, <1>6, AttributionShapes, LenProperties
  <2>. QED
    BY <1>1, <1>3, <1>6, <2>1
       DEF TrackerInv, CorrInv, AttributionInv, AttributionTypeOK, trackerVars, kernelVars
<1>8. RequestsRight'
  BY <1>3, <1>4 DEF AttributionInv, RequestsRight, trackerVars, kernelVars
<1>9. \A k \in Keys : \A d \in pendingDeps'[k] : d \in pendingDeps[k]
  BY <1>1, <1>3 DEF CorrInv, CorrTypeOK
<1>10. DepsRight'
  <2>1. \A i \in DOMAIN handled' : \A d \in handled'[i].deps : d.seq \in 1..depCount
    <3>1. \A i \in 1..counter : \A d \in handled'[i].deps : d.seq \in 1..depCount
      BY <1>6, AttributionShapes DEF AttributionInv, DepsRight
    <3>2. \A d \in p.deps : d.seq \in 1..depCount
      BY <1>4, <1>5 DEF AttributionInv, DepsRight
    <3>3. \A i \in DOMAIN handled' : i \in 1..counter \/ i = counter + 1
      BY <1>6, AttributionShapes
    <3>4. handled'[counter + 1].deps = p.deps
      BY <1>6
    <3>. HIDE DEF p
    <3>. QED
      BY <3>1, <3>2, <3>3, <3>4
  <2>. QED
    BY <1>3, <1>9, <2>1 DEF AttributionInv, DepsRight, trackerVars
<1>11. ConnsRight'
  BY <1>3, <1>4, <1>6, AttributionShapes DEF AttributionInv, ConnsRight, trackerVars
<1>12. CyclesRight'
  BY <1>3, <1>4, <1>9 DEF AttributionInv, CyclesRight, kernelVars
<1>13. KeysRight'
  BY <1>3, <1>4, <1>5, <1>6, AttributionShapes DEF AttributionInv, KeysRight, kernelVars
<1>14. NeverACycleBehind'
  <2>1. \A i \in 1..counter : \A d \in handled'[i].deps : depCycle[depConns[d.seq]] <= reqCycles'[i]
    BY <1>6, AttributionShapes DEF AttributionInv, NeverACycleBehind, ConnectsOf
  <2>2. \A d \in p.deps : depCycle[depConns[d.seq]] <= e.cycle
    BY <1>4, <1>5 DEF AttributionInv, CyclesRight
  <2>3. \A i \in DOMAIN handled' : \A d \in handled'[i].deps :
           depCycle[depConns[d.seq]] <= reqCycles'[i]
    <3>1. \A i \in DOMAIN handled' : i \in 1..counter \/ i = counter + 1
      BY <1>6, AttributionShapes
    <3>2. handled'[counter + 1].deps = p.deps /\ reqCycles'[counter + 1] = e.cycle
      BY <1>6
    <3>. HIDE DEF p
    <3>. QED
      BY <2>1, <2>2, <3>1, <3>2
  <2>. QED
    BY <1>3, <2>3 DEF NeverACycleBehind, ConnectsOf, kernelVars
<1>. QED
  BY <1>1, <1>7, <1>8, <1>10, <1>11, <1>12, <1>13, <1>14 DEF AttributionInv

\* A dependency is handled: the request events still in the buffer are of this turn.
LEMMA PollDepStep ==
    ASSUME AttributionInv, NEW e \in depEvents, PollDep(e)
    PROVE  AttributionInv'
<1>1. TrackerInv' /\ CorrInv' /\ TrackerInv /\ CorrInv
  BY ComponentSteps DEF AttributionNext, AttributionInv
<1>. DEFINE n == [key |-> e.thread, start |-> mono, seq |-> depCount + 1]
<1>2. /\ UNCHANGED <<kernelVars, reqEvents, phase, due, cycle, reqConns, reqCycles, accepts,
                     connects, reported, handled, counter>>
      /\ depEvents' = depEvents \ {e}
      /\ depConns' = Append(depConns, e.conn)
      /\ depCount' = depCount + 1
      /\ pendingDeps' = [pendingDeps EXCEPT ![e.thread] = @ \cup {n}]
      /\ phase = "deps"
  BY DEF PollDep, TakeDepEvent, HandleDependency
<1>3. e \in reported /\ e.conn \in 1..MaxConnects
  BY <1>1, TrackerAssumption DEF TrackerInv, CountsRight, TrackerTypeOK
<1>4. /\ depConns' \in Seq(1..MaxConnects) /\ DOMAIN depConns' = 1..(depCount + 1)
      /\ Len(depConns') = depCount + 1
      /\ \A m \in 1..depCount : depConns'[m] = depConns[m]
      /\ depConns'[depCount + 1] = e.conn
  <2>1. Len(depConns) = depCount
    BY DEF AttributionInv, AttributionTypeOK
  <2>. QED
    BY <1>2, <1>3, <2>1, AttributionShapes, AppendProperties, LenProperties
<1>5. AttributionTypeOK'
  BY <1>1, <1>2, <1>4 DEF TrackerInv, CorrInv, AttributionInv, AttributionTypeOK, kernelVars
<1>6. (RequestsRight /\ ConnsRight /\ KeysRight)'
  BY <1>2 DEF AttributionInv, RequestsRight, ConnsRight, KeysRight, kernelVars
<1>7. \A k \in Keys : \A d \in pendingDeps'[k] : d \in pendingDeps[k] \/ d = n
  BY <1>1, <1>2 DEF CorrInv, CorrTypeOK
<1>8. DepsRight'
  <2>. DEFINE D == depConns'
  <2>0. /\ \A m \in DOMAIN D : m \in 1..depCount \/ m = depCount + 1
        /\ \A m \in 1..depCount : m \in DOMAIN depConns /\ D[m] = depConns[m]
        /\ D[depCount + 1] = e.conn
    BY <1>4, AttributionShapes
  <2>. HIDE DEF D
  <2>1. \A m \in DOMAIN D : \E d \in reported : d.conn = D[m]
    BY <1>3, <2>0 DEF AttributionInv, DepsRight
  <2>2. \A d \in depEvents' : d \in reported /\ d \in depEvents /\ d # e
    BY <1>1, <1>2 DEF TrackerInv, CountsRight
  <2>3. \A m \in DOMAIN D : \A d \in depEvents' : d.conn # D[m]
    BY <1>1, <1>3, <2>0, <2>2
       DEF AttributionInv, DepsRight, TrackerInv, ConnectReportedOnce
  <2>4. \A m, k \in DOMAIN D : D[m] = D[k] => m = k
    BY <2>0 DEF AttributionInv, DepsRight
  <2>5. \A k \in Keys : \A d \in pendingDeps'[k] : d.seq \in 1..depCount'
    BY <1>2, <1>7, AttributionShapes DEF AttributionInv, DepsRight
  <2>6. \A i \in DOMAIN handled' : \A d \in handled'[i].deps : d.seq \in 1..depCount'
    BY <1>2, AttributionShapes DEF AttributionInv, DepsRight
  <2>. QED
    BY <1>2, <2>1, <2>3, <2>4, <2>5, <2>6 DEF DepsRight, D
<1>9. CyclesRight'
  <2>1. ASSUME NEW k \in Keys, NEW d \in pendingDeps'[k], NEW b \in reqEvents
        PROVE  depCycle[depConns'[d.seq]] <= b.cycle
    <3>1. CASE d \in pendingDeps[k]
      BY <2>1, <3>1, <1>4 DEF AttributionInv, CyclesRight, DepsRight
    <3>2. CASE d = n
      <4>1. b.cycle = cycle
        BY <1>2 DEF AttributionInv, RequestsRight
      <4>2. depConns'[d.seq] = e.conn
        BY <1>4, <3>2
      <4>. QED
        BY <1>3, <4>1, <4>2 DEF AttributionInv, CyclesRight
    <3>. QED
      BY <1>7, <2>1, <3>1, <3>2
  <2>. QED
    BY <1>2, <2>1 DEF AttributionInv, CyclesRight, kernelVars
<1>10. NeverACycleBehind'
  <2>1. \A i \in DOMAIN handled : \A d \in handled[i].deps : depConns'[d.seq] = depConns[d.seq]
    BY <1>4 DEF AttributionInv, DepsRight
  <2>. QED
    BY <1>2, <2>1 DEF AttributionInv, NeverACycleBehind, ConnectsOf, kernelVars
<1>. QED
  BY <1>1, <1>5, <1>6, <1>8, <1>9, <1>10 DEF AttributionInv

\* The poll loop turns to the other buffer: it leaves no request event of an earlier turn.
LEMMA PhaseStep ==
    ASSUME AttributionInv, EndRequests \/ EndDeps
    PROVE  AttributionInv'
<1>1. TrackerInv' /\ CorrInv' /\ TrackerInv /\ CorrInv
  BY ComponentSteps DEF AttributionNext, AttributionInv
<1>2. UNCHANGED <<trackerVars, corrVars, kernelVars, reqEvents, reqConns, reqCycles, depConns>>
  BY DEF EndRequests, EndDeps
<1>3. cycle' \in 0..MaxCycles /\ cycle <= cycle' /\ phase' \in {"requests", "deps"}
      /\ due' \subseteq ReqEvent \cup DepEvent
  <2>1. cycle \in 0..MaxCycles /\ reqEvents \subseteq ReqEvent /\ depEvents \subseteq DepEvent
    BY <1>1 DEF AttributionInv, AttributionTypeOK, TrackerInv, TrackerTypeOK
  <2>2. \/ cycle' = cycle /\ phase' = "deps" /\ due' = depEvents
        \/ cycle' = cycle + 1 /\ cycle < MaxCycles /\ phase' = "requests" /\ due' = reqEvents
    BY DEF EndRequests, EndDeps
  <2>. QED
    BY <2>1, <2>2, AttributionAssumption
<1>4. AttributionTypeOK'
  BY <1>1, <1>2, <1>3
     DEF TrackerInv, CorrInv, AttributionInv, AttributionTypeOK, trackerVars, corrVars, kernelVars
<1>5. RequestsRight'
  <2>1. \A e \in reqEvents : e.cycle \in Nat
    BY DEF AttributionInv, AttributionTypeOK, ReqEvent
  <2>2. CASE EndRequests
    BY <1>2, <2>2 DEF EndRequests, AttributionInv, RequestsRight, trackerVars, kernelVars
  <2>3. CASE EndDeps
    BY <1>2, <1>3, <2>1, <2>3, AttributionShapes
       DEF EndDeps, AttributionInv, RequestsRight, trackerVars, kernelVars
  <2>. QED
    BY <2>2, <2>3
<1>6. \A c \in 1..MaxConnects : depCycle[c] \in Nat
  <2>1. depCycle \in [1..MaxConnects -> 0..MaxCycles]
    BY DEF AttributionInv, AttributionTypeOK
  <2>. QED
    BY <2>1, AttributionAssumption
<1>7. CyclesRight'
  BY <1>2, <1>3, <1>6, AttributionShapes, SMTT(30)
     DEF AttributionInv, CyclesRight, corrVars, kernelVars
<1>8. (DepsRight /\ ConnsRight /\ KeysRight /\ NeverACycleBehind)'
  BY <1>2 DEF AttributionInv, DepsRight, ConnsRight, KeysRight, NeverACycleBehind, ConnectsOf,
     trackerVars, corrVars, kernelVars
<1>. QED
  BY <1>1, <1>4, <1>5, <1>7, <1>8 DEF AttributionInv

\* A sweep only takes dependencies away.
LEMMA FlushThreadStep ==
    ASSUME AttributionInv, FlushThread
    PROVE  AttributionInv'
<1>1. TrackerInv' /\ CorrInv' /\ CorrInv
  BY ComponentSteps DEF AttributionNext, AttributionInv
<1>2. /\ UNCHANGED <<trackerVars, kernelVars, pollVars, counter, handled, depCount>>
      /\ \A k \in Keys : \A d \in pendingDeps'[k] : d \in pendingDeps[k]
  BY DEF FlushThread, CleanupStale
<1>3. AttributionTypeOK'
  BY <1>1, <1>2
     DEF TrackerInv, CorrInv, AttributionInv, AttributionTypeOK, trackerVars, kernelVars, pollVars
<1>4. (RequestsRight /\ DepsRight /\ ConnsRight /\ CyclesRight /\ KeysRight /\ NeverACycleBehind)'
  BY <1>2 DEF AttributionInv, RequestsRight, DepsRight, ConnsRight, CyclesRight,
     KeysRight, NeverACycleBehind, ConnectsOf, trackerVars, kernelVars, pollVars
<1>. QED
  BY <1>1, <1>3, <1>4 DEF AttributionInv

-----------------------------------------------------------------------------
\* The invariant of the probes, the buffers, the poll loop and the correlator together.
THEOREM AttributionInvariant == AttributionSpec => []AttributionInv
<1>1. ASSUME AttributionInv, [AttributionNext]_attributionVars PROVE AttributionInv'
  <2>1. CASE UNCHANGED attributionVars
    <3>1. TrackerInv' /\ CorrInv'
      BY <1>1, ComponentSteps
    <3>2. UNCHANGED <<trackerVars, corrVars, pollVars, kernelVars>>
      BY <2>1 DEF attributionVars
    <3>3. AttributionTypeOK'
      BY <1>1, <3>1, <3>2 DEF TrackerInv, CorrInv, AttributionInv, AttributionTypeOK,
         trackerVars, corrVars, kernelVars, pollVars
    <3>4. (RequestsRight /\ DepsRight /\ ConnsRight /\ CyclesRight /\ KeysRight
             /\ NeverACycleBehind)'
      BY <1>1, <3>2 DEF AttributionInv, RequestsRight, DepsRight, ConnsRight, CyclesRight,
         KeysRight, NeverACycleBehind, ConnectsOf, trackerVars, corrVars, kernelVars, pollVars
    <3>. QED
      BY <3>1, <3>3, <3>4 DEF AttributionInv
  <2>. QED
    BY <1>1, <2>1, ProbeStep, AcceptStep, CloseStep, PollRequestStep, PollDepStep, PhaseStep,
       FlushThreadStep DEF AttributionNext
<1>. QED
  BY <1>1, AttributionInitInv, PTL DEF AttributionSpec

\* The state of the whole path is well typed.
THEOREM AttributionTypeCorrect == AttributionSpec => []AttributionTypeOK
  BY AttributionInvariant, PTL DEF AttributionInv

\* However connects, closes and retries of threads that share sockets interleave, a
\* connect is reported once and not remembered afterwards.
THEOREM ConnectReportedOnceCorrect == AttributionSpec => []ConnectReportedOnce
<1>1. AttributionInv => ConnectReportedOnce
  BY DEF AttributionInv, TrackerInv
<1>. QED
  BY <1>1, AttributionInvariant, PTL

\* From the probe to the profile, a connect is given to one request at most.
THEOREM ConnectInOneProfileCorrect == AttributionSpec => []ConnectInOneProfile
<1>1. ASSUME AttributionInv PROVE ConnectInOneProfile
  <2>1. SUFFICES ASSUME NEW i \in DOMAIN handled, NEW j \in DOMAIN handled,
                        NEW c \in handled[i].deps, NEW d \in handled[j].deps,
                        depConns[c.seq] = depConns[d.seq]
                 PROVE  i = j
    BY DEF ConnectInOneProfile, ConnectsOf
  <2>2. c.seq \in DOMAIN depConns /\ d.seq \in DOMAIN depConns
    BY <1>1, AttributionShapes DEF AttributionInv, DepsRight
  <2>3. c.seq = d.seq
    BY <1>1, <2>1, <2>2 DEF AttributionInv, DepsRight
  <2>. QED
    BY <1>1, <2>3 DEF AttributionInv, CorrInv, DepsUsedOnce
<1>. QED
  BY <1>1, AttributionInvariant, PTL

\* No request is given a dependency reported a turn of the poll loop after it ended.
THEOREM NeverACycleBehindCorrect == AttributionSpec => []NeverACycleBehind
  BY AttributionInvariant, PTL DEF AttributionInv

-----------------------------------------------------------------------------
\* The thread that made a connect is the thread that remembers it, the thread of its
\* event, the key it is pending under and the key of the profile that takes it.
MakersRight ==
    /\ \A t \in Threads : activeConnects[t] # None => maker[activeConnects[t]] = t
    /\ \A e \in reported : maker[e.conn] = e.thread
    /\ \A k \in Keys : \A d \in pendingDeps[k] : maker[depConns[d.seq]] = k
    /\ \A i \in DOMAIN handled : \A d \in handled[i].deps : maker[depConns[d.seq]] = handled[i].key

\* The connects that anything is recorded of were made.
LEMMA ConnectsMade ==
    ASSUME AttributionInv
    PROVE  /\ \A t \in Threads : activeConnects[t] # None => activeConnects[t] \in 1..connects
           /\ \A e \in reported : e.conn \in 1..connects /\ e.thread \in Threads
           /\ \A k \in Keys : \A d \in pendingDeps[k] :
                d.seq \in 1..depCount /\ depConns[d.seq] \in 1..connects
           /\ \A i \in DOMAIN handled : \A d \in handled[i].deps :
                d.seq \in 1..depCount /\ depConns[d.seq] \in 1..connects
<1>1. /\ \A t \in Threads : activeConnects[t] \in 0..connects
      /\ \A e \in reported : e.conn \in 1..connects /\ e.thread \in Threads
  BY DEF AttributionInv, TrackerInv, CountsRight, TrackerTypeOK, DepEvent
<1>2. \A m \in 1..depCount : depConns[m] \in 1..connects
  BY <1>1, AttributionShapes DEF AttributionInv, DepsRight
<1>. QED
  BY <1>1, <1>2, AttributionShapes DEF AttributionInv, DepsRight, None

\* Every step keeps it so.
LEMMA MakersStep ==
    ASSUME AttributionInv, MakersRight, [AttributionNext]_attributionVars
    PROVE  MakersRight'
<1>1. ASSUME UNCHANGED <<maker, activeConnects, reported, pendingDeps, depConns, handled>>
      PROVE  MakersRight'
  BY <1>1 DEF MakersRight
<1>2. CASE \/ UNCHANGED attributionVars \/ EndRequests \/ EndDeps
           \/ \E t \in Threads, s \in Sockets : Accept(t, s)
  BY <1>1, <1>2 DEF attributionVars, EndRequests, EndDeps, Accept, AcceptConnection,
     trackerVars, corrVars, pollVars, kernelVars
<1>3. ASSUME NEW t \in Threads, NEW s \in Sockets, NEW inet \in BOOLEAN, Connect(t, s, inet)
      PROVE  MakersRight'
  <2>1. /\ UNCHANGED <<reported, pendingDeps, depConns, handled>>
        /\ maker' = Append(maker, t)
        /\ activeConnects' \in {activeConnects, [activeConnects EXCEPT ![t] = connects + 1]}
    BY <1>3 DEF Connect, ConnectEntry, corrVars, pollVars
  <2>2. Len(maker) = connects /\ maker \in Seq(Threads) /\ connects \in Nat
    BY AttributionShapes DEF AttributionInv, AttributionTypeOK
  <2>3. maker'[connects + 1] = t /\ \A c \in 1..connects : maker'[c] = maker[c]
    BY <2>1, <2>2, AppendProperties
  <2>4. \A u \in Threads : activeConnects'[u] = activeConnects[u]
                           \/ (u = t /\ activeConnects'[u] = connects + 1)
    BY <2>1 DEF AttributionInv, TrackerInv, TrackerTypeOK
  <2>5. \A u \in Threads : activeConnects'[u] # None => maker'[activeConnects'[u]] = u
    BY <2>3, <2>4, ConnectsMade DEF MakersRight
  <2>6. \A e \in reported : maker'[e.conn] = e.thread
    BY <2>3, ConnectsMade DEF MakersRight
  <2>7. \A k \in Keys : \A d \in pendingDeps[k] : maker'[depConns[d.seq]] = k
    BY <2>3, ConnectsMade DEF MakersRight
  <2>8. \A i \in DOMAIN handled : \A d \in handled[i].deps : maker'[depConns[d.seq]] = handled[i].key
    BY <2>3, ConnectsMade DEF MakersRight
  <2>. QED
    BY <2>1, <2>5, <2>6, <2>7, <2>8 DEF MakersRight
<1>4. ASSUME NEW t \in Threads, NEW fails \in BOOLEAN, Connected(t, fails) PROVE MakersRight'
  <2>1. /\ UNCHANGED <<maker, reported, pendingDeps, depConns, handled>>
        /\ activeConnects' \in {activeConnects, [activeConnects EXCEPT ![t] = None]}
    BY <1>4 DEF Connected, ConnectReturn, corrVars, pollVars, kernelVars
  <2>2. \A u \in Threads : activeConnects'[u] # None => activeConnects'[u] = activeConnects[u]
    BY <2>1 DEF AttributionInv, TrackerInv, TrackerTypeOK
  <2>. QED
    BY <2>1, <2>2 DEF MakersRight
<1>5. ASSUME NEW t \in Threads, NEW s \in Sockets, Close(t, s) PROVE MakersRight'
  <2>1. /\ UNCHANGED <<maker, pendingDeps, depConns, handled>>
        /\ activeConnects' = [activeConnects EXCEPT ![t] = None]
        /\ \A e \in reported' : \/ e \in reported
                                \/ /\ activeConnects[t] # None
                                   /\ e.conn = activeConnects[t] /\ e.thread = t
    BY <1>5 DEF Close, CloseSocket, Report, corrVars
  <2>2. \A u \in Threads : activeConnects'[u] # None => activeConnects'[u] = activeConnects[u]
    BY <2>1 DEF AttributionInv, TrackerInv, TrackerTypeOK
  <2>3. \A e \in reported' : maker[e.conn] = e.thread
    BY <2>1 DEF MakersRight
  <2>. QED
    BY <2>1, <2>2, <2>3 DEF MakersRight
<1>6. ASSUME NEW e \in reqEvents, PollRequest(e) PROVE MakersRight'
  <2>1. PICK rss \in MemValues : HandleRequest([key |-> e.thread, mem |-> rss, correlated |-> FALSE])
    BY <1>6 DEF PollRequest
  <2>. DEFINE p == BuildProfile([key |-> e.thread, mem |-> rss, correlated |-> FALSE])
  <2>2. /\ UNCHANGED <<maker, activeConnects, reported, depConns>>
        /\ handled' = Append(handled, p)
        /\ pendingDeps' = [pendingDeps EXCEPT ![e.thread] = {}]
    BY <1>6, <2>1 DEF PollRequest, HandleRequest, trackerVars, kernelVars
  <2>3. p.key = e.thread /\ p.deps = pendingDeps[e.thread] /\ e.thread \in Keys
    BY AttributionAssumption DEF BuildProfile, AttributionInv, AttributionTypeOK, ReqEvent
  <2>. HIDE DEF p
  <2>4. \A k \in Keys : \A d \in pendingDeps'[k] : d \in pendingDeps[k]
    BY <2>2 DEF AttributionInv, CorrInv, CorrTypeOK
  <2>5. /\ \A i \in DOMAIN handled' : i \in DOMAIN handled \/ i = counter + 1
        /\ \A i \in DOMAIN handled : handled'[i] = handled[i]
        /\ handled'[counter + 1] = p
    <3>1. Len(handled) = counter
      BY DEF AttributionInv, CorrInv, IdsAndTimesInOrder
    <3>. QED
      BY <2>2, <3>1, AttributionShapes
  <2>6. \A i \in DOMAIN handled' : \A d \in handled'[i].deps : maker[depConns[d.seq]] = handled'[i].key
    BY <2>3, <2>5 DEF MakersRight
  <2>. QED
    BY <2>2, <2>4, <2>6 DEF MakersRight
<1>7. ASSUME NEW e \in depEvents, PollDep(e) PROVE MakersRight'
  <2>. DEFINE n == [key |-> e.thread, start |-> mono, seq |-> depCount + 1]
  <2>1. /\ UNCHANGED <<maker, activeConnects, reported, handled>>
        /\ depConns' = Append(depConns, e.conn)
        /\ pendingDeps' = [pendingDeps EXCEPT ![e.thread] = @ \cup {n}]
    BY <1>7 DEF PollDep, TakeDepEvent, HandleDependency, kernelVars
  <2>2. e \in reported
    BY DEF AttributionInv, TrackerInv, CountsRight
  <2>3. Len(depConns) = depCount /\ depConns \in Seq(1..MaxConnects) /\ depCount \in Nat
    BY AttributionShapes DEF AttributionInv, AttributionTypeOK
  <2>4. depConns'[depCount + 1] = e.conn /\ \A m \in 1..depCount : depConns'[m] = depConns[m]
    BY <2>1, <2>3, AppendProperties
  <2>5. \A k \in Keys : \A d \in pendingDeps'[k] : d \in pendingDeps[k] \/ (k = e.thread /\ d = n)
    BY <2>1 DEF AttributionInv, CorrInv, CorrTypeOK
  <2>6. maker[depConns'[n.seq]] = e.thread
    BY <2>2, <2>4 DEF MakersRight
  <2>. HIDE DEF n
  <2>7. \A k \in Keys : \A d \in pendingDeps'[k] : maker[depConns'[d.seq]] = k
    BY <2>4, <2>5, <2>6, ConnectsMade DEF MakersRight
  <2>8. \A i \in DOMAIN handled : \A d \in handled[i].deps : maker[depConns'[d.seq]] = handled[i].key
    BY <2>4, ConnectsMade DEF MakersRight
  <2>. QED
    BY <2>1, <2>7, <2>8 DEF MakersRight
<1>8. CASE FlushThread
  <2>1. /\ UNCHANGED <<maker, activeConnects, reported, depConns, handled>>
        /\ \A k \in Keys : \A d \in pendingDeps'[k] : d \in pendingDeps[k]
    BY <1>8 DEF FlushThread, CleanupStale, trackerVars, kernelVars, pollVars
  <2>. QED
    BY <2>1 DEF MakersRight
<1>. QED
  BY <1>2, <1>3, <1>4, <1>5, <1>6, <1>7, <1>8 DEF AttributionNext

\* A request is only given connects made by the thread that accepted its connection.
THEOREM OnlyByAcceptorCorrect == AttributionSpec => []OnlyByAcceptor
<1>1. AttributionInit => MakersRight
  BY DEF AttributionInit, TrackerInit, CorrInit, MakersRight
<1>2. AttributionInv /\ MakersRight /\ [AttributionNext]_attributionVars => MakersRight'
  BY MakersStep
<1>3. AttributionInv /\ MakersRight => OnlyByAcceptor
  BY DEF AttributionInv, KeysRight, MakersRight, OnlyByAcceptor, ConnectsOf
<1>. QED
  BY <1>1, <1>2, <1>3, AttributionInvariant, PTL DEF AttributionSpec

-----------------------------------------------------------------------------
\* What a thread remembers, and what it has reported, was its last connect at the time
\* but for those of sockets the tracker does not follow.
LatestRight ==
    /\ \A t \in Threads : activeConnects[t] # None =>
          \A c \in (activeConnects[t] + 1)..connects : maker[c] = t => c \in untracked
    /\ \A e \in reported : e.at \in 0..connects
    /\ OnlyLatestReported

\* Every step keeps it so: a connect that is followed replaces what was remembered.
LEMMA LatestStep ==
    ASSUME AttributionInv, LatestRight, [AttributionNext]_attributionVars
    PROVE  LatestRight'
<1>0. /\ connects \in Nat
      /\ \A t \in Threads : activeConnects[t] \in 0..connects
      /\ \A e \in reported : e.conn \in 1..connects /\ e.at \in 0..connects
  BY AttributionShapes DEF AttributionInv, TrackerInv, CountsRight, LatestRight
<1>1. ASSUME UNCHANGED <<maker, connects, untracked, reported>>,
             \A t \in Threads : activeConnects'[t] # None => activeConnects'[t] = activeConnects[t]
      PROVE  LatestRight'
  BY <1>1 DEF LatestRight, OnlyLatestReported
<1>2. CASE \/ UNCHANGED attributionVars \/ EndRequests \/ EndDeps \/ FlushThread
           \/ \E t \in Threads, s \in Sockets : Accept(t, s)
           \/ \E e \in reqEvents : PollRequest(e)
           \/ \E e \in depEvents : PollDep(e)
  BY <1>1, <1>2 DEF attributionVars, EndRequests, EndDeps, Accept, AcceptConnection,
     PollRequest, PollDep, TakeDepEvent, FlushThread, trackerVars, kernelVars
<1>3. ASSUME NEW t \in Threads, NEW s \in Sockets, NEW inet \in BOOLEAN, Connect(t, s, inet)
      PROVE  LatestRight'
  <2>1. /\ reported' = reported /\ connects' = connects + 1
        /\ maker' = Append(maker, t)
        /\ activeConnects' = IF inet THEN [activeConnects EXCEPT ![t] = connects + 1]
                                     ELSE activeConnects
        /\ untracked' = IF inet THEN untracked ELSE untracked \cup {connects + 1}
    BY <1>3 DEF Connect, ConnectEntry
  <2>2. Len(maker) = connects /\ maker \in Seq(Threads)
    BY DEF AttributionInv, AttributionTypeOK
  <2>3. maker'[connects + 1] = t /\ \A c \in 1..connects : maker'[c] = maker[c]
    BY <1>0, <2>1, <2>2, AppendProperties
  <2>4. \A u \in Threads : activeConnects'[u] = IF u = t /\ inet THEN connects + 1
                                                               ELSE activeConnects[u]
    BY <2>1 DEF AttributionInv, TrackerInv, TrackerTypeOK
  <2>5. ASSUME NEW u \in Threads, activeConnects'[u] # None,
               NEW c \in (activeConnects'[u] + 1)..connects', maker'[c] = u
        PROVE  c \in untracked'
    <3>1. ~ (u = t /\ inet) /\ activeConnects[u] # None
          /\ c \in (activeConnects[u] + 1)..(connects + 1)
      BY <1>0, <2>1, <2>4, <2>5
    <3>2. CASE c = connects + 1
      BY <2>1, <2>3, <2>5, <3>1, <3>2
    <3>3. CASE c \in (activeConnects[u] + 1)..connects
      <4>1. c \in 1..connects
        BY <1>0, <3>3
      <4>2. c \in untracked
        BY <2>3, <2>5, <3>1, <3>3, <4>1 DEF LatestRight
      <4>. QED
        BY <2>1, <4>2
    <3>. QED
      BY <1>0, <3>1, <3>2, <3>3
  <2>6. ASSUME NEW e \in reported, NEW c \in (e.conn + 1)..e.at, maker'[c] = e.thread
        PROVE  c \in untracked'
    <3>1. c \in 1..connects
      BY <1>0
    <3>2. c \in untracked
      BY <2>3, <2>6, <3>1 DEF LatestRight, OnlyLatestReported
    <3>. QED
      BY <2>1, <3>2
  <2>7. \A e \in reported : e.at \in 0..connects'
    BY <1>0, <2>1
  <2>. QED
    BY <2>1, <2>5, <2>6, <2>7 DEF LatestRight, OnlyLatestReported
<1>4. ASSUME NEW t \in Threads, NEW fails \in BOOLEAN, Connected(t, fails) PROVE LatestRight'
  <2>1. /\ UNCHANGED <<maker, connects, untracked, reported>>
        /\ activeConnects' \in {activeConnects, [activeConnects EXCEPT ![t] = None]}
    BY <1>4 DEF Connected, ConnectReturn, kernelVars
  <2>2. \A u \in Threads : activeConnects'[u] # None => activeConnects'[u] = activeConnects[u]
    BY <2>1 DEF AttributionInv, TrackerInv, TrackerTypeOK
  <2>. QED
    BY <1>1, <2>1, <2>2
<1>5. ASSUME NEW t \in Threads, NEW s \in Sockets, Close(t, s) PROVE LatestRight'
  <2>. DEFINE r == [thread |-> t, conn |-> activeConnects[t], at |-> connects]
  <2>1. /\ UNCHANGED <<maker, connects, untracked>>
        /\ activeConnects' = [activeConnects EXCEPT ![t] = None]
        /\ \A e \in reported' : e \in reported \/ (activeConnects[t] # None /\ e = r)
    BY <1>5 DEF Close, CloseSocket, Report
  <2>2. \A u \in Threads : activeConnects'[u] # None => activeConnects'[u] = activeConnects[u]
    BY <2>1 DEF AttributionInv, TrackerInv, TrackerTypeOK
  <2>3. r.at \in 0..connects
        /\ (activeConnects[t] # None =>
              \A c \in (r.conn + 1)..r.at : maker[c] = r.thread => c \in untracked)
    BY <1>0 DEF LatestRight
  <2>. HIDE DEF r
  <2>. QED
    BY <2>1, <2>2, <2>3 DEF LatestRight, OnlyLatestReported
<1>. QED
  BY <1>2, <1>3, <1>4, <1>5 DEF AttributionNext

\* What a close reports is the last connect its thread attempted over IPv4.
THEOREM OnlyLatestReportedCorrect == AttributionSpec => []OnlyLatestReported
<1>1. AttributionInit => LatestRight
  BY DEF AttributionInit, TrackerInit, LatestRight, OnlyLatestReported
<1>2. AttributionInv /\ LatestRight /\ [AttributionNext]_attributionVars => LatestRight'
  BY LatestStep
<1>3. LatestRight => OnlyLatestReported
  BY DEF LatestRight
<1>. QED
  BY <1>1, <1>2, <1>3, AttributionInvariant, PTL DEF AttributionSpec
=============================================================================
