----------------------------- MODULE RemoteWrite -----------------------------
(***************************************************************************)
(* store/remote_write.py: the RemoteWriteClient.  The daemon's flush       *)
(* thread queues lines, five for each request; the push thread takes a     *)
(* batch every flush_interval and sends it, with retries; and stop() sends *)
(* one more batch from the main thread.  stop() runs in the signal handler *)
(* and again when the poll loop has ended, and the handler may interrupt   *)
(* the main thread anywhere, in an earlier stop() too: the main thread is  *)
(* a stack of calls of stop().                                             *)
(*                                                                         *)
(* running stands for the flags of the daemon, the collector and the       *)
(* client, which stop() clears in one go; the module begins when the poll  *)
(* loop has begun.                                                         *)
(*                                                                         *)
(* Lines are numbered in the order they are queued.  The counters that     *)
(* only the stats property reads are left out.                             *)
(***************************************************************************)
EXTENDS Integers, SequencesExt

CONSTANTS
    QueueSize,        \* the maxlen of _queue
    BatchLines,       \* batch_size * 5
    LinesPerRequest,  \* samples of one request
    MaxRetries,       \* max_retries
    MaxLines,         \* bound: lines queued
    MaxSignals        \* bound: SIGTERM and SIGINT received

ASSUME RemoteWriteAssumption ==
    /\ QueueSize \in Nat /\ MaxLines \in Nat /\ MaxSignals \in Nat
    /\ BatchLines \in Nat \ {0} /\ LinesPerRequest \in Nat \ {0}
    /\ MaxRetries \in Nat \ {0}

VARIABLES
    queue,        \* _queue
    lock,         \* _lock: whether a stop() of the main thread holds it
    running,      \* _running of the client
    push,         \* the push thread: where it is, its batch and its attempt
    main,         \* the main thread, below every stop()
    stops,        \* the calls of stop() on its stack, the innermost last
    signals,      \* history: signals received
    queued,       \* history: number of lines queued
    dropped,      \* history: lines the full queue lost
    copies,       \* history: per line, how often the server stored it
    acked,        \* history: lines whose batch was acknowledged
    givenUp       \* history: lines whose batch was dropped after the last retry

wire == <<copies, acked, givenUp>>
vars == <<queue, lock, running, push, main, stops, signals, queued, dropped, wire>>

Lines == 1..MaxLines
Least(a, b) == IF a <= b THEN a ELSE b


WriterTypeOK ==
    /\ queue \in Seq(Lines) /\ Len(queue) <= QueueSize
    /\ lock \in BOOLEAN
    /\ running \in BOOLEAN
    /\ push.at \in {"top", "sleep", "take", "send", "ended"}
    /\ push.batch \in Seq(Lines)
    /\ push.attempt \in 0..(MaxRetries - 1)
    /\ main \in {"polling", "stopping", "exited"}
    /\ \A i \in DOMAIN stops :
        /\ stops[i].at \in {"join", "take", "locked", "send", "returned"}
        /\ stops[i].batch \in Seq(Lines)
        /\ stops[i].attempt \in 0..(MaxRetries - 1)
    /\ signals \in 0..MaxSignals
    /\ queued \in 0..MaxLines
    /\ copies \in [Lines -> Nat]
    /\ dropped \cup acked \cup givenUp \subseteq Lines

Init ==
    /\ queue = <<>>
    /\ lock = FALSE
    /\ running = TRUE
    /\ push = [at |-> "top", batch |-> <<>>, attempt |-> 0]
    /\ main = "polling"
    /\ stops = <<>>
    /\ signals = 0
    /\ queued = 0
    /\ dropped = {}
    /\ copies = [l \in Lines |-> 0]
    /\ acked = {}
    /\ givenUp = {}

Alive == main # "exited"

-----------------------------------------------------------------------------
\* Mutant: the deque has no maxlen.
KeptUnbounded(s) == s

\* Mutant: a full queue refuses new lines.
KeptOldest(s) == SubSeq(s, 1, Least(Len(s), QueueSize))

\* What deque(maxlen = QueueSize) keeps of s.
Kept(s) == SubSeq(s, Len(s) - Least(Len(s), QueueSize) + 1, Len(s))

\* enqueue_requests, called by the daemon's flush thread for n requests.
EnqueueRequests(n) ==
    LET new == [i \in 1..(n * LinesPerRequest) |-> queued + i] IN
    /\ Alive
    /\ ~ lock
    /\ queued + n * LinesPerRequest <= MaxLines
    /\ queued' = queued + n * LinesPerRequest
    /\ queue' = Kept(queue \o new)
    /\ dropped' = dropped \cup ((ToSet(queue) \cup ToSet(new)) \ ToSet(queue'))
    /\ UNCHANGED <<lock, running, push, main, stops, signals, wire>>

\* Mutant: a batch is copied out of the queue and stays there.
BatchTakenStays(batch) ==
    /\ batch = SubSeq(queue, 1, Least(BatchLines, Len(queue)))
    /\ UNCHANGED queue

\* Mutant: nothing is taken until a whole batch has come together.
BatchTakenFull(batch) ==
    /\ batch = IF Len(queue) >= BatchLines THEN SubSeq(queue, 1, BatchLines) ELSE <<>>
    /\ queue' = IF Len(queue) >= BatchLines
                THEN SubSeq(queue, BatchLines + 1, Len(queue)) ELSE queue

\* The part of _flush under the lock: at most one batch leaves the queue.
BatchTaken(batch) ==
    /\ batch = SubSeq(queue, 1, Least(BatchLines, Len(queue)))
    /\ queue' = SubSeq(queue, Len(batch) + 1, Len(queue))

\* One attempt of _send and what the server made of it.  "lost": the server stored
\* the lines and its answer came too late or said otherwise.
Outcomes == {"stored", "lost", "failed"}

Attempted(batch, outcome) ==
    copies' = IF outcome = "failed" THEN copies
              ELSE [l \in Lines |-> IF l \in ToSet(batch) THEN copies[l] + 1 ELSE copies[l]]

\* Mutant: one retry too many.
LastAttemptLate(attempt) == attempt = MaxRetries

LastAttempt(attempt) == attempt = MaxRetries - 1

\* Whether _send returns after the attempt, and where the lines of the batch are then.
SendReturns(batch, attempt, outcome) ==
    /\ outcome = "stored" \/ LastAttempt(attempt)
    /\ acked' = IF outcome = "stored" THEN acked \cup ToSet(batch) ELSE acked
    /\ givenUp' = IF outcome = "stored" THEN givenUp ELSE givenUp \cup ToSet(batch)

SendRetries(attempt, outcome) ==
    /\ outcome # "stored"
    /\ ~ LastAttempt(attempt)
    /\ UNCHANGED <<acked, givenUp>>

-----------------------------------------------------------------------------
(* The push thread. *)

PushStep(from, to) ==
    /\ Alive
    /\ push.at = from
    /\ push' = [push EXCEPT !.at = to]
    /\ UNCHANGED <<queue, lock, running, main, stops, signals, queued, dropped, wire>>

PushTop == PushStep("top", IF running THEN "sleep" ELSE "ended")
PushWake == PushStep("sleep", "take")

PushTake ==
    /\ Alive
    /\ push.at = "take"
    /\ ~ lock
    /\ \E n \in 0..Len(queue) : LET batch == SubSeq(queue, 1, n) IN
        /\ BatchTaken(batch)
        /\ push' = IF batch = <<>> THEN [push EXCEPT !.at = "top"]
                   ELSE [at |-> "send", batch |-> batch, attempt |-> 0]
    /\ UNCHANGED <<lock, running, main, stops, signals, queued, dropped, wire>>

PushSend(outcome) ==
    /\ Alive
    /\ push.at = "send"
    /\ Attempted(push.batch, outcome)
    /\ \/ /\ SendReturns(push.batch, push.attempt, outcome)
          /\ push' = [at |-> "top", batch |-> <<>>, attempt |-> 0]
       \/ /\ SendRetries(push.attempt, outcome)
          /\ push' = [push EXCEPT !.attempt = @ + 1]
    /\ UNCHANGED <<queue, lock, running, main, stops, signals, queued, dropped>>

PushNext == PushTop \/ PushWake \/ PushTake \/ \E o \in Outcomes : PushSend(o)

-----------------------------------------------------------------------------
(* The main thread. *)

\* A call of stop().
Stop == [at |-> "join", batch |-> <<>>, attempt |-> 0]

\* The handler of a signal runs stop() on top of whatever the main thread does.
Signal ==
    /\ Alive
    /\ signals < MaxSignals
    /\ signals' = signals + 1
    /\ stops' = Append(stops, Stop)
    /\ running' = FALSE
    /\ UNCHANGED <<queue, lock, push, main, queued, dropped, wire>>

\* The poll loop ends once a stop() has cleared its flag; finally runs stop() again.
PollLoopEnds ==
    /\ main = "polling"
    /\ stops = <<>>
    /\ ~ running
    /\ main' = "stopping"
    /\ stops' = <<Stop>>
    /\ UNCHANGED <<queue, lock, running, push, signals, queued, dropped, wire>>

\* Only the innermost call of stop() gets on.
Top == stops[Len(stops)]
InStop(at) == Alive /\ stops # <<>> /\ Top.at = at
Continue(call) == stops' = [stops EXCEPT ![Len(stops)] = call]

\* join(timeout=5.0) returns, whether or not the push thread has ended: it sleeps for
\* as long as that, and its retries take longer.
JoinReturns ==
    /\ InStop("join")
    /\ Continue([Top EXCEPT !.at = "take"])
    /\ UNCHANGED <<queue, lock, running, push, main, signals, queued, dropped, wire>>

\* _flush enters the lock.  It is not reentrant.
StopLocks ==
    /\ InStop("take")
    /\ ~ lock
    /\ lock' = TRUE
    /\ Continue([Top EXCEPT !.at = "locked"])
    /\ UNCHANGED <<queue, running, push, main, signals, queued, dropped, wire>>

\* Mutant: the early return of an empty queue forgets the lock.
ReleasedIfAny(batch) == lock' = (batch = <<>>)

\* Leaving the with statement releases the lock, however it is left.
Released(batch) == lock' = FALSE

StopTakes ==
    /\ InStop("locked")
    /\ \E n \in 0..Len(queue) : LET batch == SubSeq(queue, 1, n) IN
        /\ BatchTaken(batch)
        /\ Released(batch)
        /\ Continue([Top EXCEPT !.at = IF batch = <<>> THEN "returned" ELSE "send",
                                !.batch = batch])
    /\ UNCHANGED <<running, push, main, signals, queued, dropped, wire>>

StopSends(outcome) ==
    /\ InStop("send")
    /\ Attempted(Top.batch, outcome)
    /\ \/ /\ SendReturns(Top.batch, Top.attempt, outcome)
          /\ Continue([Top EXCEPT !.at = "returned", !.batch = <<>>, !.attempt = 0])
       \/ /\ SendRetries(Top.attempt, outcome)
          /\ Continue([Top EXCEPT !.attempt = @ + 1])
    /\ UNCHANGED <<queue, lock, running, push, main, signals, queued, dropped>>

\* stop() returns to what it interrupted; when it is the last one, of finally, the
\* process ends and its daemon threads with it.
StopReturns ==
    /\ InStop("returned")
    /\ stops' = Front(stops)
    /\ main' = IF main = "stopping" /\ Len(stops) = 1 THEN "exited" ELSE main
    /\ UNCHANGED <<queue, lock, running, push, signals, queued, dropped, wire>>

MainNext == PollLoopEnds \/ JoinReturns \/ StopLocks \/ StopTakes \/ StopReturns
                \/ \E o \in Outcomes : StopSends(o)

Next ==
    \/ \E n \in 1..MaxLines : EnqueueRequests(n)
    \/ PushNext
    \/ MainNext
    \/ Signal

Spec == Init /\ [][Next]_vars

\* Both threads get the processor; sleeps, joins and requests to the server end by
\* their timeouts.  Nothing makes the server answer or a signal arrive.
FairSpec == Spec /\ WF_vars(PushNext) /\ WF_vars(MainNext)

-----------------------------------------------------------------------------
\* The lines in the hands of the push thread and of the calls of stop().
InHand == ToSet(push.batch) \cup UNION {ToSet(stops[i].batch) : i \in DOMAIN stops}

\* Every line that was ever queued is in exactly one place: waiting, in one thread's
\* hands, acknowledged, or lost in one of the two ways the code has of losing lines.
EveryLineAccounted ==
    LET places == <<ToSet(queue), InHand, acked, givenUp, dropped>>
    IN  /\ UNION {places[i] : i \in 1..5} = 1..queued
        /\ \A i, j \in 1..5 : i # j => places[i] \cap places[j] = {}

\* The queue is what is left of the newest lines, in order: a full queue loses the
\* oldest lines, and what a thread takes is older than what it leaves.
QueueIsNewest ==
    /\ \A i \in DOMAIN queue : queue[i] = queued - Len(queue) + i
    /\ \A l \in dropped : l <= queued - Len(queue)

\* The server stores no line that is still waiting, every line that was acknowledged,
\* and none of them more often than max_retries times.
BoundedDuplication ==
    /\ \A l \in Lines : copies[l] <= MaxRetries
    /\ \A l \in acked : copies[l] > 0
    /\ \A l \in ToSet(queue) \cup dropped : copies[l] = 0

\* A line that waits is taken, unless the agent is told to stop.
LinesAreTaken ==
    \A l \in Lines : l \in ToSet(queue) ~> (l \notin ToSet(queue) \/ ~ running)

\* What AgentDaemon.stop promises, to stop the agent: a stop ends the process,
\* whatever the server does.
StopEndsAgent == ~ running ~> main = "exited"

\* It does when no second signal comes: the stop() of finally runs after that of the
\* handler has given the lock back.
LoneStopEndsAgent == ~ running ~> (main = "exited" \/ signals > 1)
=============================================================================
