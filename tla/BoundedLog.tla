----------------------------- MODULE BoundedLog -----------------------------
(***************************************************************************)
(* What the agent promises its readers, whatever threads, locks and        *)
(* timers it is built from: requests are accepted one at a time, become    *)
(* visible in the order they were accepted, and the log shows the last     *)
(* Size of those that are visible.  Nothing is shown twice, out of order   *)
(* or ahead of an earlier request, and nothing but age removes an entry.   *)
(***************************************************************************)
EXTENDS Integers, Sequences

CONSTANT Size

VARIABLES
    queue,     \* accepted, not yet visible
    log        \* visible, oldest first

\* The last n elements of s, or all of s when it is shorter.
Newest(s, n) == SubSeq(s, IF Len(s) > n THEN Len(s) - n + 1 ELSE 1, Len(s))

Init == queue = <<>> /\ log = <<>>

Accept ==
    /\ Len(queue') = Len(queue) + 1
    /\ SubSeq(queue', 1, Len(queue)) = queue
    /\ UNCHANGED log

\* The oldest n accepted requests become visible together.
Publish ==
    \E n \in 1..Len(queue) :
        /\ log' = Newest(log \o SubSeq(queue, 1, n), Size)
        /\ queue' = SubSeq(queue, n + 1, Len(queue))

Next == Accept \/ Publish

Spec == Init /\ [][Next]_<<queue, log>>
=============================================================================
