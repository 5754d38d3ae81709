-------------------------- MODULE MCRequestTracker --------------------------
(* Threads and processors are interchangeable, and so are the sockets.       *)
EXTENDS RequestTracker, TLC

CONSTANTS t1, t2, s1, s2, c1, c2

MCSymmetry ==
    Permutations({t1, t2}) \cup Permutations({s1, s2}) \cup Permutations({c1, c2})
=============================================================================
