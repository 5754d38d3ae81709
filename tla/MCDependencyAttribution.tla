---------------------- MODULE MCDependencyAttribution ----------------------
(* Two threads, one accepted connection after another and as many sockets as *)
(* are open together.                                                        *)
EXTENDS DependencyAttribution, TLC

CONSTANTS p1, t1, t2, s1, s2

MCThreads == Pids \X Tids
MCAges == {0}
MCSymmetry == Permutations({t1, t2}) \cup Permutations({s1, s2})
=============================================================================
