---------------------------- MODULE MCCorrelator ----------------------------
(* Two threads of one process, one resident set size of interest and a      *)
(* machine booted well after the epoch.                                     *)
EXTENDS Correlator

CONSTANTS p1, t1, t2

MCAges == {0, 2}
=============================================================================
