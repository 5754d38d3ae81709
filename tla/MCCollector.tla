---------------------------- MODULE MCCollector ----------------------------
(* A pod of the target namespace with two containers that run the same program, *)
(* and one of another namespace; the name of the first's processes is a prefix  *)
(* of the name of the second's, which declares no port and may listen on the    *)
(* one that the first declares.                                                 *)
EXTENDS Collector, TLC

MCPods == <<[namespace |-> "shop", containers |-> 2, comms |-> {"ab"}, port |-> 1],
            [namespace |-> "ops", containers |-> 1, comms |-> {"abc"}, port |-> 0]>>
MCComms == {"ab", "abc"}
MCPrefixes == {<<"ab", "abc">>, <<"abc", "ab">>}
Symmetry == Permutations(Pids)
=============================================================================
