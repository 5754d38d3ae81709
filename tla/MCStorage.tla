----------------------------- MODULE MCStorage -----------------------------
(* A correlated profile with a dependency and a plain one without. *)
EXTENDS Storage

MCProfiles ==
    {[correlated |-> TRUE, system |-> FALSE, deps |-> 1],
     [correlated |-> FALSE, system |-> FALSE, deps |-> 0]}
=============================================================================
