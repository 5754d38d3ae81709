------------------------ MODULE MCDependenciesDuring ------------------------
(* One thread that serves one connection after another. *)
EXTENDS DependenciesDuring, MCDependencyAttribution
=============================================================================
