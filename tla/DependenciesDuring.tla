------------------------- MODULE DependenciesDuring -------------------------
(***************************************************************************)
(* DependencyAttribution with a memory of which connections were open when *)
(* a connect was made, for what the README says of a request's             *)
(* dependencies.                                                           *)
(***************************************************************************)
EXTENDS DependencyAttribution

VARIABLE madeWhile    \* history: per connect, the connections open when it was made

Open == {accepted[s] : s \in Sockets} \ {None}

DuringInit ==
    /\ AttributionInit
    /\ madeWhile = [c \in 1..MaxConnects |-> {}]

DuringNext ==
    /\ AttributionNext
    /\ madeWhile' = IF connects' = connects THEN madeWhile
                    ELSE [madeWhile EXCEPT ![connects'] = Open]

DuringSpec == DuringInit /\ [][DuringNext]_<<attributionVars, madeWhile>>

\* What the README says a request's dependencies are, outbound calls made during the
\* request: a connect made during a request of its own thread that has been handled
\* is not found with a later request, one that was not even open then.
DependenciesMadeDuring ==
    \A i \in DOMAIN handled : \A c \in ConnectsOf(i) : \A j \in 1..(i - 1) :
        /\ acceptor[reqConns[j]] = maker[c]
        /\ reqConns[j] \in madeWhile[c]
        => reqConns[i] \in madeWhile[c]
=============================================================================
